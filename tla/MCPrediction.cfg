SPECIFICATION Spec
CONSTANTS
  Places = {p1, p2}
  Texts = {t1, t2}
  Middle = Middle
  Elsewhere = Elsewhere
  Run = Run
  None = None
  AppCap = 2
  MaxEvents = 5
  MaxEcho = 2
INVARIANTS TypeOK EngineAgrees ContextCurrent
PROPERTIES AcceptedForThisLine
SYMMETRY Symmetry
CHECK_DEADLOCK FALSE
