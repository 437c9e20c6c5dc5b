SPECIFICATION Spec
CONSTANTS
  AppCap = 1
  IoCap = 1
  RendererCap = 1
  MaxEvents = 3
  Sizes = {s1, s2}
  NoSize = NoSize
  Shader = "focused"
INVARIANTS TypeOK SecureInputFollows TimersRun LastSizeApplied ScrollAgrees FrameCurrent
SYMMETRY Symmetry
CHECK_DEADLOCK FALSE
