SPECIFICATION Spec
CONSTANTS
  Producers = {p1, p2}
  Messages = {a, b}
  Timeouts = {"instant", "forever", "ns"}
  Capacity = 3
  Undefined = Undefined
INVARIANTS TypeOK CountersAgree NoLostWakeup
PROPERTIES ImplementsFifo
SYMMETRY Symmetry
