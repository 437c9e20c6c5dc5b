SPECIFICATION FairPopSpec
CONSTANTS
  Producers = {p1, p2, p3}
  Messages = {a}
  Timeouts = {"instant", "forever"}
  Capacity = 2
  Undefined = Undefined
INVARIANTS SignalsAreHeard
PROPERTIES PushesReturn
