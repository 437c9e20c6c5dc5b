SPECIFICATION FairSpec
CONSTANTS
  AppCap = 6
  TermioCap = 3
  RendererCap = 6
  SearchCap = 1
  Events = {"resize", "config", "focus", "find", "endfind", "close"}
  Programs = {{}}
  MaxEvents = 2
  MaxOutput = 0
  MaxAlarms = 1
INVARIANTS JoinOrder
PROPERTIES CloseEnds
CHECK_DEADLOCK FALSE
