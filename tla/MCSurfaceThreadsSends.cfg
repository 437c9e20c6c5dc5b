SPECIFICATION FairSpec
CONSTANTS
  AppCap = 2
  TermioCap = 1
  RendererCap = 3
  SearchCap = 1
  Events = {"config", "key"}
  Programs = {{}}
  MaxEvents = 2
  MaxOutput = 0
  MaxAlarms = 0
PROPERTIES SendEnds
CHECK_DEADLOCK FALSE
