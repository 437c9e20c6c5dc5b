SPECIFICATION FairSpec
CONSTANTS
  AppCap = 1
  TermioCap = 2
  RendererCap = 3
  SearchCap = 1
  Events = {"close"}
  Programs = {{"notice"}}
  MaxEvents = 1
  MaxOutput = 3
  MaxAlarms = 0
PROPERTIES NoisyCloseEnds
CHECK_DEADLOCK FALSE
