SPECIFICATION Spec
CONSTANTS
  AppCap = 1
  TermioCap = 2
  RendererCap = 3
  SearchCap = 1
  Events = {"key", "mouse"}
  Programs = {{"query", "title"}}
  MaxEvents = 2
  MaxOutput = 3
  MaxAlarms = 0
INVARIANTS TypeOK NobodySleepsWithLock WriterWillLook AppWillLook FullRendererWillLook
