SPECIFICATION Spec
CONSTANTS
  Queries = {"history", "message", "presets"}
  Silent = {"presets"}
  Threads = {"gui", "tgcalls"}
  Gui = "gui"
  NoQuery = "none"
INVARIANTS TableMatchesRequests NobodyIsToldTwice
PROPERTIES Implements
CHECK_DEADLOCK FALSE
