SPECIFICATION Spec
CONSTANTS
  Queries = {"history", "message", "presets"}
  Silent = {"presets"}
  Threads = {"gui"}
  Gui = "gui"
  NoQuery = "none"
INVARIANTS RequestIdIsNonZero
CHECK_DEADLOCK FALSE
