SPECIFICATION Spec
CONSTANTS
  Emojis = {e1}
  Messages = {m1, m2}
  Fetched <- FilesOfEmojis
  Limited = {}
  MaxQueue = 2
  MaxIncidents = 1
  MaxQueries = 2
INVARIANTS FilesAgree EmojisAreCurrentOrAwaited
PROPERTY EmojisAppear
CHECK_DEADLOCK FALSE
