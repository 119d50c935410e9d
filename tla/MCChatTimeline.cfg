\* Drops from memory, failed and repeated fetches, message properties.
CONSTANTS
  MaxId = 2
  MaxUpdates = 2
  MaxRequests = 1
  MaxEvictions = 2
  RequestTypes = {"history", "message", "properties"}
SPECIFICATION Spec
INVARIANTS
  NoDuplicateRows
  BlankRowsAreFetched
  PropertiesFindMessage
CHECK_DEADLOCK FALSE
