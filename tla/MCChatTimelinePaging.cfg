\* History pages against new, sent and deleted messages.
CONSTANTS
  MaxId = 3
  MaxUpdates = 2
  MaxRequests = 1
  MaxEvictions = 0
  RequestTypes = {"history"}
SPECIFICATION Spec
INVARIANTS
  RowShowsItsMessage
  RowsAreLive
  HolesAreExplained
  LastMessageAgrees
PROPERTY FollowsNewMessages
CHECK_DEADLOCK FALSE
