SPECIFICATION ComposerSpec
CONSTANTS
  MaxActs = 2
  MaxRequests = 2
  MaxQueue = 1
INVARIANTS DraftsAgree NothingIsLost WordsGoWhereMeant
CHECK_DEADLOCK FALSE
