SPECIFICATION Spec
CONSTANTS
  Message = {1, 2}
  MaxSearches = 2
  MaxQueue = 2
  Plain = {chat, topic}
  Emoji = {emoji}
  Other = {}
  Capacity = 1
  MaxActs = 3
INVARIANTS PinsAreReachable ListIsExact MentionsAgree ScreenAgrees
PROPERTY NobodyInFrontIsTold
CHECK_DEADLOCK FALSE
