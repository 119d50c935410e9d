\* The lists, the folder and the view of one chat.
SPECIFICATION Spec
CONSTANTS
  Chats = {c1}
  Folders = {"work"}
  MaxOrder = 2
  MaxUpdates = 1
  MaxChanges = 4
INVARIANTS ListsMatchPositions CrashNeedsLeftFolder ViewKnowsRows PositionsAgree
PROPERTIES ViewCatchesUp
CHECK_DEADLOCK FALSE
