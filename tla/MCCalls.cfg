SPECIFICATION Spec
CONSTANTS
  MaxCalls = 2
  MaxMessages = 1
  MaxActs = 2
INVARIANTS EndedCallLeavesNothing ScreenShowsTheCall UserActsOnTheCall NoHandlerIsLost
PROPERTIES HangupEndsTheCall
CHECK_DEADLOCK FALSE
