SPECIFICATION Spec
CONSTANTS
  a = a
  b = b
  c = c
  Set <- MCSet
  AtFirst <- MCAtFirst
  MaxActs = 2
  MaxQueue = 1
INVARIANT RowsShowTheirSets
PROPERTIES GridStaysPut PickedSetAppears
CHECK_DEADLOCK FALSE
