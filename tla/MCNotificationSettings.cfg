SPECIFICATION SettingsSpec
CONSTANTS
  Stored <- MCStored
  MaxQueue = 2
  MaxRequests = 2
  MaxActs = 3
INVARIANT ChoicesStay
PROPERTY SwitchSettles
CHECK_DEADLOCK FALSE
