SPECIFICATION Spec
CONSTANTS
  Legacy = legacy
  Default = default
  Elsewhere = {other}
  Types = {"wifi", "cellular"}
  Fetched = {}
  Limited = {photo}
  MaxQueue = 1
  MaxIncidents = 1
  MaxActs = 3
INVARIANTS SettingNamesTheData SettingsAreInForce
PROPERTY MovesAreSettled
CHECK_DEADLOCK FALSE
