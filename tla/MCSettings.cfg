\* Connecting to data sources and by strings; calls of ConfigDSN, with failures.
CONSTANTS
  Names = {"A", "B"}
  Arguments <- MCArguments
  Strings <- MCStrings
  Edits <- MCEdits
  MaxCalls = 2
  MaxFailures = 1
  Inis <- MCAllInis
SPECIFICATION SettingsSpec
INVARIANTS
  SectionsOfOneWriting
  DriverReadsTheDialog
  LossIsTold
  RoundTrip
  FirstUseIsOfItsOwn
CHECK_DEADLOCK FALSE
