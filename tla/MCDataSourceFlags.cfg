\* Flags given by a connection string that names a data source.
CONSTANTS
  Names = {"A", "B"}
  Arguments <- MCArguments
  Strings <- MCStrings
  Inis <- MCInis
SPECIFICATION Spec
INVARIANT
  GivenFlagsCount
