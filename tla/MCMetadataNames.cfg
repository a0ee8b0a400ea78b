\* Names of tables that are not there.
CONSTANTS
  Metadatas <- MCMetadatas
  Names <- MCNames
  LoginURL = "URL"
SPECIFICATION ViewSpec
INVARIANT TableNamesDoNotCrash
CHECK_DEADLOCK FALSE
