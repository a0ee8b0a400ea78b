\* Booleans, dates and numbers that are not read as the texts of the repository say.
CONSTANTS
  Fields <- MCFields
  Settings <- MCSettings
  Texts <- MCMisread
  Targets <- MCTargets
  Base = 4
SPECIFICATION Spec
INVARIANT ValuesAreAsDocumented
