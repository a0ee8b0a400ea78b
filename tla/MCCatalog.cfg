\* Two servers, both kinds of names; conversions of every text, and what is told of
\* every column.
CONSTANTS
  Metadatas <- MCMetadatas
  Names <- MCNames
  LoginURL = "URL"
  Fields <- MCFields
  Settings <- MCSettings
  Texts <- MCTexts
  Targets <- MCTargets
  Base = 4
SPECIFICATION CatalogSpec
INVARIANTS
  ListedIsSelectable
  KeyOfTheClass
  ValuesAreTrue
  IndicatorIsTrue
  GoodTextsArrive
  DescriptionsAgree
CHECK_DEADLOCK FALSE
