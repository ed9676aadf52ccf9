CONSTANTS
  Uris = {u1}
  Texts <- MCTexts
  TypedIn <- MCTyped
  Askable <- MCAskable
  Canonical <- MCCanonical
  NewName = "amount"
  Finds <- Diagnose
  DefinitionOf <- FindDefinition
  ReferencesOf <- FindReferences
  Formatted <- Format
  Renaming <- Renamed
  PlacesOf <- Positions
  MaxChanges = 1
  MaxAsked = 1
  Pipe = 2
  u1 = u1
SPECIFICATION DocsSpec
INVARIANTS ParserEnds TreeIsText AlarmsRight AnswersRight Current
CHECK_DEADLOCK FALSE
