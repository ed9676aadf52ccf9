CONSTANTS
  Uris = {u1}
  Texts <- MCDocumented
  TypedIn <- MCTyped
  Askable <- MCAskable
  Canonical <- MCCanonical
  NewName = "amount"
  Finds <- Diagnose
  DefinitionOf <- FindDefinition
  ReferencesOf <- FindReferences
  Formatted <- Format
  Renaming <- Renamed
  PlacesOf <- Positions
  MaxChanges = 0
  MaxAsked = 0
  Pipe = 1
  u1 = u1
SPECIFICATION DocsSpec
INVARIANT KeepsRunning
CHECK_DEADLOCK FALSE
