CONSTANTS
  k1 = k1
  r1 = r1
  r2 = r2
  c1 = c1
  c2 = c2
  None = None
  Defaults <- MCDefaults
  Clusters = {c1, c2}
  Requests = {r1, r2}
  Credentials = {k1}
  Forms <- MCForms
  Settings <- MCSettings
  Foreign <- MCForeign
  MaxWrites = 2
SPECIFICATION Spec
INVARIANTS
  TypeOK
  MachinesDisjoint
  SavedDisjoint
  CredentialsKept
  SuggestionIsAccepted
  RoomIsSuggested
  UnchangedIsAccepted
SYMMETRY Symmetry
