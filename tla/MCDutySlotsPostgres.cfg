CONSTANTS
  Slots = {s1}
  Adults = {a1, a2}
  Requests = {r1, r2}
  Nobody = Nobody
  NoRequest = NoRequest
  Serialized = FALSE
SPECIFICATION Spec
SYMMETRY Symmetry
INVARIANTS
  TypeOK
  HoldersAreTeamAdults
PROPERTIES
  NoBlindOverwrite
  ImplementsBoard
