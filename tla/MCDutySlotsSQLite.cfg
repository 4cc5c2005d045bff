CONSTANTS
  Slots = {s1}
  Adults = {a1, a2}
  Requests = {r1, r2}
  Nobody = Nobody
  NoRequest = NoRequest
  Serialized = TRUE
SPECIFICATION Spec
SYMMETRY Symmetry
PROPERTIES
  CancelledHistoryIsKept
