CONSTANTS
  Slots = {s1}
  Adults = {a1}
  Requests = {r1}
  Nobody = Nobody
  NoRequest = NoRequest
  Serialized = FALSE
SPECIFICATION Spec
PROPERTIES
  CancelledHistoryIsKept
