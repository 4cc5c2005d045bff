CONSTANTS
  Invites = {i1}
  Tokens = {t1, t2}
  Adults = {parent}
  Nobody = Nobody
  NoToken = NoToken
  Copies = {1, 2, 3}
  Passes = {p1, p2}
  Workers = {w1}
  MaxAttempts = 2
  MaxCrashes = 1
  None = None
SPECIFICATION OutboxSpec
INVARIANTS
  TypeOK
  MarksAreTrue
  NewestMessageWorks
SYMMETRY Symmetry
CHECK_DEADLOCK FALSE
