CONSTANTS
  c1 = c1
  c2 = c2
  o1 = o1
  o2 = o2
  t1 = t1
  t2 = t2
  t3 = t3
  Adults = {ann, bob}
  Teams = {t1, t2, t3}
  Seasonless = {t3}
  Listings <- MCListings
  Nobody = Nobody
  NoTeam = NoTeam
  NoCookie = NoCookie
  MaxCalls = 3
  Contexts = {c1, c2}
  Occurrences = {o1, o2}
  NoContext = NoContext
  NoOccurrence = NoOccurrence
  MaxUses = 4
SPECIFICATION NativeSpec
SYMMETRY Symmetry
INVARIANTS
  SignedOutMeansNoSession
  NewestCallsAreShown
  SpinnersHaveWork
CHECK_DEADLOCK FALSE
