CONSTANTS
  Invites = {i1, i2}
  Tokens = {t1, t2}
  parent = parent
  friend = friend
  Adults = {owner, parent}
  Creator = owner
  Nobody = Nobody
  NoToken = NoToken
  family = family
  Labels = {family, friend}
  e1 = e1
  Edges = {e1}
  NoEdge = NoEdge
  Placeholder = Placeholder
  Offers <- RaceOffers
  Requests = {r1, r2}
  NoRequest = NoRequest
  Serialized = FALSE
SPECIFICATION InvitationsSpec
SYMMETRY Symmetry
PROPERTIES
  AnswerNeverOutrunsGrant
