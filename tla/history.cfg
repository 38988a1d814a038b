\* Two GETs while two exchanges of one conversation are asked and stored.
SPECIFICATION Spec
CONSTANTS
  Gets = {g1, g2}
  x1 = x1
  x2 = x2
  c1 = c1
  c2 = c2
  v1 = v1
  v2 = v2
  Exchanges = {x1, x2}
  Customers = {c1, c2}
  Conversations = {v1, v2}
  Owner <- OwnerOf
  About <- AboutOf
  Evidence <- EvidenceOf
  LastDate = 1
  Nothing = Nothing
  Refused = Refused
SYMMETRY Symmetry
INVARIANTS
  TypeOK
  HistoryIsWhole
  AnsweredIsShown
  HistoryIsPrivate
  NewQuestionsComeLast
PROPERTIES ImplementsLog
CHECK_DEADLOCK FALSE
