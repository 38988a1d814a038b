\* Three concurrent POSTs by two customers on two conversations, with crashes,
\* database failures and exceptions of the provider.
SPECIFICATION Spec
CONSTANTS
  Requests = {r1, r2, r3}
  c1 = c1
  c2 = c2
  v1 = v1
  v2 = v2
  Customers = {c1, c2}
  Conversations = {v1, v2}
  Owner <- OwnerOf
  Exchanges = {x1}
  Watchers = {}
  Faults = {"crash", "database", "provider"}
  NoRow = NoRow
SYMMETRY Symmetry
INVARIANTS
  TypeOK
  OneActivePerConversation
  AcceptedIsDurable
  UpdateOverwritesOwnRequest
  CreatedIsDurable
  ContextIsComplete
  NoDuplicateHandoff
PROPERTIES
  EscalationsOnlyAdvance
  ImplementsDesk
CHECK_DEADLOCK FALSE
