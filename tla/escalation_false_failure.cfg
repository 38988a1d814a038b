\* An escalation is reported failed although a human queue has it.
SPECIFICATION Spec
CONSTANTS
  Requests = {r1, r2}
  c1 = c1
  c2 = c2
  v1 = v1
  v2 = v2
  Customers = {c1}
  Conversations = {v1}
  Owner <- OwnerOfOne
  Exchanges = {}
  Watchers = {}
  Faults = {"lost_answer"}
  NoRow = NoRow
SYMMETRY Symmetry
INVARIANTS FailedMeansNotAccepted
CHECK_DEADLOCK FALSE
