\* A crash, a failing update or an uncaught exception of the provider leaves an
\* escalation requested for ever.
SPECIFICATION FairSpec
CONSTANTS
  Requests = {r1, r2}
  c1 = c1
  c2 = c2
  v1 = v1
  v2 = v2
  Customers = {c1}
  Conversations = {v1}
  Owner <- OwnerOfOne
  Exchanges = {}
  Watchers = {}
  Faults = {"crash", "database", "provider"}
  NoRow = NoRow
PROPERTIES RequestedIsSettled
CHECK_DEADLOCK FALSE
