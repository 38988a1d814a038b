\* Two POSTs while both customers poll both escalations; every fault.
SPECIFICATION FairSpec
CONSTANTS
  Requests = {r1, r2}
  c1 = c1
  c2 = c2
  v1 = v1
  v2 = v2
  Customers = {c1, c2}
  Conversations = {v1, v2}
  Owner <- OwnerOf
  Exchanges = {}
  Watchers = {c1, c2}
  Faults = {"crash", "database", "lost_answer", "provider"}
  NoRow = NoRow
INVARIANTS ReadsArePrivate QueuedOnlyIfAccepted
PROPERTIES ReadsFollowLifecycle EveryPostAnswered SettledUnlessInterrupted
CHECK_DEADLOCK FALSE
