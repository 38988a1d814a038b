\* Migrations between three revisions around two seeds and a server thread.
SPECIFICATION Spec
CONSTANTS
  Targets = {0, 5, 6}
  Ids = {alice, bob}
  Tokens = {k1, k2}
  Seeds = {s1, s2}
  Requests = {r1}
  Conversations = {v1}
  Escalations = {e1}
  Kinds = {"comparison"}
SYMMETRY Symmetry
INVARIANTS MigrationsApply SchemaIsARevision NoOrphans SeededTokenIsKnown ServedAtLatest
CHECK_DEADLOCK FALSE
