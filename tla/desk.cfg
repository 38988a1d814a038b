\* The desk alone: four tickets about two conversations.
SPECIFICATION DeskSpec
CONSTANTS
  Tickets = {t1, t2, t3, t4}
  Conversations = {v1, v2}
SYMMETRY Symmetry
INVARIANTS HeldOnce ToldTheTruth
CHECK_DEADLOCK FALSE
