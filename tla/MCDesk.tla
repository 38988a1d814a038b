------------------------------- MODULE MCDesk -------------------------------
(* Instance of EscalationDesk for TLC. *)
EXTENDS EscalationDesk, TLC

Symmetry == Permutations(Tickets) \cup Permutations(Conversations)
=============================================================================
