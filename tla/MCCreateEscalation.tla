------------------------- MODULE MCCreateEscalation -------------------------
(* Instances of CreateEscalation for TLC. *)
EXTENDS CreateEscalation, TLC

CONSTANTS c1, c2, v1, v2

(* Conversation v1 belongs to c1 and v2 to c2, so a call may name a        *)
(* conversation of somebody else.                                          *)
OwnerOf == v1 :> c1 @@ v2 :> c2

(* One conversation of one customer. *)
OwnerOfOne == v1 :> c1

Symmetry == Permutations(Requests)
=============================================================================
