----------------------- MODULE MCConversationHistory -----------------------
(* Instance of ConversationHistory for TLC. *)
EXTENDS ConversationHistory, TLC

CONSTANTS c1, c2, v1, v2, x1, x2

OwnerOf == v1 :> c1 @@ v2 :> c2

(* Two exchanges of one conversation; v2 stays empty. *)
AboutOf == x1 :> v1 @@ x2 :> v1

(* The answer about a charge cites two tables, the one about the plan one. *)
EvidenceOf == x1 :> {"bill", "charge"} @@ x2 :> {"plan"}

Symmetry == Permutations(Gets)
=============================================================================
