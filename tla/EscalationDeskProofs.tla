------------------------ MODULE EscalationDeskProofs ------------------------
(* The promises of the desk hold for any number of tickets.                *)
EXTENDS EscalationDesk, TLAPS

(* A conversation has at most one ticket that is requested or queued. *)
OneActiveTicket ==
  \A t, u \in Tickets :
    t # u /\ about[t] = about[u] => ~(ticket[t] \in Active /\ ticket[u] \in Active)

(* A held ticket stays active, a told outcome is the ticket's, and nobody  *)
(* hears of a ticket before it is opened.                                  *)
DeskInv ==
  /\ DeskTypeOK
  /\ OneActiveTicket
  /\ \A t \in Tickets :
       /\ t \in held => ticket[t] \in Active
       /\ ticket[t] = "queued" => t \in held
       /\ told[t] \in {"queued", "failed"} => ticket[t] = told[t]

LEMMA DeskInvInductive == DeskSpec => []DeskInv
<1>1. DeskInit => DeskInv
  BY DEF DeskInit, DeskInv, DeskTypeOK, OneActiveTicket, Active
<1>2. DeskInv /\ [DeskNext]_deskVars => DeskInv'
  <2> SUFFICES ASSUME DeskInv, [DeskNext]_deskVars PROVE DeskInv'
    OBVIOUS
  <2>1. ASSUME NEW t \in Tickets, Open(t) PROVE DeskInv'
    BY <2>1 DEF Open, MaybeRefuse, DeskInv, DeskTypeOK, OneActiveTicket, Active
  <2>2. ASSUME NEW t \in Tickets, TakeOver(t) PROVE DeskInv'
    BY <2>2 DEF TakeOver, MaybeRefuse, DeskInv, DeskTypeOK, OneActiveTicket, Active
  <2>3. ASSUME NEW t \in Tickets, Settle(t) PROVE DeskInv'
    BY <2>3 DEF Settle, MaybeRefuse, DeskInv, DeskTypeOK, OneActiveTicket, Active
  <2>4. ASSUME NEW t \in Tickets, Tell(t) PROVE DeskInv'
    BY <2>4 DEF Tell, DeskInv, DeskTypeOK, OneActiveTicket, Active
  <2>5. ASSUME NEW t \in Tickets, Refuse(t) PROVE DeskInv'
    BY <2>5 DEF Refuse, DeskInv, DeskTypeOK, OneActiveTicket, Active
  <2>6. CASE UNCHANGED deskVars
    BY <2>6 DEF deskVars, DeskInv, DeskTypeOK, OneActiveTicket
  <2> QED
    BY <2>1, <2>2, <2>3, <2>4, <2>5, <2>6 DEF DeskNext
<1> QED
  BY <1>1, <1>2, PTL DEF DeskSpec

(* No two tickets of a conversation in human queues. *)
THEOREM DeskHeldOnce == DeskSpec => []HeldOnce
<1>1. DeskInv => HeldOnce
  BY DEF DeskInv, DeskTypeOK, OneActiveTicket, HeldOnce
<1> QED
  BY <1>1, DeskInvInductive, PTL

(* The desk never tells a customer an outcome that is not so. *)
THEOREM DeskTruth == DeskSpec => []ToldTheTruth
<1>1. DeskInv => ToldTheTruth
  BY DEF DeskInv, DeskTypeOK, ToldTheTruth, Active
<1> QED
  BY <1>1, DeskInvInductive, PTL
=============================================================================
