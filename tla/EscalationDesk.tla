--------------------------- MODULE EscalationDesk ---------------------------
(***************************************************************************)
(* What escalation promises, without requests, transactions or threads: a  *)
(* desk with at most one active ticket per conversation, human queues that *)
(* take over open tickets, and customers who are told an outcome only once *)
(* it is the outcome.  (docs/DECISIONS.md, D-031 and D-032; the service    *)
(* that should keep the promise is modelled by CreateEscalation.)          *)
(***************************************************************************)
CONSTANTS Tickets, Conversations

VARIABLES
  about,   \* the conversation each ticket is about
  ticket,  \* the state of each ticket
  held,    \* the tickets a human queue has taken over
  told     \* what the customer who asked for the ticket was told

deskVars == <<about, ticket, held, told>>

Active == {"requested", "queued"}

DeskTypeOK ==
  /\ about \in [Tickets -> Conversations]
  /\ ticket \in [Tickets -> Active \cup {"none", "failed"}]
  /\ held \subseteq Tickets
  /\ told \in [Tickets -> {"nothing", "refused", "queued", "failed"}]

DeskInit ==
  /\ about \in [Tickets -> Conversations]
  /\ ticket = [t \in Tickets |-> "none"]
  /\ held = {}
  /\ told = [t \in Tickets |-> "nothing"]

(* The customer hears that no outcome can be given; this may come with a   *)
(* step of the ticket or alone.                                            *)
MaybeRefuse(t) ==
  \/ UNCHANGED told
  \/ told[t] = "nothing" /\ told' = [told EXCEPT ![t] = "refused"]

(* Error: a second ticket while one is being taken over. *)
OpenUnlessQueued(t) ==
  /\ ticket[t] = "none" /\ told[t] = "nothing"
  /\ \A u \in Tickets : about[u] = about[t] => ticket[u] # "queued"
  /\ ticket' = [ticket EXCEPT ![t] = "requested"]
  /\ MaybeRefuse(t)
  /\ UNCHANGED <<about, held>>

Open(t) ==
  /\ ticket[t] = "none" /\ told[t] = "nothing"
  /\ \A u \in Tickets : about[u] = about[t] => ticket[u] \notin Active
  /\ ticket' = [ticket EXCEPT ![t] = "requested"]
  /\ MaybeRefuse(t)
  /\ UNCHANGED <<about, held>>

TakeOver(t) ==
  /\ ticket[t] = "requested" /\ told[t] = "nothing"
  /\ held' = held \cup {t}
  /\ MaybeRefuse(t)
  /\ UNCHANGED <<about, ticket>>

(* Error: a ticket fails although a queue holds it. *)
SettleBlindly(t) ==
  /\ ticket[t] = "requested"
  /\ \E s \in {"queued", "failed"} : ticket' = [ticket EXCEPT ![t] = s]
  /\ MaybeRefuse(t)
  /\ UNCHANGED <<about, held>>

Settle(t) ==
  /\ ticket[t] = "requested"
  /\ ticket' = [ticket EXCEPT ![t] = IF t \in held THEN "queued" ELSE "failed"]
  /\ MaybeRefuse(t)
  /\ UNCHANGED <<about, held>>

(* Error: the outcome is told before it is known. *)
TellEarly(t) ==
  /\ told[t] = "nothing"
  /\ ticket[t] # "none"
  /\ told' = [told EXCEPT ![t] = ticket[t]]
  /\ UNCHANGED <<about, ticket, held>>

Tell(t) ==
  /\ told[t] = "nothing"
  /\ ticket[t] \in {"queued", "failed"}
  /\ told' = [told EXCEPT ![t] = ticket[t]]
  /\ UNCHANGED <<about, ticket, held>>

Refuse(t) ==
  /\ told[t] = "nothing"
  /\ told' = [told EXCEPT ![t] = "refused"]
  /\ UNCHANGED <<about, ticket, held>>

DeskNext ==
  \E t \in Tickets : Open(t) \/ TakeOver(t) \/ Settle(t) \/ Tell(t) \/ Refuse(t)

DeskSpec == DeskInit /\ [][DeskNext]_deskVars

-----------------------------------------------------------------------------
(* Human queues never hold two tickets of one conversation: what was       *)
(* handed over stays active, so nothing is handed over twice.              *)
HeldOnce ==
  \A t, u \in held : about[t] = about[u] => t = u

(* Whoever was told "queued" is in a queue, and whoever was told "failed"  *)
(* is in none (never falsely report an escalation request).                *)
ToldTheTruth ==
  \A t \in Tickets : /\ told[t] = "queued" => t \in held
                     /\ told[t] = "failed" => t \notin held
=============================================================================
