-------------------------- MODULE ConversationLog --------------------------
(***************************************************************************)
(* What a conversation history promises: a log of entries (a question, its *)
(* answer and the evidence of the answer) that grows by one entry at a     *)
(* time, and readers who each get the entries the log held at one moment.  *)
(* (docs/ARCHITECTURE.md, conversation-history contract; the several       *)
(* SELECTs that should keep the promise are modelled by                    *)
(* ConversationHistory.)                                                   *)
(***************************************************************************)
CONSTANTS
  Entries, Readers, Conversations,
  Topic,    \* the conversation of each entry
  Nothing,  \* a reader who has not read
  Refused   \* a reader who may not read

VARIABLES
  log,     \* the entries so far
  wants,   \* the conversation each reader asks for
  picked,  \* the entries the log held when a reader read it
  shown    \* what the reader was shown

logVars == <<log, wants, picked, shown>>

LogInit ==
  /\ log = {}
  /\ wants \in [Readers -> Conversations]
  /\ picked = [g \in Readers |-> Nothing]
  /\ shown = [g \in Readers |-> Nothing]

Append(e) ==
  /\ e \notin log
  /\ log' = log \cup {e}
  /\ UNCHANGED <<wants, picked, shown>>

Pick(g) ==
  /\ picked[g] = Nothing /\ shown[g] = Nothing
  /\ picked' = [picked EXCEPT ![g] = {e \in log : Topic[e] = wants[g]}]
  /\ UNCHANGED <<log, wants, shown>>

Show(g) ==
  /\ picked[g] # Nothing /\ shown[g] = Nothing
  /\ shown' = [shown EXCEPT ![g] = picked[g]]
  /\ UNCHANGED <<log, wants, picked>>

Refuse(g) ==
  /\ picked[g] = Nothing /\ shown[g] = Nothing
  /\ shown' = [shown EXCEPT ![g] = Refused]
  /\ UNCHANGED <<log, wants, picked>>

LogNext ==
  \/ \E e \in Entries : Append(e)
  \/ \E g \in Readers : Pick(g) \/ Show(g) \/ Refuse(g)

LogSpec == LogInit /\ [][LogNext]_logVars
=============================================================================
