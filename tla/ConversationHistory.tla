------------------------ MODULE ConversationHistory ------------------------
(***************************************************************************)
(* GET /v1/conversations/{id} while message requests store exchanges.      *)
(* get_history reads the conversation, its messages and the four evidence  *)
(* tables by one SELECT each.  The session is PostgreSQL's default, READ   *)
(* COMMITTED, so each SELECT sees whatever is committed when it runs.      *)
(* Messages are dated by the service's clock before they are stored, and   *)
(* listed by that date; the random ids that order equal dates are not      *)
(* modelled, so neither is the order of equal dates.                       *)
(***************************************************************************)
EXTENDS Naturals

CONSTANTS
  Exchanges,      \* exchanges that message requests may store
  Gets,           \* GET requests
  Customers, Conversations,
  Owner,          \* the customer each conversation belongs to
  About,          \* the conversation of each exchange
  Evidence,       \* the kinds of evidence each exchange's answer cites
  LastDate,       \* bound: the last date the clock shows
  Nothing,        \* no history yet
  Refused         \* the conversation is not found

Kinds == {"plan", "bill", "charge", "comparison"}

ASSUME OwnerAssumption == Owner \in [Conversations -> Customers]
ASSUME ExchangeAssumption == /\ About \in [Exchanges -> Conversations]
                             /\ Evidence \in [Exchanges -> SUBSET Kinds]
ASSUME DateAssumption == LastDate \in Nat

VARIABLES
  clock,     \* the service's clock
  stage,     \* where each message request is
  asked,     \* created_at of each question
  answered,  \* created_at of each answer
  after,     \* the GETs that were answered before a question arrived
  messages,  \* messages table
  links,     \* the four evidence tables
  call,      \* the customer and conversation of each GET
  pc,        \* where each GET is in get_history
  due,       \* exchanges of the conversation answered before the GET arrived
  rows,      \* local `records`
  found      \* local `evidence_by_message`

writer == <<stage, asked, answered, after>>
store == <<messages, links>>
reader == <<call, pc, due, rows, found>>
vars == <<clock, stage, asked, answered, after, messages, links,
          call, pc, due, rows, found>>

Dates == 0..LastDate
WriterStages == {"idle", "asked", "answered", "stored", "replied", "lost"}
ReaderStages == {"idle", "conversation", "messages", "respond", "done", "not_found"} \cup Kinds

Init ==
  /\ clock = 0
  /\ stage = [x \in Exchanges |-> "idle"]
  /\ asked = [x \in Exchanges |-> 0]
  /\ answered = [x \in Exchanges |-> 0]
  /\ after = [x \in Exchanges |-> {}]
  /\ messages = {} /\ links = {}
  /\ call \in [Gets -> [customer : Customers, conversation : Conversations]]
  /\ pc = [g \in Gets |-> "idle"]
  /\ due = [g \in Gets |-> {}]
  /\ rows = [g \in Gets |-> {}]
  /\ found = [g \in Gets |-> {}]

Tick ==
  /\ clock < LastDate
  /\ clock' = clock + 1
  /\ UNCHANGED <<writer, store, reader>>

-----------------------------------------------------------------------------
(* Message requests (SendSupportMessage, with everything but dates and     *)
(* evidence left out)                                                      *)

(* Error: the question carries the date of the customer's own clock. *)
AskDatedByCustomer(x) ==
  /\ stage[x] = "idle"
  /\ stage' = [stage EXCEPT ![x] = "asked"]
  /\ \E date \in Dates : asked' = [asked EXCEPT ![x] = date]
  /\ after' = [after EXCEPT ![x] = {g \in Gets : pc[g] = "done"}]
  /\ UNCHANGED <<clock, answered, store, reader>>

(* Error: the question is dated in a local time that is ahead of the clock. *)
AskInLocalTime(x) ==
  /\ stage[x] = "idle"
  /\ stage' = [stage EXCEPT ![x] = "asked"]
  /\ asked' = [asked EXCEPT ![x] = clock + 1]
  /\ after' = [after EXCEPT ![x] = {g \in Gets : pc[g] = "done"}]
  /\ UNCHANGED <<clock, answered, store, reader>>

(* The conversation is owned; the question is dated. *)
Ask(x) ==
  /\ stage[x] = "idle"
  /\ stage' = [stage EXCEPT ![x] = "asked"]
  /\ asked' = [asked EXCEPT ![x] = clock]
  /\ after' = [after EXCEPT ![x] = {g \in Gets : pc[g] = "done"}]
  /\ UNCHANGED <<clock, answered, store, reader>>

(* _assistant_message: the answer is composed and dated. *)
Compose(x) ==
  /\ stage[x] = "asked"
  /\ stage' = [stage EXCEPT ![x] = "answered"]
  /\ answered' = [answered EXCEPT ![x] = clock]
  /\ UNCHANGED <<clock, asked, after, store, reader>>

Message(x, role) ==
  [exchange |-> x, role |-> role,
   date |-> IF role = "user" THEN asked[x] ELSE answered[x]]

(* The transaction of add commits both messages with all their evidence. *)
Commit(x) ==
  /\ stage[x] = "answered"
  /\ stage' = [stage EXCEPT ![x] = "stored"]
  /\ messages' = messages \cup {Message(x, "user"), Message(x, "assistant")}
  /\ links' = links \cup {[exchange |-> x, kind |-> k] : k \in Evidence[x]}
  /\ UNCHANGED <<clock, asked, answered, after, reader>>

(* Error: the answer is sent while it is being stored, and may get lost. *)
ReplyEarly(x) ==
  /\ stage[x] = "answered"
  /\ stage' = [stage EXCEPT ![x] = "replied"]
  /\ UNCHANGED <<clock, asked, answered, after, store, reader>>

(* 201 Created. *)
Reply(x) ==
  /\ stage[x] = "stored"
  /\ stage' = [stage EXCEPT ![x] = "replied"]
  /\ UNCHANGED <<clock, asked, answered, after, store, reader>>

(* An error or a crash ends the request without an answer, before or after *)
(* its commit.                                                             *)
Lose(x) ==
  /\ stage[x] \in {"asked", "answered", "stored"}
  /\ stage' = [stage EXCEPT ![x] = "lost"]
  /\ UNCHANGED <<clock, asked, answered, after, store, reader>>

-----------------------------------------------------------------------------
(* GET requests *)

Goto(g, s) == pc' = [pc EXCEPT ![g] = s]

Receive(g) ==
  /\ pc[g] = "idle"
  /\ Goto(g, "conversation")
  /\ due' = [due EXCEPT ![g] = {x \in Exchanges : /\ stage[x] = "replied"
                                                  /\ About[x] = call[g].conversation}]
  /\ UNCHANGED <<clock, writer, store, call, rows, found>>

(* Error: the conversation is looked up without its customer. *)
FindAnyConversation(g) ==
  /\ pc[g] = "conversation"
  /\ Goto(g, "messages")
  /\ UNCHANGED <<clock, writer, store, call, due, rows, found>>

(* The first SELECT: by id and customer. *)
FindConversation(g) ==
  /\ pc[g] = "conversation"
  /\ Goto(g, IF Owner[call[g].conversation] = call[g].customer
             THEN "messages" ELSE "not_found")
  /\ UNCHANGED <<clock, writer, store, call, due, rows, found>>

MessagesOf(v) == {m \in messages : About[m.exchange] = v}

(* The second SELECT; without messages the evidence is not read. *)
ReadMessages(g) ==
  /\ pc[g] = "messages"
  /\ rows' = [rows EXCEPT ![g] = MessagesOf(call[g].conversation)]
  /\ Goto(g, IF rows'[g] = {} THEN "respond" ELSE "plan")
  /\ UNCHANGED <<clock, writer, store, call, due, found>>

(* The evidence tables are read in this order. *)
AfterTable == [plan |-> "bill", bill |-> "charge", charge |-> "comparison",
               comparison |-> "respond"]

(* The committed rows of a table for the messages read before. *)
LinksFor(g, kind) ==
  {l \in links : l.kind = kind /\ \E m \in rows[g] : m.exchange = l.exchange}

(* Error: the messages are loaded again when the evidence has been read. *)
ReadEvidenceAndMessages(g) ==
  /\ pc[g] \in Kinds
  /\ found' = [found EXCEPT ![g] = @ \cup LinksFor(g, pc[g])]
  /\ rows' = [rows EXCEPT ![g] = MessagesOf(call[g].conversation)]
  /\ Goto(g, AfterTable[pc[g]])
  /\ UNCHANGED <<clock, writer, store, call, due>>

(* The third to the sixth SELECT. *)
ReadEvidence(g) ==
  /\ pc[g] \in Kinds
  /\ found' = [found EXCEPT ![g] = @ \cup LinksFor(g, pc[g])]
  /\ Goto(g, AfterTable[pc[g]])
  /\ UNCHANGED <<clock, writer, store, call, due, rows>>

(* 200 OK with messages and evidence. *)
Respond(g) ==
  /\ pc[g] = "respond"
  /\ Goto(g, "done")
  /\ UNCHANGED <<clock, writer, store, call, due, rows, found>>

Next ==
  \/ Tick
  \/ \E x \in Exchanges : Ask(x) \/ Compose(x) \/ Commit(x) \/ Reply(x) \/ Lose(x)
  \/ \E g \in Gets : \/ Receive(g) \/ FindConversation(g) \/ ReadMessages(g)
                     \/ ReadEvidence(g) \/ Respond(g)

Spec == Init /\ [][Next]_vars

-----------------------------------------------------------------------------
(* Properties *)

Roles == {"user", "assistant"}
MessageRows == [exchange : Exchanges, role : Roles, date : Dates]
LinkRows == [exchange : Exchanges, kind : Kinds]

(* Every variable stays in its type. *)
TypeOK ==
  /\ clock \in Dates
  /\ stage \in [Exchanges -> WriterStages]
  /\ asked \in [Exchanges -> Dates]
  /\ answered \in [Exchanges -> Dates]
  /\ after \in [Exchanges -> SUBSET Gets]
  /\ messages \subseteq MessageRows
  /\ links \subseteq LinkRows
  /\ call \in [Gets -> [customer : Customers, conversation : Conversations]]
  /\ pc \in [Gets -> ReaderStages]
  /\ due \in [Gets -> SUBSET Exchanges]
  /\ rows \in [Gets -> SUBSET MessageRows]
  /\ found \in [Gets -> SUBSET LinkRows]

Listed(g) == {m.exchange : m \in rows[g]}

(* No history is torn, although it is put together from six SELECTs that   *)
(* other transactions commit between: it lists a question with its answer, *)
(* and an answer with all its evidence and no other.                       *)
HistoryIsWhole ==
  \A g \in Gets : pc[g] = "done" =>
    /\ \A x \in Listed(g), role \in Roles :
         \E m \in rows[g] : m.exchange = x /\ m.role = role
    /\ found[g] = {l \in LinkRows : l.exchange \in Listed(g) /\ l.kind \in Evidence[l.exchange]}

(* A customer finds in the history every exchange answered before they     *)
(* asked for it.                                                           *)
AnsweredIsShown ==
  \A g \in Gets : pc[g] = "done" => due[g] \subseteq Listed(g)

(* A history lists only exchanges of the conversation asked for, and only  *)
(* its owner gets it.                                                      *)
HistoryIsPrivate ==
  \A g \in Gets : pc[g] = "done" =>
    /\ Owner[call[g].conversation] = call[g].customer
    /\ \A x \in Listed(g) : About[x] = call[g].conversation

(* A question asked after a history was shown is listed behind everything  *)
(* it showed.  (A question that was in flight may still be listed before.) *)
NewQuestionsComeLast ==
  \A n \in messages : \A g \in after[n.exchange] : \A m \in rows[g] : m.date <= n.date

-----------------------------------------------------------------------------
(* The log this read model implements: an entry is an exchange with the    *)
(* evidence of its answer.  A reader picks the entries by the second       *)
(* SELECT and is shown whatever messages and evidence were put together.   *)
Entry(x, kinds) == [exchange |-> x, conversation |-> About[x], evidence |-> kinds]
AllEntries == {Entry(x, Evidence[x]) : x \in Exchanges}

ASSUME NothingAssumption == \A s \in SUBSET AllEntries : s # Nothing

HasRead(g) == pc[g] \in Kinds \cup {"respond", "done"}

Picked(g) == IF HasRead(g) THEN {Entry(x, Evidence[x]) : x \in Listed(g)} ELSE Nothing

Assembled(g) ==
  {Entry(x, {l.kind : l \in {k \in found[g] : k.exchange = x}}) : x \in Listed(g)}

Shown(g) == CASE pc[g] = "done"      -> Assembled(g)
              [] pc[g] = "not_found" -> Refused
              [] OTHER               -> Nothing

Log == INSTANCE ConversationLog WITH
         Entries <- AllEntries,
         Readers <- Gets,
         Topic   <- [e \in AllEntries |-> e.conversation],
         log     <- {Entry(x, Evidence[x]) : x \in {m.exchange : m \in messages}},
         wants   <- [g \in Gets |-> call[g].conversation],
         picked  <- [g \in Gets |-> Picked(g)],
         shown   <- [g \in Gets |-> Shown(g)]

(* Every behaviour is one of the log: the SELECTs of a GET have the effect *)
(* of a single look at the log, which is what CreateEscalation takes       *)
(* get_history for.                                                        *)
ImplementsLog == Log!LogSpec
=============================================================================
