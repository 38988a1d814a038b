------------------------- MODULE SendSupportMessage -------------------------
(***************************************************************************)
(* POST /v1/conversations/{id}/messages as executed by                     *)
(* SendSupportMessageService: ownership, routing, the reads of the         *)
(* external sources, the model call with its one retry, the grounded or    *)
(* unavailable answer, and the single transaction that stores the question *)
(* with its answer, snapshots and evidence links.                          *)
(*                                                                         *)
(* Requests run concurrently.  Between two calls of a request the sources  *)
(* may publish other data, the day may end, the server may die.  A request *)
(* stores at most one exchange, so its ids are identified with the request *)
(* (and, for a snapshot, its kind).  Of the service's own wording only the *)
(* status and the evidence of an answer are kept; a question is the words  *)
(* the router looks at, and the text a model writes is the tokens the      *)
(* guard looks at.                                                         *)
(***************************************************************************)
EXTENDS BillingEvidence, PlanComparison, IntentRouting, GroundingGuard

CONSTANTS
  Requests, Customers, Conversations,
  Owner,        \* the customer each conversation belongs to
  Questions,    \* the texts customers send
  Texts,        \* the texts the model writes
  Plans, Bills, Charges, Catalogs,   \* what the sources may publish
  NoData,       \* a source that has nothing
  Start,        \* what the sources publish at first
  MaxChanges,   \* bound: how often a source publishes something else
  LastDay,      \* bound: the last day
  Faults        \* "crash", "database" and "provider": a source or the model raises

Sources == [plan : [Customers -> Plans \cup {NoData}],
            bill : [Customers -> Bills \cup {NoData}],
            charge : [Customers -> Charges \cup {NoData}],
            catalog : Catalogs \cup {NoData}]

ASSUME StartAssumption == Start \in Sources
ASSUME OwnerAssumption == Owner \in [Conversations -> Customers]
ASSUME FaultAssumption == Faults \subseteq {"crash", "database", "provider"}
(* The positions of a bill's line items, a tuple in the code. *)
ASSUME BillAssumption == \A bill \in Bills : DOMAIN bill.items \subseteq Nat
ASSUME BoundAssumption == LastDay \in Nat /\ MaxChanges \in Nat /\ MaxAge \in Nat

Kinds == {"plan", "bill", "charge", "comparison"}
AnswerStatuses == {"grounded", "unavailable", "unsupported"}

VARIABLES
  ask,        \* the customer, conversation and question of each POST
  source,     \* what each source publishes: plan, bill and charge per customer, catalog
  changes,    \* how often a source changed
  today,      \* the day the service's clock shows
  pc,         \* where each POST is in SendSupportMessageService.execute
  asked,      \* the day of the user message's created_at
  got,        \* what the handler has read from the sources
  calls,      \* calls of the model made for the POST
  answer,     \* the assistant message: status, evidence, day and the model's text
  messages,   \* messages table
  snapshots,  \* the four snapshot tables
  links,      \* the four evidence tables: a message and a snapshot
  reply       \* HTTP answer of each POST; a 201 is named by the answer's status

vars == <<ask, source, changes, today, pc, asked, got, calls, answer,
          messages, snapshots, links, reply>>
store == <<messages, snapshots, links>>
world == <<source, changes, today>>

InFlight == {"own", "route", "catalog", "compare", "compose", "bill", "charge",
             "generate", "store", "respond"}

Init ==
  /\ ask \in [Requests -> [customer : Customers, conversation : Conversations,
                           question : Questions]]
  /\ source = Start /\ changes = 0 /\ today = 0
  /\ pc = [r \in Requests |-> "idle"]
  /\ asked = [r \in Requests |-> 0]
  /\ got = [r \in Requests |-> [k \in Kinds |-> NoData]]
  /\ calls = [r \in Requests |-> 0]
  /\ answer = [r \in Requests |-> [status |-> "none", evidence |-> {}, on |-> 0, text |-> <<>>]]
  /\ messages = {} /\ snapshots = {} /\ links = {}
  /\ reply = [r \in Requests |-> "none"]

Intent(r) == Route(ask[r].question)

Goto(r, stage) == pc' = [pc EXCEPT ![r] = stage]

Got(r, kind, data) == got' = [got EXCEPT ![r][kind] = data]

(* _assistant_message: the answer, dated by the clock; <<>> stands for a   *)
(* text the service composes itself.                                       *)
ComposeText(r, status, evidence, text) ==
  /\ answer' = [answer EXCEPT ![r] = [status |-> status, evidence |-> evidence,
                                      on |-> today, text |-> text]]
  /\ Goto(r, "store")

Compose(r, status, evidence) == ComposeText(r, status, evidence, <<>>)

Unavailable(r) == Compose(r, "unavailable", {})

Answer(r, code) == Goto(r, "done") /\ reply' = [reply EXCEPT ![r] = code]

-----------------------------------------------------------------------------
(* Ownership and routing *)

Receive(r) ==
  /\ pc[r] = "idle"
  /\ Goto(r, "own")
  /\ UNCHANGED <<ask, world, asked, got, calls, answer, store, reply>>

(* Error: a conversation looked up without its customer. *)
OwnsAnyConversation(r) == TRUE

OwnsConversation(r) == Owner[ask[r].conversation] = ask[r].customer

(* is_owned_by finds the conversation; the user message is dated. *)
CheckOwner(r) ==
  /\ pc[r] = "own"
  /\ OwnsConversation(r)
  /\ asked' = [asked EXCEPT ![r] = today]
  /\ Goto(r, "route")
  /\ UNCHANGED <<ask, world, got, calls, answer, store, reply>>

ConversationNotFound(r) ==
  /\ pc[r] = "own"
  /\ ~OwnsConversation(r)
  /\ Answer(r, "not_found")
  /\ UNCHANGED <<ask, world, asked, got, calls, answer, store>>

(* Error: no branch composes the answer to an unsupported question. *)
RouteAmbiguousOnly(r) ==
  /\ pc[r] = "route"
  /\ Intent(r) = "ambiguous_charge" /\ Unavailable(r)
  /\ UNCHANGED <<ask, world, asked, got, calls, store, reply>>

(* Error: the unsupported question falls through to the store. *)
RouteFallsThrough(r) ==
  /\ pc[r] = "route"
  /\ Intent(r) \in {"ambiguous_charge", "unsupported"}
  /\ Goto(r, "store")
  /\ UNCHANGED <<ask, world, asked, got, calls, answer, store, reply>>

(* Intents answered without data: a clarification or a refusal. *)
RouteWithoutData(r) ==
  /\ pc[r] = "route"
  /\ \/ Intent(r) = "ambiguous_charge" /\ Unavailable(r)
     \/ Intent(r) = "unsupported" /\ Compose(r, "unsupported", {})
  /\ UNCHANGED <<ask, world, asked, got, calls, store, reply>>

(* The plan is read for a comparison and for the current plan, the bill    *)
(* for the latest bill and an unexpected charge.                           *)
ReadPlan(r) ==
  /\ pc[r] = "route"
  /\ LET plan == source.plan[ask[r].customer] IN
     /\ Got(r, "plan", plan)
     /\ \/ Intent(r) = "comparison" /\ Goto(r, "catalog") /\ UNCHANGED answer
        \/ /\ Intent(r) = "current_plan"
           /\ IF plan = NoData THEN Unavailable(r)
              ELSE Goto(r, "generate") /\ UNCHANGED answer
  /\ UNCHANGED <<ask, world, asked, calls, store, reply>>

ReadBill(r) ==
  /\ pc[r] = "route"
  /\ Intent(r) \in {"latest_bill", "unexpected_charge"}
  /\ Got(r, "bill", source.bill[ask[r].customer])
  /\ Goto(r, "bill")
  /\ UNCHANGED <<ask, world, asked, calls, answer, store, reply>>

-----------------------------------------------------------------------------
(* Plan comparison *)

ReadCatalog(r) ==
  /\ pc[r] = "catalog"
  /\ Got(r, "comparison", source.catalog)
  /\ Goto(r, "compare")
  /\ UNCHANGED <<ask, world, asked, calls, answer, store, reply>>

IsSafeComparison(r, day) ==
  /\ got[r]["plan"] # NoData
  /\ got[r]["comparison"] # NoData
  /\ IsSafeComparisonInput(got[r]["plan"], got[r]["comparison"], day)

(* today = clock().date(), and the check on that day. *)
Compare(r) ==
  /\ pc[r] = "compare"
  /\ IF IsSafeComparison(r, today)
     THEN Goto(r, "compose") /\ UNCHANGED answer
     ELSE Unavailable(r)
  /\ UNCHANGED <<ask, world, asked, got, calls, store, reply>>

(* The snapshot and the assistant message read the clock again. *)
ComposeComparison(r) ==
  /\ pc[r] = "compose"
  /\ Compose(r, "grounded", {"comparison"})
  /\ UNCHANGED <<ask, world, asked, got, calls, store, reply>>

-----------------------------------------------------------------------------
(* Bills and charges *)

BillIsUsable(r) == got[r]["bill"] # NoData /\ IsReconciledBill(got[r]["bill"])

(* _latest_bill_exchange. *)
ExplainBill(r) ==
  /\ pc[r] = "bill"
  /\ Intent(r) = "latest_bill"
  /\ IF BillIsUsable(r) THEN Compose(r, "grounded", {"bill"}) ELSE Unavailable(r)
  /\ UNCHANGED <<ask, world, asked, got, calls, store, reply>>

(* _unexpected_charge_exchange up to the read of the usage record. *)
FindCharge(r) ==
  /\ pc[r] = "bill"
  /\ Intent(r) = "unexpected_charge"
  /\ IF BillIsUsable(r) /\ HasRoaming(got[r]["bill"])
     THEN Goto(r, "charge") /\ UNCHANGED answer
     ELSE Unavailable(r)
  /\ UNCHANGED <<ask, world, asked, got, calls, store, reply>>

(* Error: only the amount of the usage record is compared. *)
ExplainChargeByAmount(r) ==
  /\ pc[r] = "charge"
  /\ LET bill    == got[r]["bill"]
         details == source.charge[ask[r].customer]
     IN  /\ Got(r, "charge", details)
         /\ IF details = NoData THEN Compose(r, "unavailable", {"bill"})
            ELSE IF details.amount = RoamingItem(bill).amount
            THEN Compose(r, "grounded", {"bill", "charge"})
            ELSE Compose(r, "unavailable", {"bill", "charge"})
  /\ UNCHANGED <<ask, world, asked, calls, store, reply>>

(* The usage record is read and compared with the bill read before it.     *)
(* Conflicting evidence is kept beside the unavailable answer.             *)
ExplainCharge(r) ==
  /\ pc[r] = "charge"
  /\ LET bill    == got[r]["bill"]
         details == source.charge[ask[r].customer]
     IN  /\ Got(r, "charge", details)
         /\ IF details = NoData THEN Compose(r, "unavailable", {"bill"})
            ELSE IF ChargeEvidenceMatches(bill, RoamingItem(bill), details)
            THEN Compose(r, "grounded", {"bill", "charge"})
            ELSE Compose(r, "unavailable", {"bill", "charge"})
  /\ UNCHANGED <<ask, world, asked, calls, store, reply>>

-----------------------------------------------------------------------------
(* The model call of a current-plan answer *)

CallModel(r) == calls' = [calls EXCEPT ![r] = @ + 1]

(* Error: the attempts are counted from 0 to 2. *)
RetryModelTwice(r) ==
  /\ pc[r] = "generate" /\ calls[r] < 2
  /\ CallModel(r)
  /\ UNCHANGED <<ask, world, pc, asked, got, answer, store, reply>>

(* A timeout, a rate limit or a server error on the first attempt. *)
RetryModel(r) ==
  /\ pc[r] = "generate" /\ calls[r] = 0
  /\ CallModel(r)
  /\ UNCHANGED <<ask, world, pc, asked, got, answer, store, reply>>

(* Error: the unavailable answer keeps the plan snapshot. *)
ModelFailsWithPlan(r) ==
  /\ pc[r] = "generate"
  /\ CallModel(r)
  /\ Compose(r, "unavailable", {"plan"})
  /\ UNCHANGED <<ask, world, asked, got, store, reply>>

(* The same on the second attempt, another error of the SDK, no content.   *)
ModelFails(r) ==
  /\ pc[r] = "generate"
  /\ CallModel(r)
  /\ Unavailable(r)
  /\ UNCHANGED <<ask, world, asked, got, store, reply>>

PlanFacts(r) == Facts(got[r]["plan"])

(* Error: the facts are taken from the source when the text arrives. *)
ModelReturnsLate(r) ==
  /\ pc[r] = "generate"
  /\ CallModel(r)
  /\ \E text \in Texts :
       IF /\ source.plan[ask[r].customer] # NoData
          /\ IsGroundedOutput(text, Facts(source.plan[ask[r].customer]))
       THEN ComposeText(r, "grounded", {"plan"}, text)
       ELSE Unavailable(r)
  /\ UNCHANGED <<ask, world, asked, got, store, reply>>

(* A text, which _is_grounded_output accepts or rejects. *)
ModelReturns(r) ==
  /\ pc[r] = "generate"
  /\ CallModel(r)
  /\ \E text \in Texts :
       IF IsGroundedOutput(text, PlanFacts(r))
       THEN ComposeText(r, "grounded", {"plan"}, text)
       ELSE Unavailable(r)
  /\ UNCHANGED <<ask, world, asked, got, store, reply>>

-----------------------------------------------------------------------------
(* Storing the exchange *)

(* What a snapshot copies: of a comparison, the plan and the catalog. *)
Copied(kind) == IF kind = "comparison" THEN {"plan", "comparison"} ELSE {kind}

Snapshot(r, kind) == [request |-> r, kind |-> kind, customer |-> ask[r].customer,
                      data |-> [k \in Copied(kind) |-> got[r][k]]]

UserMessage(r) ==
  [request |-> r, role |-> "user", conversation |-> ask[r].conversation,
   status |-> "none", on |-> asked[r], text |-> <<>>]

AssistantMessage(r) ==
  [request |-> r, role |-> "assistant", conversation |-> ask[r].conversation,
   status |-> answer[r].status, on |-> answer[r].on, text |-> answer[r].text]

(* Whether the evidence to be stored fits its columns. *)
Fits(r, kind) ==
  CASE kind = "plan"       -> PlanFits(got[r]["plan"])
    [] kind = "bill"       -> BillFits(got[r]["bill"])
    [] kind = "charge"     -> ChargeFits(got[r]["charge"])
    [] kind = "comparison" -> ComparisonFits(got[r]["plan"], got[r]["comparison"])

(* And whether it meets the CHECK constraints; a bill snapshot and a       *)
(* comparison snapshot come from checked data, a plan and a charge         *)
(* snapshot do not.                                                        *)
StoreAccepts(r, kind) ==
  CASE kind = "plan"       -> StoreAcceptsPlan(got[r]["plan"])
    [] kind = "bill"       -> StoreAcceptsBill(got[r]["bill"])
    [] kind = "charge"     -> StoreAcceptsCharge(got[r]["charge"])
    [] kind = "comparison" -> StoreAcceptsComparison(got[r]["plan"], got[r]["comparison"])

StoreAcceptsExchange(r) == \A kind \in answer[r].evidence : StoreAccepts(r, kind)

(* The one transaction of SqlAlchemyMessageExchangeRepository.add. *)
CommitExchange(r) ==
  /\ StoreAcceptsExchange(r)
  /\ snapshots' = snapshots \cup {Snapshot(r, kind) : kind \in answer[r].evidence}
  /\ messages' = messages \cup {UserMessage(r), AssistantMessage(r)}
  /\ links' = links \cup {[message |-> r, kind |-> kind] : kind \in answer[r].evidence}

StoreExchange(r) ==
  /\ pc[r] = "store"
  /\ CommitExchange(r)
  /\ Goto(r, "respond")
  /\ UNCHANGED <<ask, world, asked, got, calls, answer, reply>>

(* Error: the messages are committed before their evidence. *)
StoreRejectsEvidence(r) ==
  /\ pc[r] = "store"
  /\ ~StoreAcceptsExchange(r)
  /\ messages' = messages \cup {UserMessage(r), AssistantMessage(r)}
  /\ Answer(r, "server_error")
  /\ UNCHANGED <<ask, world, asked, got, calls, answer, snapshots, links>>

(* A CHECK fails (IntegrityError), or a value does not fit its column      *)
(* (DataError): nothing handles either, a 500.                             *)
StoreRejects(r) ==
  /\ pc[r] = "store"
  /\ ~StoreAcceptsExchange(r)
  /\ Answer(r, "server_error")
  /\ UNCHANGED <<ask, world, asked, got, calls, answer, store>>

(* Error: the question is committed in a transaction of its own. *)
StoreFailsHalfway(r) ==
  /\ "database" \in Faults
  /\ pc[r] = "store"
  /\ messages' = messages \cup {UserMessage(r)}
  /\ Answer(r, "server_error")
  /\ UNCHANGED <<ask, world, asked, got, calls, answer, snapshots, links>>

(* Error: a failed commit is logged and the POST answered. *)
StoreErrorIgnored(r) ==
  /\ "database" \in Faults
  /\ pc[r] = "store"
  /\ Goto(r, "respond")
  /\ UNCHANGED <<ask, world, asked, got, calls, answer, store, reply>>

(* The database fails, before or after the commit: a 500. *)
StoreFails(r) ==
  /\ "database" \in Faults
  /\ pc[r] = "store"
  /\ CommitExchange(r) \/ UNCHANGED store
  /\ Answer(r, "server_error")
  /\ UNCHANGED <<ask, world, asked, got, calls, answer>>

(* A read of the database or of a source raises, or the model adapter      *)
(* anything but AnswerGenerationUnavailableError: a 500.                   *)
HandlerRaises(r) ==
  /\ \/ "database" \in Faults /\ pc[r] = "own" /\ UNCHANGED calls
     \/ /\ "provider" \in Faults
        /\ \/ /\ pc[r] = "route" /\ UNCHANGED calls
              /\ Intent(r) \notin {"ambiguous_charge", "unsupported"}
           \/ pc[r] \in {"catalog", "charge"} /\ UNCHANGED calls
           \/ pc[r] = "generate" /\ CallModel(r)
  /\ Answer(r, "server_error")
  /\ UNCHANGED <<ask, world, asked, got, answer, store>>

Respond(r) ==
  /\ pc[r] = "respond"
  /\ Answer(r, answer[r].status)
  /\ UNCHANGED <<ask, world, asked, got, calls, answer, store>>

Serve(r) ==
  \/ CheckOwner(r) \/ ConversationNotFound(r)
  \/ RouteWithoutData(r) \/ ReadPlan(r) \/ ReadBill(r)
  \/ ReadCatalog(r) \/ Compare(r) \/ ComposeComparison(r)
  \/ ExplainBill(r) \/ FindCharge(r) \/ ExplainCharge(r)
  \/ RetryModel(r) \/ ModelFails(r) \/ ModelReturns(r)
  \/ StoreExchange(r) \/ StoreRejects(r) \/ StoreFails(r) \/ Respond(r)
  \/ HandlerRaises(r)

-----------------------------------------------------------------------------
(* The other actors *)

Publish(new) ==
  /\ changes < MaxChanges
  /\ changes' = changes + 1
  /\ new # source
  /\ source' = new
  /\ UNCHANGED <<ask, today, pc, asked, got, calls, answer, store, reply>>

(* A source publishes something else, or loses its data. *)
SourceChanges ==
  \/ \E c \in Customers :
       \/ \E p \in Plans \cup {NoData} : Publish([source EXCEPT !.plan[c] = p])
       \/ \E b \in Bills \cup {NoData} : Publish([source EXCEPT !.bill[c] = b])
       \/ \E d \in Charges \cup {NoData} : Publish([source EXCEPT !.charge[c] = d])
  \/ \E k \in Catalogs \cup {NoData} : Publish([source EXCEPT !.catalog = k])

Midnight ==
  /\ today < LastDay
  /\ today' = today + 1
  /\ UNCHANGED <<ask, source, changes, pc, asked, got, calls, answer, store, reply>>

Crash ==
  /\ "crash" \in Faults
  /\ \E r \in Requests : pc[r] \in InFlight
  /\ pc' = [r \in Requests |-> IF pc[r] \in InFlight THEN "crashed" ELSE pc[r]]
  /\ UNCHANGED <<ask, world, asked, got, calls, answer, store, reply>>

Next ==
  \/ \E r \in Requests : Receive(r) \/ Serve(r)
  \/ SourceChanges
  \/ Midnight
  \/ Crash

Spec == Init /\ [][Next]_vars

(* The thread pool runs the handler of a request it accepted; every source *)
(* read, model call (30 s timeout) and transaction returns or raises.      *)
FairSpec == Spec /\ \A r \in Requests : WF_vars(Serve(r))

-----------------------------------------------------------------------------
(* Properties *)

Data == {NoData} \cup Plans \cup Bills \cup Charges \cup Catalogs
Days == 0..LastDay
Roles == {"user", "assistant"}

(* Every variable stays in its type. *)
TypeOK ==
  /\ ask \in [Requests -> [customer : Customers, conversation : Conversations,
                            question : Questions]]
  /\ source \in Sources
  /\ changes \in 0..MaxChanges /\ today \in Days
  /\ pc \in [Requests -> InFlight \cup {"idle", "done", "crashed"}]
  /\ asked \in [Requests -> Days]
  /\ got \in [Requests -> [Kinds -> Data]]
  /\ calls \in [Requests -> Nat]
  /\ answer \in [Requests -> [status : AnswerStatuses \cup {"none"},
                               evidence : SUBSET Kinds, on : Days,
                               text : Texts \cup {<<>>}]]
  /\ \A m \in messages : /\ m.request \in Requests /\ m.role \in Roles
                         /\ m.conversation \in Conversations /\ m.on \in Days
                         /\ (m.role = "user") <=> (m.status = "none")
  /\ \A s \in snapshots : s.request \in Requests /\ s.kind \in Kinds
  /\ links \subseteq [message : Requests, kind : Kinds]
  /\ reply \in [Requests -> AnswerStatuses \cup {"none", "not_found", "server_error"}]

Stored(role) == {m \in messages : m.role = role}
Snapshots(r, kind) == {s \in snapshots : s.request = r /\ s.kind = kind}
Cited(r, kind) == (CHOOSE s \in Snapshots(r, kind) : TRUE).data
LinkedKinds(r) == {l.kind : l \in {k \in links : k.message = r}}

(* A conversation never shows half of an exchange: a question is stored    *)
(* with its answer and the reverse, in one conversation, once, and every   *)
(* snapshot is the evidence of exactly one stored answer.                  *)
ExchangeIsWhole ==
  /\ \A m \in messages :
       \E n \in messages : /\ n.request = m.request /\ n.role # m.role
                           /\ n.conversation = m.conversation
  /\ \A m, n \in messages : m.request = n.request /\ m.role = n.role => m = n
  /\ \A s \in snapshots : /\ [message |-> s.request, kind |-> s.kind] \in links
                          /\ \A t \in snapshots :
                               s.request = t.request /\ s.kind = t.kind => s = t
  /\ \A l \in links : /\ \E m \in Stored("assistant") : m.request = l.message
                      /\ \E s \in snapshots : s.request = l.message /\ s.kind = l.kind

(* The evidence a grounded answer to each question needs. *)
RequiredEvidence(intent) ==
  CASE intent = "current_plan"      -> {"plan"}
    [] intent = "latest_bill"       -> {"bill"}
    [] intent = "unexpected_charge" -> {"bill", "charge"}
    [] intent = "comparison"        -> {"comparison"}

(* A grounded answer cites exactly the snapshots its question needs, the   *)
(* data they copied passes the check for that question, and a charge is    *)
(* explained only by a usage record that agrees with the bill cited beside *)
(* it, even when the sources changed between the two reads.                *)
GroundedIsEvidenced ==
  \A m \in Stored("assistant") :
    LET r == m.request
        intent == Intent(r)
    IN m.status = "grounded" =>
         /\ intent \notin {"ambiguous_charge", "unsupported"}
         /\ LinkedKinds(r) = RequiredEvidence(intent)
         /\ "bill" \in LinkedKinds(r) => IsReconciledBill(Cited(r, "bill")["bill"])
         /\ "charge" \in LinkedKinds(r) =>
              LET bill == Cited(r, "bill")["bill"] IN
              ChargeEvidenceMatches(bill, RoamingItem(bill), Cited(r, "charge")["charge"])
         /\ "comparison" \in LinkedKinds(r) =>
              LET cited == Cited(r, "comparison") IN
              \E day \in asked[r]..m.on : IsSafeComparisonInput(cited["plan"], cited["comparison"], day)

(* The text of a plan answer agrees with the snapshot stored beside it,    *)
(* even if the plan changed while the model wrote: it states the four      *)
(* values, and no number that the snapshot lacks or more often than it.    *)
PlanTextMatchesSnapshot ==
  \A m \in Stored("assistant") :
    m.status = "grounded" /\ "plan" \in LinkedKinds(m.request) =>
      LET values == Facts(Cited(m.request, "plan")["plan"])
      IN /\ StatesAll(m.text, values)
         /\ \A n \in NumbersIn(m.text) : Occurrences(m.text, n) <= Allowed(values, n)

(* An answer that is not grounded cites at most the conflicting evidence   *)
(* of a charge, and that evidence really does not explain the charge.      *)
UngroundedClaimsNothing ==
  \A m \in Stored("assistant") :
    LET r == m.request IN
    m.status # "grounded" =>
      /\ LinkedKinds(r) \in {{}, {"bill"}, {"bill", "charge"}}
      /\ LinkedKinds(r) # {} => Intent(r) = "unexpected_charge"
      /\ "charge" \in LinkedKinds(r) =>
           LET bill == Cited(r, "bill")["bill"] IN
           ~ChargeEvidenceMatches(bill, RoamingItem(bill), Cited(r, "charge")["charge"])

(* Whatever is stored in a conversation, messages and snapshots, is of the *)
(* customer who owns the conversation.                                     *)
StoreIsPrivate ==
  /\ \A m \in messages : ask[m.request].customer = Owner[m.conversation]
  /\ \A s \in snapshots, m \in messages :
       s.request = m.request => s.customer = Owner[m.conversation]

(* A 201 answers with the exchange that is stored, and a 404 leaves no     *)
(* trace.                                                                  *)
ReplyMatchesStore ==
  \A r \in Requests :
    /\ reply[r] \in AnswerStatuses =>
         \E m \in Stored("assistant") : m.request = r /\ m.status = reply[r]
    /\ reply[r] = "not_found" => \A m \in messages : m.request # r

(* What a check has accepted, the store accepts if it fits the columns,    *)
(* whose sizes no check knows: while the database works and no source      *)
(* raises, only evidence that is too large or too long, a plan, which      *)
(* nothing checks, and a charge that its usage record contradicts can lose *)
(* an answer, and then nothing of the exchange is stored.                  *)
OnlyUncheckedDataIsLost ==
  \A r \in Requests : reply[r] = "server_error" /\ Faults \subseteq {"crash"} =>
    /\ \A m \in messages : m.request # r
    /\ \/ \E kind \in answer[r].evidence : ~Fits(r, kind)
       \/ Intent(r) = "current_plan"
       \/ LET bill == got[r]["bill"]
          IN  /\ Intent(r) = "unexpected_charge"
              /\ ~ChargeEvidenceMatches(bill, RoamingItem(bill), got[r]["charge"])

(* A POST calls the model at most twice, and only for a current-plan       *)
(* question whose plan was found; a grounded plan answer took a call.      *)
ModelCallsAreBounded ==
  \A r \in Requests :
    /\ calls[r] <= 2
    /\ calls[r] > 0 => Intent(r) = "current_plan" /\ got[r]["plan"] # NoData
    /\ \A m \in Stored("assistant") :
         m.request = r /\ m.status = "grounded" /\ Intent(r) = "current_plan"
           => calls[r] > 0

(* A question about a charge in one's own conversation gets an answer:     *)
(* stale or conflicting usage evidence is flagged by it.                   *)
ConflictingEvidenceIsFlagged ==
  \A r \in Requests :
    Intent(r) = "unexpected_charge" /\ OwnsConversation(r) =>
      reply[r] \in {"none", "grounded", "unavailable"}

(* Every POST that reached the server is answered, unless the server died. *)
EveryPostAnswered ==
  \A r \in Requests : pc[r] = "own" ~> reply[r] # "none" \/ pc[r] = "crashed"

-----------------------------------------------------------------------------
(* The log this service appends to: an entry is what the tables hold of an *)
(* exchange, the copied data left out.  Entries are the exchanges that may *)
(* be stored, each answer with evidence that befits its status.            *)
EvidenceOf ==
  [grounded    |-> {{"plan"}, {"bill"}, {"bill", "charge"}, {"comparison"}},
   unavailable |-> {{}, {"bill"}, {"bill", "charge"}},
   unsupported |-> {{}}]

Entry(r, v, status, kinds) ==
  [request      |-> r,
   conversation |-> v,
   messages     |-> {<<"user", v, "none">>, <<"assistant", v, status>>},
   evidence     |-> {<<kind, Owner[v]>> : kind \in kinds},
   links        |-> kinds]

Entries == UNION {{Entry(r, v, status, kinds) : kinds \in EvidenceOf[status]} :
                    r \in Requests, v \in Conversations, status \in AnswerStatuses}

StoredEntry(r) ==
  [request      |-> r,
   conversation |-> ask[r].conversation,
   messages     |-> {<<m.role, m.conversation, m.status>> :
                       m \in {n \in messages : n.request = r}},
   evidence     |-> {<<s.kind, s.customer>> : s \in {t \in snapshots : t.request = r}},
   links        |-> LinkedKinds(r)]

InStore == {m.request : m \in messages} \cup {s.request : s \in snapshots}
             \cup {l.message : l \in links}

Log == INSTANCE ConversationLog WITH
         Readers <- {},
         Topic   <- [e \in Entries |-> e.conversation],
         Nothing <- NoData,
         Refused <- NoData,
         log     <- {StoredEntry(r) : r \in InStore},
         wants   <- [g \in {} |-> NoData],
         picked  <- [g \in {} |-> NoData],
         shown   <- [g \in {} |-> NoData]

(* Whatever interleaves, crashes or fails, the store is the log that the   *)
(* histories are read from: it grows by one whole exchange at a time, of   *)
(* the conversation the POST named, with the evidence its answer needs and *)
(* the owner's data only, and what it holds never changes again.           *)
ImplementsLog == Log!LogSpec
=============================================================================
