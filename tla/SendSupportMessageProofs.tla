---------------------- MODULE SendSupportMessageProofs ----------------------
(***************************************************************************)
(* Theorems about SendSupportMessage, for any number of requests and       *)
(* customers, any questions and texts, any data of the sources and any     *)
(* faults.  The router and the guard are never unfolded, and the checks on *)
(* bills, charges and comparisons only where they are compared with the    *)
(* CHECK constraints: the other theorems hold whatever they decide, as     *)
(* long as an answer is composed from what they have decided on.           *)
(***************************************************************************)
EXTENDS SendSupportMessage, TLAPS

Sets == INSTANCE FiniteSetTheorems

(* The types of everything but the store. *)
Types ==
  /\ ask \in [Requests -> [customer : Customers, conversation : Conversations,
                            question : Questions]]
  /\ source \in Sources
  /\ changes \in 0..MaxChanges /\ today \in Days
  /\ pc \in [Requests -> InFlight \cup {"idle", "done", "crashed"}]
  /\ asked \in [Requests -> Days]
  /\ got \in [Requests -> [Kinds -> Data]]
  /\ calls \in [Requests -> Nat]
  /\ answer \in [Requests -> [status : AnswerStatuses \cup {"none"},
                               evidence : SUBSET Kinds, on : Days,
                               text : Texts \cup {<<>>}]]
  /\ reply \in [Requests -> AnswerStatuses \cup {"none", "not_found", "server_error"}]

(* An answer follows from what was read for it. *)
GroundedFits(r) ==
  /\ Intent(r) \in {"current_plan", "latest_bill", "unexpected_charge", "comparison"}
  /\ answer[r].evidence = RequiredEvidence(Intent(r))
  /\ Intent(r) \in {"latest_bill", "unexpected_charge"} => IsReconciledBill(got[r]["bill"])
  /\ Intent(r) = "unexpected_charge" =>
       /\ got[r]["bill"] \in Bills /\ HasRoaming(got[r]["bill"])
       /\ ChargeEvidenceMatches(got[r]["bill"], RoamingItem(got[r]["bill"]), got[r]["charge"])
  /\ Intent(r) = "comparison" =>
       \E day \in asked[r]..answer[r].on :
         IsSafeComparisonInput(got[r]["plan"], got[r]["comparison"], day)
  /\ Intent(r) = "current_plan" =>
       calls[r] > 0 /\ IsGroundedOutput(answer[r].text, PlanFacts(r))

UngroundedFits(r) ==
  /\ answer[r].status = "unsupported" => answer[r].evidence = {}
  /\ answer[r].evidence \in {{}, {"bill"}, {"bill", "charge"}}
  /\ answer[r].evidence # {} => Intent(r) = "unexpected_charge" /\ IsReconciledBill(got[r]["bill"])
  /\ "charge" \in answer[r].evidence =>
       ~ChargeEvidenceMatches(got[r]["bill"], RoamingItem(got[r]["bill"]), got[r]["charge"])

Answered == {"store", "respond", "done", "crashed"}

AnswerInv(r) ==
  /\ answer[r].status # "none" =>
       /\ pc[r] \in Answered
       /\ OwnsConversation(r)
       /\ IF answer[r].status = "grounded" THEN GroundedFits(r) ELSE UngroundedFits(r)
  /\ pc[r] \in {"store", "respond"} => answer[r].status # "none"

(* What is known at each stage of a request. *)
StageInv(r) ==
  /\ asked[r] <= today
  /\ pc[r] \in InFlight \ {"own"} => OwnsConversation(r)
  /\ pc[r] \in {"catalog", "compare", "compose"} => Intent(r) = "comparison"
  /\ pc[r] = "compose" =>
       \E day \in asked[r]..today :
         IsSafeComparisonInput(got[r]["plan"], got[r]["comparison"], day)
  /\ pc[r] = "bill" => /\ Intent(r) \in {"latest_bill", "unexpected_charge"}
                       /\ got[r]["bill"] \in Bills \cup {NoData}
  /\ pc[r] = "charge" => /\ Intent(r) = "unexpected_charge" /\ IsReconciledBill(got[r]["bill"])
                         /\ got[r]["bill"] \in Bills /\ HasRoaming(got[r]["bill"])
  /\ pc[r] = "generate" => /\ Intent(r) = "current_plan" /\ got[r]["plan"] # NoData
                           /\ calls[r] <= 1
  /\ calls[r] <= 2
  /\ calls[r] > 0 => /\ Intent(r) = "current_plan" /\ got[r]["plan"] # NoData
                     /\ pc[r] \in Answered \cup {"generate"}
  /\ reply[r] # "none" => pc[r] = "done"
  /\ reply[r] = "not_found" => answer[r].status = "none"
  /\ reply[r] \in AnswerStatuses => answer[r].status = reply[r]
  /\ reply[r] = "server_error" /\ Faults \subseteq {"crash"} =>
       answer[r].status # "none" /\ ~StoreAcceptsExchange(r)

LocalInv == \A r \in Requests : AnswerInv(r) /\ StageInv(r)

Exchange(r) == {UserMessage(r), AssistantMessage(r)}

Link(r, kind) == [message |-> r, kind |-> kind]

(* The store holds whole exchanges of requests that have been answered. *)
MessageInv ==
  \A m \in messages :
    /\ m.request \in Requests
    /\ m \in Exchange(m.request)
    /\ Exchange(m.request) \subseteq messages
    /\ pc[m.request] \in Answered \ {"store"}
    /\ answer[m.request].status # "none"
    /\ \A kind \in answer[m.request].evidence :
         Link(m.request, kind) \in links /\ Snapshot(m.request, kind) \in snapshots

SnapshotInv ==
  \A s \in snapshots :
    /\ s.request \in Requests /\ s.kind \in answer[s.request].evidence
    /\ s = Snapshot(s.request, s.kind)
    /\ AssistantMessage(s.request) \in messages

LinkInv ==
  \A l \in links :
    /\ l.message \in Requests /\ l.kind \in answer[l.message].evidence
    /\ l = Link(l.message, l.kind)
    /\ AssistantMessage(l.message) \in messages

(* A customer has been told what is stored. *)
ToldInv ==
  \A r \in Requests :
    /\ pc[r] = "respond" \/ reply[r] \in AnswerStatuses => AssistantMessage(r) \in messages
    /\ reply[r] = "server_error" /\ Faults \subseteq {"crash"} =>
         \A m \in messages : m.request # r

StoreInv == MessageInv /\ SnapshotInv /\ LinkInv /\ ToldInv

IInv == Types /\ LocalInv /\ StoreInv

-----------------------------------------------------------------------------
LEMMA InitIInv == Init => IInv
<1> SUFFICES ASSUME Init PROVE IInv
  OBVIOUS
<1> USE DEF Init
<1>1. Types
  BY StartAssumption, BoundAssumption DEF Types, Days, InFlight, Data, Kinds, AnswerStatuses
<1>2. LocalInv
  <2> SUFFICES ASSUME NEW r \in Requests PROVE AnswerInv(r) /\ StageInv(r)
    BY DEF LocalInv
  <2>1. /\ pc[r] = "idle" /\ asked[r] = 0 /\ today = 0 /\ calls[r] = 0
        /\ answer[r].status = "none" /\ reply[r] = "none"
    OBVIOUS
  <2> QED
    BY <2>1 DEF AnswerInv, StageInv, InFlight, AnswerStatuses
<1>3. StoreInv
  BY DEF StoreInv, MessageInv, SnapshotInv, LinkInv, ToldInv, AnswerStatuses
<1> QED
  BY <1>1, <1>2, <1>3 DEF IInv

-----------------------------------------------------------------------------
(* A composed answer is of the right type. *)
LEMMA ComposeTypes ==
  ASSUME Types, NEW r \in Requests, NEW status \in AnswerStatuses,
         NEW evidence \in SUBSET Kinds, NEW text \in Texts \cup {<<>>},
         ComposeText(r, status, evidence, text)
  PROVE  /\ answer' \in [Requests -> [status : AnswerStatuses \cup {"none"},
                                      evidence : SUBSET Kinds, on : Days,
                                      text : Texts \cup {<<>>}]]
         /\ pc' \in [Requests -> InFlight \cup {"idle", "done", "crashed"}]
  BY DEF ComposeText, Goto, Types, InFlight

LEMMA UnavailableTypes ==
  ASSUME Types, NEW r \in Requests, Unavailable(r)
  PROVE  /\ answer' \in [Requests -> [status : AnswerStatuses \cup {"none"},
                                      evidence : SUBSET Kinds, on : Days,
                                      text : Texts \cup {<<>>}]]
         /\ pc' \in [Requests -> InFlight \cup {"idle", "done", "crashed"}]
<1>1. "unavailable" \in AnswerStatuses /\ {} \in SUBSET Kinds
  BY DEF AnswerStatuses
<1> QED
  BY <1>1, ComposeTypes DEF Unavailable, Compose

(* Each step keeps the types. *)
LEMMA TypesStep == Types /\ [Next]_vars => Types'
<1> SUFFICES ASSUME Types, [Next]_vars PROVE Types'
  OBVIOUS
<1>1. ASSUME NEW r \in Requests, Receive(r) PROVE Types'
  BY <1>1 DEF Receive, Goto, world, store, Types, InFlight
<1>2. ASSUME NEW r \in Requests, CheckOwner(r) PROVE Types'
  BY <1>2 DEF CheckOwner, Goto, world, store, Types, InFlight
<1>3. ASSUME NEW r \in Requests, ConversationNotFound(r) PROVE Types'
  BY <1>3 DEF ConversationNotFound, Answer, Goto, world, store, Types
<1>4. ASSUME NEW r \in Requests, RouteWithoutData(r) PROVE Types'
  <2>1. CASE Unavailable(r)
    BY <2>1, <1>4, UnavailableTypes DEF RouteWithoutData, world, store, Types
  <2>2. CASE Compose(r, "unsupported", {})
    <3>1. "unsupported" \in AnswerStatuses /\ {} \in SUBSET Kinds
      BY DEF AnswerStatuses
    <3> QED
      BY <2>2, <3>1, <1>4, ComposeTypes DEF RouteWithoutData, Compose, world, store, Types
  <2> QED
    BY <1>4, <2>1, <2>2 DEF RouteWithoutData
<1>5. ASSUME NEW r \in Requests, ReadPlan(r) PROVE Types'
  <2> DEFINE plan == source.plan[ask[r].customer]
  <2>1. plan \in Data /\ "plan" \in Kinds
    BY DEF Types, Sources, Data, Kinds
  <2>2. got' \in [Requests -> [Kinds -> Data]]
    BY <1>5, <2>1 DEF ReadPlan, Got, Types
  <2>3. /\ answer' \in [Requests -> [status : AnswerStatuses \cup {"none"},
                                      evidence : SUBSET Kinds, on : Days,
                                      text : Texts \cup {<<>>}]]
        /\ pc' \in [Requests -> InFlight \cup {"idle", "done", "crashed"}]
    <3>1. CASE Unavailable(r)
      BY <3>1, UnavailableTypes
    <3>2. CASE UNCHANGED answer /\ (Goto(r, "catalog") \/ Goto(r, "generate"))
      BY <3>2 DEF Goto, Types, InFlight
    <3> QED
      BY <1>5, <3>1, <3>2 DEF ReadPlan
  <2> QED
    BY <1>5, <2>2, <2>3 DEF ReadPlan, world, store, Types
<1>6. ASSUME NEW r \in Requests, ReadBill(r) PROVE Types'
  <2>1. source.bill[ask[r].customer] \in Data /\ "bill" \in Kinds
    BY DEF Types, Sources, Data, Kinds
  <2> QED
    BY <1>6, <2>1 DEF ReadBill, Got, Goto, world, store, Types, InFlight
<1>7. ASSUME NEW r \in Requests, ReadCatalog(r) PROVE Types'
  <2>1. source.catalog \in Data /\ "comparison" \in Kinds
    BY DEF Types, Sources, Data, Kinds
  <2> QED
    BY <1>7, <2>1 DEF ReadCatalog, Got, Goto, world, store, Types, InFlight
<1>8. ASSUME NEW r \in Requests, Compare(r) PROVE Types'
  <2>1. CASE Unavailable(r)
    BY <2>1, <1>8, UnavailableTypes DEF Compare, world, store, Types
  <2>2. CASE Goto(r, "compose") /\ UNCHANGED answer
    BY <2>2, <1>8 DEF Compare, Goto, world, store, Types, InFlight
  <2> QED
    BY <1>8, <2>1, <2>2 DEF Compare
<1>9. ASSUME NEW r \in Requests, ComposeComparison(r) PROVE Types'
  <2>1. "grounded" \in AnswerStatuses /\ {"comparison"} \in SUBSET Kinds
    BY DEF AnswerStatuses, Kinds
  <2> QED
    BY <1>9, <2>1, ComposeTypes DEF ComposeComparison, Compose, world, store, Types
<1>10. ASSUME NEW r \in Requests, ExplainBill(r) PROVE Types'
  <2>1. "grounded" \in AnswerStatuses /\ {"bill"} \in SUBSET Kinds
    BY DEF AnswerStatuses, Kinds
  <2>2. CASE Unavailable(r)
    BY <2>2, <1>10, UnavailableTypes DEF ExplainBill, world, store, Types
  <2>3. CASE Compose(r, "grounded", {"bill"})
    BY <2>3, <2>1, <1>10, ComposeTypes DEF ExplainBill, Compose, world, store, Types
  <2> QED
    BY <1>10, <2>2, <2>3 DEF ExplainBill
<1>11. ASSUME NEW r \in Requests, FindCharge(r) PROVE Types'
  <2>1. CASE Unavailable(r)
    BY <2>1, <1>11, UnavailableTypes DEF FindCharge, world, store, Types
  <2>2. CASE Goto(r, "charge") /\ UNCHANGED answer
    BY <2>2, <1>11 DEF FindCharge, Goto, world, store, Types, InFlight
  <2> QED
    BY <1>11, <2>1, <2>2 DEF FindCharge
<1>12. ASSUME NEW r \in Requests, ExplainCharge(r) PROVE Types'
  <2>1. source.charge[ask[r].customer] \in Data /\ "charge" \in Kinds
    BY DEF Types, Sources, Data, Kinds
  <2>2. got' \in [Requests -> [Kinds -> Data]]
    BY <1>12, <2>1 DEF ExplainCharge, Got, Types
  <2>3. PICK status \in {"grounded", "unavailable"}, evidence \in {{"bill"}, {"bill", "charge"}} :
          ComposeText(r, status, evidence, <<>>)
    BY <1>12 DEF ExplainCharge, Compose
  <2>4. status \in AnswerStatuses /\ evidence \in SUBSET Kinds
    BY DEF AnswerStatuses, Kinds
  <2> QED
    BY <1>12, <2>2, <2>3, <2>4, ComposeTypes DEF ExplainCharge, world, store, Types
<1>13. ASSUME NEW r \in Requests, RetryModel(r) PROVE Types'
  BY <1>13 DEF RetryModel, CallModel, world, store, Types
<1>14. ASSUME NEW r \in Requests, ModelFails(r) PROVE Types'
  <2>1. calls' \in [Requests -> Nat]
    BY <1>14 DEF ModelFails, CallModel, Types
  <2> QED
    BY <1>14, <2>1, UnavailableTypes DEF ModelFails, world, store, Types
<1>15. ASSUME NEW r \in Requests, ModelReturns(r) PROVE Types'
  <2>1. calls' \in [Requests -> Nat]
    BY <1>15 DEF ModelReturns, CallModel, Types
  <2>2. CASE Unavailable(r)
    BY <1>15, <2>1, <2>2, UnavailableTypes DEF ModelReturns, world, store, Types
  <2>3. ASSUME NEW text \in Texts, ComposeText(r, "grounded", {"plan"}, text) PROVE Types'
    <3>1. "grounded" \in AnswerStatuses /\ {"plan"} \in SUBSET Kinds
      BY DEF AnswerStatuses, Kinds
    <3> QED
      BY <1>15, <2>1, <2>3, <3>1, ComposeTypes DEF ModelReturns, world, store, Types
  <2> QED
    BY <1>15, <2>2, <2>3 DEF ModelReturns
<1>16. ASSUME NEW r \in Requests,
              \/ StoreExchange(r) \/ StoreRejects(r) \/ StoreFails(r) \/ Respond(r)
              \/ HandlerRaises(r)
       PROVE  Types'
  <2>1. CASE StoreExchange(r)
    BY <2>1 DEF StoreExchange, Goto, world, Types, InFlight
  <2>2. CASE StoreRejects(r)
    BY <2>2 DEF StoreRejects, Answer, Goto, world, Types
  <2>3. CASE StoreFails(r)
    BY <2>3 DEF StoreFails, Answer, Goto, world, Types
  <2>4. CASE Respond(r)
    BY <2>4 DEF Respond, Answer, Goto, world, Types
  <2>5. CASE HandlerRaises(r)
    BY <2>5 DEF HandlerRaises, CallModel, Answer, Goto, world, store, Types
  <2> QED
    BY <1>16, <2>1, <2>2, <2>3, <2>4, <2>5
<1>17. CASE SourceChanges
  <2>1. PICK new \in Sources : Publish(new)
    <3>1. ASSUME NEW c \in Customers, NEW p \in Plans \cup {NoData}
          PROVE  [source EXCEPT !.plan[c] = p] \in Sources
      BY <3>1 DEF Types, Sources
    <3>2. ASSUME NEW c \in Customers, NEW b \in Bills \cup {NoData}
          PROVE  [source EXCEPT !.bill[c] = b] \in Sources
      BY <3>2 DEF Types, Sources
    <3>3. ASSUME NEW c \in Customers, NEW d \in Charges \cup {NoData}
          PROVE  [source EXCEPT !.charge[c] = d] \in Sources
      BY <3>3 DEF Types, Sources
    <3>4. ASSUME NEW k \in Catalogs \cup {NoData}
          PROVE  [source EXCEPT !.catalog = k] \in Sources
      BY <3>4 DEF Types, Sources
    <3> QED
      BY <1>17, <3>1, <3>2, <3>3, <3>4 DEF SourceChanges
  <2> QED
    BY <2>1, BoundAssumption DEF Publish, store, Types
<1>18. CASE Midnight
  BY <1>18, BoundAssumption DEF Midnight, store, Types, Days
<1>19. CASE Crash
  BY <1>19 DEF Crash, world, store, Types
<1>20. CASE UNCHANGED vars
  BY <1>20 DEF vars, Types
<1> QED
  BY <1>1, <1>2, <1>3, <1>4, <1>5, <1>6, <1>7, <1>8, <1>9, <1>10, <1>11, <1>12, <1>13, <1>14,
     <1>15, <1>16, <1>17, <1>18, <1>19, <1>20 DEF Next, Serve

-----------------------------------------------------------------------------
(* The state of a request, but for the store. *)
Own(r) == <<pc[r], asked[r], got[r], calls[r], answer[r], reply[r]>>

(* A request is not disturbed by a step that leaves its own state alone,   *)
(* nor by the end of a day.                                                *)
LEMMA LocalFrame ==
  ASSUME Types, Types', NEW r \in Requests, AnswerInv(r), StageInv(r),
         UNCHANGED <<ask, Own(r)>>, today <= today'
  PROVE  AnswerInv(r)' /\ StageInv(r)'
<1>1. today \in Int /\ today' \in Int /\ asked[r] \in Int
  BY BoundAssumption DEF Types, Days
<1>2. \A day : day \in asked[r]..today => day \in asked[r]..today'
  BY <1>1
<1>3. UNCHANGED <<pc[r], asked[r], got[r], calls[r], answer[r], reply[r], ask>>
  BY DEF Own
<1>4. Intent(r)' = Intent(r) /\ OwnsConversation(r)' = OwnsConversation(r)
      /\ PlanFacts(r)' = PlanFacts(r) /\ StoreAcceptsExchange(r)' = StoreAcceptsExchange(r)
  BY <1>3 DEF Intent, OwnsConversation, PlanFacts, StoreAcceptsExchange, StoreAccepts
<1>5. GroundedFits(r)' = GroundedFits(r) /\ UngroundedFits(r)' = UngroundedFits(r)
  BY <1>3, <1>4 DEF GroundedFits, UngroundedFits
<1>6. AnswerInv(r)'
  BY <1>3, <1>4, <1>5 DEF AnswerInv
<1>7. StageInv(r)'
  BY <1>1, <1>2, <1>3, <1>4 DEF StageInv
<1> QED
  BY <1>6, <1>7

(* Composing an answer that fits what was read. *)
LEMMA ComposeLocal ==
  ASSUME Types, Types', NEW r \in Requests, StageInv(r),
         pc[r] \in InFlight \ {"own", "store", "respond"}, calls'[r] <= 2,
         calls'[r] > 0 => Intent(r) = "current_plan" /\ got'[r]["plan"] # NoData,
         NEW status \in AnswerStatuses, NEW evidence \in SUBSET Kinds, NEW text,
         ComposeText(r, status, evidence, text),
         UNCHANGED <<ask, today, asked, reply>>,
         IF status = "grounded" THEN GroundedFits(r)' ELSE UngroundedFits(r)'
  PROVE  AnswerInv(r)' /\ StageInv(r)'
<1>1. /\ pc'[r] = "store" /\ answer'[r].status = status
  BY DEF ComposeText, Goto, Types
<1>2. Intent(r)' = Intent(r) /\ OwnsConversation(r)' = OwnsConversation(r) /\ OwnsConversation(r)
  BY DEF Intent, OwnsConversation, StageInv
<1>3. status # "none" /\ asked'[r] <= today' /\ reply'[r] = "none"
  BY DEF AnswerStatuses, StageInv, InFlight
<1> QED
  BY <1>1, <1>2, <1>3 DEF AnswerInv, StageInv, Answered, InFlight, AnswerStatuses

(* A request that was only moved on, with no answer yet. *)
LEMMA UnavailableLocal ==
  ASSUME Types, Types', NEW r \in Requests, StageInv(r),
         pc[r] \in InFlight \ {"own", "store", "respond"}, calls'[r] <= 2,
         calls'[r] > 0 => Intent(r) = "current_plan" /\ got'[r]["plan"] # NoData,
         Unavailable(r), UNCHANGED <<ask, today, asked, reply>>
  PROVE  AnswerInv(r)' /\ StageInv(r)'
<1>1. "unavailable" \in AnswerStatuses /\ {} \in SUBSET Kinds
  BY DEF AnswerStatuses
<1>2. ComposeText(r, "unavailable", {}, <<>>)
  BY DEF Unavailable, Compose
<1>3. answer'[r].evidence = {}
  BY <1>2 DEF ComposeText, Types
<1>4. UngroundedFits(r)'
  BY <1>3 DEF UngroundedFits
<1> QED
  BY <1>1, <1>2, <1>4, ComposeLocal

(* Which requests a step concerns. *)
LEMMA OthersAlone ==
  ASSUME Types, NEW r \in Requests, Receive(r) \/ Serve(r)
  PROVE  /\ UNCHANGED <<ask, today>>
         /\ \A q \in Requests \ {r} : UNCHANGED Own(q)
<1>1. CASE Receive(r)
  BY <1>1 DEF Receive, Goto, Own, Types, world
<1>2. CASE CheckOwner(r) \/ ConversationNotFound(r)
  BY <1>2 DEF CheckOwner, ConversationNotFound, Answer, Goto, Own, Types, world
<1>3. CASE RouteWithoutData(r)
  BY <1>3 DEF RouteWithoutData, Unavailable, Compose, ComposeText, Goto, Own, Types, world
<1>4. CASE ReadPlan(r) \/ ReadBill(r) \/ ReadCatalog(r)
  BY <1>4 DEF ReadPlan, ReadBill, ReadCatalog, Got, Unavailable, Compose, ComposeText, Goto, Own,
              Types, world
<1>5. CASE Compare(r) \/ ComposeComparison(r) \/ ExplainBill(r) \/ FindCharge(r)
  BY <1>5 DEF Compare, ComposeComparison, ExplainBill, FindCharge, Unavailable, Compose,
              ComposeText, Goto, Own, Types, world
<1>6. CASE ExplainCharge(r)
  BY <1>6 DEF ExplainCharge, Got, Compose, ComposeText, Goto, Own, Types, world
<1>7. CASE RetryModel(r) \/ ModelFails(r) \/ ModelReturns(r)
  BY <1>7 DEF RetryModel, ModelFails, ModelReturns, CallModel, Unavailable, Compose,
              ComposeText, Goto, Own, Types, world
<1>8. CASE StoreExchange(r) \/ StoreRejects(r) \/ StoreFails(r) \/ Respond(r)
  BY <1>8 DEF StoreExchange, StoreRejects, StoreFails, Respond, Answer, Goto, Own, Types, world
<1>9. CASE HandlerRaises(r)
  BY <1>9 DEF HandlerRaises, CallModel, Answer, Goto, Own, Types, world
<1> QED
  BY <1>1, <1>2, <1>3, <1>4, <1>5, <1>6, <1>7, <1>8, <1>9 DEF Serve

(* The step of a request keeps what is known of it. *)
LEMMA OwnStep ==
  ASSUME Types, Types', NEW r \in Requests, AnswerInv(r), StageInv(r), Receive(r) \/ Serve(r)
  PROVE  AnswerInv(r)' /\ StageInv(r)'
<1>0. /\ Intent(r)' = Intent(r) /\ OwnsConversation(r)' = OwnsConversation(r)
      /\ UNCHANGED <<ask, today>>
  BY OthersAlone DEF Intent, OwnsConversation
<1>a. today \in Int /\ asked[r] \in Int /\ calls[r] \in Nat
  BY BoundAssumption DEF Types, Days
<1>b. pc[r] \in InFlight \ {"store", "respond"} => answer[r].status = "none" /\ reply[r] = "none"
  BY DEF AnswerInv, StageInv, Answered, InFlight
<1>1. CASE Receive(r)
  BY <1>1, <1>0, <1>a DEF Receive, Goto, AnswerInv, StageInv, Answered, InFlight, Types, world
<1>2. CASE CheckOwner(r)
  BY <1>2, <1>0, <1>a, <1>b DEF CheckOwner, Goto, AnswerInv, StageInv, Answered, InFlight, Types, AnswerStatuses
<1>3. CASE ConversationNotFound(r)
  BY <1>3, <1>0, <1>a, <1>b DEF ConversationNotFound, Answer, Goto, AnswerInv, StageInv, Answered,
                                InFlight, Types, AnswerStatuses, world
<1>4. CASE RouteWithoutData(r)
  <2>1. /\ pc[r] = "route" /\ calls'[r] = calls[r] /\ ~(calls[r] > 0)
        /\ UNCHANGED <<asked, reply, got>>
    BY <1>4 DEF RouteWithoutData, StageInv, Answered
  <2>2. CASE Unavailable(r)
    BY <1>0, <1>a, <2>1, <2>2, UnavailableLocal DEF InFlight
  <2>3. CASE Compose(r, "unsupported", {})
    <3>1. "unsupported" \in AnswerStatuses /\ {} \in SUBSET Kinds
      BY DEF AnswerStatuses
    <3>2. UngroundedFits(r)'
      BY <2>3 DEF UngroundedFits, Compose, ComposeText, Types
    <3> QED
      BY <1>0, <1>a, <2>1, <2>3, <3>1, <3>2, ComposeLocal DEF InFlight, Compose
  <2> QED
    BY <1>4, <2>2, <2>3 DEF RouteWithoutData
<1>5. CASE ReadPlan(r)
  <2>1. /\ pc[r] = "route" /\ calls'[r] = calls[r] /\ ~(calls[r] > 0)
        /\ UNCHANGED <<asked, reply>>
    BY <1>5 DEF ReadPlan, StageInv, Answered
  <2>2. CASE Unavailable(r)
    BY <1>0, <1>a, <2>1, <2>2, UnavailableLocal DEF InFlight
  <2>3. got'[r]["plan"] = source.plan[ask[r].customer]
    BY <1>5 DEF ReadPlan, Got, Types, Kinds
  <2>4. CASE UNCHANGED answer /\ Goto(r, "catalog") /\ Intent(r) = "comparison"
    BY <1>0, <1>a, <1>b, <2>1, <2>4 DEF Goto, AnswerInv, StageInv, Answered, InFlight, Types, AnswerStatuses
  <2>5. CASE UNCHANGED answer /\ Goto(r, "generate") /\ Intent(r) = "current_plan"
             /\ source.plan[ask[r].customer] # NoData
    BY <1>0, <1>a, <1>b, <2>1, <2>3, <2>5 DEF Goto, AnswerInv, StageInv, Answered, InFlight, Types, AnswerStatuses
  <2> QED
    BY <1>5, <2>2, <2>4, <2>5 DEF ReadPlan
<1>6. CASE ReadBill(r)
  <2>1. /\ pc[r] = "route" /\ calls'[r] = calls[r] /\ ~(calls[r] > 0)
        /\ UNCHANGED <<asked, reply, answer>>
    BY <1>6 DEF ReadBill, StageInv, Answered
  <2>2. got'[r]["bill"] \in Bills \cup {NoData}
    BY <1>6 DEF ReadBill, Got, Types, Kinds, Sources
  <2> QED
    BY <1>6, <1>0, <1>a, <1>b, <2>1, <2>2 DEF ReadBill, Goto, AnswerInv, StageInv, Answered, InFlight,
                                        Types, AnswerStatuses
<1>7. CASE ReadCatalog(r)
  <2>1. /\ pc[r] = "catalog" /\ calls'[r] = calls[r] /\ ~(calls[r] > 0)
        /\ UNCHANGED <<asked, reply, answer>>
    BY <1>7 DEF ReadCatalog, StageInv, Answered
  <2> QED
    BY <1>7, <1>0, <1>a, <1>b, <2>1 DEF ReadCatalog, Goto, AnswerInv, StageInv, Answered, InFlight,
                                        Types, AnswerStatuses
<1>8. CASE Compare(r)
  <2>1. /\ pc[r] = "compare" /\ calls'[r] = calls[r] /\ ~(calls[r] > 0)
        /\ UNCHANGED <<asked, reply, got>>
    BY <1>8 DEF Compare, StageInv, Answered
  <2>2. CASE Unavailable(r)
    BY <1>0, <1>a, <2>1, <2>2, UnavailableLocal DEF InFlight
  <2>3. CASE Goto(r, "compose") /\ UNCHANGED answer /\ IsSafeComparison(r, today)
    <3>1. today \in asked[r]..today
      BY <1>a DEF StageInv
    <3> QED
      BY <1>0, <1>a, <1>b, <2>1, <2>3, <3>1
      DEF Goto, IsSafeComparison, AnswerInv, StageInv, Answered, InFlight, Types, AnswerStatuses
  <2> QED
    BY <1>8, <2>2, <2>3 DEF Compare
<1>9. CASE ComposeComparison(r)
  <2>1. /\ pc[r] = "compose" /\ calls'[r] = calls[r] /\ ~(calls[r] > 0)
        /\ UNCHANGED <<asked, reply, got>>
        /\ ComposeText(r, "grounded", {"comparison"}, <<>>)
    BY <1>9 DEF ComposeComparison, Compose, StageInv, Answered
  <2>2. answer'[r].evidence = {"comparison"} /\ answer'[r].on = today
    BY <2>1 DEF ComposeText, Types
  <2>3. GroundedFits(r)'
    BY <1>0, <2>1, <2>2 DEF GroundedFits, StageInv, RequiredEvidence
  <2>4. "grounded" \in AnswerStatuses /\ {"comparison"} \in SUBSET Kinds
    BY DEF AnswerStatuses, Kinds
  <2> QED
    BY <1>0, <1>a, <2>1, <2>3, <2>4, ComposeLocal DEF InFlight
<1>10. CASE ExplainBill(r)
  <2>1. /\ pc[r] = "bill" /\ calls'[r] = calls[r] /\ ~(calls[r] > 0)
        /\ UNCHANGED <<asked, reply, got>> /\ Intent(r) = "latest_bill"
    BY <1>10 DEF ExplainBill, StageInv, Answered
  <2>2. CASE Unavailable(r)
    BY <1>0, <1>a, <2>1, <2>2, UnavailableLocal DEF InFlight
  <2>3. CASE BillIsUsable(r) /\ Compose(r, "grounded", {"bill"})
    <3>1. answer'[r].evidence = {"bill"}
      BY <2>3 DEF Compose, ComposeText, Types
    <3>2. GroundedFits(r)'
      BY <1>0, <2>1, <2>3, <3>1 DEF GroundedFits, BillIsUsable, RequiredEvidence
    <3>3. "grounded" \in AnswerStatuses /\ {"bill"} \in SUBSET Kinds
      BY DEF AnswerStatuses, Kinds
    <3> QED
      BY <1>0, <1>a, <2>1, <2>3, <3>2, <3>3, ComposeLocal DEF InFlight, Compose
  <2> QED
    BY <1>10, <2>2, <2>3 DEF ExplainBill
<1>11. CASE FindCharge(r)
  <2>1. /\ pc[r] = "bill" /\ calls'[r] = calls[r] /\ ~(calls[r] > 0)
        /\ UNCHANGED <<asked, reply, got>> /\ Intent(r) = "unexpected_charge"
    BY <1>11 DEF FindCharge, StageInv, Answered
  <2>2. CASE Unavailable(r)
    BY <1>0, <1>a, <2>1, <2>2, UnavailableLocal DEF InFlight
  <2>3. CASE BillIsUsable(r) /\ HasRoaming(got[r]["bill"]) /\ Goto(r, "charge") /\ UNCHANGED answer
    BY <1>0, <1>a, <1>b, <2>1, <2>3 DEF Goto, BillIsUsable, AnswerInv, StageInv, Answered, InFlight,
                                        Types, AnswerStatuses
  <2> QED
    BY <1>11, <2>2, <2>3 DEF FindCharge
<1>12. CASE ExplainCharge(r)
  <2> DEFINE bill == got[r]["bill"]
             details == source.charge[ask[r].customer]
  <2>1. /\ pc[r] = "charge" /\ calls'[r] = calls[r] /\ ~(calls[r] > 0)
        /\ UNCHANGED <<asked, reply>> /\ Intent(r) = "unexpected_charge" /\ IsReconciledBill(bill)
        /\ bill \in Bills /\ HasRoaming(bill)
    BY <1>12 DEF ExplainCharge, StageInv, Answered
  <2>2. got'[r]["bill"] = bill /\ got'[r]["charge"] = details
    BY <1>12 DEF ExplainCharge, Got, Types, Kinds
  <2>3. "grounded" \in AnswerStatuses /\ "unavailable" \in AnswerStatuses
        /\ {"bill"} \in SUBSET Kinds /\ {"bill", "charge"} \in SUBSET Kinds
    BY DEF AnswerStatuses, Kinds
  <2>4. CASE Compose(r, "unavailable", {"bill"})
    <3>1. answer'[r].evidence = {"bill"} /\ answer'[r].status = "unavailable"
      BY <2>4 DEF Compose, ComposeText, Types
    <3>2. UngroundedFits(r)'
      BY <1>0, <2>1, <2>2, <3>1 DEF UngroundedFits
    <3> QED
      BY <1>0, <1>a, <2>1, <2>3, <2>4, <3>2, ComposeLocal DEF InFlight, Compose
  <2>5. CASE /\ ChargeEvidenceMatches(bill, RoamingItem(bill), details)
             /\ Compose(r, "grounded", {"bill", "charge"})
    <3>1. answer'[r].evidence = {"bill", "charge"}
      BY <2>5 DEF Compose, ComposeText, Types
    <3>2. GroundedFits(r)'
      BY <1>0, <2>1, <2>2, <2>5, <3>1 DEF GroundedFits, RequiredEvidence
    <3> QED
      BY <1>0, <1>a, <2>1, <2>3, <2>5, <3>2, ComposeLocal DEF InFlight, Compose
  <2>6. CASE /\ ~ChargeEvidenceMatches(bill, RoamingItem(bill), details)
             /\ Compose(r, "unavailable", {"bill", "charge"})
    <3>1. answer'[r].evidence = {"bill", "charge"} /\ answer'[r].status = "unavailable"
      BY <2>6 DEF Compose, ComposeText, Types
    <3>2. UngroundedFits(r)'
      BY <1>0, <2>1, <2>2, <2>6, <3>1 DEF UngroundedFits
    <3> QED
      BY <1>0, <1>a, <2>1, <2>3, <2>6, <3>2, ComposeLocal DEF InFlight, Compose
  <2> QED
    BY <1>12, <2>4, <2>5, <2>6 DEF ExplainCharge
<1>13. CASE RetryModel(r)
  BY <1>13, <1>0, <1>a, <1>b DEF RetryModel, CallModel, AnswerInv, StageInv, Answered, InFlight,
                                 Types, AnswerStatuses
<1>14. CASE ModelFails(r)
  <2>1. /\ pc[r] = "generate" /\ calls'[r] = calls[r] + 1
        /\ UNCHANGED <<asked, reply, got>> /\ Unavailable(r)
    BY <1>14 DEF ModelFails, CallModel, Types
  <2>2. calls'[r] <= 2 /\ Intent(r) = "current_plan" /\ got'[r]["plan"] # NoData
    BY <2>1, <1>a DEF StageInv
  <2> QED
    BY <1>0, <2>1, <2>2, UnavailableLocal DEF InFlight
<1>15. CASE ModelReturns(r)
  <2>1. /\ pc[r] = "generate" /\ calls'[r] = calls[r] + 1
        /\ UNCHANGED <<asked, reply, got>>
    BY <1>15 DEF ModelReturns, CallModel, Types
  <2>2. calls'[r] <= 2 /\ calls'[r] > 0 /\ Intent(r) = "current_plan" /\ got'[r]["plan"] # NoData
    BY <2>1, <1>a DEF StageInv
  <2>3. CASE Unavailable(r)
    BY <1>0, <2>1, <2>2, <2>3, UnavailableLocal DEF InFlight
  <2>4. ASSUME NEW text \in Texts, IsGroundedOutput(text, PlanFacts(r)),
               ComposeText(r, "grounded", {"plan"}, text)
        PROVE  AnswerInv(r)' /\ StageInv(r)'
    <3>1. answer'[r].evidence = {"plan"} /\ answer'[r].text = text
      BY <2>4 DEF ComposeText, Types
    <3>2. PlanFacts(r)' = PlanFacts(r)
      BY <2>1 DEF PlanFacts
    <3>3. GroundedFits(r)'
      BY <1>0, <2>2, <2>4, <3>1, <3>2 DEF GroundedFits, RequiredEvidence
    <3>4. "grounded" \in AnswerStatuses /\ {"plan"} \in SUBSET Kinds
      BY DEF AnswerStatuses, Kinds
    <3> QED
      BY <1>0, <2>1, <2>2, <2>4, <3>3, <3>4, ComposeLocal DEF InFlight
  <2> QED
    BY <1>15, <2>3, <2>4 DEF ModelReturns
<1>16. CASE StoreExchange(r) \/ StoreRejects(r) \/ StoreFails(r) \/ Respond(r)
  <2>1. /\ UNCHANGED <<asked, got, calls, answer>>
        /\ pc[r] \in {"store", "respond"} /\ pc'[r] \in {"respond", "done"}
        /\ reply'[r] \in {reply[r], "server_error", answer[r].status}
        /\ reply'[r] # reply[r] => pc'[r] = "done"
        /\ reply'[r] = "server_error" /\ Faults \subseteq {"crash"} =>
             ~StoreAcceptsExchange(r) \/ reply'[r] \in {reply[r], answer[r].status}
    BY <1>16 DEF StoreExchange, StoreRejects, StoreFails, Respond, Answer, Goto, Types, world
  <2>2. reply[r] = "none" /\ answer[r].status # "none" /\ answer[r].status \in AnswerStatuses
    BY <2>1 DEF AnswerInv, StageInv, Types
  <2>3. GroundedFits(r)' = GroundedFits(r) /\ UngroundedFits(r)' = UngroundedFits(r)
        /\ StoreAcceptsExchange(r)' = StoreAcceptsExchange(r)
    BY <1>0, <2>1 DEF GroundedFits, UngroundedFits, PlanFacts, StoreAcceptsExchange, StoreAccepts
  <2>4. AnswerInv(r)'
    BY <1>0, <2>1, <2>2, <2>3 DEF AnswerInv, Answered
  <2>5. StageInv(r)'
    BY <1>0, <2>1, <2>2, <2>3 DEF StageInv, Answered, InFlight, AnswerStatuses
  <2> QED
    BY <2>4, <2>5
<1>17. CASE HandlerRaises(r)
  <2>1. /\ UNCHANGED <<asked, got, answer>> /\ pc'[r] = "done" /\ reply'[r] = "server_error"
        /\ pc[r] \in InFlight \ {"own", "store", "respond"} \/ pc[r] = "own"
        /\ pc[r] \notin Answered /\ ~(Faults \subseteq {"crash"})
    BY <1>17 DEF HandlerRaises, Answer, Goto, Types, world, InFlight, Answered
  <2>2. calls'[r] = calls[r] \/ (pc[r] = "generate" /\ calls'[r] = calls[r] + 1)
    BY <1>17 DEF HandlerRaises, CallModel, Types
  <2>3. answer[r].status = "none"
    BY <2>1 DEF AnswerInv
  <2>4. AnswerInv(r)'
    BY <2>1, <2>3 DEF AnswerInv
  <2>5. calls'[r] <= 2 /\ (calls'[r] > 0 => Intent(r) = "current_plan" /\ got[r]["plan"] # NoData)
    BY <1>a, <2>2 DEF StageInv
  <2>6. StageInv(r)'
    BY <1>0, <2>1, <2>5 DEF StageInv, Answered, InFlight, AnswerStatuses
  <2> QED
    BY <2>4, <2>6
<1> QED
  BY <1>1, <1>2, <1>3, <1>4, <1>5, <1>6, <1>7, <1>8, <1>9, <1>10, <1>11, <1>12, <1>13, <1>14,
     <1>15, <1>16, <1>17 DEF Serve

(* So every step keeps what is known of every request. *)
LEMMA LocalStep == Types /\ LocalInv /\ [Next]_vars => LocalInv'
<1> SUFFICES ASSUME Types, LocalInv, [Next]_vars PROVE LocalInv'
  OBVIOUS
<1>1. Types'
  BY TypesStep
<1>2. \A q \in Requests : AnswerInv(q) /\ StageInv(q)
  BY DEF LocalInv
<1>a. today \in Int
  BY BoundAssumption DEF Types, Days
<1>3. ASSUME NEW r \in Requests, Receive(r) \/ Serve(r) PROVE LocalInv'
  <2> SUFFICES ASSUME NEW q \in Requests PROVE AnswerInv(q)' /\ StageInv(q)'
    BY DEF LocalInv
  <2>1. CASE q = r
    BY <1>1, <1>2, <1>3, <2>1, OwnStep
  <2>2. CASE q # r
    <3>1. UNCHANGED <<ask, Own(q)>> /\ today' = today
      BY <1>3, <2>2, OthersAlone
    <3> QED
      BY <1>1, <1>2, <1>a, <3>1, LocalFrame
  <2> QED
    BY <2>1, <2>2
<1>4. CASE SourceChanges \/ Midnight \/ UNCHANGED vars
  <2> SUFFICES ASSUME NEW q \in Requests PROVE AnswerInv(q)' /\ StageInv(q)'
    BY DEF LocalInv
  <2>1. UNCHANGED <<ask, Own(q)>> /\ today <= today'
    BY <1>4, <1>a DEF SourceChanges, Publish, Midnight, vars, Own
  <2> QED
    BY <1>1, <1>2, <2>1, LocalFrame
<1>5. CASE Crash
  <2> SUFFICES ASSUME NEW q \in Requests PROVE AnswerInv(q)' /\ StageInv(q)'
    BY DEF LocalInv
  <2>1. /\ UNCHANGED <<ask, today, asked, got, calls, answer, reply>>
        /\ pc'[q] = pc[q] \/ (pc[q] \in InFlight /\ pc'[q] = "crashed")
    BY <1>5 DEF Crash, world, store, Types
  <2>2. CASE pc'[q] = pc[q]
    <3>1. UNCHANGED Own(q) /\ today <= today'
      BY <1>a, <2>1, <2>2 DEF Own
    <3> QED
      BY <1>1, <1>2, <2>1, <3>1, LocalFrame
  <2>3. CASE pc[q] \in InFlight /\ pc'[q] = "crashed"
    <3>1. GroundedFits(q)' = GroundedFits(q) /\ UngroundedFits(q)' = UngroundedFits(q)
          /\ Intent(q)' = Intent(q) /\ OwnsConversation(q)' = OwnsConversation(q)
      BY <2>1 DEF GroundedFits, UngroundedFits, PlanFacts, Intent, OwnsConversation
    <3>2. reply[q] = "none"
      BY <1>2, <2>3 DEF StageInv, InFlight
    <3> QED
      BY <1>2, <2>1, <2>3, <3>1, <3>2 DEF AnswerInv, StageInv, Answered, InFlight, AnswerStatuses
  <2> QED
    BY <2>1, <2>2, <2>3
<1> QED
  BY <1>3, <1>4, <1>5 DEF Next

-----------------------------------------------------------------------------
(* What is stored of a request is read from its own state. *)
LEMMA SameRecords ==
  ASSUME NEW r \in Requests, UNCHANGED <<ask, asked[r], got[r], answer[r]>>
  PROVE  /\ Exchange(r)' = Exchange(r) /\ AssistantMessage(r)' = AssistantMessage(r)
         /\ answer'[r].evidence = answer[r].evidence
         /\ \A kind : Snapshot(r, kind)' = Snapshot(r, kind) /\ Link(r, kind)' = Link(r, kind)
<1>1. UserMessage(r)' = UserMessage(r) /\ AssistantMessage(r)' = AssistantMessage(r)
  BY DEF UserMessage, AssistantMessage
<1>2. ASSUME NEW kind
      PROVE  Snapshot(r, kind)' = Snapshot(r, kind) /\ Link(r, kind)' = Link(r, kind)
  BY DEF Snapshot, Link
<1> QED
  BY <1>1, <1>2 DEF Exchange

(* A step that stores nothing. *)
LEMMA StoreFrame ==
  ASSUME Types, LocalInv, StoreInv, UNCHANGED <<ask, store>>,
         \A q \in Requests :
           /\ answer[q].status # "none" => UNCHANGED <<asked[q], got[q], answer[q]>>
           /\ pc[q] \in Answered \ {"store"} => pc'[q] \in Answered \ {"store"}
           /\ pc'[q] = "respond" => pc[q] = "respond"
           /\ reply'[q] \in AnswerStatuses => reply'[q] = reply[q] \/ pc[q] = "respond"
           /\ reply'[q] = "server_error" /\ Faults \subseteq {"crash"} =>
                reply[q] = "server_error" \/ pc[q] = "store"
  PROVE  StoreInv'
<1> USE DEF StoreInv
<1>0. UNCHANGED <<messages, snapshots, links>>
  BY DEF store
<1>1. ASSUME NEW q \in Requests, answer[q].status # "none"
      PROVE  /\ Exchange(q)' = Exchange(q) /\ AssistantMessage(q)' = AssistantMessage(q)
             /\ answer'[q] = answer[q]
             /\ \A kind : Snapshot(q, kind)' = Snapshot(q, kind) /\ Link(q, kind)' = Link(q, kind)
  BY <1>1, SameRecords
<1>2. MessageInv'
  <2> SUFFICES ASSUME NEW m \in messages
               PROVE  /\ m.request \in Requests
                      /\ m \in Exchange(m.request)'
                      /\ Exchange(m.request)' \subseteq messages
                      /\ pc'[m.request] \in Answered \ {"store"}
                      /\ answer'[m.request].status # "none"
                      /\ \A kind \in answer'[m.request].evidence :
                           /\ Link(m.request, kind)' \in links
                           /\ Snapshot(m.request, kind)' \in snapshots
    BY <1>0 DEF MessageInv
  <2>1. m.request \in Requests /\ answer[m.request].status # "none"
    BY DEF MessageInv
  <2> QED
    BY <1>1, <2>1 DEF MessageInv
<1>3. SnapshotInv'
  <2> SUFFICES ASSUME NEW s \in snapshots
               PROVE  /\ s.request \in Requests /\ s.kind \in answer'[s.request].evidence
                      /\ s = Snapshot(s.request, s.kind)'
                      /\ AssistantMessage(s.request)' \in messages
    BY <1>0 DEF SnapshotInv
  <2>1. s.request \in Requests /\ answer[s.request].status # "none"
    BY DEF SnapshotInv, MessageInv, AssistantMessage
  <2> QED
    BY <1>1, <2>1 DEF SnapshotInv
<1>4. LinkInv'
  <2> SUFFICES ASSUME NEW l \in links
               PROVE  /\ l.message \in Requests /\ l.kind \in answer'[l.message].evidence
                      /\ l = Link(l.message, l.kind)'
                      /\ AssistantMessage(l.message)' \in messages
    BY <1>0 DEF LinkInv
  <2>1. l.message \in Requests /\ answer[l.message].status # "none"
    BY DEF LinkInv, MessageInv, AssistantMessage
  <2> QED
    BY <1>1, <2>1 DEF LinkInv
<1>5. ToldInv'
  <2> SUFFICES ASSUME NEW q \in Requests
               PROVE  /\ pc'[q] = "respond" \/ reply'[q] \in AnswerStatuses =>
                           AssistantMessage(q)' \in messages
                      /\ reply'[q] = "server_error" /\ Faults \subseteq {"crash"} =>
                           \A m \in messages : m.request # q
    BY <1>0 DEF ToldInv
  <2>1. ASSUME pc'[q] = "respond" \/ reply'[q] \in AnswerStatuses
        PROVE  AssistantMessage(q)' \in messages
    <3>1. pc[q] = "respond" \/ reply[q] \in AnswerStatuses
      BY <2>1
    <3>2. answer[q].status # "none"
      BY <3>1 DEF LocalInv, AnswerInv, StageInv, AnswerStatuses
    <3> QED
      BY <1>1, <3>1, <3>2 DEF ToldInv
  <2>2. ASSUME reply'[q] = "server_error", Faults \subseteq {"crash"}
        PROVE  \A m \in messages : m.request # q
    BY <2>2 DEF ToldInv, MessageInv
  <2> QED
    BY <2>1, <2>2
<1> QED
  BY <1>2, <1>3, <1>4, <1>5

(* The transaction. *)
LEMMA StoreCommit ==
  ASSUME Types, LocalInv, StoreInv, NEW r \in Requests, pc[r] = "store", CommitExchange(r),
         UNCHANGED <<ask, asked, got, answer>>, pc'[r] \in {"respond", "done"},
         \A q \in Requests \ {r} : pc'[q] = pc[q] /\ reply'[q] = reply[q],
         reply'[r] = "none" \/ (reply'[r] = "server_error" /\ ~(Faults \subseteq {"crash"}))
  PROVE  StoreInv'
<1> USE DEF StoreInv
<1>0. /\ snapshots' = snapshots \cup {Snapshot(r, kind) : kind \in answer[r].evidence}
      /\ messages' = messages \cup Exchange(r)
      /\ links' = links \cup {Link(r, kind) : kind \in answer[r].evidence}
  BY DEF CommitExchange, Exchange, Link
<1>1. \A q \in Requests :
        /\ Exchange(q)' = Exchange(q) /\ AssistantMessage(q)' = AssistantMessage(q)
        /\ \A kind : Snapshot(q, kind)' = Snapshot(q, kind) /\ Link(q, kind)' = Link(q, kind)
  BY SameRecords
<1>2. answer[r].status # "none" /\ answer'[r] = answer[r]
  BY DEF LocalInv, AnswerInv
<1>3. \A m \in Exchange(r) : m.request = r
  BY DEF Exchange, UserMessage, AssistantMessage
<1>4. AssistantMessage(r) \in Exchange(r)
  BY DEF Exchange
<1>5. MessageInv'
  <2> SUFFICES ASSUME NEW m \in messages'
               PROVE  /\ m.request \in Requests
                      /\ m \in Exchange(m.request)
                      /\ Exchange(m.request) \subseteq messages'
                      /\ pc'[m.request] \in Answered \ {"store"}
                      /\ answer[m.request].status # "none"
                      /\ \A kind \in answer[m.request].evidence :
                           /\ Link(m.request, kind) \in links'
                           /\ Snapshot(m.request, kind) \in snapshots'
    BY <1>1 DEF MessageInv
  <2>1. CASE m \in messages
    <3>1. m.request \in Requests \ {r}
      BY <2>1 DEF MessageInv
    <3> QED
      BY <1>0, <2>1, <3>1 DEF MessageInv
  <2>2. CASE m \in Exchange(r)
    BY <1>0, <1>2, <1>3, <2>2 DEF Answered
  <2> QED
    BY <1>0, <2>1, <2>2
<1>6. SnapshotInv'
  <2> SUFFICES ASSUME NEW s \in snapshots'
               PROVE  /\ s.request \in Requests /\ s.kind \in answer[s.request].evidence
                      /\ s = Snapshot(s.request, s.kind)
                      /\ AssistantMessage(s.request) \in messages'
    BY <1>1 DEF SnapshotInv
  <2>1. CASE s \in snapshots
    BY <1>0, <2>1 DEF SnapshotInv
  <2>2. CASE s \in {Snapshot(r, kind) : kind \in answer[r].evidence}
    <3>1. PICK kind \in answer[r].evidence : s = Snapshot(r, kind)
      BY <2>2
    <3>2. s.request = r /\ s.kind = kind
      BY <3>1 DEF Snapshot
    <3> QED
      BY <1>0, <1>4, <3>1, <3>2
  <2> QED
    BY <1>0, <2>1, <2>2
<1>7. LinkInv'
  <2> SUFFICES ASSUME NEW l \in links'
               PROVE  /\ l.message \in Requests /\ l.kind \in answer[l.message].evidence
                      /\ l = Link(l.message, l.kind)
                      /\ AssistantMessage(l.message) \in messages'
    BY <1>1 DEF LinkInv
  <2>1. CASE l \in links
    BY <1>0, <2>1 DEF LinkInv
  <2>2. CASE l \in {Link(r, kind) : kind \in answer[r].evidence}
    <3>1. PICK kind \in answer[r].evidence : l = Link(r, kind)
      BY <2>2
    <3>2. l.message = r /\ l.kind = kind
      BY <3>1 DEF Link
    <3> QED
      BY <1>0, <1>4, <3>1, <3>2
  <2> QED
    BY <1>0, <2>1, <2>2
<1>8. ToldInv'
  <2> SUFFICES ASSUME NEW q \in Requests
               PROVE  /\ pc'[q] = "respond" \/ reply'[q] \in AnswerStatuses =>
                           AssistantMessage(q) \in messages'
                      /\ reply'[q] = "server_error" /\ Faults \subseteq {"crash"} =>
                           \A m \in messages' : m.request # q
    BY <1>1 DEF ToldInv
  <2>1. CASE q = r
    BY <1>0, <1>4, <2>1 DEF AnswerStatuses
  <2>2. CASE q # r
    <3>1. pc'[q] = pc[q] /\ reply'[q] = reply[q]
      BY <2>2
    <3> QED
      BY <1>0, <1>3, <2>2, <3>1 DEF ToldInv
  <2> QED
    BY <2>1, <2>2
<1> QED
  BY <1>5, <1>6, <1>7, <1>8

(* What a step that stores nothing may do to its request. *)
LEMMA OwnFrame ==
  ASSUME Types, NEW r \in Requests, AnswerInv(r), StageInv(r), Receive(r) \/ Serve(r),
         ~StoreExchange(r), UNCHANGED store
  PROVE  /\ answer[r].status # "none" => UNCHANGED <<asked[r], got[r], answer[r]>>
         /\ pc[r] \in Answered \ {"store"} => pc'[r] \in Answered \ {"store"}
         /\ pc'[r] = "respond" => pc[r] = "respond"
         /\ reply'[r] \in AnswerStatuses => reply'[r] = reply[r] \/ pc[r] = "respond"
         /\ reply'[r] = "server_error" /\ Faults \subseteq {"crash"} =>
              reply[r] = "server_error" \/ pc[r] = "store"
<1>1. CASE pc[r] \in {"idle"} \cup (InFlight \ {"store", "respond"})
  <2>1. answer[r].status = "none"
    BY <1>1 DEF AnswerInv, Answered, InFlight
  <2>2. /\ pc[r] \notin Answered /\ pc'[r] # "respond"
        /\ \/ reply'[r] = reply[r] \/ reply'[r] = "not_found"
           \/ reply'[r] = "server_error" /\ ~(Faults \subseteq {"crash"})
    <3>1. pc[r] \notin Answered
      BY <1>1 DEF Answered, InFlight
    <3>2. CASE Receive(r) \/ CheckOwner(r) \/ ConversationNotFound(r)
      BY <3>1, <3>2 DEF Receive, CheckOwner, ConversationNotFound, Answer, Goto, Types
    <3>3. CASE RouteWithoutData(r)
      BY <3>1, <3>3 DEF RouteWithoutData, Unavailable, Compose, ComposeText, Goto, Types
    <3>4. CASE ReadPlan(r) \/ ReadBill(r) \/ ReadCatalog(r)
      BY <3>1, <3>4 DEF ReadPlan, ReadBill, ReadCatalog, Unavailable, Compose, ComposeText,
                        Goto, Types
    <3>5. CASE Compare(r) \/ ComposeComparison(r) \/ ExplainBill(r) \/ FindCharge(r)
      BY <3>1, <3>5 DEF Compare, ComposeComparison, ExplainBill, FindCharge, Unavailable, Compose,
                        ComposeText, Goto, Types
    <3>6. CASE ExplainCharge(r)
      BY <3>1, <3>6 DEF ExplainCharge, Compose, ComposeText, Goto, Types
    <3>7. CASE RetryModel(r) \/ ModelFails(r) \/ ModelReturns(r)
      BY <3>1, <3>7 DEF RetryModel, ModelFails, ModelReturns, Unavailable, Compose, ComposeText,
                        Goto, Types, Answered
    <3>8. CASE StoreRejects(r) \/ StoreFails(r) \/ Respond(r)
      BY <1>1, <3>8 DEF StoreRejects, StoreFails, Respond
    <3>9. CASE HandlerRaises(r)
      BY <3>1, <3>9 DEF HandlerRaises, Answer, Goto, Types
    <3> QED
      BY <3>2, <3>3, <3>4, <3>5, <3>6, <3>7, <3>8, <3>9 DEF Serve
  <2> QED
    BY <2>1, <2>2 DEF AnswerStatuses
<1>2. CASE pc[r] \in {"store", "respond"}
  <2>1. StoreRejects(r) \/ StoreFails(r) \/ Respond(r)
    BY <1>2 DEF Serve, Receive, CheckOwner, ConversationNotFound, RouteWithoutData, ReadPlan,
                ReadBill, ReadCatalog, Compare, ComposeComparison, ExplainBill, FindCharge,
                ExplainCharge, RetryModel, ModelFails, ModelReturns, HandlerRaises
  <2> QED
    BY <2>1 DEF StoreRejects, StoreFails, Respond, Answer, Goto, Types, Answered, AnswerStatuses
<1>3. pc[r] \in {"idle"} \cup InFlight
  BY DEF Serve, Receive, CheckOwner, ConversationNotFound, RouteWithoutData, ReadPlan, ReadBill,
         ReadCatalog, Compare, ComposeComparison, ExplainBill, FindCharge, ExplainCharge,
         RetryModel, ModelFails, ModelReturns, StoreRejects, StoreFails, Respond, HandlerRaises,
         InFlight
<1> QED
  BY <1>1, <1>2, <1>3

(* Each step keeps the store. *)
LEMMA StoreStep == Types /\ LocalInv /\ StoreInv /\ [Next]_vars => StoreInv'
<1> SUFFICES ASSUME Types, LocalInv, StoreInv, [Next]_vars PROVE StoreInv'
  OBVIOUS
<1>1. ASSUME NEW r \in Requests, Receive(r) \/ Serve(r) PROVE StoreInv'
  <2>0. AnswerInv(r) /\ StageInv(r)
    BY DEF LocalInv
  <2>1. /\ UNCHANGED ask
        /\ \A q \in Requests \ {r} :
             /\ pc'[q] = pc[q] /\ asked'[q] = asked[q] /\ got'[q] = got[q]
             /\ answer'[q] = answer[q] /\ reply'[q] = reply[q]
    BY <1>1, OthersAlone DEF Own
  <2>2. CASE CommitExchange(r) /\ (StoreExchange(r) \/ StoreFails(r))
    <3>1. /\ pc[r] = "store" /\ UNCHANGED <<ask, asked, got, answer>>
          /\ pc'[r] \in {"respond", "done"}
          /\ reply'[r] = reply[r] \/ (reply'[r] = "server_error" /\ ~(Faults \subseteq {"crash"}))
      BY <2>2 DEF StoreExchange, StoreFails, Answer, Goto, Types
    <3>2. reply[r] = "none"
      BY <2>0, <3>1 DEF StageInv
    <3> QED
      BY <2>1, <2>2, <3>1, <3>2, StoreCommit
  <2>3. CASE ~StoreExchange(r) /\ UNCHANGED store
    <3>1. /\ answer[r].status # "none" => UNCHANGED <<asked[r], got[r], answer[r]>>
          /\ pc[r] \in Answered \ {"store"} => pc'[r] \in Answered \ {"store"}
          /\ pc'[r] = "respond" => pc[r] = "respond"
          /\ reply'[r] \in AnswerStatuses => reply'[r] = reply[r] \/ pc[r] = "respond"
          /\ reply'[r] = "server_error" /\ Faults \subseteq {"crash"} =>
               reply[r] = "server_error" \/ pc[r] = "store"
      BY <1>1, <2>0, <2>3, OwnFrame
    <3>2. ASSUME NEW q \in Requests
          PROVE  /\ answer[q].status # "none" => UNCHANGED <<asked[q], got[q], answer[q]>>
                 /\ pc[q] \in Answered \ {"store"} => pc'[q] \in Answered \ {"store"}
                 /\ pc'[q] = "respond" => pc[q] = "respond"
                 /\ reply'[q] \in AnswerStatuses => reply'[q] = reply[q] \/ pc[q] = "respond"
                 /\ reply'[q] = "server_error" /\ Faults \subseteq {"crash"} =>
                      reply[q] = "server_error" \/ pc[q] = "store"
      BY <2>1, <3>1
    <3> QED
      BY <2>1, <2>3, <3>2, StoreFrame
  <2>4. \/ CommitExchange(r) /\ (StoreExchange(r) \/ StoreFails(r))
        \/ ~StoreExchange(r) /\ UNCHANGED store
    BY <1>1 DEF Serve, Receive, CheckOwner, ConversationNotFound, RouteWithoutData, ReadPlan,
                ReadBill, ReadCatalog, Compare, ComposeComparison, ExplainBill, FindCharge,
                ExplainCharge, RetryModel, ModelFails, ModelReturns, StoreExchange, StoreRejects,
                StoreFails, Respond, HandlerRaises
  <2> QED
    BY <2>2, <2>3, <2>4
<1>2. CASE SourceChanges \/ Midnight \/ Crash \/ UNCHANGED vars
  <2>1. UNCHANGED <<ask, store, asked, got, answer, reply>>
    BY <1>2 DEF SourceChanges, Publish, Midnight, Crash, vars, store
  <2>2. \A q \in Requests : pc'[q] = pc[q] \/ pc'[q] = "crashed"
    BY <1>2 DEF SourceChanges, Publish, Midnight, Crash, vars
  <2>3. ASSUME NEW q \in Requests
        PROVE  /\ answer[q].status # "none" => UNCHANGED <<asked[q], got[q], answer[q]>>
               /\ pc[q] \in Answered \ {"store"} => pc'[q] \in Answered \ {"store"}
               /\ pc'[q] = "respond" => pc[q] = "respond"
               /\ reply'[q] \in AnswerStatuses => reply'[q] = reply[q] \/ pc[q] = "respond"
               /\ reply'[q] = "server_error" /\ Faults \subseteq {"crash"} =>
                    reply[q] = "server_error" \/ pc[q] = "store"
    BY <2>1, <2>2 DEF Answered
  <2> QED
    BY <2>1, <2>3, StoreFrame
<1> QED
  BY <1>1, <1>2 DEF Next

LEMMA StepIInv == IInv /\ [Next]_vars => IInv'
  BY TypesStep, LocalStep, StoreStep DEF IInv

(* The inductive invariant holds in every reachable state. *)
LEMMA Invariance == Spec => []IInv
  BY InitIInv, StepIInv, PTL DEF Spec

-----------------------------------------------------------------------------
(* The properties *)

(* A stored answer is the one that was composed for its question. *)
LEMMA StoredAnswer ==
  ASSUME IInv, NEW m \in Stored("assistant")
  PROVE  /\ m.request \in Requests /\ m = AssistantMessage(m.request) /\ m \in messages
         /\ m.status = answer[m.request].status /\ m.on = answer[m.request].on
         /\ m.text = answer[m.request].text /\ answer[m.request].evidence \subseteq Kinds
         /\ IF m.status = "grounded" THEN GroundedFits(m.request) ELSE UngroundedFits(m.request)
<1>1. m \in messages /\ m.role = "assistant"
  BY DEF Stored
<1>2. m.request \in Requests /\ answer[m.request].status # "none" /\ m \in Exchange(m.request)
  BY <1>1 DEF IInv, StoreInv, MessageInv
<1>3. m = AssistantMessage(m.request)
  BY <1>1, <1>2 DEF Exchange, UserMessage
<1>4. answer[m.request].evidence \subseteq Kinds
  BY <1>2 DEF IInv, Types
<1>5. AnswerInv(m.request)
  BY <1>2 DEF IInv, LocalInv
<1>6. /\ m.status = answer[m.request].status /\ m.on = answer[m.request].on
      /\ m.text = answer[m.request].text
  BY <1>3 DEF AssistantMessage
<1> QED
  BY <1>1, <1>2, <1>3, <1>4, <1>5, <1>6 DEF AnswerInv

(* It is linked to the evidence it was composed from. *)
LEMMA LinkedEvidence ==
  ASSUME IInv, NEW r \in Requests, AssistantMessage(r) \in messages
  PROVE  LinkedKinds(r) = answer[r].evidence
<1>1. AssistantMessage(r).request = r
  BY DEF AssistantMessage
<1>2. ASSUME NEW l \in links, l.message = r PROVE l.kind \in answer[r].evidence
  BY <1>2 DEF IInv, StoreInv, LinkInv
<1>3. ASSUME NEW kind \in answer[r].evidence PROVE kind \in LinkedKinds(r)
  <2>1. Link(r, kind) \in links
    BY <1>1 DEF IInv, StoreInv, MessageInv
  <2>2. Link(r, kind).message = r /\ Link(r, kind).kind = kind
    BY DEF Link
  <2> QED
    BY <2>1, <2>2 DEF LinkedKinds
<1>4. ASSUME NEW kind \in LinkedKinds(r) PROVE kind \in answer[r].evidence
  BY <1>2 DEF LinkedKinds
<1> QED
  BY <1>3, <1>4

(* And the snapshot it cites holds what was read. *)
LEMMA CitedData ==
  ASSUME IInv, NEW r \in Requests, AssistantMessage(r) \in messages,
         NEW kind \in answer[r].evidence, NEW copied \in Copied(kind)
  PROVE  Cited(r, kind)[copied] = got[r][copied]
<1>1. AssistantMessage(r).request = r
  BY DEF AssistantMessage
<1>2. Snapshot(r, kind) \in snapshots
  BY <1>1 DEF IInv, StoreInv, MessageInv
<1>3. Snapshot(r, kind).request = r /\ Snapshot(r, kind).kind = kind
      /\ Snapshot(r, kind).data[copied] = got[r][copied]
  BY DEF Snapshot
<1>4. ASSUME NEW s \in Snapshots(r, kind) PROVE s = Snapshot(r, kind)
  BY <1>4 DEF Snapshots, IInv, StoreInv, SnapshotInv
<1>5. Snapshot(r, kind) \in Snapshots(r, kind)
  BY <1>2, <1>3 DEF Snapshots
<1>6. (CHOOSE s \in Snapshots(r, kind) : TRUE) \in Snapshots(r, kind)
  BY <1>5
<1> QED
  BY <1>3, <1>4, <1>6 DEF Cited

(* The evidence a question needs says which question it is. *)
LEMMA RequiredKinds ==
  ASSUME NEW intent \in {"current_plan", "latest_bill", "unexpected_charge", "comparison"}
  PROVE  /\ "plan" \in RequiredEvidence(intent) => intent = "current_plan"
         /\ "bill" \in RequiredEvidence(intent) => intent \in {"latest_bill", "unexpected_charge"}
         /\ "charge" \in RequiredEvidence(intent) =>
              intent = "unexpected_charge" /\ "bill" \in RequiredEvidence(intent)
         /\ "comparison" \in RequiredEvidence(intent) => intent = "comparison"
<1>1. CASE intent = "current_plan"
  <2>1. RequiredEvidence(intent) = {"plan"}
    BY <1>1 DEF RequiredEvidence
  <2> QED
    BY <1>1, <2>1
<1>2. CASE intent = "latest_bill"
  <2>1. RequiredEvidence(intent) = {"bill"}
    BY <1>2 DEF RequiredEvidence
  <2> QED
    BY <1>2, <2>1
<1>3. CASE intent = "unexpected_charge"
  <2>1. RequiredEvidence(intent) = {"bill", "charge"}
    BY <1>3 DEF RequiredEvidence
  <2> QED
    BY <1>3, <2>1
<1>4. CASE intent = "comparison"
  <2>1. RequiredEvidence(intent) = {"comparison"}
    BY <1>4 DEF RequiredEvidence
  <2> QED
    BY <1>4, <2>1
<1> QED
  BY <1>1, <1>2, <1>3, <1>4

(* Type correctness of the requests, the sources and the store. *)
THEOREM TypeCorrectness == Spec => []TypeOK
<1>1. IInv => TypeOK
  <2> SUFFICES ASSUME IInv PROVE TypeOK
    OBVIOUS
  <2>1. ASSUME NEW m \in messages
        PROVE  /\ m.request \in Requests /\ m.role \in Roles
               /\ m.conversation \in Conversations /\ m.on \in Days
               /\ (m.role = "user") <=> (m.status = "none")
    <3>1. m.request \in Requests /\ m \in Exchange(m.request) /\ answer[m.request].status # "none"
      BY DEF IInv, StoreInv, MessageInv
    <3>2. /\ ask[m.request].conversation \in Conversations
          /\ asked[m.request] \in Days /\ answer[m.request].on \in Days
      BY <3>1 DEF IInv, Types
    <3>3. CASE m = UserMessage(m.request)
      BY <3>1, <3>2, <3>3 DEF UserMessage, Roles
    <3>4. CASE m = AssistantMessage(m.request)
      BY <3>1, <3>2, <3>4 DEF AssistantMessage, Roles
    <3> QED
      BY <3>1, <3>3, <3>4 DEF Exchange
  <2>2. ASSUME NEW s \in snapshots PROVE s.request \in Requests /\ s.kind \in Kinds
    BY DEF IInv, StoreInv, SnapshotInv, Types
  <2>3. ASSUME NEW l \in links PROVE l \in [message : Requests, kind : Kinds]
    BY DEF IInv, StoreInv, LinkInv, Link, Types
  <2> QED
    BY <2>1, <2>2, <2>3 DEF TypeOK, IInv, Types
<1> QED
  BY <1>1, Invariance, PTL

(* No half of an exchange is ever stored, whichever requests run at the    *)
(* same time, whatever fails and wherever the server dies.                 *)
THEOREM ExchangesAreWhole == Spec => []ExchangeIsWhole
<1>1. IInv => ExchangeIsWhole
  <2> SUFFICES ASSUME IInv PROVE ExchangeIsWhole
    OBVIOUS
  <2> USE DEF IInv, StoreInv
  <2>a. \A r : /\ UserMessage(r).request = r /\ UserMessage(r).role = "user"
               /\ AssistantMessage(r).request = r /\ AssistantMessage(r).role = "assistant"
               /\ UserMessage(r).conversation = AssistantMessage(r).conversation
    BY DEF UserMessage, AssistantMessage
  <2>b. \A m \in messages :
          /\ m = UserMessage(m.request) \/ m = AssistantMessage(m.request)
          /\ UserMessage(m.request) \in messages /\ AssistantMessage(m.request) \in messages
    BY DEF MessageInv, Exchange
  <2>1. ASSUME NEW m \in messages
        PROVE  \E n \in messages : /\ n.request = m.request /\ n.role # m.role
                                   /\ n.conversation = m.conversation
    <3>1. UserMessage(m.request) \in messages /\ AssistantMessage(m.request) \in messages
      BY <2>b
    <3>2. CASE m = UserMessage(m.request)
      BY <2>a, <3>1, <3>2
    <3>3. CASE m = AssistantMessage(m.request)
      BY <2>a, <3>1, <3>3
    <3>4. m = UserMessage(m.request) \/ m = AssistantMessage(m.request)
      BY <2>b
    <3> QED
      BY <3>2, <3>3, <3>4
  <2>2. ASSUME NEW m \in messages, NEW n \in messages, m.request = n.request, m.role = n.role
        PROVE  m = n
    <3>1. CASE m = UserMessage(m.request)
      <4>1. n # AssistantMessage(n.request)
        BY <2>a, <2>2, <3>1
      <4> QED
        BY <2>b, <2>2, <3>1, <4>1
    <3>2. CASE m = AssistantMessage(m.request)
      <4>1. n # UserMessage(n.request)
        BY <2>a, <2>2, <3>2
      <4> QED
        BY <2>b, <2>2, <3>2, <4>1
    <3> QED
      BY <2>b, <3>1, <3>2
  <2>3. ASSUME NEW s \in snapshots
        PROVE  /\ [message |-> s.request, kind |-> s.kind] \in links
               /\ \A t \in snapshots : s.request = t.request /\ s.kind = t.kind => s = t
    <3>1. /\ s.kind \in answer[s.request].evidence /\ AssistantMessage(s.request) \in messages
      BY DEF SnapshotInv
    <3>2. Link(s.request, s.kind) \in links
      BY <2>a, <3>1 DEF MessageInv
    <3> QED
      BY <3>2 DEF Link, SnapshotInv
  <2>4. ASSUME NEW l \in links
        PROVE  /\ \E m \in Stored("assistant") : m.request = l.message
               /\ \E s \in snapshots : s.request = l.message /\ s.kind = l.kind
    <3>1. l.kind \in answer[l.message].evidence /\ AssistantMessage(l.message) \in messages
      BY DEF LinkInv
    <3>2. Snapshot(l.message, l.kind) \in snapshots
      BY <2>a, <3>1 DEF MessageInv
    <3>3. Snapshot(l.message, l.kind).request = l.message
          /\ Snapshot(l.message, l.kind).kind = l.kind
      BY DEF Snapshot
    <3>4. AssistantMessage(l.message) \in Stored("assistant")
      BY <2>a, <3>1 DEF Stored
    <3> QED
      BY <2>a, <3>2, <3>3, <3>4
  <2> QED
    BY <2>1, <2>2, <2>3, <2>4 DEF ExchangeIsWhole
<1> QED
  BY <1>1, Invariance, PTL

(* Every grounded answer rests on stored data that its check accepted,     *)
(* whatever the sources publish between the reads of a request.            *)
THEOREM AnswersAreEvidenced == Spec => []GroundedIsEvidenced
<1>1. IInv => GroundedIsEvidenced
  <2> SUFFICES ASSUME IInv, NEW m \in Stored("assistant"), m.status = "grounded",
                      NEW r, r = m.request
               PROVE  /\ Intent(r) \notin {"ambiguous_charge", "unsupported"}
                      /\ LinkedKinds(r) = RequiredEvidence(Intent(r))
                      /\ "bill" \in LinkedKinds(r) => IsReconciledBill(Cited(r, "bill")["bill"])
                      /\ "charge" \in LinkedKinds(r) =>
                           LET bill == Cited(r, "bill")["bill"] IN
                           ChargeEvidenceMatches(bill, RoamingItem(bill), Cited(r, "charge")["charge"])
                      /\ "comparison" \in LinkedKinds(r) =>
                           LET cited == Cited(r, "comparison") IN
                           \E day \in asked[r]..m.on :
                             IsSafeComparisonInput(cited["plan"], cited["comparison"], day)
    BY DEF GroundedIsEvidenced
  <2>1. /\ r \in Requests /\ AssistantMessage(r) \in messages /\ GroundedFits(r)
        /\ m.on = answer[r].on
    BY StoredAnswer
  <2>2. LinkedKinds(r) = answer[r].evidence /\ LinkedKinds(r) = RequiredEvidence(Intent(r))
    BY <2>1, LinkedEvidence DEF GroundedFits
  <2>3. ASSUME "bill" \in LinkedKinds(r)
        PROVE  /\ Intent(r) \in {"latest_bill", "unexpected_charge"}
               /\ Cited(r, "bill")["bill"] = got[r]["bill"]
    <3>1. Intent(r) \in {"latest_bill", "unexpected_charge"}
      BY <2>1, <2>2, <2>3, RequiredKinds DEF GroundedFits
    <3>2. "bill" \in Copied("bill")
      BY DEF Copied
    <3> QED
      BY <2>1, <2>2, <2>3, <3>1, <3>2, CitedData
  <2>4. ASSUME "charge" \in LinkedKinds(r)
        PROVE  /\ Intent(r) = "unexpected_charge" /\ "bill" \in LinkedKinds(r)
               /\ Cited(r, "charge")["charge"] = got[r]["charge"]
    <3>1. Intent(r) = "unexpected_charge" /\ "bill" \in LinkedKinds(r)
      BY <2>1, <2>2, <2>4, RequiredKinds DEF GroundedFits
    <3>2. "charge" \in Copied("charge")
      BY DEF Copied
    <3> QED
      BY <2>1, <2>2, <2>4, <3>1, <3>2, CitedData
  <2>5. ASSUME "comparison" \in LinkedKinds(r)
        PROVE  /\ Intent(r) = "comparison"
               /\ Cited(r, "comparison")["plan"] = got[r]["plan"]
               /\ Cited(r, "comparison")["comparison"] = got[r]["comparison"]
    <3>1. Intent(r) = "comparison"
      BY <2>1, <2>2, <2>5, RequiredKinds DEF GroundedFits
    <3>2. "plan" \in Copied("comparison") /\ "comparison" \in Copied("comparison")
      BY DEF Copied
    <3> QED
      BY <2>1, <2>2, <2>5, <3>1, <3>2, CitedData
  <2>6. Intent(r) \notin {"ambiguous_charge", "unsupported"}
    BY <2>1 DEF GroundedFits
  <2> QED
    BY <2>1, <2>2, <2>3, <2>4, <2>5, <2>6 DEF GroundedFits
<1> QED
  BY <1>1, Invariance, PTL

(* The text of a plan answer never disagrees with the snapshot stored      *)
(* beside it, whatever the source publishes while the model writes.        *)
THEOREM PlanTextsMatch == Spec => []PlanTextMatchesSnapshot
<1>1. IInv => PlanTextMatchesSnapshot
  <2> SUFFICES ASSUME IInv, NEW m \in Stored("assistant"), m.status = "grounded",
                      NEW r, r = m.request, "plan" \in LinkedKinds(r),
                      NEW values, values = Facts(Cited(r, "plan")["plan"])
               PROVE  /\ StatesAll(m.text, values)
                      /\ \A n \in NumbersIn(m.text) : Occurrences(m.text, n) <= Allowed(values, n)
    BY DEF PlanTextMatchesSnapshot
  <2>1. /\ r \in Requests /\ AssistantMessage(r) \in messages /\ GroundedFits(r)
        /\ m.text = answer[r].text
    BY StoredAnswer
  <2>2. LinkedKinds(r) = answer[r].evidence /\ LinkedKinds(r) = RequiredEvidence(Intent(r))
    BY <2>1, LinkedEvidence DEF GroundedFits
  <2>3. Intent(r) = "current_plan"
    BY <2>1, <2>2, RequiredKinds DEF GroundedFits
  <2>4. "plan" \in Copied("plan")
    BY DEF Copied
  <2>5. Cited(r, "plan")["plan"] = got[r]["plan"]
    BY <2>1, <2>2, <2>4, CitedData
  <2>6. IsGroundedOutput(m.text, values)
    BY <2>1, <2>3, <2>5 DEF GroundedFits, PlanFacts
  <2>7. /\ OutputChecks(m.text, values).values
        /\ OutputChecks(m.text, values).numbers
    <3>1. /\ "values" \in DOMAIN OutputChecks(m.text, values)
          /\ "numbers" \in DOMAIN OutputChecks(m.text, values)
      BY DEF OutputChecks
    <3> QED
      BY <2>6, <3>1 DEF IsGroundedOutput, AllHold
  <2> QED
    BY <2>7 DEF OutputChecks
<1> QED
  BY <1>1, Invariance, PTL

(* Nothing is claimed by an answer that found no evidence, and conflicting *)
(* evidence is kept only when it conflicts.                                *)
THEOREM RefusalsClaimNothing == Spec => []UngroundedClaimsNothing
<1>1. IInv => UngroundedClaimsNothing
  <2> SUFFICES ASSUME IInv, NEW m \in Stored("assistant"), m.status # "grounded",
                      NEW r, r = m.request
               PROVE  /\ LinkedKinds(r) \in {{}, {"bill"}, {"bill", "charge"}}
                      /\ LinkedKinds(r) # {} => Intent(r) = "unexpected_charge"
                      /\ "charge" \in LinkedKinds(r) =>
                           LET bill == Cited(r, "bill")["bill"] IN
                           ~ChargeEvidenceMatches(bill, RoamingItem(bill), Cited(r, "charge")["charge"])
    BY DEF UngroundedClaimsNothing
  <2>1. r \in Requests /\ AssistantMessage(r) \in messages /\ UngroundedFits(r)
    BY StoredAnswer
  <2>2. LinkedKinds(r) = answer[r].evidence
    BY <2>1, LinkedEvidence
  <2>3. ASSUME "charge" \in LinkedKinds(r)
        PROVE  /\ Cited(r, "bill")["bill"] = got[r]["bill"]
               /\ Cited(r, "charge")["charge"] = got[r]["charge"]
    <3>1. "bill" \in answer[r].evidence /\ "charge" \in answer[r].evidence
      BY <2>1, <2>2, <2>3 DEF UngroundedFits
    <3>2. "bill" \in Copied("bill") /\ "charge" \in Copied("charge")
      BY DEF Copied
    <3> QED
      BY <2>1, <3>1, <3>2, CitedData
  <2> QED
    BY <2>1, <2>2, <2>3 DEF UngroundedFits
<1> QED
  BY <1>1, Invariance, PTL

(* What a conversation stores is of its owner, for any ownership.          *)
THEOREM PrivateStore == Spec => []StoreIsPrivate
<1>1. IInv => StoreIsPrivate
  <2> SUFFICES ASSUME IInv PROVE StoreIsPrivate
    OBVIOUS
  <2>1. ASSUME NEW m \in messages
        PROVE  Owner[m.conversation] = ask[m.request].customer
    <3>1. m.request \in Requests /\ m \in Exchange(m.request) /\ answer[m.request].status # "none"
      BY DEF IInv, StoreInv, MessageInv
    <3>2. OwnsConversation(m.request)
      BY <3>1 DEF IInv, LocalInv, AnswerInv
    <3>3. m.conversation = ask[m.request].conversation
      BY <3>1 DEF Exchange, UserMessage, AssistantMessage
    <3> QED
      BY <3>2, <3>3 DEF OwnsConversation
  <2>2. \A s \in snapshots : s.customer = ask[s.request].customer
    BY DEF IInv, StoreInv, SnapshotInv, Snapshot
  <2> QED
    BY <2>1, <2>2 DEF StoreIsPrivate
<1> QED
  BY <1>1, Invariance, PTL

(* A 201 names a stored answer, and a 404 leaves no trace.                 *)
THEOREM RepliesMatchStore == Spec => []ReplyMatchesStore
<1>1. IInv => ReplyMatchesStore
  <2> SUFFICES ASSUME IInv, NEW r \in Requests
               PROVE  /\ reply[r] \in AnswerStatuses =>
                           \E m \in Stored("assistant") : m.request = r /\ m.status = reply[r]
                      /\ reply[r] = "not_found" => \A m \in messages : m.request # r
    BY DEF ReplyMatchesStore
  <2>0. StageInv(r)
    BY DEF IInv, LocalInv
  <2>1. ASSUME reply[r] \in AnswerStatuses
        PROVE  \E m \in Stored("assistant") : m.request = r /\ m.status = reply[r]
    <3>1. AssistantMessage(r) \in messages /\ answer[r].status = reply[r]
      BY <2>0, <2>1 DEF IInv, StoreInv, ToldInv, StageInv
    <3>2. /\ AssistantMessage(r).role = "assistant" /\ AssistantMessage(r).request = r
          /\ AssistantMessage(r).status = answer[r].status
      BY DEF AssistantMessage
    <3>3. AssistantMessage(r) \in Stored("assistant")
      BY <3>1, <3>2 DEF Stored
    <3> QED
      BY <3>1, <3>2, <3>3
  <2>2. ASSUME reply[r] = "not_found" PROVE \A m \in messages : m.request # r
    BY <2>0, <2>2 DEF IInv, StoreInv, MessageInv, StageInv
  <2> QED
    BY <2>1, <2>2
<1> QED
  BY <1>1, Invariance, PTL

(* A set of positions that is not empty has a first one. *)
LEMMA LeastNatural ==
  ASSUME NEW S \in SUBSET Nat, S # {}
  PROVE  \E i \in S : \A j \in S : i <= j
<1> DEFINE Below == {0 .. i : i \in S}
<1>1. Below \subseteq Sets!FiniteSubsetsOf(Nat) /\ Below # {}
  <2>1. ASSUME NEW i \in S PROVE 0 .. i \in Sets!FiniteSubsetsOf(Nat)
    <3>1. i \in Int /\ 0 \in Int
      OBVIOUS
    <3>2. Sets!IsFiniteSet(0 .. i) /\ 0 .. i \in SUBSET Nat
      BY <3>1, Sets!FS_Interval
    <3> QED
      BY <3>2 DEF Sets!FiniteSubsetsOf
  <2> QED
    BY <2>1
<1>2. PICK least \in Below : \A b \in Below : <<b, least>> \notin Sets!StrictSubsetOrdering(Nat)
  <2>1. Sets!IsWellFoundedOn(Sets!StrictSubsetOrdering(Nat), Sets!FiniteSubsetsOf(Nat))
    BY Sets!FS_StrictSubsetOrderingWellFounded
  <2> HIDE DEF Below
  <2> QED
    BY <1>1, <2>1, Sets!WFMin
<1>3. PICK i \in S : least = 0 .. i
  BY <1>2
<1>4. ASSUME NEW j \in S, j < i PROVE FALSE
  <2>1. 0 .. j \subseteq 0 .. i /\ i \in 0 .. i /\ i \notin 0 .. j
    BY <1>4
  <2>2. <<0 .. j, 0 .. i>> \in Sets!StrictSubsetOrdering(Nat)
    BY <2>1 DEF Sets!StrictSubsetOrdering
  <2> QED
    BY <1>2, <1>3, <2>2
<1> QED
  BY <1>3, <1>4

(* The roaming charge of a bill is one of its line items. *)
LEMMA RoamingItemIsBilled ==
  ASSUME NEW bill \in Bills, HasRoaming(bill)
  PROVE  \E i \in DOMAIN bill.items : RoamingItem(bill) = bill.items[i]
<1>1. RoamingPositions(bill) \subseteq Nat /\ RoamingPositions(bill) # {}
  BY BillAssumption DEF RoamingPositions, HasRoaming
<1>2. \E i \in RoamingPositions(bill) : \A j \in RoamingPositions(bill) : i <= j
  BY <1>1, LeastNatural
<1> DEFINE first == CHOOSE i \in RoamingPositions(bill) : \A j \in RoamingPositions(bill) : i <= j
<1>3. first \in RoamingPositions(bill)
  BY <1>2
<1>4. RoamingItem(bill) = bill.items[first]
  BY DEF RoamingItem
<1> QED
  BY <1>3, <1>4 DEF RoamingPositions

(* What the checks accept meets the CHECK constraints of its snapshot, and *)
(* is stored if it fits the columns.                                       *)
LEMMA CheckedBillIsStored ==
  ASSUME NEW bill, IsReconciledBill(bill), BillFits(bill)
  PROVE  StoreAcceptsBill(bill)
  BY DEF IsReconciledBill, BillChecks, AllHold, StoreAcceptsBill

LEMMA CheckedChargeIsStored ==
  ASSUME NEW bill \in Bills, NEW details, IsReconciledBill(bill), HasRoaming(bill),
         ChargeEvidenceMatches(bill, RoamingItem(bill), details), ChargeFits(details)
  PROVE  StoreAcceptsCharge(details)
<1>1. PICK i \in DOMAIN bill.items : RoamingItem(bill) = bill.items[i]
  BY RoamingItemIsBilled
<1>2. bill.items[i].amount >= 0 /\ bill.currency \in Currencies
  BY DEF IsReconciledBill, BillChecks, AllHold
<1>3. /\ details.state = "confirmed" /\ details.amount = RoamingItem(bill).amount
      /\ details.currency = bill.currency
  BY DEF ChargeEvidenceMatches, ChargeChecks, AllHold
<1> QED
  BY <1>1, <1>2, <1>3 DEF StoreAcceptsCharge

LEMMA CheckedComparisonIsStored ==
  ASSUME NEW plan, NEW catalog, NEW day, IsSafeComparisonInput(plan, catalog, day),
         ComparisonFits(plan, catalog)
  PROVE  StoreAcceptsComparison(plan, catalog)
<1> DEFINE checks == ComparisonChecks(plan, catalog, day)
<1>1. checks.usable_plan /\ checks.codes /\ checks.offers
  <2>1. {"usable_plan", "codes", "offers"} \subseteq DOMAIN checks
    BY DEF ComparisonChecks
  <2> QED
    BY <2>1 DEF IsSafeComparisonInput, AllHold
<1>2. /\ IsUsablePlan(plan, day)
      /\ \A i \in DOMAIN catalog.offers : IsUsableOffer(catalog.offers[i], plan, day)
  <2>1. /\ checks.usable_plan = IsUsablePlan(plan, day)
        /\ checks.offers = \A i \in DOMAIN catalog.offers :
                             IsUsableOffer(catalog.offers[i], plan, day)
    BY DEF ComparisonChecks
  <2> HIDE DEF checks
  <2> QED
    BY <1>1, <2>1, Zenon
<1>3. TermsAreValid(plan)
  BY <1>2 DEF TermsAreValid, IsUsablePlan
<1>4. \A i \in DOMAIN catalog.offers : TermsAreValid(catalog.offers[i])
  BY <1>2 DEF TermsAreValid, IsUsableOffer, IsUsablePlan
<1> QED
  BY <1>1, <1>3, <1>4 DEF ComparisonChecks, StoreAcceptsComparison

(* While the database works and no source raises, no checked answer whose  *)
(* evidence fits its columns is lost, whatever the sources publish: the    *)
(* checks imply the CHECK constraints of the tables.  They do not imply    *)
(* that a text or an amount fits.                                          *)
THEOREM CheckedAnswersThatFitAreStored == Spec => []OnlyUncheckedDataIsLost
<1>1. IInv => OnlyUncheckedDataIsLost
  <2> SUFFICES ASSUME IInv, NEW r \in Requests, reply[r] = "server_error",
                      Faults \subseteq {"crash"}
               PROVE  /\ \A m \in messages : m.request # r
                      /\ \/ \E kind \in answer[r].evidence : ~Fits(r, kind)
                         \/ Intent(r) = "current_plan"
                         \/ /\ Intent(r) = "unexpected_charge"
                            /\ ~ChargeEvidenceMatches(got[r]["bill"], RoamingItem(got[r]["bill"]),
                                                      got[r]["charge"])
    BY DEF OnlyUncheckedDataIsLost
  <2>1. \A m \in messages : m.request # r
    BY DEF IInv, StoreInv, ToldInv
  <2> SUFFICES ASSUME \A kind \in answer[r].evidence : Fits(r, kind)
               PROVE  \/ Intent(r) = "current_plan"
                      \/ /\ Intent(r) = "unexpected_charge"
                         /\ ~ChargeEvidenceMatches(got[r]["bill"], RoamingItem(got[r]["bill"]),
                                                   got[r]["charge"])
    BY <2>1
  <2>2. answer[r].status # "none" /\ ~StoreAcceptsExchange(r) /\ AnswerInv(r)
    BY DEF IInv, LocalInv, StageInv
  <2>3. PICK kind \in answer[r].evidence : ~StoreAccepts(r, kind)
    BY <2>2 DEF StoreAcceptsExchange
  <2>4. kind = "bill" => ~StoreAcceptsBill(got[r]["bill"]) /\ BillFits(got[r]["bill"])
    BY <2>3 DEF StoreAccepts, Fits
  <2>5. kind = "charge" => ~StoreAcceptsCharge(got[r]["charge"]) /\ ChargeFits(got[r]["charge"])
    BY <2>3 DEF StoreAccepts, Fits
  <2>6. kind = "comparison" => /\ ~StoreAcceptsComparison(got[r]["plan"], got[r]["comparison"])
                               /\ ComparisonFits(got[r]["plan"], got[r]["comparison"])
    BY <2>3 DEF StoreAccepts, Fits
  <2>7. CASE answer[r].status # "grounded"
    <3>1. UngroundedFits(r)
      BY <2>2, <2>7 DEF AnswerInv
    <3>2. kind # "bill"
      BY <2>4, <3>1, CheckedBillIsStored DEF UngroundedFits
    <3> QED
      BY <2>1, <2>3, <3>1, <3>2 DEF UngroundedFits
  <2>8. CASE answer[r].status = "grounded"
    <3>1. GroundedFits(r) /\ kind \in RequiredEvidence(Intent(r))
      BY <2>2, <2>3, <2>8 DEF AnswerInv, GroundedFits
    <3>2. CASE Intent(r) = "latest_bill"
      <4>1. kind = "bill"
        BY <3>1, <3>2 DEF RequiredEvidence
      <4> QED
        BY <2>4, <3>1, <3>2, <4>1, CheckedBillIsStored DEF GroundedFits
    <3>3. CASE Intent(r) = "unexpected_charge"
      <4>1. kind = "bill" \/ kind = "charge"
        BY <3>1, <3>3 DEF RequiredEvidence
      <4> QED
        BY <2>4, <2>5, <3>1, <3>3, <4>1, CheckedBillIsStored, CheckedChargeIsStored DEF GroundedFits
    <3>4. CASE Intent(r) = "comparison"
      <4>1. kind = "comparison"
        BY <3>1, <3>4 DEF RequiredEvidence
      <4> QED
        BY <2>6, <3>1, <3>4, <4>1, CheckedComparisonIsStored DEF GroundedFits
    <3> QED
      BY <2>1, <3>1, <3>2, <3>3, <3>4 DEF GroundedFits
  <2> QED
    BY <2>7, <2>8
<1> QED
  BY <1>1, Invariance, PTL

(* The model is called at most twice for a question, and never without a   *)
(* plan to explain.                                                        *)
THEOREM BoundedModelCalls == Spec => []ModelCallsAreBounded
<1>1. IInv => ModelCallsAreBounded
  <2> SUFFICES ASSUME IInv, NEW r \in Requests
               PROVE  /\ calls[r] <= 2
                      /\ calls[r] > 0 => Intent(r) = "current_plan" /\ got[r]["plan"] # NoData
                      /\ \A m \in Stored("assistant") :
                           m.request = r /\ m.status = "grounded" /\ Intent(r) = "current_plan"
                             => calls[r] > 0
    BY DEF ModelCallsAreBounded
  <2>1. ASSUME NEW m \in Stored("assistant"), m.request = r, m.status = "grounded",
               Intent(r) = "current_plan"
        PROVE  calls[r] > 0
    BY <2>1, StoredAnswer DEF GroundedFits
  <2>2. StageInv(r)
    BY DEF IInv, LocalInv
  <2> QED
    BY <2>1, <2>2 DEF StageInv
<1> QED
  BY <1>1, Invariance, PTL

-----------------------------------------------------------------------------
(* SendSupportMessage implements the writers of ConversationLog: the       *)
(* transaction that commits appends an entry, and no other step touches    *)
(* what the store holds.                                                   *)
Held == {StoredEntry(r) : r \in InStore}

LEMMA InitMaps == Init => Log!LogInit
<1> SUFFICES ASSUME Init PROVE Log!LogInit
  OBVIOUS
<1>1. {StoredEntry(r) : r \in InStore} = {}
  BY DEF Init, InStore
<1>2. [g \in {} |-> NoData] \in [{} -> Conversations]
  OBVIOUS
<1> QED
  BY <1>1, <1>2 DEF Log!LogInit

(* A step that leaves the questions and the store alone is a stutter.      *)
LEMMA StutterMaps ==
  ASSUME UNCHANGED <<ask, store>>
  PROVE  UNCHANGED Log!logVars
<1>1. UNCHANGED <<ask, messages, snapshots, links>>
  BY DEF store
<1>2. InStore' = InStore
  BY <1>1 DEF InStore
<1>3. \A r : StoredEntry(r)' = StoredEntry(r)
  BY <1>1 DEF StoredEntry, LinkedKinds
<1> QED
  BY <1>2, <1>3 DEF Log!logVars

(* What has been composed for a question makes an entry.                   *)
LEMMA Evidences ==
  /\ EvidenceOf["grounded"] = {{"plan"}, {"bill"}, {"bill", "charge"}, {"comparison"}}
  /\ EvidenceOf["unavailable"] = {{}, {"bill"}, {"bill", "charge"}}
  /\ EvidenceOf["unsupported"] = {{}}
  BY DEF EvidenceOf

LEMMA AnswerMakesEntry ==
  ASSUME IInv, NEW r \in Requests, answer[r].status # "none"
  PROVE  /\ answer[r].status \in AnswerStatuses
         /\ answer[r].evidence \in EvidenceOf[answer[r].status]
         /\ ask[r].conversation \in Conversations
         /\ Owner[ask[r].conversation] = ask[r].customer
<1>1. answer[r].status \in AnswerStatuses /\ ask[r].conversation \in Conversations
  BY DEF IInv, Types
<1>2. AnswerInv(r)
  BY DEF IInv, LocalInv
<1>3. Owner[ask[r].conversation] = ask[r].customer
  BY <1>2 DEF AnswerInv, OwnsConversation
<1>4. ASSUME answer[r].status = "grounded"
      PROVE  answer[r].evidence \in EvidenceOf[answer[r].status]
  <2>1. /\ Intent(r) \in {"current_plan", "latest_bill", "unexpected_charge", "comparison"}
        /\ answer[r].evidence = RequiredEvidence(Intent(r))
    BY <1>2, <1>4 DEF AnswerInv, GroundedFits
  <2>2. answer[r].evidence \in {{"plan"}, {"bill"}, {"bill", "charge"}, {"comparison"}}
    <3>1. /\ RequiredEvidence("current_plan") = {"plan"}
          /\ RequiredEvidence("latest_bill") = {"bill"}
          /\ RequiredEvidence("unexpected_charge") = {"bill", "charge"}
          /\ RequiredEvidence("comparison") = {"comparison"}
      BY DEF RequiredEvidence
    <3> QED
      BY <2>1, <3>1
  <2> QED
    BY <1>4, <2>2, Evidences
<1>5. ASSUME answer[r].status # "grounded"
      PROVE  answer[r].evidence \in EvidenceOf[answer[r].status]
  <2>1. /\ answer[r].evidence \in {{}, {"bill"}, {"bill", "charge"}}
        /\ answer[r].status = "unsupported" => answer[r].evidence = {}
    BY <1>2, <1>5 DEF AnswerInv, UngroundedFits
  <2>2. CASE answer[r].status = "unavailable"
    BY <2>1, <2>2, Evidences
  <2>3. CASE answer[r].status = "unsupported"
    BY <2>1, <2>3, Evidences
  <2> QED
    BY <1>1, <1>5, <2>2, <2>3 DEF AnswerStatuses
<1> QED
  BY <1>1, <1>3, <1>4, <1>5

(* The transaction that commits appends the entry of its question.         *)
LEMMA CommitMaps ==
  ASSUME IInv, NEW r \in Requests, pc[r] = "store", CommitExchange(r), UNCHANGED ask
  PROVE  Log!LogNext
<1> DEFINE v == ask[r].conversation
           kinds == answer[r].evidence
           new == Entry(r, v, answer[r].status, kinds)
<1>1. answer[r].status # "none"
  BY DEF IInv, LocalInv, AnswerInv
<1>2. new \in Entries
  <2>1. /\ v \in Conversations /\ answer[r].status \in AnswerStatuses
        /\ kinds \in EvidenceOf[answer[r].status]
    BY <1>1, AnswerMakesEntry
  <2>2. new \in {Entry(r, v, answer[r].status, k) : k \in EvidenceOf[answer[r].status]}
    BY <2>1
  <2> DEFINE All == {{Entry(q, w, status, k) : k \in EvidenceOf[status]} :
                       q \in Requests, w \in Conversations, status \in AnswerStatuses}
  <2>3. {Entry(r, v, answer[r].status, k) : k \in EvidenceOf[answer[r].status]} \in All
    BY <2>1
  <2>4. Entries = UNION All
    BY DEF Entries
  <2> HIDE DEF new, All
  <2> QED
    BY <2>2, <2>3, <2>4
<1>3. r \notin InStore
  <2>1. \A m \in messages : m.request # r
    BY DEF IInv, StoreInv, MessageInv, Answered
  <2>2. AssistantMessage(r) \notin messages
    BY <2>1 DEF AssistantMessage
  <2> QED
    BY <2>1, <2>2 DEF InStore, IInv, StoreInv, SnapshotInv, LinkInv
<1>4. /\ messages' = messages \cup Exchange(r)
      /\ snapshots' = snapshots \cup {Snapshot(r, kind) : kind \in kinds}
      /\ links' = links \cup {Link(r, kind) : kind \in kinds}
  BY DEF CommitExchange, Exchange, Link
<1>5. /\ \A m \in Exchange(r) : m.request = r
      /\ \A kind : Snapshot(r, kind).request = r /\ Link(r, kind).message = r
      /\ UserMessage(r) \in Exchange(r)
  BY DEF Exchange, UserMessage, AssistantMessage, Snapshot, Link
<1>6. InStore' = InStore \cup {r}
  <2>1. {m.request : m \in messages'} = {m.request : m \in messages} \cup {r}
    BY <1>4, <1>5
  <2>2. {s.request : s \in snapshots'} \subseteq {s.request : s \in snapshots} \cup {r}
        /\ {s.request : s \in snapshots} \subseteq {s.request : s \in snapshots'}
    BY <1>4, <1>5
  <2>3. {l.message : l \in links'} \subseteq {l.message : l \in links} \cup {r}
        /\ {l.message : l \in links} \subseteq {l.message : l \in links'}
    BY <1>4, <1>5
  <2> QED
    BY <2>1, <2>2, <2>3 DEF InStore
<1>7. ASSUME NEW q \in InStore PROVE StoredEntry(q)' = StoredEntry(q)
  <2>1. q # r
    BY <1>3
  <2>2. {n \in messages' : n.request = q} = {n \in messages : n.request = q}
    BY <1>4, <1>5, <2>1
  <2>3. {t \in snapshots' : t.request = q} = {t \in snapshots : t.request = q}
    BY <1>4, <1>5, <2>1
  <2>4. {k \in links' : k.message = q} = {k \in links : k.message = q}
    BY <1>4, <1>5, <2>1
  <2> QED
    BY <2>2, <2>3, <2>4 DEF StoredEntry, LinkedKinds
<1>8. StoredEntry(r)' = new
  <2>1. {n \in messages' : n.request = r} = {UserMessage(r), AssistantMessage(r)}
    BY <1>3, <1>4, <1>5 DEF InStore, Exchange
  <2>2. {<<m.role, m.conversation, m.status>> : m \in {UserMessage(r), AssistantMessage(r)}}
          = {<<"user", v, "none">>, <<"assistant", v, answer[r].status>>}
    BY DEF UserMessage, AssistantMessage
  <2>3. {t \in snapshots' : t.request = r} = {Snapshot(r, kind) : kind \in kinds}
    BY <1>3, <1>4, <1>5 DEF InStore
  <2>4. {<<s.kind, s.customer>> : s \in {Snapshot(r, kind) : kind \in kinds}}
          = {<<kind, Owner[v]>> : kind \in kinds}
    <3>1. \A kind : <<Snapshot(r, kind).kind, Snapshot(r, kind).customer>> = <<kind, Owner[v]>>
      BY <1>1, AnswerMakesEntry DEF Snapshot
    <3>2. {<<s.kind, s.customer>> : s \in {Snapshot(r, kind) : kind \in kinds}}
            = {<<Snapshot(r, kind).kind, Snapshot(r, kind).customer>> : kind \in kinds}
      OBVIOUS
    <3>3. {<<Snapshot(r, kind).kind, Snapshot(r, kind).customer>> : kind \in kinds}
            = {<<kind, Owner[v]>> : kind \in kinds}
      BY <3>1
    <3> QED
      BY <3>2, <3>3
  <2>5. {k \in links' : k.message = r} = {Link(r, kind) : kind \in kinds}
    BY <1>3, <1>4, <1>5 DEF InStore
  <2>6. {l.kind : l \in {Link(r, kind) : kind \in kinds}} = kinds
    <3>1. \A kind : Link(r, kind).kind = kind
      BY DEF Link
    <3> QED
      BY <3>1
  <2> QED
    BY <2>1, <2>2, <2>3, <2>4, <2>5, <2>6 DEF StoredEntry, LinkedKinds, Entry
<1>9. new \notin Held
  BY <1>3 DEF Held, StoredEntry, Entry
<1>10. Held' = Held \cup {new}
  BY <1>6, <1>7, <1>8 DEF Held
<1> HIDE DEF new
<1>11. Log!Append(new)
  BY <1>9, <1>10 DEF Log!Append, Held
<1> QED
  BY <1>2, <1>11 DEF Log!LogNext

LEMMA StepMaps == IInv /\ [Next]_vars => [Log!LogNext]_(Log!logVars)
<1> SUFFICES ASSUME IInv, [Next]_vars PROVE Log!LogNext \/ UNCHANGED Log!logVars
  OBVIOUS
<1>1. ASSUME NEW r \in Requests, Receive(r) \/ Serve(r)
      PROVE  Log!LogNext \/ UNCHANGED Log!logVars
  <2>1. UNCHANGED ask
    BY <1>1, OthersAlone DEF IInv
  <2>2. CASE CommitExchange(r) /\ (StoreExchange(r) \/ StoreFails(r))
    BY <2>1, <2>2, CommitMaps DEF StoreExchange, StoreFails
  <2>3. CASE UNCHANGED store
    BY <2>1, <2>3, StutterMaps
  <2>4. \/ CommitExchange(r) /\ (StoreExchange(r) \/ StoreFails(r))
        \/ UNCHANGED store
    BY <1>1 DEF Serve, Receive, CheckOwner, ConversationNotFound, RouteWithoutData, ReadPlan,
                ReadBill, ReadCatalog, Compare, ComposeComparison, ExplainBill, FindCharge,
                ExplainCharge, RetryModel, ModelFails, ModelReturns, StoreExchange, StoreRejects,
                StoreFails, Respond, HandlerRaises
  <2> QED
    BY <2>2, <2>3, <2>4
<1>2. CASE SourceChanges \/ Midnight \/ Crash \/ UNCHANGED vars
  <2>1. UNCHANGED <<ask, store>>
    BY <1>2 DEF SourceChanges, Publish, Midnight, Crash, vars, store
  <2> QED
    BY <2>1, StutterMaps
<1> QED
  BY <1>1, <1>2 DEF Next

(* However many requests interleave, crash or fail to commit, the service  *)
(* appends whole exchanges to the log that ConversationHistory reads.      *)
THEOREM LogRefinement == Spec => ImplementsLog
  BY InitMaps, StepMaps, Invariance, PTL DEF Spec, ImplementsLog, Log!LogSpec
=============================================================================
