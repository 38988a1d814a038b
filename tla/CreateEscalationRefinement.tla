--------------------- MODULE CreateEscalationRefinement ---------------------
(***************************************************************************)
(* CreateEscalation implements EscalationDesk, whatever crashes and        *)
(* database failures happen, as long as the answers of the provider        *)
(* arrive; and therefore keeps the promises the desk is proved to keep.    *)
(***************************************************************************)
EXTENDS CreateEscalationProofs

(* The desk's variables under the refinement mapping. *)
about  == [r \in Requests |-> call[r].conversation]
ticket == [r \in Requests |-> TicketOf(r)]
held   == {r \in Requests : accepted[r] # NoRow}
told   == [r \in Requests |-> ToldOf(r)]

LEMMA InitMaps == Init => Desk!DeskInit
<1> SUFFICES ASSUME Init PROVE Desk!DeskInit
  OBVIOUS
<1>1. about \in [Requests -> Conversations]
  BY DEF Init, Calls, about
<1>2. ticket = [r \in Requests |-> "none"]
  BY DEF Init, ticket, TicketOf, Exists
<1>3. held = {}
  BY DEF Init, held
<1>4. told = [r \in Requests |-> "nothing"]
  BY DEF Init, told, ToldOf, Settled
<1> QED
  BY <1>1, <1>2, <1>3, <1>4 DEF Desk!DeskInit, about, ticket, held, told

(* A step that changes neither rows, ledger nor answers is a stutter. *)
LEMMA StutterMaps ==
  ASSUME UNCHANGED <<call, escalations, accepted, reply>>
  PROVE  UNCHANGED Desk!deskVars
BY DEF Desk!deskVars, TicketOf, ToldOf, Exists

(* The answer of one request changes what is told about one ticket. *)
LEMMA AnswerMaps ==
  ASSUME IInv, NEW r \in Requests, pc[r] \in InFlight,
         NEW code, reply' = [reply EXCEPT ![r] = code]
  PROVE  /\ told[r] = "nothing"
         /\ code \in Errors => told' = [told EXCEPT ![r] = "refused"]
         /\ code \in Settled => told' = [told EXCEPT ![r] = code]
<1>1. reply[r] = "none"
  BY DEF IInv, StageInv, InFlight
<1>2. told[r] = "nothing"
  BY <1>1 DEF told, ToldOf, Settled
<1>3. \A e \in Requests \ {r} : reply'[e] = reply[e]
  BY DEF IInv, TypeOK
<1>4. reply'[r] = code
  BY DEF IInv, TypeOK
<1>5. \A e \in Requests \ {r} : ToldOf(e)' = ToldOf(e)
  BY <1>3 DEF ToldOf
<1>6. code \in Errors => ToldOf(r)' = "refused"
  BY <1>4 DEF ToldOf, Errors, Settled
<1>7. code \in Settled => ToldOf(r)' = code
  BY <1>4 DEF ToldOf, Settled
<1> QED
  BY <1>2, <1>5, <1>6, <1>7 DEF told

LEMMA RefuseMaps ==
  ASSUME IInv, NEW r \in Requests, NEW code \in Errors, pc[r] \in InFlight,
         Answer(r, code), UNCHANGED <<call, escalations, accepted>>
  PROVE  Desk!Refuse(r)
<1>1. told[r] = "nothing" /\ told' = [told EXCEPT ![r] = "refused"]
  BY AnswerMaps DEF Answer
<1>2. UNCHANGED <<about, ticket, held>>
  BY DEF about, ticket, held, TicketOf, Exists
<1> QED
  BY <1>1, <1>2 DEF Desk!Refuse, about, ticket, held, told

LEMMA MaybeRefuseMaps ==
  ASSUME IInv, NEW r \in Requests, pc[r] \in InFlight,
         UNCHANGED reply \/ Answer(r, "server_error")
  PROVE  /\ told[r] = "nothing"
         /\ \/ UNCHANGED told
            \/ told' = [told EXCEPT ![r] = "refused"]
<1>1. told[r] = "nothing"
  BY DEF IInv, StageInv, InFlight, told, ToldOf, Settled
<1>2. CASE UNCHANGED reply
  BY <1>1, <1>2 DEF told, ToldOf
<1>3. CASE Answer(r, "server_error")
  BY <1>3, AnswerMaps DEF Answer, Errors
<1> QED
  BY <1>2, <1>3

LEMMA InsertMaps ==
  ASSUME IInv, NEW r \in Requests, pc[r] = "insert",
         ~IndexHolds(call[r].conversation), InsertRow(r),
         UNCHANGED reply \/ Answer(r, "server_error"),
         UNCHANGED <<call, accepted, history>>
  PROVE  Desk!Open(r)
<1>1. ~Exists(r) /\ ticket[r] = "none"
  BY DEF IInv, StageInv, ticket, TicketOf
<1>2. \A e \in Requests : about[e] = about[r] => ticket[e] \notin {"requested", "queued"}
  <2> SUFFICES ASSUME NEW e \in Requests, call[e].conversation = call[r].conversation,
                      Exists(e)
               PROVE  escalations[e].status \notin {"requested", "queued"}
    BY DEF about, ticket, TicketOf
  <2> QED
    BY DEF IndexHolds, IInv, RowInv, IndexedStatuses, Exists
<1>3. Requested(r) # NoRow /\ Requested(r).status = "requested"
  BY RequestedIsRow DEF IInv, Requested
<1>4. ticket' = [ticket EXCEPT ![r] = "requested"]
  <2>1. /\ escalations'[r] = Requested(r)
        /\ \A e \in Requests \ {r} : escalations'[e] = escalations[e]
    BY DEF InsertRow, IInv, TypeOK
  <2>2. /\ TicketOf(r)' = "requested"
        /\ \A e \in Requests \ {r} : TicketOf(e)' = TicketOf(e)
    BY <1>3, <2>1 DEF TicketOf, Exists
  <2> QED
    BY <2>2 DEF ticket
<1>5. UNCHANGED about /\ UNCHANGED held
  BY DEF about, held
<1>6. told[r] = "nothing" /\ (UNCHANGED told \/ told' = [told EXCEPT ![r] = "refused"])
  BY MaybeRefuseMaps DEF InFlight
<1> QED
  BY <1>1, <1>2, <1>4, <1>5, <1>6
     DEF Desk!Open, Desk!Active, Desk!MaybeRefuse, about, ticket, held, told

LEMMA AcceptMaps ==
  ASSUME IInv, NEW r \in Requests, HandoffAccepted(r)
  PROVE  Desk!TakeOver(r)
<1>1. escalations[r] = Requested(r) /\ Requested(r) # NoRow
  BY RequestedIsRow DEF IInv, StageInv, HandoffAccepted
<1>2. ticket[r] = "requested"
  BY <1>1 DEF ticket, TicketOf, Exists, Requested
<1>3. told[r] = "nothing"
  BY DEF HandoffAccepted, IInv, StageInv, told, ToldOf, Settled
<1>4. held' = held \cup {r}
  BY <1>1 DEF held, HandoffAccepted, ProviderAccepts, IInv, TypeOK
<1>5. UNCHANGED about /\ UNCHANGED ticket /\ UNCHANGED told
  BY DEF HandoffAccepted, Handed, about, ticket, told, TicketOf, ToldOf, Exists
<1> QED
  BY <1>2, <1>3, <1>4, <1>5
     DEF Desk!TakeOver, Desk!MaybeRefuse, about, ticket, held, told

(* An exception of submit refuses, with or without the hand-over. *)
LEMMA RaiseMaps ==
  ASSUME IInv, NEW r \in Requests, HandoffRaises(r)
  PROVE  Desk!TakeOver(r) \/ Desk!Refuse(r)
<1>1. CASE UNCHANGED accepted
  BY <1>1, RefuseMaps DEF HandoffRaises, Errors, InFlight
<1>2. CASE ProviderAccepts(r)
  <2>1. escalations[r] = Requested(r) /\ Requested(r) # NoRow
    BY RequestedIsRow DEF IInv, StageInv, HandoffRaises
  <2>2. ticket[r] = "requested"
    BY <2>1 DEF ticket, TicketOf, Exists, Requested
  <2>3. told[r] = "nothing" /\ (UNCHANGED told \/ told' = [told EXCEPT ![r] = "refused"])
    BY MaybeRefuseMaps DEF HandoffRaises, InFlight
  <2>4. held' = held \cup {r}
    BY <1>2, <2>1 DEF held, ProviderAccepts, IInv, TypeOK
  <2>5. UNCHANGED about /\ UNCHANGED ticket
    BY DEF HandoffRaises, about, ticket, TicketOf, Exists
  <2> QED
    BY <2>2, <2>3, <2>4, <2>5
       DEF Desk!TakeOver, Desk!MaybeRefuse, about, ticket, held, told
<1> QED
  BY <1>1, <1>2 DEF HandoffRaises

LEMMA OverwriteMaps ==
  ASSUME "lost_answer" \notin Faults,
         IInv, NEW r \in Requests, pc[r] = "update", OverwriteRow(r),
         UNCHANGED reply \/ Answer(r, "server_error"),
         UNCHANGED <<call, accepted>>
  PROVE  Desk!Settle(r)
<1>1. /\ escalations[r] = Requested(r) /\ Exists(r) /\ escalations[r] \in Row
      /\ outcome[r] \in HandoffOutcomes
  BY RequestedIsRow DEF IInv, StageInv, Exists
<1>2. ticket[r] = "requested"
  BY <1>1 DEF ticket, TicketOf, Requested
<1>3. Target(outcome[r]) = IF r \in held THEN "queued" ELSE "failed"
  BY <1>1 DEF IInv, StageInv, Target, held, HandoffOutcomes
<1>4. ticket' = [ticket EXCEPT ![r] = Target(outcome[r])]
  <2>1. /\ escalations'[r] = Replace(escalations[r], Result(r).status, Result(r).nextStep)
        /\ \A e \in Requests \ {r} : escalations'[e] = escalations[e]
    BY DEF OverwriteRow, IInv, TypeOK
  <2>2. escalations'[r] # NoRow /\ escalations'[r].status = Target(outcome[r])
    BY <1>1, <2>1, OverwrittenIsRow DEF IInv
  <2>3. /\ TicketOf(r)' = Target(outcome[r])
        /\ \A e \in Requests \ {r} : TicketOf(e)' = TicketOf(e)
    BY <2>1, <2>2 DEF TicketOf, Exists
  <2> QED
    BY <2>3 DEF ticket
<1>5. UNCHANGED about /\ UNCHANGED held
  BY DEF about, held
<1>6. told[r] = "nothing" /\ (UNCHANGED told \/ told' = [told EXCEPT ![r] = "refused"])
  BY MaybeRefuseMaps DEF InFlight
<1> QED
  BY <1>2, <1>3, <1>4, <1>5, <1>6
     DEF Desk!Settle, Desk!MaybeRefuse, about, ticket, held, told

LEMMA RespondMaps ==
  ASSUME IInv, NEW r \in Requests, Respond(r)
  PROVE  Desk!Tell(r)
<1>1. Result(r).status = Target(outcome[r]) /\ Target(outcome[r]) \in Settled
  BY DEF Result, Transition, Replace, Target, Settled
<1>2. told[r] = "nothing" /\ told' = [told EXCEPT ![r] = Target(outcome[r])]
  BY <1>1, AnswerMaps DEF Respond, Answer, InFlight
<1>3. ticket[r] = Target(outcome[r])
  BY DEF IInv, StageInv, Respond, ticket, TicketOf
<1>4. UNCHANGED about /\ UNCHANGED ticket /\ UNCHANGED held
  BY DEF Respond, about, ticket, held, TicketOf, Exists
<1> QED
  BY <1>1, <1>2, <1>3, <1>4 DEF Desk!Tell, about, ticket, held, told, Settled

LEMMA StepMaps ==
  ASSUME "lost_answer" \notin Faults, IInv, [Next]_vars
  PROVE  [Desk!DeskNext]_(Desk!deskVars)
<1>1. ASSUME NEW r \in Requests, Serve(r)
      PROVE  Desk!DeskNext \/ UNCHANGED Desk!deskVars
  <2>1. CASE ReadHistory(r)
    BY <2>1, StutterMaps DEF ReadHistory
  <2>2. CASE ConversationNotFound(r)
    BY <2>2, RefuseMaps DEF ConversationNotFound, Errors, InFlight, Desk!DeskNext
  <2>3. CASE AddRequested(r)
    BY <2>3, InsertMaps DEF AddRequested, Desk!DeskNext
  <2>4. CASE AlreadyActive(r)
    BY <2>4, RefuseMaps DEF AlreadyActive, Errors, InFlight, Desk!DeskNext
  <2>5. CASE AddRequestedFails(r)
    <3>1. CASE InsertRow(r) /\ ~IndexHolds(call[r].conversation)
      BY <2>5, <3>1, InsertMaps DEF AddRequestedFails, Desk!DeskNext
    <3>2. CASE UNCHANGED escalations
      BY <2>5, <3>2, RefuseMaps DEF AddRequestedFails, Errors, InFlight, Desk!DeskNext
    <3> QED
      BY <2>5, <3>1, <3>2 DEF AddRequestedFails
  <2>6. CASE HandoffAccepted(r)
    BY <2>6, AcceptMaps DEF Desk!DeskNext
  <2>7. CASE HandoffRejected(r)
    BY <2>7, StutterMaps DEF HandoffRejected, Handed
  <2>8. CASE HandoffUnavailable(r)
    BY <2>8, StutterMaps DEF HandoffUnavailable, Handed
  <2>9. CASE Update(r)
    BY <2>9, OverwriteMaps DEF Update, Desk!DeskNext
  <2>10. CASE UpdateFails(r)
    <3>1. CASE OverwriteRow(r)
      BY <2>10, <3>1, OverwriteMaps DEF UpdateFails, Desk!DeskNext
    <3>2. CASE UNCHANGED escalations
      BY <2>10, <3>2, RefuseMaps DEF UpdateFails, Errors, InFlight, Desk!DeskNext
    <3> QED
      BY <2>10, <3>1, <3>2 DEF UpdateFails
  <2>11. CASE Respond(r)
    BY <2>11, RespondMaps DEF Desk!DeskNext
  <2>12. CASE ReadHistoryFails(r)
    BY <2>12, RefuseMaps DEF ReadHistoryFails, Errors, InFlight, Desk!DeskNext
  <2>13. CASE HandoffRaises(r)
    BY <2>13, RaiseMaps DEF Desk!DeskNext
  <2> QED
    BY <1>1, <2>1, <2>2, <2>3, <2>4, <2>5, <2>6, <2>7, <2>8, <2>9, <2>10, <2>11, <2>12, <2>13
       DEF Serve
<1>2. ASSUME NEW r \in Requests, Receive(r) PROVE UNCHANGED Desk!deskVars
  BY <1>2, StutterMaps DEF Receive
<1>3. ASSUME NEW c \in Watchers, NEW e \in Requests, GetEscalation(c, e)
      PROVE  UNCHANGED Desk!deskVars
  BY <1>3, StutterMaps DEF GetEscalation
<1>4. ASSUME NEW v \in Conversations, NEW x \in Exchanges, CommitExchange(v, x)
      PROVE  UNCHANGED Desk!deskVars
  BY <1>4, StutterMaps DEF CommitExchange
<1>5. CASE Crash
  BY <1>5, StutterMaps DEF Crash
<1>6. CASE UNCHANGED vars
  BY <1>6, StutterMaps DEF vars
<1> QED
  BY <1>1, <1>2, <1>3, <1>4, <1>5, <1>6 DEF Next

(* While the provider's answers arrive, every behaviour of the service,    *)
(* with crashes and database failures at any point, is one of the desk.    *)
THEOREM Refinement ==
  ASSUME "lost_answer" \notin Faults
  PROVE  Spec => ImplementsDesk
<1>1. Init => Desk!DeskInit
  BY InitMaps
<1>2. IInv /\ [Next]_vars => [Desk!DeskNext]_(Desk!deskVars)
  BY StepMaps
<1> QED
  BY <1>1, <1>2, IInvAlways, PTL DEF Spec, ImplementsDesk, Desk!DeskSpec

DeskProofs == INSTANCE EscalationDeskProofs WITH
                Tickets <- Requests,
                about   <- [r \in Requests |-> call[r].conversation],
                ticket  <- [r \in Requests |-> TicketOf(r)],
                held    <- {r \in Requests : accepted[r] # NoRow},
                told    <- [r \in Requests |-> ToldOf(r)]

(* What the desk promises, the service keeps: a 201 "queued" means that a  *)
(* human queue holds the request and a 201 "failed" that none does.        *)
THEOREM CustomersHearTheTruth ==
  ASSUME "lost_answer" \notin Faults
  PROVE  Spec => []Desk!ToldTheTruth
<1>1. Spec => Desk!DeskSpec
  BY Refinement DEF ImplementsDesk
<1>2. DeskProofs!DeskSpec => []DeskProofs!ToldTheTruth
  BY DeskProofs!DeskTruth
<1>3. /\ DeskProofs!DeskInit <=> Desk!DeskInit
      /\ [DeskProofs!DeskNext]_(DeskProofs!deskVars) <=> [Desk!DeskNext]_(Desk!deskVars)
      /\ DeskProofs!ToldTheTruth <=> Desk!ToldTheTruth
  BY DEF DeskProofs!DeskInit, Desk!DeskInit, DeskProofs!deskVars, Desk!deskVars,
         DeskProofs!DeskNext, Desk!DeskNext, DeskProofs!Open, Desk!Open,
         DeskProofs!TakeOver, Desk!TakeOver, DeskProofs!Settle, Desk!Settle,
         DeskProofs!Tell, Desk!Tell, DeskProofs!Refuse, Desk!Refuse,
         DeskProofs!MaybeRefuse, Desk!MaybeRefuse, DeskProofs!Active, Desk!Active,
         DeskProofs!ToldTheTruth, Desk!ToldTheTruth
<1> QED
  BY <1>1, <1>2, <1>3, PTL DEF DeskProofs!DeskSpec, Desk!DeskSpec
=============================================================================
