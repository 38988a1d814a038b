----------------------- MODULE CreateEscalationProofs -----------------------
(***************************************************************************)
(* Theorems about CreateEscalation, for any number of requests, customers, *)
(* conversations and messages and any set of faults.                       *)
(***************************************************************************)
EXTENDS CreateEscalation, TLAPS

(* Where a handler stands determines what the table, the provider and the  *)
(* customer have of its request.                                           *)
StageInv ==
  \A r \in Requests :
    /\ pc[r] \in {"idle", "read", "insert"} => ~Exists(r) /\ accepted[r] = NoRow
    /\ pc[r] = "insert" => OwnsConversation(r) /\ known[r] \subseteq history[r]
    /\ pc[r] \in {"submit", "update"} => escalations[r] = Requested(r)
    /\ pc[r] = "submit" => accepted[r] = NoRow
    /\ pc[r] \in {"idle", "read", "insert", "submit"} => outcome[r] = "none"
    /\ pc[r] \in {"update", "respond"} =>
         /\ outcome[r] \in HandoffOutcomes
         /\ outcome[r] = "accepted" => accepted[r] # NoRow
         /\ outcome[r] = "failed" /\ "lost_answer" \notin Faults => accepted[r] = NoRow
    /\ pc[r] = "respond" => Exists(r) /\ escalations[r].status = Target(outcome[r])
    /\ reply[r] # "none" => pc[r] = "done"
    /\ reply[r] \in Settled => Exists(r) /\ escalations[r].status = reply[r]

(* What a row says, and what the provider has of it. *)
RowInv ==
  \A r \in Requests :
    /\ Exists(r) => /\ escalations[r].customer = call[r].customer
                    /\ escalations[r].conversation = call[r].conversation
                    /\ escalations[r].context = history[r]
                    /\ escalations[r].status \in {"requested", "queued", "failed"}
                    /\ escalations[r].status = "queued" => accepted[r] # NoRow
                    /\ escalations[r].status = "failed" /\ "lost_answer" \notin Faults
                         => accepted[r] = NoRow
                    /\ OwnsConversation(r)
                    /\ known[r] \subseteq history[r]
    /\ accepted[r] # NoRow => Exists(r) /\ accepted[r] = Requested(r)

(* Copies of the conversation are older than the conversation. *)
LogInv ==
  \A r \in Requests : /\ known[r] \subseteq log[call[r].conversation]
                      /\ history[r] \subseteq log[call[r].conversation]

(* The index is unique. *)
IndexInv ==
  \A d, e \in Requests :
    /\ d # e /\ Exists(d) /\ Exists(e)
    /\ escalations[d].status \in IndexedStatuses
    /\ escalations[e].status \in IndexedStatuses
    => escalations[d].conversation # escalations[e].conversation

SeenInv ==
  \A c \in Customers, e \in Requests :
    /\ seen[c][e] = "queued" => accepted[e] # NoRow
    /\ seen[c][e] \in Statuses => Exists(e) /\ call[e].customer = c

IInv == TypeOK /\ StageInv /\ RowInv /\ LogInv /\ IndexInv /\ SeenInv
-----------------------------------------------------------------------------
(* Facts about the records the service builds. *)

LEMMA RequestedIsRow ==
  ASSUME TypeOK, NEW r \in Requests
  PROVE  /\ Requested(r) \in Row /\ Requested(r) # NoRow
         /\ StoreAccepts(Requested(r))
BY NoRowAssumption DEF TypeOK, Requested, Row, Calls, Context, Statuses, NextSteps, StoreAccepts

(* A record overwritten with the result of a hand-off is a row of the same *)
(* customer, conversation and context, and satisfies the CHECK.            *)
LEMMA OverwrittenIsRow ==
  ASSUME TypeOK, NEW row \in Row, NEW r \in Requests, outcome[r] \in HandoffOutcomes,
         NEW new, new = Replace(row, Result(r).status, Result(r).nextStep)
  PROVE  /\ new \in Row /\ new # NoRow /\ StoreAccepts(new)
         /\ new.customer = row.customer
         /\ new.conversation = row.conversation
         /\ new.context = row.context
         /\ new.status = Target(outcome[r])
         /\ Result(r).status = Target(outcome[r])
<1>1. /\ Result(r).status = Target(outcome[r])
      /\ Result(r).nextStep = IF Target(outcome[r]) = "failed" THEN "retry_later" ELSE "none"
  BY DEF Result, Transition, Replace
<1>2. Target(outcome[r]) \in {"queued", "failed"}
  BY DEF Target
<1>3. new = [customer     |-> row.customer,
             conversation |-> row.conversation,
             status       |-> Target(outcome[r]),
             nextStep     |-> IF Target(outcome[r]) = "failed" THEN "retry_later" ELSE "none",
             context      |-> row.context]
  BY <1>1 DEF Replace
<1>4. new \in Row /\ StoreAccepts(new)
  BY <1>2, <1>3 DEF Row, Statuses, NextSteps, StoreAccepts
<1> QED
  BY <1>1, <1>3, <1>4, NoRowAssumption

LEMMA InitIInv == Init => IInv
<1> SUFFICES ASSUME Init PROVE IInv
  OBVIOUS
<1>1. TypeOK
  BY DEF Init, TypeOK, Context, Stages, HandoffOutcomes
<1>2. StageInv /\ RowInv /\ LogInv /\ IndexInv /\ SeenInv
  BY DEF Init, StageInv, RowInv, LogInv, IndexInv, SeenInv, Exists, Settled, Statuses
<1> QED
  BY <1>1, <1>2 DEF IInv

(* Inserting the row, whether the handler goes on or answers an error. *)
LEMMA InsertKeepsIInv ==
  ASSUME IInv, NEW r \in Requests,
         pc[r] = "insert", ~IndexHolds(call[r].conversation), InsertRow(r),
         \/ Goto(r, "submit") /\ UNCHANGED reply
         \/ Answer(r, "server_error"),
         UNCHANGED <<call, log, accepted, known, history, outcome, seen>>
  PROVE  IInv'
<1>0. TypeOK /\ StageInv /\ RowInv /\ LogInv /\ IndexInv /\ SeenInv
  BY DEF IInv
<1>1. /\ escalations' = [escalations EXCEPT ![r] = Requested(r)]
      /\ pc' \in {[pc EXCEPT ![r] = "submit"], [pc EXCEPT ![r] = "done"]}
      /\ pc'[r] = "submit" => reply' = reply
      /\ reply' \in {reply, [reply EXCEPT ![r] = "server_error"]}
  BY <1>0 DEF InsertRow, Answer, Goto, TypeOK
<1>2. Requested(r) \in Row /\ Requested(r) # NoRow /\ StoreAccepts(Requested(r))
  BY <1>0, RequestedIsRow
<1>3. \A e \in Requests : Requested(e)' = Requested(e)
  BY DEF Requested
<1>4. TypeOK'
  BY <1>0, <1>1, <1>2 DEF TypeOK, Stages, InFlight, Errors
<1>5. StageInv'
  BY <1>0, <1>1, <1>2, <1>3
     DEF TypeOK, StageInv, Exists, OwnsConversation, Settled
<1>6. RowInv'
  BY <1>0, <1>1, <1>2, <1>3
     DEF TypeOK, StageInv, RowInv, Exists, OwnsConversation, Requested
<1>7. LogInv' /\ SeenInv'
  BY <1>0, <1>1, <1>2 DEF TypeOK, LogInv, SeenInv, Exists
<1>8. IndexInv'
  BY <1>0, <1>1, <1>2 DEF TypeOK, IndexInv, IndexHolds, Exists, Requested
<1> QED
  BY <1>4, <1>5, <1>6, <1>7, <1>8 DEF IInv

(* The steps of a request that touch neither the table nor the ledger. *)
LEMMA ReceiveKeepsIInv ==
  ASSUME IInv, NEW r \in Requests, Receive(r)
  PROVE  IInv'
<1>0. TypeOK /\ StageInv /\ RowInv /\ LogInv /\ IndexInv /\ SeenInv
  BY DEF IInv
<1>1. /\ pc[r] = "idle"
      /\ pc' = [pc EXCEPT ![r] = "read"]
      /\ known' = [known EXCEPT ![r] = log[call[r].conversation]]
      /\ UNCHANGED <<call, log, escalations, accepted, history, outcome, reply, seen>>
  BY DEF Receive, Goto
<1>2. log[call[r].conversation] \in Context
  BY <1>0 DEF TypeOK, Calls
<1>3. TypeOK'
  BY <1>0, <1>1, <1>2 DEF TypeOK, Stages, InFlight
<1>4. \A e \in Requests : Requested(e)' = Requested(e)
  BY <1>1 DEF Requested
<1>5. StageInv' /\ RowInv'
  BY <1>0, <1>1, <1>4 DEF TypeOK, StageInv, RowInv, Exists, OwnsConversation
<1>6. LogInv' /\ IndexInv' /\ SeenInv'
  BY <1>0, <1>1 DEF TypeOK, LogInv, IndexInv, SeenInv, Exists
<1> QED
  BY <1>3, <1>5, <1>6 DEF IInv

LEMMA ReadHistoryKeepsIInv ==
  ASSUME IInv, NEW r \in Requests, ReadHistory(r)
  PROVE  IInv'
<1>0. TypeOK /\ StageInv /\ RowInv /\ LogInv /\ IndexInv /\ SeenInv
  BY DEF IInv
<1>1. /\ pc[r] = "read" /\ OwnsConversation(r)
      /\ pc' = [pc EXCEPT ![r] = "insert"]
      /\ history' = [history EXCEPT ![r] = log[call[r].conversation]]
      /\ UNCHANGED <<call, log, escalations, accepted, known, outcome, reply, seen>>
  BY DEF ReadHistory, Goto
<1>2. log[call[r].conversation] \in Context
  BY <1>0 DEF TypeOK, Calls
<1>3. TypeOK'
  BY <1>0, <1>1, <1>2 DEF TypeOK, Stages, InFlight
<1>4. \A e \in Requests \ {r} : Requested(e)' = Requested(e)
  BY <1>0, <1>1 DEF Requested, TypeOK
<1>5. ~Exists(r) /\ accepted[r] = NoRow
  BY <1>0, <1>1 DEF StageInv
<1>6. LogInv'
  BY <1>0, <1>1 DEF TypeOK, LogInv
<1>7. StageInv'
  BY <1>0, <1>1, <1>4, <1>5 DEF TypeOK, StageInv, LogInv, Exists, OwnsConversation
<1>8. RowInv'
  BY <1>0, <1>1, <1>4, <1>5 DEF TypeOK, RowInv, Exists, OwnsConversation
<1>9. IndexInv' /\ SeenInv'
  BY <1>0, <1>1 DEF IndexInv, SeenInv, Exists
<1> QED
  BY <1>3, <1>6, <1>7, <1>8, <1>9 DEF IInv

(* An error answer given from a stage that has no row to vouch for. *)
LEMMA ErrorAnswerKeepsIInv ==
  ASSUME IInv, NEW r \in Requests, NEW code \in Errors, pc[r] \in InFlight,
         Answer(r, code),
         UNCHANGED <<call, log, escalations, accepted, known, history, outcome, seen>>
  PROVE  IInv'
<1>0. TypeOK /\ StageInv /\ RowInv /\ LogInv /\ IndexInv /\ SeenInv
  BY DEF IInv
<1>1. /\ pc' = [pc EXCEPT ![r] = "done"]
      /\ reply' = [reply EXCEPT ![r] = code]
      /\ UNCHANGED <<call, log, escalations, accepted, known, history, outcome, seen>>
  BY DEF Answer, Goto
<1>2. TypeOK'
  BY <1>0, <1>1 DEF TypeOK, Stages
<1>3. \A e \in Requests : Requested(e)' = Requested(e)
  BY <1>1 DEF Requested
<1>4. StageInv'
  BY <1>0, <1>1, <1>3 DEF TypeOK, StageInv, Exists, OwnsConversation, Settled, Errors
<1>5. RowInv' /\ LogInv' /\ IndexInv' /\ SeenInv'
  BY <1>0, <1>1, <1>3 DEF RowInv, LogInv, IndexInv, SeenInv, Exists, OwnsConversation
<1> QED
  BY <1>2, <1>4, <1>5 DEF IInv

(* An exception of submit: a 500, whether the provider accepted or not. *)
LEMMA HandoffRaisesKeepsIInv ==
  ASSUME IInv, NEW r \in Requests, HandoffRaises(r)
  PROVE  IInv'
<1>0. TypeOK /\ StageInv /\ RowInv /\ LogInv /\ IndexInv /\ SeenInv
  BY DEF IInv
<1>1. /\ pc[r] = "submit"
      /\ pc' = [pc EXCEPT ![r] = "done"]
      /\ reply' = [reply EXCEPT ![r] = "server_error"]
      /\ accepted' \in {accepted, [accepted EXCEPT ![r] = Requested(r)]}
      /\ UNCHANGED <<call, log, escalations, known, history, outcome, seen>>
  BY DEF HandoffRaises, Answer, Goto, ProviderAccepts
<1>2. Requested(r) \in Row /\ Requested(r) # NoRow
  BY <1>0, RequestedIsRow
<1>3. \A e \in Requests : Requested(e)' = Requested(e)
  BY <1>1 DEF Requested
<1>4. TypeOK'
  BY <1>0, <1>1, <1>2 DEF TypeOK, Stages, Errors, StoreAccepts
<1>5. /\ accepted[r] = NoRow /\ escalations[r] = Requested(r)
      /\ \A e \in Requests : e # r => accepted'[e] = accepted[e]
      /\ accepted'[r] # NoRow => accepted'[r] = Requested(r)
  BY <1>0, <1>1 DEF StageInv, TypeOK
<1>6. StageInv'
  BY <1>0, <1>1, <1>2, <1>3, <1>5
     DEF TypeOK, StageInv, Exists, OwnsConversation, Settled
<1>7. RowInv'
  BY <1>0, <1>1, <1>2, <1>3, <1>5
     DEF TypeOK, RowInv, Exists, OwnsConversation, Requested
<1>8. LogInv' /\ IndexInv' /\ SeenInv'
  BY <1>0, <1>1, <1>2, <1>5 DEF TypeOK, LogInv, IndexInv, SeenInv, Exists
<1> QED
  BY <1>4, <1>6, <1>7, <1>8 DEF IInv

LEMMA RespondKeepsIInv ==
  ASSUME IInv, NEW r \in Requests, Respond(r)
  PROVE  IInv'
<1>0. TypeOK /\ StageInv /\ RowInv /\ LogInv /\ IndexInv /\ SeenInv
  BY DEF IInv
<1>1. /\ pc[r] = "respond"
      /\ pc' = [pc EXCEPT ![r] = "done"]
      /\ reply' = [reply EXCEPT ![r] = Result(r).status]
      /\ UNCHANGED <<call, log, escalations, accepted, known, history, outcome, seen>>
  BY DEF Respond, Answer, Goto
<1>2. Result(r).status = Target(outcome[r]) /\ Target(outcome[r]) \in Settled
  BY DEF Result, Transition, Replace, Target, Settled
<1>3. TypeOK'
  BY <1>0, <1>1, <1>2 DEF TypeOK, Stages
<1>4. \A e \in Requests : Requested(e)' = Requested(e)
  BY <1>1 DEF Requested
<1>5. StageInv'
  BY <1>0, <1>1, <1>2, <1>4 DEF TypeOK, StageInv, Exists, OwnsConversation
<1>6. RowInv' /\ LogInv' /\ IndexInv' /\ SeenInv'
  BY <1>0, <1>1, <1>4 DEF RowInv, LogInv, IndexInv, SeenInv, Exists, OwnsConversation
<1> QED
  BY <1>3, <1>5, <1>6 DEF IInv

(* The answer of the provider, in the four cases. *)
LEMMA HandoffKeepsIInv ==
  ASSUME IInv, NEW r \in Requests, pc[r] = "submit", NEW o \in HandoffOutcomes,
         Handed(r, o),
         \/ UNCHANGED accepted /\ o = "failed"
         \/ ProviderAccepts(r) /\ (o = "accepted" \/ "lost_answer" \in Faults)
  PROVE  IInv'
<1>0. TypeOK /\ StageInv /\ RowInv /\ LogInv /\ IndexInv /\ SeenInv
  BY DEF IInv
<1>1. /\ outcome' = [outcome EXCEPT ![r] = o]
      /\ pc' = [pc EXCEPT ![r] = "update"]
      /\ accepted' \in {accepted, [accepted EXCEPT ![r] = Requested(r)]}
      /\ UNCHANGED <<call, log, escalations, known, history, reply, seen>>
  BY DEF Handed, Goto, ProviderAccepts
<1>2. Requested(r) \in Row /\ Requested(r) # NoRow
  BY <1>0, RequestedIsRow
<1>3. \A e \in Requests : Requested(e)' = Requested(e)
  BY <1>1 DEF Requested
<1>4. TypeOK'
  BY <1>0, <1>1, <1>2 DEF TypeOK, Stages, InFlight, StoreAccepts
<1>5. /\ accepted[r] = NoRow /\ escalations[r] = Requested(r)
      /\ o = "accepted" => accepted'[r] # NoRow
      /\ o = "failed" /\ "lost_answer" \notin Faults => accepted'[r] = NoRow
      /\ \A e \in Requests : e # r => accepted'[e] = accepted[e]
      /\ accepted'[r] # NoRow => accepted'[r] = Requested(r)
  BY <1>0, <1>1, <1>2 DEF StageInv, TypeOK, ProviderAccepts, HandoffOutcomes
<1>6. StageInv'
  BY <1>0, <1>1, <1>2, <1>3, <1>5
     DEF TypeOK, StageInv, Exists, OwnsConversation, Settled
<1>7. RowInv'
  BY <1>0, <1>1, <1>2, <1>3, <1>5
     DEF TypeOK, RowInv, Exists, OwnsConversation, Requested
<1>8. LogInv' /\ IndexInv' /\ SeenInv'
  BY <1>0, <1>1, <1>2, <1>5 DEF TypeOK, LogInv, IndexInv, SeenInv, Exists
<1> QED
  BY <1>4, <1>6, <1>7, <1>8 DEF IInv

(* Overwriting the row, whether the handler goes on or answers an error. *)
LEMMA OverwriteKeepsIInv ==
  ASSUME IInv, NEW r \in Requests, pc[r] = "update", OverwriteRow(r),
         \/ Goto(r, "respond") /\ UNCHANGED reply
         \/ Answer(r, "server_error"),
         UNCHANGED <<call, log, accepted, known, history, outcome, seen>>
  PROVE  IInv'
<1>0. TypeOK /\ StageInv /\ RowInv /\ LogInv /\ IndexInv /\ SeenInv
  BY DEF IInv
<1> DEFINE new == Replace(escalations[r], Result(r).status, Result(r).nextStep)
<1>1. /\ escalations' = [escalations EXCEPT ![r] = new]
      /\ pc' \in {[pc EXCEPT ![r] = "respond"], [pc EXCEPT ![r] = "done"]}
      /\ pc'[r] = "respond" => reply' = reply
      /\ reply' \in {reply, [reply EXCEPT ![r] = "server_error"]}
  BY <1>0 DEF OverwriteRow, Answer, Goto, TypeOK
<1>2. /\ escalations[r] = Requested(r) /\ outcome[r] \in HandoffOutcomes
      /\ Exists(r) /\ escalations[r] \in Row
  BY <1>0, RequestedIsRow DEF StageInv, Exists
<1>3. /\ new \in Row /\ new # NoRow /\ StoreAccepts(new)
      /\ new.customer = escalations[r].customer
      /\ new.conversation = escalations[r].conversation
      /\ new.context = escalations[r].context
      /\ new.status = Target(outcome[r])
  BY <1>0, <1>2, OverwrittenIsRow
<1> HIDE DEF new
<1>4. \A e \in Requests : Requested(e)' = Requested(e)
  BY DEF Requested
<1>5. TypeOK'
  BY <1>0, <1>1, <1>3 DEF TypeOK, Stages, InFlight, Errors
<1>6. /\ Target(outcome[r]) \in {"queued", "failed"}
      /\ Target(outcome[r]) = "queued" => accepted[r] # NoRow
      /\ Target(outcome[r]) = "failed" /\ "lost_answer" \notin Faults => accepted[r] = NoRow
  BY <1>0, <1>2 DEF StageInv, Target, HandoffOutcomes
<1>7. StageInv'
  BY <1>0, <1>1, <1>2, <1>3, <1>4
     DEF TypeOK, StageInv, Exists, OwnsConversation, Settled
<1>8. RowInv'
  BY <1>0, <1>1, <1>2, <1>3, <1>4, <1>6
     DEF TypeOK, RowInv, Exists, OwnsConversation
<1>9. LogInv' /\ SeenInv'
  BY <1>0, <1>1, <1>2, <1>3 DEF TypeOK, LogInv, SeenInv, Exists
<1>10. escalations[r].status \in IndexedStatuses
  BY <1>2 DEF Requested, IndexedStatuses
<1>11. IndexInv'
  BY <1>0, <1>1, <1>2, <1>3, <1>10 DEF TypeOK, IndexInv, Exists
<1> QED
  BY <1>5, <1>7, <1>8, <1>9, <1>11 DEF IInv

LEMMA GetEscalationKeepsIInv ==
  ASSUME IInv, NEW c \in Customers, NEW e \in Requests, GetEscalation(c, e)
  PROVE  IInv'
<1>0. TypeOK /\ StageInv /\ RowInv /\ LogInv /\ IndexInv /\ SeenInv
  BY DEF IInv
<1> DEFINE row == [seen[c] EXCEPT ![e] = StatusFor(c, e)]
<1>1. /\ seen' = [seen EXCEPT ![c] = row]
      /\ UNCHANGED <<call, log, escalations, accepted, pc, known, history, outcome, reply>>
  BY DEF GetEscalation
<1>2. /\ StatusFor(c, e) \in Statuses \cup {"not_found"}
      /\ StatusFor(c, e) \in Statuses =>
            /\ Exists(e) /\ call[e].customer = c
            /\ StatusFor(c, e) = escalations[e].status
  BY <1>0 DEF StatusFor, TypeOK, RowInv, Exists, Row, Statuses
<1>3. /\ seen[c] \in [Requests -> Statuses \cup {"unasked", "not_found"}]
      /\ row \in [Requests -> Statuses \cup {"unasked", "not_found"}]
  BY <1>0, <1>2 DEF TypeOK
<1>4. /\ \A d \in Customers \ {c} : seen'[d] = seen[d]
      /\ seen'[c] = row /\ row[e] = StatusFor(c, e)
      /\ \A d \in Requests \ {e} : row[d] = seen[c][d]
  BY <1>0, <1>1, <1>3 DEF TypeOK
<1>5. seen' \in [Customers -> [Requests -> Statuses \cup {"unasked", "not_found"}]]
  BY <1>0, <1>1, <1>3 DEF TypeOK
<1> HIDE DEF row
<1>6. TypeOK'
  BY <1>0, <1>1, <1>5 DEF TypeOK
<1>7. SeenInv'
  BY <1>0, <1>1, <1>2, <1>4 DEF SeenInv, RowInv, Exists, Statuses
<1>8. \A d \in Requests : Requested(d)' = Requested(d)
  BY <1>1 DEF Requested
<1>9. StageInv' /\ RowInv' /\ LogInv' /\ IndexInv'
  BY <1>0, <1>1, <1>8 DEF StageInv, RowInv, LogInv, IndexInv, Exists, OwnsConversation
<1> QED
  BY <1>6, <1>7, <1>9 DEF IInv

LEMMA CommitExchangeKeepsIInv ==
  ASSUME IInv, NEW v \in Conversations, NEW x \in Exchanges, CommitExchange(v, x)
  PROVE  IInv'
<1>0. TypeOK /\ StageInv /\ RowInv /\ LogInv /\ IndexInv /\ SeenInv
  BY DEF IInv
<1>1. /\ log' = [log EXCEPT ![v] = log[v] \cup {x}]
      /\ UNCHANGED <<call, escalations, accepted, pc, known, history, outcome, reply, seen>>
  BY DEF CommitExchange
<1>2. TypeOK'
  BY <1>0, <1>1 DEF TypeOK, Context
<1>3. \A w \in Conversations : log[w] \subseteq log'[w]
  BY <1>0, <1>1 DEF TypeOK
<1>4. \A r \in Requests : call[r].conversation \in Conversations
  BY <1>0 DEF TypeOK, Calls
<1>5. LogInv'
  BY <1>0, <1>1, <1>3, <1>4 DEF LogInv
<1>6. \A e \in Requests : Requested(e)' = Requested(e)
  BY <1>1 DEF Requested
<1>7. StageInv' /\ RowInv' /\ IndexInv' /\ SeenInv'
  BY <1>0, <1>1, <1>6 DEF StageInv, RowInv, IndexInv, SeenInv, Exists, OwnsConversation
<1> QED
  BY <1>2, <1>5, <1>7 DEF IInv

LEMMA CrashKeepsIInv ==
  ASSUME IInv, Crash PROVE IInv'
<1>0. TypeOK /\ StageInv /\ RowInv /\ LogInv /\ IndexInv /\ SeenInv
  BY DEF IInv
<1>1. /\ pc' = [r \in Requests |-> IF pc[r] \in InFlight THEN "crashed" ELSE pc[r]]
      /\ UNCHANGED <<call, log, escalations, accepted, known, history, outcome, reply, seen>>
  BY DEF Crash
<1>2. TypeOK'
  BY <1>0, <1>1 DEF TypeOK, Stages
<1>3. \A e \in Requests : Requested(e)' = Requested(e)
  BY <1>1 DEF Requested
<1>4. StageInv'
  BY <1>0, <1>1, <1>3 DEF StageInv, Exists, OwnsConversation, InFlight, Settled
<1>5. RowInv' /\ LogInv' /\ IndexInv' /\ SeenInv'
  BY <1>0, <1>1, <1>3 DEF RowInv, LogInv, IndexInv, SeenInv, Exists, OwnsConversation
<1> QED
  BY <1>2, <1>4, <1>5 DEF IInv

-----------------------------------------------------------------------------
(* The inductive invariant. *)

LEMMA StutterKeepsIInv ==
  ASSUME IInv, UNCHANGED vars PROVE IInv'
<1>1. \A e \in Requests : Requested(e)' = Requested(e)
  BY DEF vars, Requested
<1> QED
  BY <1>1 DEF vars, IInv, TypeOK, StageInv, RowInv, LogInv, IndexInv, SeenInv,
              Exists, OwnsConversation

LEMMA NextKeepsIInv == IInv /\ [Next]_vars => IInv'
<1> SUFFICES ASSUME IInv, [Next]_vars PROVE IInv'
  OBVIOUS
<1>1. ASSUME NEW r \in Requests, Receive(r) PROVE IInv'
  BY <1>1, ReceiveKeepsIInv
<1>2. ASSUME NEW r \in Requests, Serve(r) PROVE IInv'
  <2>1. CASE ReadHistory(r)
    BY <2>1, ReadHistoryKeepsIInv
  <2>2. CASE ConversationNotFound(r)
    BY <2>2, ErrorAnswerKeepsIInv DEF ConversationNotFound, Errors, InFlight
  <2>3. CASE AddRequested(r)
    BY <2>3, InsertKeepsIInv DEF AddRequested
  <2>4. CASE AlreadyActive(r)
    BY <2>4, ErrorAnswerKeepsIInv DEF AlreadyActive, Errors, InFlight
  <2>5. CASE AddRequestedFails(r)
    <3>1. CASE InsertRow(r) /\ ~IndexHolds(call[r].conversation)
      BY <2>5, <3>1, InsertKeepsIInv DEF AddRequestedFails
    <3>2. CASE UNCHANGED escalations
      BY <2>5, <3>2, ErrorAnswerKeepsIInv DEF AddRequestedFails, Errors, InFlight
    <3> QED
      BY <2>5, <3>1, <3>2 DEF AddRequestedFails
  <2>6. CASE HandoffAccepted(r)
    BY <2>6, HandoffKeepsIInv DEF HandoffAccepted, HandoffOutcomes
  <2>7. CASE HandoffRejected(r)
    BY <2>7, HandoffKeepsIInv DEF HandoffRejected, HandoffOutcomes
  <2>8. CASE HandoffUnavailable(r)
    BY <2>8, HandoffKeepsIInv DEF HandoffUnavailable, HandoffOutcomes
  <2>9. CASE Update(r)
    BY <2>9, OverwriteKeepsIInv DEF Update
  <2>10. CASE UpdateFails(r)
    <3>1. CASE OverwriteRow(r)
      BY <2>10, <3>1, OverwriteKeepsIInv DEF UpdateFails
    <3>2. CASE UNCHANGED escalations
      BY <2>10, <3>2, ErrorAnswerKeepsIInv DEF UpdateFails, Errors, InFlight
    <3> QED
      BY <2>10, <3>1, <3>2 DEF UpdateFails
  <2>11. CASE Respond(r)
    BY <2>11, RespondKeepsIInv
  <2>12. CASE ReadHistoryFails(r)
    BY <2>12, ErrorAnswerKeepsIInv DEF ReadHistoryFails, Errors, InFlight
  <2>13. CASE HandoffRaises(r)
    BY <2>13, HandoffRaisesKeepsIInv
  <2> QED
    BY <1>2, <2>1, <2>2, <2>3, <2>4, <2>5, <2>6, <2>7, <2>8, <2>9, <2>10, <2>11, <2>12, <2>13
       DEF Serve
<1>3. ASSUME NEW c \in Watchers, NEW e \in Requests, GetEscalation(c, e) PROVE IInv'
  BY <1>3, WatcherAssumption, GetEscalationKeepsIInv
<1>4. ASSUME NEW v \in Conversations, NEW x \in Exchanges, CommitExchange(v, x) PROVE IInv'
  BY <1>4, CommitExchangeKeepsIInv
<1>5. CASE Crash
  BY <1>5, CrashKeepsIInv
<1>6. CASE UNCHANGED vars
  BY <1>6, StutterKeepsIInv
<1> QED
  BY <1>1, <1>2, <1>3, <1>4, <1>5, <1>6 DEF Next

LEMMA IInvAlways == Spec => []IInv
<1> QED
  BY InitIInv, NextKeepsIInv, PTL DEF Spec

-----------------------------------------------------------------------------
(* The theorems. *)

(* Type correctness, and the CHECK constraint of the table, at any size. *)
THEOREM TypeCorrectness == Spec => []TypeOK
<1>1. IInv => TypeOK
  BY DEF IInv
<1> QED
  BY <1>1, IInvAlways, PTL

(* D-032: at most one escalation of a conversation is in a non-terminal    *)
(* status, however many requests race for it.                              *)
THEOREM OneActive == Spec => []OneActivePerConversation
<1>1. \A s \in {"requested", "queued", "failed"} : Allowed[s] # {} => s \in IndexedStatuses
  BY DEF Allowed, Statuses, IndexedStatuses
<1>2. IInv => OneActivePerConversation
  <2> SUFFICES ASSUME IInv, NEW d \in Requests, NEW e \in Requests,
                      Exists(d), Exists(e), d # e,
                      Allowed[escalations[d].status] # {},
                      Allowed[escalations[e].status] # {}
               PROVE  escalations[d].conversation # escalations[e].conversation
    BY DEF OneActivePerConversation
  <2>1. /\ escalations[d].status \in IndexedStatuses
        /\ escalations[e].status \in IndexedStatuses
    BY <1>1 DEF IInv, RowInv
  <2> QED
    BY <2>1 DEF IInv, IndexInv
<1> QED
  BY <1>2, IInvAlways, PTL

(* D-031: nobody stores, answers or reads "queued" before the provider has *)
(* accepted.                                                               *)
THEOREM QueuedIsTrue == Spec => []QueuedOnlyIfAccepted
<1>1. IInv => QueuedOnlyIfAccepted
  BY DEF IInv, StageInv, RowInv, SeenInv, QueuedOnlyIfAccepted, Exists, Settled
<1> QED
  BY <1>1, IInvAlways, PTL

LEMMA AcceptedRecord ==
  ASSUME IInv, NEW e \in Requests, accepted[e] # NoRow
  PROVE  /\ Exists(e) /\ accepted[e].status = "requested"
         /\ escalations[e].customer = accepted[e].customer
         /\ escalations[e].conversation = accepted[e].conversation
         /\ escalations[e].context = accepted[e].context
<1>1. accepted[e] = Requested(e) /\ Exists(e)
  BY DEF IInv, RowInv
<1>2. /\ Requested(e).status = "requested"
      /\ Requested(e).customer = call[e].customer
      /\ Requested(e).conversation = call[e].conversation
      /\ Requested(e).context = history[e]
  BY DEF Requested
<1> QED
  BY <1>1, <1>2 DEF IInv, RowInv

(* What the provider accepted is stored, with the same frozen context. *)
THEOREM AcceptedIsStored == Spec => []AcceptedIsDurable
<1>1. IInv => AcceptedIsDurable
  <2> SUFFICES ASSUME IInv, NEW e \in Requests, accepted[e] # NoRow
               PROVE  /\ Exists(e) /\ accepted[e].status = "requested"
                      /\ escalations[e].customer = accepted[e].customer
                      /\ escalations[e].conversation = accepted[e].conversation
                      /\ escalations[e].context = accepted[e].context
    BY DEF AcceptedIsDurable
  <2> QED
    BY AcceptedRecord
<1> QED
  BY <1>1, IInvAlways, PTL

(* The blind overwrite of update() always meets the row its own request    *)
(* inserted, still "requested".                                            *)
THEOREM UpdateIsSafe == Spec => []UpdateOverwritesOwnRequest
<1>1. IInv => UpdateOverwritesOwnRequest
  BY DEF IInv, StageInv, UpdateOverwritesOwnRequest, Requested, CanTransition, Target,
         Allowed, Statuses
<1> QED
  BY <1>1, IInvAlways, PTL

(* A 201 tells what the store says from then on. *)
THEOREM CreatedIsStored == Spec => []CreatedIsDurable
<1>1. IInv => CreatedIsDurable
  BY DEF IInv, StageInv, CreatedIsDurable
<1> QED
  BY <1>1, IInvAlways, PTL

(* The frozen context has every exchange committed before the POST, all of *)
(* them of the customer's own conversation.                                *)
THEOREM ContextCompleteness == Spec => []ContextIsComplete
<1>1. IInv => ContextIsComplete
  <2> SUFFICES ASSUME IInv, NEW e \in Requests, Exists(e)
               PROVE  /\ Owner[escalations[e].conversation] = escalations[e].customer
                      /\ known[e] \subseteq escalations[e].context
                      /\ escalations[e].context \subseteq log[escalations[e].conversation]
    BY DEF ContextIsComplete
  <2> QED
    BY DEF IInv, RowInv, LogInv, OwnsConversation
<1> QED
  BY <1>1, IInvAlways, PTL

(* Nothing is handed over twice while the provider's answers arrive, even  *)
(* with crashes and database failures.                                     *)
THEOREM HandedOverOnce ==
  ASSUME "lost_answer" \notin Faults
  PROVE  Spec => []NoDuplicateHandoff
<1>1. IInv => NoDuplicateHandoff
  <2> SUFFICES ASSUME IInv, NEW d \in Requests, NEW e \in Requests, d # e,
                      accepted[d] # NoRow, accepted[e] # NoRow
               PROVE  accepted[d].conversation # accepted[e].conversation
    BY DEF NoDuplicateHandoff
  <2>1. /\ Exists(d) /\ accepted[d].conversation = escalations[d].conversation
        /\ Exists(e) /\ accepted[e].conversation = escalations[e].conversation
    BY AcceptedRecord
  <2>2. /\ escalations[d].status \in IndexedStatuses
        /\ escalations[e].status \in IndexedStatuses
    BY <2>1 DEF IInv, RowInv, IndexedStatuses
  <2> QED
    BY <2>1, <2>2 DEF IInv, IndexInv
<1> QED
  BY <1>1, IInvAlways, PTL

(* Reading a status never tells one customer about another's escalation. *)
THEOREM PrivateReads == Spec => []ReadsArePrivate
<1>1. IInv => ReadsArePrivate
  BY DEF IInv, SeenInv, RowInv, ReadsArePrivate, OwnsConversation
<1> QED
  BY <1>1, IInvAlways, PTL

-----------------------------------------------------------------------------
(* How a step may change the table. *)

LEMMA TableSteps ==
  ASSUME [Next]_vars
  PROVE  \/ UNCHANGED escalations
         \/ \E r \in Requests : pc[r] = "insert" /\ InsertRow(r) /\ UNCHANGED <<call, history>>
         \/ \E r \in Requests : /\ pc[r] = "update" /\ OverwriteRow(r)
                                /\ UNCHANGED <<call, history>>
<1>1. ASSUME NEW r \in Requests, Serve(r)
      PROVE  \/ UNCHANGED escalations
             \/ pc[r] = "insert" /\ InsertRow(r) /\ UNCHANGED <<call, history>>
             \/ pc[r] = "update" /\ OverwriteRow(r) /\ UNCHANGED <<call, history>>
  BY <1>1 DEF Serve, ReadHistory, ConversationNotFound, ReadHistoryFails, AddRequested,
              AlreadyActive, AddRequestedFails, HandoffAccepted, HandoffRejected,
              HandoffUnavailable, HandoffRaises, Handed, Update, UpdateFails, Respond
<1>2. ASSUME NEW r \in Requests, Receive(r) PROVE UNCHANGED escalations
  BY <1>2 DEF Receive
<1>3. ASSUME NEW c \in Watchers, NEW e \in Requests, GetEscalation(c, e)
      PROVE  UNCHANGED escalations
  BY <1>3 DEF GetEscalation
<1>4. ASSUME NEW v \in Conversations, NEW x \in Exchanges, CommitExchange(v, x)
      PROVE  UNCHANGED escalations
  BY <1>4 DEF CommitExchange
<1>5. CASE Crash
  BY <1>5 DEF Crash
<1>6. CASE UNCHANGED vars
  BY <1>6 DEF vars
<1> QED
  BY <1>1, <1>2, <1>3, <1>4, <1>5, <1>6 DEF Next

LEMMA RowsAdvance ==
  ASSUME IInv, [Next]_vars, NEW e \in Requests, Exists(e)
  PROVE  RowAdvances(escalations[e], escalations'[e])
<1>1. CASE UNCHANGED escalations
  BY <1>1 DEF RowAdvances, Exists
<1>2. ASSUME NEW r \in Requests, pc[r] = "insert", InsertRow(r)
      PROVE  RowAdvances(escalations[e], escalations'[e])
  <2>1. e # r
    BY <1>2 DEF IInv, StageInv
  <2>2. escalations'[e] = escalations[e]
    BY <1>2, <2>1 DEF InsertRow, IInv, TypeOK
  <2> QED
    BY <2>2 DEF RowAdvances, Exists
<1>3. ASSUME NEW r \in Requests, pc[r] = "update", OverwriteRow(r)
      PROVE  RowAdvances(escalations[e], escalations'[e])
  <2>1. CASE e # r
    <3>1. escalations'[e] = escalations[e]
      BY <1>3, <2>1 DEF OverwriteRow, IInv, TypeOK
    <3> QED
      BY <3>1 DEF RowAdvances, Exists
  <2>2. CASE e = r
    <3>1. escalations'[e] = Replace(escalations[e], Result(e).status, Result(e).nextStep)
      BY <1>3, <2>2 DEF OverwriteRow, IInv, TypeOK
    <3>2. /\ escalations[e] \in Row /\ outcome[e] \in HandoffOutcomes
          /\ escalations[e].status = "requested"
      BY <1>3, <2>2 DEF IInv, TypeOK, StageInv, Requested, Exists
    <3>3. /\ escalations'[e] # NoRow
          /\ escalations'[e].customer = escalations[e].customer
          /\ escalations'[e].conversation = escalations[e].conversation
          /\ escalations'[e].context = escalations[e].context
          /\ escalations'[e].status = Target(outcome[e])
      BY <3>1, <3>2, OverwrittenIsRow DEF IInv
    <3>4. CanTransition(escalations[e], Target(outcome[e]))
      BY <3>2 DEF CanTransition, Allowed, Statuses, Target
    <3> QED
      BY <3>3, <3>4 DEF RowAdvances
  <2> QED
    BY <2>1, <2>2
<1> QED
  BY <1>1, <1>2, <1>3, TableSteps

(* Rows are never deleted, their frozen part never changes, and their      *)
(* status takes only the transitions of the lifecycle.                     *)
THEOREM OnlyAdvance == Spec => EscalationsOnlyAdvance
<1> DEFINE A == \A e \in Requests : Exists(e) => RowAdvances(escalations[e], escalations'[e])
<1>1. IInv /\ [Next]_vars => [A]_vars
  BY RowsAdvance
<1> QED
  BY <1>1, IInvAlways, PTL DEF Spec, EscalationsOnlyAdvance

-----------------------------------------------------------------------------
(* What a customer has read of a row, the row has moved on from. *)
FollowInv ==
  \A c \in Customers, e \in Requests :
    seen[c][e] \in Statuses => Follows(seen[c][e], escalations[e].status)

LEMMA SeenSteps ==
  ASSUME [Next]_vars
  PROVE  \/ UNCHANGED seen
         \/ \E c \in Customers, e \in Requests : GetEscalation(c, e)
<1>1. ASSUME NEW r \in Requests, Serve(r) \/ Receive(r) PROVE UNCHANGED seen
  BY <1>1 DEF Serve, ReadHistory, ConversationNotFound, ReadHistoryFails, AddRequested,
              AlreadyActive, AddRequestedFails, HandoffAccepted, HandoffRejected,
              HandoffUnavailable, HandoffRaises, Handed, Update, UpdateFails, Respond, Receive
<1>2. ASSUME NEW v \in Conversations, NEW x \in Exchanges, CommitExchange(v, x)
      PROVE  UNCHANGED seen
  BY <1>2 DEF CommitExchange
<1>3. CASE Crash \/ UNCHANGED vars
  BY <1>3 DEF Crash, vars
<1> QED
  BY <1>1, <1>2, <1>3, WatcherAssumption DEF Next

(* A poll changes one entry, to the status of the row it may see. *)
LEMMA PollEffect ==
  ASSUME IInv, NEW c \in Customers, NEW e \in Requests, GetEscalation(c, e)
  PROVE  /\ UNCHANGED <<escalations, reply, call>>
         /\ seen'[c][e] = StatusFor(c, e)
         /\ \A d \in Customers, f \in Requests :
              d # c \/ f # e => seen'[d][f] = seen[d][f]
<1>1. seen \in [Customers -> [Requests -> Statuses \cup {"unasked", "not_found"}]]
  BY DEF IInv, TypeOK
<1> QED
  BY <1>1 DEF GetEscalation

LEMMA FollowStep == IInv /\ IInv' /\ FollowInv /\ [Next]_vars => FollowInv'
<1> SUFFICES ASSUME IInv, IInv', FollowInv, [Next]_vars, NEW d \in Customers, NEW f \in Requests,
                    seen'[d][f] \in Statuses
             PROVE  Follows(seen'[d][f], escalations'[f].status)
  BY DEF FollowInv
<1>1. CASE seen'[d][f] = seen[d][f]
  <2>1. Exists(f) /\ Follows(seen[d][f], escalations[f].status)
    BY <1>1 DEF IInv, SeenInv, FollowInv
  <2>2. RowAdvances(escalations[f], escalations'[f])
    BY <2>1, RowsAdvance
  <2>3. /\ escalations[f].status \in {"requested", "queued", "failed"}
        /\ escalations'[f].status \in {"requested", "queued", "failed"}
    BY <2>1, <2>2 DEF IInv, RowInv, Exists, RowAdvances
  <2> QED
    BY <1>1, <2>1, <2>2, <2>3 DEF RowAdvances, CanTransition, Follows, Allowed, Statuses
<1>2. ASSUME NEW c \in Customers, NEW e \in Requests, GetEscalation(c, e)
      PROVE  Follows(seen'[d][f], escalations'[f].status)
  <2>1. CASE d = c /\ f = e
    BY <1>2, <2>1, PollEffect DEF StatusFor, Follows, Statuses
  <2>2. CASE d # c \/ f # e
    BY <1>1, <1>2, <2>2, PollEffect
  <2> QED
    BY <2>1, <2>2
<1> QED
  BY <1>1, <1>2, SeenSteps

(* What a customer reads never goes back and never contradicts the 201, at *)
(* whatever moment of the creating request the poll comes.                 *)
THEOREM PollsFollow == Spec => ReadsFollowLifecycle
<1> DEFINE A == \A c \in Customers, e \in Requests :
             seen'[c][e] # seen[c][e] =>
               /\ seen[c][e] \in Statuses => /\ seen'[c][e] \in Statuses
                                            /\ Follows(seen[c][e], seen'[c][e])
               /\ reply[e] \in Settled /\ call[e].customer = c =>
                    seen'[c][e] = reply[e]
<1>1. ASSUME IInv, FollowInv, [Next]_vars, NEW d \in Customers, NEW f \in Requests,
             seen'[d][f] # seen[d][f]
      PROVE  /\ seen[d][f] \in Statuses => /\ seen'[d][f] \in Statuses
                                           /\ Follows(seen[d][f], seen'[d][f])
             /\ reply[f] \in Settled /\ call[f].customer = d => seen'[d][f] = reply[f]
  <2>1. PICK c \in Customers, e \in Requests : GetEscalation(c, e)
    BY <1>1, SeenSteps
  <2>2. d = c /\ f = e /\ seen'[d][f] = StatusFor(d, f)
    BY <1>1, <2>1, PollEffect
  <2>3. ASSUME seen[d][f] \in Statuses
        PROVE  seen'[d][f] \in Statuses /\ Follows(seen[d][f], seen'[d][f])
    <3>1. Exists(f) /\ call[f].customer = d /\ Follows(seen[d][f], escalations[f].status)
      BY <1>1, <2>3 DEF IInv, SeenInv, FollowInv
    <3>2. escalations[f].customer = d /\ escalations[f].status \in Statuses
      BY <1>1, <3>1 DEF IInv, RowInv, Statuses
    <3> QED
      BY <2>2, <3>1, <3>2 DEF StatusFor, Exists
  <2>4. ASSUME reply[f] \in Settled, call[f].customer = d PROVE seen'[d][f] = reply[f]
    <3>1. Exists(f) /\ escalations[f].status = reply[f]
      BY <1>1, <2>4 DEF IInv, StageInv
    <3>2. escalations[f].customer = d
      BY <1>1, <2>4, <3>1 DEF IInv, RowInv
    <3> QED
      BY <2>2, <3>1, <3>2 DEF StatusFor, Exists
  <2> QED
    BY <2>3, <2>4
<1>2. IInv /\ FollowInv /\ [Next]_vars => [A]_vars
  BY <1>1
<1>3. Init => FollowInv
  BY DEF Init, FollowInv, Statuses
<1> QED
  BY <1>2, <1>3, FollowStep, IInvAlways, PTL DEF Spec, ReadsFollowLifecycle

(* What is known of an unsettled escalation is kept by a step that leaves  *)
(* the row, the place and the answer of its request alone.                 *)
LEMMA UnsettledFrame ==
  ASSUME UnsettledHasAReason, NEW e \in Requests,
         UNCHANGED <<escalations[e], pc[e], reply[e], outcome[e]>>
  PROVE  Exists(e)' /\ escalations'[e].status = "requested" =>
           pc'[e] \in {"submit", "update"} \/ Interrupted(e)'
BY DEF UnsettledHasAReason, Interrupted, Exists

LEMMA UnsettledStep == IInv /\ UnsettledHasAReason /\ [Next]_vars => UnsettledHasAReason'
<1> SUFFICES ASSUME IInv, UnsettledHasAReason, [Next]_vars, NEW e \in Requests,
                    Exists(e)', escalations'[e].status = "requested"
             PROVE  pc'[e] \in {"submit", "update"} \/ Interrupted(e)'
  BY DEF UnsettledHasAReason
<1>0. TypeOK /\ StageInv
  BY DEF IInv
<1>1. ASSUME NEW r \in Requests, Receive(r) \/ Serve(r)
      PROVE  pc'[e] \in {"submit", "update"} \/ Interrupted(e)'
  <2>1. CASE e # r
    <3>1. UNCHANGED <<escalations[e], pc[e], reply[e], outcome[e]>>
      BY <1>0, <1>1, <2>1
         DEF Receive, Serve, ReadHistory, ConversationNotFound, ReadHistoryFails, AddRequested,
             AlreadyActive, AddRequestedFails, InsertRow, HandoffAccepted, HandoffRejected,
             HandoffUnavailable, HandoffRaises, Handed, Update, UpdateFails, OverwriteRow,
             Respond, Answer, Goto, TypeOK
    <3> QED
      BY <3>1, UnsettledFrame
  <2>2. CASE /\ e = r
             /\ \/ Receive(r) \/ ReadHistory(r)
                \/ ConversationNotFound(r) \/ ReadHistoryFails(r)
    <3>1. ~Exists(r) /\ escalations' = escalations
      BY <1>0, <2>2
         DEF Receive, ReadHistory, ConversationNotFound, ReadHistoryFails, StageInv
    <3> QED
      BY <2>2, <3>1 DEF Exists
  <2>3. CASE e = r /\ AlreadyActive(r)
    <3>1. ~Exists(r) /\ escalations' = escalations
      BY <1>0, <2>3 DEF AlreadyActive, StageInv
    <3> QED
      BY <2>3, <3>1 DEF Exists
  <2>4. CASE /\ e = r
             /\ \/ AddRequested(r) \/ HandoffAccepted(r)
                \/ HandoffRejected(r) \/ HandoffUnavailable(r)
    BY <1>0, <2>4
       DEF AddRequested, HandoffAccepted, HandoffRejected, HandoffUnavailable, Handed, Goto,
           TypeOK
  <2>5. CASE e = r /\ (AddRequestedFails(r) \/ UpdateFails(r))
    BY <1>0, <2>5 DEF AddRequestedFails, UpdateFails, Answer, Interrupted, TypeOK
  <2>6. CASE e = r /\ Update(r)
    <3>1. outcome[r] \in HandoffOutcomes /\ escalations[r] \in Row
      BY <1>0, <2>6, RequestedIsRow DEF Update, StageInv
    <3>2. escalations'[r] = Replace(escalations[r], Result(r).status, Result(r).nextStep)
      BY <1>0, <2>6 DEF Update, OverwriteRow, TypeOK
    <3>3. escalations'[r].status = Target(outcome[r])
      BY <1>0, <3>1, <3>2, OverwrittenIsRow
    <3> QED
      BY <2>6, <3>3 DEF Target
  <2>7. CASE e = r /\ Respond(r)
    <3>1. escalations'[r].status = Target(outcome[r])
      BY <1>0, <2>7 DEF Respond, StageInv
    <3> QED
      BY <2>7, <3>1 DEF Target
  <2>8. CASE e = r /\ HandoffRaises(r)
    <3>1. outcome'[r] = "none"
      BY <1>0, <2>8 DEF HandoffRaises, StageInv
    <3> QED
      BY <1>0, <2>8, <3>1 DEF HandoffRaises, Answer, Interrupted, TypeOK
  <2> QED
    BY <1>1, <2>1, <2>2, <2>3, <2>4, <2>5, <2>6, <2>7, <2>8 DEF Serve
<1>2. CASE Crash
  <2>1. UNCHANGED <<escalations, reply, outcome>> /\ pc'[e] \in {pc[e], "crashed"}
    BY <1>0, <1>2 DEF Crash, TypeOK
  <2> QED
    BY <2>1, UnsettledFrame DEF Interrupted
<1>3. CASE \/ \E c \in Watchers, d \in Requests : GetEscalation(c, d)
           \/ \E v \in Conversations, x \in Exchanges : CommitExchange(v, x)
           \/ UNCHANGED vars
  <2>1. UNCHANGED <<escalations, pc, reply, outcome>>
    BY <1>3 DEF GetEscalation, CommitExchange, vars
  <2> QED
    BY <2>1, UnsettledFrame
<1> QED
  BY <1>1, <1>2, <1>3 DEF Next

(* The part of SettledUnlessInterrupted that needs no fairness: whatever   *)
(* the provider answers and however requests race, only a crash, a failed  *)
(* transaction or an exception that execute does not catch can leave an    *)
(* escalation requested behind.                                            *)
THEOREM NothingElseUnsettles == Spec => []UnsettledHasAReason
<1>1. Init => UnsettledHasAReason
  BY DEF Init, UnsettledHasAReason, Exists
<1> QED
  BY <1>1, UnsettledStep, IInvAlways, PTL DEF Spec
=============================================================================
