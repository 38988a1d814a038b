------------------------ MODULE EscalationLifecycle ------------------------
(***************************************************************************)
(* The escalation entity: its statuses, the transitions the domain class   *)
(* accepts, the outcome of a hand-off, and the statuses named by the       *)
(* partial unique index of the escalations table.                          *)
(* (domain/escalations.py, adapters/postgres/models.py)                    *)
(***************************************************************************)

Statuses == {"requested", "queued", "assigned", "resolved", "failed"}

HandoffOutcomes == {"accepted", "failed"}

(* The table `allowed` of Escalation.transition. *)
Allowed ==
  [s \in Statuses |->
     CASE s = "requested" -> {"queued", "failed"}
       [] s = "queued"    -> {"assigned", "failed"}
       [] s = "assigned"  -> {"resolved"}
       [] OTHER           -> {}]

(* Every other status raises InvalidEscalationTransitionError. *)
CanTransition(row, status) == status \in Allowed[row.status]

(* The next_step of a record: none, or the text FAILED_NEXT_STEP. *)
NextSteps == {"none", "retry_later"}

(* A record with another status and next step; the rest never changes. *)
Replace(row, status, nextStep) == [customer     |-> row.customer,
                                   conversation |-> row.conversation,
                                   status       |-> status,
                                   nextStep     |-> nextStep,
                                   context      |-> row.context]

(* Error: a failed record without the next step. *)
TransitionWithoutNextStep(row, status) == Replace(row, status, "none")

(* The record `transition` returns (its updated_at is not modelled). *)
Transition(row, status) ==
  Replace(row, status, IF status = "failed" THEN "retry_later" ELSE "none")

(* Error: every hand-off taken for an accepted one. *)
TargetQueued(outcome) == "queued"

(* The status a hand-off outcome asks for. *)
Target(outcome) == IF outcome = "accepted" THEN "queued" ELSE "failed"

(* The WHERE clause of uq_escalations_active_conversation. *)
IndexedStatuses == {"requested", "queued", "assigned"}

(* ck_escalations_failed_next_step. *)
StoreAccepts(row) == (row.status = "failed") <=> (row.nextStep # "none")
=============================================================================
