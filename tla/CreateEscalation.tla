-------------------------- MODULE CreateEscalation --------------------------
(***************************************************************************)
(* POST /v1/conversations/{id}/escalations as executed by                  *)
(* CreateEscalationService, with the escalations table it writes, the      *)
(* human-handoff provider it calls, the conversation it freezes, and       *)
(* GET /v1/escalations/{id}.                                               *)
(*                                                                         *)
(* The routes are synchronous functions run by a thread pool: every        *)
(* request is a process with its own pc, and between two repository calls  *)
(* (each one a short READ COMMITTED transaction) any other request, a      *)
(* customer message, a crash of the server or a database failure may       *)
(* intervene.  A request creates at most one escalation, so the            *)
(* escalation's uuid4 is identified with the request.                      *)
(***************************************************************************)
EXTENDS EscalationLifecycle

CONSTANTS
  Requests,       \* POST requests, and the ids of the escalations they create
  Customers,      \* authenticated customers
  Conversations,  \* conversation ids
  Owner,          \* the customer each conversation belongs to
  Exchanges,      \* message exchanges that other requests may commit
  Watchers,       \* customers who poll GET /v1/escalations/{id}
  Faults,         \* the faults the environment may show
  NoRow           \* a missing escalation

ASSUME OwnerAssumption == Owner \in [Conversations -> Customers]
ASSUME WatcherAssumption == Watchers \subseteq Customers
(* "crash": the server process dies.  "database": a read fails, or a write *)
(* transaction, before or after its commit.  "lost_answer": the provider   *)
(* accepts but its answer is lost.  "provider": submit raises an exception *)
(* other than HandoffUnavailableError.                                     *)
ASSUME FaultAssumption == Faults \subseteq {"crash", "database", "lost_answer", "provider"}

Context == SUBSET Exchanges

Row == [customer     : Customers,
        conversation : Conversations,
        status       : Statuses,
        nextStep     : NextSteps,
        context      : Context]

ASSUME NoRowAssumption == NoRow \notin Row

VARIABLES
  call,         \* the customer and conversation of each POST
  log,          \* messages table: committed exchanges of each conversation
  escalations,  \* escalations table
  accepted,     \* the provider's ledger: the escalations it accepted, as received
  pc,           \* where each POST is in CreateEscalationService.execute
  known,        \* exchanges of the conversation committed when the POST arrived
  history,      \* local `history`: what get_history returned
  outcome,      \* local `outcome`
  reply,        \* HTTP answer of each POST; a 201 is named by the status it carries
  seen          \* the last answer of GET /v1/escalations/{id} to each customer

vars == <<call, log, escalations, accepted, pc, known, history, outcome, reply, seen>>

InFlight == {"read", "insert", "submit", "update", "respond"}
Stages == InFlight \cup {"idle", "done", "crashed"}
Errors == {"not_found", "already_active", "server_error"}
Settled == {"queued", "failed"}
Calls == [customer : Customers, conversation : Conversations]

Init ==
  /\ call \in [Requests -> Calls]
  /\ log = [v \in Conversations |-> {}]
  /\ escalations = [r \in Requests |-> NoRow]
  /\ accepted = [r \in Requests |-> NoRow]
  /\ pc = [r \in Requests |-> "idle"]
  /\ known = [r \in Requests |-> {}]
  /\ history = [r \in Requests |-> {}]
  /\ outcome = [r \in Requests |-> "none"]
  /\ reply = [r \in Requests |-> "none"]
  /\ seen = [c \in Customers |-> [e \in Requests |-> "unasked"]]

Goto(r, stage) == pc' = [pc EXCEPT ![r] = stage]

Answer(r, code) == Goto(r, "done") /\ reply' = [reply EXCEPT ![r] = code]

-----------------------------------------------------------------------------
(* The service *)

(* The POST reaches the server with valid credentials and a valid reason. *)
Receive(r) ==
  /\ pc[r] = "idle"
  /\ Goto(r, "read")
  /\ known' = [known EXCEPT ![r] = log[call[r].conversation]]
  /\ UNCHANGED <<call, log, escalations, accepted, history, outcome, reply, seen>>

OwnsConversation(r) == Owner[call[r].conversation] = call[r].customer

(* Error: the history is read from a copy of the database that lags.       *)
ReadLaggingHistory(r) ==
  /\ pc[r] = "read"
  /\ OwnsConversation(r)
  /\ \E old \in SUBSET log[call[r].conversation] : history' = [history EXCEPT ![r] = old]
  /\ Goto(r, "insert")
  /\ UNCHANGED <<call, log, escalations, accepted, known, outcome, reply, seen>>

(* get_history finds the conversation: its committed messages, copied into *)
(* a context that nothing changes afterwards.                              *)
ReadHistory(r) ==
  /\ pc[r] = "read"
  /\ OwnsConversation(r)
  /\ history' = [history EXCEPT ![r] = log[call[r].conversation]]
  /\ Goto(r, "insert")
  /\ UNCHANGED <<call, log, escalations, accepted, known, outcome, reply, seen>>

(* get_history returns None: ConversationNotFoundError, a 404. *)
ConversationNotFound(r) ==
  /\ pc[r] = "read"
  /\ ~OwnsConversation(r)
  /\ Answer(r, "not_found")
  /\ UNCHANGED <<call, log, escalations, accepted, known, history, outcome, seen>>

(* A SELECT of get_history fails: a 500, nothing stored. *)
ReadHistoryFails(r) ==
  /\ "database" \in Faults
  /\ pc[r] = "read"
  /\ Answer(r, "server_error")
  /\ UNCHANGED <<call, log, escalations, accepted, known, history, outcome, seen>>

(* The Escalation built in memory, inserted and then submitted. *)
Requested(r) == [customer     |-> call[r].customer,
                 conversation |-> call[r].conversation,
                 status       |-> "requested",
                 nextStep     |-> "none",
                 context      |-> history[r]]

(* Error: an index that forgot the status an escalation starts with. *)
IndexHoldsQueued(v) ==
  \E e \in Requests : /\ escalations[e] # NoRow
                      /\ escalations[e].conversation = v
                      /\ escalations[e].status = "queued"

(* The partial unique index already holds an entry for conversation v. *)
IndexHolds(v) ==
  \E e \in Requests : /\ escalations[e] # NoRow
                      /\ escalations[e].conversation = v
                      /\ escalations[e].status \in IndexedStatuses

InsertRow(r) == escalations' = [escalations EXCEPT ![r] = Requested(r)]

(* add_requested commits. *)
AddRequested(r) ==
  /\ pc[r] = "insert"
  /\ ~IndexHolds(call[r].conversation)
  /\ InsertRow(r)
  /\ Goto(r, "submit")
  /\ UNCHANGED <<call, log, accepted, known, history, outcome, reply, seen>>

(* Error: the handler returns on a conflict without an answer. *)
ConflictSwallowed(r) ==
  /\ pc[r] = "insert"
  /\ IndexHolds(call[r].conversation)
  /\ Goto(r, "done")
  /\ UNCHANGED <<call, log, escalations, accepted, known, history, outcome, reply, seen>>

(* IntegrityError becomes ActiveEscalationExistsError, a 409. *)
AlreadyActive(r) ==
  /\ pc[r] = "insert"
  /\ IndexHolds(call[r].conversation)
  /\ Answer(r, "already_active")
  /\ UNCHANGED <<call, log, escalations, accepted, known, history, outcome, seen>>

(* Error: a failed insert is logged and the hand-off goes ahead. *)
InsertErrorIgnored(r) ==
  /\ "database" \in Faults
  /\ pc[r] = "insert"
  /\ Goto(r, "submit")
  /\ UNCHANGED <<call, log, escalations, accepted, known, history, outcome, reply, seen>>

(* The database fails under add_requested.  The exception is not an        *)
(* IntegrityError and becomes a 500, whether or not the commit took place. *)
AddRequestedFails(r) ==
  /\ "database" \in Faults
  /\ pc[r] = "insert"
  /\ \/ InsertRow(r) /\ ~IndexHolds(call[r].conversation)
     \/ UNCHANGED escalations
  /\ Answer(r, "server_error")
  /\ UNCHANGED <<call, log, accepted, known, history, outcome, seen>>

ProviderAccepts(r) == accepted' = [accepted EXCEPT ![r] = Requested(r)]

Handed(r, o) ==
  /\ outcome' = [outcome EXCEPT ![r] = o]
  /\ Goto(r, "update")
  /\ UNCHANGED <<call, log, escalations, known, history, reply, seen>>

(* HumanHandoff.submit returns an outcome. *)
HandoffAccepted(r) == pc[r] = "submit" /\ ProviderAccepts(r) /\ Handed(r, "accepted")

HandoffRejected(r) == pc[r] = "submit" /\ UNCHANGED accepted /\ Handed(r, "failed")

(* Error: the failure is reported without being stored. *)
HandoffFailureReported(r) ==
  /\ pc[r] = "submit"
  /\ Answer(r, "failed")
  /\ UNCHANGED <<call, log, escalations, accepted, known, history, outcome, seen>>

(* HandoffUnavailableError: "the handoff provider did not return an        *)
(* accepted or rejected outcome".  The request never reached the provider, *)
(* or the provider accepted it and the answer was lost.                    *)
HandoffUnavailable(r) ==
  /\ pc[r] = "submit"
  /\ \/ UNCHANGED accepted
     \/ ProviderAccepts(r) /\ "lost_answer" \in Faults
  /\ Handed(r, "failed")

(* Any other exception of submit: no except clause names it, so it becomes *)
(* a 500 and the row stays requested.  The provider may have accepted      *)
(* before the exception was raised.                                        *)
HandoffRaises(r) ==
  /\ "provider" \in Faults
  /\ pc[r] = "submit"
  /\ UNCHANGED accepted \/ ProviderAccepts(r)
  /\ Answer(r, "server_error")
  /\ UNCHANGED <<call, log, escalations, known, history, outcome, seen>>

(* The record after requested.transition(target). *)
Result(r) == Transition(Requested(r), Target(outcome[r]))

(* Error: the context is read again when the row is updated. *)
OverwriteRowAndContext(r) ==
  escalations' = [escalations EXCEPT ![r] =
                    [Result(r) EXCEPT !.context = log[call[r].conversation]]]

(* update(result): status and next step of the row found by id are         *)
(* overwritten, whatever they were.                                        *)
OverwriteRow(r) ==
  escalations' = [escalations EXCEPT ![r] =
                    Replace(@, Result(r).status, Result(r).nextStep)]

Update(r) ==
  /\ pc[r] = "update"
  /\ OverwriteRow(r)
  /\ Goto(r, "respond")
  /\ UNCHANGED <<call, log, accepted, known, history, outcome, reply, seen>>

(* Error: a failed update is logged and the POST answered. *)
UpdateErrorIgnored(r) ==
  /\ "database" \in Faults
  /\ pc[r] = "update"
  /\ Goto(r, "respond")
  /\ UNCHANGED <<call, log, escalations, accepted, known, history, outcome, reply, seen>>

(* The database fails under update: a 500, committed or not. *)
UpdateFails(r) ==
  /\ "database" \in Faults
  /\ pc[r] = "update"
  /\ OverwriteRow(r) \/ UNCHANGED escalations
  /\ Answer(r, "server_error")
  /\ UNCHANGED <<call, log, accepted, known, history, outcome, seen>>

(* 201 Created, with the record held in memory. *)
Respond(r) ==
  /\ pc[r] = "respond"
  /\ Answer(r, Result(r).status)
  /\ UNCHANGED <<call, log, escalations, accepted, known, history, outcome, seen>>

(* What the thread that serves the POST may do next. *)
Serve(r) ==
  \/ ReadHistory(r) \/ ConversationNotFound(r) \/ ReadHistoryFails(r)
  \/ AddRequested(r) \/ AlreadyActive(r) \/ AddRequestedFails(r)
  \/ HandoffAccepted(r) \/ HandoffRejected(r) \/ HandoffUnavailable(r) \/ HandoffRaises(r)
  \/ Update(r) \/ UpdateFails(r) \/ Respond(r)

-----------------------------------------------------------------------------
(* The other actors *)

(* Error: a SELECT by id alone. *)
StatusForAnyone(c, e) ==
  IF escalations[e] # NoRow THEN escalations[e].status ELSE "not_found"

(* get_owned: one SELECT by id and customer. *)
StatusFor(c, e) ==
  IF escalations[e] # NoRow /\ escalations[e].customer = c
  THEN escalations[e].status
  ELSE "not_found"

GetEscalation(c, e) ==
  /\ seen' = [seen EXCEPT ![c][e] = StatusFor(c, e)]
  /\ UNCHANGED <<call, log, escalations, accepted, pc, known, history, outcome, reply>>

(* A message request commits its exchange (SqlAlchemyMessageExchangeRepository.add). *)
CommitExchange(v, x) ==
  /\ \A w \in Conversations : x \notin log[w]
  /\ log' = [log EXCEPT ![v] = @ \cup {x}]
  /\ UNCHANGED <<call, escalations, accepted, pc, known, history, outcome, reply, seen>>

(* The server process dies; requests in flight are never answered, and     *)
(* nothing resumes them: create_app starts no recovery.                    *)
Crash ==
  /\ "crash" \in Faults
  /\ \E r \in Requests : pc[r] \in InFlight
  /\ pc' = [r \in Requests |-> IF pc[r] \in InFlight THEN "crashed" ELSE pc[r]]
  /\ UNCHANGED <<call, log, escalations, accepted, known, history, outcome, reply, seen>>

Next ==
  \/ \E r \in Requests : Receive(r) \/ Serve(r)
  \/ \E c \in Watchers, e \in Requests : GetEscalation(c, e)
  \/ \E v \in Conversations, x \in Exchanges : CommitExchange(v, x)
  \/ Crash

Spec == Init /\ [][Next]_vars

(* The thread pool keeps running the handler of a request it accepted, and *)
(* every repository call and hand-off returns or raises.                   *)
FairSpec == Spec /\ \A r \in Requests : WF_vars(Serve(r))
-----------------------------------------------------------------------------
(* Properties *)

(* Every variable stays in its type, and no row breaks the CHECK that a    *)
(* next step accompanies exactly the failed escalations.                   *)
TypeOK ==
  /\ call \in [Requests -> Calls]
  /\ log \in [Conversations -> Context]
  /\ escalations \in [Requests -> Row \cup {NoRow}]
  /\ \A r \in Requests : escalations[r] # NoRow => StoreAccepts(escalations[r])
  /\ accepted \in [Requests -> Row \cup {NoRow}]
  /\ pc \in [Requests -> Stages]
  /\ known \in [Requests -> Context]
  /\ history \in [Requests -> Context]
  /\ outcome \in [Requests -> HandoffOutcomes \cup {"none"}]
  /\ reply \in [Requests -> Settled \cup Errors \cup {"none"}]
  /\ seen \in [Customers -> [Requests -> Statuses \cup {"unasked", "not_found"}]]

Exists(e) == escalations[e] # NoRow

(* A conversation never has two escalations in a status the lifecycle can  *)
(* still leave, however the requests for it interleave: the index names    *)
(* every status that `allowed` does not make terminal.                     *)
OneActivePerConversation ==
  \A d, e \in Requests :
    /\ Exists(d) /\ Exists(e) /\ d # e
    /\ escalations[d].conversation = escalations[e].conversation
    => Allowed[escalations[d].status] = {} \/ Allowed[escalations[e].status] = {}

(* "queued" is stored, answered or read only for an escalation that the    *)
(* provider has accepted (D-031).                                          *)
QueuedOnlyIfAccepted ==
  \A e \in Requests :
    (\/ Exists(e) /\ escalations[e].status = "queued"
     \/ reply[e] = "queued"
     \/ \E c \in Customers : seen[c][e] = "queued") => accepted[e] # NoRow

(* The provider never holds a request the store does not: each accepted    *)
(* escalation has a row of the same customer, conversation and context, so *)
(* no crash or database failure loses a handed-over request.               *)
AcceptedIsDurable ==
  \A e \in Requests :
    accepted[e] # NoRow =>
      /\ Exists(e)
      /\ accepted[e].status = "requested"
      /\ escalations[e].customer = accepted[e].customer
      /\ escalations[e].conversation = accepted[e].conversation
      /\ escalations[e].context = accepted[e].context

(* update() overwrites a row without looking at its status.  The row it    *)
(* finds is there (no RuntimeError "disappeared") and is still the record  *)
(* this request inserted, so the overwrite is the checked transition.      *)
UpdateOverwritesOwnRequest ==
  \A r \in Requests :
    pc[r] \in {"submit", "update"} => /\ escalations[r] = Requested(r)
                                     /\ \A o \in HandoffOutcomes :
                                          CanTransition(escalations[r], Target(o))

(* A 201 carries the status that the store holds from then on.             *)
CreatedIsDurable ==
  \A r \in Requests :
    reply[r] \in Settled => Exists(r) /\ escalations[r].status = reply[r]

(* The frozen context of an escalation holds every exchange committed      *)
(* before the POST arrived, so the customer need not repeat it, and only   *)
(* exchanges of that conversation, which is the customer's own.            *)
ContextIsComplete ==
  \A e \in Requests :
    Exists(e) => LET row == escalations[e] IN
      /\ Owner[row.conversation] = row.customer
      /\ known[e] \subseteq row.context
      /\ row.context \subseteq log[row.conversation]

(* No conversation has two escalations at the provider.  The row of an     *)
(* accepted escalation blocks the next one even when a crash kept it from  *)
(* becoming "queued".  It needs the provider's answers not to be lost.      *)
NoDuplicateHandoff ==
  \A d, e \in Requests :
    /\ accepted[d] # NoRow /\ accepted[e] # NoRow
    /\ accepted[d].conversation = accepted[e].conversation
    => d = e

(* A failed escalation is one the provider does not have.                  *)
FailedMeansNotAccepted ==
  \A e \in Requests :
    Exists(e) /\ escalations[e].status = "failed" => accepted[e] = NoRow

(* Rows are never deleted, the frozen part never changes, and the status   *)
(* takes only transitions the lifecycle allows, whoever writes.            *)
RowAdvances(old, new) ==
  /\ new # NoRow
  /\ new.customer = old.customer /\ new.conversation = old.conversation
  /\ new.context = old.context
  /\ new.status = old.status \/ CanTransition(old, new.status)

EscalationsOnlyAdvance ==
  [][\A e \in Requests : Exists(e) => RowAdvances(escalations[e], escalations'[e])]_vars

(* What a customer reads never goes back: once found an escalation stays   *)
(* found, later answers follow the lifecycle, and the first answer after   *)
(* the 201 of that customer's own request is the status the 201 carried.   *)
Follows(s, t) == s = t \/ t \in Allowed[s]

ReadsFollowLifecycle ==
  [][\A c \in Customers, e \in Requests :
       seen'[c][e] # seen[c][e] =>
         /\ seen[c][e] \in Statuses => /\ seen'[c][e] \in Statuses
                                      /\ Follows(seen[c][e], seen'[c][e])
         /\ reply[e] \in Settled /\ call[e].customer = c =>
              seen'[c][e] = reply[e]]_vars

(* A customer only ever reads escalations of conversations they own.       *)
ReadsArePrivate ==
  \A c \in Customers, e \in Requests :
    seen[c][e] \in Statuses => Owner[call[e].conversation] = c /\ call[e].customer = c

(* Every POST that reached the server is answered, unless the server died. *)
EveryPostAnswered ==
  \A r \in Requests : pc[r] = "read" ~> reply[r] # "none" \/ pc[r] = "crashed"

(* No escalation stays "requested": it reaches a human queue or becomes    *)
(* failed, which lets the customer ask again.                              *)
RequestedIsSettled ==
  \A e \in Requests :
    Exists(e) /\ escalations[e].status = "requested"
      ~> Exists(e) /\ escalations[e].status \in Settled

(* The ways an escalation may be left "requested": a crash, a transaction  *)
(* that failed, or an exception of submit that execute does not catch.     *)
(* The customer saw the last two as a 500; submit left no outcome.         *)
Interrupted(e) ==
  \/ pc[e] = "crashed"
  \/ reply[e] = "server_error" /\ "database" \in Faults
  \/ reply[e] = "server_error" /\ outcome[e] = "none" /\ "provider" \in Faults

(* An escalation is "requested" only while its handler is at work on it or *)
(* after an interruption: no other path through the handler leaves it.     *)
UnsettledHasAReason ==
  \A e \in Requests :
    Exists(e) /\ escalations[e].status = "requested" =>
      pc[e] \in {"submit", "update"} \/ Interrupted(e)

(* An escalation is left "requested" only by a crash of the server, a      *)
(* failing transaction or an uncaught exception of submit, both answered   *)
(* with a 500; every outcome of the provider, and HandoffUnavailableError, *)
(* settle it, whoever polls meanwhile.                                     *)
SettledUnlessInterrupted ==
  \A e \in Requests :
    Exists(e) /\ escalations[e].status = "requested"
      ~> (Exists(e) /\ escalations[e].status \in Settled) \/ Interrupted(e)

-----------------------------------------------------------------------------
(* The desk this service implements: tickets are rows, a ticket is held    *)
(* when the provider accepted it, a 201 tells its status and any other     *)
(* answer refuses.                                                         *)
TicketOf(e) == IF Exists(e) THEN escalations[e].status ELSE "none"

ToldOf(r) == CASE reply[r] = "none"     -> "nothing"
               [] reply[r] \in Settled -> reply[r]
               [] OTHER                 -> "refused"

Desk == INSTANCE EscalationDesk WITH
          Tickets <- Requests,
          about   <- [r \in Requests |-> call[r].conversation],
          ticket  <- [r \in Requests |-> TicketOf(r)],
          held    <- {r \in Requests : accepted[r] # NoRow},
          told    <- [r \in Requests |-> ToldOf(r)]

(* Unless answers of the provider are lost, every behaviour of the service *)
(* (crashes and database failures included) is one of the desk.            *)
ImplementsDesk == Desk!DeskSpec
=============================================================================
