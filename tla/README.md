# Formal specification of the telecom support agent

TLA+ models of the support agent under `src/src/telecom_agent`, TLC
configurations that check them on small instances, and proofs, checked by TLAPS,
of the properties that matter most for every size of the system. Every
definition is translated from the Python source; `PROJECT.json` gives the lines
each one stands for, and which run checks which property.

## 1. The system

A FastAPI server lets a mobile operator's customer hold conversations with a
support agent. The routes are synchronous functions run by a thread pool, the
store is PostgreSQL, the session is the default READ COMMITTED. Nothing is shared
in memory: requests interact through the tables, through the unique indexes and
through the outside services.

| component (source) | state it keeps | operations | what makes it correct | status |
|---|---|---|---|---|
| Escalation lifecycle (`domain/escalations.py`) | status and next step of a record | `transition` | only allowed transitions; a next step exactly for failed | modelled |
| Creating an escalation (`services/create_escalation.py`, `ports/escalations.py`) | locals of a request; rows of `escalations` | read the history, insert, hand off, update, answer | one active escalation per conversation; `queued` only if a human has it; nothing handed over is lost or handed over twice; every request is settled | modelled |
| Reading an escalation (`services/get_escalation.py`) | none | one owned SELECT | private; never goes back; agrees with the 201 | modelled |
| Human-handoff provider (`adapters/escalation_mock`) | its ledger (external) | `submit` | accepted, rejected, no answer, or any exception | the port's contract |
| Answering a message (`services/send_support_message.py`) | locals of a request | own, route, read sources, compare, explain, generate, compose, store | grounded answers agree with stored evidence; nothing is claimed without; one answer per question | modelled |
| Router and guard (same file) | none | keyword rules in a fixed order; check of the model's text | each question meets the check it needs; a text states the plan's values and no other number | modelled |
| Bill, charge and comparison checks (same file, `domain/bills.py`, `charges.py`, `comparisons.py`, `plans.py`) | none | pure checks | what passes is consistent and can be stored | modelled |
| Model adapter (`adapters/sambanova`) | none | one call, one retry | at most two calls; failure gives an unavailable answer | modelled |
| Operator data (`adapters/kddi_mock`) | plans, bills, usage records, catalog (external) | reads | none: the data may change between two reads | the ports' contract; the mocks' records |
| Message and evidence store (`adapters/postgres/repositories.py`, `models.py`) | conversations, messages, four snapshot and four evidence tables | `add`, `is_owned_by`, `get_history` | an exchange is stored whole or not at all | modelled |
| Conversation history (`services/get_conversation_history.py`) | none | six SELECTs | never torn, complete, private | modelled |
| Creating a conversation (`services/create_conversation.py`) | `conversations` | one insert with a fresh id | its customer exists | modelled |
| Migrations (`migrations/`) | the schema, `alembic_version` | upgrade, downgrade | apply from any revision to any other; leave a revision behind when killed; orphan no row | modelled, except columns |
| Seeding (`adapters/postgres/seeding.py`, `development.py`) | customers | look up a token, insert | one customer per token; the printed token works | modelled |
| HTTP layer, authentication, health (`api/`, `adapters/postgres/health.py`) | pooled connections | routes, error answers, token lookup, `SELECT 1` | no 500 without a cause | errors, tokens and connections; not the schemas of bodies |
| Command line (`cli.py`) | server process | `seed`, `serve` | see seeding | modelled |
| Evaluation gates (`evaluation/`) | a graded suite | score fixed cases | a build that lost a probed check is refused | modelled, except the report |

How they interact: `CreateEscalation` calls `get_history` (as does the history
route), the escalation repository and the provider; `SendSupportMessage` calls
the conversation and exchange repositories, the data providers and the model.
A message request changes what a concurrent escalation request freezes, and what
a concurrent history request lists. The operator's commands (`alembic`, `seed`,
`serve`) act on the same database, and the gates run the service with fakes.

What is hard here: other requests between the transactions of a request; a
server that dies, or a transaction that fails before or after its commit, between
steps that belong together; a provider whose answer is lost; sources and clock
that change between reads; statements of one READ COMMITTED transaction that see
different commits; constraints that fail only when everything is stored; migrations, seeds and
outages beside a running server.
`PROJECT.json` lists each such hazard with its line and the properties for it.

## 2. The modules

**EscalationLifecycle** - statuses, `Allowed` (the table in
`Escalation.transition`), `Transition`, `Target` (status of a hand-off outcome),
the statuses of the partial unique index and the CHECK on the next step.

**CreateEscalation** - `pc[r]` is the place of a request in
`CreateEscalationService.execute`: `read` (`get_history`), `insert`
(`add_requested`), `submit` (the provider), `update`, `respond`. One action per
outcome of each call: `ReadHistory`/`ConversationNotFound`,
`AddRequested`/`AlreadyActive`/`AddRequestedFails`,
`HandoffAccepted`/`HandoffRejected`/`HandoffUnavailable`/`HandoffRaises`,
`Update`/`UpdateFails`; `ReadHistoryFails` is a failing read.
`GetEscalation` is a poll, `CommitExchange` a message request's commit, `Crash`
the death of the process. `escalations` is the table (`NoRow` where there is none), `accepted` the
provider's ledger, `log` the messages; `known` and `seen` are history variables
for properties. A transaction that fails may or may not have committed. An escalation
is interrupted in three ways (`Interrupted`): by a crash, by a failed transaction, and by
an exception of `submit` other than `HandoffUnavailableError`, which alone is caught; the
provider may hold the request or not when it raises (`HandoffRaises`).

**EscalationDesk** - what escalation promises, without requests or threads.
`CreateEscalation` implements it: a ticket is a row, it is held when the
provider has it, a 201 tells the outcome, any other answer refuses. That a conversation
has one active ticket is the guard of `Open`; what keeps the code's rows so is checked in
`CreateEscalation` (`OneActivePerConversation`).

**SendSupportMessage** - `pc[r]` is the place in
`SendSupportMessageService.execute`. Each source read, each clock reading that
matters, each model attempt and the transaction is a step. `source` is what the
operator's systems publish and `Publish` changes it; `Midnight` moves the
clock. The router finds the intent of the question's words, and the model
writes any of `Texts`, which the guard lets pass or not. The exchange is stored by `CommitExchange`; `StoreRejects` is a violated
constraint or a value its column cannot hold, `StoreFails` a failing database,
`HandlerRaises` a read, a source or a model call that raises. **BillingEvidence** and
**PlanComparison** hold the pure checks, and the CHECK constraints and column sizes of
their snapshots; **Currency** what they share: codes of at most 64 characters
(`LongCodes` are longer), versions of at most 128 (`LongVersions`), amounts below 10^10
(`MoneyLimit`) and counts below 2^31 (`CountLimit`). Each check is a record of named parts,
so that a build can be described by the parts it has lost.

What it stores and answers is also a log of whole exchanges: with every message
request as a writer, and no reader, it implements **ConversationLog** (below).

**IntentRouting** - a question is a sequence of folded words, and the intent is
that of the first keyword rule that applies. Some rules look for a word, others
for a phrase anywhere in the joined text, which `Endings` and `Beginnings` allow
to be a part of longer words.

**GroundingGuard** - a text is a sequence of tokens with letters and at most one
number. It must state the four values of the plan and may have no number more often
than they do. A value is stated as a substring: `TokenEndings` and `TokenBeginnings` allow it
to begin and end inside longer tokens, as "20 GB" in "20 GBs".

**ConversationHistory** - `get_history`, one step per SELECT, while message
requests date, commit and answer exchanges. `links` is the four evidence tables;
`due` and `after` are history variables. **ConversationLog** is what it should
look like: a log that grows by whole exchanges, and readers who each get what it
held at one moment. `SendSupportMessage` implements its writers, over the rows its
transaction really inserts, and `ConversationHistory` its readers. `CreateEscalation` takes
`get_history` for one step; that it implements the log is why it may.

**SchemaMigrations** - the objects that each of the six revisions creates and
drops, in order. A command runs the statements of every revision on its way
in one transaction: on a `draft` of the schema, which replaces the committed one at
the end. `CanCreate` and `CanDrop` say what PostgreSQL accepts, `Locked` which
tables others wait for.

**Deployment** - operator and customers around one database: migrations (also
killed ones), outages with stale pooled connections, any number of seeds,
a server that starts and stops, and requests with a bearer token. The operations
that the modules above take apart are single transactions here, with every
table they read or write (`Tables`: snapshots, line items, offers and links, the
escalations, and what their foreign keys name); authentication, the read before the
write, and the write are separate. `seeded[s].at` is the place of a seed: `looked` in its
transaction, `found` or `inserted` when it has ended, `existing` or `created` when the
token is printed, so a downgrade may come between commit and print. A stopped server forgets its requests and their connections.

The first statement that meets a cut-off connection makes the pool drop them all
(`UsePool`); requests that had taken one by then fail as well (`cut`), and `owed` says
that the last outage has not cost this yet. Replies name a failure by its cause:
`server_error`, `unavailable` (a 503 of `/health`) and `falsely_active` (the 409 of
`add_requested`, which takes a foreign key's IntegrityError for the unique index's) are those of a
missing table, row or connection; `raised` is a 500 of the service's own making, which
`CreateEscalation` and `SendSupportMessage` explain.

**EvaluationGates** - `mvp.py` and `current_plan.py` as one state machine: grade
the cases one after the other, then report and exit. The build under test is the
service of the modules above without some of its parts: a check, a keyword, a
phrase of an answer, a step of a service. **SyntheticData** has the records of
the mocks and fakes. `MCEvaluation` has the 45 and 16 cases of `evals/cases`. What these
have in common (each question has the route its grader expects; one whose right answer is a refusal
has no word that another rule of a service without data looks for; no case expects what the
service does not do) is stated as assumptions on the two suites.

`MC...` modules hold the constants of the runs. `...Proofs` and `...Refinement`
hold the theorems.

Operators whose comment begins with *Error:* are not part of a specification.
Each is a definition with a plausible fault, kept next to the right one:
substituting it makes TLC report the property listed for it in `PROJECT.json`,
which shows the property depends on the code and is not true of everything.

### What the models leave out

- Wording of the service's own answers, reasons and names, except the phrases that
  the gates look for. A text is words or tokens, not characters.
- Identifiers. A request creates at most one escalation or exchange, so its
  uuid4s are the request (and the snapshot kind).
- Time. Escalation dates are left out; days matter in SendSupportMessage, dates
  of messages in ConversationHistory. The clock does not go back. The order of
  two messages with the same date is left out (the code orders them by random
  id).
- Money is in whole units: an amount can be too large for `Numeric(12, 2)`, but
  rounding to two places, which happens in the driver and the database, is left out; the
  providers that exist publish whole amounts. So is a NUL character, which PostgreSQL
  refuses in any text.
- Columns in the migrations. CHECKs are in the modules of their tables; keys in
  `Deployment`.
- The status of an escalation in `Deployment`, whose rows have an id, a conversation and
  a customer: whether one is still active is `CreateEscalation`'s to say.
- Schemas of requests and responses, except that invalid bodies are refused; the
  format of the evaluation reports.

## 3. Runs

| run | instance | question | properties |
|---|---|---|---|
| `desk` | 4 tickets, 2 conversations | Are the desk's promises consistent? | `HeldOnce`, `ToldTheTruth` |
| `escalation_safety` | 3 POSTs, 2 customers, 2 conversations, 1 message; crashes, failing transactions, a provider that raises | Do rows, provider and answers agree? Is it the desk? | `TypeOK`, `OneActivePerConversation`, `AcceptedIsDurable`, `UpdateOverwritesOwnRequest`, `CreatedIsDurable`, `ContextIsComplete`, `NoDuplicateHandoff`, `EscalationsOnlyAdvance`, `ImplementsDesk` |
| `escalation_reads` | 2 POSTs, both customers poll; every fault; fair | Are polls private, monotonic and true? Is every POST answered, and settled unless interrupted? | `ReadsArePrivate`, `QueuedOnlyIfAccepted`, `ReadsFollowLifecycle`, `EveryPostAnswered`, `SettledUnlessInterrupted` |
| `escalation_stuck` (violated) | 2 POSTs; crashes, failing transactions, a provider that raises; fair | Does an escalation always leave `requested`? | `RequestedIsSettled` |
| `escalation_false_failure` (violated) | 2 POSTs; lost answers | Does `failed` mean no human has it? | `FailedMeansNotAccepted` |
| `message_sources` | 1 POST, every intent, 3 changes of the sources, 4 days | Does every answer, a generated text included, agree with its evidence? Does the store accept what was checked and fits? | `TypeOK`, `GroundedIsEvidenced`, `PlanTextMatchesSnapshot`, `UngroundedClaimsNothing`, `OnlyUncheckedDataIsLost`, `ModelCallsAreBounded` |
| `message_concurrent` | 2 POSTs, 2 customers; crashes, failing transactions, sources that raise; fair | Are exchanges whole, and as answered? Are they a log of their owners' questions? Is every POST answered? | `ExchangeIsWhole`, `ReplyMatchesStore`, `ImplementsLog`, `EveryPostAnswered` |
| `message_lost_question` (violated) | 1 POST, 1 change | Is conflicting evidence always flagged? | `ConflictingEvidenceIsFlagged` |
| `history` | 2 GETs, 2 exchanges, 2 dates | Is a history whole, complete, private? Is it the log? | `TypeOK`, `HistoryIsWhole`, `AnsweredIsShown`, `HistoryIsPrivate`, `NewQuestionsComeLast`, `ImplementsLog` |
| `deployment` | revisions 0, 5 and 6 as targets, 2 seeds, 2 customers, 1 server thread, 1 conversation, 1 escalation; kills, outages | Do migrations apply and leave a revision behind? Are rows owned, seeds truthful, requests served? | `MigrationsApply`, `SchemaIsARevision`, `NoOrphans`, `ServedAtLatest`, `SeededTokenIsKnown` |
| `evaluation` | 45 and 16 cases, every build that has lost at most two parts; live texts | Which losses does a gate catch, and what does a released build still route? | `GateDecidesRight`, `ReleasedBuildsRoute` |
| `evaluation_exit_code` (violated) | the same | Does exit code 1 mean a graded gate? | `ExitOneMeansCompleted` |

Why the bounds are enough. Requests interact through a conversation: two
requests of one conversation and a third of another, or of somebody else's, show
every pairing, and three show a conversation blocked, freed and taken again. One
exchange suffices for a context that misses it or holds it. In `message_sources`
two changes fall between two reads and one is left for before or after; four days let
a catalog become too old between check, snapshot and answer with `MaxAge = 1`
(30 in the code: only the distance counts). The sample data has one
value for each way to pass or fail a check and a CHECK constraint, and one bill, usage record
and catalog that pass every check and have an amount, a code or a version that does not fit. TLC's integers
end at 2^31 and its sample amounts are small, so the run's `MoneyLimit` is lower than
10^10: nothing compares an amount with it but the columns. In `history` one exchange
cites two tables, which is what a torn read needs. In `deployment` the targets lead through every
revision in both directions; 5 is the last one before the evidence of comparisons,
so one kind of question fails on it and another works. Two seeds are what the race
for a token needs. One thread is enough to meet a migration or an outage between the
transactions of a request; requests that meet each other are the subject of the
other runs, and the proofs about `Deployment` have any number of threads. Two losses
in `evaluation` show which checks stand in for each other; for builds that have lost more, what a
gate decides and what a released build still routes is proved. `MaxChanges`, `LastDay` and
`LastDate` are the only counters' bounds. Where a run sets `CHECK_DEADLOCK
FALSE` the system really stops: every request is answered and the environment
has used its bound. Symmetry is used for safety runs only, on sets that no other constant tells apart.

Fairness. `FairSpec` has weak fairness of `Serve(r)` for each request: the thread
pool goes on with a handler it has started, and each repository, provider and
model call returns or raises (the model call has a 30 s timeout). Nothing makes a
request arrive, a source change, a fault happen or a customer poll. Under it,
`EveryPostAnswered` holds unless the server dies, with `pc[r] = "crashed"` as the
only excuse, and `SettledUnlessInterrupted` names the three interruptions that leave
an escalation `requested`; `escalation_stuck` shows that one of them does. The other runs
check safety and need no fairness.

## 4. What is proved

TLAPS checks these for any number of requests, customers, conversations, exchanges
and readers, and any set of faults. Assumptions are the named `ASSUME`s
of the models: constants have their types, `NoRow` is no row, `Nothing` is no set of entries,
line items are numbered by naturals (`BillAssumption`).

**CreateEscalationProofs** - every safety property of `CreateEscalation` that the
passing runs check. None is inductive
alone. The inductive invariant `IInv` has five parts beside the types:
`StageInv` says what rows, ledger and answer a request at each `pc` has;
`RowInv` ties each row to its request, its frozen copy and the provider;
`LogInv` says copies are older than the conversation; `IndexInv` is
the uniqueness the index enforces; `SeenInv` what a poll proves. It is needed
because, for instance, `QueuedOnlyIfAccepted` depends on the outcome a handler
holds at `update`, and `UpdateOverwritesOwnRequest` on no other handler having
this request's id. `NoDuplicateHandoff` is proved under the condition that
no answer of the provider is lost; the run `escalation_false_failure` shows
what happens otherwise. `ReadsFollowLifecycle` needs one more part: what a customer has read
is the row's status or one it was allowed to advance from (`FollowInv`), which every
step of a row keeps (`RowsAdvance`). `SettledUnlessInterrupted` is liveness, but it has a
safety half that needs no fairness: a row that is still `requested` has a handler at
work on it, or one that was interrupted (`UnsettledHasAReason`): by a crash, by a failed
transaction, or by an exception of the provider before its outcome is known.

**EscalationDeskProofs** - the desk's promises (`DeskHeldOnce`, `DeskTruth`). **CreateEscalationRefinement** -
every step of the service is a step of the desk or a stutter, if no provider answer
is lost; hence `CustomersHearTheTruth`.

**ConversationHistoryProofs** - `HistoryIsWhole`, `AnsweredIsShown`,
`HistoryIsPrivate`, `NewQuestionsComeLast`. The argument: a message is committed
with all its evidence and neither changes afterwards (`StoreInv`), a GET reads
messages first, so whatever it lists has all its evidence committed
when the tables are read (`ReadInv`, indexed by the tables read so far), and dates
come from a clock that does not go back (`DateInv`, `AfterInv`).
Hence a history is what the log held when the messages were
read: `ImplementsLog` (`LogRefinement`).

**SendSupportMessageProofs** - every safety property of `SendSupportMessage` in the
passing runs. `IInv` has the types, `LocalInv` and `StoreInv`. `LocalInv` says what a
request at each `pc` has read, checked and asked the model (`StageInv`), and that
its composed answer cites what passed the check (`AnswerInv`). `StoreInv` says that each
stored message, snapshot and link is that of a request that got so far
(`MessageInv`, `SnapshotInv`, `LinkInv`) and that a reply was stored (`ToldInv`). It is
needed because `GroundedIsEvidenced` compares rows with each other, while the code
checks values it has in hand and copies them later; the sources may have changed
by then. Router and guard are not unfolded anywhere: no result depends on which keywords
there are. The checks are, in one place: `CheckedAnswersThatFitAreStored`
proves that what passes the checks of bill, charge and comparison satisfies the CHECK constraints of
its snapshots, so that a violated constraint can cost an answer only when its evidence
was not checked at all (`OnlyUncheckedDataIsLost`; finding 3 is that case). It does not say
that what passes is stored: no check knows the size of a column, so a code, a version, an
amount or an allowance that does not fit costs a checked answer too, and the property names
that. It needs that the first
roaming item exists and is among the items (`LeastNatural`, `RoamingItemIsBilled`).
`LogRefinement` proves `ImplementsLog`: the commit of an exchange with all its evidence is
one step of the log, and every other step, crashes and failed transactions included,
leaves the log alone. `PrivateStore` adds that what is stored belongs to the owner of its
conversation.

**DeploymentProofs** - `NoOrphans` and `SeededTokenIsKnown` (`SeedsTellTheTruth`). The schema and its draft
are closed under foreign keys (`SchemaInv`), because PostgreSQL refuses other
statements; so what a migration drops takes every row that refers to it along. A seed between
its SELECT and its INSERT holds a lock that keeps the customers' table from being dropped,
and one whose transaction has ended is overtaken by such a drop or its customer is there. This
part does not use what the revisions create or drop. The part about migrations does
(`SchemaMigrationsProofs`): the draft of a command is at every moment the objects of the
revision it has reached, plus or minus those of the statements already run of the one it is on
(`DraftInv`, for which the six lists are unfolded and each statement is shown to be accepted
where it stands). Hence `MigrationsNeverFail` and `SchemaFitsItsRevision`, from and to any
revisions and killed at any statement. `NoFailureAtLatest` proves `ServedAtLatest`: a request
that nothing has disturbed works on the latest schema, which has every table it uses, with
no migration running and a connection that is not cut off, and what its earlier transactions
found or inserted is still there (`UndisturbedInv`), so that no table, row or connection is
missing to it (`ServiceInv`). It says nothing of the 500s that the service makes itself (finding 3).

**EvaluationGatesProofs** - `ReleasedBuildsRoute` and `GateDecidesRight`, for builds that have
lost any number of parts and suites of any length. `GradedInv` says that a case that has passed
can pass in this build, that another graded one can fail, and what an exit code says about the
count. The work is in the cases.

- Routing: `AnswerTo` a question depends on the route it takes, each route cites
  other evidence or says other phrases, so that a passed case was routed to the answer
  its grader expects (`BillRouted` to `PlanRouted`). A refusal cites nothing; there the
  words decide that no other rule matches (`RuleWords`, `RefusalAssumption`). One pair cannot be
  told apart, a comparison without plan data and a plan question, but such a build dies of the
  fake generator on the same question in another case and is not released.
- What is released: a safety case passed, so its bad record or text was refused by what the build
  has left of the checks. `BillKept`, `ChargeKept`, `ComparisonKept` and `OutputKept` say
  by which: for each probed check there is a case that no other check refuses. A phrase that
  passed answers must say is not lost (`SaidIsKept`, `MvpPassed`, `PlanPassed`).
- What is refused: with every probed part and keyword, each case's answer is the one its grader
  expects, and none reaches a generator that must not be called (`MvpPasses`, `PlanPasses`). Only
  the trimming of a reason is unprobed and can fail a case, a routine one, of which
  four in five must pass (`FourInFive`, `RefusedForCause`).

What the suites need for this are `CasesAssumption`, `NoDataAssumption`, `QuestionAssumption`,
`RefusalAssumption`, `ProbesAssumption` (each probe has its case) and `ExpectationsAssumption` (no
case expects what the whole service does not do); TLC evaluates them on `evals/cases`. `DateAssumption`
keeps the date of the synthetic plan from hiding at the end of another of its tokens. `LimitsAssumption` is
about constants of the service: the synthetic catalog has the three offers it asks for and is
neither too old nor, in the stale case, too new. The records themselves (`SyntheticData`) are
unfolded.

Only model-checked: liveness (`EveryPostAnswered`, `SettledUnlessInterrupted`), because the prover
has no ENABLED. What a running total computes on data of every length is beyond the
prover, which has no induction over data: `ItemTotals` and `AllowedOfFour` do it for four
numbers, as many as the synthetic bill has items and a plan has facts. The models contain no
recursive operators.

## 5. Findings

1. *An escalation can stay `requested` for ever* (`escalation_stuck`). Insert,
   hand-off and update are separate steps, only `HandoffUnavailableError` is caught, and
   nothing resumes an interrupted one. The customer has no id, and each further request gets
   `409 escalation_already_active`. `docs/PRODUCT.md:114` promises never to
   silently lose a request.
2. *`failed` can be false* (`escalation_false_failure`). A hand-off accepted
   without an answer is recorded as failed; the index is freed and the
   conversation can be handed over twice (`docs/DECISIONS.md`, D-032).
3. *Conflicting evidence can cost the answer* (`message_lost_question`). Only
   evidence that agrees with the bill has been checked; a conflicting record that
   breaks a CHECK (a negative amount) fails the transaction, so the question is
   lost with a 500 and not flagged (`docs/ARCHITECTURE.md:71`).
4. *Exit code 1 without a graded gate* (`evaluation_exit_code`). A build that sends
   a question to the current plan in a case whose generator must not be called dies
   of the fake's `AssertionError`: the exit code is that of a failed gate, but no
   later case was graded and nothing was reported (`evals/README.md:20-21`).

`evaluation` also shows what a released build may have lost without a gate failing:
the checks for negative amounts, for empty bills and for one of a repeated offer's code and
name are hidden behind others, the duplicate and cross-customer cases
are answered by their fakes, and one routine question in five may be misrouted.

`message_sources` shows that even checked evidence can cost the answer, when a code, a
version or an amount is larger than its column: no check knows the sizes.

What holds under every fault is in section 4: a crash never loses a handed-over
request, the row of an interrupted one prevents a second hand-over, and no
history is torn although it is read by six statements.

## 6. Not modelled, and what remains

Hazards that no property covers, each with its reason in `PROJECT.json`: messages with
equal dates, rounding to `Numeric(12, 2)`, a downgrade from 06 to 05 that takes
the evidence of comparisons and leaves their answers grounded (which `Deployment` shows:
it claims `evidence \subseteq answers` and not the reverse), `/health` saying
`ok` on any schema, and repeated POSTs without an idempotency key.

What a larger project would add:

1. The escalation and message services over one store (`CreateEscalation` and
   `SendSupportMessage` with shared tables), so that a frozen context is stated in
   messages and evidence. `CreateEscalation` has the commits of exchanges as an
   action, and `ImplementsLog` justifies reading the history in one step.
2. A retrying client: a POST repeated after a lost 201 is answered twice, or with
   a 409 that has no id.
3. The status of escalations in `Deployment`, with the index that a downgrade drops.
4. Rounding: a reconciled bill whose stored copy is not.
