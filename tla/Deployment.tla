----------------------------- MODULE Deployment -----------------------------
(***************************************************************************)
(* What an operator and the customers do around one database: migrate it,  *)
(* seed a development customer, start and stop the server, and call it     *)
(* with a bearer token.  The operations that the other modules take apart  *)
(* (an answered question, a history) are single transactions here; each    *)
(* needs its tables, and waits for those a migration has locked.           *)
(***************************************************************************)
EXTENDS SchemaMigrations

CONSTANTS
  Ids, Tokens,   \* customers and bearer tokens
  Seeds,         \* runs of `telecom-agent seed`
  Requests,      \* threads of the server, each with one request at a time
  Conversations, \* ids of conversations; more are not created
  Escalations,   \* ids of escalations; more are not created
  Kinds          \* kinds of grounded answers

(* The table of links and the tables of snapshots of each kind of evidence. *)
EvidenceTable == [plan       |-> "message_plan_evidence",
                  bill       |-> "message_bill_evidence",
                  charge     |-> "message_charge_evidence",
                  comparison |-> "message_plan_comparison_evidence"]

SnapshotTables == [plan       |-> {"plan_snapshots"},
                   bill       |-> {"bill_snapshots", "bill_line_items"},
                   charge     |-> {"charge_evidence_snapshots"},
                   comparison |-> {"plan_comparison_snapshots", "plan_comparison_offers"}]

ASSUME DistinctAssumption == "none" \notin Ids
ASSUME KindAssumption == Kinds \subseteq DOMAIN EvidenceTable

VARIABLES
  database,       \* whether PostgreSQL can be reached
  server,         \* whether the server process runs
  pool,           \* the server's pooled connections: none, good or cut off
  cut,            \* requests that had taken a cut-off connection when one failed
  customers,      \* synthetic_customers: id and token (hashed in the code)
  conversations,  \* conversations: id and customer
  answers,        \* assistant messages: their conversation and kind
  evidence,       \* evidence links with their snapshots
  escalations,    \* escalations: id, conversation and customer
  seeded,         \* the id and token each seed run brings, and how far it is
  ask,            \* each request: kind, token and what it is about
  pc, who,        \* where it is, and the customer it was authenticated as
  opened,         \* the escalation it has inserted
  reply,          \* its HTTP answer; failures are named by their cause
  (* What happened, which no step of the system looks at: *)
  disturbed,      \* requests that met another revision, a migration or an outage
  owed,           \* the last outage has not yet cost a request its connection
  overtaken       \* seeds whose customers a downgrade has dropped since

requestVars == <<ask, pc, who, opened, reply, disturbed>>
rowVars == <<customers, conversations, answers, evidence, escalations>>
serverVars == <<server, pool, cut, owed>>
seedVars == <<seeded, overtaken>>
vars == <<schemaVars, rowVars, requestVars, database, serverVars, seedVars>>

Calls == {"open", "history", "health", "invalid", "escalate", "status"} \cup Kinds

(* What an answer cites: an explained charge cites the bill as well. *)
EvidenceOf(kind) == IF kind = "charge" THEN {"bill", "charge"} ELSE {kind}

(* The tables of each operation behind authentication, of those with more  *)
(* than one transaction in the one that writes.                            *)
Tables(call) ==
  CASE call = "open"     -> {"conversations", "synthetic_customers"}
    [] call = "history"  -> {"conversations", "messages"}
                              \cup {EvidenceTable[k] : k \in DOMAIN EvidenceTable}
    [] call = "escalate" -> {"escalations", "conversations", "synthetic_customers"}
    [] call = "status"   -> {"escalations"}
    [] call \in Kinds    -> {"messages", "conversations", "synthetic_customers"}
                              \cup UNION {SnapshotTables[k] \cup {EvidenceTable[k]} :
                                            k \in EvidenceOf(call)}
    [] OTHER             -> {}

(* get_history looks for evidence only if there are messages. *)
HistoryTables(v) ==
  IF \E a \in answers : a.conversation = v THEN Tables("history")
  ELSE {"conversations", "messages"}

NoSeed == [id |-> "none", token |-> "none", at |-> "idle"]
NoCall == [call |-> "none", token |-> "none", about |-> "none"]

Init ==
  /\ SchemaInit
  /\ database = "up" /\ server = "stopped" /\ pool = "empty"
  /\ customers = {} /\ conversations = {} /\ answers = {} /\ evidence = {}
  /\ escalations = {}
  /\ seeded = [s \in Seeds |-> NoSeed]
  /\ ask = [r \in Requests |-> NoCall]
  /\ pc = [r \in Requests |-> "idle"]
  /\ who = [r \in Requests |-> "none"]
  /\ opened = [r \in Requests |-> "none"]
  /\ reply = [r \in Requests |-> "none"]
  /\ cut = {} /\ disturbed = {} /\ overtaken = {} /\ owed = FALSE

InFlight == {r \in Requests : pc[r] # "idle"}

(* A statement runs against the committed schema, after the migration that *)
(* locks one of its tables.                                                *)
Reaches(tables) == tables \cap Locked = {}

Works(tables) == database = "up" /\ tables \subseteq schema

(* A statement of the server takes a pooled connection without trying it   *)
(* first; one that an outage cut off fails.                                *)
Connected(r) == database = "up" /\ pool # "stale" /\ r \notin cut

(* The first failure makes the pool forget all its connections; requests   *)
(* that had taken one at that moment fail as well.                         *)
UsePool(r) ==
  /\ pool' = IF Connected(r) THEN "good" ELSE "empty"
  /\ \E others \in SUBSET (IF pool = "stale" THEN InFlight \ {r} ELSE {}) :
       /\ cut' = (cut \ {r}) \cup others
       /\ disturbed' = IF pool = "stale" /\ owed
                       THEN disturbed \cup {r} \cup others ELSE disturbed
  /\ owed' = (owed /\ pool # "stale")

ServerWorks(r, tables) == Connected(r) /\ tables \subseteq schema

-----------------------------------------------------------------------------
(* Migrations and outages *)

Disturb == disturbed' = disturbed \cup InFlight

Migrate ==
  /\ database = "up"
  /\ \E target \in Targets : StartMigration(target)
  /\ Disturb
  /\ UNCHANGED <<rowVars, ask, pc, who, opened, reply, database, serverVars, seedVars>>

(* DROP TABLE locks what its foreign keys name as well, so it waits for a  *)
(* seed that has read the customers in its transaction.                    *)
DropWaits ==
  /\ job.at > job.target
  /\ job.statement < Len(Statements)
  /\ LET object == Statements[job.statement + 1]
     IN  "synthetic_customers" \in {object} \cup References(object)
  /\ \E s \in Seeds : seeded[s].at = "looked"

MigrationStep ==
  /\ \/ job.running /\ ~DropWaits /\ RunStatement
     \/ NextRevision
  /\ UNCHANGED <<rowVars, requestVars, database, serverVars, seedVars>>

(* Seeds whose transaction has ended with a customer for their token. *)
Past == {s \in Seeds : seeded[s].at \in {"found", "inserted", "existing", "created"}}

(* The rows of a dropped table go with it. *)
FinishMigration ==
  /\ CommitMigration
  /\ customers' = IF "synthetic_customers" \in draft THEN customers ELSE {}
  /\ conversations' = IF "conversations" \in draft THEN conversations ELSE {}
  /\ answers' = IF "messages" \in draft THEN answers ELSE {}
  /\ evidence' = {e \in evidence : EvidenceTable[e.kind] \in draft}
  /\ escalations' = IF "escalations" \in draft THEN escalations ELSE {}
  /\ overtaken' = IF "synthetic_customers" \in draft THEN overtaken
                  ELSE overtaken \cup Past
  /\ UNCHANGED <<requestVars, database, serverVars, seeded>>

KillMigration ==
  /\ InterruptMigration
  /\ UNCHANGED <<rowVars, requestVars, database, serverVars, seedVars>>

(* PostgreSQL goes away: open transactions are rolled back. *)
Outage ==
  /\ database = "up"
  /\ database' = "down"
  /\ Rollback /\ UNCHANGED applied
  /\ seeded' = [s \in Seeds |-> IF seeded[s].at = "looked"
                                THEN [NoSeed EXCEPT !.at = "error"] ELSE seeded[s]]
  /\ pool' = IF pool = "good" THEN "stale" ELSE pool
  /\ owed' = (pool # "empty")
  /\ Disturb
  /\ UNCHANGED <<rowVars, ask, pc, who, opened, reply, server, cut, overtaken>>

Recovery ==
  /\ database = "down"
  /\ database' = "up"
  /\ UNCHANGED <<schemaVars, rowVars, requestVars, serverVars, seedVars>>

-----------------------------------------------------------------------------
(* The command line *)

Ends(s, outcome) == seeded' = [seeded EXCEPT ![s] = [NoSeed EXCEPT !.at = outcome]]

Reached(s, stage) == seeded' = [seeded EXCEPT ![s].at = stage]

(* The SELECT of a seed, its first step that is seen outside.  A customer  *)
(* it finds ends the transaction, and the id it brought is not used.       *)
Look(s, Known(_, _)) ==
  /\ seeded[s].at = "idle"
  /\ Reaches({"synthetic_customers"})
  /\ \E id \in Ids, token \in Tokens :
       seeded' = [seeded EXCEPT ![s] =
         IF ~Works({"synthetic_customers"}) THEN [NoSeed EXCEPT !.at = "error"]
         ELSE IF Known(id, token) THEN [id |-> "none", token |-> token, at |-> "found"]
         ELSE [id |-> id, token |-> token, at |-> "looked"]]
  /\ UNCHANGED <<schemaVars, rowVars, requestVars, database, serverVars, overtaken>>

KnownById(id, token) == \E c \in customers : c.id = id
KnownByToken(id, token) == \E c \in customers : c.token = token

(* Error: the customer is looked up by id. *)
LookForId(s) == Look(s, KnownById)

(* seed_synthetic_customer.  Without DATABASE_URL, which ends the command  *)
(* with exit code 2, nothing is looked up.                                 *)
LookForToken(s) == Look(s, KnownByToken)

(* The INSERT and its commit; IntegrityError if the token has appeared     *)
(* since, or if the id has another token.                                  *)
InsertCustomer(s) ==
  /\ seeded[s].at = "looked"
  /\ IF \E c \in customers : c.id = seeded[s].id \/ c.token = seeded[s].token
     THEN Ends(s, "error") /\ UNCHANGED customers
     ELSE /\ Reached(s, "inserted")
          /\ customers' = customers \cup {[id |-> seeded[s].id, token |-> seeded[s].token]}
  /\ UNCHANGED <<schemaVars, conversations, answers, evidence, escalations, requestVars,
                 database, serverVars, overtaken>>

(* main prints what the ended transaction returned, with the token. *)
PrintToken(s) ==
  /\ \/ seeded[s].at = "found" /\ Reached(s, "existing")
     \/ seeded[s].at = "inserted" /\ Reached(s, "created")
  /\ UNCHANGED <<schemaVars, rowVars, requestVars, database, serverVars, overtaken>>

(* `serve` with every setting: the process starts whatever the schema is,  *)
(* for no connection is opened before the first request.                   *)
StartServer ==
  /\ server = "stopped"
  /\ server' = "running"
  /\ UNCHANGED <<schemaVars, rowVars, requestVars, database, pool, cut, owed, seedVars>>

StopServer ==
  /\ server = "running"
  /\ server' = "stopped" /\ pool' = "empty" /\ cut' = {} /\ owed' = FALSE
  /\ pc' = [r \in Requests |-> "idle"]
  /\ ask' = [r \in Requests |-> NoCall]
  /\ who' = [r \in Requests |-> "none"]
  /\ opened' = [r \in Requests |-> "none"]
  /\ reply' = [r \in Requests |-> "none"]
  /\ disturbed' = {}
  /\ UNCHANGED <<schemaVars, rowVars, database, seedVars>>

-----------------------------------------------------------------------------
(* Requests *)

Goto(r, stage) == pc' = [pc EXCEPT ![r] = stage]

Proceeds(r, stage) == Goto(r, stage) /\ UNCHANGED <<ask, who, opened, reply>>

Answer(r, code) ==
  /\ Goto(r, "idle")
  /\ reply' = [reply EXCEPT ![r] = code]
  /\ ask' = [ask EXCEPT ![r] = NoCall]
  /\ who' = [who EXCEPT ![r] = "none"]
  /\ opened' = [opened EXCEPT ![r] = "none"]

Subjects(call) == IF call = "status" THEN Escalations ELSE Conversations

Receive(r) ==
  /\ server = "running" /\ pc[r] = "idle"
  /\ \E call \in Calls, token \in Tokens : \E about \in Subjects(call) :
       /\ ask' = [ask EXCEPT ![r] = [call |-> call, token |-> token, about |-> about]]
       /\ Goto(r, IF call = "health" THEN "act" ELSE "auth")
  /\ reply' = [reply EXCEPT ![r] = "none"]
  /\ cut' = cut \ {r}
  /\ disturbed' = IF revision # Latest \/ job.running \/ database # "up"
                  THEN disturbed \cup {r} ELSE disturbed \ {r}
  /\ UNCHANGED <<schemaVars, rowVars, who, opened, database, server, pool, owed, seedVars>>

(* find_customer_id: one SELECT by token. *)
Authenticate(r) ==
  /\ pc[r] = "auth"
  /\ Reaches({"synthetic_customers"})
  /\ UsePool(r)
  /\ IF ~ServerWorks(r, {"synthetic_customers"}) THEN Answer(r, "server_error")
     ELSE \/ \E c \in customers : /\ c.token = ask[r].token
                                  /\ who' = [who EXCEPT ![r] = c.id]
                                  /\ Goto(r, "act")
                                  /\ UNCHANGED <<ask, opened, reply>>
          \/ /\ \A c \in customers : c.token # ask[r].token
             /\ Answer(r, "refused")
  /\ UNCHANGED <<schemaVars, rowVars, database, server, seedVars>>

(* The body of a message or an escalation is blank or too long. *)
RejectBody(r) ==
  /\ pc[r] = "act" /\ ask[r].call = "invalid"
  /\ Answer(r, "refused")
  /\ UNCHANGED <<schemaVars, rowVars, disturbed, database, serverVars, seedVars>>

(* SELECT 1; the schema is not looked at. *)
Health(r) ==
  /\ pc[r] = "act" /\ ask[r].call = "health"
  /\ UsePool(r)
  /\ Answer(r, IF Connected(r) THEN "done" ELSE "unavailable")
  /\ UNCHANGED <<schemaVars, rowVars, database, server, seedVars>>

(* Error: the store does not check that the customer still exists. *)
AnyCustomer(id) == TRUE

(* The foreign keys of conversations, messages, snapshots and escalations. *)
CustomerExists(id) == \E c \in customers : c.id = id

ConversationExists(id) == \E v \in conversations : v.id = id

OpenConversation(r) ==
  /\ pc[r] = "act" /\ ask[r].call = "open"
  /\ Reaches(Tables("open"))
  /\ UsePool(r)
  /\ \E id \in Conversations \ {v.id : v \in conversations} :
       IF ServerWorks(r, Tables("open")) /\ CustomerExists(who[r])
       THEN /\ conversations' = conversations \cup {[id |-> id, customer |-> who[r]]}
            /\ Answer(r, "done")
       ELSE Answer(r, "server_error") /\ UNCHANGED conversations
  /\ UNCHANGED <<schemaVars, customers, answers, evidence, escalations,
                 database, server, seedVars>>

OwnsConversation(r) == [id |-> ask[r].about, customer |-> who[r]] \in conversations

(* get_history, answered or handed to CreateEscalationService. *)
ReadHistory(r) ==
  /\ pc[r] = "act" /\ ask[r].call \in {"history", "escalate"}
  /\ Reaches(Tables("history"))
  /\ UsePool(r)
  /\ IF ~ServerWorks(r, {"conversations"}) THEN Answer(r, "server_error")
     ELSE IF ~OwnsConversation(r) THEN Answer(r, "refused")
     ELSE IF ~ServerWorks(r, HistoryTables(ask[r].about)) THEN Answer(r, "server_error")
     ELSE IF ask[r].call = "history" THEN Answer(r, "done")
     ELSE Proceeds(r, "insert")
  /\ UNCHANGED <<schemaVars, rowVars, database, server, seedVars>>

(* add_requested.  Every IntegrityError is taken for the index's, so one   *)
(* of a foreign key is answered "already active" (409) as well; it is told *)
(* apart here.  Whether an escalation of the conversation is still active  *)
(* is CreateEscalation's to say.  A uuid4 is not that of a row another     *)
(* request inserted.                                                       *)
InsertEscalation(r) ==
  /\ pc[r] = "insert"
  /\ Reaches(Tables("escalate"))
  /\ UsePool(r)
  /\ IF ~ServerWorks(r, Tables("escalate"))
     THEN Answer(r, "server_error") /\ UNCHANGED escalations
     ELSE IF ~CustomerExists(who[r]) \/ ~ConversationExists(ask[r].about)
     THEN Answer(r, "falsely_active") /\ UNCHANGED escalations
     ELSE \/ /\ \E e \in escalations : e.conversation = ask[r].about
             /\ Answer(r, "refused") /\ UNCHANGED escalations
          \/ \E id \in Escalations \ {e.id : e \in escalations} :
               /\ \A q \in Requests : opened[q] # id
               /\ escalations' = escalations \cup
                    {[id |-> id, conversation |-> ask[r].about, customer |-> who[r]]}
               /\ opened' = [opened EXCEPT ![r] = id]
               /\ Goto(r, "update") /\ UNCHANGED <<ask, who, reply>>
  /\ UNCHANGED <<schemaVars, customers, conversations, answers, evidence,
                 database, server, seedVars>>

(* update, after the hand-off, of the status, which is left out here:      *)
(* RuntimeError if the row has disappeared.                                *)
UpdateEscalation(r) ==
  /\ pc[r] = "update"
  /\ Reaches({"escalations"})
  /\ UsePool(r)
  /\ Answer(r, IF ServerWorks(r, {"escalations"}) /\ \E e \in escalations : e.id = opened[r]
               THEN "done" ELSE "server_error")
  /\ UNCHANGED <<schemaVars, rowVars, database, server, seedVars>>

(* get_owned: one SELECT by id and customer. *)
ReadEscalation(r) ==
  /\ pc[r] = "act" /\ ask[r].call = "status"
  /\ Reaches(Tables("status"))
  /\ UsePool(r)
  /\ Answer(r, IF ~ServerWorks(r, Tables("status")) THEN "server_error"
               ELSE IF \E e \in escalations : e.id = ask[r].about /\ e.customer = who[r]
               THEN "done" ELSE "refused")
  /\ UNCHANGED <<schemaVars, rowVars, database, server, seedVars>>

(* A question whose grounded answer has one kind: is_owned_by and, in a    *)
(* later transaction, the exchange.                                        *)
CheckOwner(r) ==
  /\ pc[r] = "act" /\ ask[r].call \in Kinds
  /\ Reaches({"conversations"})
  /\ UsePool(r)
  /\ IF ~ServerWorks(r, {"conversations"}) THEN Answer(r, "server_error")
     ELSE IF OwnsConversation(r) THEN Proceeds(r, "store")
     ELSE Answer(r, "refused")
  /\ UNCHANGED <<schemaVars, rowVars, database, server, seedVars>>

(* The foreign keys find the conversation and the customer still there. *)
StoreExchange(r) ==
  /\ pc[r] = "store"
  /\ Reaches(Tables(ask[r].call))
  /\ UsePool(r)
  /\ LET answer == [conversation |-> ask[r].about, kind |-> ask[r].call] IN
     IF /\ ServerWorks(r, Tables(ask[r].call))
        /\ CustomerExists(who[r]) /\ ConversationExists(ask[r].about)
     THEN /\ answers' = answers \cup {answer}
          /\ evidence' = evidence \cup
               {[answer |-> answer, kind |-> k] : k \in EvidenceOf(ask[r].call)}
          /\ Answer(r, "done")
     ELSE Answer(r, "server_error") /\ UNCHANGED <<answers, evidence>>
  /\ UNCHANGED <<schemaVars, customers, conversations, escalations,
                 database, server, seedVars>>

(* A source, the model or the hand-off raises, or the data of an exchange  *)
(* breaks a constraint of its columns: a 500 whose cause is not the        *)
(* deployment (SendSupportMessage and CreateEscalation have the causes).   *)
ServiceRaises(r) ==
  /\ pc[r] \in {"store", "update"}
  /\ Answer(r, "raised")
  /\ UNCHANGED <<schemaVars, rowVars, disturbed, database, serverVars, seedVars>>

Serve(r) ==
  \/ Authenticate(r) \/ RejectBody(r) \/ Health(r) \/ OpenConversation(r)
  \/ ReadHistory(r) \/ InsertEscalation(r) \/ UpdateEscalation(r) \/ ReadEscalation(r)
  \/ CheckOwner(r) \/ StoreExchange(r) \/ ServiceRaises(r)

Next ==
  \/ Migrate \/ MigrationStep \/ FinishMigration \/ KillMigration
  \/ Outage \/ Recovery
  \/ \E s \in Seeds : LookForToken(s) \/ InsertCustomer(s) \/ PrintToken(s)
  \/ StartServer \/ StopServer
  \/ \E r \in Requests : Receive(r) \/ Serve(r)

Spec == Init /\ [][Next]_vars

-----------------------------------------------------------------------------
(* Properties *)

(* Every row's owner exists, whatever was migrated between the steps of a  *)
(* request: conversations have customers, answers conversations, evidence  *)
(* answers, escalations both; and a token or an id stands for one customer. *)
NoOrphans ==
  /\ \A x \in conversations \cup escalations : \E c \in customers : c.id = x.customer
  /\ \A x \in answers \cup escalations : \E v \in conversations : v.id = x.conversation
  /\ \A e \in evidence : e.answer \in answers
  /\ \A c, d \in customers : c.id = d.id \/ c.token = d.token => c = d

(* The token that a seed has printed, or is about to print, lets a         *)
(* customer in, and "created" is said of a customer by one seed only,      *)
(* whatever other seeds and requests do meanwhile.  Only a downgrade that  *)
(* drops the customers after the transaction of the seed ended, before or  *)
(* after it prints, makes its words untrue.                                *)
SeededTokenIsKnown ==
  LET created == {s \in Past \ overtaken : seeded[s].at \in {"inserted", "created"}}
  IN  /\ \A s \in Past \ overtaken : \E c \in customers : c.token = seeded[s].token
      /\ \A s \in created : [id |-> seeded[s].id, token |-> seeded[s].token] \in customers
      /\ \A s, t \in created :
           s # t => seeded[s].id # seeded[t].id /\ seeded[s].token # seeded[t].token

(* On the latest revision, with no migration under way and the database    *)
(* up, no request fails for a table, a row or a connection that is missing *)
(* (500, 503, or a 409 about a conversation that is gone): upgrade() has   *)
(* created every table the code uses, and nothing a request has checked    *)
(* disappears before it is used.  An outage costs the requests in flight   *)
(* and, later, those that have taken a connection when the first of the    *)
(* cut-off ones fails; none that arrives after that.                       *)
ServedAtLatest ==
  \A r \in Requests :
    reply[r] \in {"server_error", "unavailable", "falsely_active"} => r \in disturbed
=============================================================================
