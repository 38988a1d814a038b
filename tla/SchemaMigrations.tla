-------------------------- MODULE SchemaMigrations --------------------------
(***************************************************************************)
(* The six Alembic revisions (migrations/versions) and one `alembic`       *)
(* command at a time that moves the database between them.  A command runs *)
(* the statements of every revision on its way in one transaction          *)
(* (migrations/env.py): they act on a draft of the schema, which replaces  *)
(* the committed one when the target is reached.                           *)
(***************************************************************************)
EXTENDS Integers, Sequences

CONSTANT Targets   \* bound: the revisions commands ask for

Latest == 6

ASSUME TargetAssumption == Targets \subseteq 0..Latest

(* The tables and indexes that each upgrade() creates and that each        *)
(* downgrade() drops, in their order.                                      *)
CreateConversations ==
  <<"synthetic_customers", "conversations", "ix_conversations_customer_id">>
DropConversations ==
  <<"ix_conversations_customer_id", "conversations", "synthetic_customers">>

CreateMessagesAndPlans ==
  <<"plan_snapshots", "ix_plan_snapshots_customer_id", "messages",
    "ix_messages_conversation_id_created_at", "message_plan_evidence">>
DropMessagesAndPlans ==
  <<"message_plan_evidence", "ix_messages_conversation_id_created_at", "messages",
    "ix_plan_snapshots_customer_id", "plan_snapshots">>

CreateBills ==
  <<"bill_snapshots", "ix_bill_snapshots_customer_id", "bill_line_items",
    "ix_bill_line_items_bill_snapshot_id", "message_bill_evidence">>

(* Error: the snapshots are dropped before what refers to them. *)
DropBillsInOrder ==
  <<"ix_bill_line_items_bill_snapshot_id", "ix_bill_snapshots_customer_id",
    "bill_snapshots", "bill_line_items", "message_bill_evidence">>

DropBills ==
  <<"message_bill_evidence", "ix_bill_line_items_bill_snapshot_id", "bill_line_items",
    "ix_bill_snapshots_customer_id", "bill_snapshots">>

CreateCharges ==
  <<"charge_evidence_snapshots", "ix_charge_evidence_customer_id", "message_charge_evidence">>
DropCharges ==
  <<"message_charge_evidence", "ix_charge_evidence_customer_id", "charge_evidence_snapshots">>

CreateEscalations ==
  <<"escalations", "ix_escalations_customer_id", "ix_escalations_conversation_id",
    "uq_escalations_active_conversation">>
DropEscalations ==
  <<"uq_escalations_active_conversation", "ix_escalations_conversation_id",
    "ix_escalations_customer_id", "escalations">>

(* Error: the table of the offers is forgotten. *)
CreateComparisonsWithoutOffers ==
  <<"plan_comparison_snapshots", "ix_plan_comparison_snapshots_customer_id",
    "message_plan_comparison_evidence">>

CreateComparisons ==
  <<"plan_comparison_snapshots", "ix_plan_comparison_snapshots_customer_id",
    "plan_comparison_offers", "ix_plan_comparison_offers_snapshot_id",
    "message_plan_comparison_evidence">>
DropComparisons ==
  <<"message_plan_comparison_evidence", "ix_plan_comparison_offers_snapshot_id",
    "plan_comparison_offers", "ix_plan_comparison_snapshots_customer_id",
    "plan_comparison_snapshots">>

Creates == <<CreateConversations, CreateMessagesAndPlans, CreateBills, CreateCharges,
             CreateEscalations, CreateComparisons>>
Drops == <<DropConversations, DropMessagesAndPlans, DropBills, DropCharges,
           DropEscalations, DropComparisons>>

(* The tables a foreign key of each table names. *)
References(table) ==
  CASE table \in {"conversations", "plan_snapshots", "bill_snapshots",
                  "charge_evidence_snapshots", "plan_comparison_snapshots"}
                                              -> {"synthetic_customers"}
    [] table = "messages"                     -> {"conversations"}
    [] table = "escalations"                  -> {"synthetic_customers", "conversations"}
    [] table = "bill_line_items"              -> {"bill_snapshots"}
    [] table = "plan_comparison_offers"       -> {"plan_comparison_snapshots"}
    [] table = "message_plan_evidence"        -> {"messages", "plan_snapshots"}
    [] table = "message_bill_evidence"        -> {"messages", "bill_snapshots"}
    [] table = "message_charge_evidence"      -> {"messages", "charge_evidence_snapshots"}
    [] table = "message_plan_comparison_evidence"
                                              -> {"messages", "plan_comparison_snapshots"}
    [] OTHER                                  -> {}

(* The table of each index. *)
Indexes ==
  {<<"ix_conversations_customer_id", "conversations">>,
   <<"ix_plan_snapshots_customer_id", "plan_snapshots">>,
   <<"ix_messages_conversation_id_created_at", "messages">>,
   <<"ix_bill_snapshots_customer_id", "bill_snapshots">>,
   <<"ix_bill_line_items_bill_snapshot_id", "bill_line_items">>,
   <<"ix_charge_evidence_customer_id", "charge_evidence_snapshots">>,
   <<"ix_escalations_customer_id", "escalations">>,
   <<"ix_escalations_conversation_id", "escalations">>,
   <<"uq_escalations_active_conversation", "escalations">>,
   <<"ix_plan_comparison_snapshots_customer_id", "plan_comparison_snapshots">>,
   <<"ix_plan_comparison_offers_snapshot_id", "plan_comparison_offers">>}

IndexesOn(table) == {pair[1] : pair \in {p \in Indexes : p[2] = table}}

Requires(object) ==
  References(object) \cup {pair[2] : pair \in {p \in Indexes : p[1] = object}}

CanCreate(object, tables) == object \notin tables /\ Requires(object) \subseteq tables

(* DROP without CASCADE: nothing else refers to it. *)
CanDrop(object, tables) ==
  /\ object \in tables
  /\ \A table \in tables : object \notin References(table)

WithoutObject(object, tables) == tables \ ({object} \cup IndexesOn(object))

VARIABLES
  revision,  \* the committed alembic_version; 0 is an empty database
  schema,    \* the committed tables and indexes
  job,       \* the running command: its target, the revision and statement reached
  draft,     \* the tables and indexes its transaction sees
  applied    \* no statement of a migration ever failed

schemaVars == <<revision, schema, job, draft, applied>>

Idle == [target |-> 0, at |-> 0, statement |-> 0, running |-> FALSE]

SchemaInit ==
  /\ revision = 0 /\ schema = {}
  /\ job = Idle /\ draft = {}
  /\ applied = TRUE

StartMigration(target) ==
  /\ ~job.running
  /\ target # revision
  /\ job' = [target |-> target, at |-> revision, statement |-> 0, running |-> TRUE]
  /\ draft' = schema
  /\ UNCHANGED <<revision, schema, applied>>

(* Nothing of an interrupted command is kept. *)
Rollback == job' = Idle /\ draft' = {} /\ UNCHANGED <<revision, schema>>

Statements ==
  IF job.at < job.target THEN Creates[job.at + 1] ELSE Drops[job.at]

(* Error: every statement commits. *)
RunStatementAutocommit ==
  /\ job.running /\ job.at # job.target
  /\ job.statement < Len(Statements)
  /\ LET object == Statements[job.statement + 1]
     IN  draft' = IF job.at < job.target THEN draft \cup {object}
                  ELSE WithoutObject(object, draft)
  /\ schema' = draft'
  /\ job' = [job EXCEPT !.statement = @ + 1]
  /\ UNCHANGED <<revision, applied>>

(* The next CREATE or DROP; if the database refuses it the command ends. *)
RunStatement ==
  /\ job.running /\ job.at # job.target
  /\ job.statement < Len(Statements)
  /\ LET object == Statements[job.statement + 1]
         up     == job.at < job.target
     IN  IF IF up THEN CanCreate(object, draft) ELSE CanDrop(object, draft)
         THEN /\ draft' = IF up THEN draft \cup {object} ELSE WithoutObject(object, draft)
              /\ job' = [job EXCEPT !.statement = @ + 1]
              /\ UNCHANGED <<revision, schema, applied>>
         ELSE /\ Rollback
              /\ applied' = FALSE

(* The revision is done: alembic_version moves with it, uncommitted. *)
NextRevision ==
  /\ job.running /\ job.at # job.target
  /\ job.statement = Len(Statements)
  /\ job' = [job EXCEPT !.at = IF @ < job.target THEN @ + 1 ELSE @ - 1,
                        !.statement = 0]
  /\ UNCHANGED <<revision, schema, draft, applied>>

CommitMigration ==
  /\ job.running /\ job.at = job.target
  /\ revision' = job.target /\ schema' = draft
  /\ job' = Idle /\ draft' = {}
  /\ UNCHANGED applied

(* The command is killed, or its connection lost. *)
InterruptMigration ==
  /\ job.running
  /\ Rollback
  /\ UNCHANGED applied

(* Until the transaction ends, the tables it has dropped are locked, and   *)
(* those that the foreign keys of these name.                              *)
Locked ==
  LET dropped == IF job.running THEN schema \ draft ELSE {}
  IN  dropped \cup UNION {References(table) : table \in dropped}

ObjectsAt(rev) == UNION {{Creates[i][n] : n \in DOMAIN Creates[i]} : i \in 1..rev}

-----------------------------------------------------------------------------
(* Properties *)

(* Wherever a command starts and whatever it is asked for, its statements  *)
(* find what they create missing, what they refer to present, and what     *)
(* they drop unreferenced: upgrade and downgrade undo each other.          *)
MigrationsApply == applied

(* Whenever a command is killed, the committed schema is that of the       *)
(* committed revision.                                                     *)
SchemaIsARevision == schema = ObjectsAt(revision)
=============================================================================
