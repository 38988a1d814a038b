----------------------- MODULE SchemaMigrationsProofs -----------------------
(***************************************************************************)
(* Theorems about the six revisions: that every statement of upgrade() and *)
(* downgrade() applies where a command executes it, and that a downgrade   *)
(* leaves the objects of the revision below.  They are about fixed lists,  *)
(* so the lemmas go through them revision by revision; what follows holds  *)
(* for any sequence of commands, killed at any statement.                  *)
(***************************************************************************)
EXTENDS SchemaMigrations, TLAPS

(* The objects before the n-th CREATE of revision i, and before the n-th   *)
(* DROP of its downgrade.                                                  *)
Before(i, n) == ObjectsAt(i - 1) \cup {Creates[i][k] : k \in 1 .. n - 1}
Left(i, n) == ObjectsAt(i) \ {Drops[i][k] : k \in 1 .. n - 1}

LEMMA NoObjects == ObjectsAt(0) = {}
<1>1. 1 .. 0 = {}
  OBVIOUS
<1> QED
  BY <1>1 DEF ObjectsAt

LEMMA NextObjects ==
  ASSUME NEW i \in Nat
  PROVE  ObjectsAt(i + 1) = ObjectsAt(i) \cup {Creates[i + 1][n] : n \in DOMAIN Creates[i + 1]}
<1>1. 1 .. i + 1 = (1 .. i) \cup {i + 1}
  OBVIOUS
<1> QED
  BY <1>1 DEF ObjectsAt

(* The objects of each revision, spelled out. *)
LEMMA Objects ==
  /\ ObjectsAt(1) = {"synthetic_customers", "conversations", "ix_conversations_customer_id"}
  /\ ObjectsAt(2) = ObjectsAt(1) \cup
       {"plan_snapshots", "ix_plan_snapshots_customer_id", "messages",
        "ix_messages_conversation_id_created_at", "message_plan_evidence"}
  /\ ObjectsAt(3) = ObjectsAt(2) \cup
       {"bill_snapshots", "ix_bill_snapshots_customer_id", "bill_line_items",
        "ix_bill_line_items_bill_snapshot_id", "message_bill_evidence"}
  /\ ObjectsAt(4) = ObjectsAt(3) \cup
       {"charge_evidence_snapshots", "ix_charge_evidence_customer_id",
        "message_charge_evidence"}
  /\ ObjectsAt(5) = ObjectsAt(4) \cup
       {"escalations", "ix_escalations_customer_id", "ix_escalations_conversation_id",
        "uq_escalations_active_conversation"}
  /\ ObjectsAt(6) = ObjectsAt(5) \cup
       {"plan_comparison_snapshots", "ix_plan_comparison_snapshots_customer_id",
        "plan_comparison_offers", "ix_plan_comparison_offers_snapshot_id",
        "message_plan_comparison_evidence"}
<1>1. \A i \in 1 .. 6 :
        ObjectsAt(i) = ObjectsAt(i - 1) \cup {Creates[i][n] : n \in DOMAIN Creates[i]}
  <2> TAKE i \in 1 .. 6
  <2>1. i - 1 \in Nat /\ (i - 1) + 1 = i
    OBVIOUS
  <2> QED
    BY <2>1, NextObjects
<1>2. /\ DOMAIN CreateConversations = 1 .. 3 /\ DOMAIN CreateMessagesAndPlans = 1 .. 5
      /\ DOMAIN CreateBills = 1 .. 5 /\ DOMAIN CreateCharges = 1 .. 3
      /\ DOMAIN CreateEscalations = 1 .. 4 /\ DOMAIN CreateComparisons = 1 .. 5
  BY DEF CreateConversations, CreateMessagesAndPlans, CreateBills, CreateCharges,
         CreateEscalations, CreateComparisons
<1> QED
  BY <1>1, <1>2, NoObjects
     DEF Creates, CreateConversations, CreateMessagesAndPlans, CreateBills, CreateCharges,
         CreateEscalations, CreateComparisons

(* Each CREATE finds its object missing and what it refers to present.     *)
LEMMA CreatesApply ==
  ASSUME NEW i \in 1 .. Latest, NEW n \in 1 .. Len(Creates[i])
  PROVE  CanCreate(Creates[i][n], Before(i, n))
<1>0. i \in 1 .. 6
  BY DEF Latest
<1> USE NoObjects, Objects DEF CanCreate, Before, Requires, Indexes, References, Creates
<1>1. CASE i = 1
  BY <1>1 DEF CreateConversations
<1>2. CASE i = 2
  BY <1>2 DEF CreateMessagesAndPlans
<1>3. CASE i = 3
  BY <1>3 DEF CreateBills
<1>4. CASE i = 4
  BY <1>4 DEF CreateCharges
<1>5. CASE i = 5
  BY <1>5 DEF CreateEscalations
<1>6. CASE i = 6
  BY <1>6 DEF CreateComparisons
<1> HIDE NoObjects, Objects DEF CanCreate, Before, Requires, Indexes, References, Creates
<1> QED
  BY <1>0, <1>1, <1>2, <1>3, <1>4, <1>5, <1>6

(* Each DROP finds its object present, and nothing left that refers to it; *)
(* the indexes of a table are dropped before it.                           *)
LEMMA DropsApply ==
  ASSUME NEW i \in 1 .. Latest, NEW n \in 1 .. Len(Drops[i])
  PROVE  /\ CanDrop(Drops[i][n], Left(i, n))
         /\ WithoutObject(Drops[i][n], Left(i, n)) = Left(i, n + 1)
<1>0. i \in 1 .. 6
  BY DEF Latest
<1> USE NoObjects, Objects
    DEF CanDrop, Left, WithoutObject, IndexesOn, Indexes, References, Drops
<1>1. CASE i = 1
  BY <1>1 DEF DropConversations
<1>2. CASE i = 2
  BY <1>2 DEF DropMessagesAndPlans
<1>3. CASE i = 3
  BY <1>3 DEF DropBills
<1>4. CASE i = 4
  BY <1>4 DEF DropCharges
<1>5. CASE i = 5
  BY <1>5 DEF DropEscalations
<1>6. CASE i = 6
  BY <1>6 DEF DropComparisons
<1> HIDE NoObjects, Objects
    DEF CanDrop, Left, WithoutObject, IndexesOn, Indexes, References, Drops
<1> QED
  BY <1>0, <1>1, <1>2, <1>3, <1>4, <1>5, <1>6

(* A downgrade drops what the upgrade has created. *)
LEMMA DropsUndo ==
  ASSUME NEW i \in 1 .. Latest
  PROVE  ObjectsAt(i) \ {Drops[i][k] : k \in 1 .. Len(Drops[i])} = ObjectsAt(i - 1)
<1>0. i \in 1 .. 6
  BY DEF Latest
<1> USE NoObjects, Objects DEF Drops
<1>1. CASE i = 1
  BY <1>1 DEF DropConversations
<1>2. CASE i = 2
  BY <1>2 DEF DropMessagesAndPlans
<1>3. CASE i = 3
  BY <1>3 DEF DropBills
<1>4. CASE i = 4
  BY <1>4 DEF DropCharges
<1>5. CASE i = 5
  BY <1>5 DEF DropEscalations
<1>6. CASE i = 6
  BY <1>6 DEF DropComparisons
<1> HIDE NoObjects, Objects DEF Drops
<1> QED
  BY <1>0, <1>1, <1>2, <1>3, <1>4, <1>5, <1>6

(* The first statement of a revision starts from the objects of the one it *)
(* leaves, the end of the last one are those of the one it reaches.        *)
LEMMA FirstAndLast ==
  ASSUME NEW i \in 1 .. Latest
  PROVE  /\ Before(i, 1) = ObjectsAt(i - 1)
         /\ Before(i, Len(Creates[i]) + 1) = ObjectsAt(i)
         /\ Left(i, 1) = ObjectsAt(i)
         /\ Left(i, Len(Drops[i]) + 1) = ObjectsAt(i - 1)
         /\ Len(Creates[i]) \in Nat /\ Len(Drops[i]) \in Nat
<1>1. i \in 1 .. 6
  BY DEF Latest
<1>2. DOMAIN Creates[i] = 1 .. Len(Creates[i]) /\ Len(Creates[i]) \in Nat
  BY <1>1 DEF Creates, CreateConversations, CreateMessagesAndPlans, CreateBills, CreateCharges,
              CreateEscalations, CreateComparisons
<1>3. Len(Drops[i]) \in Nat
  BY <1>1 DEF Drops, DropConversations, DropMessagesAndPlans, DropBills, DropCharges,
              DropEscalations, DropComparisons
<1>4. ObjectsAt(i) = ObjectsAt(i - 1) \cup {Creates[i][k] : k \in 1 .. Len(Creates[i])}
  <2>1. i - 1 \in Nat /\ (i - 1) + 1 = i
    BY <1>1
  <2> QED
    BY <1>2, <2>1, NextObjects
<1>5. (1 .. 1 - 1) = {} /\ 1 .. (Len(Creates[i]) + 1) - 1 = 1 .. Len(Creates[i])
      /\ 1 .. (Len(Drops[i]) + 1) - 1 = 1 .. Len(Drops[i])
  BY <1>2, <1>3
<1> QED
  BY <1>2, <1>3, <1>4, <1>5, DropsUndo DEF Before, Left
-----------------------------------------------------------------------------
(* What the transaction of a command sees: on its way up the objects       *)
(* created so far, on its way down those not yet dropped.                  *)
DraftInv ==
  /\ job.at < job.target => /\ job.statement <= Len(Creates[job.at + 1])
                            /\ draft = Before(job.at + 1, job.statement + 1)
  /\ job.at > job.target => /\ job.statement <= Len(Drops[job.at])
                            /\ draft = Left(job.at, job.statement + 1)
  /\ job.at = job.target => draft = ObjectsAt(job.at)

MigrationInv ==
  /\ job \in [target : 0 .. Latest, at : 0 .. Latest, statement : Nat, running : BOOLEAN]
  /\ revision \in 0 .. Latest
  /\ job.running => DraftInv
  /\ SchemaIsARevision
  /\ MigrationsApply

(* What may happen to the schema.                                          *)
MigrationNext ==
  \/ \E target \in Targets : StartMigration(target)
  \/ RunStatement \/ NextRevision \/ CommitMigration
  \/ Rollback /\ UNCHANGED applied
  \/ UNCHANGED schemaVars

LEMMA InitMigrationInv == SchemaInit => MigrationInv
  BY NoObjects DEF SchemaInit, MigrationInv, Idle, SchemaIsARevision, MigrationsApply, Latest

(* At the start of a revision, on the way to any other. *)
LEMMA DraftAtStart ==
  ASSUME NEW at \in 0 .. Latest, NEW target \in 0 .. Latest
  PROVE  /\ at < target => /\ 0 <= Len(Creates[at + 1])
                           /\ ObjectsAt(at) = Before(at + 1, 1)
         /\ at > target => /\ 0 <= Len(Drops[at])
                           /\ ObjectsAt(at) = Left(at, 1)
<1>1. CASE at < target
  <2>1. at + 1 \in 1 .. Latest /\ (at + 1) - 1 = at
    BY <1>1 DEF Latest
  <2> QED
    BY <1>1, <2>1, FirstAndLast
<1>2. CASE at > target
  <2>1. at \in 1 .. Latest
    BY <1>2 DEF Latest
  <2> QED
    BY <1>2, <2>1, FirstAndLast
<1> QED
  BY <1>1, <1>2

LEMMA MigrationStepInv == MigrationInv /\ MigrationNext => MigrationInv'
<1> SUFFICES ASSUME MigrationInv, MigrationNext PROVE MigrationInv'
  OBVIOUS
<1> USE DEF MigrationInv, SchemaIsARevision, MigrationsApply
<1>0. ASSUME UNCHANGED revision, UNCHANGED schema, UNCHANGED applied, job' = Idle
      PROVE  MigrationInv'
  BY <1>0 DEF Idle, Latest
<1>1. ASSUME NEW target \in Targets, StartMigration(target) PROVE MigrationInv'
  <2>1. target \in 0 .. Latest
    BY TargetAssumption
  <2>2. /\ job' = [target |-> target, at |-> revision, statement |-> 0, running |-> TRUE]
        /\ draft' = ObjectsAt(revision)
        /\ UNCHANGED <<revision, schema, applied>>
    BY <1>1 DEF StartMigration
  <2>3. DraftInv'
    BY <2>1, <2>2, DraftAtStart DEF DraftInv
  <2> QED
    BY <2>1, <2>2, <2>3
<1>2. CASE RunStatement /\ job.at < job.target
  <2> DEFINE i == job.at + 1
             n == job.statement + 1
  <2>1. i \in 1 .. Latest /\ n \in 1 .. Len(Creates[i]) /\ Len(Creates[i]) \in Nat
    <3>1. i \in 1 .. Latest
      BY <1>2 DEF Latest
    <3>2. Len(Creates[i]) \in Nat
      BY <3>1, FirstAndLast
    <3> QED
      BY <1>2, <3>1, <3>2 DEF RunStatement, Statements
  <2>2. draft = Before(i, n)
    BY <1>2 DEF RunStatement, DraftInv
  <2>3. CanCreate(Creates[i][n], draft)
    BY <2>1, <2>2, CreatesApply
  <2>4. /\ draft' = draft \cup {Creates[i][n]}
        /\ job' = [job EXCEPT !.statement = @ + 1]
        /\ UNCHANGED <<revision, schema, applied>>
    BY <1>2, <2>3 DEF RunStatement, Statements
  <2>5. draft' = Before(i, n + 1)
    BY <2>1, <2>2, <2>4 DEF Before
  <2>6. DraftInv'
    BY <1>2, <2>1, <2>4, <2>5 DEF DraftInv
  <2> QED
    BY <2>4, <2>6
<1>3. CASE RunStatement /\ job.at > job.target
  <2> DEFINE i == job.at
             n == job.statement + 1
  <2>1. i \in 1 .. Latest /\ n \in 1 .. Len(Drops[i]) /\ Len(Drops[i]) \in Nat
    <3>1. i \in 1 .. Latest
      BY <1>3 DEF Latest
    <3>2. Len(Drops[i]) \in Nat
      BY <3>1, FirstAndLast
    <3> QED
      BY <1>3, <3>1, <3>2 DEF RunStatement, Statements
  <2>2. draft = Left(i, n)
    BY <1>3 DEF RunStatement, DraftInv
  <2>3. CanDrop(Drops[i][n], draft) /\ WithoutObject(Drops[i][n], draft) = Left(i, n + 1)
    BY <2>1, <2>2, DropsApply
  <2>4. /\ draft' = WithoutObject(Drops[i][n], draft)
        /\ job' = [job EXCEPT !.statement = @ + 1]
        /\ UNCHANGED <<revision, schema, applied>>
    <3>1. ~(job.at < job.target) /\ Statements = Drops[i]
      BY <1>3 DEF Statements
    <3>2. RunStatement
      BY <1>3
    <3> QED
      BY <2>3, <3>1, <3>2 DEF RunStatement
  <2>5. DraftInv'
    BY <1>3, <2>1, <2>3, <2>4 DEF DraftInv
  <2> QED
    BY <2>4, <2>5
<1>4. CASE NextRevision
  <2> DEFINE next == IF job.at < job.target THEN job.at + 1 ELSE job.at - 1
  <2>1. /\ job' = [job EXCEPT !.at = next, !.statement = 0]
        /\ UNCHANGED <<revision, schema, draft, applied>>
    BY <1>4 DEF NextRevision
  <2>2. next \in 0 .. Latest
    BY <1>4 DEF NextRevision, Latest
  <2>3. draft = ObjectsAt(next)
    <3>1. CASE job.at < job.target
      <4>1. next \in 1 .. Latest /\ next = job.at + 1
        BY <3>1 DEF Latest
      <4>2. draft = Before(next, Len(Creates[next]) + 1)
        BY <1>4, <3>1, <4>1 DEF NextRevision, Statements, DraftInv
      <4> QED
        BY <4>1, <4>2, FirstAndLast
    <3>2. CASE job.at > job.target
      <4>1. job.at \in 1 .. Latest /\ next = job.at - 1
        BY <3>2 DEF Latest
      <4>2. draft = Left(job.at, Len(Drops[job.at]) + 1)
        BY <1>4, <3>2, <4>1 DEF NextRevision, Statements, DraftInv
      <4> QED
        BY <4>1, <4>2, FirstAndLast
    <3> QED
      BY <1>4, <3>1, <3>2 DEF NextRevision
  <2> HIDE DEF next
  <2>4. DraftInv'
    BY <2>1, <2>2, <2>3, DraftAtStart DEF DraftInv
  <2> QED
    BY <2>1, <2>2, <2>4
<1>5. CASE CommitMigration
  <2>1. draft = ObjectsAt(job.target)
    BY <1>5 DEF CommitMigration, DraftInv
  <2> QED
    BY <1>5, <2>1 DEF CommitMigration, Idle, Latest
<1>6. CASE Rollback /\ UNCHANGED applied
  BY <1>0, <1>6 DEF Rollback
<1>7. CASE UNCHANGED schemaVars
  BY <1>7 DEF schemaVars, DraftInv
<1>8. RunStatement => job.at < job.target \/ job.at > job.target
  BY DEF RunStatement
<1> QED
  BY <1>1, <1>2, <1>3, <1>4, <1>5, <1>6, <1>7, <1>8 DEF MigrationNext
=============================================================================
