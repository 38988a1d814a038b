-------------------------- MODULE DeploymentProofs --------------------------
(***************************************************************************)
(* Theorems about Deployment, for any number of requests, seeds, customers *)
(* and conversations, any targets of migrations, and for whatever the      *)
(* revisions create and drop: that no row is orphaned follows from what    *)
(* PostgreSQL refuses to create or to drop, not from the lists.            *)
(***************************************************************************)
EXTENDS Deployment, SchemaMigrationsProofs, TLAPS

Codes == {"done", "refused", "raised", "unavailable", "server_error", "falsely_active"}
Failures == {"unavailable", "server_error", "falsely_active"}

Types ==
  /\ ask \in [Requests -> [call : Calls \cup {"none"}, token : Tokens \cup {"none"},
                           about : Conversations \cup Escalations \cup {"none"}]]
  /\ pc \in [Requests -> {"idle", "auth", "act", "store", "insert", "update"}]
  /\ seeded \in [Seeds -> [id : Ids \cup {"none"}, token : Tokens \cup {"none"},
                           at : {"idle", "looked", "found", "inserted", "existing", "created",
                                 "error"}]]

(* No table's foreign key names a table that is missing. *)
Closed(tables) == \A table \in tables : References(table) \subseteq tables

SchemaInv == Closed(schema) /\ Closed(draft)

EvidenceInv == \A e \in evidence : e.kind \in DOMAIN EvidenceTable

RequestInv ==
  \A r \in Requests : /\ pc[r] = "store" => ask[r].call \in Kinds
                      /\ pc[r] = "insert" => ask[r].call = "escalate"

IInv == Types /\ SchemaInv /\ EvidenceInv /\ RequestInv /\ NoOrphans

-----------------------------------------------------------------------------
LEMMA InitIInv == Init => IInv
<1> SUFFICES ASSUME Init PROVE IInv
  OBVIOUS
<1>1. Types
  BY DEF Init, Types, NoCall, NoSeed
<1> QED
  BY <1>1 DEF Init, SchemaInit, IInv, SchemaInv, Closed, EvidenceInv, RequestInv, NoOrphans

(* What a request's steps leave alone. *)
LEMMA RequestFrame ==
  ASSUME NEW r \in Requests, Receive(r) \/ Serve(r)
  PROVE  UNCHANGED <<schemaVars, customers, database, seedVars>>
<1>1. CASE Receive(r) \/ Authenticate(r) \/ RejectBody(r) \/ Health(r) \/ ReadHistory(r)
           \/ UpdateEscalation(r) \/ ReadEscalation(r) \/ CheckOwner(r) \/ ServiceRaises(r)
  BY <1>1 DEF Receive, Authenticate, RejectBody, Health, ReadHistory, UpdateEscalation,
              ReadEscalation, CheckOwner, ServiceRaises, rowVars
<1>2. CASE OpenConversation(r) \/ InsertEscalation(r) \/ StoreExchange(r)
  BY <1>2 DEF OpenConversation, InsertEscalation, StoreExchange
<1> QED
  BY <1>1, <1>2 DEF Serve

(* And what a seed's do. *)
LEMMA SeedFrame ==
  ASSUME NEW s \in Seeds, LookForToken(s) \/ InsertCustomer(s) \/ PrintToken(s)
  PROVE  UNCHANGED <<schemaVars, conversations, answers, evidence, escalations, requestVars,
                     database, serverVars, overtaken>>
BY DEF LookForToken, Look, InsertCustomer, PrintToken, rowVars

(* A step of a request in flight answers it or takes it to a later stage. *)
LEMMA ServeMoves ==
  ASSUME NEW r \in Requests, Serve(r)
  PROVE  /\ pc[r] # "idle"
         /\ \/ \E code \in Codes : Answer(r, code)
            \/ /\ UNCHANGED <<ask, reply>>
               /\ \E stage \in {"act", "store", "insert", "update"} : Goto(r, stage)
               /\ (who' = who \/ \E c \in customers : who' = [who EXCEPT ![r] = c.id])
               /\ (opened' = opened \/ \E id \in Escalations : opened' = [opened EXCEPT ![r] = id])
<1> USE DEF Codes
<1>1. CASE Authenticate(r)
  BY <1>1 DEF Authenticate
<1>2. CASE RejectBody(r) \/ Health(r) \/ OpenConversation(r)
  BY <1>2 DEF RejectBody, Health, OpenConversation
<1>3. CASE ReadHistory(r)
  BY <1>3 DEF ReadHistory, Proceeds
<1>4. CASE InsertEscalation(r)
  BY <1>4 DEF InsertEscalation
<1>5. CASE UpdateEscalation(r) \/ ReadEscalation(r)
  BY <1>5 DEF UpdateEscalation, ReadEscalation
<1>6. CASE CheckOwner(r)
  BY <1>6 DEF CheckOwner, Proceeds
<1>7. CASE StoreExchange(r) \/ ServiceRaises(r)
  BY <1>7 DEF StoreExchange, ServiceRaises
<1> QED
  BY <1>1, <1>2, <1>3, <1>4, <1>5, <1>6, <1>7 DEF Serve

(* Each step keeps the types. *)
LEMMA TypesStep == Types /\ [Next]_vars => Types'
<1> SUFFICES ASSUME Types, [Next]_vars PROVE Types'
  OBVIOUS
<1> USE DEF Types
<1>1. CASE Migrate \/ MigrationStep \/ FinishMigration \/ KillMigration \/ Recovery \/ StartServer
           \/ UNCHANGED vars
  BY <1>1 DEF Migrate, MigrationStep, FinishMigration, KillMigration, Recovery, StartServer, vars,
              requestVars, seedVars
<1>2. CASE Outage
  BY <1>2 DEF Outage, NoSeed
<1>3. CASE StopServer
  BY <1>3 DEF StopServer, NoCall, seedVars
<1>4. ASSUME NEW s \in Seeds, LookForToken(s) \/ InsertCustomer(s) \/ PrintToken(s) PROVE Types'
  <2>1. UNCHANGED <<ask, pc>>
    BY <1>4, SeedFrame DEF requestVars
  <2>2. CASE LookForToken(s)
    BY <2>1, <2>2 DEF LookForToken, Look, NoSeed
  <2>3. CASE InsertCustomer(s) \/ PrintToken(s)
    <3>1. \/ \E stage \in {"inserted", "existing", "created"} : Reached(s, stage)
          \/ Ends(s, "error")
      BY <2>3 DEF InsertCustomer, PrintToken
    <3>2. CASE Ends(s, "error")
      BY <2>1, <3>2 DEF Ends, NoSeed
    <3>3. ASSUME NEW stage \in {"inserted", "existing", "created"}, Reached(s, stage) PROVE Types'
      BY <2>1, <3>3 DEF Reached
    <3> QED
      BY <3>1, <3>2, <3>3
  <2> QED
    BY <1>4, <2>2, <2>3
<1>5. ASSUME NEW r \in Requests, Receive(r) PROVE Types'
  BY <1>5 DEF Receive, Goto, Subjects, seedVars
<1>6. ASSUME NEW r \in Requests, Serve(r) PROVE Types'
  <2>1. UNCHANGED seeded
    BY <1>6, RequestFrame DEF seedVars
  <2>2. CASE UNCHANGED ask /\ \E stage \in {"act", "store", "insert", "update"} : Goto(r, stage)
    BY <2>1, <2>2 DEF Goto
  <2>3. CASE \E code \in Codes : Answer(r, code)
    <3>1. ask' = [ask EXCEPT ![r] = NoCall] /\ pc' = [pc EXCEPT ![r] = "idle"]
      BY <2>3 DEF Answer, Goto
    <3> QED
      BY <2>1, <3>1 DEF NoCall
  <2> QED
    BY <1>6, <2>2, <2>3, ServeMoves
<1> QED
  BY <1>1, <1>2, <1>3, <1>4, <1>5, <1>6 DEF Next

(* No foreign key names an index. *)
LEMMA NoReferenceToIndexes ==
  ASSUME NEW table, NEW object
  PROVE  References(table) \cap IndexesOn(object) = {}
<1>1. References(table) \subseteq {"synthetic_customers", "conversations", "messages",
         "bill_snapshots", "plan_snapshots", "charge_evidence_snapshots",
         "plan_comparison_snapshots"}
  BY DEF References
<1>2. \A p \in Indexes : p[1] \notin {"synthetic_customers", "conversations", "messages",
         "bill_snapshots", "plan_snapshots", "charge_evidence_snapshots",
         "plan_comparison_snapshots"}
  BY DEF Indexes
<1> QED
  BY <1>1, <1>2 DEF IndexesOn

LEMMA CreateCloses ==
  ASSUME NEW tables, NEW object, Closed(tables), CanCreate(object, tables)
  PROVE  Closed(tables \cup {object})
  BY DEF Closed, CanCreate, Requires

LEMMA DropCloses ==
  ASSUME NEW tables, NEW object, Closed(tables), CanDrop(object, tables)
  PROVE  Closed(WithoutObject(object, tables))
  BY NoReferenceToIndexes DEF Closed, CanDrop, WithoutObject

(* The committed schema and the draft of a migration stay closed. *)
LEMMA SchemaStep == SchemaInv /\ [Next]_vars => SchemaInv'
<1> SUFFICES ASSUME SchemaInv, [Next]_vars PROVE SchemaInv'
  OBVIOUS
<1> USE DEF SchemaInv
<1>0. Closed({})
  BY DEF Closed
<1>1. CASE Migrate
  BY <1>1 DEF Migrate, StartMigration, Closed
<1>2. CASE RunStatement
  <2> DEFINE object == Statements[job.statement + 1]
  <2>1. \/ CanCreate(object, draft) /\ draft' = draft \cup {object} /\ schema' = schema
        \/ CanDrop(object, draft) /\ draft' = WithoutObject(object, draft) /\ schema' = schema
        \/ Rollback
    BY <1>2 DEF RunStatement
  <2>2. CASE Rollback
    BY <1>0, <2>2 DEF Rollback
  <2> HIDE DEF object
  <2>3. CASE CanCreate(object, draft) /\ draft' = draft \cup {object} /\ schema' = schema
    BY <2>3, CreateCloses
  <2>4. CASE CanDrop(object, draft) /\ draft' = WithoutObject(object, draft) /\ schema' = schema
    BY <2>4, DropCloses
  <2> QED
    BY <2>1, <2>2, <2>3, <2>4
<1>3. CASE NextRevision
  BY <1>3 DEF NextRevision, Closed
<1>4. CASE FinishMigration
  BY <1>0, <1>4 DEF FinishMigration, CommitMigration
<1>5. CASE KillMigration \/ Outage
  BY <1>0, <1>5 DEF KillMigration, InterruptMigration, Outage, Rollback
<1>6. CASE UNCHANGED schemaVars
  BY <1>6 DEF schemaVars, Closed
<1>7. ASSUME NEW r \in Requests, Receive(r) \/ Serve(r) PROVE UNCHANGED schemaVars
  BY <1>7, RequestFrame
<1>8. ASSUME NEW s \in Seeds, LookForToken(s) \/ InsertCustomer(s) \/ PrintToken(s)
      PROVE  UNCHANGED schemaVars
  BY <1>8, SeedFrame
<1>9. CASE StartServer \/ StopServer \/ Recovery \/ UNCHANGED vars
  <2>1. UNCHANGED schemaVars
    BY <1>9 DEF StartServer, StopServer, Recovery, vars
  <2> QED
    BY <2>1, <1>6
<1> QED
  BY <1>1, <1>2, <1>3, <1>4, <1>5, <1>6, <1>7, <1>8, <1>9 DEF Next, MigrationStep

-----------------------------------------------------------------------------
(* What a request is about, and what is linked. *)
LEMMA KindStep == Types /\ EvidenceInv /\ RequestInv /\ [Next]_vars => EvidenceInv' /\ RequestInv'
<1> SUFFICES ASSUME Types, EvidenceInv, RequestInv, [Next]_vars PROVE EvidenceInv' /\ RequestInv'
  OBVIOUS
<1> USE DEF Types, EvidenceInv, RequestInv
<1>1. ASSUME NEW r \in Requests, Receive(r) \/ Serve(r) PROVE EvidenceInv' /\ RequestInv'
  <2>1. CASE Receive(r)
    BY <2>1 DEF Receive, Goto, rowVars
  <2>2. CASE Authenticate(r) \/ RejectBody(r) \/ Health(r) \/ OpenConversation(r)
    BY <2>2 DEF Authenticate, RejectBody, Health, OpenConversation, Answer, Goto, rowVars
  <2>3. CASE ReadHistory(r) \/ InsertEscalation(r)
    BY <2>3 DEF ReadHistory, InsertEscalation, Proceeds, Answer, Goto, rowVars
  <2>4. CASE UpdateEscalation(r) \/ ReadEscalation(r) \/ ServiceRaises(r)
    BY <2>4 DEF UpdateEscalation, ReadEscalation, ServiceRaises, Answer, Goto, rowVars
  <2>5. CASE CheckOwner(r)
    BY <2>5 DEF CheckOwner, Proceeds, Answer, Goto, rowVars
  <2>6. CASE StoreExchange(r)
    <3>1. RequestInv'
      BY <2>6 DEF StoreExchange, Answer, Goto
    <3>2. EvidenceOf(ask[r].call) \subseteq DOMAIN EvidenceTable
      <4>1. ask[r].call \in {"plan", "bill", "charge", "comparison"}
        BY <2>6, KindAssumption DEF StoreExchange, EvidenceTable
      <4> QED
        BY <4>1 DEF EvidenceOf, EvidenceTable
    <3>3. \A e \in evidence' : e \in evidence \/ e.kind \in EvidenceOf(ask[r].call)
      <4> DEFINE answer == [conversation |-> ask[r].about, kind |-> ask[r].call]
      <4>1. \/ evidence' = evidence \cup {[answer |-> answer, kind |-> k] :
                                            k \in EvidenceOf(ask[r].call)}
            \/ evidence' = evidence
        BY <2>6 DEF StoreExchange
      <4> HIDE DEF answer
      <4> QED
        BY <4>1
    <3> QED
      BY <3>1, <3>2, <3>3
  <2> QED
    BY <1>1, <2>1, <2>2, <2>3, <2>4, <2>5, <2>6 DEF Serve
<1>2. CASE FinishMigration
  BY <1>2 DEF FinishMigration, requestVars
<1>3. CASE Migrate \/ MigrationStep \/ KillMigration \/ Outage \/ Recovery \/ StartServer
  BY <1>3 DEF Migrate, MigrationStep, KillMigration, Outage, Recovery, StartServer, rowVars,
              requestVars
<1>4. CASE StopServer
  BY <1>4 DEF StopServer, rowVars
<1>5. ASSUME NEW s \in Seeds, LookForToken(s) \/ InsertCustomer(s) \/ PrintToken(s)
      PROVE  EvidenceInv' /\ RequestInv'
  BY <1>5, SeedFrame DEF requestVars
<1>6. CASE UNCHANGED vars
  BY <1>6 DEF vars, rowVars, requestVars
<1> QED
  BY <1>1, <1>2, <1>3, <1>4, <1>5, <1>6 DEF Next

(* A dropped table takes its rows, and what refers to them is gone first. *)
LEMMA FinishKeepsRows == IInv /\ FinishMigration => NoOrphans'
<1> SUFFICES ASSUME IInv, FinishMigration PROVE NoOrphans'
  OBVIOUS
<1> USE DEF IInv
<1>1. /\ "conversations" \in draft => "synthetic_customers" \in draft
      /\ "messages" \in draft => "conversations" \in draft
      /\ "escalations" \in draft => "synthetic_customers" \in draft /\ "conversations" \in draft
  BY DEF SchemaInv, Closed, References
<1>2. ASSUME NEW kind \in DOMAIN EvidenceTable, EvidenceTable[kind] \in draft
      PROVE  "messages" \in draft
  <2>1. kind \in {"plan", "bill", "charge", "comparison"}
    BY DEF EvidenceTable
  <2>2. "messages" \in References(EvidenceTable[kind])
    BY <2>1 DEF EvidenceTable, References
  <2> QED
    BY <1>2, <2>2 DEF SchemaInv, Closed
<1>3. customers' = (IF "synthetic_customers" \in draft THEN customers ELSE {})
  BY DEF FinishMigration
<1>4. conversations' = (IF "conversations" \in draft THEN conversations ELSE {})
  BY DEF FinishMigration
<1>5. answers' = (IF "messages" \in draft THEN answers ELSE {})
  BY DEF FinishMigration
<1>6. evidence' = {e \in evidence : EvidenceTable[e.kind] \in draft}
  BY DEF FinishMigration
<1>7. escalations' = (IF "escalations" \in draft THEN escalations ELSE {})
  BY DEF FinishMigration
<1>8. \A e \in evidence' : e.answer \in answers'
  BY <1>2, <1>5, <1>6 DEF EvidenceInv, NoOrphans
<1>9. \A x \in conversations' \cup escalations' : \E c \in customers' : c.id = x.customer
  BY <1>1, <1>3, <1>4, <1>7 DEF NoOrphans
<1>10. \A x \in answers' \cup escalations' : \E v \in conversations' : v.id = x.conversation
  BY <1>1, <1>4, <1>5, <1>7 DEF NoOrphans
<1>11. \A c, d \in customers' : c.id = d.id \/ c.token = d.token => c = d
  BY <1>3 DEF NoOrphans
<1> QED
  BY <1>8, <1>9, <1>10, <1>11 DEF NoOrphans

(* Each step keeps the rows together. *)
LEMMA RowStep == IInv /\ [Next]_vars => NoOrphans'
<1> SUFFICES ASSUME IInv, [Next]_vars PROVE NoOrphans'
  OBVIOUS
<1>0. CASE UNCHANGED rowVars
  BY <1>0 DEF NoOrphans, rowVars, IInv
<1>1. CASE FinishMigration
  BY <1>1, FinishKeepsRows
<1>2. ASSUME NEW s \in Seeds, LookForToken(s) \/ InsertCustomer(s) \/ PrintToken(s)
      PROVE  NoOrphans'
  <2>1. CASE UNCHANGED customers
    <3>1. UNCHANGED rowVars
      BY <1>2, <2>1, SeedFrame DEF rowVars
    <3> QED
      BY <1>0, <3>1
  <2>2. CASE /\ ~\E c \in customers : c.id = seeded[s].id \/ c.token = seeded[s].token
             /\ customers' = customers \cup {[id |-> seeded[s].id, token |-> seeded[s].token]}
             /\ UNCHANGED <<conversations, answers, evidence, escalations>>
    BY <2>2 DEF NoOrphans, IInv
  <2> QED
    BY <1>2, <2>1, <2>2 DEF LookForToken, Look, InsertCustomer, PrintToken, rowVars
<1>3. ASSUME NEW r \in Requests, Receive(r) \/ Serve(r) PROVE NoOrphans'
  <2>1. CASE UNCHANGED rowVars
    BY <1>0, <2>1
  <2>2. CASE OpenConversation(r)
    <3>1. CASE /\ CustomerExists(who[r])
               /\ \E id : conversations' = conversations \cup {[id |-> id, customer |-> who[r]]}
               /\ UNCHANGED <<customers, answers, evidence, escalations>>
      BY <3>1 DEF NoOrphans, CustomerExists, IInv
    <3> QED
      BY <2>1, <2>2, <3>1 DEF OpenConversation, rowVars
  <2>3. CASE InsertEscalation(r)
    <3>1. CASE /\ CustomerExists(who[r]) /\ ConversationExists(ask[r].about)
               /\ \E id : escalations' = escalations \cup
                     {[id |-> id, conversation |-> ask[r].about, customer |-> who[r]]}
               /\ UNCHANGED <<customers, conversations, answers, evidence>>
      BY <3>1 DEF NoOrphans, CustomerExists, ConversationExists, IInv
    <3> QED
      BY <2>1, <2>3, <3>1 DEF InsertEscalation, rowVars
  <2>4. CASE StoreExchange(r)
    <3> DEFINE answer == [conversation |-> ask[r].about, kind |-> ask[r].call]
               links  == {[answer |-> answer, kind |-> k] : k \in EvidenceOf(ask[r].call)}
    <3>1. answer.conversation = ask[r].about
      OBVIOUS
    <3>2. \A e \in links : e.answer = answer
      OBVIOUS
    <3>3. \/ /\ \E v \in conversations : v.id = ask[r].about
             /\ answers' = answers \cup {answer} /\ evidence' = evidence \cup links
             /\ UNCHANGED <<customers, conversations, escalations>>
          \/ UNCHANGED rowVars
      BY <2>4 DEF StoreExchange, rowVars, ConversationExists
    <3> HIDE DEF answer, links
    <3>4. CASE /\ \E v \in conversations : v.id = ask[r].about
               /\ answers' = answers \cup {answer} /\ evidence' = evidence \cup links
               /\ UNCHANGED <<customers, conversations, escalations>>
      BY <3>1, <3>2, <3>4 DEF NoOrphans, IInv
    <3> QED
      BY <2>1, <3>3, <3>4
  <2>5. OpenConversation(r) \/ InsertEscalation(r) \/ StoreExchange(r) \/ UNCHANGED rowVars
    BY <1>3 DEF Receive, Serve, Authenticate, RejectBody, Health, ReadHistory, UpdateEscalation,
                ReadEscalation, CheckOwner, ServiceRaises
  <2> QED
    BY <2>1, <2>2, <2>3, <2>4, <2>5
<1>4. CASE Migrate \/ MigrationStep \/ KillMigration \/ Outage \/ Recovery \/ StartServer
           \/ StopServer \/ UNCHANGED vars
  <2>1. UNCHANGED rowVars
    BY <1>4 DEF Migrate, MigrationStep, KillMigration, Outage, Recovery, StartServer, StopServer,
                vars
  <2> QED
    BY <1>0, <2>1
<1> QED
  BY <1>1, <1>2, <1>3, <1>4 DEF Next

LEMMA Invariance == Spec => []IInv
<1>1. IInv /\ [Next]_vars => IInv'
  BY TypesStep, SchemaStep, KindStep, RowStep DEF IInv
<1> QED
  BY <1>1, InitIInv, PTL DEF Spec

(* No row loses the one it belongs to: a migration may drop tables under   *)
(* running requests, and seeds may run at the same time.                   *)
THEOREM RowsAreOwned == Spec => []NoOrphans
<1>1. IInv => NoOrphans
  BY DEF IInv
<1> QED
  BY <1>1, Invariance, PTL

-----------------------------------------------------------------------------
(* What seeds print. *)

(* What is known of the seeds that stay as they are stays true, and to     *)
(* find a customer is nothing new.                                         *)
LEMMA SeedsKeep ==
  ASSUME SeededTokenIsKnown, customers \subseteq customers',
         \A t \in Past' \ overtaken' :
           \/ /\ t \in Past \ overtaken
              /\ seeded'[t].id = seeded[t].id /\ seeded'[t].token = seeded[t].token
              /\ seeded'[t].at \in {"inserted", "created"} =>
                   seeded[t].at \in {"inserted", "created"}
           \/ /\ seeded'[t].at \notin {"inserted", "created"}
              /\ \E c \in customers' : c.token = seeded'[t].token
  PROVE  SeededTokenIsKnown'
<1>1. ASSUME NEW t \in Past' \ overtaken'
      PROVE  /\ \E c \in customers' : c.token = seeded'[t].token
             /\ seeded'[t].at \in {"inserted", "created"} =>
                  [id |-> seeded'[t].id, token |-> seeded'[t].token] \in customers'
  BY <1>1 DEF SeededTokenIsKnown
<1>2. ASSUME NEW t \in Past' \ overtaken', NEW u \in Past' \ overtaken', t # u,
             seeded'[t].at \in {"inserted", "created"}, seeded'[u].at \in {"inserted", "created"}
      PROVE  seeded'[u].id # seeded'[t].id /\ seeded'[u].token # seeded'[t].token
  BY <1>2 DEF SeededTokenIsKnown
<1> QED
  BY <1>1, <1>2 DEF SeededTokenIsKnown

(* A seed that inserts finds neither its id nor its token, so that what    *)
(* the others have been told stays true of them.                           *)
LEMMA InsertTellsTheTruth ==
  ASSUME Types, SeededTokenIsKnown, NEW s \in Seeds, InsertCustomer(s)
  PROVE  SeededTokenIsKnown'
<1> USE DEF Types
<1>1. UNCHANGED overtaken
  BY SeedFrame
<1>2. CASE Ends(s, "error") /\ UNCHANGED customers
  <2>1. \A t \in Seeds : t # s => seeded'[t] = seeded[t]
    BY <1>2 DEF Ends
  <2>2. seeded'[s].at = "error"
    BY <1>2 DEF Ends, NoSeed
  <2>3. Past' \subseteq Past
    BY <2>1, <2>2 DEF Past
  <2>4. \A t \in Past' : t \in Seeds /\ t # s
    BY <2>2 DEF Past
  <2>5. \A t \in Past' \ overtaken' : t \in Past \ overtaken /\ seeded'[t] = seeded[t]
    BY <1>1, <2>1, <2>3, <2>4
  <2> QED
    BY <1>2, <2>5, SeedsKeep
<1>3. CASE /\ ~\E c \in customers : c.id = seeded[s].id \/ c.token = seeded[s].token
           /\ Reached(s, "inserted")
           /\ customers' = customers \cup {[id |-> seeded[s].id, token |-> seeded[s].token]}
  <2> DEFINE new == [id |-> seeded[s].id, token |-> seeded[s].token]
  <2>1. \A t \in Seeds : t # s => seeded'[t] = seeded[t]
    BY <1>3 DEF Reached
  <2>2. /\ seeded'[s].id = seeded[s].id /\ seeded'[s].token = seeded[s].token
        /\ seeded'[s].at = "inserted"
    BY <1>3 DEF Reached
  <2>3. Past' = Past \cup {s}
    BY <2>1, <2>2 DEF Past
  <2>4. new \in customers' /\ new.token = seeded[s].token /\ new.id = seeded[s].id
    BY <1>3
  <2>5. \A t \in Past \ overtaken : t # s /\ seeded[t].at \in {"inserted", "created"} =>
          seeded[t].id # seeded[s].id /\ seeded[t].token # seeded[s].token
    <3> SUFFICES ASSUME NEW t \in Past \ overtaken, seeded[t].at \in {"inserted", "created"}
                 PROVE  seeded[t].id # seeded[s].id /\ seeded[t].token # seeded[s].token
      OBVIOUS
    <3>1. [id |-> seeded[t].id, token |-> seeded[t].token] \in customers
      BY DEF SeededTokenIsKnown
    <3> QED
      BY <1>3, <3>1
  <2>6. ASSUME NEW t \in Past' \ overtaken'
        PROVE  /\ \E c \in customers' : c.token = seeded'[t].token
               /\ seeded'[t].at \in {"inserted", "created"} =>
                    [id |-> seeded'[t].id, token |-> seeded'[t].token] \in customers'
    <3>1. CASE t = s
      BY <2>2, <2>4, <3>1
    <3>2. CASE t # s
      <4>1. t \in Past \ overtaken /\ seeded'[t] = seeded[t]
        BY <1>1, <2>1, <2>3, <2>6, <3>2 DEF Past
      <4> QED
        BY <1>3, <4>1 DEF SeededTokenIsKnown
    <3> QED
      BY <3>1, <3>2
  <2>7. ASSUME NEW t \in Past' \ overtaken', NEW u \in Past' \ overtaken', t # u,
               seeded'[t].at \in {"inserted", "created"}, seeded'[u].at \in {"inserted", "created"}
        PROVE  seeded'[u].id # seeded'[t].id /\ seeded'[u].token # seeded'[t].token
    <3>1. \A x \in {t, u} : x # s => x \in Past \ overtaken /\ seeded'[x] = seeded[x]
      BY <1>1, <2>1, <2>3, <2>7 DEF Past
    <3>2. CASE t = s
      BY <2>2, <2>5, <2>7, <3>1, <3>2
    <3>3. CASE u = s
      BY <2>2, <2>5, <2>7, <3>1, <3>3
    <3>4. CASE t # s /\ u # s
      <4>1. /\ t \in Past \ overtaken /\ seeded'[t] = seeded[t]
            /\ u \in Past \ overtaken /\ seeded'[u] = seeded[u]
        BY <3>1, <3>4
      <4> QED
        BY <2>7, <4>1 DEF SeededTokenIsKnown
    <3> QED
      BY <3>2, <3>3, <3>4
  <2> QED
    BY <2>6, <2>7 DEF SeededTokenIsKnown
<1> QED
  BY <1>2, <1>3 DEF InsertCustomer

(* Only inserts add to the customers, and only a migration that drops them *)
(* takes any away; it overtakes every seed that has ended.                 *)
LEMMA SeedsStep == Types /\ SeededTokenIsKnown /\ [Next]_vars => SeededTokenIsKnown'
<1> SUFFICES ASSUME Types, SeededTokenIsKnown, [Next]_vars PROVE SeededTokenIsKnown'
  OBVIOUS
<1>1. CASE UNCHANGED <<customers, seedVars>>
  BY <1>1 DEF SeededTokenIsKnown, Past, seedVars
<1>2. CASE Outage
  <2>1. UNCHANGED <<customers, overtaken>>
    BY <1>2 DEF Outage, rowVars
  <2>2. \A s \in Seeds : seeded'[s] = seeded[s] \/ seeded'[s].at = "error"
    BY <1>2 DEF Outage, NoSeed
  <2>3. \A s \in Past' : s \in Past /\ seeded'[s] = seeded[s]
    BY <2>2 DEF Past
  <2> QED
    BY <2>1, <2>3 DEF SeededTokenIsKnown
<1>3. CASE FinishMigration
  <2>1. UNCHANGED seeded
    BY <1>3 DEF FinishMigration
  <2>2. Past' = Past
    BY <2>1 DEF Past
  <2>3. \/ UNCHANGED <<customers, overtaken>>
        \/ overtaken' = overtaken \cup Past
    BY <1>3 DEF FinishMigration
  <2> QED
    BY <2>1, <2>2, <2>3 DEF SeededTokenIsKnown
<1>4. ASSUME NEW s \in Seeds, LookForToken(s) PROVE SeededTokenIsKnown'
  <2>1. PICK id \in Ids, token \in Tokens :
          seeded' = [seeded EXCEPT ![s] =
            IF ~Works({"synthetic_customers"}) THEN [NoSeed EXCEPT !.at = "error"]
            ELSE IF KnownByToken(id, token) THEN [id |-> "none", token |-> token, at |-> "found"]
            ELSE [id |-> id, token |-> token, at |-> "looked"]]
    BY <1>4 DEF LookForToken, Look
  <2>2. UNCHANGED <<customers, overtaken>>
    BY <1>4 DEF LookForToken, Look, rowVars
  <2>3. \A t \in Seeds : t # s => seeded'[t] = seeded[t]
    BY <2>1 DEF Types
  <2>4. \/ seeded'[s].at \in {"error", "looked"}
        \/ /\ seeded'[s].at = "found"
           /\ \E c \in customers : c.token = seeded'[s].token
    BY <2>1 DEF Types, NoSeed, KnownByToken
  <2>5. \A t \in Past' : t # s => t \in Past
    BY <2>3 DEF Past
  <2>6. s \in Past' => /\ seeded'[s].at = "found"
                       /\ \E c \in customers : c.token = seeded'[s].token
    BY <2>4 DEF Past
  <2>7. Past' \subseteq Seeds
    BY DEF Past
  <2>8. ASSUME NEW t \in Past' \ overtaken'
        PROVE  \/ t \in Past \ overtaken /\ seeded'[t] = seeded[t]
               \/ /\ seeded'[t].at \notin {"inserted", "created"}
                  /\ \E c \in customers' : c.token = seeded'[t].token
    BY <2>2, <2>3, <2>5, <2>6, <2>7
  <2> QED
    BY <2>2, <2>8, SeedsKeep
<1>5. ASSUME NEW s \in Seeds, InsertCustomer(s) PROVE SeededTokenIsKnown'
  BY <1>5, InsertTellsTheTruth
<1>6. ASSUME NEW s \in Seeds, PrintToken(s) PROVE SeededTokenIsKnown'
  <2>1. UNCHANGED <<customers, overtaken>>
    BY <1>6 DEF PrintToken, rowVars
  <2>2. \A t \in Seeds : t # s => seeded'[t] = seeded[t]
    BY <1>6 DEF PrintToken, Reached, Types
  <2>3. /\ seeded'[s].id = seeded[s].id /\ seeded'[s].token = seeded[s].token
        /\ \/ seeded[s].at = "found" /\ seeded'[s].at = "existing"
           \/ seeded[s].at = "inserted" /\ seeded'[s].at = "created"
    BY <1>6 DEF PrintToken, Reached, Types
  <2>4. Past' = Past
    BY <2>2, <2>3 DEF Past
  <2>5. \A t \in Seeds : /\ seeded'[t].id = seeded[t].id /\ seeded'[t].token = seeded[t].token
                         /\ seeded'[t].at \in {"inserted", "created"} =>
                              seeded[t].at \in {"inserted", "created"}
    BY <2>2, <2>3
  <2>6. Past \subseteq Seeds
    BY DEF Past
  <2> QED
    BY <2>1, <2>4, <2>5, <2>6 DEF SeededTokenIsKnown
<1>7. ASSUME NEW r \in Requests, Receive(r) \/ Serve(r) PROVE UNCHANGED <<customers, seedVars>>
  BY <1>7, RequestFrame
<1>8. CASE Migrate \/ MigrationStep \/ KillMigration \/ Recovery \/ StartServer \/ StopServer
           \/ UNCHANGED vars
  <2>1. UNCHANGED <<customers, seedVars>>
    BY <1>8 DEF Migrate, MigrationStep, KillMigration, Recovery, StartServer, StopServer, vars,
                rowVars
  <2> QED
    BY <1>1, <2>1
<1> QED
  BY <1>1, <1>2, <1>3, <1>4, <1>5, <1>6, <1>7, <1>8 DEF Next

(* The token a seed prints lets a customer in, and one seed only has       *)
(* created that customer, in whatever order the SELECTs, inserts and       *)
(* prints of any number of seeds fall; unless a downgrade dropped the      *)
(* customers since the seed's transaction ended.                           *)
THEOREM SeedsTellTheTruth == Spec => []SeededTokenIsKnown
<1>1. Init => SeededTokenIsKnown
  BY DEF Init, SeededTokenIsKnown, Past, NoSeed
<1>2. IInv => Types
  BY DEF IInv
<1> QED
  BY <1>1, <1>2, SeedsStep, Invariance, PTL DEF Spec

-----------------------------------------------------------------------------
(* Migrations beside the server. *)
LEMMA MigrationSteps == [Next]_vars => MigrationNext
<1> SUFFICES ASSUME [Next]_vars PROVE MigrationNext
  OBVIOUS
<1> USE DEF MigrationNext
<1>1. CASE Migrate
  BY <1>1 DEF Migrate
<1>2. CASE MigrationStep \/ FinishMigration
  BY <1>2 DEF MigrationStep, FinishMigration
<1>3. CASE KillMigration \/ Outage
  BY <1>3 DEF KillMigration, InterruptMigration, Outage
<1>4. ASSUME NEW s \in Seeds, LookForToken(s) \/ InsertCustomer(s) \/ PrintToken(s)
      PROVE  UNCHANGED schemaVars
  BY <1>4, SeedFrame
<1>5. ASSUME NEW r \in Requests, Receive(r) \/ Serve(r) PROVE UNCHANGED schemaVars
  BY <1>5, RequestFrame
<1>6. CASE Recovery \/ StartServer \/ StopServer \/ UNCHANGED vars
  BY <1>6 DEF Recovery, StartServer, StopServer, vars
<1> QED
  BY <1>1, <1>2, <1>3, <1>4, <1>5, <1>6 DEF Next

LEMMA MigrationInvariance == Spec => []MigrationInv
<1>1. Init => MigrationInv
  BY InitMigrationInv DEF Init
<1> QED
  BY <1>1, MigrationSteps, MigrationStepInv, PTL DEF Spec

(* Every statement of every command applies, wherever it starts, whatever  *)
(* it is asked for, and whichever commands were killed before it.          *)
THEOREM MigrationsNeverFail == Spec => []MigrationsApply
<1>1. MigrationInv => MigrationsApply
  BY DEF MigrationInv
<1> QED
  BY <1>1, MigrationInvariance, PTL

(* A command killed at any statement, or cut off by an outage, leaves the  *)
(* schema of the revision that alembic_version names.                      *)
THEOREM SchemaFitsItsRevision == Spec => []SchemaIsARevision
<1>1. MigrationInv => SchemaIsARevision
  BY DEF MigrationInv
<1> QED
  BY <1>1, MigrationInvariance, PTL

-----------------------------------------------------------------------------
(* Requests on the latest revision. *)

CallerTypes ==
  /\ who \in [Requests -> Ids \cup {"none"}]
  /\ opened \in [Requests -> Escalations \cup {"none"}]
  /\ reply \in [Requests -> Codes \cup {"none"}]
  /\ customers \subseteq [id : Ids \cup {"none"}, token : Tokens \cup {"none"}]

(* A cut-off connection waits in the pool only until an outage has had its *)
(* price, and what others had taken by then is paid for.                   *)
PoolInv == (pool = "stale" => owed) /\ cut \subseteq disturbed

(* What a request in flight relies on as long as nothing disturbs it: the  *)
(* latest schema, no migration, a database that answers, and the rows that *)
(* its earlier transactions found.                                         *)
UndisturbedInv ==
  \A r \in Requests \ disturbed : pc[r] # "idle" =>
    /\ revision = Latest /\ ~job.running /\ database = "up"
    /\ pc[r] \in {"act", "store", "insert"} /\ ask[r].call # "health" => CustomerExists(who[r])
    /\ pc[r] \in {"store", "insert"} => ConversationExists(ask[r].about)
    /\ pc[r] = "update" => \E e \in escalations : e.id = opened[r]

ServiceInv == IInv /\ MigrationInv /\ CallerTypes /\ PoolInv /\ UndisturbedInv /\ ServedAtLatest

LEMMA CallerTypesStep == Types /\ CallerTypes /\ [Next]_vars => CallerTypes'
<1> SUFFICES ASSUME Types, CallerTypes, [Next]_vars PROVE CallerTypes'
  OBVIOUS
<1> USE DEF CallerTypes
<1>1. CASE UNCHANGED <<customers, who, opened, reply>>
  BY <1>1
<1>2. CASE FinishMigration
  BY <1>2 DEF FinishMigration, requestVars
<1>3. CASE StopServer
  BY <1>3 DEF StopServer, rowVars
<1>4. ASSUME NEW s \in Seeds, LookForToken(s) \/ InsertCustomer(s) \/ PrintToken(s)
      PROVE  CallerTypes'
  <2>1. UNCHANGED <<who, opened, reply>>
    BY <1>4, SeedFrame DEF requestVars
  <2>2. \/ customers' = customers
        \/ customers' = customers \cup {[id |-> seeded[s].id, token |-> seeded[s].token]}
    BY <1>4 DEF LookForToken, Look, InsertCustomer, PrintToken, rowVars
  <2> QED
    BY <2>1, <2>2 DEF Types
<1>5. ASSUME NEW r \in Requests, Receive(r) PROVE CallerTypes'
  BY <1>5, RequestFrame DEF Receive
<1>6. ASSUME NEW r \in Requests, Serve(r) PROVE CallerTypes'
  <2>1. customers' = customers
    BY <1>6, RequestFrame
  <2>2. CASE \E code \in Codes : Answer(r, code)
    BY <2>1, <2>2 DEF Answer
  <2>3. CASE /\ UNCHANGED <<ask, reply>>
             /\ (who' = who \/ \E c \in customers : who' = [who EXCEPT ![r] = c.id])
             /\ (opened' = opened \/ \E id \in Escalations : opened' = [opened EXCEPT ![r] = id])
    BY <2>1, <2>3
  <2> QED
    BY <1>6, <2>2, <2>3, ServeMoves
<1>7. CASE Migrate \/ MigrationStep \/ KillMigration \/ Outage \/ Recovery \/ StartServer
           \/ UNCHANGED vars
  BY <1>1, <1>7 DEF Migrate, MigrationStep, KillMigration, Outage, Recovery, StartServer, vars,
                    rowVars, requestVars
<1> QED
  BY <1>2, <1>3, <1>4, <1>5, <1>6, <1>7 DEF Next

(* Each step of a request either leaves the pool alone or takes a          *)
(* connection from it.                                                     *)
LEMMA ServeUsesPool ==
  ASSUME NEW r \in Requests, Serve(r)
  PROVE  UNCHANGED <<pool, cut, owed, disturbed>> \/ UsePool(r)
BY DEF Serve, Authenticate, RejectBody, Health, OpenConversation, ReadHistory, InsertEscalation,
       UpdateEscalation, ReadEscalation, CheckOwner, StoreExchange, ServiceRaises, serverVars

LEMMA UsePoolKeeps ==
  ASSUME PoolInv, NEW r \in Requests, UsePool(r)
  PROVE  /\ PoolInv'
         /\ disturbed \subseteq disturbed'
         /\ r \notin disturbed' => pool # "stale" /\ r \notin cut
<1>1. PICK others \in SUBSET (IF pool = "stale" THEN InFlight \ {r} ELSE {}) :
        /\ cut' = (cut \ {r}) \cup others
        /\ disturbed' = IF pool = "stale" /\ owed
                        THEN disturbed \cup {r} \cup others ELSE disturbed
  BY DEF UsePool
<1>2. pool' # "stale"
  BY DEF UsePool
<1>3. CASE pool = "stale"
  BY <1>1, <1>2, <1>3 DEF PoolInv
<1>4. CASE pool # "stale"
  BY <1>1, <1>2, <1>4 DEF PoolInv
<1> QED
  BY <1>3, <1>4

LEMMA PoolStep == PoolInv /\ [Next]_vars => PoolInv'
<1> SUFFICES ASSUME PoolInv, [Next]_vars PROVE PoolInv'
  OBVIOUS
<1>1. CASE UNCHANGED <<pool, cut, owed>> /\ disturbed \subseteq disturbed'
  BY <1>1 DEF PoolInv
<1>2. CASE Outage
  BY <1>2 DEF Outage, Disturb, PoolInv
<1>3. CASE StopServer
  BY <1>3 DEF StopServer, PoolInv
<1>4. ASSUME NEW r \in Requests, Receive(r) PROVE PoolInv'
  BY <1>4 DEF Receive, PoolInv
<1>5. ASSUME NEW r \in Requests, Serve(r) PROVE PoolInv'
  BY <1>1, <1>5, ServeUsesPool, UsePoolKeeps
<1>6. ASSUME NEW s \in Seeds, LookForToken(s) \/ InsertCustomer(s) \/ PrintToken(s) PROVE PoolInv'
  BY <1>1, <1>6, SeedFrame DEF requestVars, serverVars
<1>7. CASE Migrate \/ MigrationStep \/ FinishMigration \/ KillMigration \/ Recovery \/ StartServer
           \/ UNCHANGED vars
  BY <1>1, <1>7 DEF Migrate, MigrationStep, FinishMigration, KillMigration, Recovery, StartServer,
                    vars, requestVars, serverVars, Disturb
<1> QED
  BY <1>2, <1>3, <1>4, <1>5, <1>6, <1>7 DEF Next

(* The latest revision has every table that the server's code uses. *)
LEMMA TablesExist ==
  /\ "synthetic_customers" \in ObjectsAt(Latest)
  /\ \A call \in Calls \cup {"none"} : Tables(call) \subseteq ObjectsAt(Latest)
<1>1. {"synthetic_customers", "conversations", "messages", "escalations",
       "message_plan_evidence", "message_bill_evidence", "message_charge_evidence",
       "message_plan_comparison_evidence", "plan_snapshots", "bill_snapshots", "bill_line_items",
       "charge_evidence_snapshots", "plan_comparison_snapshots", "plan_comparison_offers"}
         \subseteq ObjectsAt(Latest)
  BY Objects DEF Latest
<1>2. DOMAIN EvidenceTable = {"plan", "bill", "charge", "comparison"}
  BY DEF EvidenceTable
<1>3. \A k \in DOMAIN EvidenceTable : EvidenceTable[k] \in ObjectsAt(Latest)
  BY <1>1, <1>2 DEF EvidenceTable
<1>4. \A k \in DOMAIN EvidenceTable : SnapshotTables[k] \subseteq ObjectsAt(Latest)
  BY <1>1, <1>2 DEF SnapshotTables
<1>5. \A kind \in Kinds : EvidenceOf(kind) \subseteq DOMAIN EvidenceTable
  BY <1>2, KindAssumption DEF EvidenceOf
<1>6. \A kind \in Kinds : kind \notin {"open", "history", "escalate", "status"}
  BY <1>2, KindAssumption
<1>7. ASSUME NEW call \in Kinds PROVE Tables(call) \subseteq ObjectsAt(Latest)
  <2>1. Tables(call) = {"messages", "conversations", "synthetic_customers"}
                         \cup UNION {SnapshotTables[k] \cup {EvidenceTable[k]} :
                                       k \in EvidenceOf(call)}
    BY <1>6 DEF Tables
  <2> QED
    BY <1>1, <1>3, <1>4, <1>5, <2>1
<1>8. ASSUME NEW call, call \notin Kinds PROVE Tables(call) \subseteq ObjectsAt(Latest)
  BY <1>1, <1>3, <1>8 DEF Tables
<1> QED
  BY <1>1, <1>7, <1>8

(* Statements of an undisturbed request work. *)
LEMMA UndisturbedWorks ==
  ASSUME ServiceInv, NEW r \in Requests, r \notin disturbed, pc[r] # "idle",
         pool # "stale", r \notin cut
  PROVE  /\ Connected(r)
         /\ ServerWorks(r, {"synthetic_customers"}) /\ ServerWorks(r, {"conversations"})
         /\ ServerWorks(r, {"escalations"})
         /\ \A call \in Calls \cup {"none"} : ServerWorks(r, Tables(call))
         /\ \A v : ServerWorks(r, HistoryTables(v))
<1>1. schema = ObjectsAt(Latest) /\ Connected(r)
  BY DEF ServiceInv, UndisturbedInv, MigrationInv, SchemaIsARevision, Connected
<1>2. {"open", "history", "status"} \subseteq Calls
  BY DEF Calls
<1>3. "conversations" \in Tables("open") /\ "escalations" \in Tables("status")
  <2>1. "open" \notin Kinds /\ "status" \notin Kinds
    BY KindAssumption DEF EvidenceTable
  <2> QED
    BY <2>1 DEF Tables
<1>4. \A v : HistoryTables(v) \subseteq Tables("history")
  BY DEF HistoryTables, Tables
<1>5. /\ Tables("open") \subseteq ObjectsAt(Latest) /\ Tables("history") \subseteq ObjectsAt(Latest)
      /\ Tables("status") \subseteq ObjectsAt(Latest)
  BY <1>2, TablesExist
<1> QED
  BY <1>1, <1>3, <1>4, <1>5, TablesExist DEF ServerWorks

(* A step of an undisturbed request does not fail, and leaves the request  *)
(* with what its next step relies on.                                      *)
LEMMA UndisturbedServe ==
  ASSUME ServiceInv, NEW r \in Requests, r \notin disturbed', Serve(r)
  PROVE  /\ reply'[r] \notin Failures
         /\ pc'[r] \in {"act", "store", "insert"} => CustomerExists(who[r])'
         /\ pc'[r] \in {"store", "insert"} => ConversationExists(ask[r].about)'
         /\ pc'[r] = "update" => \E e \in escalations' : e.id = opened'[r]
<1> USE DEF ServiceInv
<1>1. /\ pc \in [Requests -> {"idle", "auth", "act", "store", "insert", "update"}]
      /\ who \in [Requests -> Ids \cup {"none"}]
      /\ opened \in [Requests -> Escalations \cup {"none"}]
      /\ r \in DOMAIN reply /\ r \in DOMAIN ask /\ ask[r].call \in Calls \cup {"none"}
  BY DEF IInv, Types, CallerTypes
<1>2. /\ r \notin disturbed /\ pc[r] # "idle" /\ reply[r] \notin Failures
      /\ UsePool(r) => pool # "stale" /\ r \notin cut
  BY ServeUsesPool, UsePoolKeeps, ServeMoves DEF ServedAtLatest, Failures
<1>3. /\ pc[r] \in {"act", "store", "insert"} /\ ask[r].call # "health" => CustomerExists(who[r])
      /\ pc[r] \in {"store", "insert"} => ConversationExists(ask[r].about)
      /\ pc[r] = "update" => \E e \in escalations : e.id = opened[r]
  BY <1>2 DEF UndisturbedInv
<1>4. UsePool(r) =>
        /\ Connected(r)
        /\ ServerWorks(r, {"synthetic_customers"}) /\ ServerWorks(r, {"conversations"})
        /\ ServerWorks(r, {"escalations"})
        /\ \A call \in Calls \cup {"none"} : ServerWorks(r, Tables(call))
        /\ \A v : ServerWorks(r, HistoryTables(v))
  BY <1>2, UndisturbedWorks
<1>5. ASSUME NEW code \in {"done", "refused", "raised"}, Answer(r, code)
      PROVE  reply'[r] \notin Failures /\ pc'[r] = "idle"
  BY <1>1, <1>5 DEF Answer, Goto, Failures
<1>6. CASE Authenticate(r)
  <2>1. CASE Answer(r, "refused")
    BY <1>5, <2>1
  <2>2. ASSUME NEW c \in customers, who' = [who EXCEPT ![r] = c.id], Goto(r, "act"),
               UNCHANGED <<ask, opened, reply>>
        PROVE  pc'[r] = "act" /\ CustomerExists(who[r])' /\ reply'[r] \notin Failures
    <3>1. customers' = customers
      BY <1>6, RequestFrame DEF Serve
    <3> QED
      BY <1>1, <1>2, <2>2, <3>1 DEF Goto, CustomerExists
  <2>3. \/ Answer(r, "refused")
        \/ \E c \in customers : /\ who' = [who EXCEPT ![r] = c.id] /\ Goto(r, "act")
                                /\ UNCHANGED <<ask, opened, reply>>
    BY <1>4, <1>6 DEF Authenticate
  <2> QED
    BY <2>1, <2>2, <2>3
<1>7. CASE RejectBody(r) \/ ServiceRaises(r)
  BY <1>5, <1>7 DEF RejectBody, ServiceRaises
<1>8. CASE Health(r)
  BY <1>4, <1>5, <1>8 DEF Health
<1>9. CASE OpenConversation(r)
  <2>1. CustomerExists(who[r]) /\ "open" \in Calls
    BY <1>3, <1>9 DEF OpenConversation, Calls
  <2>2. Answer(r, "done")
    BY <1>4, <1>9, <2>1 DEF OpenConversation
  <2> QED
    BY <1>5, <2>2
<1>10. CASE ReadHistory(r)
  <2>1. CASE OwnsConversation(r) /\ Proceeds(r, "insert")
    <3>1. UNCHANGED <<customers, conversations, who, ask, reply>> /\ pc'[r] = "insert"
      BY <1>1, <1>10, <2>1 DEF ReadHistory, Proceeds, Goto, rowVars
    <3>2. CustomerExists(who[r])
      BY <1>3, <1>10 DEF ReadHistory
    <3>3. ConversationExists(ask[r].about)
      BY <2>1 DEF OwnsConversation, ConversationExists
    <3> QED
      BY <1>2, <3>1, <3>2, <3>3 DEF CustomerExists, ConversationExists
  <2>2. UsePool(r)
    BY <1>10 DEF ReadHistory
  <2>3. (OwnsConversation(r) /\ Proceeds(r, "insert")) \/ Answer(r, "refused") \/ Answer(r, "done")
    BY <1>4, <1>10, <2>2 DEF ReadHistory
  <2> QED
    BY <1>5, <2>1, <2>3
<1>11. CASE InsertEscalation(r)
  <2>1. CustomerExists(who[r]) /\ ConversationExists(ask[r].about)
    <3>1. pc[r] = "insert" /\ ask[r].call # "health"
      BY <1>11 DEF InsertEscalation, IInv, RequestInv
    <3> QED
      BY <1>3, <3>1
  <2>2. ServerWorks(r, Tables("escalate")) /\ UsePool(r)
    BY <1>4, <1>11 DEF InsertEscalation, Calls
  <2>3. CASE Answer(r, "refused")
    BY <1>5, <2>3
  <2>4. ASSUME NEW id \in Escalations,
               escalations' = escalations \cup
                 {[id |-> id, conversation |-> ask[r].about, customer |-> who[r]]},
               opened' = [opened EXCEPT ![r] = id], Goto(r, "update"), UNCHANGED <<ask, who, reply>>
        PROVE  pc'[r] = "update" /\ reply'[r] \notin Failures
               /\ \E e \in escalations' : e.id = opened'[r]
    <3> DEFINE new == [id |-> id, conversation |-> ask[r].about, customer |-> who[r]]
    <3>1. new \in escalations' /\ new.id = id
      BY <2>4
    <3>2. opened'[r] = id /\ pc'[r] = "update" /\ reply'[r] = reply[r]
      BY <1>1, <2>4 DEF Goto
    <3> HIDE DEF new
    <3> QED
      BY <1>2, <3>1, <3>2
  <2>5. \/ Answer(r, "refused")
        \/ \E id \in Escalations :
             /\ escalations' = escalations \cup
                  {[id |-> id, conversation |-> ask[r].about, customer |-> who[r]]}
             /\ opened' = [opened EXCEPT ![r] = id] /\ Goto(r, "update")
             /\ UNCHANGED <<ask, who, reply>>
    BY <1>11, <2>1, <2>2 DEF InsertEscalation
  <2> QED
    BY <2>3, <2>4, <2>5, <1>5
<1>12. CASE UpdateEscalation(r)
  <2>1. \E e \in escalations : e.id = opened[r]
    BY <1>3, <1>12 DEF UpdateEscalation
  <2>2. Answer(r, "done")
    BY <1>4, <1>12, <2>1 DEF UpdateEscalation
  <2> QED
    BY <1>5, <2>2
<1>13. CASE ReadEscalation(r)
  <2>1. "status" \in Calls
    BY DEF Calls
  <2>2. Answer(r, "done") \/ Answer(r, "refused")
    BY <1>4, <1>13, <2>1 DEF ReadEscalation
  <2> QED
    BY <1>5, <2>2
<1>14. CASE CheckOwner(r)
  <2>1. CASE Answer(r, "refused")
    BY <1>5, <2>1
  <2>2. CASE OwnsConversation(r) /\ Proceeds(r, "store")
    <3>1. UNCHANGED <<customers, conversations, who, ask, reply>> /\ pc'[r] = "store"
      BY <1>1, <1>14, <2>2 DEF CheckOwner, Proceeds, Goto, rowVars
    <3>2. CustomerExists(who[r])
      <4>1. ask[r].call # "health" /\ pc[r] = "act"
        BY <1>14, KindAssumption DEF CheckOwner, EvidenceTable
      <4> QED
        BY <1>3, <4>1
    <3>3. ConversationExists(ask[r].about)
      BY <2>2 DEF OwnsConversation, ConversationExists
    <3> QED
      BY <1>2, <3>1, <3>2, <3>3 DEF CustomerExists, ConversationExists
  <2>3. Answer(r, "refused") \/ (OwnsConversation(r) /\ Proceeds(r, "store"))
    BY <1>4, <1>14 DEF CheckOwner
  <2> QED
    BY <2>1, <2>2, <2>3
<1>15. CASE StoreExchange(r)
  <2>1. CustomerExists(who[r]) /\ ConversationExists(ask[r].about)
    <3>1. pc[r] = "store" /\ ask[r].call \in Kinds
      BY <1>15 DEF StoreExchange, IInv, RequestInv
    <3>2. ask[r].call # "health"
      BY <3>1, KindAssumption DEF EvidenceTable
    <3> QED
      BY <1>3, <3>1, <3>2
  <2>2. Answer(r, "done")
    BY <1>1, <1>4, <1>15, <2>1 DEF StoreExchange
  <2> QED
    BY <1>5, <2>2
<1> QED
  BY <1>6, <1>7, <1>8, <1>9, <1>10, <1>11, <1>12, <1>13, <1>14, <1>15 DEF Serve

(* A step of a request takes nothing from the others. *)
LEMMA OthersKeep ==
  ASSUME Types, CallerTypes, NEW r \in Requests, Serve(r)
  PROVE  /\ conversations \subseteq conversations' /\ escalations \subseteq escalations'
         /\ \A q \in Requests \ {r} :
              /\ pc'[q] = pc[q] /\ ask'[q] = ask[q] /\ reply'[q] = reply[q]
              /\ who'[q] = who[q] /\ opened'[q] = opened[q]
<1>1. conversations \subseteq conversations' /\ escalations \subseteq escalations'
  <2>1. CASE Authenticate(r) \/ RejectBody(r) \/ Health(r) \/ ReadHistory(r)
             \/ UpdateEscalation(r) \/ ReadEscalation(r) \/ CheckOwner(r) \/ ServiceRaises(r)
    BY <2>1 DEF Authenticate, RejectBody, Health, ReadHistory, UpdateEscalation, ReadEscalation,
                CheckOwner, ServiceRaises, rowVars
  <2>2. CASE OpenConversation(r)
    BY <2>2 DEF OpenConversation
  <2>3. CASE InsertEscalation(r)
    BY <2>3 DEF InsertEscalation
  <2>4. CASE StoreExchange(r)
    BY <2>4 DEF StoreExchange
  <2> QED
    BY <2>1, <2>2, <2>3, <2>4 DEF Serve
<1>2. CASE \E code \in Codes : Answer(r, code)
  BY <1>1, <1>2 DEF Answer, Goto, Types, CallerTypes
<1>3. CASE /\ UNCHANGED <<ask, reply>>
           /\ \E stage \in {"act", "store", "insert", "update"} : Goto(r, stage)
           /\ (who' = who \/ \E c \in customers : who' = [who EXCEPT ![r] = c.id])
           /\ (opened' = opened \/ \E id \in Escalations : opened' = [opened EXCEPT ![r] = id])
  BY <1>1, <1>3 DEF Goto, Types, CallerTypes
<1> QED
  BY <1>2, <1>3, ServeMoves

(* Commands and outages disturb every request in flight; what is left only *)
(* adds rows, and moves none of the others.                                *)
LEMMA UndisturbedStep == ServiceInv /\ [Next]_vars => UndisturbedInv' /\ ServedAtLatest'
<1> SUFFICES ASSUME ServiceInv, [Next]_vars PROVE UndisturbedInv' /\ ServedAtLatest'
  OBVIOUS
<1> USE DEF ServiceInv
<1>1. /\ pc \in [Requests -> {"idle", "auth", "act", "store", "insert", "update"}]
      /\ Requests = DOMAIN reply /\ Requests = DOMAIN ask
  BY DEF IInv, Types, CallerTypes
<1>2. ASSUME disturbed' = disturbed \cup InFlight, UNCHANGED <<pc, reply>>
      PROVE  UndisturbedInv' /\ ServedAtLatest'
  BY <1>1, <1>2 DEF UndisturbedInv, ServedAtLatest, InFlight
<1>3. CASE UNCHANGED <<revision, job, database, customers, conversations, escalations, requestVars>>
  BY <1>3 DEF UndisturbedInv, ServedAtLatest, requestVars, CustomerExists, ConversationExists
<1>4. CASE Migrate \/ Outage
  BY <1>2, <1>4 DEF Migrate, Outage, Disturb
<1>5. ASSUME job.running, UNCHANGED requestVars PROVE UndisturbedInv' /\ ServedAtLatest'
  BY <1>5 DEF UndisturbedInv, ServedAtLatest, requestVars
<1>6. CASE MigrationStep \/ FinishMigration \/ KillMigration
  BY <1>5, <1>6 DEF MigrationStep, RunStatement, NextRevision, FinishMigration, CommitMigration,
                    KillMigration, InterruptMigration
<1>7. CASE Recovery
  BY <1>7 DEF Recovery, UndisturbedInv, ServedAtLatest, requestVars
<1>8. CASE StopServer
  BY <1>8 DEF StopServer, UndisturbedInv, ServedAtLatest
<1>9. ASSUME NEW s \in Seeds, LookForToken(s) \/ InsertCustomer(s) \/ PrintToken(s)
      PROVE  UndisturbedInv' /\ ServedAtLatest'
  <2>1. customers \subseteq customers'
    BY <1>9 DEF LookForToken, Look, InsertCustomer, PrintToken, rowVars
  <2>2. UNCHANGED <<revision, job, database, conversations, escalations, requestVars>>
    BY <1>9, SeedFrame DEF schemaVars
  <2> QED
    BY <2>1, <2>2
       DEF UndisturbedInv, ServedAtLatest, requestVars, CustomerExists, ConversationExists
<1>10. ASSUME NEW r \in Requests, Receive(r) PROVE UndisturbedInv' /\ ServedAtLatest'
  <2>1. UNCHANGED <<revision, job, database, customers, conversations, escalations, who, opened>>
    BY <1>10 DEF Receive, schemaVars, rowVars
  <2>2. /\ pc'[r] # "act" \/ ask'[r].call = "health"
        /\ pc'[r] \notin {"store", "insert", "update"} /\ reply'[r] = "none"
        /\ r \notin disturbed' => revision = Latest /\ ~job.running /\ database = "up"
    <3>1. PICK call \in Calls, token \in Tokens : \E about \in Subjects(call) :
            /\ ask' = [ask EXCEPT ![r] = [call |-> call, token |-> token, about |-> about]]
            /\ Goto(r, IF call = "health" THEN "act" ELSE "auth")
      BY <1>10 DEF Receive
    <3>2. ask'[r].call = call /\ pc'[r] = (IF call = "health" THEN "act" ELSE "auth")
      BY <1>1, <3>1 DEF Goto
    <3>3. r \notin disturbed' => revision = Latest /\ ~job.running /\ database = "up"
      BY <1>1, <1>10 DEF Receive
    <3>4. reply'[r] = "none"
      BY <1>1, <1>10 DEF Receive
    <3> QED
      BY <3>2, <3>3, <3>4
  <2>3. ASSUME NEW q \in Requests \ {r}
        PROVE  /\ pc'[q] = pc[q] /\ ask'[q] = ask[q] /\ reply'[q] = reply[q]
               /\ q \in disturbed <=> q \in disturbed'
    BY <1>1, <1>10 DEF Receive, Goto
  <2> QED
    BY <2>1, <2>2, <2>3 DEF UndisturbedInv, ServedAtLatest, CustomerExists, ConversationExists
<1>11. ASSUME NEW r \in Requests, Serve(r) PROVE UndisturbedInv' /\ ServedAtLatest'
  <2>1. UNCHANGED <<revision, job, database, customers>>
    BY <1>11, RequestFrame DEF schemaVars
  <2>2. disturbed \subseteq disturbed'
    BY <1>11, ServeUsesPool, UsePoolKeeps
  <2>3. /\ conversations \subseteq conversations' /\ escalations \subseteq escalations'
        /\ \A q \in Requests \ {r} :
             /\ pc'[q] = pc[q] /\ ask'[q] = ask[q] /\ reply'[q] = reply[q]
             /\ who'[q] = who[q] /\ opened'[q] = opened[q]
    BY <1>11, OthersKeep DEF IInv
  <2>4. r \notin disturbed' =>
          /\ reply'[r] \notin Failures
          /\ pc'[r] \in {"act", "store", "insert"} => CustomerExists(who[r])'
          /\ pc'[r] \in {"store", "insert"} => ConversationExists(ask[r].about)'
          /\ pc'[r] = "update" => \E e \in escalations' : e.id = opened'[r]
    BY <1>11, UndisturbedServe
  <2>5. ServedAtLatest'
    BY <2>2, <2>3, <2>4 DEF ServedAtLatest, Failures
  <2>6. ASSUME NEW q \in Requests \ disturbed', pc'[q] # "idle"
        PROVE  /\ revision = Latest /\ ~job.running /\ database = "up"
               /\ pc'[q] \in {"act", "store", "insert"} /\ ask'[q].call # "health" =>
                    CustomerExists(who[q])'
               /\ pc'[q] \in {"store", "insert"} => ConversationExists(ask[q].about)'
               /\ pc'[q] = "update" => \E e \in escalations' : e.id = opened'[q]
    <3>1. CASE q = r
      <4>1. revision = Latest /\ ~job.running /\ database = "up"
        BY <1>11, <2>2, <2>6, <3>1, ServeMoves DEF UndisturbedInv
      <4> QED
        BY <2>4, <2>6, <3>1, <4>1
    <3>2. CASE q # r
      BY <2>1, <2>2, <2>3, <2>6, <3>2 DEF UndisturbedInv, CustomerExists, ConversationExists
    <3> QED
      BY <3>1, <3>2
  <2> QED
    BY <2>1, <2>5, <2>6 DEF UndisturbedInv
<1>12. CASE StartServer \/ UNCHANGED vars
  BY <1>3, <1>12 DEF StartServer, vars, schemaVars, rowVars
<1> QED
  BY <1>4, <1>6, <1>7, <1>8, <1>9, <1>10, <1>11, <1>12 DEF Next

(* On the latest revision, with nothing under way, no request fails for a  *)
(* table, a row or a connection that is missing, whatever other requests   *)
(* and seeds do: upgrade() has created every table of every call, the      *)
(* customer, the conversation and the escalation that a request has found  *)
(* still exist, and an outage costs no request that arrives after the      *)
(* first cut-off connection has failed.                                    *)
THEOREM NoFailureAtLatest == Spec => []ServedAtLatest
<1>1. Init => CallerTypes /\ PoolInv /\ UndisturbedInv /\ ServedAtLatest
  BY DEF Init, CallerTypes, PoolInv, UndisturbedInv, ServedAtLatest
<1>2. Init => ServiceInv
  BY <1>1, InitIInv, InitMigrationInv DEF Init, ServiceInv
<1>3. ServiceInv /\ [Next]_vars => ServiceInv'
  <2>1. IInv /\ [Next]_vars => IInv'
    BY TypesStep, SchemaStep, KindStep, RowStep DEF IInv
  <2>2. MigrationInv /\ [Next]_vars => MigrationInv'
    BY MigrationSteps, MigrationStepInv
  <2>3. IInv /\ CallerTypes /\ [Next]_vars => CallerTypes'
    BY CallerTypesStep DEF IInv
  <2> QED
    BY <2>1, <2>2, <2>3, PoolStep, UndisturbedStep DEF ServiceInv
<1>4. ServiceInv => ServedAtLatest
  BY DEF ServiceInv
<1> QED
  BY <1>2, <1>3, <1>4, PTL DEF Spec
=============================================================================
