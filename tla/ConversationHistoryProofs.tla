--------------------- MODULE ConversationHistoryProofs ---------------------
(***************************************************************************)
(* Proofs about ConversationHistory, for any number of exchanges, GETs and *)
(* conversations.                                                          *)
(***************************************************************************)
EXTENDS ConversationHistory, TLAPS

Saved == {"stored", "replied"}

(* Dates come from a clock that does not go back. *)
DateInv ==
  \A x \in Exchanges :
    /\ asked[x] <= clock /\ answered[x] <= clock
    /\ stage[x] = "idle" => after[x] = {}
    /\ stage[x] \in Saved \cup {"answered"} => asked[x] <= answered[x]

(* The store holds whole exchanges, as they were composed. *)
StoreInv ==
  /\ \A m \in messages : /\ m = Message(m.exchange, m.role)
                         /\ stage[m.exchange] \in Saved \cup {"lost"}
                         /\ asked[m.exchange] <= answered[m.exchange]
                         /\ \A role \in Roles : Message(m.exchange, role) \in messages
  /\ \A x \in Exchanges, role \in Roles : stage[x] \in Saved => Message(x, role) \in messages
  /\ links = {l \in LinkRows : /\ l.kind \in Evidence[l.exchange]
                               /\ \E m \in messages : m.exchange = l.exchange}

(* The tables a GET has read when it is at a stage. *)
TablesRead == [plan |-> {}, bill |-> {"plan"}, charge |-> {"plan", "bill"},
               comparison |-> {"plan", "bill", "charge"},
               respond |-> Kinds, done |-> Kinds]

(* What a GET has put together so far. *)
ReadInv ==
  \A g \in Gets :
    /\ \A x \in due[g] : stage[x] = "replied" /\ About[x] = call[g].conversation
    /\ HasRead(g) \/ pc[g] = "messages" => Owner[call[g].conversation] = call[g].customer
    /\ IF HasRead(g)
       THEN /\ rows[g] \subseteq messages
            /\ \A m \in rows[g] : /\ About[m.exchange] = call[g].conversation
                                  /\ \A role \in Roles : Message(m.exchange, role) \in rows[g]
            /\ due[g] \subseteq Listed(g)
            /\ found[g] = {l \in LinkRows : /\ l.exchange \in Listed(g)
                                            /\ l.kind \in Evidence[l.exchange]
                                            /\ l.kind \in TablesRead[pc[g]]}
       ELSE rows[g] = {} /\ found[g] = {}

(* What was shown before a question arrived is older than the question. *)
AfterInv ==
  \A x \in Exchanges : \A g \in after[x] :
    pc[g] = "done" /\ \A m \in rows[g] : m.date <= asked[x]

IInv == TypeOK /\ DateInv /\ StoreInv /\ ReadInv /\ AfterInv

-----------------------------------------------------------------------------
(* The first state satisfies the invariant. *)
LEMMA InitIInv == Init => IInv
<1> SUFFICES ASSUME Init PROVE IInv
  OBVIOUS
<1> USE OwnerAssumption, ExchangeAssumption, DateAssumption DEF Init
<1>1. TypeOK
  BY DEF TypeOK, Dates, WriterStages, ReaderStages, MessageRows, LinkRows
<1>2. DateInv
  <2> SUFFICES ASSUME NEW x \in Exchanges
               PROVE  /\ asked[x] <= clock /\ answered[x] <= clock
                      /\ after[x] = {}
                      /\ stage[x] \notin Saved \cup {"answered"}
    BY DEF DateInv
  <2>1. asked[x] = 0 /\ answered[x] = 0 /\ clock = 0 /\ after[x] = {} /\ stage[x] = "idle"
    OBVIOUS
  <2> QED
    BY <2>1 DEF Saved
<1>3. StoreInv
  BY DEF StoreInv, Saved
<1>4. ReadInv
  BY DEF ReadInv, HasRead, Kinds
<1>5. AfterInv
  BY DEF AfterInv
<1> QED
  BY <1>1, <1>2, <1>3, <1>4, <1>5 DEF IInv

-----------------------------------------------------------------------------
(* A stage of the reader is named by the table it reads next. *)
LEMMA Stages ==
  /\ Kinds \subseteq ReaderStages
  /\ \A k \in Kinds : AfterTable[k] \in Kinds \cup {"respond"}
  BY DEF Kinds, ReaderStages, AfterTable

(* Types are preserved by every step. *)
LEMMA TypeStep == TypeOK /\ [Next]_vars => TypeOK'
<1> SUFFICES ASSUME TypeOK, [Next]_vars PROVE TypeOK'
  OBVIOUS
<1> USE OwnerAssumption, ExchangeAssumption, DateAssumption
<1>1. CASE Tick
  BY <1>1 DEF Tick, TypeOK, writer, store, reader, Dates
<1>2. ASSUME NEW x \in Exchanges, Ask(x) PROVE TypeOK'
  BY <1>2 DEF Ask, TypeOK, store, reader, WriterStages
<1>3. ASSUME NEW x \in Exchanges, Compose(x) PROVE TypeOK'
  BY <1>3 DEF Compose, TypeOK, store, reader, WriterStages
<1>4. ASSUME NEW x \in Exchanges, Commit(x) PROVE TypeOK'
  <2>1. Message(x, "user") \in MessageRows /\ Message(x, "assistant") \in MessageRows
    BY DEF TypeOK, Message, MessageRows, Roles
  <2>2. {[exchange |-> x, kind |-> k] : k \in Evidence[x]} \subseteq LinkRows
    BY DEF LinkRows
  <2> QED
    BY <1>4, <2>1, <2>2 DEF Commit, TypeOK, reader, WriterStages
<1>5. ASSUME NEW x \in Exchanges, Reply(x) PROVE TypeOK'
  BY <1>5 DEF Reply, TypeOK, store, reader, WriterStages
<1>6. ASSUME NEW x \in Exchanges, Lose(x) PROVE TypeOK'
  BY <1>6 DEF Lose, TypeOK, store, reader, WriterStages
<1>7. ASSUME NEW g \in Gets, Receive(g) PROVE TypeOK'
  BY <1>7 DEF Receive, Goto, TypeOK, writer, store, ReaderStages
<1>8. ASSUME NEW g \in Gets, FindConversation(g) PROVE TypeOK'
  BY <1>8 DEF FindConversation, Goto, TypeOK, writer, store, ReaderStages
<1>9. ASSUME NEW g \in Gets, ReadMessages(g) PROVE TypeOK'
  <2>1. MessagesOf(call[g].conversation) \subseteq MessageRows
    BY DEF MessagesOf, TypeOK
  <2>2. pc' \in [Gets -> ReaderStages]
    BY <1>9 DEF ReadMessages, Goto, TypeOK, ReaderStages, Kinds
  <2> QED
    BY <1>9, <2>1, <2>2 DEF ReadMessages, TypeOK, writer, store
<1>10. ASSUME NEW g \in Gets, ReadEvidence(g) PROVE TypeOK'
  <2>1. LinksFor(g, pc[g]) \subseteq LinkRows
    BY DEF LinksFor, TypeOK
  <2>2. pc' \in [Gets -> ReaderStages]
    BY <1>10, Stages DEF ReadEvidence, Goto, TypeOK, ReaderStages
  <2> QED
    BY <1>10, <2>1, <2>2 DEF ReadEvidence, TypeOK, writer, store
<1>11. ASSUME NEW g \in Gets, Respond(g) PROVE TypeOK'
  BY <1>11 DEF Respond, Goto, TypeOK, writer, store, ReaderStages
<1>12. CASE UNCHANGED vars
  BY <1>12 DEF vars, TypeOK
<1> QED
  BY <1>1, <1>2, <1>3, <1>4, <1>5, <1>6, <1>7, <1>8, <1>9, <1>10, <1>11, <1>12 DEF Next

(* Dates and the GETs before a question. *)
LEMMA DateStep == TypeOK /\ DateInv /\ [Next]_vars => DateInv'
<1> SUFFICES ASSUME TypeOK, DateInv, [Next]_vars PROVE DateInv'
  OBVIOUS
<1> USE DateAssumption DEF TypeOK, DateInv, Dates, Saved
<1>1. CASE Tick
  BY <1>1 DEF Tick, writer
<1>2. ASSUME NEW x \in Exchanges, Ask(x) PROVE DateInv'
  BY <1>2 DEF Ask
<1>3. ASSUME NEW x \in Exchanges, Compose(x) PROVE DateInv'
  BY <1>3 DEF Compose
<1>4. ASSUME NEW x \in Exchanges, Commit(x) PROVE DateInv'
  BY <1>4 DEF Commit
<1>5. ASSUME NEW x \in Exchanges, Reply(x) PROVE DateInv'
  BY <1>5 DEF Reply
<1>6. ASSUME NEW x \in Exchanges, Lose(x) PROVE DateInv'
  BY <1>6 DEF Lose
<1>7. CASE UNCHANGED <<clock, writer>>
  BY <1>7 DEF writer
<1>8. ASSUME NEW g \in Gets,
             Receive(g) \/ FindConversation(g) \/ ReadMessages(g) \/ ReadEvidence(g) \/ Respond(g)
      PROVE  UNCHANGED <<clock, writer>>
  BY <1>8 DEF Receive, FindConversation, ReadMessages, ReadEvidence, Respond
<1>9. CASE UNCHANGED vars
  BY <1>9 DEF vars
<1> QED
  BY <1>1, <1>2, <1>3, <1>4, <1>5, <1>6, <1>7, <1>8, <1>9 DEF Next

-----------------------------------------------------------------------------
(* A message is composed before it is stored and never changes afterwards. *)
LEMMA SavedStep ==
  ASSUME TypeOK, StoreInv, [Next]_vars
  PROVE  /\ messages \subseteq messages'
         /\ \A x \in Exchanges : stage[x] \in Saved \cup {"lost", "answered"} =>
              \A role \in Roles : Message(x, role)' = Message(x, role)
         /\ \A x \in Exchanges : stage[x] = "replied" => stage'[x] = "replied"
<1>1. CASE \E x \in Exchanges : Ask(x) \/ Compose(x) \/ Commit(x) \/ Reply(x) \/ Lose(x)
  <2> PICK x \in Exchanges : Ask(x) \/ Compose(x) \/ Commit(x) \/ Reply(x) \/ Lose(x)
    BY <1>1
  <2>1. CASE Ask(x) \/ Compose(x)
    BY <2>1 DEF Ask, Compose, store, TypeOK, Saved, Message
  <2>2. CASE Commit(x) \/ Reply(x) \/ Lose(x)
    BY <2>2 DEF Commit, Reply, Lose, store, TypeOK, Saved, Message
  <2> QED
    BY <2>1, <2>2
<1>2. CASE Tick \/ UNCHANGED vars
  BY <1>2 DEF Tick, vars, writer, store, Message
<1>3. ASSUME NEW g \in Gets,
             Receive(g) \/ FindConversation(g) \/ ReadMessages(g) \/ ReadEvidence(g) \/ Respond(g)
      PROVE  UNCHANGED <<writer, store>>
  BY <1>3 DEF Receive, FindConversation, ReadMessages, ReadEvidence, Respond
<1>4. CASE UNCHANGED <<writer, store>>
  BY <1>4 DEF writer, store, Message
<1> QED
  BY <1>1, <1>2, <1>3, <1>4 DEF Next

(* The store stays whole: only Commit writes it, one exchange at a time. *)
LEMMA StoreStep == TypeOK /\ DateInv /\ StoreInv /\ [Next]_vars => StoreInv'
<1> SUFFICES ASSUME TypeOK, DateInv, StoreInv, [Next]_vars PROVE StoreInv'
  OBVIOUS
<1>1. ASSUME NEW x \in Exchanges, Ask(x) \/ Compose(x) \/ Reply(x) \/ Lose(x) PROVE StoreInv'
  <2>1. UNCHANGED <<messages, links>>
    BY <1>1 DEF Ask, Compose, Reply, Lose, store
  <2>2. \A y \in Exchanges : stage'[y] \in Saved => stage[y] \in Saved
    BY <1>1 DEF Ask, Compose, Reply, Lose, TypeOK, Saved
  <2>3. \A y \in Exchanges : stage[y] \in Saved \cup {"lost"} =>
          /\ stage'[y] \in Saved \cup {"lost"}
          /\ asked'[y] = asked[y] /\ answered'[y] = answered[y]
    BY <1>1 DEF Ask, Compose, Reply, Lose, TypeOK, Saved
  <2>4. \A m \in messages : m.exchange \in Exchanges /\ m.role \in Roles
    BY DEF TypeOK, MessageRows
  <2>5. \A y \in Exchanges, role \in Roles :
          stage[y] \in Saved \cup {"lost"} => Message(y, role)' = Message(y, role)
    BY <2>3 DEF Message
  <2> QED
    BY <2>1, <2>2, <2>3, <2>4, <2>5 DEF StoreInv
<1>2. ASSUME NEW x \in Exchanges, Commit(x) PROVE StoreInv'
  <2> DEFINE Two == {Message(x, "user"), Message(x, "assistant")}
  <2>1. /\ messages' = messages \cup Two
        /\ links' = links \cup {[exchange |-> x, kind |-> k] : k \in Evidence[x]}
        /\ UNCHANGED <<asked, answered>>
        /\ stage[x] = "answered"
        /\ stage' = [stage EXCEPT ![x] = "stored"]
    BY <1>2 DEF Commit
  <2>2. \A y, role : Message(y, role)' = Message(y, role)
    BY <2>1 DEF Message
  <2>3. \A role \in Roles : Message(x, role) \in Two /\ Message(x, role).exchange = x
    BY DEF Message, Roles
  <2>4. \A m \in Two : m = Message(m.exchange, m.role) /\ m.exchange = x /\ m.role \in Roles
    BY DEF Message, Roles
  <2>5. \A m \in messages : m.exchange \in Exchanges /\ m.role \in Roles
    BY DEF TypeOK, MessageRows
  <2>6. asked[x] <= answered[x]
    BY <2>1 DEF DateInv
  <2>7. stage'[x] = "stored" /\ \A y \in Exchanges : y # x => stage'[y] = stage[y]
    BY <2>1 DEF TypeOK
  <2>8. \A m \in messages' : /\ m = Message(m.exchange, m.role)'
                             /\ stage'[m.exchange] \in Saved \cup {"lost"}
                             /\ asked'[m.exchange] <= answered'[m.exchange]
                             /\ \A role \in Roles : Message(m.exchange, role)' \in messages'
    <3> TAKE m \in messages'
    <3>1. CASE m \in messages
      BY <3>1, <2>1, <2>2, <2>5, <2>7 DEF StoreInv, Saved
    <3>2. CASE m \in Two
      BY <3>2, <2>1, <2>2, <2>3, <2>4, <2>6, <2>7 DEF Saved
    <3> QED
      BY <3>1, <3>2, <2>1
  <2>9. \A y \in Exchanges, role \in Roles : stage'[y] \in Saved => Message(y, role)' \in messages'
    BY <2>1, <2>2, <2>3, <2>7 DEF StoreInv
  <2>10. links' = {l \in LinkRows : /\ l.kind \in Evidence[l.exchange]
                                    /\ \E m \in messages' : m.exchange = l.exchange}
    <3>1. \A l \in LinkRows : (\E m \in messages' : m.exchange = l.exchange)
                                <=> l.exchange = x \/ \E m \in messages : m.exchange = l.exchange
      BY <2>1, <2>3, <2>4 DEF Roles
    <3>2. {[exchange |-> x, kind |-> k] : k \in Evidence[x]}
            = {l \in LinkRows : l.kind \in Evidence[l.exchange] /\ l.exchange = x}
      BY ExchangeAssumption DEF LinkRows
    <3>3. links = {l \in LinkRows : /\ l.kind \in Evidence[l.exchange]
                                    /\ \E m \in messages : m.exchange = l.exchange}
      BY DEF StoreInv
    <3> HIDE DEF Two
    <3> QED
      BY <2>1, <3>1, <3>2, <3>3
  <2> QED
    BY <2>8, <2>9, <2>10 DEF StoreInv
<1>3. ASSUME UNCHANGED <<stage, asked, answered, messages, links>> PROVE StoreInv'
  BY <1>3 DEF StoreInv, Message
<1>4. ASSUME NEW g \in Gets,
             Receive(g) \/ FindConversation(g) \/ ReadMessages(g) \/ ReadEvidence(g) \/ Respond(g)
      PROVE  UNCHANGED <<stage, asked, answered, messages, links>>
  BY <1>4 DEF Receive, FindConversation, ReadMessages, ReadEvidence, Respond, writer, store
<1>5. CASE Tick \/ UNCHANGED vars
  BY <1>3, <1>5 DEF Tick, vars, writer, store
<1> QED
  BY <1>1, <1>2, <1>3, <1>4, <1>5 DEF Next

-----------------------------------------------------------------------------
(* ReadInv, for one GET. *)
ReadInvOf(g) ==
  /\ \A x \in due[g] : stage[x] = "replied" /\ About[x] = call[g].conversation
  /\ HasRead(g) \/ pc[g] = "messages" => Owner[call[g].conversation] = call[g].customer
  /\ IF HasRead(g)
     THEN /\ rows[g] \subseteq messages
          /\ \A m \in rows[g] : /\ About[m.exchange] = call[g].conversation
                                /\ \A role \in Roles : Message(m.exchange, role) \in rows[g]
          /\ due[g] \subseteq Listed(g)
          /\ found[g] = {l \in LinkRows : /\ l.exchange \in Listed(g)
                                          /\ l.kind \in Evidence[l.exchange]
                                          /\ l.kind \in TablesRead[pc[g]]}
     ELSE rows[g] = {} /\ found[g] = {}

LEMMA ReadInvByGet == ReadInv <=> \A g \in Gets : ReadInvOf(g)
  BY DEF ReadInv, ReadInvOf

(* A GET is not disturbed by a step that leaves its own state alone. *)
LEMMA ReadFrame ==
  ASSUME TypeOK, StoreInv, ReadInv, [Next]_vars, NEW g \in Gets,
         UNCHANGED <<call, pc[g], due[g], rows[g], found[g]>>
  PROVE  ReadInvOf(g)'
<1>1. ReadInvOf(g)
  BY ReadInvByGet
<1>2. HasRead(g)' <=> HasRead(g)
  BY DEF HasRead
<1>3. Listed(g)' = Listed(g)
  BY DEF Listed
<1>4. \A x \in due[g] : x \in Exchanges
  BY DEF TypeOK
<1>5. \A x \in due[g] : stage'[x] = "replied"
  BY <1>1, <1>4, SavedStep DEF ReadInvOf
<1>6. messages \subseteq messages'
  BY SavedStep
<1>7. \A m \in rows[g] : HasRead(g) =>
        \A role \in Roles : Message(m.exchange, role)' = Message(m.exchange, role)
  <2> SUFFICES ASSUME NEW m \in rows[g], HasRead(g), NEW role \in Roles
               PROVE  Message(m.exchange, role)' = Message(m.exchange, role)
    OBVIOUS
  <2>1. m \in messages
    BY <1>1 DEF ReadInvOf
  <2>2. m.exchange \in Exchanges /\ stage[m.exchange] \in Saved \cup {"lost"}
    BY <2>1 DEF StoreInv, TypeOK, MessageRows
  <2> QED
    BY <2>2, SavedStep
<1> QED
  BY <1>1, <1>2, <1>3, <1>5, <1>6, <1>7 DEF ReadInvOf

(* The stages from which a GET goes on to the next table. *)
LEMMA NextTable ==
  \A k \in Kinds :
    /\ TablesRead[AfterTable[k]] = TablesRead[k] \cup {k}
    /\ AfterTable[k] \in Kinds \cup {"respond"}
  BY DEF Kinds, TablesRead, AfterTable

(* Every step of a GET, or beside it, preserves what it has put together. *)
LEMMA ReadStep == TypeOK /\ StoreInv /\ ReadInv /\ [Next]_vars => ReadInv'
<1> SUFFICES ASSUME TypeOK, StoreInv, ReadInv, [Next]_vars, NEW g \in Gets
             PROVE  ReadInvOf(g)'
  BY DEF ReadInv, ReadInvOf
<1>0. ReadInvOf(g)
  BY ReadInvByGet
<1> USE DEF Kinds
<1>1. CASE Receive(g)
  <2>1. pc[g] = "idle" /\ pc'[g] = "conversation" /\ UNCHANGED <<stage, call, rows, found>>
    BY <1>1 DEF Receive, Goto, TypeOK, writer
  <2>2. due'[g] = {x \in Exchanges : stage[x] = "replied" /\ About[x] = call[g].conversation}
    BY <1>1 DEF Receive, TypeOK
  <2>3. ~HasRead(g) /\ ~HasRead(g)' /\ pc'[g] # "messages"
    BY <2>1 DEF HasRead
  <2> QED
    BY <1>0, <2>1, <2>2, <2>3 DEF ReadInvOf
<1>2. CASE FindConversation(g)
  <2>1. /\ pc[g] = "conversation" /\ pc'[g] \in {"messages", "not_found"}
        /\ pc'[g] = "messages" => Owner[call[g].conversation] = call[g].customer
        /\ UNCHANGED <<stage, call, due, rows, found>>
    BY <1>2 DEF FindConversation, Goto, TypeOK, writer
  <2>2. ~HasRead(g) /\ ~HasRead(g)'
    BY <2>1 DEF HasRead
  <2> QED
    BY <1>0, <2>1, <2>2 DEF ReadInvOf
<1>3. CASE ReadMessages(g)
  <2>1. /\ pc[g] = "messages" /\ rows'[g] = MessagesOf(call[g].conversation)
        /\ pc'[g] = IF rows'[g] = {} THEN "respond" ELSE "plan"
        /\ UNCHANGED <<stage, asked, answered, messages, call, due, found>>
    BY <1>3 DEF ReadMessages, Goto, TypeOK, writer, store
  <2>2. HasRead(g)' /\ ~HasRead(g)
    BY <2>1 DEF HasRead
  <2>3. found'[g] = {}
    BY <1>0, <2>1, <2>2 DEF ReadInvOf
  <2>4. \A y, role : Message(y, role)' = Message(y, role)
    BY <2>1 DEF Message
  <2>5. \A m \in rows'[g] : /\ m \in messages'
                            /\ About[m.exchange] = call'[g].conversation
                            /\ \A role \in Roles : Message(m.exchange, role)' \in rows'[g]
    <3> TAKE m \in rows'[g]
    <3>1. m \in messages /\ About[m.exchange] = call[g].conversation
      BY <2>1 DEF MessagesOf
    <3>2. \A role \in Roles : /\ Message(m.exchange, role) \in messages
                              /\ Message(m.exchange, role).exchange = m.exchange
      BY <3>1 DEF StoreInv, Message
    <3> QED
      BY <2>1, <2>4, <3>1, <3>2 DEF MessagesOf
  <2>6. due'[g] \subseteq Listed(g)'
    <3> SUFFICES ASSUME NEW x \in due[g] PROVE x \in Listed(g)'
      BY <2>1
    <3>1. x \in Exchanges /\ stage[x] = "replied" /\ About[x] = call[g].conversation
      BY <1>0 DEF ReadInvOf, TypeOK
    <3>2. Message(x, "user") \in messages /\ Message(x, "user").exchange = x
      BY <3>1 DEF StoreInv, Saved, Roles, Message
    <3>3. Message(x, "user") \in rows'[g]
      BY <2>1, <3>1, <3>2 DEF MessagesOf
    <3> QED
      BY <3>2, <3>3 DEF Listed
  <2>7. found'[g] = {l \in LinkRows : /\ l.exchange \in Listed(g)'
                                      /\ l.kind \in Evidence[l.exchange]
                                      /\ l.kind \in TablesRead[pc'[g]]}
    <3>1. CASE rows'[g] = {}
      BY <2>3, <3>1 DEF Listed
    <3>2. CASE rows'[g] # {}
      BY <2>1, <2>3, <3>2 DEF TablesRead
    <3> QED
      BY <3>1, <3>2
  <2> QED
    BY <1>0, <2>1, <2>2, <2>5, <2>6, <2>7 DEF ReadInvOf
<1>4. CASE ReadEvidence(g)
  <2>1. /\ pc[g] \in Kinds /\ pc'[g] = AfterTable[pc[g]]
        /\ found'[g] = found[g] \cup LinksFor(g, pc[g])
        /\ UNCHANGED <<stage, asked, answered, messages, call, due, rows>>
    BY <1>4 DEF ReadEvidence, Goto, TypeOK, writer, store
  <2>2. HasRead(g) /\ HasRead(g)'
    BY <2>1, NextTable DEF HasRead
  <2>3. Listed(g)' = Listed(g)
    BY <2>1 DEF Listed
  <2>4. LinksFor(g, pc[g]) = {l \in LinkRows : /\ l.exchange \in Listed(g)
                                               /\ l.kind \in Evidence[l.exchange]
                                               /\ l.kind = pc[g]}
    <3>1. rows[g] \subseteq messages
      BY <1>0, <2>2 DEF ReadInvOf
    <3>2. \A l \in LinkRows : l.exchange \in Listed(g) <=> \E m \in rows[g] : m.exchange = l.exchange
      BY DEF Listed
    <3>3. links = {l \in LinkRows : /\ l.kind \in Evidence[l.exchange]
                                    /\ \E m \in messages : m.exchange = l.exchange}
      BY DEF StoreInv
    <3> QED
      BY <3>1, <3>2, <3>3 DEF LinksFor
  <2>5. found'[g] = {l \in LinkRows : /\ l.exchange \in Listed(g)
                                      /\ l.kind \in Evidence[l.exchange]
                                      /\ l.kind \in TablesRead[pc'[g]]}
    <3>1. found[g] = {l \in LinkRows : /\ l.exchange \in Listed(g)
                                       /\ l.kind \in Evidence[l.exchange]
                                       /\ l.kind \in TablesRead[pc[g]]}
      BY <1>0, <2>2 DEF ReadInvOf
    <3>2. TablesRead[pc'[g]] = TablesRead[pc[g]] \cup {pc[g]}
      BY <2>1, NextTable
    <3> QED
      BY <2>1, <2>4, <3>1, <3>2
  <2>6. \A y, role : Message(y, role)' = Message(y, role)
    BY <2>1 DEF Message
  <2> QED
    BY <1>0, <2>1, <2>2, <2>3, <2>5, <2>6 DEF ReadInvOf
<1>5. CASE Respond(g)
  <2>1. /\ pc[g] = "respond" /\ pc'[g] = "done"
        /\ UNCHANGED <<stage, asked, answered, messages, call, due, rows, found>>
    BY <1>5 DEF Respond, Goto, TypeOK, writer, store
  <2>2. HasRead(g) /\ HasRead(g)' /\ TablesRead[pc'[g]] = TablesRead[pc[g]]
    BY <2>1 DEF HasRead, TablesRead
  <2>3. Listed(g)' = Listed(g) /\ \A y, role : Message(y, role)' = Message(y, role)
    BY <2>1 DEF Listed, Message
  <2> QED
    BY <1>0, <2>1, <2>2, <2>3 DEF ReadInvOf
<1>6. ASSUME NEW h \in Gets, h # g,
             Receive(h) \/ FindConversation(h) \/ ReadMessages(h) \/ ReadEvidence(h) \/ Respond(h)
      PROVE  UNCHANGED <<call, pc[g], due[g], rows[g], found[g]>>
  BY <1>6 DEF Receive, FindConversation, ReadMessages, ReadEvidence, Respond, Goto, TypeOK
<1>7. ASSUME NEW x \in Exchanges, Ask(x) \/ Compose(x) \/ Commit(x) \/ Reply(x) \/ Lose(x)
      PROVE  UNCHANGED <<call, pc[g], due[g], rows[g], found[g]>>
  BY <1>7 DEF Ask, Compose, Commit, Reply, Lose, reader
<1>8. CASE Tick \/ UNCHANGED vars
  <2>1. UNCHANGED <<call, pc[g], due[g], rows[g], found[g]>>
    BY <1>8 DEF Tick, reader, vars
  <2> QED
    BY <2>1, ReadFrame
<1> QED
  BY <1>1, <1>2, <1>3, <1>4, <1>5, <1>6, <1>7, <1>8, ReadFrame DEF Next

(* A question that arrives is dated no earlier than what was shown. *)
LEMMA AfterStep ==
  TypeOK /\ DateInv /\ StoreInv /\ ReadInv /\ AfterInv /\ [Next]_vars => AfterInv'
<1> SUFFICES ASSUME TypeOK, DateInv, StoreInv, ReadInv, AfterInv, [Next]_vars,
                    NEW x \in Exchanges, NEW g \in after'[x]
             PROVE  pc'[g] = "done" /\ \A m \in rows'[g] : m.date <= asked'[x]
  BY DEF AfterInv
<1>0. g \in Gets
  BY TypeStep DEF TypeOK
<1>1. ASSUME pc[g] = "done" PROVE pc'[g] = "done" /\ rows'[g] = rows[g]
  <2>1. ASSUME NEW h \in Gets,
               Receive(h) \/ FindConversation(h) \/ ReadMessages(h) \/ ReadEvidence(h) \/ Respond(h)
        PROVE  pc'[g] = pc[g] /\ rows'[g] = rows[g]
    BY <1>0, <1>1, <2>1
       DEF Receive, FindConversation, ReadMessages, ReadEvidence, Respond, Goto, TypeOK, Kinds
  <2>2. ASSUME NEW y \in Exchanges, Ask(y) \/ Compose(y) \/ Commit(y) \/ Reply(y) \/ Lose(y)
        PROVE  UNCHANGED <<pc, rows>>
    BY <2>2 DEF Ask, Compose, Commit, Reply, Lose, reader
  <2>3. CASE Tick \/ UNCHANGED vars
    BY <2>3, <1>1 DEF Tick, reader, vars
  <2> QED
    BY <1>1, <2>1, <2>2, <2>3 DEF Next
<1>2. CASE Ask(x)
  <2>1. after'[x] = {h \in Gets : pc[h] = "done"} /\ asked'[x] = clock
    BY <1>2 DEF Ask, TypeOK
  <2>2. rows[g] \subseteq messages
    BY <1>0, <2>1 DEF ReadInv, HasRead
  <2>3. \A m \in messages : m.date <= clock
    <3> TAKE m \in messages
    <3>1. m = Message(m.exchange, m.role) /\ m.exchange \in Exchanges
      BY DEF StoreInv, TypeOK, MessageRows
    <3>2. m.date \in {asked[m.exchange], answered[m.exchange]}
      BY <3>1 DEF Message
    <3> QED
      BY <3>1, <3>2 DEF DateInv
  <2> QED
    BY <1>1, <2>1, <2>2, <2>3
<1>3. ASSUME ~Ask(x) PROVE after'[x] = after[x] /\ asked'[x] = asked[x]
  <2>1. ASSUME NEW y \in Exchanges, Ask(y), y # x PROVE after'[x] = after[x] /\ asked'[x] = asked[x]
    BY <2>1 DEF Ask, TypeOK
  <2>2. ASSUME NEW y \in Exchanges, Compose(y) \/ Commit(y) \/ Reply(y) \/ Lose(y)
        PROVE  UNCHANGED <<after, asked>>
    BY <2>2 DEF Compose, Commit, Reply, Lose
  <2>3. ASSUME NEW h \in Gets,
               Receive(h) \/ FindConversation(h) \/ ReadMessages(h) \/ ReadEvidence(h) \/ Respond(h)
        PROVE  UNCHANGED <<after, asked>>
    BY <2>3 DEF Receive, FindConversation, ReadMessages, ReadEvidence, Respond, writer
  <2>4. CASE Tick \/ UNCHANGED vars
    BY <2>4 DEF Tick, writer, vars
  <2> QED
    BY <1>3, <2>1, <2>2, <2>3, <2>4 DEF Next
<1>4. CASE ~Ask(x)
  <2>1. pc[g] = "done" /\ \A m \in rows[g] : m.date <= asked[x]
    BY <1>3, <1>4 DEF AfterInv
  <2> QED
    BY <1>1, <1>3, <1>4, <2>1
<1> QED
  BY <1>2, <1>4

LEMMA StepIInv == IInv /\ [Next]_vars => IInv'
  BY TypeStep, DateStep, StoreStep, ReadStep, AfterStep DEF IInv

LEMMA Invariance == Spec => []IInv
  BY InitIInv, StepIInv, PTL DEF Spec

-----------------------------------------------------------------------------
(* Clock, requests, tables and GETs keep their types. *)
THEOREM TypeCorrectness == Spec => []TypeOK
  BY Invariance, PTL DEF IInv

(* However many exchanges commit between its SELECTs, get_history puts     *)
(* together whole exchanges with exactly their evidence: the messages were *)
(* committed with all of their evidence, and the tables are read after     *)
(* the messages.                                                           *)
THEOREM Whole == Spec => []HistoryIsWhole
<1>1. IInv => HistoryIsWhole
  <2> SUFFICES ASSUME IInv, NEW g \in Gets, pc[g] = "done"
               PROVE  /\ \A x \in Listed(g), role \in Roles :
                           \E m \in rows[g] : m.exchange = x /\ m.role = role
                      /\ found[g] = {l \in LinkRows : l.exchange \in Listed(g)
                                                      /\ l.kind \in Evidence[l.exchange]}
    BY DEF HistoryIsWhole
  <2>1. ReadInvOf(g) /\ HasRead(g) /\ TablesRead[pc[g]] = Kinds
    BY ReadInvByGet DEF IInv, HasRead, TablesRead
  <2>2. ASSUME NEW x \in Listed(g), NEW role \in Roles
        PROVE  \E m \in rows[g] : m.exchange = x /\ m.role = role
    <3>1. Message(x, role) \in rows[g]
      BY <2>1, <2>2 DEF ReadInvOf, Listed
    <3> QED
      BY <3>1 DEF Message
  <2>3. \A l \in LinkRows : l.kind \in Kinds
    BY DEF LinkRows
  <2> QED
    BY <2>1, <2>2, <2>3 DEF ReadInvOf
<1> QED
  BY <1>1, Invariance, PTL

(* A history holds every exchange answered before the GET arrived. *)
THEOREM AnsweredShown == Spec => []AnsweredIsShown
<1>1. IInv => AnsweredIsShown
  BY DEF IInv, ReadInv, HasRead, AnsweredIsShown
<1> QED
  BY <1>1, Invariance, PTL

(* A history is given only to the owner of the conversation, and holds     *)
(* nothing from another one.                                               *)
THEOREM PrivateHistory == Spec => []HistoryIsPrivate
<1>1. IInv => HistoryIsPrivate
  BY DEF IInv, ReadInv, HasRead, Listed, HistoryIsPrivate
<1> QED
  BY <1>1, Invariance, PTL

(* A question asked after a history was shown is listed behind it: its     *)
(* date, and its answer's, are taken from the clock later.                 *)
THEOREM LaterQuestionsLater == Spec => []NewQuestionsComeLast
<1>1. IInv => NewQuestionsComeLast
  <2> SUFFICES ASSUME IInv, NEW n \in messages, NEW g \in after[n.exchange], NEW m \in rows[g]
               PROVE  m.date <= n.date
    BY DEF NewQuestionsComeLast
  <2>1. /\ n.exchange \in Exchanges /\ n = Message(n.exchange, n.role)
        /\ asked[n.exchange] <= answered[n.exchange]
    BY DEF IInv, TypeOK, MessageRows, StoreInv
  <2>2. g \in Gets /\ m.date <= asked[n.exchange] /\ m.date \in Dates
    BY <2>1 DEF IInv, TypeOK, MessageRows, AfterInv
  <2>3. asked[n.exchange] \in Nat /\ answered[n.exchange] \in Nat /\ m.date \in Nat
    BY <2>1, <2>2, DateAssumption DEF IInv, TypeOK, Dates
  <2>4. n.date = asked[n.exchange] \/ n.date = answered[n.exchange]
    BY <2>1 DEF Message
  <2> QED
    BY <2>1, <2>2, <2>3, <2>4
<1> QED
  BY <1>1, Invariance, PTL
-----------------------------------------------------------------------------
(***************************************************************************)
(* ConversationHistory implements ConversationLog: the six SELECTs of a    *)
(* GET have the effect of a single look at the log, taken by the SELECT of *)
(* the messages.                                                           *)
(***************************************************************************)

(* The log's variables under the refinement mapping. *)
stored == {Entry(x, Evidence[x]) : x \in {m.exchange : m \in messages}}
wants  == [g \in Gets |-> call[g].conversation]
picked == [g \in Gets |-> Picked(g)]
shown  == [g \in Gets |-> Shown(g)]
topic  == [e \in AllEntries |-> e.conversation]

LEMMA EntryFields ==
  ASSUME NEW x \in Exchanges
  PROVE  /\ Entry(x, Evidence[x]) \in AllEntries
         /\ topic[Entry(x, Evidence[x])] = About[x]
         /\ \A y : Entry(y, Evidence[y]) = Entry(x, Evidence[x]) => y = x
  BY DEF Entry, AllEntries, topic

LEMMA InitMaps == Init => Log!LogInit
<1> SUFFICES ASSUME Init PROVE Log!LogInit
  OBVIOUS
<1>1. stored = {}
  BY DEF Init, stored
<1>2. wants \in [Gets -> Conversations]
  BY DEF Init, wants
<1>3. picked = [g \in Gets |-> Nothing]
  BY DEF Init, picked, Picked, HasRead, Kinds
<1>4. shown = [g \in Gets |-> Nothing]
  BY DEF Init, shown, Shown
<1> QED
  BY <1>1, <1>2, <1>3, <1>4 DEF Log!LogInit, stored, wants, picked, shown

(* A step that touches neither messages nor GETs is a stutter. *)
LEMMA StutterMaps ==
  ASSUME UNCHANGED <<messages, call, pc, rows, found>>
  PROVE  UNCHANGED Log!logVars
BY DEF Log!logVars, HasRead, Picked, Listed, Shown, Assembled

(* What a GET has put together when it is done is what it picked. *)
LEMMA AssembledIsPicked ==
  ASSUME IInv, NEW g \in Gets, pc[g] \in {"respond", "done"}
  PROVE  Assembled(g) = {Entry(x, Evidence[x]) : x \in Listed(g)}
<1>1. found[g] = {l \in LinkRows : /\ l.exchange \in Listed(g)
                                   /\ l.kind \in Evidence[l.exchange]}
  <2>1. ReadInvOf(g) /\ HasRead(g) /\ TablesRead[pc[g]] = Kinds
    BY ReadInvByGet DEF IInv, HasRead, TablesRead
  <2>2. \A l \in LinkRows : l.kind \in Kinds
    BY DEF LinkRows
  <2> QED
    BY <2>1, <2>2 DEF ReadInvOf
<1>2. Listed(g) \subseteq Exchanges
  BY DEF Listed, IInv, TypeOK, MessageRows
<1> DEFINE Cited(x) == {l.kind : l \in {k \in found[g] : k.exchange = x}}
<1>3. ASSUME NEW x \in Listed(g)
      PROVE  Cited(x) = Evidence[x]
  <2>1. \A k \in Evidence[x] : [exchange |-> x, kind |-> k] \in found[g]
    BY <1>1, <1>2, <1>3, ExchangeAssumption DEF LinkRows
  <2>2. \A k \in Evidence[x] : [exchange |-> x, kind |-> k].exchange = x
                               /\ [exchange |-> x, kind |-> k].kind = k
    OBVIOUS
  <2>3. Evidence[x] \subseteq Cited(x)
    BY <2>1, <2>2
  <2>4. Cited(x) \subseteq Evidence[x]
    BY <1>1
  <2> QED
    BY <2>3, <2>4
<1>4. Assembled(g) = {Entry(x, Cited(x)) : x \in Listed(g)}
  BY DEF Assembled
<1> HIDE DEF Cited
<1>5. \A x \in Listed(g) : Entry(x, Cited(x)) = Entry(x, Evidence[x])
  BY <1>3
<1> QED
  BY <1>4, <1>5, Zenon

(* A commit appends the exchange to the log. *)
LEMMA CommitMaps ==
  ASSUME IInv, NEW x \in Exchanges, Commit(x)
  PROVE  Log!Append(Entry(x, Evidence[x]))
<1>1. \A m \in messages : m.exchange # x
  BY DEF Commit, IInv, StoreInv, Saved
<1>2. \A m \in messages : m.exchange \in Exchanges
  BY DEF IInv, TypeOK, MessageRows
<1>3. Entry(x, Evidence[x]) \notin stored
  BY <1>1, <1>2, EntryFields DEF stored
<1>4. {m.exchange : m \in messages'} = {m.exchange : m \in messages} \cup {x}
  <2>1. messages' = messages \cup {Message(x, "user"), Message(x, "assistant")}
    BY DEF Commit
  <2>2. \A role : Message(x, role).exchange = x
    BY DEF Message
  <2> QED
    BY <2>1, <2>2
<1>5. stored' = stored \cup {Entry(x, Evidence[x])}
  BY <1>4 DEF stored
<1>6. UNCHANGED <<wants, picked, shown>>
  BY DEF Commit, reader, wants, picked, shown, HasRead, Picked, Listed, Shown, Assembled
<1> QED
  BY <1>3, <1>5, <1>6 DEF Log!Append, stored, wants, picked, shown

(* A step of one GET that changes nothing of the others. *)
LEMMA OtherGets ==
  ASSUME NEW g \in Gets, NEW h \in Gets, UNCHANGED <<pc[h], rows[h], found[h]>>
  PROVE  Picked(h)' = Picked(h) /\ Shown(h)' = Shown(h)
BY DEF Picked, HasRead, Listed, Shown, Assembled

(* The conversation that is not found is refused. *)
LEMMA FindMaps ==
  ASSUME IInv, NEW g \in Gets, FindConversation(g)
  PROVE  Log!Refuse(g) \/ UNCHANGED Log!logVars
<1>1. /\ pc[g] = "conversation" /\ pc'[g] \in {"messages", "not_found"}
      /\ UNCHANGED <<messages, call, rows, found>>
      /\ \A h \in Gets \ {g} : pc'[h] = pc[h]
  BY DEF FindConversation, Goto, IInv, TypeOK, store
<1>2. \A h \in Gets \ {g} : Picked(h)' = Picked(h) /\ Shown(h)' = Shown(h)
  BY <1>1, OtherGets
<1>3. /\ Picked(g) = Nothing /\ Picked(g)' = Nothing
      /\ Shown(g) = Nothing
      /\ Shown(g)' = IF pc'[g] = "not_found" THEN Refused ELSE Nothing
  BY <1>1 DEF Picked, HasRead, Kinds, Shown
<1>4. UNCHANGED <<stored, wants, picked>>
  BY <1>1, <1>2, <1>3 DEF stored, wants, picked
<1>5. shown' = [shown EXCEPT ![g] = Shown(g)']
  BY <1>2 DEF shown
<1>6. picked[g] = Nothing /\ shown[g] = Nothing
  BY <1>3 DEF picked, shown
<1>7. CASE pc'[g] = "not_found"
  BY <1>3, <1>4, <1>5, <1>6, <1>7 DEF Log!Refuse, stored, wants, picked, shown
<1>8. CASE pc'[g] = "messages"
  <2>1. shown' = shown
    BY <1>3, <1>5, <1>6, <1>8 DEF shown
  <2> QED
    BY <1>4, <2>1 DEF Log!logVars, stored, wants, picked, shown
<1> QED
  BY <1>1, <1>7, <1>8

(* The SELECT of the messages is the look at the log. *)
LEMMA PickMaps ==
  ASSUME IInv, NEW g \in Gets, ReadMessages(g)
  PROVE  Log!Pick(g)
<1>1. /\ pc[g] = "messages" /\ pc'[g] \in {"respond", "plan"}
      /\ rows'[g] = MessagesOf(call[g].conversation)
      /\ UNCHANGED <<messages, call, found>>
      /\ \A h \in Gets \ {g} : pc'[h] = pc[h] /\ rows'[h] = rows[h]
  BY DEF ReadMessages, Goto, IInv, TypeOK, store
<1>2. \A h \in Gets \ {g} : Picked(h)' = Picked(h) /\ Shown(h)' = Shown(h)
  BY <1>1, OtherGets
<1>3. /\ Picked(g) = Nothing /\ Shown(g) = Nothing /\ Shown(g)' = Nothing
      /\ Picked(g)' = {Entry(x, Evidence[x]) : x \in Listed(g)'}
  BY <1>1 DEF Picked, HasRead, Kinds, Shown
<1>4. {Entry(x, Evidence[x]) : x \in Listed(g)'} = {e \in stored : topic[e] = wants[g]}
  <2>1. \A m \in messages : m.exchange \in Exchanges
    BY DEF IInv, TypeOK, MessageRows
  <2>2. Listed(g)' = {x \in {m.exchange : m \in messages} : About[x] = call[g].conversation}
    BY <1>1 DEF Listed, MessagesOf
  <2>3. wants[g] = call[g].conversation
    BY DEF wants
  <2>4. \A x \in {m.exchange : m \in messages} : topic[Entry(x, Evidence[x])] = About[x]
    BY <2>1, EntryFields
  <2> QED
    BY <2>2, <2>3, <2>4 DEF stored
<1>5. picked' = [picked EXCEPT ![g] = {e \in stored : topic[e] = wants[g]}]
  BY <1>2, <1>3, <1>4 DEF picked
<1>6. picked[g] = Nothing /\ shown[g] = Nothing
  BY <1>3 DEF picked, shown
<1>7. UNCHANGED <<stored, wants, shown>>
  BY <1>1, <1>2, <1>3 DEF stored, wants, shown
<1> QED
  BY <1>5, <1>6, <1>7 DEF Log!Pick, stored, wants, picked, shown, topic

(* Reading evidence shows nothing yet. *)
LEMMA EvidenceMaps ==
  ASSUME IInv, NEW g \in Gets, ReadEvidence(g)
  PROVE  UNCHANGED Log!logVars
<1>1. /\ pc[g] \in Kinds /\ pc'[g] \in Kinds \cup {"respond"}
      /\ UNCHANGED <<messages, call, rows>>
      /\ \A h \in Gets \ {g} : pc'[h] = pc[h] /\ found'[h] = found[h]
  BY NextTable DEF ReadEvidence, Goto, IInv, TypeOK, store
<1>2. \A h \in Gets \ {g} : Picked(h)' = Picked(h) /\ Shown(h)' = Shown(h)
  BY <1>1, OtherGets
<1>3. Picked(g)' = Picked(g) /\ Shown(g)' = Shown(g)
  BY <1>1 DEF Picked, HasRead, Listed, Kinds, Shown
<1>4. UNCHANGED <<stored, wants, picked, shown>>
  BY <1>1, <1>2, <1>3 DEF stored, wants, picked, shown
<1> QED
  BY <1>4 DEF Log!logVars, stored, wants, picked, shown

(* The answer shows what was picked. *)
LEMMA ShowMaps ==
  ASSUME IInv, NEW g \in Gets, Respond(g)
  PROVE  Log!Show(g)
<1>1. /\ pc[g] = "respond" /\ pc'[g] = "done"
      /\ UNCHANGED <<messages, call, rows, found>>
      /\ \A h \in Gets \ {g} : pc'[h] = pc[h]
  BY DEF Respond, Goto, IInv, TypeOK, store
<1>2. \A h \in Gets \ {g} : Picked(h)' = Picked(h) /\ Shown(h)' = Shown(h)
  BY <1>1, OtherGets
<1>3. Listed(g)' = Listed(g) /\ Assembled(g)' = Assembled(g)
  BY <1>1 DEF Listed, Assembled
<1>4. /\ Picked(g) = {Entry(x, Evidence[x]) : x \in Listed(g)}
      /\ Picked(g)' = Picked(g)
      /\ Shown(g) = Nothing
      /\ Shown(g)' = Assembled(g)
  BY <1>1, <1>3 DEF Picked, HasRead, Shown
<1>5. Shown(g)' = Picked(g)
  BY <1>1, <1>4, AssembledIsPicked
<1>6. Picked(g) # Nothing
  <2>1. \A x \in Listed(g) : x \in Exchanges
    BY DEF Listed, IInv, TypeOK, MessageRows
  <2>2. Picked(g) \in SUBSET AllEntries
    BY <1>4, <2>1 DEF AllEntries
  <2> QED
    BY <2>2, NothingAssumption
<1>7. shown' = [shown EXCEPT ![g] = picked[g]]
  BY <1>2, <1>5 DEF shown, picked
<1>8. picked[g] # Nothing /\ shown[g] = Nothing
  BY <1>4, <1>6 DEF picked, shown
<1>9. UNCHANGED <<stored, wants, picked>>
  BY <1>1, <1>2, <1>4 DEF stored, wants, picked
<1> QED
  BY <1>7, <1>8, <1>9 DEF Log!Show, stored, wants, picked, shown

LEMMA StepMaps == IInv /\ [Next]_vars => [Log!LogNext]_(Log!logVars)
<1> SUFFICES ASSUME IInv, [Next]_vars PROVE [Log!LogNext]_(Log!logVars)
  OBVIOUS
<1>1. ASSUME NEW x \in Exchanges, Commit(x) PROVE Log!LogNext
  BY <1>1, CommitMaps, EntryFields DEF Log!LogNext
<1>2. ASSUME NEW x \in Exchanges, Ask(x) \/ Compose(x) \/ Reply(x) \/ Lose(x)
      PROVE  UNCHANGED Log!logVars
  <2>1. UNCHANGED <<messages, call, pc, rows, found>>
    BY <1>2 DEF Ask, Compose, Reply, Lose, store, reader
  <2> QED
    BY <2>1, StutterMaps
<1>3. CASE Tick \/ UNCHANGED vars
  <2>1. UNCHANGED <<messages, call, pc, rows, found>>
    BY <1>3 DEF Tick, store, reader, vars
  <2> QED
    BY <2>1, StutterMaps
<1>4. ASSUME NEW g \in Gets, Receive(g) PROVE UNCHANGED Log!logVars
  <2>1. /\ pc[g] = "idle" /\ pc'[g] = "conversation"
        /\ UNCHANGED <<messages, call, rows, found>>
        /\ \A h \in Gets \ {g} : pc'[h] = pc[h]
    BY <1>4 DEF Receive, Goto, IInv, TypeOK, store
  <2>2. \A h \in Gets \ {g} : Picked(h)' = Picked(h) /\ Shown(h)' = Shown(h)
    BY <2>1, OtherGets, <1>4
  <2>3. Picked(g)' = Picked(g) /\ Shown(g)' = Shown(g)
    BY <2>1 DEF Picked, HasRead, Kinds, Shown
  <2>4. UNCHANGED <<stored, wants, picked, shown>>
    BY <2>1, <2>2, <2>3 DEF stored, wants, picked, shown
  <2> QED
    BY <2>4 DEF Log!logVars, stored, wants, picked, shown
<1>5. ASSUME NEW g \in Gets,
             FindConversation(g) \/ ReadMessages(g) \/ ReadEvidence(g) \/ Respond(g)
      PROVE  Log!LogNext \/ UNCHANGED Log!logVars
  BY <1>5, FindMaps, PickMaps, EvidenceMaps, ShowMaps DEF Log!LogNext
<1> QED
  BY <1>1, <1>2, <1>3, <1>4, <1>5 DEF Next

(* get_history implements the log for any number of exchanges, GETs and    *)
(* conversations: no customer sees anything but the log of one moment.     *)
THEOREM LogRefinement == Spec => ImplementsLog
  BY InitMaps, StepMaps, Invariance, PTL DEF Spec, ImplementsLog, Log!LogSpec
=============================================================================
