------------------------- MODULE RequestTableProofs -------------------------
(***************************************************************************)
(* Proofs about RequestTable, for any set of queries and of threads.        *)
(* IndInv is inductive: each part is shown to hold initially and to be kept *)
(* by every step, from the parts before it.                                 *)
(***************************************************************************)
EXTENDS RequestTable, TLAPS

\* The steps of Next, one fact each.
Step ==
  \/ \E t \in Threads, q \in Queries : LoadId(t, q)
  \/ \E t \in Threads : StoreId(t)
  \/ \E t \in Threads : InsertEntry(t)
  \/ \E t \in Threads : Send(t)
  \/ \E r \in tdlib, ok \in BOOLEAN : Receive(r, ok)
  \/ \E r \in tdlib : DropRequest(r)
  \/ \E m \in inbox : MessageReceived(m)
  \/ UNCHANGED vars

LEMMA StepCases == [Next]_vars => Step
BY DEF Next, Step, SendStep

\* What the GUI thread does with an answer: nothing to the table, or one entry
\* taken and one reply about it.
LEMMA Received ==
  ASSUME NEW m \in inbox, MessageReceived(m)
  PROVE  /\ inbox' = inbox \ {m}
         /\ UNCHANGED <<sendVars, tdlib>>
         /\ \/ UNCHANGED <<table, replies>> /\ ~(IsAnswer(m) /\ m.id \in DOMAIN table)
            \/ /\ IsAnswer(m) /\ m.id \in DOMAIN table
               /\ table' = [k \in DOMAIN table \ {m.id} |-> table[k]]
               /\ replies' = replies \cup {[to |-> table[m.id], about |-> m.query,
                                            outcome |-> Outcome(table[m.id], m.ok)]}
BY DEF MessageReceived, HandleMessageWithResponse, TakeEntry
-----------------------------------------------------------------------------
LEMMA TypeInit == Init => TypeOK
<1> SUFFICES ASSUME Init PROVE TypeOK
  OBVIOUS
<1>1. tdlib \subseteq Request
  BY SMT DEF Init, Request, LogVerbosityRequest
<1>2. Busy = {}
  BY DEF Init, Busy
<1>3. messageId \in Nat /\ pc \in [Threads -> Steps] /\ loaded \in [Threads -> Nat]
  BY SMT DEF Init, Steps
<1>4. query \in [Threads -> Queries \cup {NoQuery}]
  BY DEF Init
<1>5. overlapped \in BOOLEAN /\ DOMAIN table = {}
  BY DEF Init
<1> QED
  BY <1>1, <1>2, <1>3, <1>4, <1>5 DEF TypeOK, Init

LEMMA TypeStep == TypeOK /\ [Next]_vars => TypeOK'
<1> SUFFICES ASSUME TypeOK, [Next]_vars PROVE TypeOK'
  OBVIOUS
<1>1. ASSUME NEW t \in Threads, NEW q \in Queries, LoadId(t, q) PROVE TypeOK'
  BY <1>1, SMT DEF LoadId, TypeOK, Steps, Busy
<1>2. ASSUME NEW t \in Threads, StoreId(t) PROVE TypeOK'
  BY <1>2, SMT DEF StoreId, TypeOK, Steps, Busy
<1>3. ASSUME NEW t \in Threads, InsertEntry(t) PROVE TypeOK'
  BY <1>3, SMT DEF InsertEntry, TypeOK, Steps, Busy
<1>4. ASSUME NEW t \in Threads, Send(t) PROVE TypeOK'
  BY <1>4, SMT DEF Send, TypeOK, Steps, Busy, Request
<1>5. ASSUME NEW r \in tdlib, NEW ok \in BOOLEAN, Receive(r, ok) PROVE TypeOK'
  BY <1>5, SMT DEF Receive, TypeOK, Busy, Request, Answer, sendVars
<1>6. ASSUME NEW r \in tdlib, DropRequest(r) PROVE TypeOK'
  BY <1>6, SMT DEF DropRequest, TypeOK, Busy, sendVars
<1>7. ASSUME NEW m \in inbox, MessageReceived(m) PROVE TypeOK'
  <2>1. m \in Answer
    BY DEF TypeOK
  <2>2. UNCHANGED <<sendVars, tdlib>> /\ inbox' = inbox \ {m}
    BY <1>7, Received
  <2>3. CASE UNCHANGED <<table, replies>>
    BY <2>2, <2>3 DEF TypeOK, Busy, sendVars
  <2>4. CASE /\ m.id \in DOMAIN table
             /\ table' = [k \in DOMAIN table \ {m.id} |-> table[k]]
             /\ replies' = replies \cup {[to |-> table[m.id], about |-> m.query,
                                          outcome |-> Outcome(table[m.id], m.ok)]}
    <3>1. DOMAIN table' \subseteq Nat /\ \A id \in DOMAIN table' : table'[id] \in Queries
      BY <2>4 DEF TypeOK
    <3>2. Outcome(table[m.id], m.ok) \in {"got", "dropped", "error"}
      BY DEF Outcome
    <3>3. table[m.id] \in Queries
      BY <2>4 DEF TypeOK
    <3>4. replies' \subseteq [to : Queries, about : Queries \cup {NoQuery},
                              outcome : {"got", "dropped", "error"}]
      BY <2>1, <2>4, <3>2, <3>3, SMT DEF TypeOK, Answer
    <3> QED
      BY <2>2, <3>1, <3>4 DEF TypeOK, Busy, sendVars
  <2> QED
    BY <1>7, <2>3, <2>4, Received
<1>8. CASE UNCHANGED vars
  BY <1>8 DEF vars, sendVars, TypeOK, Busy
<1> QED
  BY <1>1, <1>2, <1>3, <1>4, <1>5, <1>6, <1>7, <1>8, StepCases DEF Step

\* Every variable keeps its type.
THEOREM TypeCorrect == Spec => []TypeOK
BY TypeInit, TypeStep, PTL DEF Spec
-----------------------------------------------------------------------------
LEMMA NumberedInit == Init => Numbered
BY NoQueryAssumption DEF Init, Numbered, LogVerbosityRequest

LEMMA NumberedStep == TypeOK /\ Numbered /\ [Next]_vars => Numbered'
<1> SUFFICES ASSUME TypeOK, Numbered, [Next]_vars PROVE Numbered'
  OBVIOUS
<1>1. ASSUME NEW t \in Threads, NEW q \in Queries, LoadId(t, q) PROVE Numbered'
  BY <1>1, SMT DEF LoadId, TypeOK, Numbered
<1>2. ASSUME NEW t \in Threads, StoreId(t) PROVE Numbered'
  BY <1>2, SMT DEF StoreId, TypeOK, Numbered
<1>3. ASSUME NEW t \in Threads, InsertEntry(t) PROVE Numbered'
  BY <1>3, SMT DEF InsertEntry, TypeOK, Numbered
<1>4. ASSUME NEW t \in Threads, Send(t) PROVE Numbered'
  BY <1>4, NoQueryAssumption, SMT DEF Send, TypeOK, Numbered, Busy
<1>5. ASSUME NEW r \in tdlib, NEW ok \in BOOLEAN, Receive(r, ok) PROVE Numbered'
  BY <1>5, SMT DEF Receive, TypeOK, Numbered, Request, Answer, sendVars
<1>6. ASSUME NEW r \in tdlib, DropRequest(r) PROVE Numbered'
  BY <1>6, SMT DEF DropRequest, TypeOK, Numbered, sendVars
<1>7. ASSUME NEW m \in inbox, MessageReceived(m) PROVE Numbered'
  BY <1>7, SMT DEF MessageReceived, TypeOK, Numbered, sendVars
<1>8. CASE UNCHANGED vars
  BY <1>8 DEF vars, sendVars, Numbered
<1> QED
  BY <1>1, <1>2, <1>3, <1>4, <1>5, <1>6, <1>7, <1>8, StepCases DEF Step

\* However the threads interleave, no answer to a query is taken for an update.
THEOREM AnswersAreKnown == Spec => []AnswersAreNotUpdates
<1>1. TypeOK /\ Numbered => AnswersAreNotUpdates
  BY SMT DEF TypeOK, Numbered, AnswersAreNotUpdates, InFlight, IsAnswer, Request, Answer
<1> QED
  BY <1>1, TypeInit, TypeStep, NumberedInit, NumberedStep, PTL DEF Spec
-----------------------------------------------------------------------------
LEMMA PlacedInit == Init => Placed
BY SMT DEF Init, Placed, Busy

LEMMA PlacedStep == TypeOK /\ Placed /\ [Next]_vars => Placed'
<1> SUFFICES ASSUME TypeOK, Placed, [Next]_vars PROVE Placed'
  OBVIOUS
<1>1. ASSUME NEW t \in Threads, NEW q \in Queries, LoadId(t, q) PROVE Placed'
  BY <1>1, SMT DEF LoadId, TypeOK, Placed, Busy
<1>2. ASSUME NEW t \in Threads, StoreId(t) PROVE Placed'
  BY <1>2, SMT DEF StoreId, TypeOK, Placed, Busy
<1>3. ASSUME NEW t \in Threads, InsertEntry(t) PROVE Placed'
  <2>1. /\ \A id \in DOMAIN table' : id = messageId \/ id \in DOMAIN table
        /\ \A id \in DOMAIN table' :
             table'[id] = IF id = messageId THEN query[t] ELSE table[id]
        /\ UNCHANGED <<query, submitted, replies>>
        /\ pc' = [pc EXCEPT ![t] = "send"]
    BY <1>3 DEF InsertEntry
  <2>2. pc[t] = "insert" /\ t \in Busy
    BY <1>3 DEF InsertEntry, Busy
  <2>3. Busy' = Busy
    BY <2>1, <2>2, SMT DEF Busy, TypeOK
  <2>4. \A u \in Threads : pc'[u] \in {"store", "insert"} => u # t /\ pc'[u] = pc[u]
    BY <2>1, SMT DEF TypeOK
  <2>5. \A u \in Threads : pc'[u] \in {"store", "insert"} =>
          /\ \A id \in DOMAIN table' : table'[id] # query'[u]
          /\ \A r \in replies' : r.to # query'[u]
    BY <2>1, <2>2, <2>4, SMT DEF Placed, Busy
  <2>6. \A id, k \in DOMAIN table' : table'[id] = table'[k] => id = k
    BY <2>1, <2>2, SMT DEF Placed
  <2>7. \A id \in DOMAIN table' : \A r \in replies' : r.to # table'[id]
    BY <2>1, <2>2, SMT DEF Placed
  <2>8. \A id \in DOMAIN table' : table'[id] \in submitted'
    BY <2>1, <2>2, SMT DEF Placed
  <2> QED
    BY <2>1, <2>3, <2>5, <2>6, <2>7, <2>8 DEF Placed
<1>4. ASSUME NEW t \in Threads, Send(t) PROVE Placed'
  BY <1>4, SMT DEF Send, TypeOK, Placed, Busy
<1>5. ASSUME NEW r \in tdlib, NEW ok \in BOOLEAN, Receive(r, ok) PROVE Placed'
  BY <1>5 DEF Receive, Placed, Busy, sendVars
<1>6. ASSUME NEW r \in tdlib, DropRequest(r) PROVE Placed'
  BY <1>6 DEF DropRequest, Placed, Busy, sendVars
<1>7. ASSUME NEW m \in inbox, MessageReceived(m) PROVE Placed'
  <2>1. UNCHANGED <<sendVars, tdlib>>
    BY <1>7, Received
  <2>2. CASE UNCHANGED <<table, replies>>
    BY <2>1, <2>2 DEF Placed, Busy, sendVars
  <2>3. CASE /\ m.id \in DOMAIN table
             /\ table' = [k \in DOMAIN table \ {m.id} |-> table[k]]
             /\ replies' = replies \cup {[to |-> table[m.id], about |-> m.query,
                                          outcome |-> Outcome(table[m.id], m.ok)]}
    <3>1. /\ DOMAIN table' = DOMAIN table \ {m.id}
          /\ \A id \in DOMAIN table' : table'[id] = table[id]
      BY <2>3
    <3>2. \A r \in replies' : r \in replies \/ r.to = table[m.id]
      BY <2>3
    <3>3. \A r, s \in replies' : r.to = s.to => r = s
      BY <2>3, <3>2 DEF Placed
    <3>4. UNCHANGED <<pc, query, submitted>> /\ Busy' = Busy
      BY <2>1 DEF sendVars, Busy
    <3>5. \A t \in Threads : pc'[t] \in {"store", "insert"} =>
            /\ \A id \in DOMAIN table' : table'[id] # query'[t]
            /\ \A r \in replies' : r.to # query'[t]
      BY <2>3, <3>1, <3>2, <3>4 DEF Placed
    <3>6. \A id \in DOMAIN table' : \A r \in replies' : r.to # table'[id]
      BY <2>3, <3>1, <3>2 DEF Placed
    <3> QED
      BY <2>3, <3>1, <3>2, <3>3, <3>4, <3>5, <3>6 DEF Placed
  <2> QED
    BY <1>7, <2>2, <2>3, Received
<1>8. CASE UNCHANGED vars
  BY <1>8 DEF vars, sendVars, Placed, Busy
<1> QED
  BY <1>1, <1>2, <1>3, <1>4, <1>5, <1>6, <1>7, <1>8, StepCases DEF Step

\* However the threads interleave, no caller gets two replies.
THEOREM OneReplyEach == Spec => []NobodyIsToldTwice
<1>1. Placed => NobodyIsToldTwice
  BY DEF Placed, NobodyIsToldTwice
<1> QED
  BY <1>1, TypeInit, TypeStep, PlacedInit, PlacedStep, PTL DEF Spec
-----------------------------------------------------------------------------
LEMMA MatchedInit == Init => Matched
BY SMT DEF Init, Matched, Busy, InFlight, LogVerbosityRequest

\* The steps of a send: nobody else is sending, and the id in use is new.
LEMMA MatchedSend ==
  ASSUME TypeOK, Numbered, Matched, ~overlapped', NEW t \in Threads,
         StoreId(t) \/ InsertEntry(t) \/ Send(t) \/ \E q \in Queries : LoadId(t, q)
  PROVE  Matched'
<1> DEFINE Flight == InFlight
<1>1. ~overlapped
  BY DEF LoadId, StoreId, InsertEntry, Send
<1>2. \A u \in Threads : pc[u] # "idle" => u = t
  BY <1>1 DEF Matched, Busy, LoadId, StoreId, InsertEntry, Send
<1>3. CASE \E q \in Queries : LoadId(t, q)
  BY <1>1, <1>2, <1>3, SMT DEF LoadId, Matched, Busy, InFlight, TypeOK
<1>4. CASE StoreId(t)
  <2>1. /\ messageId' = messageId + 1 /\ messageId \in Nat
        /\ pc' = [pc EXCEPT ![t] = "insert"] /\ pc \in [Threads -> Steps]
        /\ UNCHANGED <<query, table, tdlib, inbox, replies>>
    BY <1>1, <1>4 DEF StoreId, Matched, TypeOK
  <2>2. Busy' \subseteq {t}
    BY <1>2, <2>1, SMT DEF Busy
  <2>3. messageId' \notin DOMAIN table'
    BY <1>1, <2>1, SMT DEF Matched, TypeOK
  <2>4. \A id \in DOMAIN table' : id <= messageId'
    BY <1>1, <2>1, SMT DEF Matched, TypeOK
  <2>5. \A u \in Threads : pc'[u] # "store" /\ pc'[u] # "send" /\ pc[u] # "send"
    BY <1>2, <1>4, <2>1, SMT DEF StoreId
  <2>6. InFlight' = InFlight
    BY <2>1 DEF InFlight
  <2> QED
    BY <1>1, <2>1, <2>2, <2>3, <2>4, <2>5, <2>6 DEF Matched
<1>5. CASE InsertEntry(t)
  <2>1. /\ UNCHANGED <<messageId, query, tdlib, inbox, replies>>
        /\ pc[t] = "insert" /\ messageId \notin DOMAIN table
        /\ pc' = [pc EXCEPT ![t] = "send"] /\ pc \in [Threads -> Steps]
        /\ DOMAIN table' = DOMAIN table \cup {messageId}
        /\ \A id \in DOMAIN table' :
             table'[id] = IF id = messageId THEN query[t] ELSE table[id]
    BY <1>1, <1>5 DEF InsertEntry, Matched, TypeOK
  <2>2. Busy' \subseteq {t}
    BY <1>2, <2>1, SMT DEF Busy
  <2>3. InFlight' = InFlight /\ messageId \in Nat
    BY <2>1 DEF InFlight, TypeOK
  <2>4. \A u \in Threads : pc'[u] # "store" /\ pc'[u] # "insert" /\ (pc'[u] = "send" => u = t)
    BY <1>2, <2>1, SMT
  <2>5. \A r \in InFlight : r.id # messageId /\ r.id \in DOMAIN table /\ table[r.id] = r.query
    BY <1>1, <2>1 DEF Matched
  <2>6. \A id \in DOMAIN table' : id <= messageId'
    BY <1>1, <2>1, <2>3, SMT DEF Matched
  <2>7. \A id \in DOMAIN table' :
          \/ \E r \in InFlight : r.id = id
          \/ \E u \in Threads : pc'[u] = "send" /\ messageId = id
    <3>1. pc'[t] = "send"
      BY <2>1
    <3>2. \A u \in Threads : pc[u] # "send"
      BY <1>2, <2>1
    <3> QED
      BY <1>1, <2>1, <3>1, <3>2 DEF Matched
  <2>8. \A r \in InFlight : r.id \in DOMAIN table' /\ table'[r.id] = r.query
    BY <2>1, <2>5
  <2>9. \A u \in Threads : pc'[u] = "send" =>
          /\ messageId \in DOMAIN table' /\ table'[messageId] = query[u]
          /\ \A r \in InFlight : r.id # messageId
    BY <2>1, <2>4, <2>5
  <2> QED
    BY <1>1, <2>1, <2>2, <2>3, <2>4, <2>6, <2>7, <2>8, <2>9 DEF Matched
<1>6. CASE Send(t)
  <2>1. /\ UNCHANGED <<messageId, query, table, inbox, replies>>
        /\ pc[t] = "send"
        /\ pc' = [pc EXCEPT ![t] = "idle"] /\ pc \in [Threads -> Steps]
        /\ tdlib' = tdlib \cup {[id |-> messageId, query |-> query[t]]}
    BY <1>6 DEF Send, TypeOK
  <2>2. Busy' = {}
    BY <1>2, <2>1, SMT DEF Busy
  <2>3. query[t] \in Queries /\ query[t] # NoQuery
    BY <2>1, NoQueryAssumption DEF TypeOK, Busy
  <2>4. InFlight' = InFlight \cup {[id |-> messageId, query |-> query[t]]}
    BY <2>1, <2>3 DEF InFlight
  <2>5. \A u \in Threads : pc'[u] = "idle"
    BY <2>2 DEF Busy
  <2>6. /\ messageId \in DOMAIN table /\ table[messageId] = query[t]
        /\ \A r \in InFlight : r.id # messageId
    BY <1>1, <2>1 DEF Matched
  <2>7. \A r \in InFlight' : r.id \in DOMAIN table' /\ table'[r.id] = r.query
    BY <1>1, <2>1, <2>4, <2>6 DEF Matched
  <2>8. \A r \in tdlib', m \in inbox' : m.query # NoQuery => r.id # m.id
    BY <1>1, <2>1, <2>6 DEF Matched, InFlight
  <2>9. \A id \in DOMAIN table' : \E r \in InFlight' : r.id = id
    <3>1. \A id \in DOMAIN table : (\E r \in InFlight : r.id = id) \/ id = messageId
      BY <1>1 DEF Matched
    <3>2. \E r \in InFlight' : r.id = messageId
      <4> DEFINE new == [id |-> messageId, query |-> query[t]]
      <4>1. new \in InFlight' /\ new.id = messageId
        BY <2>4
      <4> HIDE DEF new
      <4> QED
        BY <4>1
    <3> QED
      BY <2>1, <2>4, <3>1, <3>2
  <2>10. \A id \in DOMAIN table' : id <= messageId'
    BY <1>1, <2>1 DEF Matched
  <2>11. \A m, n \in inbox' : m.query # NoQuery /\ m.id = n.id => m = n
    BY <1>1, <2>1 DEF Matched
  <2>12. \A r \in replies' : r.to = r.about
    BY <1>1, <2>1 DEF Matched
  <2> QED
    BY <2>2, <2>5, <2>7, <2>8, <2>9, <2>10, <2>11, <2>12 DEF Matched
<1> QED
  BY <1>3, <1>4, <1>5, <1>6

\* An answer moves from TDLib to the GUI thread's queue.
LEMMA MatchedReceive ==
  ASSUME TypeOK, Numbered, Matched, ~overlapped',
         NEW r \in tdlib, NEW ok \in BOOLEAN, Receive(r, ok)
  PROVE  Matched'
<1> DEFINE a == [id |-> r.id, query |-> r.query, ok |-> ok]
<1>1. /\ UNCHANGED <<messageId, pc, query, loaded, overlapped, table, replies>>
      /\ tdlib' = tdlib \ {r} /\ inbox' = inbox \cup {a}
  BY DEF Receive, sendVars
<1>2. ~overlapped /\ Busy' = Busy
  BY <1>1 DEF Busy
<1>3. \A x \in InFlight' : \E y \in InFlight : x.id = y.id /\ x.query = y.query
  BY <1>1 DEF InFlight
<1>4. \A y \in InFlight : \E x \in InFlight' : x.id = y.id
  <2>1. \A y \in InFlight : y = r \/ y \in InFlight'
    BY <1>1 DEF InFlight
  <2>2. r.query # NoQuery => a \in InFlight' /\ a.id = r.id
    BY <1>1 DEF InFlight
  <2>3. ASSUME r \in InFlight PROVE r.query # NoQuery
    BY <2>3 DEF InFlight
  <2> QED
    BY <2>1, <2>2, <2>3
<1>5. \A x \in tdlib', m \in inbox' : m.query # NoQuery => x.id # m.id
  <2>1. SUFFICES ASSUME NEW x \in tdlib', r.query # NoQuery PROVE x.id # r.id
    BY <1>1, <1>2 DEF Matched
  <2>2. x \in tdlib /\ x # r
    BY <1>1
  <2>3. CASE x.query = NoQuery
    BY <2>1, <2>2, <2>3, SMT DEF Numbered
  <2>4. CASE x.query # NoQuery
    <3>1. x \in Request /\ r \in Request
      BY <2>2 DEF TypeOK
    <3>2. x.id = r.id => x.query = r.query
      BY <1>2, <2>1, <2>2, <2>4 DEF Matched, InFlight
    <3> QED
      BY <2>2, <3>1, <3>2, SMT DEF Request
  <2> QED
    BY <2>3, <2>4
<1>6. \A m, n \in inbox' : m.query # NoQuery /\ m.id = n.id => m = n
  <2>1. \A m \in inbox : m.query # NoQuery => m.id # r.id
    BY <1>2 DEF Matched
  <2>2. \A m \in inbox : r.query # NoQuery /\ m.query = NoQuery => m.id # r.id
    BY SMT DEF Numbered
  <2>3. \A m \in inbox : r.query # NoQuery => m.id # r.id
    BY <2>1, <2>2
  <2> QED
    BY <1>1, <1>2, <2>1, <2>3 DEF Matched
<1>7. \A u \in Threads : pc[u] = "send" => \A x \in InFlight' : x.id # messageId
  BY <1>2, <1>3 DEF Matched
<1>8. \A x \in InFlight' : x.id \in DOMAIN table /\ table[x.id] = x.query
  BY <1>2, <1>3 DEF Matched
<1>9. \A id \in DOMAIN table : \/ \E x \in InFlight' : x.id = id
                               \/ \E u \in Threads : pc[u] = "send" /\ messageId = id
  BY <1>2, <1>4 DEF Matched
<1> QED
  BY <1>1, <1>2, <1>5, <1>6, <1>7, <1>8, <1>9 DEF Matched

\* The GUI thread takes the entry of an answer.
LEMMA MatchedHandle ==
  ASSUME TypeOK, Numbered, Matched, ~overlapped', NEW m \in inbox, MessageReceived(m)
  PROVE  Matched'
<1>1. /\ UNCHANGED <<messageId, pc, query, loaded, overlapped, tdlib>>
      /\ inbox' = inbox \ {m}
  BY Received DEF sendVars
<1>2. ~overlapped /\ Busy' = Busy /\ m \in Answer
  BY <1>1 DEF Busy, TypeOK
<1>3. CASE m.query = NoQuery
  <2>1. ~IsAnswer(m)
    BY <1>3, SMT DEF Numbered, IsAnswer
  <2>2. UNCHANGED <<table, replies>>
    BY <2>1, Received
  <2>3. InFlight' = InFlight
    BY <1>1, <1>3 DEF InFlight
  <2> QED
    BY <1>1, <1>2, <2>2, <2>3 DEF Matched
<1>4. CASE m.query # NoQuery
  <2>1. m \in InFlight /\ m.id \in DOMAIN table /\ table[m.id] = m.query /\ IsAnswer(m)
    <3>1. m.id > 1
      BY <1>4, SMT DEF Numbered
    <3> QED
      BY <1>2, <1>4, <3>1 DEF Matched, InFlight, IsAnswer
  <2>2. /\ table' = [k \in DOMAIN table \ {m.id} |-> table[k]]
        /\ replies' = replies \cup {[to |-> table[m.id], about |-> m.query,
                                     outcome |-> Outcome(table[m.id], m.ok)]}
    BY <2>1, Received
  <2>3. InFlight' \subseteq InFlight
    BY <1>1 DEF InFlight
  <2>4. \A x \in InFlight' : x.id # m.id
    <3>1. \A x \in tdlib : x.id # m.id
      BY <1>2, <1>4 DEF Matched
    <3>2. \A x \in inbox' : x.id # m.id
      BY <1>1, <1>2, <1>4 DEF Matched
    <3> QED
      BY <1>1, <3>1, <3>2 DEF InFlight
  <2>5. \A x \in InFlight : x.id # m.id => x \in InFlight'
    BY <1>1 DEF InFlight
  <2>6. \A u \in Threads : pc[u] = "send" => messageId # m.id
    BY <1>2, <2>1 DEF Matched
  <2>7. DOMAIN table' = DOMAIN table \ {m.id} /\ \A id \in DOMAIN table' : table'[id] = table[id]
    BY <2>2
  <2>8. \A x \in InFlight' : x.id \in DOMAIN table' /\ table'[x.id] = x.query
    BY <1>2, <2>3, <2>4, <2>7 DEF Matched
  <2>9. \A id \in DOMAIN table' : \/ \E x \in InFlight' : x.id = id
                                  \/ \E u \in Threads : pc'[u] = "send" /\ messageId' = id
    BY <1>1, <1>2, <2>5, <2>7 DEF Matched
  <2>10. \A u \in Threads : pc'[u] = "send" =>
           /\ messageId' \in DOMAIN table' /\ table'[messageId'] = query'[u]
           /\ \A x \in InFlight' : x.id # messageId'
    BY <1>1, <1>2, <2>3, <2>6, <2>7 DEF Matched
  <2>11. \A x \in replies' : x.to = x.about
    BY <1>2, <2>1, <2>2 DEF Matched
  <2>12. /\ \A id \in DOMAIN table' : id <= messageId'
         /\ \A u \in Threads : pc'[u] = "insert" => messageId' \notin DOMAIN table'
    BY <1>1, <1>2, <2>7 DEF Matched
  <2> QED
    BY <1>1, <1>2, <2>8, <2>9, <2>10, <2>11, <2>12 DEF Matched
<1> QED
  BY <1>3, <1>4

LEMMA MatchedStep == TypeOK /\ Numbered /\ Matched /\ [Next]_vars => Matched'
<1> SUFFICES ASSUME TypeOK, Numbered, Matched, [Next]_vars, ~overlapped' PROVE Matched'
  BY DEF Matched
<1>1. ASSUME NEW r \in tdlib, DropRequest(r) PROVE Matched'
  <2>1. r.query = NoQuery
    BY <1>1, SMT DEF DropRequest, Numbered
  <2>2. InFlight' = InFlight
    BY <1>1, <2>1 DEF DropRequest, InFlight
  <2> QED
    BY <1>1, <2>2 DEF DropRequest, Matched, Busy, sendVars
<1>2. CASE UNCHANGED vars
  BY <1>2 DEF vars, sendVars, Matched, Busy, InFlight
<1> QED
  BY <1>1, <1>2, MatchedSend, MatchedReceive, MatchedHandle, StepCases DEF Step

\* The whole inductive invariant, for every set of threads and queries.
THEOREM Invariant == Spec => []IndInv
BY TypeInit, TypeStep, NumberedInit, NumberedStep, PlacedInit, PlacedStep,
   MatchedInit, MatchedStep, PTL DEF Spec, IndInv

\* Every reply is about the query of the caller it goes to, unless two threads
\* were in sendQuery at the same time.
THEOREM OwnReplies == Spec => []RepliesGoHome
<1>1. IndInv => RepliesGoHome
  BY DEF IndInv, Matched, RepliesGoHome
<1> QED
  BY <1>1, Invariant, PTL

\* _messages holds exactly the queries that wait for their answer.
THEOREM TableIsExact == Spec => []TableMatchesRequests
<1>1. IndInv => TableMatchesRequests
  <2> SUFFICES ASSUME IndInv, ~overlapped
               PROVE  DOMAIN table = {r.id : r \in InFlight}
                        \cup {messageId : t \in {u \in Threads : pc[u] = "send"}}
    BY DEF TableMatchesRequests
  <2>1. \A id \in DOMAIN table : \/ \E r \in InFlight : r.id = id
                                 \/ \E t \in Threads : pc[t] = "send" /\ messageId = id
    BY DEF IndInv, Matched
  <2>2. \A r \in InFlight : r.id \in DOMAIN table
    BY DEF IndInv, Matched
  <2>3. \A t \in Threads : pc[t] = "send" => messageId \in DOMAIN table
    BY DEF IndInv, Matched
  <2> QED
    BY <2>1, <2>2, <2>3
<1> QED
  BY <1>1, Invariant, PTL
-----------------------------------------------------------------------------
\* A step is a step of RequestReply, or does not change what it speaks of.
LEMMA StepImplements ==
  ASSUME IndInv, ~overlapped, ~overlapped', [Next]_vars
  PROVE  [Abstract!Next]_Abstract!vars
<1>1. ASSUME NEW t \in Threads, NEW q \in Queries, LoadId(t, q) PROVE Abstract!Next
  <2>1. UNCHANGED overlapped
    BY <1>1 DEF LoadId, IndInv, TypeOK
  <2> QED
    BY <1>1, <2>1 DEF LoadId, Abstract!Next, Abstract!Submit
<1>2. ASSUME NEW m \in inbox, MessageReceived(m) PROVE [Abstract!Next]_Abstract!vars
  <2>1. UNCHANGED <<submitted, overlapped>>
    BY <1>2, Received DEF sendVars
  <2>2. CASE UNCHANGED <<table, replies>>
    BY <2>1, <2>2 DEF Abstract!vars
  <2>3. CASE /\ IsAnswer(m) /\ m.id \in DOMAIN table
             /\ replies' = replies \cup {[to |-> table[m.id], about |-> m.query,
                                          outcome |-> Outcome(table[m.id], m.ok)]}
    <3>1. m.query # NoQuery
      BY <2>3, SMT DEF IndInv, Numbered, IsAnswer
    <3>2. table[m.id] = m.query /\ table[m.id] \in Queries
      BY <2>3, <3>1 DEF IndInv, Matched, InFlight, TypeOK
    <3>3. table[m.id] \in submitted /\ ~Abstract!Replied(table[m.id])
      BY <2>3 DEF IndInv, Placed, Abstract!Replied
    <3>4. Outcome(table[m.id], m.ok) \in Abstract!Outcomes(table[m.id])
      BY DEF Outcome, Abstract!Outcomes
    <3>5. Abstract!Report(table[m.id])
      BY <2>1, <2>3, <3>2, <3>3, <3>4 DEF Abstract!Report
    <3> QED
      BY <3>2, <3>5 DEF Abstract!Next
  <2> QED
    BY <1>2, <2>2, <2>3, Received
<1>3. CASE UNCHANGED <<submitted, replies, overlapped>>
  BY <1>3 DEF Abstract!vars
<1> QED
  BY <1>1, <1>2, <1>3, StepCases
     DEF Step, StoreId, InsertEntry, Send, Receive, DropRequest, sendVars, vars

\* Once two sends have overlapped, the promise stays void.
LEMMA OverlapIsVoid ==
  ASSUME TypeOK, [Next]_vars, overlapped \/ overlapped'
  PROVE  [Abstract!Next]_Abstract!vars
<1>1. overlapped' \in BOOLEAN /\ (overlapped => overlapped')
  <2>1. ASSUME NEW t \in Threads, NEW q \in Queries, LoadId(t, q)
        PROVE  overlapped' \in BOOLEAN /\ (overlapped => overlapped')
    BY <2>1 DEF LoadId, TypeOK
  <2>2. CASE UNCHANGED overlapped
    BY <2>2 DEF TypeOK
  <2> QED
    BY <2>1, <2>2, StepCases
       DEF Step, StoreId, InsertEntry, Send, Receive, DropRequest, MessageReceived, sendVars, vars
<1>2. overlapped' = TRUE
  BY <1>1
<1> QED
  BY <1>2 DEF Abstract!Next, Abstract!BreakPromise

\* The table implements the promise of RequestReply, whatever the threads do:
\* until two sends overlap, every step hands over one query, or reports one
\* reply to the caller it belongs to, or neither (the safety part of Implements).
THEOREM TableImplements == Spec => Abstract!Init /\ [][Abstract!Next]_Abstract!vars
<1>1. Init => Abstract!Init
  BY DEF Init, Abstract!Init
<1>2. IndInv /\ [Next]_vars => [Abstract!Next]_Abstract!vars
  <2> SUFFICES ASSUME IndInv, [Next]_vars PROVE [Abstract!Next]_Abstract!vars
    OBVIOUS
  <2>1. CASE overlapped \/ overlapped'
    BY <2>1, OverlapIsVoid DEF IndInv
  <2>2. CASE ~overlapped /\ ~overlapped'
    BY <2>2, StepImplements
  <2> QED
    BY <2>1, <2>2
<1> QED
  BY <1>1, <1>2, Invariant, PTL DEF Spec
=============================================================================
