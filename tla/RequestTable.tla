---------------------------- MODULE RequestTable ----------------------------
(***************************************************************************)
(* How TelegramManager matches the answers of TDLib with its queries.  A    *)
(* query takes the next _messageId, leaves its context in _messages and     *)
(* goes to TDLib; the receiver thread emits every answer as a queued signal *)
(* and the GUI thread takes the context back.  Nothing is locked: the       *)
(* queries of the GUI thread are one after the other, but the callback      *)
(* signalingDataEmitted of a call (calls.cpp) sends from a thread of        *)
(* tgcalls.  A send is therefore several steps here: the load and the store *)
(* of _messageId++, the entry in _messages, and ClientManager::send.        *)
(*                                                                         *)
(* TDLib may answer in any order, so the queued signals are a set.          *)
(***************************************************************************)
EXTENDS Naturals, FiniteSets

CONSTANTS
  Queries,  \* the queries, each sent once, with their caller's context
  Silent,   \* the ones whose type has no case in handleMessageWithResponse
  Threads,  \* threads that send queries
  Gui,      \* the one that also handles the answers
  NoQuery   \* stands for no query

ASSUME ThreadsAssumption == Gui \in Threads
ASSUME NoQueryAssumption == NoQuery \notin Queries
ASSUME SilentAssumption == Silent \subseteq Queries

VARIABLES
  messageId, \* _messageId
  table,     \* _messages: id -> the query it was sent for
  pc,        \* what sendQuery does next in each thread
  query,     \* the query each thread is sending
  loaded,    \* _messageId as each thread has loaded it
  tdlib,     \* requests TDLib has not answered
  inbox,     \* answers emitted by the receiver thread, not yet handled
  submitted, \* queries sendQuery was called for
  replies,   \* replies reported: to whom, about which query, and what
  overlapped \* two threads have been in sendQuery at the same time

sendVars == <<messageId, pc, query, loaded, submitted, overlapped>>
vars == <<sendVars, table, tdlib, inbox, replies>>

\* The queries handed over and the replies reported are what callers see; the
\* counter, the table and the threads are hidden.
Abstract == INSTANCE RequestReply
              WITH Queries <- Queries, Silent <- Silent,
                   submitted <- submitted, replies <- replies, void <- overlapped

Request == [id : Nat, query : Queries \cup {NoQuery}]
Answer == [id : Nat, query : Queries \cup {NoQuery}, ok : BOOLEAN]
Steps == {"idle", "store", "insert", "send"}

\* The request of the constructor of TelegramReceiver.
LogVerbosityRequest == [id |-> 0, query |-> NoQuery]

Busy == {t \in Threads : pc[t] # "idle"}
-----------------------------------------------------------------------------
(* TelegramManager::sendQuery and sendQueryWithResponse, in any thread.     *)

\* The load of _messageId++
LoadId(t, q) ==
  /\ pc[t] = "idle"
  /\ q \notin submitted
  /\ submitted' = submitted \cup {q}
  /\ query' = [query EXCEPT ![t] = q]
  /\ loaded' = [loaded EXCEPT ![t] = messageId]
  /\ pc' = [pc EXCEPT ![t] = "store"]
  /\ overlapped' = (overlapped \/ Busy # {})
  /\ UNCHANGED <<messageId, table, tdlib, inbox, replies>>

\* The store of _messageId++
StoreId(t) ==
  /\ pc[t] = "store"
  /\ messageId' = loaded[t] + 1
  /\ pc' = [pc EXCEPT ![t] = "insert"]
  /\ UNCHANGED <<query, loaded, submitted, overlapped, table, tdlib, inbox, replies>>

\* _messages[_messageId] = {...}
InsertEntry(t) ==
  /\ pc[t] = "insert"
  /\ table' = [id \in DOMAIN table \cup {messageId} |->
                 IF id = messageId THEN query[t] ELSE table[id]]
  /\ pc' = [pc EXCEPT ![t] = "send"]
  /\ UNCHANGED <<messageId, query, loaded, submitted, overlapped, tdlib, inbox, replies>>

\* ClientManager::send
Send(t) ==
  /\ pc[t] = "send"
  /\ tdlib' = tdlib \cup {[id |-> messageId, query |-> query[t]]}
  /\ pc' = [pc EXCEPT ![t] = "idle"]
  /\ UNCHANGED <<messageId, query, loaded, submitted, overlapped, table, inbox, replies>>
-----------------------------------------------------------------------------
(* TDLib (external) and the receiver thread.                                *)

\* TDLib answers a request; TelegramReceiver::run emits messageReceived.
Receive(r, ok) ==
  /\ r \in tdlib
  /\ tdlib' = tdlib \ {r}
  /\ inbox' = inbox \cup {[id |-> r.id, query |-> r.query, ok |-> ok]}
  /\ UNCHANGED <<sendVars, table, replies>>

\* Client.h does not allow the id 0: TDLib may drop that request.
DropRequest(r) ==
  /\ r \in tdlib /\ r.id = 0
  /\ tdlib' = tdlib \ {r}
  /\ UNCHANGED <<sendVars, table, inbox, replies>>
-----------------------------------------------------------------------------
(* The GUI thread.                                                          *)

\* Mutant of TakeEntry: the entry is read and stays.
TakeEntryLeavesIt(id) == UNCHANGED table

\* _messages.take(id)
TakeEntry(id) == table' = [k \in DOMAIN table \ {id} |-> table[k]]

\* The signal for an answer: error, or the one its type has in the switch.
Outcome(q, ok) == IF ~ok THEN "error" ELSE IF q \in Silent THEN "dropped" ELSE "got"

\* TelegramManager::handleMessageWithResponse
HandleMessageWithResponse(m) ==
  IF m.id \notin DOMAIN table THEN UNCHANGED <<table, replies>>
  ELSE LET q == table[m.id]
       IN /\ TakeEntry(m.id)
          /\ replies' = replies \cup
               {[to |-> q, about |-> m.query, outcome |-> Outcome(q, m.ok)]}

\* Mutant of IsAnswer: the first query's answer is dispatched as an update.
IsAnswerAfterSecond(m) == m.id > 2

\* The test of TelegramManager::messageReceived for answers
IsAnswer(m) == m.id > 1

\* TelegramManager::messageReceived; an update changes nothing here.
MessageReceived(m) ==
  /\ pc[Gui] = "idle"
  /\ m \in inbox
  /\ inbox' = inbox \ {m}
  /\ IF IsAnswer(m) THEN HandleMessageWithResponse(m) ELSE UNCHANGED <<table, replies>>
  /\ UNCHANGED <<sendVars, tdlib>>
-----------------------------------------------------------------------------
\* TelegramManager::TelegramManager, and TelegramReceiver's, which sends
Init ==
  /\ messageId = 1
  /\ table = [id \in {} |-> NoQuery]
  /\ pc = [t \in Threads |-> "idle"]
  /\ query = [t \in Threads |-> NoQuery]
  /\ loaded = [t \in Threads |-> 0]
  /\ tdlib = {LogVerbosityRequest}
  /\ inbox = {}
  /\ submitted = {}
  /\ replies = {}
  /\ overlapped = FALSE

SendStep(t) == StoreId(t) \/ InsertEntry(t) \/ Send(t)

Next ==
  \/ \E t \in Threads, q \in Queries : LoadId(t, q)
  \/ \E t \in Threads : SendStep(t)
  \/ \E r \in tdlib, ok \in BOOLEAN : Receive(r, ok)
  \/ \E r \in tdlib : DropRequest(r)
  \/ \E m \in inbox : MessageReceived(m)

\* A thread finishes the send it is in, TDLib answers every request (a query
\* is answered or fails), and the event loop delivers every queued signal.
Fairness ==
  /\ \A t \in Threads : WF_vars(SendStep(t))
  /\ \A q \in Queries : WF_vars(\E r \in tdlib, ok \in BOOLEAN : r.query = q /\ Receive(r, ok))
  /\ \A q \in Queries : WF_vars(\E m \in inbox : m.query = q /\ MessageReceived(m))

Spec == Init /\ [][Next]_vars /\ Fairness
-----------------------------------------------------------------------------
(* Properties.                                                              *)

TypeOK ==
  /\ messageId \in Nat
  /\ DOMAIN table \subseteq Nat /\ \A id \in DOMAIN table : table[id] \in Queries
  /\ pc \in [Threads -> Steps]
  /\ query \in [Threads -> Queries \cup {NoQuery}]
  /\ \A t \in Busy : query[t] \in Queries
  /\ loaded \in [Threads -> Nat]
  /\ tdlib \subseteq Request
  /\ inbox \subseteq Answer
  /\ submitted \subseteq Queries
  /\ replies \subseteq [to : Queries, about : Queries \cup {NoQuery},
                        outcome : {"got", "dropped", "error"}]
  /\ overlapped \in BOOLEAN

\* The requests and answers of sendQuery that are under way.
InFlight == {r \in tdlib : r.query # NoQuery} \cup {m \in inbox : m.query # NoQuery}

\* No reply goes to the caller of another query (the context a signal carries
\* is the one its query was sent with), unless two threads were in sendQuery
\* at the same time: then the id of one may be used by the other.
RepliesGoHome == ~overlapped => \A r \in replies : r.to = r.about

\* _messages holds exactly the queries that wait for their answer: none is
\* left behind, and no answer comes without its entry.
TableMatchesRequests ==
  ~overlapped =>
    DOMAIN table = {r.id : r \in InFlight} \cup {messageId : t \in {u \in Threads : pc[u] = "send"}}

\* Whatever the threads do, the answer to a query is never dispatched as an
\* update: its id is past the ones messageReceived takes for updates.
AnswersAreNotUpdates == \A r \in InFlight : IsAnswer(r)

\* Whatever the threads do, no caller is told twice.
NobodyIsToldTwice == \A r, s \in replies : r.to = s.to => r = s

\* The invariant behind AnswersAreNotUpdates: the counter never falls back to
\* the ids that messageReceived takes for updates.
Numbered ==
  /\ messageId >= 1
  /\ \A t \in Threads : /\ pc[t] = "store" => loaded[t] >= 1
                        /\ pc[t] \in {"insert", "send"} => messageId > 1
  /\ \A r \in tdlib \cup inbox : IF r.query = NoQuery THEN r.id = 0 ELSE r.id > 1

\* The invariant behind NobodyIsToldTwice: a query is in one place, with the
\* thread that sends it, in one entry of the table, or among the replies.
Placed ==
  /\ \A t \in Busy : query[t] \in submitted
  /\ \A t, u \in Busy : query[t] = query[u] => t = u
  /\ \A t \in Threads : pc[t] \in {"store", "insert"} =>
       /\ \A id \in DOMAIN table : table[id] # query[t]
       /\ \A r \in replies : r.to # query[t]
  /\ \A id \in DOMAIN table : table[id] \in submitted
  /\ \A id, k \in DOMAIN table : table[id] = table[k] => id = k
  /\ \A id \in DOMAIN table : \A r \in replies : r.to # table[id]
  /\ \A r \in replies : r.to \in submitted
  /\ \A r, s \in replies : r.to = s.to => r = s

\* The invariant behind RepliesGoHome and TableMatchesRequests: while the sends
\* are one after the other, every id under way is in the table for its query,
\* and the id being sent is new.
Matched ==
  ~overlapped =>
    /\ \A t, u \in Busy : t = u
    /\ \A t \in Threads : pc[t] = "store" => loaded[t] = messageId
    /\ \A id \in DOMAIN table : id <= messageId
    /\ \A t \in Threads : pc[t] = "insert" => messageId \notin DOMAIN table
    /\ \A t \in Threads : pc[t] = "send" =>
         /\ messageId \in DOMAIN table /\ table[messageId] = query[t]
         /\ \A r \in InFlight : r.id # messageId
    /\ \A r \in InFlight : r.id \in DOMAIN table /\ table[r.id] = r.query
    /\ \A r \in tdlib, m \in inbox : m.query # NoQuery => r.id # m.id
    /\ \A m, n \in inbox : m.query # NoQuery /\ m.id = n.id => m = n
    /\ \A id \in DOMAIN table :
         \/ \E r \in InFlight : r.id = id
         \/ \E t \in Threads : pc[t] = "send" /\ messageId = id
    /\ \A r \in replies : r.to = r.about

\* The inductive invariant of the protocol: where every query is, which ids are
\* in use, and what the counter promises about the next one.
IndInv == TypeOK /\ Numbered /\ Placed /\ Matched

\* Requests keep to the rule of Client.h: "Request identifier. Must be non-zero."
RequestIdIsNonZero == \A r \in tdlib : r.id # 0

\* The table implements the promise: one reply to every query, about that
\* query, reported in the end; until two sends overlap.
Implements == Abstract!Spec
=============================================================================
