------------------------ MODULE ChatTimelineProofs ------------------------
(***************************************************************************)
(* Proofs about ChatTimeline: every variable keeps its type, and every      *)
(* safety property of the module holds.  Each rests on an invariant that    *)
(* speaks of the queue as well as of the chat, since an event tells what    *)
(* was true when TDLib posted it:                                           *)
(*   RowsInv     no event before the one that announces a sent message's    *)
(*               new id carries that id, so its row is the only one;        *)
(*   ObjectsInv  no event speaks of a temporary id any more once it is left, *)
(*               so an object stored under one never gets a row;            *)
(*   LiveInv     a row without a message is taken away by a waiting event;  *)
(*   FetchInv, KnownInv   what was asked for is under way, and its message   *)
(*               is stored;                                                 *)
(*   LastInv     the last message is TDLib's once the announcement that     *)
(*               waits behind all others is handled;                        *)
(*   OrderInv, WindowInv  no message is missing between the rows and the     *)
(*               places where pages under way will extend them.             *)
(***************************************************************************)
EXTENDS ChatTimeline, SequenceTheorems, WellFoundedInduction, TLAPS

\* A non-empty set of naturals has a smallest member.
LEMMA OldestExists ==
  ASSUME NEW S \in SUBSET Nat, S # {}
  PROVE  \E id \in S : \A x \in S : id <= x
<1> DEFINE R == {ss \in Nat \X Nat : ss[1] < ss[2]}
<1>1. IsWellFoundedOn(R, Nat)
  BY NatLessThanWellFounded, Zenon DEF OpToRel
<1>2. PICK id \in S : \A y \in S : ~ (<<y, id>> \in R)
  <2> HIDE DEF R
  <2> QED BY <1>1, WFMin, Zenon
<1>3. \A x \in S : id <= x
  <2> TAKE x \in S
  <2>1. <<x, id>> \notin R
    BY <1>2
  <2> QED BY <2>1
<1> QED BY <1>3

\* A non-empty set of ids has a largest member.
LEMMA NewestExists ==
  ASSUME NEW S \in SUBSET Ids, S # {}
  PROVE  \E id \in S : \A x \in S : x <= id
<1> DEFINE D == {n \in Nat : \E x \in S : n = MaxId - x}
<1>1. \A x \in S : MaxId - x \in D
  BY BoundsAssumption DEF Ids
<1>2. PICK d \in D : \A y \in D : d <= y
  <2>1. D \in SUBSET Nat /\ D # {}
    BY <1>1
  <2> HIDE DEF D
  <2> QED BY <2>1, OldestExists
<1>3. PICK id \in S : d = MaxId - id
  OBVIOUS
<1>4. \A x \in S : x <= id
  <2> TAKE x \in S
  <2>1. d <= MaxId - x
    BY <1>1, <1>2
  <2> QED BY <2>1, <1>3, BoundsAssumption DEF Ids
<1> QED BY <1>4

\* The ends of a window of rows are ids, or NoId without rows.
LEMMA WindowEndsType ==
  ASSUME NEW S \in SUBSET Ids
  PROVE  Newest(S) \in Ids \cup {NoId} /\ Oldest(S) \in Ids \cup {NoId}
<1>1. CASE S = {}
  BY <1>1 DEF Newest, Oldest
<1>2. CASE S # {}
  <2>1. \E id \in S : \A x \in S : x <= id
    BY <1>2, NewestExists
  <2>2. \E id \in S : \A x \in S : id <= x
    BY <1>2, OldestExists DEF Ids
  <2>3. Newest(S) \in S
    BY <1>2, <2>1 DEF Newest
  <2>4. Oldest(S) \in S
    BY <1>2, <2>2 DEF Oldest
  <2> QED BY <2>3, <2>4
<1> QED BY <1>1, <1>2
-----------------------------------------------------------------------------
\* Type correctness, one lemma per thread: TDLib, event handlers, chat page.
LEMMA InitType == Init => TypeOK
<1> SUFFICES ASSUME Init PROVE TypeOK
  OBVIOUS
<1> USE BoundsAssumption DEF Init
<1>1. Cached \subseteq Ids /\ messages \in [Cached -> Ids]
  BY DEF Cached
<1>2. rows \in [Ids -> Nat]
  BY DEF NoRows
<1>3. updates \in Seq(Event)
  OBVIOUS
<1>4. nextId \in 1 .. MaxId + 1 /\ lastMessageId \in Ids \cup {NoId}
  OBVIOUS
<1> QED BY <1>1, <1>2, <1>3, <1>4 DEF TypeOK

\* What TDLib does keeps the types: the events it posts are well formed.
LEMMA ServerType ==
  ASSUME TypeOK, TDLib
  PROVE  TypeOK'
<1> USE BoundsAssumption DEF TypeOK, chatVars, serverVars, historyVars
<1>0. ASSUME NEW events \in Seq(Event), Post(events)
      PROVE  updates' \in Seq(Event)
  BY <1>0, ConcatProperties DEF Post
<1>1. ASSUME NEW S \in SUBSET Ids
      PROVE  LastMessageUpdate(S) \in Seq(Event)
  BY WindowEndsType DEF LastMessageUpdate, Event, LastMessageEvent
<1>2. ASSUME NEW events \in Seq(Event), NEW more \in Seq(Event)
      PROVE  events \o more \in Seq(Event)
  BY ConcatProperties
<1>3. ASSUME NEW sending \in BOOLEAN, NewServerMessage(sending)
      PROVE  TypeOK'
  <2> USE <1>3 DEF NewServerMessage
  <2>1. nextId \in Ids /\ nextId' \in 1 .. MaxId + 1
    BY DEF Ids
  <2>2. server' \subseteq Ids /\ unsent' \subseteq server'
    BY <2>1
  <2>3. <<[type |-> "newMessage", id |-> nextId, prev |-> Newest(server)]>> \in Seq(Event)
    BY <2>1, WindowEndsType DEF Event, NewMessageEvent
  <2>4. updates' \in Seq(Event)
    BY <1>0, <1>1, <1>2, <2>2, <2>3
  <2> QED BY <2>1, <2>2, <2>4 DEF Cached
<1>4. ASSUME NEW old \in unsent, NEW type \in {"sendSucceeded", "sendFailed"},
             FinishSending(old, type)
      PROVE  TypeOK'
  <2> USE <1>4 DEF FinishSending
  <2>1. nextId \in Ids /\ nextId' \in 1 .. MaxId + 1
    BY DEF Ids
  <2>2. old \in Ids /\ server' \subseteq Ids /\ unsent' \subseteq server' /\ failedSends' \subseteq Ids
    BY <2>1
  <2>3. <<[type |-> type, old |-> old, id |-> nextId, newer |-> {x \in server : x > old}]>>
          \in Seq(Event)
    <3> DEFINE newer == {x \in server : x > old}
    <3>1. newer \in SUBSET Ids
      OBVIOUS
    <3> HIDE DEF newer
    <3>2. [type |-> type, old |-> old, id |-> nextId, newer |-> newer] \in SendEvent
      BY <2>1, <2>2, <3>1 DEF SendEvent
    <3> QED BY <3>2 DEF Event, newer
  <2>4. updates' \in Seq(Event)
    BY <1>0, <1>1, <1>2, <2>2, <2>3
  <2> QED BY <2>1, <2>2, <2>4 DEF Cached
<1>5. ASSUME NEW id \in server, DeleteOnServer(id)
      PROVE  TypeOK'
  <2> USE <1>5 DEF DeleteOnServer
  <2>1. server' \subseteq Ids /\ unsent' \subseteq server'
    OBVIOUS
  <2>2. <<[type |-> "delete", id |-> id, fromCache |-> FALSE]>> \in Seq(Event)
    BY DEF Event, DeleteEvent
  <2>3. <<>> \in Seq(Event)
    OBVIOUS
  <2>4. updates' \in Seq(Event)
    BY <1>0, <1>1, <1>2, <2>1, <2>2, <2>3
  <2> QED BY <2>1, <2>4 DEF Cached
<1>6. ASSUME NEW id \in server, Evict(id)
      PROVE  TypeOK'
  <2>1. <<[type |-> "delete", id |-> id, fromCache |-> TRUE]>> \in Seq(Event)
    BY DEF Event, DeleteEvent
  <2>2. updates' \in Seq(Event)
    BY <1>0, <1>6, <2>1 DEF Evict
  <2> QED BY <1>6, <2>2 DEF Evict, Cached
<1>7. ASSUME NEW r \in requests, NEW B \in SUBSET server, AnswerHistory(r, B)
      PROVE  TypeOK'
  <2> USE <1>7 DEF AnswerHistory
  <2>1. r.purpose \in Purpose /\ r.from \in Ids \cup {NoId}
    BY DEF Request, HistoryRequest, IdRequest
  <2>2. <<[type |-> "history", from |-> r.from, ids |-> B, purpose |-> r.purpose]>> \in Seq(Event)
    BY <2>1 DEF Event, HistoryEvent
  <2>3. updates' \in Seq(Event)
    BY <1>0, <2>2
  <2> QED BY <2>3 DEF Cached
<1>8. ASSUME NEW r \in requests, NEW ok \in BOOLEAN, AnswerById(r, ok)
      PROVE  TypeOK'
  <2> USE <1>8 DEF AnswerById
  <2>1. r.id \in Ids /\ r.type \in {"message", "properties"}
    BY DEF Request, HistoryRequest, IdRequest
  <2>2. <<[type |-> r.type, id |-> r.id, ok |-> ok]>> \in Seq(Event)
    BY <2>1 DEF Event, AnswerEvent
  <2>3. updates' \in Seq(Event)
    BY <1>0, <2>2
  <2> QED BY <2>3 DEF Cached
<1> QED BY <1>3, <1>4, <1>5, <1>6, <1>7, <1>8 DEF TDLib

\* The type of an event says which fields it has.
LEMMA EventFields ==
  ASSUME NEW e \in Event
  PROVE  /\ e.type = "newMessage" => e \in NewMessageEvent
         /\ e.type = "lastMessage" => e \in LastMessageEvent
         /\ e.type \in {"sendSucceeded", "sendFailed"} => e \in SendEvent
         /\ e.type = "delete" => e \in DeleteEvent
         /\ e.type = "history" => e \in HistoryEvent
         /\ e.type \in {"message", "properties"} => e \in AnswerEvent
BY DEF Event, NewMessageEvent, LastMessageEvent, SendEvent, DeleteEvent,
       HistoryEvent, AnswerEvent

\* Every event handler of Chat keeps the types.
LEMMA HandlerType ==
  ASSUME TypeOK, HandleNextUpdate
  PROVE  TypeOK'
<1> DEFINE e == Head(updates)
<1>1. e \in Event /\ updates' \in Seq(Event)
  BY HeadTailProperties DEF TypeOK, HandleNextUpdate
<1>2. UNCHANGED <<requests, server, unsent, nextId, evicted, failedSends>>
  BY DEF HandleNextUpdate, serverVars
<1> HIDE DEF e
<1> DEFINE ChatTypeOK ==
             /\ Cached \subseteq Ids /\ messages \in [Cached -> Ids]
             /\ rows \in [Ids -> Nat]
             /\ lastMessageId \in Ids \cup {NoId}
             /\ fetching \subseteq Ids
             /\ crashed \in BOOLEAN
             /\ failedFetches \subseteq Ids
             /\ torn \in BOOLEAN
<1>3. SUFFICES ASSUME ChatTypeOK, Handle(e)
               PROVE  ChatTypeOK'
  BY <1>1, <1>2, Zenon DEF TypeOK, HandleNextUpdate, e
<1>4. ASSUME NEW id \in Ids, NEW addToList \in BOOLEAN, NewMessage(id, addToList)
      PROVE  Cached' \subseteq Ids /\ messages' \in [Cached' -> Ids] /\ rows' \in [Ids -> Nat]
  <2>1. Cached' \subseteq Ids /\ messages' \in [Cached' -> Ids]
    BY <1>3, <1>4 DEF NewMessage, Cached
  <2>2. rows' \in [Ids -> Nat]
    BY <1>3, <1>4 DEF NewMessage
  <2> QED BY <2>1, <2>2
<1>5. CASE UpdateNewMessage(e)
  <2>1. e.id \in Ids
    BY <1>1, <1>5, EventFields DEF UpdateNewMessage, NewMessageEvent
  <2> QED BY <1>3, <1>4, <1>5, <2>1 DEF UpdateNewMessage
<1>6. CASE UpdateChatLastMessage(e)
  <2>1. e.id \in Ids \cup {NoId}
    BY <1>1, <1>6, EventFields DEF UpdateChatLastMessage, LastMessageEvent
  <2>2. CASE lastMessageId' = e.id /\ NewMessage(e.id, FALSE) /\ e.id # NoId
    BY <1>3, <1>4, <1>6, <2>1, <2>2 DEF UpdateChatLastMessage
  <2>3. CASE UNCHANGED <<messages, rows, lastMessageId>>
    BY <1>3, <1>6, <2>3 DEF UpdateChatLastMessage, Cached
  <2> QED BY <1>6, <2>2, <2>3 DEF UpdateChatLastMessage, SetLastMessage
<1>7. CASE UpdateMessageSendSucceeded(e)
  <2>1. e.old \in Ids /\ e.id \in Ids
    BY <1>1, <1>7, EventFields DEF UpdateMessageSendSucceeded, SendEvent
  <2>2. CASE UNCHANGED <<messages, rows, torn>>
    BY <1>3, <1>7, <2>2 DEF UpdateMessageSendSucceeded, Cached
  <2>3. CASE e.old \in Cached /\ OnMessageIdChanged(e)
    <3>1. CASE rows[e.old] = 0
      BY <1>3, <1>7, <2>1, <2>3, <3>1
         DEF UpdateMessageSendSucceeded, OnMessageIdChanged, Cached
    <3>2. CASE rows[e.old] # 0
      <4>1. rows' \in [Ids -> Nat]
        BY <1>3, <2>1, <2>3, <3>2 DEF OnMessageIdChanged
      <4>2. Cached' \subseteq Ids /\ messages' \in [Cached' -> Ids]
        BY <1>3, <2>1, <2>3, <3>2 DEF OnMessageIdChanged, Cached
      <4>3. torn' \in BOOLEAN
        BY <1>3, <2>3, <3>2 DEF OnMessageIdChanged
      <4> QED BY <1>3, <1>7, <4>1, <4>2, <4>3 DEF UpdateMessageSendSucceeded
    <3> QED BY <3>1, <3>2
  <2> QED BY <1>7, <2>2, <2>3 DEF UpdateMessageSendSucceeded
<1>8. CASE IgnoreMessageSendFailed(e)
  BY <1>3, <1>8 DEF IgnoreMessageSendFailed, chatVars, Cached
<1>9. CASE UpdateDeleteMessages(e)
  <2>1. e.id \in Ids
    BY <1>1, <1>9, EventFields DEF UpdateDeleteMessages, DeleteEvent
  <2>2. rows' \in [Ids -> Nat]
    BY <1>3, <1>9, <2>1 DEF UpdateDeleteMessages
  <2>3. Cached' \subseteq Ids /\ messages' \in [Cached' -> Ids]
    BY <1>3, <1>9 DEF UpdateDeleteMessages, Cached, Restrict
  <2> QED BY <1>3, <1>9, <2>2, <2>3 DEF UpdateDeleteMessages
<1>10. CASE OnGotChatHistory(e)
  <2>1. e.ids \in SUBSET Ids
    BY <1>1, <1>10, EventFields DEF OnGotChatHistory, HistoryEvent
  <2>2. rows' \in [Ids -> Nat]
    BY <1>3, <1>10 DEF OnGotChatHistory
  <2>3. Cached' \subseteq Ids /\ messages' \in [Cached' -> Ids]
    BY <1>3, <1>10, <2>1 DEF OnGotChatHistory, Cached
  <2>4. torn' \in BOOLEAN
    BY <1>3, <1>10 DEF OnGotChatHistory
  <2> QED BY <1>3, <1>10, <2>2, <2>3, <2>4 DEF OnGotChatHistory
<1>11. CASE OnGotMessage(e)
  <2>1. e.id \in Ids /\ e.ok \in BOOLEAN
    BY <1>1, <1>11, EventFields DEF OnGotMessage, AnswerEvent
  <2>2. CASE e.ok
    BY <1>3, <1>4, <1>11, <2>1, <2>2 DEF OnGotMessage
  <2>3. CASE ~e.ok
    BY <1>3, <1>11, <2>1, <2>3 DEF OnGotMessage, Cached
  <2> QED BY <2>1, <2>2, <2>3
<1>12. CASE OnGotMessageProperties(e)
  BY <1>3, <1>12 DEF OnGotMessageProperties, Cached
<1> QED
  BY <1>3, <1>5, <1>6, <1>7, <1>8, <1>9, <1>10, <1>11, <1>12, Zenon DEF Handle

\* Clearing the rows marks requests and answers and changes nothing else.
LEMMA OutdateType ==
  ASSUME TypeOK
  PROVE  /\ Outdate(requests) \subseteq Request
         /\ OutdateEvents => updates' \in Seq(Event)
<1>1. ASSUME NEW q \in Outdate(requests)
      PROVE  q \in Request
  <2>1. CASE q \in requests
    BY <2>1 DEF TypeOK
  <2>2. CASE \E r \in requests : r.type = "history" /\ q = [r EXCEPT !.purpose = "open"]
    BY <2>2 DEF TypeOK, Request, HistoryRequest, IdRequest, Purpose
  <2> QED BY <1>1, <2>1, <2>2 DEF Outdate
<1>2. ASSUME OutdateEvents
      PROVE  updates' \in Seq(Event)
  <2>1. ASSUME NEW i \in DOMAIN updates
        PROVE  updates'[i] \in Event
    <3>1. updates[i] \in Event
      BY DEF TypeOK
    <3>2. CASE updates[i].type = "history"
      <4>1. updates[i] \in HistoryEvent
        BY <3>1, <3>2, EventFields
      <4>2. [updates[i] EXCEPT !.purpose = "open"] \in HistoryEvent
        BY <4>1 DEF HistoryEvent, Purpose
      <4> QED BY <1>2, <3>2, <4>2 DEF OutdateEvents, Event
    <3>3. CASE updates[i].type # "history"
      BY <1>2, <3>1, <3>3 DEF OutdateEvents
    <3> QED BY <3>2, <3>3
  <2>2. Len(updates) \in Nat /\ DOMAIN updates = 1 .. Len(updates)
    BY LenProperties DEF TypeOK
  <2>3. updates' \in [1 .. Len(updates) -> Event]
    BY <1>2, <2>1, <2>2 DEF OutdateEvents
  <2> QED BY <2>2, <2>3
<1> QED BY <1>1, <1>2

\* What the chat page calls keeps the types.
LEMMA PageType ==
  ASSUME TypeOK, Page
  PROVE  TypeOK'
<1> USE DEF chatVars, serverVars
<1>1. UNCHANGED <<server, unsent, nextId, evicted, failedSends, failedFetches>>
  BY DEF Page
<1> DEFINE ChatTypeOK ==
             /\ Cached \subseteq Ids /\ messages \in [Cached -> Ids]
             /\ rows \in [Ids -> Nat]
             /\ lastMessageId \in Ids \cup {NoId}
             /\ fetching \subseteq Ids
             /\ crashed \in BOOLEAN
             /\ torn \in BOOLEAN
             /\ updates \in Seq(Event)
             /\ requests \subseteq Request
<1>2. SUFFICES ASSUME ChatTypeOK
               PROVE  ChatTypeOK'
  BY <1>1 DEF TypeOK
<1>3. ASSUME NEW q \in Request, Ask(q)
      PROVE  requests' \subseteq Request
  BY <1>2, <1>3 DEF Ask
<1>4. ASSUME NEW id \in Ids, NEW type \in {"message", "properties"}
      PROVE  [type |-> type, id |-> id] \in Request
  BY DEF Request, IdRequest
<1>5. ASSUME NEW from \in Ids \cup {NoId}, NEW purpose \in Purpose
      PROVE  [type |-> "history", from |-> from, purpose |-> purpose] \in Request
  BY DEF Request, HistoryRequest
<1>6. ASSUME NEW id \in Ids, ReadRow(id), UNCHANGED updates
      PROVE  ChatTypeOK'
  <2>1. requests' \subseteq Request
    BY <1>3, <1>4, <1>6 DEF ReadRow
  <2> QED BY <1>2, <1>6, <2>1 DEF ReadRow, Cached
<1>7. ASSUME NEW id \in Ids, FetchReply(id), UNCHANGED updates
      PROVE  ChatTypeOK'
  <2>1. requests' \subseteq Request
    BY <1>3, <1>4, <1>7 DEF FetchReply
  <2> QED BY <1>2, <1>7, <2>1 DEF FetchReply, Cached
<1>8. ASSUME NEW id \in Ids, LoadContextPermissions(id), UNCHANGED updates
      PROVE  ChatTypeOK'
  <2>1. messages[id] \in Ids
    BY <1>2, <1>8 DEF LoadContextPermissions
  <2>2. requests' \subseteq Request
    BY <1>3, <1>4, <1>8, <2>1 DEF LoadContextPermissions, FetchProperties
  <2> QED BY <1>2, <1>8, <2>2 DEF LoadContextPermissions, Cached
<1>9. ASSUME NEW from \in Ids \cup {NoId}, GetChatHistory(from), UNCHANGED updates
      PROVE  ChatTypeOK'
  <2>1. requests' \subseteq Request
    BY <1>3, <1>5, <1>9 DEF GetChatHistory, Purpose
  <2> QED BY <1>2, <1>9, <2>1 DEF GetChatHistory, Cached
<1>10. ASSUME NEW from \in Ids \cup {NoId}, GetMore(from), UNCHANGED updates
       PROVE  ChatTypeOK'
  <2>1. requests' \subseteq Request
    BY <1>3, <1>5, <1>10 DEF GetMore, Purpose
  <2> QED BY <1>2, <1>10, <2>1 DEF GetMore, Cached
<1>11. CASE ClearCachedHistory
  <2>1. requests' \subseteq Request /\ updates' \in Seq(Event)
    BY <1>11, OutdateType DEF ClearCachedHistory
  <2> QED BY <1>2, <1>11, <2>1 DEF ClearCachedHistory, NoRows, Cached
<1>12. ASSUME NEW id \in Ids, ScrollToMessage(id)
       PROVE  ChatTypeOK'
  <2>1. [type |-> "history", from |-> id, purpose |-> "open"] \in Request
    BY <1>5 DEF Purpose
  <2>2. requests' \subseteq Request /\ updates' \in Seq(Event)
    BY <1>12, <2>1, OutdateType DEF ScrollToMessage
  <2> QED BY <1>2, <1>12, <2>2 DEF ScrollToMessage, NoRows, Cached
<1>13. Oldest(Shown) \in Ids \cup {NoId} /\ LatestMessageId \in Ids \cup {NoId}
  BY WindowEndsType DEF Shown, LatestMessageId
<1> QED
  BY <1>6, <1>7, <1>8, <1>9, <1>10, <1>11, <1>12, <1>13 DEF Page

\* Every variable has its type in every reachable state: in particular ids of
\* rows, stored messages and requests stay ids of messages that were announced.
THEOREM TypeCorrect == Spec => []TypeOK
<1>1. Init => TypeOK
  BY InitType
<1>2. TypeOK /\ [Next]_vars => TypeOK'
  <2>1. ASSUME TypeOK, UNCHANGED vars
        PROVE  TypeOK'
    BY <2>1 DEF TypeOK, vars, chatVars, serverVars, historyVars, Cached
  <2> QED BY <2>1, ServerType, HandlerType, PageType DEF Next
<1> QED BY <1>1, <1>2, PTL DEF Spec
-----------------------------------------------------------------------------
\* The chat starts without rows, messages and events.
LEMMA InitRows == Init => RowsInv
BY DEF Init, RowsInv, NoDuplicateRows, NoRows, Shown

\* An event carries ids only.
LEMMA CarriedIds ==
  ASSUME NEW e \in Event
  PROVE  Carried(e) \subseteq Ids
<1>1. CASE e.type \in {"newMessage", "sendSucceeded"}
  BY <1>1, EventFields DEF Carried, NewMessageEvent, SendEvent
<1>2. CASE e.type = "history"
  BY <1>2, EventFields DEF Carried, HistoryEvent
<1>3. CASE e.type \notin {"newMessage", "sendSucceeded", "history"}
  BY <1>3 DEF Carried
<1> QED BY <1>1, <1>2, <1>3

\* What TDLib does to the queue: it appends sound events, of which only the
\* first may carry ids, and gives new messages the next id.
LEMMA ServerStepRows ==
  ASSUME TypeOK, RowsInv, NEW events \in Seq(Event), Post(events),
         UNCHANGED <<messages, rows>>,
         nextId' \in Int, nextId <= nextId',
         server' \subseteq server \cup {nextId},
         \A id \in server' : id < nextId',
         evicted \subseteq evicted', evicted' \subseteq evicted \cup server,
         unsent' \cap evicted' = {},
         \A k \in 1 .. Len(events) :
           \/ events[k].type = "lastMessage"
           \/ /\ k = 1
              /\ SoundEvent(events[k])'
              /\ events[k].type = "sendSucceeded" => events[k].id = nextId
  PROVE  RowsInv'
<1>1. /\ Len(updates) \in Nat /\ Len(events) \in Nat
      /\ DOMAIN updates = 1 .. Len(updates)
      /\ updates' \in Seq(Event)
      /\ DOMAIN updates' = 1 .. Len(updates) + Len(events)
      /\ \A i \in 1 .. Len(updates) + Len(events) :
           updates'[i] = IF i <= Len(updates) THEN updates[i] ELSE events[i - Len(updates)]
  BY ConcatProperties, LenProperties DEF TypeOK, Post
<1>2. nextId \in Int /\ Shown' = Shown /\ Cached' = Cached
  BY DEF TypeOK, Shown, Cached
<1>3. ASSUME NEW i \in DOMAIN updates
      PROVE  SoundEvent(updates[i])'
  <2> DEFINE e == updates[i]
  <2>1. e \in Event /\ SoundEvent(e)
    BY <1>1, ElementOfSeq DEF TypeOK, RowsInv
  <2>2. updates'[i] = e
    BY <1>1
  <2>3. \A id \in Carried(e) : id < nextId'
    <3>1. \A id \in Carried(e) : id \in Int /\ id < nextId
      BY <2>1, CarriedIds DEF SoundEvent, Ids
    <3> HIDE DEF e
    <3> QED BY <3>1, <1>2
  <2>4. e.type = "sendSucceeded" => e.old \notin server' \cup evicted'
    <3> SUFFICES ASSUME e.type = "sendSucceeded"
                 PROVE  e.old \notin server' \cup evicted'
      OBVIOUS
    <3>1. e.old \in Ids /\ e.id \in Ids
      BY <2>1, EventFields DEF SendEvent
    <3>2. e.old < e.id /\ e.id < nextId
      BY <2>1 DEF SoundEvent, Carried
    <3>3. e.old # nextId
      BY <1>2, <3>1, <3>2 DEF Ids
    <3>4. e.old \notin server \cup evicted
      BY <2>1 DEF SoundEvent
    <3> HIDE DEF e
    <3> QED BY <3>3, <3>4
  <2> HIDE DEF e
  <2>5. SoundEvent(e)'
    BY <2>1, <2>2, <2>3, <2>4 DEF SoundEvent, e
  <2> QED BY <2>5, <2>2 DEF e
<1>4. \A i \in DOMAIN updates' : SoundEvent(updates[i])'
  <2> SUFFICES ASSUME NEW i \in DOMAIN updates'
               PROVE  SoundEvent(updates[i])'
    OBVIOUS
  <2>1. CASE i <= Len(updates)
    BY <1>1, <1>3, <2>1
  <2>2. CASE i > Len(updates)
    <3> DEFINE k == i - Len(updates)
    <3>1. k \in 1 .. Len(events) /\ updates'[i] = events[k]
      BY <1>1, <2>2
    <3>2. CASE events[k].type = "lastMessage"
      BY <3>1, <3>2 DEF SoundEvent, Carried
    <3>3. CASE SoundEvent(events[k])'
      BY <3>1, <3>3 DEF SoundEvent, Carried
    <3> QED BY <3>1, <3>2, <3>3
  <2> QED BY <1>1, <2>1, <2>2
<1>5. ASSUME NEW i \in DOMAIN updates', NEW j \in DOMAIN updates',
             j < i, updates'[i].type = "sendSucceeded"
      PROVE  updates'[i].id \notin Carried(updates'[j])
  <2>1. CASE i <= Len(updates)
    <3>1. /\ i \in DOMAIN updates /\ j \in DOMAIN updates
          /\ updates'[i] = updates[i] /\ updates'[j] = updates[j]
      BY <1>1, <1>5, <2>1
    <3> QED BY <1>5, <3>1 DEF RowsInv
  <2>2. CASE i > Len(updates)
    <3>1. i - Len(updates) \in 1 .. Len(events) /\ updates'[i] = events[i - Len(updates)]
      BY <1>1, <2>2
    <3>2. i - Len(updates) = 1 /\ updates'[i].id = nextId
      BY <1>5, <3>1
    <3>3. j \in DOMAIN updates /\ updates'[j] = updates[j]
      BY <1>1, <1>5, <3>2
    <3>4. updates[j] \in Event /\ \A id \in Carried(updates[j]) : id < nextId
      BY <3>3, <1>1, ElementOfSeq DEF TypeOK, RowsInv, SoundEvent
    <3>5. nextId \notin Carried(updates[j])
      BY <1>2, <3>4
    <3> QED BY <3>2, <3>3, <3>5
  <2> QED BY <1>1, <2>1, <2>2
<1>6. \A id \in Shown \cup server' \cup evicted' : id < nextId'
  <2>1. Shown \cup server \cup evicted \subseteq Ids
    BY DEF TypeOK, Shown
  <2>2. \A id \in Shown \cup server \cup evicted : id \in Int /\ id < nextId
    BY <2>1 DEF RowsInv, Ids
  <2> HIDE DEF Shown
  <2> QED BY <1>2, <2>2
<1>7. NoDuplicateRows' /\ Shown' \subseteq Cached' \cup evicted'
  BY <1>2 DEF RowsInv, NoDuplicateRows
<1> HIDE DEF RowsInv
<1> QED BY <1>2, <1>4, <1>5, <1>6, <1>7 DEF RowsInv

\* Each action of TDLib is a step of that kind.
LEMMA ServerRows ==
  ASSUME TypeOK, RowsInv, TDLib
  PROVE  RowsInv'
<1> USE DEF chatVars, serverVars, historyVars
<1>1. /\ nextId \in Int /\ server \subseteq Ids /\ unsent \subseteq server /\ evicted \subseteq Ids
      /\ \A id \in server \cup evicted : id \in Int /\ id < nextId
      /\ unsent \cap evicted = {}
  BY DEF TypeOK, RowsInv, Ids
<1>2. nextId \notin server \cup evicted
  BY <1>1
<1>3. ASSUME NEW S \in SUBSET Ids
      PROVE  /\ LastMessageUpdate(S) \in Seq(Event) /\ Len(LastMessageUpdate(S)) = 1
             /\ LastMessageUpdate(S)[1].type = "lastMessage"
  BY WindowEndsType DEF LastMessageUpdate, Event, LastMessageEvent
<1>4. ASSUME NEW e \in Event, NEW more \in Seq(Event),
             \/ more = <<>>
             \/ Len(more) = 1 /\ more[1].type = "lastMessage"
      PROVE  /\ <<e>> \o more \in Seq(Event)
             /\ \A k \in 1 .. Len(<<e>> \o more) :
                  \/ k = 1 /\ (<<e>> \o more)[k] = e
                  \/ (<<e>> \o more)[k].type = "lastMessage"
  <2>1. <<e>> \in Seq(Event) /\ Len(<<e>>) = 1 /\ <<e>>[1] = e
    OBVIOUS
  <2>2. more = <<>> => Len(more) = 0
    OBVIOUS
  <2> QED BY <1>4, <2>1, <2>2, ConcatProperties
<1>5. ASSUME NEW sending \in BOOLEAN, NewServerMessage(sending)
      PROVE  RowsInv'
  <2> USE <1>5 DEF NewServerMessage
  <2>1. [type |-> "newMessage", id |-> nextId, prev |-> Newest(server)] \in Event
    BY <1>1, WindowEndsType DEF Event, NewMessageEvent, Ids, TypeOK
  <2>2. PICK e \in Event : e = [type |-> "newMessage", id |-> nextId, prev |-> Newest(server)]
    BY <2>1
  <2>3. server' \in SUBSET Ids
    BY <1>1 DEF Ids, TypeOK
  <2>4. PICK more \in Seq(Event) : more = LastMessageUpdate(server')
    BY <1>3, <2>3
  <2>5. Len(more) = 1 /\ more[1].type = "lastMessage"
    BY <1>3, <2>3, <2>4
  <2>6. PICK events \in Seq(Event) :
          /\ events = <<e>> \o more
          /\ \A k \in 1 .. Len(events) :
               (k = 1 /\ events[k] = e) \/ events[k].type = "lastMessage"
    BY <1>4, <2>5
  <2>7. SoundEvent(e)' /\ e.type = "newMessage"
    BY <1>1, <2>2 DEF SoundEvent, Carried
  <2>8. \A k \in 1 .. Len(events) :
           \/ events[k].type = "lastMessage"
           \/ /\ k = 1
              /\ SoundEvent(events[k])'
              /\ events[k].type = "sendSucceeded" => events[k].id = nextId
    BY <2>6, <2>7
  <2>9. Post(events)
    BY <2>2, <2>4, <2>6
  <2>10. /\ \A id \in server' : id < nextId'
         /\ unsent' \cap evicted' = {}
    BY <1>1, <1>2
  <2>11. /\ UNCHANGED <<messages, rows>>
         /\ nextId' \in Int /\ nextId <= nextId'
         /\ server' \subseteq server \cup {nextId}
         /\ evicted \subseteq evicted' /\ evicted' \subseteq evicted \cup server
    BY <1>1
  <2> QED BY <2>8, <2>9, <2>10, <2>11, ServerStepRows
<1>6. ASSUME NEW old \in unsent, NEW type \in {"sendSucceeded", "sendFailed"},
             FinishSending(old, type)
      PROVE  RowsInv'
  <2> USE <1>6 DEF FinishSending
  <2> DEFINE newer == {x \in server : x > old}
  <2>1. [type |-> type, old |-> old, id |-> nextId, newer |-> newer] \in Event
    <3>1. newer \in SUBSET Ids /\ old \in Ids
      BY <1>1
    <3>2. nextId \in Ids
      BY DEF Ids, TypeOK
    <3> HIDE DEF newer
    <3> QED BY <3>1, <3>2 DEF Event, SendEvent
  <2>2. PICK e \in Event : e = [type |-> type, old |-> old, id |-> nextId, newer |-> newer]
    BY <2>1
  <2>3. server' \in SUBSET Ids
    BY <1>1 DEF Ids, TypeOK
  <2>4. PICK more \in Seq(Event) : more = LastMessageUpdate(server')
    BY <1>3, <2>3
  <2>5. Len(more) = 1 /\ more[1].type = "lastMessage"
    BY <1>3, <2>3, <2>4
  <2>6. PICK events \in Seq(Event) :
          /\ events = <<e>> \o more
          /\ \A k \in 1 .. Len(events) :
               (k = 1 /\ events[k] = e) \/ events[k].type = "lastMessage"
    BY <1>4, <2>5
  <2>7. SoundEvent(e)' /\ e.id = nextId
    <3>1. e.type = type /\ e.old = old /\ e.id = nextId
      BY <2>2
    <3>2. rows[nextId] = 0
      <4>1. nextId \in Ids /\ nextId \notin Shown
        BY <1>1 DEF Ids, RowsInv, TypeOK, Shown
      <4> QED BY <4>1 DEF Shown, TypeOK
    <3>3. old < nextId /\ old \notin server' \cup evicted'
      BY <1>1, <1>2
    <3>4. \A id \in Carried(e) : id < nextId'
      BY <1>1, <3>1 DEF Carried
    <3> QED BY <3>1, <3>2, <3>3, <3>4 DEF SoundEvent
  <2>8. \A k \in 1 .. Len(events) :
           \/ events[k].type = "lastMessage"
           \/ /\ k = 1
              /\ SoundEvent(events[k])'
              /\ events[k].type = "sendSucceeded" => events[k].id = nextId
    BY <2>6, <2>7
  <2>9. Post(events)
    BY <2>2, <2>4, <2>6
  <2>10. /\ \A id \in server' : id < nextId'
         /\ unsent' \cap evicted' = {}
    BY <1>1, <1>2
  <2>11. /\ UNCHANGED <<messages, rows>>
         /\ nextId' \in Int /\ nextId <= nextId'
         /\ server' \subseteq server \cup {nextId}
         /\ evicted \subseteq evicted' /\ evicted' \subseteq evicted \cup server
    BY <1>1
  <2> QED BY <2>8, <2>9, <2>10, <2>11, ServerStepRows
<1>7. ASSUME NEW id \in server, DeleteOnServer(id)
      PROVE  RowsInv'
  <2> USE <1>7 DEF DeleteOnServer
  <2>1. [type |-> "delete", id |-> id, fromCache |-> FALSE] \in Event
    BY <1>1 DEF Event, DeleteEvent
  <2>2. PICK e \in Event : e = [type |-> "delete", id |-> id, fromCache |-> FALSE]
    BY <2>1
  <2>3. server' \in SUBSET Ids
    BY <1>1
  <2>4. PICK more \in Seq(Event) :
           more = IF id = Newest(server) THEN LastMessageUpdate(server') ELSE <<>>
    <3>1. LastMessageUpdate(server') \in Seq(Event) /\ <<>> \in Seq(Event)
      BY <1>3, <2>3
    <3> QED BY <3>1
  <2>5. more = <<>> \/ (Len(more) = 1 /\ more[1].type = "lastMessage")
    BY <1>3, <2>3, <2>4
  <2>6. PICK events \in Seq(Event) :
          /\ events = <<e>> \o more
          /\ \A k \in 1 .. Len(events) :
               (k = 1 /\ events[k] = e) \/ events[k].type = "lastMessage"
    BY <1>4, <2>5
  <2>7. SoundEvent(e)' /\ e.type = "delete"
    BY <2>2 DEF SoundEvent, Carried
  <2>8. \A k \in 1 .. Len(events) :
           \/ events[k].type = "lastMessage"
           \/ /\ k = 1
              /\ SoundEvent(events[k])'
              /\ events[k].type = "sendSucceeded" => events[k].id = nextId
    BY <2>6, <2>7
  <2>9. Post(events)
    BY <2>2, <2>4, <2>6
  <2>10. /\ \A x \in server' : x < nextId'
         /\ unsent' \cap evicted' = {}
    BY <1>1
  <2>11. /\ UNCHANGED <<messages, rows>>
         /\ nextId' \in Int /\ nextId <= nextId'
         /\ server' \subseteq server \cup {nextId}
         /\ evicted \subseteq evicted' /\ evicted' \subseteq evicted \cup server
    BY <1>1
  <2> QED BY <2>8, <2>9, <2>10, <2>11, ServerStepRows
<1>8. ASSUME NEW id \in server \ (unsent \cup evicted), Evict(id)
      PROVE  RowsInv'
  <2> USE <1>8 DEF Evict
  <2> DEFINE e == [type |-> "delete", id |-> id, fromCache |-> TRUE]
             events == <<e>>
  <2>1. events \in Seq(Event) /\ Len(events) = 1 /\ events[1] = e
    BY <1>1 DEF Event, DeleteEvent
  <2>2. SoundEvent(e)' /\ e.type = "delete"
    BY DEF SoundEvent, Carried
  <2>3. Post(events)
    OBVIOUS
  <2> HIDE DEF e, events
  <2>4. \A k \in 1 .. Len(events) :
           \/ events[k].type = "lastMessage"
           \/ /\ k = 1
              /\ SoundEvent(events[k])'
              /\ events[k].type = "sendSucceeded" => events[k].id = nextId
    BY <2>1, <2>2
  <2>5. /\ \A x \in server' : x < nextId'
        /\ unsent' \cap evicted' = {}
    BY <1>1
  <2> QED BY <1>1, <2>1, <2>3, <2>4, <2>5, ServerStepRows
<1>9. ASSUME NEW r \in requests, NEW B \in SUBSET server, AnswerHistory(r, B)
      PROVE  RowsInv'
  <2> USE <1>9 DEF AnswerHistory
  <2> DEFINE e == [type |-> "history", from |-> r.from, ids |-> B, purpose |-> r.purpose]
             events == <<e>>
  <2>1. events \in Seq(Event) /\ Len(events) = 1 /\ events[1] = e
    <3>1. r.purpose \in Purpose /\ r.from \in Ids \cup {NoId}
      BY DEF TypeOK, Request, HistoryRequest, IdRequest
    <3> QED BY <1>1, <3>1 DEF Event, HistoryEvent
  <2>2. SoundEvent(e)' /\ e.type = "history"
    BY <1>1 DEF SoundEvent, Carried
  <2>3. Post(events)
    OBVIOUS
  <2> HIDE DEF e, events
  <2>4. \A k \in 1 .. Len(events) :
           \/ events[k].type = "lastMessage"
           \/ /\ k = 1
              /\ SoundEvent(events[k])'
              /\ events[k].type = "sendSucceeded" => events[k].id = nextId
    BY <2>1, <2>2
  <2> QED BY <1>1, <2>1, <2>3, <2>4, ServerStepRows
<1>10. ASSUME NEW r \in requests, NEW ok \in BOOLEAN, AnswerById(r, ok)
       PROVE  RowsInv'
  <2> USE <1>10 DEF AnswerById
  <2> DEFINE e == [type |-> r.type, id |-> r.id, ok |-> ok]
             events == <<e>>
  <2>1. events \in Seq(Event) /\ Len(events) = 1 /\ events[1] = e
    <3>1. r.id \in Ids /\ r.type \in {"message", "properties"}
      BY DEF TypeOK, Request, HistoryRequest, IdRequest
    <3> QED BY <1>1, <3>1 DEF Event, AnswerEvent
  <2>2. SoundEvent(e)' /\ e.type \in {"message", "properties"}
    BY DEF SoundEvent, Carried
  <2>3. Post(events)
    OBVIOUS
  <2> HIDE DEF e, events
  <2>4. \A k \in 1 .. Len(events) :
           \/ events[k].type = "lastMessage"
           \/ /\ k = 1
              /\ SoundEvent(events[k])'
              /\ events[k].type = "sendSucceeded" => events[k].id = nextId
    BY <2>1, <2>2
  <2> QED BY <1>1, <2>1, <2>3, <2>4, ServerStepRows
<1> QED BY <1>5, <1>6, <1>7, <1>8, <1>9, <1>10 DEF TDLib

\* What handling an event does to the queue: it drops the first event, and rows
\* are added only for ids that event carries.
LEMMA HandlerStepRows ==
  ASSUME TypeOK, TypeOK', RowsInv, HandleNextUpdate,
         \A id \in Ids : rows'[id] <= rows[id] \/ id \in Carried(Head(updates)),
         NoDuplicateRows', Shown' \subseteq Cached' \cup evicted'
  PROVE  RowsInv'
<1>1. /\ Len(updates) \in Nat /\ Len(updates) > 0
      /\ DOMAIN updates = 1 .. Len(updates)
      /\ updates' \in Seq(Event)
      /\ DOMAIN updates' = 1 .. Len(updates) - 1
      /\ \A i \in DOMAIN updates' : /\ i + 1 \in DOMAIN updates
                                    /\ updates'[i] = updates[i + 1]
                                    /\ updates[i + 1] \in Event
      /\ Head(updates) = updates[1]
  <2>1. updates \in Seq(Event) /\ updates # <<>> /\ updates' = Tail(updates)
    BY DEF TypeOK, HandleNextUpdate
  <2> QED BY <2>1, HeadTailProperties, LenProperties, ElementOfSeq
<1>2. UNCHANGED <<server, unsent, nextId, evicted>>
  BY DEF HandleNextUpdate, serverVars
<1>3. rows \in [Ids -> Nat] /\ rows' \in [Ids -> Nat]
  BY DEF TypeOK
<1>4. Shown' \subseteq Shown \cup Carried(Head(updates))
  BY <1>3 DEF Shown
<1>5. \A id \in Shown' \cup server' \cup evicted' : id < nextId'
  <2>1. \A id \in Carried(Head(updates)) : id < nextId
    BY <1>1 DEF RowsInv, SoundEvent
  <2> HIDE DEF Shown
  <2> QED BY <1>2, <1>4, <2>1 DEF RowsInv
<1>6. ASSUME NEW i \in DOMAIN updates'
      PROVE  SoundEvent(updates[i])'
  <2>1. PICK e \in Event : e = updates[i + 1] /\ SoundEvent(e) /\ updates'[i] = e
    BY <1>1, <1>6 DEF RowsInv
  <2>2. e.type = "sendSucceeded" => rows'[e.id] = 0
    <3> SUFFICES ASSUME e.type = "sendSucceeded"
                 PROVE  rows'[e.id] = 0
      OBVIOUS
    <3>1. e.id \in Ids
      BY <2>1, EventFields DEF SendEvent
    <3>2. rows[e.id] = 0
      BY <2>1 DEF SoundEvent
    <3>3. e.id \notin Carried(Head(updates))
      <4>1. 1 \in DOMAIN updates /\ i + 1 \in DOMAIN updates /\ 1 < i + 1
        BY <1>1, <1>6
      <4> QED BY <2>1, <4>1, <1>1 DEF RowsInv
    <3> QED BY <1>3, <3>1, <3>2, <3>3
  <2>3. SoundEvent(e)'
    BY <1>2, <2>1, <2>2 DEF SoundEvent
  <2> QED BY <2>1, <2>3 DEF SoundEvent, Carried
<1>7. ASSUME NEW i \in DOMAIN updates', NEW j \in DOMAIN updates',
             j < i, updates'[i].type = "sendSucceeded"
      PROVE  updates'[i].id \notin Carried(updates'[j])
  <2>1. /\ i + 1 \in DOMAIN updates /\ j + 1 \in DOMAIN updates /\ j + 1 < i + 1
        /\ updates'[i] = updates[i + 1] /\ updates'[j] = updates[j + 1]
    BY <1>1, <1>7
  <2> QED BY <1>7, <2>1 DEF RowsInv
<1>8. unsent' \cap evicted' = {}
  BY <1>2 DEF RowsInv
<1> QED BY <1>5, <1>6, <1>7, <1>8 DEF RowsInv

\* A row appended under the guard of Chat::newMessage and Chat::onGotChatHistory
\* (the message is unknown, or has no row) is its message's only one.
LEMMA AppendedRow ==
  ASSUME TypeOK, RowsInv, NEW S \in SUBSET Ids, UNCHANGED evicted,
         Cached \cup S \subseteq Cached',
         rows' = [id \in Ids |-> IF id \in S /\ (id \notin Cached \/ rows[id] = 0)
                                 THEN rows[id] + 1 ELSE rows[id]]
  PROVE  NoDuplicateRows' /\ Shown' \subseteq Cached' \cup evicted'
<1>1. rows \in [Ids -> Nat]
  BY DEF TypeOK
<1>2. \A id \in Ids : (rows[id] <= 1 \/ id \in evicted)
                        /\ (rows[id] > 0 => id \in Cached \cup evicted)
  BY DEF RowsInv, NoDuplicateRows, Shown
<1>3. NoDuplicateRows'
  BY <1>1, <1>2 DEF NoDuplicateRows
<1>4. Shown' \subseteq Cached' \cup evicted'
  BY <1>1, <1>2 DEF Shown
<1> QED BY <1>3, <1>4

\* Every event handler of Chat keeps RowsInv.
LEMMA HandlerRows ==
  ASSUME TypeOK, TypeOK', RowsInv, HandleNextUpdate
  PROVE  RowsInv'
<1>1. PICK e \in Event : e = Head(updates)
  BY HeadTailProperties DEF TypeOK, HandleNextUpdate
<1>2. Handle(e) /\ UNCHANGED evicted
  BY <1>1 DEF HandleNextUpdate
<1>3. SoundEvent(e)
  <2>1. updates \in Seq(Event) /\ updates # <<>>
    BY DEF TypeOK, HandleNextUpdate
  <2>2. 1 \in DOMAIN updates /\ e = updates[1]
    BY <1>1, <2>1, HeadTailProperties, LenProperties, EmptySeq
  <2> QED BY <2>2 DEF RowsInv
<1>4. rows \in [Ids -> Nat]
  BY DEF TypeOK
<1>5. \A id \in Ids : (rows[id] <= 1 \/ id \in evicted)
                        /\ (rows[id] > 0 => id \in Cached \cup evicted)
  BY DEF RowsInv, NoDuplicateRows, Shown
<1> DEFINE Goal == /\ \A id \in Ids : rows'[id] <= rows[id] \/ id \in Carried(e)
                   /\ NoDuplicateRows'
                   /\ Shown' \subseteq Cached' \cup evicted'
<1>6. SUFFICES Goal
  BY <1>1, HandlerStepRows
<1>7. ASSUME UNCHANGED rows, Cached \subseteq Cached' \cup evicted
      PROVE  Goal
  BY <1>2, <1>4, <1>5, <1>7 DEF NoDuplicateRows, Shown
<1>8. ASSUME NEW id \in Ids, NewMessage(id, FALSE)
      PROVE  Goal
  BY <1>7, <1>8 DEF NewMessage, Cached
<1>9. ASSUME NEW id \in Carried(e), NewMessage(id, TRUE)
      PROVE  Goal
  <2>1. id \in Ids
    BY CarriedIds
  <2>2. rows' = [x \in Ids |-> IF x \in {id} /\ (x \notin Cached \/ rows[x] = 0)
                               THEN rows[x] + 1 ELSE rows[x]]
    BY <1>4, <1>9, <2>1 DEF NewMessage
  <2>3. Cached \cup {id} \subseteq Cached'
    BY <1>9 DEF NewMessage, Cached
  <2>4. NoDuplicateRows' /\ Shown' \subseteq Cached' \cup evicted'
    BY <1>2, <2>1, <2>2, <2>3, AppendedRow
  <2>5. \A x \in Ids : rows'[x] <= rows[x] \/ x \in Carried(e)
    BY <1>4, <1>9, <2>2
  <2> QED BY <2>4, <2>5
<1>10. CASE UpdateNewMessage(e)
  <2>1. e.id \in Ids /\ e.id \in Carried(e)
    BY <1>10, EventFields DEF UpdateNewMessage, NewMessageEvent, Carried
  <2>2. NewMessage(e.id, TRUE) \/ NewMessage(e.id, FALSE)
    BY <1>10 DEF UpdateNewMessage, NewMessage
  <2> QED BY <1>8, <1>9, <2>1, <2>2
<1>11. CASE UpdateChatLastMessage(e)
  <2>1. e.id \in Ids \cup {NoId}
    BY <1>11, EventFields DEF UpdateChatLastMessage, LastMessageEvent
  <2>2. CASE e.id \in Ids /\ NewMessage(e.id, FALSE)
    BY <1>8, <2>2
  <2>3. CASE UNCHANGED <<messages, rows>>
    BY <1>7, <2>3 DEF Cached
  <2> QED BY <1>11, <2>1, <2>2, <2>3 DEF UpdateChatLastMessage, SetLastMessage
<1>12. CASE UpdateMessageSendSucceeded(e)
  <2>1. e.old \in Ids /\ e.id \in Ids /\ e.type = "sendSucceeded"
    BY <1>12, EventFields DEF UpdateMessageSendSucceeded, SendEvent
  <2>2. e.old # e.id /\ e.old \notin evicted /\ rows[e.id] = 0 /\ e.id \in Carried(e)
    BY <1>3, <2>1 DEF SoundEvent, Carried, Ids
  <2>3. CASE UNCHANGED <<messages, rows>>
    BY <1>7, <2>3 DEF Cached
  <2>4. CASE OnMessageIdChanged(e) /\ rows[e.old] = 0
    <3>1. UNCHANGED rows /\ Cached' = Cached
      BY <2>4 DEF OnMessageIdChanged, Cached
    <3> QED BY <1>7, <3>1
  <2>5. CASE OnMessageIdChanged(e) /\ rows[e.old] # 0
    <3>1. rows' = [rows EXCEPT ![e.old] = @ - 1, ![e.id] = @ + 1]
      BY <2>5 DEF OnMessageIdChanged
    <3>2. Cached' = (Cached \ {e.old}) \cup {e.id}
      BY <2>5 DEF OnMessageIdChanged, Cached
    <3>3. rows'[e.old] = 0 /\ rows'[e.id] = 1
      BY <1>4, <1>5, <2>1, <2>2, <2>5, <3>1
    <3>4. \A x \in Ids \ {e.old, e.id} : rows'[x] = rows[x]
      BY <1>4, <3>1
    <3>5. \A x \in Ids : rows'[x] <= rows[x] \/ x \in Carried(e)
      BY <1>4, <2>2, <3>3, <3>4
    <3>6. NoDuplicateRows'
      BY <1>2, <1>5, <3>3, <3>4 DEF NoDuplicateRows
    <3>7. Shown' \subseteq Cached' \cup evicted'
      BY <1>2, <1>5, <3>2, <3>3, <3>4 DEF Shown
    <3> QED BY <3>5, <3>6, <3>7
  <2> QED BY <1>12, <2>3, <2>4, <2>5 DEF UpdateMessageSendSucceeded
<1>13. CASE IgnoreMessageSendFailed(e)
  BY <1>7, <1>13 DEF IgnoreMessageSendFailed, chatVars, Cached
<1>14. CASE UpdateDeleteMessages(e)
  <2>1. e.id \in Ids /\ e.fromCache \in BOOLEAN /\ e.type = "delete"
    BY <1>14, EventFields DEF UpdateDeleteMessages, DeleteEvent
  <2>2. e.fromCache => e.id \in evicted
    BY <1>3, <2>1 DEF SoundEvent
  <2>3. CASE e.fromCache
    <3>1. UNCHANGED rows /\ Cached' = Cached \ {e.id}
      BY <1>14, <2>3 DEF UpdateDeleteMessages, Cached, Restrict
    <3> QED BY <1>7, <2>2, <2>3, <3>1
  <2>4. CASE ~e.fromCache /\ rows[e.id] = 0
    <3>1. UNCHANGED <<messages, rows>>
      BY <1>14, <2>4 DEF UpdateDeleteMessages
    <3> QED BY <1>7, <3>1 DEF Cached
  <2>5. CASE ~e.fromCache /\ rows[e.id] # 0
    <3>1. rows[e.id] > 0
      BY <1>4, <2>1, <2>5
    <3>2. rows' = [rows EXCEPT ![e.id] = @ - 1] /\ Cached' = Cached \ {e.id}
      BY <1>14, <2>5, <3>1 DEF UpdateDeleteMessages, Cached, Restrict
    <3>3. rows'[e.id] = rows[e.id] - 1 /\ \A x \in Ids \ {e.id} : rows'[x] = rows[x]
      BY <1>4, <2>1, <3>2
    <3>4. \A x \in Ids : rows'[x] <= rows[x]
      BY <1>4, <2>1, <3>3
    <3>5. NoDuplicateRows'
      BY <1>2, <1>4, <1>5, <2>1, <3>3 DEF NoDuplicateRows
    <3>6. Shown' \subseteq Cached' \cup evicted'
      BY <1>2, <1>4, <1>5, <2>1, <3>2, <3>3 DEF Shown
    <3> QED BY <3>4, <3>5, <3>6
  <2> QED BY <2>1, <2>3, <2>4, <2>5
<1>15. CASE OnGotChatHistory(e)
  <2>1. e.ids \in SUBSET Ids /\ e.type = "history" /\ Carried(e) = e.ids
    BY <1>15, EventFields DEF OnGotChatHistory, HistoryEvent, Carried
  <2>2. Cached \cup e.ids \subseteq Cached'
    BY <1>15 DEF OnGotChatHistory, Cached
  <2>3. rows' = [id \in Ids |-> IF id \in e.ids /\ (id \notin Cached \/ rows[id] = 0)
                                THEN rows[id] + 1 ELSE rows[id]]
    BY <1>15 DEF OnGotChatHistory
  <2>4. NoDuplicateRows' /\ Shown' \subseteq Cached' \cup evicted'
    BY <1>2, <2>1, <2>2, <2>3, AppendedRow
  <2>5. \A x \in Ids : rows'[x] <= rows[x] \/ x \in Carried(e)
    BY <1>4, <2>1, <2>3
  <2> QED BY <2>4, <2>5
<1>16. CASE OnGotMessage(e)
  <2>1. e.id \in Ids
    BY <1>16, EventFields DEF OnGotMessage, AnswerEvent
  <2>2. NewMessage(e.id, FALSE) \/ UNCHANGED <<messages, rows>>
    BY <1>16 DEF OnGotMessage
  <2> QED BY <1>7, <1>8, <2>1, <2>2 DEF Cached
<1>17. CASE OnGotMessageProperties(e)
  BY <1>7, <1>17 DEF OnGotMessageProperties, Cached
<1> QED
  BY <1>2, <1>10, <1>11, <1>12, <1>13, <1>14, <1>15, <1>16, <1>17, Zenon DEF Handle

\* The page only clears rows, and marks events.
LEMMA PageRows ==
  ASSUME TypeOK, TypeOK', RowsInv, Page
  PROVE  RowsInv'
<1> USE DEF chatVars, serverVars
<1>1. UNCHANGED <<server, unsent, nextId, evicted>>
  BY DEF Page
<1>2. CASE UNCHANGED <<messages, rows, updates>>
  BY <1>1, <1>2 DEF RowsInv, NoDuplicateRows, Shown, Cached, SoundEvent
<1>3. ASSUME rows' = NoRows, OutdateEvents
      PROVE  RowsInv'
  <2>1. Shown' = {} /\ NoDuplicateRows' /\ \A id \in Ids : rows'[id] = 0
    BY <1>3 DEF NoRows, Shown, NoDuplicateRows
  <2>2. DOMAIN updates' = DOMAIN updates
    BY <1>3 DEF OutdateEvents
  <2>3. ASSUME NEW i \in DOMAIN updates
        PROVE  /\ Carried(updates'[i]) = Carried(updates[i])
               /\ updates'[i].type = "sendSucceeded" => updates'[i] = updates[i]
               /\ SoundEvent(updates[i])'
    <3>1. PICK e \in Event : e = updates[i] /\ SoundEvent(e)
      BY ElementOfSeq, LenProperties DEF RowsInv, TypeOK
    <3>2. e.type = "sendSucceeded" => e.id \in Ids
      BY EventFields DEF SendEvent
    <3>3. CASE e.type # "history"
      <4>1. updates'[i] = e
        BY <1>3, <3>1, <3>3 DEF OutdateEvents
      <4>2. SoundEvent(e)'
        BY <1>1, <2>1, <3>1, <3>2 DEF SoundEvent
      <4> QED BY <3>1, <4>1, <4>2 DEF SoundEvent, Carried
    <3>4. CASE e.type = "history"
      <4>1. e \in HistoryEvent
        BY <3>4, EventFields
      <4>2. PICK f \in HistoryEvent : f = [e EXCEPT !.purpose = "open"]
        BY <4>1 DEF HistoryEvent, Purpose
      <4>3. updates'[i] = f /\ f.type = "history" /\ f.ids = e.ids
        BY <1>3, <3>1, <3>4, <4>1, <4>2 DEF OutdateEvents, HistoryEvent
      <4>4. Carried(f) = Carried(e)
        BY <3>4, <4>3 DEF Carried
      <4>5. SoundEvent(f)'
        BY <1>1, <3>1, <4>3, <4>4 DEF SoundEvent, Carried
      <4> QED BY <3>1, <4>3, <4>4, <4>5 DEF SoundEvent, Carried
    <3> QED BY <3>3, <3>4
  <2>4. \A id \in server' \cup evicted' : id < nextId'
    BY <1>1 DEF RowsInv
  <2>5. unsent' \cap evicted' = {}
    BY <1>1 DEF RowsInv
  <2>6. ASSUME NEW i \in DOMAIN updates', NEW j \in DOMAIN updates',
               j < i, updates'[i].type = "sendSucceeded"
        PROVE  updates'[i].id \notin Carried(updates'[j])
    BY <2>2, <2>3, <2>6 DEF RowsInv
  <2> QED BY <2>1, <2>2, <2>3, <2>4, <2>5, <2>6 DEF RowsInv
<1>4. CASE ClearCachedHistory
  BY <1>3, <1>4 DEF ClearCachedHistory
<1>5. ASSUME NEW id \in Ids, ScrollToMessage(id)
      PROVE  RowsInv'
  BY <1>3, <1>5 DEF ScrollToMessage
<1> QED
  BY <1>2, <1>4, <1>5 DEF Page, ReadRow, FetchReply, LoadContextPermissions,
     GetChatHistory, GetMore

\* The inductive invariant behind the uniqueness of rows: it also says that every
\* row has its message or TDLib dropped it, and that the queue is consistent.
THEOREM RowsInvariant == Spec => []RowsInv
<1>1. Init => TypeOK /\ RowsInv
  BY InitType, InitRows
<1>2. TypeOK /\ RowsInv /\ [Next]_vars => (TypeOK /\ RowsInv)'
  <2>1. ASSUME TypeOK, RowsInv, UNCHANGED vars
        PROVE  (TypeOK /\ RowsInv)'
    BY <2>1 DEF TypeOK, RowsInv, NoDuplicateRows, SoundEvent, Carried, Shown, Cached,
                vars, chatVars, serverVars, historyVars
  <2>2. ASSUME TypeOK, RowsInv, Next
        PROVE  (TypeOK /\ RowsInv)'
    BY <2>2, ServerType, HandlerType, PageType, ServerRows, HandlerRows, PageRows DEF Next
  <2> QED BY <2>1, <2>2
<1> QED BY <1>1, <1>2, PTL DEF Spec

\* The rows of a message: whatever the order of history pages, new messages, send
\* results, deletions and scrolling, a message that TDLib has not dropped from its
\* memory never gets a second row.
THEOREM RowsAreUnique == Spec => []NoDuplicateRows
<1>1. RowsInv => NoDuplicateRows
  BY DEF RowsInv
<1> QED BY <1>1, RowsInvariant, PTL
-----------------------------------------------------------------------------
(* Steps and the events in the queue.                                      *)

\* The events in the queue.
LEMMA QueueType ==
  ASSUME TypeOK
  PROVE  /\ Len(updates) \in Nat /\ DOMAIN updates = 1 .. Len(updates)
         /\ \A i \in DOMAIN updates : updates[i] \in Event
BY LenProperties, ElementOfSeq DEF TypeOK

\* A step of TDLib posts the event e, and the chat's last message after it if
\* that may have changed.
Posts(e, changed) ==
  /\ e \in Event
  /\ Len(updates') = Len(updates) + (IF changed THEN 2 ELSE 1)
  /\ \A i \in 1 .. Len(updates) : updates'[i] = updates[i]
  /\ updates'[Len(updates) + 1] = e
  /\ changed => updates'[Len(updates) + 2] = [type |-> "lastMessage", id |-> Newest(server')]

\* What it does besides: a message arrives, leaves its temporary id, is deleted
\* or dropped from memory, or a request is answered.
Arrives(e) ==
  /\ e.type = "newMessage" /\ e.id = nextId /\ e.prev = Newest(server)
  /\ server' = server \cup {nextId} /\ nextId' = nextId + 1 /\ nextId \in Ids
  /\ UNCHANGED <<requests, historyVars>>
Moves(e) ==
  /\ e.type \in {"sendSucceeded", "sendFailed"}
  /\ e.old \in unsent /\ e.id = nextId /\ e.newer = {x \in server : x > e.old}
  /\ server' = (server \ {e.old}) \cup {nextId} /\ nextId' = nextId + 1 /\ nextId \in Ids
  /\ failedSends' = IF e.type = "sendFailed" THEN failedSends \cup {e.old} ELSE failedSends
  /\ UNCHANGED <<requests, evicted, failedFetches, torn>>
Leaves(e) ==
  /\ e.type = "delete" /\ ~e.fromCache /\ e.id \in server
  /\ server' = server \ {e.id}
  /\ UNCHANGED <<requests, nextId, historyVars>>
Drops(e) ==
  /\ e.type = "delete" /\ e.fromCache /\ e.id \in server
  /\ evicted' = evicted \cup {e.id}
  /\ UNCHANGED <<requests, server, nextId, failedSends, failedFetches, torn>>
Answers(e) ==
  /\ UNCHANGED <<server, nextId, historyVars>>
  /\ \E r \in requests :
       /\ e.type = r.type /\ requests' = requests \ {r}
       /\ IF r.type = "history"
          THEN /\ e.ids \subseteq server /\ IsPageAt(e.ids, r.from)
               /\ e.from = r.from /\ e.purpose = r.purpose
          ELSE e.id = r.id /\ (e.ok => e.id \in server)

\* The events of a step of TDLib, from the sequence it posts.
LEMMA PostsEvents ==
  ASSUME TypeOK, NEW e \in Event, NEW changed \in BOOLEAN,
         changed => Newest(server') \in Ids \cup {NoId},
         Post(<<e>> \o IF changed THEN LastMessageUpdate(server') ELSE <<>>)
  PROVE  Posts(e, changed)
<1>1. <<e>> \in Seq(Event) /\ Len(<<e>>) = 1 /\ <<e>>[1] = e
  OBVIOUS
<1>2. CASE changed
  <2> DEFINE l == [type |-> "lastMessage", id |-> Newest(server')]
  <2>1. l \in Event
    BY <1>2 DEF Event, LastMessageEvent
  <2> HIDE DEF l
  <2>2. <<l>> \in Seq(Event) /\ Len(<<l>>) = 1 /\ <<l>>[1] = l
    BY <2>1
  <2>3. /\ <<e>> \o <<l>> \in Seq(Event) /\ Len(<<e>> \o <<l>>) = 2
        /\ (<<e>> \o <<l>>)[1] = e /\ (<<e>> \o <<l>>)[2] = l
    BY <1>1, <2>2, ConcatProperties
  <2>4. updates' = updates \o (<<e>> \o <<l>>)
    BY <1>2 DEF Post, LastMessageUpdate, l
  <2>5. /\ Len(updates') = Len(updates) + 2
        /\ \A i \in 1 .. Len(updates) : updates'[i] = updates[i]
        /\ updates'[Len(updates) + 1] = e /\ updates'[Len(updates) + 2] = l
    BY <2>3, <2>4, ConcatProperties DEF TypeOK
  <2> QED BY <1>2, <2>5 DEF Posts, l
<1>3. CASE ~changed
  <2>1. <<e>> \o <<>> = <<e>>
    OBVIOUS
  <2>2. updates' = updates \o <<e>>
    BY <1>3, <2>1 DEF Post
  <2>3. /\ Len(updates') = Len(updates) + 1
        /\ \A i \in 1 .. Len(updates) : updates'[i] = updates[i]
        /\ updates'[Len(updates) + 1] = e
    BY <1>1, <2>2, ConcatProperties DEF TypeOK
  <2> QED BY <1>3, <2>3 DEF Posts
<1> QED BY <1>2, <1>3

\* Every step of TDLib posts one event that tells what it did.
LEMMA ServerSteps ==
  ASSUME TypeOK, TDLib
  PROVE  /\ UNCHANGED chatVars
         /\ \E e \in Event, changed \in BOOLEAN :
              /\ Posts(e, changed)
              /\ \/ changed /\ (Arrives(e) \/ Moves(e))
                 \/ (changed \/ e.id # Newest(server)) /\ Leaves(e)
                 \/ ~changed /\ (Drops(e) \/ Answers(e))
<1> USE DEF chatVars, serverVars, historyVars
<1>1. UNCHANGED chatVars
  BY DEF TDLib, NewServerMessage, FinishSending, DeleteOnServer, Evict, AnswerHistory, AnswerById
<1> SUFFICES \E e \in Event, changed \in BOOLEAN :
              /\ Posts(e, changed)
              /\ \/ changed /\ (Arrives(e) \/ Moves(e))
                 \/ (changed \/ e.id # Newest(server)) /\ Leaves(e)
                 \/ ~changed /\ (Drops(e) \/ Answers(e))
  BY <1>1
<1>2. /\ server \subseteq Ids /\ unsent \subseteq server /\ Newest(server) \in Ids \cup {NoId}
      /\ nextId <= MaxId => nextId \in Ids
  BY WindowEndsType DEF TypeOK, Ids
<1>3. ASSUME NEW sending \in BOOLEAN, NewServerMessage(sending)
      PROVE  \E e \in Event : Posts(e, TRUE) /\ Arrives(e)
  <2> DEFINE e == [type |-> "newMessage", id |-> nextId, prev |-> Newest(server)]
  <2>1. e \in Event /\ nextId \in Ids
    BY <1>2, <1>3 DEF Event, NewMessageEvent, NewServerMessage
  <2>2. Newest(server') \in Ids \cup {NoId}
    BY <1>2, <1>3, <2>1, WindowEndsType DEF NewServerMessage
  <2>3. Post(<<e>> \o LastMessageUpdate(server'))
    BY <1>3 DEF NewServerMessage
  <2>4. Arrives(e)
    BY <1>3, <2>1 DEF NewServerMessage, Arrives
  <2> HIDE DEF e
  <2> QED BY <2>1, <2>2, <2>3, <2>4, PostsEvents
<1>4. ASSUME NEW old \in unsent, NEW type \in {"sendSucceeded", "sendFailed"},
             FinishSending(old, type)
      PROVE  \E e \in Event : Posts(e, TRUE) /\ Moves(e)
  <2> DEFINE newer == {x \in server : x > old}
             e == [type |-> type, old |-> old, id |-> nextId, newer |-> newer]
  <2>1. e \in Event /\ nextId \in Ids
    <3>1. newer \in SUBSET Ids /\ old \in Ids /\ nextId \in Ids
      BY <1>2, <1>4 DEF FinishSending
    <3> HIDE DEF newer
    <3> QED BY <3>1 DEF Event, SendEvent
  <2>2. Newest(server') \in Ids \cup {NoId}
    BY <1>2, <1>4, <2>1, WindowEndsType DEF FinishSending
  <2>3. Post(<<e>> \o LastMessageUpdate(server'))
    BY <1>4 DEF FinishSending
  <2>4. Moves(e)
    BY <1>4, <2>1 DEF FinishSending, Moves
  <2> HIDE DEF e
  <2> QED BY <2>1, <2>2, <2>3, <2>4, PostsEvents
<1>5. ASSUME NEW id \in server, DeleteOnServer(id)
      PROVE  \E e \in Event, changed \in BOOLEAN :
               Posts(e, changed) /\ (changed \/ e.id # Newest(server)) /\ Leaves(e)
  <2> DEFINE e == [type |-> "delete", id |-> id, fromCache |-> FALSE]
             changed == id = Newest(server)
  <2>1. e \in Event
    BY <1>2 DEF Event, DeleteEvent
  <2>2. Newest(server') \in Ids \cup {NoId}
    BY <1>2, <1>5, WindowEndsType DEF DeleteOnServer
  <2>3. Post(<<e>> \o IF changed THEN LastMessageUpdate(server') ELSE <<>>)
    BY <1>5 DEF DeleteOnServer
  <2>4. Leaves(e) /\ (changed \/ e.id # Newest(server))
    BY <1>5 DEF DeleteOnServer, Leaves
  <2> HIDE DEF e, changed
  <2>5. changed \in BOOLEAN
    BY DEF changed
  <2> QED BY <2>1, <2>2, <2>3, <2>4, <2>5, PostsEvents
<1>6. ASSUME NEW e \in Event, Post(<<e>>)
      PROVE  Posts(e, FALSE)
  <2>1. <<e>> \o <<>> = <<e>>
    OBVIOUS
  <2> QED BY <1>6, <2>1, PostsEvents
<1>7. ASSUME NEW id \in server, Evict(id)
      PROVE  \E e \in Event : Posts(e, FALSE) /\ Drops(e)
  <2> DEFINE e == [type |-> "delete", id |-> id, fromCache |-> TRUE]
  <2>1. e \in Event /\ Post(<<e>>) /\ Drops(e)
    BY <1>2, <1>7 DEF Event, DeleteEvent, Evict, Drops
  <2> HIDE DEF e
  <2> QED BY <2>1, <1>6
<1>8. ASSUME NEW r \in requests, NEW B \in SUBSET server, AnswerHistory(r, B)
      PROVE  \E e \in Event : Posts(e, FALSE) /\ Answers(e)
  <2> DEFINE e == [type |-> "history", from |-> r.from, ids |-> B, purpose |-> r.purpose]
  <2>1. r.purpose \in Purpose /\ r.from \in Ids \cup {NoId} /\ B \in SUBSET Ids
    BY <1>2, <1>8 DEF AnswerHistory, TypeOK, Request, HistoryRequest, IdRequest
  <2>2. e \in Event /\ Post(<<e>>) /\ Answers(e)
    BY <1>8, <2>1 DEF Event, HistoryEvent, AnswerHistory, Answers
  <2> HIDE DEF e
  <2> QED BY <2>2, <1>6
<1>9. ASSUME NEW r \in requests, NEW ok \in BOOLEAN, AnswerById(r, ok)
      PROVE  \E e \in Event : Posts(e, FALSE) /\ Answers(e)
  <2> DEFINE e == [type |-> r.type, id |-> r.id, ok |-> ok]
  <2>1. r.id \in Ids /\ r.type \in {"message", "properties"}
    BY <1>9 DEF AnswerById, TypeOK, Request, HistoryRequest, IdRequest
  <2>2. e \in Event /\ Post(<<e>>) /\ Answers(e)
    BY <1>9, <2>1 DEF Event, AnswerEvent, AnswerById, Answers
  <2> HIDE DEF e
  <2> QED BY <2>2, <1>6
<1> QED BY <1>3, <1>4, <1>5, <1>7, <1>8, <1>9, Zenon DEF TDLib

\* The GUI thread takes the first event.
LEMMA HandlingQueue ==
  ASSUME TypeOK, HandleNextUpdate
  PROVE  /\ Len(updates) \in Nat /\ Len(updates) >= 1 /\ Len(updates') = Len(updates) - 1
         /\ DOMAIN updates = 1 .. Len(updates) /\ DOMAIN updates' = 1 .. Len(updates')
         /\ \A i \in DOMAIN updates' : i + 1 \in DOMAIN updates /\ updates'[i] = updates[i + 1]
         /\ \A i \in DOMAIN updates \ {1} : i - 1 \in DOMAIN updates' /\ updates'[i - 1] = updates[i]
         /\ Head(updates) = updates[1] /\ updates[1] \in Event
         /\ Handle(updates[1])
         /\ UNCHANGED <<requests, server, unsent, nextId, evicted, failedSends>>
<1>1. updates \in Seq(Event) /\ updates # <<>> /\ updates' = Tail(updates)
  BY DEF TypeOK, HandleNextUpdate
<1>2. Len(updates) \in Nat /\ Len(updates) >= 1 /\ DOMAIN updates = 1 .. Len(updates)
  BY <1>1, LenProperties, EmptySeq
<1>3. /\ updates' \in Seq(Event) /\ Len(updates') = Len(updates) - 1
      /\ \A i \in 1 .. Len(updates') : updates'[i] = updates[i + 1]
      /\ Head(updates) = updates[1] /\ updates[1] \in Event
  BY <1>1, <1>2, HeadTailProperties, ElementOfSeq
<1>4. DOMAIN updates' = 1 .. Len(updates')
  BY <1>3, LenProperties
<1> QED BY <1>2, <1>3, <1>4 DEF HandleNextUpdate, serverVars

\* The page leaves the events as they are; clearing the rows takes the purpose
\* of an event that extends them.
SameButPurpose(e, f) ==
  /\ e.type = f.type
  /\ e.type # "history" => e = f
  /\ e.type = "history" =>
       e.ids = f.ids /\ e.from = f.from /\ (f.purpose = "extend" => e.purpose = "extend")

\* A step of the page changes rows and requests, and the purpose of waiting events.
LEMMA PageSteps ==
  ASSUME TypeOK, Page
  PROVE  /\ UNCHANGED <<messages, lastMessageId, crashed, server, unsent, nextId, evicted,
                        failedSends, failedFetches>>
         /\ Len(updates') = Len(updates) /\ DOMAIN updates' = DOMAIN updates
         /\ \A i \in DOMAIN updates : SameButPurpose(updates[i], updates'[i])
         /\ \/ UNCHANGED <<rows, torn, updates>>
            \/ rows' = NoRows /\ torn' = FALSE /\ OutdateEvents
<1> USE DEF chatVars, serverVars
<1>1. UNCHANGED <<messages, lastMessageId, crashed, server, unsent, nextId, evicted,
                  failedSends, failedFetches>>
  BY DEF Page, ReadRow, FetchReply, LoadContextPermissions, GetChatHistory, GetMore,
         ClearCachedHistory, ScrollToMessage
<1>2. \/ UNCHANGED <<rows, torn, updates>>
      \/ rows' = NoRows /\ torn' = FALSE /\ OutdateEvents
  BY DEF Page, ReadRow, FetchReply, LoadContextPermissions, GetChatHistory, GetMore,
         ClearCachedHistory, ScrollToMessage
<1>3. CASE UNCHANGED updates
  BY <1>1, <1>2, <1>3 DEF SameButPurpose
<1>4. CASE OutdateEvents
  <2>1. DOMAIN updates' = DOMAIN updates
    BY <1>4 DEF OutdateEvents
  <2>2. Len(updates') = Len(updates)
    <3>1. updates' \in Seq(Event)
      BY <1>4, OutdateType
    <3> QED BY <2>1, <3>1, QueueType, LenProperties
  <2>3. ASSUME NEW i \in DOMAIN updates
        PROVE  SameButPurpose(updates[i], updates'[i])
    <3>1. PICK e \in Event : e = updates[i]
      BY QueueType
    <3>2. CASE e.type # "history"
      BY <1>4, <3>1, <3>2 DEF OutdateEvents, SameButPurpose
    <3>3. CASE e.type = "history"
      <4>1. e \in HistoryEvent
        BY <3>3, EventFields
      <4>2. updates'[i] = [e EXCEPT !.purpose = "open"]
        BY <1>4, <3>1, <3>3 DEF OutdateEvents
      <4> QED BY <3>1, <3>3, <4>1, <4>2 DEF SameButPurpose, HistoryEvent
    <3> QED BY <3>2, <3>3
  <2> QED BY <1>1, <1>2, <2>1, <2>2, <2>3
<1> QED BY <1>2, <1>3, <1>4
-----------------------------------------------------------------------------
(* The objects behind the rows.                                            *)

\* The ids under which an event stores a message, or removes one.
Names(e) == Carried(e) \cup IF e.type = "delete" THEN {e.id} ELSE {}

\* An object that says another id than its key has no row, and will not get one:
\* nothing in the queue or in the chat speaks of a temporary id that was left.
ObjectsInv ==
  /\ RowShowsItsMessage
  /\ \A k \in Cached : messages[k] # k =>
       k < nextId /\ k \notin server /\ \A i \in DOMAIN updates : k \notin Names(updates[i])
  /\ \A i, j \in DOMAIN updates :
       i < j /\ updates[i].type = "sendSucceeded" => updates[i].old \notin Names(updates[j])

\* The events after a step of TDLib.
LEMMA PostedAt ==
  ASSUME TypeOK, TypeOK', NEW e, NEW changed \in BOOLEAN, Posts(e, changed),
         NEW i \in DOMAIN updates'
  PROVE  \/ i \in DOMAIN updates /\ updates'[i] = updates[i]
         \/ i = Len(updates) + 1 /\ updates'[i] = e
         \/ /\ changed /\ i = Len(updates) + 2
            /\ updates'[i] = [type |-> "lastMessage", id |-> Newest(server')]
<1>1. /\ Len(updates) \in Nat /\ DOMAIN updates = 1 .. Len(updates)
      /\ DOMAIN updates' = 1 .. Len(updates')
  BY LenProperties DEF TypeOK
<1> QED BY <1>1 DEF Posts

\* The events that waited still do, and the one posted is behind them.
LEMMA PostedBehind ==
  ASSUME TypeOK, TypeOK', NEW e, NEW changed \in BOOLEAN, Posts(e, changed)
  PROVE  /\ \A i \in DOMAIN updates : i \in DOMAIN updates' /\ updates'[i] = updates[i]
         /\ Len(updates) + 1 \in DOMAIN updates' /\ updates'[Len(updates) + 1] = e
<1>1. /\ Len(updates) \in Nat /\ DOMAIN updates = 1 .. Len(updates)
      /\ DOMAIN updates' = 1 .. Len(updates')
  BY LenProperties DEF TypeOK
<1> QED BY <1>1 DEF Posts

\* What TDLib posts speaks of messages of the chat, or of the one that arrives.
LEMMA PostedNames ==
  ASSUME TypeOK, NEW e \in Event, Arrives(e) \/ Moves(e) \/ Leaves(e) \/ Drops(e) \/ Answers(e)
  PROVE  Names(e) \subseteq server \cup {nextId} /\ server' \subseteq server \cup {nextId}
         /\ nextId \in Int /\ nextId' \in {nextId, nextId + 1}
<1>1. server' \subseteq server \cup {nextId}
      /\ nextId \in Int /\ nextId' \in {nextId, nextId + 1}
  BY DEF TypeOK, Arrives, Moves, Leaves, Drops, Answers
<1>2. CASE Answers(e)
  BY <1>1, <1>2 DEF Answers, Names, Carried, TypeOK, Request, HistoryRequest, IdRequest
<1> QED BY <1>1, <1>2 DEF Names, Carried, Arrives, Moves, Leaves, Drops

\* A step of TDLib keeps ObjectsInv: what it posts speaks of messages of the chat.
LEMMA ServerObjects ==
  ASSUME TypeOK, TypeOK', RowsInv, ObjectsInv, TDLib
  PROVE  ObjectsInv'
<1>1. UNCHANGED <<messages, rows>> /\ Cached' = Cached
  BY ServerSteps DEF chatVars, Cached
<1>2. PICK e \in Event, changed \in BOOLEAN :
        Posts(e, changed) /\ (Arrives(e) \/ Moves(e) \/ Leaves(e) \/ Drops(e) \/ Answers(e))
  BY ServerSteps
<1>3. Names(e) \subseteq server \cup {nextId} /\ server' \subseteq server \cup {nextId}
      /\ nextId \in Int /\ nextId' \in {nextId, nextId + 1}
  BY <1>2, PostedNames
<1>4. ASSUME NEW id \in Ids, id < nextId, id \notin server
      PROVE  /\ id < nextId' /\ id \notin server'
             /\ \A i \in DOMAIN updates' :
                  id \in Names(updates'[i]) => i \in DOMAIN updates /\ updates'[i] = updates[i]
  <2>1. id < nextId' /\ id \notin server' /\ id \notin Names(e)
    BY <1>3, <1>4 DEF Ids
  <2>2. \A l : id \notin Names([type |-> "lastMessage", id |-> l])
    BY DEF Names, Carried
  <2> QED BY <1>2, <2>1, <2>2, PostedAt
<1>5. RowShowsItsMessage'
  BY <1>1 DEF ObjectsInv, RowShowsItsMessage
<1>6. ASSUME NEW k \in Cached', messages'[k] # k
      PROVE  k < nextId' /\ k \notin server' /\ \A i \in DOMAIN updates' : k \notin Names(updates'[i])
  <2>1. k \in Ids /\ k < nextId /\ k \notin server /\ \A i \in DOMAIN updates : k \notin Names(updates[i])
    BY <1>1, <1>6 DEF ObjectsInv, TypeOK
  <2> QED BY <1>4, <2>1
<1>7. ASSUME NEW i \in DOMAIN updates', NEW j \in DOMAIN updates',
             i < j, updates'[i].type = "sendSucceeded"
      PROVE  updates'[i].old \notin Names(updates'[j])
  <2>1. CASE i \in DOMAIN updates /\ updates'[i] = updates[i]
    <3>1. SoundEvent(updates[i]) /\ updates[i] \in SendEvent
      BY <1>7, <2>1, QueueType, EventFields DEF RowsInv
    <3>2. updates[i].old \in Ids /\ updates[i].old < nextId /\ updates[i].old \notin server
      BY <1>3, <1>7, <2>1, <3>1 DEF SoundEvent, SendEvent, Carried, Ids
    <3> QED BY <1>4, <1>7, <2>1, <3>2 DEF ObjectsInv
  <2>2. CASE ~(i \in DOMAIN updates /\ updates'[i] = updates[i])
    <3>1. i > Len(updates) /\ DOMAIN updates = 1 .. Len(updates) /\ Len(updates) \in Nat
      BY <1>2, <2>2, PostedAt, QueueType
    <3>2. updates'[j] = [type |-> "lastMessage", id |-> Newest(server')]
      BY <1>2, <1>7, <3>1, PostedAt
    <3> QED BY <3>2 DEF Names, Carried
  <2> QED BY <2>1, <2>2
<1> QED BY <1>5, <1>6, <1>7 DEF ObjectsInv

\* A handler leaves an object under its key, stores one that says its key, or
\* lets a message without a row say its final id.
LEMMA HandlerStores ==
  ASSUME TypeOK, NEW e \in Event, Handle(e), NEW k \in Cached'
  PROVE  \/ messages'[k] = k
         \/ /\ k \in Cached /\ messages'[k] = messages[k]
            /\ rows'[k] <= rows[k] \/ k \in Carried(e)
         \/ e.type = "sendSucceeded" /\ k = e.old /\ rows'[k] = 0
<1>0. rows \in [Ids -> Nat] /\ messages \in [Cached -> Ids] /\ Cached \subseteq Ids
  BY DEF TypeOK
<1> DEFINE Goal == \/ messages'[k] = k
                   \/ /\ k \in Cached /\ messages'[k] = messages[k]
                      /\ rows'[k] <= rows[k] \/ k \in Carried(e)
                   \/ e.type = "sendSucceeded" /\ k = e.old /\ rows'[k] = 0
<1>1. ASSUME NEW id \in Ids, NEW addToList \in BOOLEAN, NewMessage(id, addToList),
             addToList => id \in Carried(e)
      PROVE  Goal
  <2>1. messages'[k] = k \/ (k \in Cached /\ messages'[k] = messages[k])
    BY <1>1 DEF NewMessage, Cached
  <2>2. k \in Cached => rows'[k] <= rows[k] \/ k \in Carried(e)
    BY <1>0, <1>1 DEF NewMessage
  <2> QED BY <2>1, <2>2
<1>2. CASE UNCHANGED <<messages, rows>>
  BY <1>0, <1>2 DEF Cached
<1>3. CASE UpdateNewMessage(e)
  <2>1. e.id \in Ids /\ e.id \in Carried(e)
    BY <1>3, EventFields DEF UpdateNewMessage, NewMessageEvent, Carried
  <2>2. NewMessage(e.id, LatestMessageId = lastMessageId)
    BY <1>3 DEF UpdateNewMessage
  <2> QED BY <1>1, <2>1, <2>2
<1>4. CASE UpdateChatLastMessage(e)
  <2>1. e.id \in Ids \cup {NoId}
    BY <1>4, EventFields DEF UpdateChatLastMessage, LastMessageEvent
  <2> QED BY <1>1, <1>2, <1>4, <2>1 DEF UpdateChatLastMessage, SetLastMessage
<1>5. CASE UpdateMessageSendSucceeded(e)
  <2>1. e.old \in Ids /\ e.id \in Ids /\ e.type = "sendSucceeded"
    BY <1>5, EventFields DEF UpdateMessageSendSucceeded, SendEvent
  <2>2. CASE OnMessageIdChanged(e) /\ rows[e.old] = 0
    BY <1>0, <2>1, <2>2 DEF OnMessageIdChanged, Cached
  <2>3. CASE OnMessageIdChanged(e) /\ rows[e.old] # 0
    <3>1. messages'[k] = k \/ (k \in Cached \ {e.old} /\ k # e.id /\ messages'[k] = messages[k])
      BY <2>3 DEF OnMessageIdChanged, Cached
    <3>2. k \in Ids \ {e.old, e.id} => rows'[k] = rows[k]
      BY <1>0, <2>1, <2>3 DEF OnMessageIdChanged
    <3> QED BY <1>0, <3>1, <3>2
  <2> QED BY <1>2, <1>5, <2>2, <2>3 DEF UpdateMessageSendSucceeded
<1>6. CASE UpdateDeleteMessages(e)
  <2>1. k \in Cached /\ messages'[k] = messages[k]
    BY <1>6 DEF UpdateDeleteMessages, Cached, Restrict
  <2>2. rows'[k] <= rows[k]
    BY <1>0, <1>6, <2>1 DEF UpdateDeleteMessages
  <2> QED BY <2>1, <2>2
<1>7. CASE OnGotChatHistory(e)
  <2>1. Carried(e) = e.ids /\ e.ids \subseteq Ids
    BY <1>7, EventFields DEF OnGotChatHistory, Carried, HistoryEvent
  <2>2. messages'[k] = k \/ (k \in Cached /\ messages'[k] = messages[k])
    BY <1>7 DEF OnGotChatHistory, Cached
  <2>3. k \in Ids => rows'[k] <= rows[k] \/ k \in e.ids
    BY <1>0, <1>7 DEF OnGotChatHistory
  <2> QED BY <1>0, <2>1, <2>2, <2>3
<1>8. CASE OnGotMessage(e)
  <2>1. e.id \in Ids
    BY <1>8, EventFields DEF OnGotMessage, AnswerEvent
  <2> QED BY <1>1, <1>2, <1>8, <2>1 DEF OnGotMessage
<1>9. CASE IgnoreMessageSendFailed(e) \/ OnGotMessageProperties(e)
  BY <1>2, <1>9 DEF IgnoreMessageSendFailed, OnGotMessageProperties, chatVars
<1> QED BY <1>3, <1>4, <1>5, <1>6, <1>7, <1>8, <1>9 DEF Handle

\* Every event handler keeps ObjectsInv.
LEMMA HandlerObjects ==
  ASSUME TypeOK, TypeOK', RowsInv, ObjectsInv, HandleNextUpdate
  PROVE  ObjectsInv'
<1>1. PICK e \in Event : e = updates[1] /\ Handle(e) /\ UNCHANGED <<server, nextId>>
  BY HandlingQueue
<1>2. 1 \in DOMAIN updates /\ SoundEvent(e)
  BY <1>1, HandlingQueue DEF RowsInv
<1>3. rows \in [Ids -> Nat] /\ rows' \in [Ids -> Nat] /\ Cached' \subseteq Ids
  BY DEF TypeOK
<1>4. Carried(e) \subseteq Names(e)
  BY DEF Names
<1>5. ASSUME NEW k \in Cached', messages'[k] # k
      PROVE  /\ rows'[k] = 0
             /\ k < nextId' /\ k \notin server' /\ \A i \in DOMAIN updates' : k \notin Names(updates'[i])
  <2>1. CASE k \in Cached /\ messages'[k] = messages[k] /\ (rows'[k] <= rows[k] \/ k \in Carried(e))
    <3>1. /\ k < nextId /\ k \notin server /\ \A i \in DOMAIN updates : k \notin Names(updates[i])
          /\ ~(rows[k] > 0)
      BY <1>5, <2>1 DEF ObjectsInv, RowShowsItsMessage
    <3>2. rows'[k] = 0
      BY <1>1, <1>2, <1>3, <1>4, <2>1, <3>1
    <3> QED BY <1>1, <3>1, <3>2, HandlingQueue
  <2>2. CASE e.type = "sendSucceeded" /\ k = e.old /\ rows'[k] = 0
    <3>1. e.old < nextId /\ e.old \notin server
      <4>1. e.old \in Ids /\ e.id \in Ids
        BY <2>2, EventFields DEF SendEvent
      <4>2. e.old < e.id /\ e.id < nextId /\ nextId \in Int
        BY <1>2, <2>2 DEF SoundEvent, Carried, TypeOK
      <4> QED BY <1>2, <2>2, <4>1, <4>2 DEF SoundEvent, Ids
    <3>2. \A i \in DOMAIN updates' : k \notin Names(updates'[i])
      <4> TAKE i \in DOMAIN updates'
      <4>1. i + 1 \in DOMAIN updates /\ 1 < i + 1 /\ updates'[i] = updates[i + 1]
        BY HandlingQueue
      <4> QED BY <1>1, <1>2, <2>2, <4>1 DEF ObjectsInv
    <3> QED BY <1>1, <2>2, <3>1, <3>2
  <2> QED BY <1>1, <1>5, <2>1, <2>2, HandlerStores
<1>6. RowShowsItsMessage'
  BY <1>5 DEF RowShowsItsMessage
<1>7. ASSUME NEW i \in DOMAIN updates', NEW j \in DOMAIN updates',
             i < j, updates'[i].type = "sendSucceeded"
      PROVE  updates'[i].old \notin Names(updates'[j])
  <2>1. /\ i + 1 \in DOMAIN updates /\ j + 1 \in DOMAIN updates /\ i + 1 < j + 1
        /\ updates'[i] = updates[i + 1] /\ updates'[j] = updates[j + 1]
    BY <1>7, HandlingQueue
  <2> QED BY <1>7, <2>1 DEF ObjectsInv
<1> QED BY <1>5, <1>6, <1>7 DEF ObjectsInv

\* A step of the page keeps ObjectsInv.
LEMMA PageObjects ==
  ASSUME TypeOK, ObjectsInv, Page
  PROVE  ObjectsInv'
<1>1. /\ UNCHANGED <<messages, server, nextId>> /\ Cached' = Cached
      /\ DOMAIN updates' = DOMAIN updates
      /\ UNCHANGED rows \/ rows' = NoRows
  BY PageSteps DEF Cached
<1>2. \A i \in DOMAIN updates :
        /\ Names(updates'[i]) = Names(updates[i]) /\ updates'[i].type = updates[i].type
        /\ updates[i].type = "sendSucceeded" => updates'[i] = updates[i]
  BY PageSteps DEF SameButPurpose, Names, Carried
<1>3. RowShowsItsMessage'
  BY <1>1 DEF ObjectsInv, RowShowsItsMessage, NoRows, TypeOK
<1> QED BY <1>1, <1>2, <1>3 DEF ObjectsInv

\* The inductive invariant behind the next theorem.
THEOREM ObjectsInvariant == Spec => []ObjectsInv
<1>1. Init => ObjectsInv
  BY DEF Init, ObjectsInv, RowShowsItsMessage, Cached
<1>2. TypeOK /\ TypeOK' /\ RowsInv /\ ObjectsInv /\ [Next]_vars => ObjectsInv'
  <2>1. ASSUME ObjectsInv, UNCHANGED vars
        PROVE  ObjectsInv'
    BY <2>1 DEF ObjectsInv, RowShowsItsMessage, Names, Carried, Cached,
                vars, chatVars, serverVars, historyVars
  <2> QED BY <2>1, ServerObjects, HandlerObjects, PageObjects DEF Next
<1> QED BY <1>1, <1>2, TypeCorrect, RowsInvariant, PTL DEF Spec

\* RowShowsItsMessage: the object behind a row is the message of that id.
THEOREM RowsShowTheirMessages == Spec => []RowShowsItsMessage
<1>1. ObjectsInv => RowShowsItsMessage
  BY DEF ObjectsInv
<1> QED BY <1>1, ObjectsInvariant, PTL
-----------------------------------------------------------------------------
(* Rows and the messages of the chat.                                      *)

\* The event takes the id away: its message is deleted, or moves to another id.
Removes(e, id) ==
  \/ e.type = "delete" /\ ~e.fromCache /\ e.id = id
  \/ e.type = "sendSucceeded" /\ e.old = id

\* An id that an event takes away has left the chat, and is not given again.
RemovedInv ==
  \A i \in DOMAIN updates : \A id \in Ids :
     Removes(updates[i], id) => id \notin server /\ id < nextId

\* The id is one of the chat, or an event after the n-th takes it away, or it is
\* an exception of RowsAreLive.
LivesAfter(id, n) ==
  \/ id \in server \cup failedSends \cup evicted
  \/ \E j \in DOMAIN updates : j > n /\ Removes(updates[j], id)

\* Every row, and every id an event will give a row, lives in that sense.
LiveInv ==
  /\ RemovedInv
  /\ \A id \in Shown : LivesAfter(id, 0)
  /\ \A i \in DOMAIN updates : \A id \in Carried(updates[i]) : LivesAfter(id, i)

\* A step of TDLib keeps LiveInv: a message leaves the chat with the event that says so.
LEMMA ServerLive ==
  ASSUME TypeOK, TypeOK', RowsInv, LiveInv, TDLib
  PROVE  LiveInv'
<1>1. UNCHANGED rows /\ Shown' = Shown
  BY ServerSteps DEF chatVars, Shown
<1>2. PICK e \in Event, changed \in BOOLEAN :
        Posts(e, changed) /\ (Arrives(e) \/ Moves(e) \/ Leaves(e) \/ Drops(e) \/ Answers(e))
  BY ServerSteps
<1>3. /\ Names(e) \subseteq server \cup {nextId} /\ server' \subseteq server \cup {nextId}
      /\ nextId \in Int /\ nextId' \in {nextId, nextId + 1}
      /\ DOMAIN updates = 1 .. Len(updates) /\ Len(updates) \in Nat
  BY <1>2, PostedNames, QueueType
<1>4. \A i \in DOMAIN updates : i \in DOMAIN updates' /\ updates'[i] = updates[i]
  BY <1>2, PostedBehind
<1>5. Len(updates) + 1 \in DOMAIN updates' /\ updates'[Len(updates) + 1] = e
  BY <1>2, PostedBehind
<1>6. \A id \in server : id \in Int /\ id < nextId
  BY DEF RowsInv, TypeOK, Ids
<1>7. ASSUME NEW id \in server \ server'
      PROVE  Removes(e, id) \/ id \in failedSends'
  BY <1>2, <1>7 DEF Arrives, Moves, Leaves, Drops, Answers, Removes
<1>8. ASSUME NEW id, NEW n \in 0 .. Len(updates), LivesAfter(id, n)
      PROVE  LivesAfter(id, n)'
  <2>1. failedSends \subseteq failedSends' /\ evicted \subseteq evicted'
    BY <1>2 DEF Arrives, Moves, Leaves, Drops, Answers, historyVars
  <2>2. CASE id \in server \ server'
    <3>1. Len(updates) + 1 > n
      BY <1>3, <1>8
    <3> QED BY <1>5, <1>7, <2>2, <3>1 DEF LivesAfter
  <2>3. CASE \E j \in DOMAIN updates : j > n /\ Removes(updates[j], id)
    BY <1>4, <2>3 DEF LivesAfter
  <2> QED BY <1>8, <2>1, <2>2, <2>3 DEF LivesAfter
<1>9. \A l : /\ Carried([type |-> "lastMessage", id |-> l]) = {}
             /\ \A id : ~Removes([type |-> "lastMessage", id |-> l], id)
  BY DEF Carried, Removes
<1>10. ASSUME NEW i \in DOMAIN updates', NEW id \in Ids, Removes(updates'[i], id)
       PROVE  id \notin server' /\ id < nextId'
  <2>1. CASE i \in DOMAIN updates /\ updates'[i] = updates[i]
    <3>1. id \notin server /\ id < nextId
      BY <1>10, <2>1 DEF LiveInv, RemovedInv
    <3> QED BY <1>3, <3>1 DEF Ids
  <2>2. CASE updates'[i] = e
    <3>1. Answers(e) => e.type \notin {"delete", "sendSucceeded"}
      BY DEF Answers, TypeOK, Request, HistoryRequest, IdRequest
    <3>2. Removes(e, id)
      BY <1>10, <2>2
    <3>3. (Leaves(e) /\ id = e.id) \/ (Moves(e) /\ id = e.old)
      BY <1>2, <3>1, <3>2 DEF Arrives, Moves, Leaves, Drops, Removes
    <3>4. id \in server /\ id \notin server'
      BY <1>6, <3>3 DEF Leaves, Moves, TypeOK
    <3> QED BY <1>3, <1>6, <3>4
  <2> QED BY <1>2, <1>9, <1>10, <2>1, <2>2, PostedAt
<1>11. ASSUME NEW i \in DOMAIN updates', NEW id \in Carried(updates'[i])
       PROVE  LivesAfter(id, i)'
  <2>1. CASE i \in DOMAIN updates /\ updates'[i] = updates[i]
    <3>1. LivesAfter(id, i) /\ i \in 0 .. Len(updates)
      BY <1>3, <1>11, <2>1 DEF LiveInv
    <3> QED BY <1>8, <3>1
  <2>2. CASE updates'[i] = e
    <3>1. id \in server'
      BY <1>2, <1>11, <2>2 DEF Arrives, Moves, Leaves, Drops, Answers, Carried, TypeOK,
           Request, HistoryRequest, IdRequest
    <3> QED BY <3>1 DEF LivesAfter
  <2> QED BY <1>2, <1>9, <1>11, <2>1, <2>2, PostedAt
<1>12. \A id \in Shown' : LivesAfter(id, 0)'
  <2>1. 0 \in 0 .. Len(updates)
    BY <1>3
  <2> QED BY <1>1, <1>8, <2>1 DEF LiveInv
<1>13. RemovedInv'
  BY <1>10 DEF RemovedInv
<1> QED BY <1>11, <1>12, <1>13 DEF LiveInv

\* A row appears for an id the event carries, and goes with the event that takes
\* its id away.
LEMMA HandlerShows ==
  ASSUME TypeOK, RowsInv, ObjectsInv, NEW e \in Event, SoundEvent(e), Handle(e)
  PROVE  /\ Shown' \subseteq Shown \cup Carried(e)
         /\ \A id \in Shown' : Removes(e, id) => id \in evicted \cup Carried(e)
<1>0. /\ rows \in [Ids -> Nat]
      /\ \A id \in Ids : /\ rows[id] <= 1 \/ id \in evicted
                         /\ rows[id] > 0 => id \in Cached \cup evicted
      /\ \A k \in Cached : rows[k] > 0 => messages[k] = k
  BY DEF TypeOK, RowsInv, NoDuplicateRows, Shown, ObjectsInv, RowShowsItsMessage
<1> DEFINE Goal == \A id \in Ids : rows'[id] > 0 =>
                     /\ rows[id] > 0 \/ id \in Carried(e)
                     /\ Removes(e, id) => id \in evicted \cup Carried(e)
<1> SUFFICES Goal
  BY DEF Shown
<1>1. ASSUME NEW id \in Ids, NEW addToList \in BOOLEAN, NewMessage(id, addToList),
             addToList => id \in Carried(e), e.type \notin {"delete", "sendSucceeded"}
      PROVE  Goal
  BY <1>0, <1>1 DEF NewMessage, Removes
<1>2. CASE UNCHANGED rows /\ e.type \notin {"delete", "sendSucceeded"}
  BY <1>0, <1>2 DEF Removes
<1>3. CASE UpdateNewMessage(e)
  <2>1. e.id \in Ids /\ e.id \in Carried(e)
    BY <1>3, EventFields DEF UpdateNewMessage, NewMessageEvent, Carried
  <2>2. NewMessage(e.id, LatestMessageId = lastMessageId) /\ e.type = "newMessage"
    BY <1>3 DEF UpdateNewMessage
  <2> QED BY <1>1, <2>1, <2>2
<1>4. CASE UpdateChatLastMessage(e)
  <2>1. e.id \in Ids \cup {NoId}
    BY <1>4, EventFields DEF UpdateChatLastMessage, LastMessageEvent
  <2> QED BY <1>1, <1>2, <1>4, <2>1 DEF UpdateChatLastMessage, SetLastMessage
<1>5. CASE UpdateMessageSendSucceeded(e)
  <2>1. e.old \in Ids /\ e.id \in Ids /\ e.type = "sendSucceeded" /\ e.id \in Carried(e)
    BY <1>5, EventFields DEF UpdateMessageSendSucceeded, SendEvent, Carried
  <2>2. e.old # e.id /\ e.old \notin evicted /\ rows[e.id] = 0
    BY <1>0, <2>1 DEF SoundEvent, Ids
  <2>3. CASE rows[e.old] = 0
    <3>1. UNCHANGED rows
      BY <1>5, <2>3 DEF UpdateMessageSendSucceeded, OnMessageIdChanged
    <3> QED BY <1>0, <2>1, <2>3, <3>1 DEF Removes
  <2>4. CASE rows[e.old] # 0
    <3>1. e.old \in Cached /\ messages[e.old] = e.old /\ rows[e.old] = 1
      BY <1>0, <2>1, <2>2, <2>4
    <3>2. rows' = [rows EXCEPT ![e.old] = @ - 1, ![e.id] = @ + 1]
      BY <1>5, <2>4, <3>1 DEF UpdateMessageSendSucceeded, OnMessageIdChanged
    <3>3. rows'[e.old] = 0 /\ \A id \in Ids \ {e.old, e.id} : rows'[id] = rows[id]
      BY <1>0, <2>1, <2>2, <3>1, <3>2
    <3> QED BY <1>0, <2>1, <3>1, <3>3 DEF Removes
  <2> QED BY <2>3, <2>4
<1>6. CASE UpdateDeleteMessages(e)
  <2>1. e.id \in Ids /\ e.type = "delete" /\ e.fromCache \in BOOLEAN
    BY <1>6, EventFields DEF UpdateDeleteMessages, DeleteEvent
  <2>2. CASE ~e.fromCache /\ rows[e.id] > 0
    <3>1. rows' = [rows EXCEPT ![e.id] = @ - 1]
      BY <1>6, <2>2 DEF UpdateDeleteMessages
    <3>2. rows'[e.id] = rows[e.id] - 1 /\ \A id \in Ids \ {e.id} : rows'[id] = rows[id]
      BY <1>0, <2>1, <3>1
    <3> QED BY <1>0, <2>1, <2>2, <3>2 DEF Removes
  <2>3. CASE e.fromCache \/ ~(rows[e.id] > 0)
    <3>1. UNCHANGED rows
      BY <1>6, <2>3 DEF UpdateDeleteMessages
    <3> QED BY <1>0, <2>1, <2>3, <3>1 DEF Removes
  <2> QED BY <2>1, <2>2, <2>3
<1>7. CASE OnGotChatHistory(e)
  <2>1. Carried(e) = e.ids /\ e.type = "history"
    BY <1>7 DEF OnGotChatHistory, Carried
  <2> QED BY <1>0, <1>7, <2>1 DEF OnGotChatHistory, Removes
<1>8. CASE OnGotMessage(e)
  <2>1. e.id \in Ids
    BY <1>8, EventFields DEF OnGotMessage, AnswerEvent
  <2> QED BY <1>1, <1>2, <1>8, <2>1 DEF OnGotMessage
<1>9. CASE IgnoreMessageSendFailed(e) \/ OnGotMessageProperties(e)
  BY <1>2, <1>9 DEF IgnoreMessageSendFailed, OnGotMessageProperties, chatVars
<1> QED BY <1>3, <1>4, <1>5, <1>6, <1>7, <1>8, <1>9 DEF Handle

\* Every event handler keeps LiveInv: the first event takes its row away, the others wait.
LEMMA HandlerLive ==
  ASSUME TypeOK, TypeOK', RowsInv, ObjectsInv, LiveInv, HandleNextUpdate
  PROVE  LiveInv'
<1>1. PICK e \in Event : /\ e = updates[1] /\ Handle(e)
                         /\ UNCHANGED <<server, nextId, evicted, failedSends>>
  BY HandlingQueue
<1>2. 1 \in DOMAIN updates /\ SoundEvent(e) /\ DOMAIN updates \subseteq Nat
  BY <1>1, HandlingQueue DEF RowsInv
<1>3. ASSUME NEW id, NEW n \in DOMAIN updates, LivesAfter(id, n)
      PROVE  LivesAfter(id, n - 1)'
  <2>1. CASE \E j \in DOMAIN updates : j > n /\ Removes(updates[j], id)
    <3>1. PICK j \in DOMAIN updates : j > n /\ Removes(updates[j], id)
      BY <2>1
    <3>2. n \in Nat /\ j \in Nat /\ n >= 1 /\ j # 1 /\ j - 1 > n - 1
      BY <3>1, HandlingQueue
    <3>3. j - 1 \in DOMAIN updates' /\ updates'[j - 1] = updates[j]
      BY <3>1, <3>2, HandlingQueue
    <3> QED BY <3>1, <3>2, <3>3 DEF LivesAfter
  <2> QED BY <1>1, <1>3, <2>1 DEF LivesAfter
<1>4. RemovedInv'
  BY <1>1, HandlingQueue DEF LiveInv, RemovedInv
<1>5. ASSUME NEW i \in DOMAIN updates', NEW id \in Carried(updates'[i])
      PROVE  LivesAfter(id, i)'
  <2>1. i + 1 \in DOMAIN updates /\ updates'[i] = updates[i + 1] /\ (i + 1) - 1 = i
    BY HandlingQueue
  <2>2. LivesAfter(id, i + 1)
    BY <1>5, <2>1 DEF LiveInv
  <2>3. LivesAfter(id, (i + 1) - 1)'
    BY <1>3, <2>1, <2>2
  <2> QED BY <2>1, <2>3
<1>6. ASSUME NEW id \in Shown'
      PROVE  LivesAfter(id, 0)'
  <2>1. CASE LivesAfter(id, 1)
    <3>1. LivesAfter(id, 1 - 1)'
      BY <1>2, <1>3, <2>1
    <3> QED BY <3>1
  <2>2. CASE id \in Carried(e)
    BY <1>1, <1>2, <2>1, <2>2 DEF LiveInv
  <2>3. CASE id \in Shown /\ ~Removes(e, id)
    <3>1. LivesAfter(id, 0)
      BY <2>3 DEF LiveInv
    <3>2. \A j \in DOMAIN updates : j > 0 /\ Removes(updates[j], id) => j > 1
      BY <1>1, <1>2, <2>3
    <3> QED BY <2>1, <3>1, <3>2 DEF LivesAfter
  <2>4. CASE id \in evicted
    BY <1>1, <2>4 DEF LivesAfter
  <2> QED BY <1>1, <1>2, <1>6, <2>2, <2>3, <2>4, HandlerShows
<1> QED BY <1>4, <1>5, <1>6 DEF LiveInv

\* A step of the page keeps LiveInv.
LEMMA PageLive ==
  ASSUME TypeOK, LiveInv, Page
  PROVE  LiveInv'
<1>1. /\ UNCHANGED <<server, nextId, failedSends, evicted>> /\ DOMAIN updates' = DOMAIN updates
      /\ UNCHANGED rows \/ rows' = NoRows
  BY PageSteps
<1>3. Shown' \subseteq Shown
  BY <1>1 DEF Shown, NoRows
<1>2. \A i \in DOMAIN updates :
        /\ Carried(updates'[i]) = Carried(updates[i])
        /\ \A id : Removes(updates'[i], id) <=> Removes(updates[i], id)
  BY PageSteps DEF SameButPurpose, Carried, Removes
<1> QED BY <1>1, <1>2, <1>3 DEF LiveInv, LivesAfter, RemovedInv

\* The inductive invariant: a row, or an id an event will give a row, is of the
\* chat or is taken away by an event behind it.
THEOREM LiveInvariant == Spec => []LiveInv
<1>1. Init => LiveInv
  BY DEF Init, LiveInv, RemovedInv, Shown, NoRows
<1>2. TypeOK /\ TypeOK' /\ RowsInv /\ ObjectsInv /\ LiveInv /\ [Next]_vars => LiveInv'
  <2>1. ASSUME LiveInv, UNCHANGED vars
        PROVE  LiveInv'
    BY <2>1 DEF LiveInv, LivesAfter, RemovedInv, Removes, Carried, Shown,
                vars, chatVars, serverVars, historyVars
  <2> QED BY <2>1, ServerLive, HandlerLive, PageLive DEF Next
<1> QED BY <1>1, <1>2, TypeCorrect, RowsInvariant, ObjectsInvariant, PTL DEF Spec

\* RowsAreLive: once every event is handled, no row stands for a message that is gone.
THEOREM NoRowOfTheDead == Spec => []RowsAreLive
<1>1. LiveInv => RowsAreLive
  BY DEF LiveInv, RowsAreLive, LivesAfter
<1> QED BY <1>1, LiveInvariant, PTL
-----------------------------------------------------------------------------
(* Requests and their answers.                                             *)

\* What data() has asked for is under way, or failed.
FetchInv ==
  \A id \in fetching \ failedFetches :
    \/ [type |-> "message", id |-> id] \in requests
    \/ \E i \in DOMAIN updates : updates[i].type = "message" /\ updates[i].id = id

\* A step of TDLib keeps FetchInv: an answer takes the place of its request.
LEMMA ServerFetch ==
  ASSUME TypeOK, TypeOK', FetchInv, TDLib
  PROVE  FetchInv'
<1>1. UNCHANGED fetching
  BY ServerSteps DEF chatVars
<1>2. PICK e \in Event, changed \in BOOLEAN :
        Posts(e, changed) /\ (Arrives(e) \/ Moves(e) \/ Leaves(e) \/ Drops(e) \/ Answers(e))
  BY ServerSteps
<1>3. /\ \A i \in DOMAIN updates : i \in DOMAIN updates' /\ updates'[i] = updates[i]
      /\ Len(updates) + 1 \in DOMAIN updates' /\ updates'[Len(updates) + 1] = e
  BY <1>2, PostedBehind
<1>4. UNCHANGED failedFetches
  BY <1>2 DEF Arrives, Moves, Leaves, Drops, Answers, historyVars
<1>5. ASSUME NEW id \in Ids, [type |-> "message", id |-> id] \in requests
      PROVE  \/ [type |-> "message", id |-> id] \in requests'
             \/ \E i \in DOMAIN updates' : updates'[i].type = "message" /\ updates'[i].id = id
  <2>1. CASE Answers(e)
    <3>1. PICK r \in requests : /\ e.type = r.type /\ requests' = requests \ {r}
                                /\ r.type # "history" => e.id = r.id
      BY <2>1 DEF Answers
    <3>2. CASE r = [type |-> "message", id |-> id]
      <4>1. e.type = "message" /\ e.id = id
        BY <3>1, <3>2
      <4> QED BY <1>3, <4>1
    <3> QED BY <1>5, <3>1, <3>2
  <2>2. CASE ~Answers(e)
    BY <1>2, <1>5, <2>2 DEF Arrives, Moves, Leaves, Drops
  <2> QED BY <2>1, <2>2
<1> QED BY <1>1, <1>3, <1>4, <1>5 DEF FetchInv, TypeOK

\* Every event handler keeps FetchInv.
LEMMA HandlerFetch ==
  ASSUME TypeOK, FetchInv, HandleNextUpdate
  PROVE  FetchInv'
<1>1. PICK e \in Event : e = updates[1] /\ Handle(e) /\ UNCHANGED requests
  BY HandlingQueue
<1>2. ASSUME NEW id \in fetching' \ failedFetches'
      PROVE  id \in fetching \ failedFetches /\ ~(e.type = "message" /\ e.id = id)
  BY <1>1, <1>2, EventFields DEF Handle, UpdateNewMessage, UpdateChatLastMessage,
     UpdateMessageSendSucceeded, IgnoreMessageSendFailed, UpdateDeleteMessages,
     OnGotChatHistory, OnGotMessage, OnGotMessageProperties, chatVars, AnswerEvent
<1>3. ASSUME NEW id \in fetching' \ failedFetches',
             NEW i \in DOMAIN updates, updates[i].type = "message", updates[i].id = id
      PROVE  \E j \in DOMAIN updates' : updates'[j].type = "message" /\ updates'[j].id = id
  BY <1>1, <1>2, <1>3, HandlingQueue
<1> QED BY <1>1, <1>2, <1>3 DEF FetchInv

\* A step of the page keeps FetchInv.
LEMMA PageFetch ==
  ASSUME TypeOK, FetchInv, Page
  PROVE  FetchInv'
<1> USE DEF chatVars
<1>1. /\ UNCHANGED failedFetches /\ DOMAIN updates' = DOMAIN updates
      /\ \A i \in DOMAIN updates : updates[i].type = "message" => updates'[i] = updates[i]
  BY PageSteps DEF SameButPurpose
<1>2. ASSUME NEW id \in Ids, [type |-> "message", id |-> id] \in requests
      PROVE  [type |-> "message", id |-> id] \in requests'
  <2>1. [type |-> "message", id |-> id] \in Outdate(requests)
    BY <1>2 DEF Outdate
  <2> QED BY <1>2, <2>1 DEF Page, ReadRow, FetchReply, LoadContextPermissions, FetchProperties,
             GetChatHistory, GetMore, Ask, ClearCachedHistory, ScrollToMessage
<1>3. \A id \in fetching' \ fetching : [type |-> "message", id |-> id] \in requests'
  BY DEF Page, ReadRow, FetchReply, LoadContextPermissions, GetChatHistory, GetMore, Ask,
         ClearCachedHistory, ScrollToMessage
<1> QED BY <1>1, <1>2, <1>3 DEF FetchInv, TypeOK

\* BlankRowsAreFetched: a blank row that data() believes to be on its way is, or its
\* getMessage failed.
THEOREM BlankRowsAreOnTheirWay == Spec => []BlankRowsAreFetched
<1>1. Init => FetchInv
  BY DEF Init, FetchInv
<1>2. TypeOK /\ TypeOK' /\ FetchInv /\ [Next]_vars => FetchInv'
  <2>1. ASSUME FetchInv, UNCHANGED vars
        PROVE  FetchInv'
    BY <2>1 DEF FetchInv, vars, chatVars, historyVars
  <2> QED BY <2>1, ServerFetch, HandlerFetch, PageFetch DEF Next
<1>3. FetchInv => BlankRowsAreFetched
  BY DEF FetchInv, BlankRowsAreFetched
<1> QED BY <1>1, <1>2, <1>3, TypeCorrect, PTL DEF Spec

\* While TDLib drops nothing from its memory, the message of a request for
\* properties is stored until it leaves the chat, and the message of an answer
\* until the answer is handled.
KnownInv ==
  evicted = {} =>
    /\ ~crashed
    /\ \A r \in requests : r.type = "properties" =>
         r.id < nextId /\ (r.id \in server => r.id \in Cached)
    /\ \A i \in DOMAIN updates :
         updates[i].type = "properties" /\ updates[i].ok =>
           /\ updates[i].id \in Cached
           /\ \A j \in DOMAIN updates : j < i => ~Removes(updates[j], updates[i].id)

\* A step of TDLib keeps KnownInv.
LEMMA ServerKnown ==
  ASSUME TypeOK, TypeOK', RowsInv, LiveInv, KnownInv, TDLib
  PROVE  KnownInv'
<1> SUFFICES ASSUME evicted' = {}
             PROVE  KnownInv'
  BY DEF KnownInv
<1>1. UNCHANGED crashed /\ Cached' = Cached
  BY ServerSteps DEF chatVars, Cached
<1>2. PICK e \in Event, changed \in BOOLEAN :
        Posts(e, changed) /\ (Arrives(e) \/ Moves(e) \/ Leaves(e) \/ Drops(e) \/ Answers(e))
  BY ServerSteps
<1>3. /\ requests' \subseteq requests /\ server' \subseteq server \cup {nextId}
      /\ nextId \in Int /\ nextId' \in {nextId, nextId + 1}
      /\ DOMAIN updates = 1 .. Len(updates) /\ Len(updates) \in Nat
  BY <1>2, PostedNames, QueueType DEF Arrives, Moves, Leaves, Drops, Answers
<1>4. evicted = {} /\ KnownInv
  BY <1>2 DEF Arrives, Moves, Leaves, Drops, Answers, historyVars
<1>5. ASSUME NEW r \in requests', r.type = "properties"
      PROVE  r.id < nextId' /\ (r.id \in server' => r.id \in Cached')
  <2>1. r.id \in Ids
    BY <1>3, <1>5 DEF TypeOK, Request, HistoryRequest, IdRequest
  <2> QED BY <1>1, <1>3, <1>4, <1>5, <2>1 DEF KnownInv, Ids
<1>6. ASSUME NEW i \in DOMAIN updates', updates'[i].type = "properties", updates'[i].ok
      PROVE  /\ updates'[i].id \in Cached'
             /\ \A j \in DOMAIN updates' : j < i => ~Removes(updates'[j], updates'[i].id)
  <2>1. CASE i \in DOMAIN updates /\ updates'[i] = updates[i]
    <3>1. \A j \in DOMAIN updates' : j < i => j \in DOMAIN updates /\ updates'[j] = updates[j]
      BY <1>2, <1>3, <2>1, PostedAt
    <3> QED BY <1>1, <1>4, <1>6, <2>1, <3>1 DEF KnownInv
  <2>2. CASE i = Len(updates) + 1 /\ updates'[i] = e
    <3>1. e.type = "properties" /\ e.ok
      BY <1>6, <2>2
    <3>2. PICK r \in requests : e.type = r.type /\ (r.type # "history" => e.id = r.id /\ (e.ok => e.id \in server))
      BY <1>2, <3>1 DEF Arrives, Moves, Leaves, Drops, Answers
    <3>3. e.id \in server /\ e.id \in Cached /\ e.id \in Ids
      BY <1>4, <3>1, <3>2 DEF KnownInv, TypeOK
    <3>4. \A j \in DOMAIN updates' : j < i => j \in DOMAIN updates /\ updates'[j] = updates[j]
      BY <1>2, <1>3, <2>2, PostedAt
    <3> QED BY <1>1, <2>2, <3>3, <3>4 DEF LiveInv, RemovedInv
  <2>3. updates'[i].type # "lastMessage"
    BY <1>6
  <2> QED BY <1>2, <2>1, <2>2, <2>3, PostedAt
<1> QED BY <1>1, <1>4, <1>5, <1>6 DEF KnownInv

\* A handler forgets a message only if its event takes the id away, or TDLib
\* dropped it.
LEMMA HandlerKeeps ==
  ASSUME TypeOK, NEW e \in Event, SoundEvent(e), Handle(e), NEW k \in Cached
  PROVE  k \in Cached' \/ Removes(e, k) \/ k \in evicted
<1>1. CASE UpdateMessageSendSucceeded(e)
  <2>1. Cached' = Cached \/ Cached' = (Cached \ {e.old}) \cup {e.id}
    BY <1>1 DEF UpdateMessageSendSucceeded, OnMessageIdChanged, Cached
  <2> QED BY <1>1, <2>1 DEF UpdateMessageSendSucceeded, Removes
<1>2. CASE UpdateDeleteMessages(e)
  <2>1. Cached \ {e.id} \subseteq Cached' /\ e.type = "delete" /\ e.fromCache \in BOOLEAN
    BY <1>2, EventFields DEF UpdateDeleteMessages, Cached, Restrict, DeleteEvent
  <2> QED BY <2>1 DEF SoundEvent, Removes
<1>3. CASE ~UpdateMessageSendSucceeded(e) /\ ~UpdateDeleteMessages(e)
  BY <1>3 DEF Handle, UpdateNewMessage, UpdateChatLastMessage, SetLastMessage, NewMessage,
     IgnoreMessageSendFailed, OnGotChatHistory, OnGotMessage, OnGotMessageProperties,
     chatVars, Cached
<1> QED BY <1>1, <1>2, <1>3

\* Every event handler keeps KnownInv.
LEMMA HandlerKnown ==
  ASSUME TypeOK, TypeOK', RowsInv, LiveInv, KnownInv, HandleNextUpdate
  PROVE  KnownInv'
<1>1. PICK e \in Event : /\ e = updates[1] /\ Handle(e)
                         /\ UNCHANGED <<requests, server, nextId, evicted>>
  BY HandlingQueue
<1>2. 1 \in DOMAIN updates /\ SoundEvent(e)
  BY <1>1, HandlingQueue DEF RowsInv
<1> SUFFICES ASSUME evicted = {}
             PROVE  KnownInv'
  BY <1>1 DEF KnownInv
<1>3. ~crashed'
  <2>1. CASE OnGotMessageProperties(e)
    BY <1>1, <1>2, <2>1 DEF KnownInv, OnGotMessageProperties
  <2> QED BY <1>1, <2>1 DEF KnownInv, Handle, UpdateNewMessage, UpdateChatLastMessage,
       UpdateMessageSendSucceeded, IgnoreMessageSendFailed, UpdateDeleteMessages,
       OnGotChatHistory, OnGotMessage, chatVars
<1>4. \A k \in Cached : k \in Cached' \/ Removes(e, k)
  BY <1>1, <1>2, HandlerKeeps
<1>5. ASSUME NEW r \in requests', r.type = "properties"
      PROVE  r.id < nextId' /\ (r.id \in server' => r.id \in Cached')
  <2>1. r.id \in Ids
    BY <1>1, <1>5 DEF TypeOK, Request, HistoryRequest, IdRequest
  <2>2. r.id \in server => ~Removes(e, r.id)
    BY <1>1, <1>2, <2>1 DEF LiveInv, RemovedInv
  <2> QED BY <1>1, <1>4, <1>5, <2>2 DEF KnownInv
<1>6. ASSUME NEW i \in DOMAIN updates', updates'[i].type = "properties", updates'[i].ok
      PROVE  /\ updates'[i].id \in Cached'
             /\ \A j \in DOMAIN updates' : j < i => ~Removes(updates'[j], updates'[i].id)
  <2>1. i + 1 \in DOMAIN updates /\ 1 < i + 1 /\ updates'[i] = updates[i + 1]
    BY HandlingQueue
  <2>2. \A j \in DOMAIN updates' :
          j + 1 \in DOMAIN updates /\ updates'[j] = updates[j + 1] /\ (j < i => j + 1 < i + 1)
    BY HandlingQueue
  <2>3. /\ updates[i + 1].id \in Cached
        /\ \A j \in DOMAIN updates : j < i + 1 => ~Removes(updates[j], updates[i + 1].id)
    BY <1>6, <2>1 DEF KnownInv
  <2> QED BY <1>1, <1>2, <1>4, <2>1, <2>2, <2>3
<1> QED BY <1>3, <1>5, <1>6 DEF KnownInv

\* A step of the page keeps KnownInv: it asks for properties of a stored message.
LEMMA PageKnown ==
  ASSUME TypeOK, RowsInv, ObjectsInv, KnownInv, Page
  PROVE  KnownInv'
<1> USE DEF chatVars
<1>1. /\ UNCHANGED <<crashed, server, nextId, evicted>> /\ Cached' = Cached
      /\ DOMAIN updates' = DOMAIN updates
      /\ \A i \in DOMAIN updates :
           updates[i].type = updates'[i].type /\ (updates[i].type # "history" => updates'[i] = updates[i])
  BY PageSteps DEF SameButPurpose, Cached
<1>2. \A i \in DOMAIN updates : \A id : Removes(updates'[i], id) <=> Removes(updates[i], id)
  BY PageSteps DEF SameButPurpose, Removes
<1>3. ASSUME NEW r \in requests', r.type = "properties"
      PROVE  \/ r \in requests
             \/ r.id \in Cached /\ r.id < nextId
  <2>1. CASE r \in Outdate(requests)
    <3>1. \A q \in requests : q.type = "history" => [q EXCEPT !.purpose = "open"].type = "history"
      BY DEF TypeOK, Request, HistoryRequest, IdRequest
    <3> QED BY <1>3, <2>1, <3>1 DEF Outdate
  <2>2. ASSUME NEW id \in Ids, LoadContextPermissions(id)
        PROVE  r \in requests \/ (r.id \in Cached /\ r.id < nextId)
    <3>1. messages[id] = id /\ id < nextId /\ id \in Cached
      BY <2>2 DEF LoadContextPermissions, ObjectsInv, RowShowsItsMessage, RowsInv, Shown
    <3> QED BY <1>3, <2>2, <3>1 DEF LoadContextPermissions, FetchProperties, Ask
  <2>3. ASSUME NEW id \in Ids, ReadRow(id) \/ FetchReply(id)
        PROVE  r \in requests
    BY <1>3, <2>3 DEF ReadRow, FetchReply, Ask
  <2>4. ASSUME NEW from \in Ids \cup {NoId}, GetChatHistory(from) \/ GetMore(from)
        PROVE  r \in requests
    BY <1>3, <2>4 DEF GetChatHistory, GetMore, Ask
  <2>5. CASE ClearCachedHistory
    BY <2>1, <2>5 DEF ClearCachedHistory
  <2>6. ASSUME NEW id \in Ids, ScrollToMessage(id)
        PROVE  r \in Outdate(requests)
    BY <1>3, <2>6 DEF ScrollToMessage
  <2>7. Oldest(Shown) \in Ids \cup {NoId} /\ LatestMessageId \in Ids \cup {NoId}
    BY WindowEndsType DEF Shown, LatestMessageId
  <2> QED BY <2>1, <2>2, <2>3, <2>4, <2>5, <2>6, <2>7 DEF Page
<1> QED BY <1>1, <1>2, <1>3 DEF KnownInv

\* PropertiesFindMessage: an answer with message properties finds its message, unless
\* TDLib dropped one from its memory.
THEOREM PropertiesAreSafe == Spec => []PropertiesFindMessage
<1>1. Init => KnownInv
  BY DEF Init, KnownInv
<1>2. TypeOK /\ TypeOK' /\ RowsInv /\ ObjectsInv /\ LiveInv /\ KnownInv /\ [Next]_vars => KnownInv'
  <2>1. ASSUME KnownInv, UNCHANGED vars
        PROVE  KnownInv'
    BY <2>1 DEF KnownInv, Removes, Cached, vars, chatVars, serverVars, historyVars
  <2> QED BY <2>1, ServerKnown, HandlerKnown, PageKnown DEF Next
<1>3. KnownInv => PropertiesFindMessage
  BY DEF KnownInv, PropertiesFindMessage
<1> QED BY <1>1, <1>2, <1>3, TypeCorrect, RowsInvariant, ObjectsInvariant, LiveInvariant, PTL
       DEF Spec
-----------------------------------------------------------------------------
(* The last message.                                                       *)

\* The newest id of a set, by what tells it from the others.
LEMMA NewestIs ==
  ASSUME NEW S \in SUBSET Ids
  PROVE  /\ Newest({}) = NoId
         /\ S # {} => Newest(S) \in S /\ \A x \in S : x <= Newest(S)
         /\ \A m \in S : (\A x \in S : x <= m) => Newest(S) = m
<1>1. ASSUME NEW m \in S, \A x \in S : x <= m
      PROVE  \A y \in S : (\A x \in S : x <= y) => y = m
  BY <1>1 DEF Ids
<1>2. S # {} => Newest(S) \in S /\ \A x \in S : x <= Newest(S)
  BY NewestExists DEF Newest
<1>3. Newest({}) = NoId
  BY DEF Newest
<1> QED BY <1>1, <1>2, <1>3

\* The chat takes m for its last message.
Agrees(m) == lastMessageId = m \/ (lastMessageId \in Cached /\ messages[lastMessageId] = m)

\* The j-th event announces the last message.
IsLast(j) == updates[j].type = "lastMessage"
\* The same, once the events before the n-th are handled.
AgreesAt(n, m) ==
  \/ \E j \in DOMAIN updates : /\ j < n /\ IsLast(j) /\ updates[j].id = m
                               /\ \A k \in DOMAIN updates : j < k /\ k < n => ~IsLast(k)
  \/ Agrees(m) /\ \A j \in DOMAIN updates : j < n => ~IsLast(j)

\* When a new message is handled the chat takes for its last message the one that
\* it comes after, and in the end TDLib's; in between a message may have moved
\* to its final id, which the next event tells.
LastInv ==
  /\ \A i \in DOMAIN updates :
       updates[i].type = "sendSucceeded" => i + 1 \in DOMAIN updates /\ IsLast(i + 1)
  /\ \A i \in DOMAIN updates :
       updates[i].type = "newMessage" /\ updates[i].prev # NoId => AgreesAt(i, updates[i].prev)
  /\ server # {} => AgreesAt(Len(updates) + 1, Newest(server))

\* A step of TDLib keeps LastInv: it announces the last message whenever it changes.
LEMMA ServerLast ==
  ASSUME TypeOK, TypeOK', LastInv, TDLib
  PROVE  LastInv'
<1>1. UNCHANGED <<messages, lastMessageId>> /\ Cached' = Cached
  BY ServerSteps DEF chatVars, Cached
<1>2. PICK e \in Event, changed \in BOOLEAN :
        /\ Posts(e, changed)
        /\ \/ changed /\ (Arrives(e) \/ Moves(e))
           \/ (changed \/ e.id # Newest(server)) /\ Leaves(e)
           \/ ~changed /\ (Drops(e) \/ Answers(e))
  BY ServerSteps
<1>3. /\ \A i \in DOMAIN updates : i \in DOMAIN updates' /\ updates'[i] = updates[i]
      /\ Len(updates) + 1 \in DOMAIN updates' /\ updates'[Len(updates) + 1] = e
      /\ DOMAIN updates = 1 .. Len(updates) /\ Len(updates) \in Nat
      /\ DOMAIN updates' = 1 .. Len(updates') /\ DOMAIN updates' \subseteq Nat
  BY <1>2, PostedBehind, QueueType, LenProperties DEF TypeOK
<1>4. e.type # "lastMessage"
  BY <1>2 DEF Arrives, Moves, Leaves, Drops, Answers, TypeOK, Request, HistoryRequest, IdRequest
<1>5. ASSUME NEW n \in 1 .. Len(updates) + 1, NEW m, AgreesAt(n, m)
      PROVE  AgreesAt(n, m)'
  <2>1. \A j \in DOMAIN updates' : j < n => j \in DOMAIN updates
    BY <1>3
  <2>2. \A j \in DOMAIN updates : IsLast(j)' <=> IsLast(j)
    BY <1>3 DEF IsLast
  <2>3. CASE Agrees(m) /\ \A j \in DOMAIN updates : j < n => ~IsLast(j)
    BY <1>1, <2>1, <2>2, <2>3 DEF AgreesAt, Agrees
  <2>4. CASE \E j \in DOMAIN updates : /\ j < n /\ IsLast(j) /\ updates[j].id = m
                                       /\ \A k \in DOMAIN updates : j < k /\ k < n => ~IsLast(k)
    BY <1>3, <2>1, <2>2, <2>4 DEF AgreesAt
  <2> QED BY <1>5, <2>3, <2>4 DEF AgreesAt
<1>6. ASSUME NEW i \in DOMAIN updates', updates'[i].type = "sendSucceeded"
      PROVE  i + 1 \in DOMAIN updates' /\ IsLast(i + 1)'
  <2>1. CASE i \in DOMAIN updates /\ updates'[i] = updates[i]
    BY <1>3, <1>6, <2>1 DEF LastInv, IsLast
  <2>2. CASE i = Len(updates) + 1 /\ updates'[i] = e
    <3>1. changed
      BY <1>2, <1>6, <2>2 DEF Arrives, Moves, Leaves, Drops, Answers, TypeOK,
           Request, HistoryRequest, IdRequest
    <3>2. i + 1 = Len(updates) + 2 /\ Len(updates') = Len(updates) + 2
      BY <1>2, <1>3, <2>2, <3>1 DEF Posts
    <3> QED BY <1>2, <1>3, <3>1, <3>2 DEF Posts, IsLast
  <2> QED BY <1>2, <1>6, <2>1, <2>2, PostedAt
<1>7. ASSUME NEW i \in DOMAIN updates', updates'[i].type = "newMessage", updates'[i].prev # NoId
      PROVE  AgreesAt(i, updates[i].prev)'
  <2>1. CASE i \in DOMAIN updates /\ updates'[i] = updates[i]
    <3>1. AgreesAt(i, updates[i].prev) /\ i \in 1 .. Len(updates) + 1
      BY <1>3, <1>7, <2>1 DEF LastInv
    <3>2. AgreesAt(i, updates[i].prev)'
      <4>1. PICK m : m = updates[i].prev
        OBVIOUS
      <4>2. AgreesAt(i, m)'
        BY <1>5, <3>1, <4>1
      <4> QED BY <2>1, <4>1, <4>2
    <3> QED BY <3>2
  <2>2. CASE i = Len(updates) + 1 /\ updates'[i] = e
    <3>1. e.prev = Newest(server) /\ e.prev # NoId
      BY <1>2, <1>7, <2>2 DEF Arrives, Moves, Leaves, Drops, Answers, TypeOK,
           Request, HistoryRequest, IdRequest
    <3>2. AgreesAt(i, Newest(server))
      BY <2>2, <3>1, NewestIs DEF LastInv, TypeOK
    <3>3. PICK m : m = Newest(server)
      OBVIOUS
    <3>4. AgreesAt(i, m)' /\ m = updates'[i].prev
      BY <1>3, <1>5, <2>2, <3>1, <3>2, <3>3
    <3> QED BY <3>4
  <2> QED BY <1>2, <1>7, <2>1, <2>2, PostedAt
<1>8. ASSUME server' # {}
      PROVE  AgreesAt(Len(updates) + 1, Newest(server))'
  <2>1. CASE changed
    <3> DEFINE j == Len(updates) + 2
    <3>1. /\ Len(updates') = j /\ j \in DOMAIN updates'
          /\ updates'[j] = [type |-> "lastMessage", id |-> Newest(server')]
      BY <1>2, <1>3, <2>1 DEF Posts
    <3>2. j < Len(updates') + 1 /\ ~\E k \in DOMAIN updates' : j < k
      BY <1>3, <3>1
    <3> HIDE DEF j
    <3> QED BY <3>1, <3>2 DEF AgreesAt, IsLast
  <2>2. CASE ~changed
    <3>1. server # {} /\ Newest(server') = Newest(server)
      <4>1. CASE UNCHANGED server
        BY <1>8, <4>1
      <4>2. CASE Leaves(e) /\ e.id # Newest(server)
        <5>1. server \in SUBSET Ids /\ server' \in SUBSET Ids /\ server' = server \ {e.id}
          BY <4>2 DEF TypeOK, Leaves
        <5>2. Newest(server) \in server' /\ \A x \in server' : x <= Newest(server)
          BY <1>8, <4>2, <5>1, NewestIs
        <5> QED BY <5>1, <5>2, NewestIs
      <4> QED BY <1>2, <2>2, <4>1, <4>2 DEF Drops, Answers
    <3>2. PICK m : m = Newest(server)
      OBVIOUS
    <3>3. AgreesAt(Len(updates) + 1, m) /\ Len(updates) + 1 \in 1 .. Len(updates) + 1
      BY <1>3, <3>1, <3>2 DEF LastInv
    <3>4. AgreesAt(Len(updates) + 1, m)'
      <4>1. PICK n : n = Len(updates) + 1
        OBVIOUS
      <4>2. AgreesAt(n, m)'
        BY <1>5, <3>3, <4>1
      <4>3. n = Len(updates') /\ n \in DOMAIN updates' /\ ~IsLast(n)' /\ n \in Nat
        BY <1>2, <1>3, <1>4, <2>2, <4>1 DEF Posts, IsLast
      <4>4. \A k \in DOMAIN updates' : k < n + 1 => k < n \/ k = n
        BY <1>3, <4>3
      <4>5. \A k \in DOMAIN updates' : k < n => k < n + 1
        BY <1>3, <4>3
      <4> HIDE DEF IsLast
      <4>6. AgreesAt(n + 1, m)'
        BY <4>2, <4>3, <4>4, <4>5 DEF AgreesAt
      <4> QED BY <4>3, <4>6
    <3> QED BY <3>1, <3>2, <3>4
  <2> QED BY <2>1, <2>2
<1> QED BY <1>6, <1>7, <1>8 DEF LastInv

\* Only the announcement of a last message, and of a new id, change what the chat
\* takes for its last message.
LEMMA HandlerAgrees ==
  ASSUME TypeOK, ObjectsInv, 1 \in DOMAIN updates, NEW e \in Event, e = updates[1], Handle(e),
         e.type \notin {"sendSucceeded", "lastMessage"}, NEW m, Agrees(m)
  PROVE  Agrees(m)'
<1>1. UNCHANGED lastMessageId
  BY DEF Handle, UpdateNewMessage, UpdateChatLastMessage, UpdateMessageSendSucceeded,
     IgnoreMessageSendFailed, UpdateDeleteMessages, OnGotChatHistory, OnGotMessage,
     OnGotMessageProperties, chatVars
<1>2. CASE lastMessageId = m
  BY <1>1, <1>2 DEF Agrees
<1>3. CASE lastMessageId # m /\ lastMessageId \in Cached /\ messages[lastMessageId] = m
  <2>1. lastMessageId \notin Names(e)
    BY <1>3 DEF ObjectsInv
  <2>2. lastMessageId \in Cached' /\ messages'[lastMessageId] = m
    <3>1. CASE UpdateDeleteMessages(e)
      <4>1. lastMessageId # e.id
        BY <2>1, <3>1 DEF Names, UpdateDeleteMessages
      <4> QED BY <1>3, <3>1, <4>1 DEF UpdateDeleteMessages, Cached, Restrict
    <3>2. CASE ~UpdateDeleteMessages(e)
      BY <1>3, <3>2 DEF Handle, UpdateNewMessage, UpdateChatLastMessage, NewMessage,
         UpdateMessageSendSucceeded, IgnoreMessageSendFailed, OnGotChatHistory, OnGotMessage,
         OnGotMessageProperties, chatVars, Cached
    <3> QED BY <3>1, <3>2
  <2> QED BY <1>1, <2>2 DEF Agrees
<1> QED BY <1>2, <1>3 DEF Agrees

\* Every event handler keeps LastInv.
LEMMA HandlerLast ==
  ASSUME TypeOK, TypeOK', ObjectsInv, LastInv, HandleNextUpdate
  PROVE  LastInv'
<1>1. PICK e \in Event : e = updates[1] /\ Handle(e) /\ UNCHANGED server
  BY HandlingQueue
<1>2. /\ 1 \in DOMAIN updates /\ DOMAIN updates = 1 .. Len(updates) /\ Len(updates) \in Nat
      /\ DOMAIN updates' = 1 .. Len(updates) - 1 /\ Len(updates') = Len(updates) - 1
      /\ \A i \in DOMAIN updates' : i + 1 \in DOMAIN updates /\ updates'[i] = updates[i + 1]
      /\ \A i \in DOMAIN updates \ {1} : i - 1 \in DOMAIN updates' /\ updates'[i - 1] = updates[i]
  BY HandlingQueue
<1>3. \A j \in DOMAIN updates' : IsLast(j)' <=> IsLast(j + 1)
  BY <1>2 DEF IsLast
<1>4. ASSUME NEW m, m # NoId, e.type = "lastMessage", e.id = m
      PROVE  Agrees(m)'
  <2>1. UpdateChatLastMessage(e)
    BY <1>1, <1>4 DEF Handle, UpdateNewMessage, UpdateMessageSendSucceeded,
       IgnoreMessageSendFailed, UpdateDeleteMessages, OnGotChatHistory, OnGotMessage,
       OnGotMessageProperties
  <2> QED BY <1>4, <2>1 DEF UpdateChatLastMessage, SetLastMessage, Agrees, Cached
<1>5. ASSUME NEW n \in 1 .. Len(updates), NEW m, m # NoId, AgreesAt(n + 1, m),
             e.type = "sendSucceeded" => n > 1
      PROVE  AgreesAt(n, m)'
  <2>1. CASE \E j \in DOMAIN updates : /\ j < n + 1 /\ j # 1 /\ IsLast(j) /\ updates[j].id = m
                                       /\ \A k \in DOMAIN updates : j < k /\ k < n + 1 => ~IsLast(k)
    <3>1. PICK j \in DOMAIN updates : /\ j < n + 1 /\ j # 1 /\ IsLast(j) /\ updates[j].id = m
                                      /\ \A k \in DOMAIN updates : j < k /\ k < n + 1 => ~IsLast(k)
      BY <2>1
    <3>2. j - 1 \in DOMAIN updates' /\ updates'[j - 1] = updates[j] /\ j - 1 < n /\ (j - 1) + 1 = j
      BY <1>2, <3>1
    <3>3. IsLast(j - 1)' /\ updates'[j - 1].id = m
      BY <1>3, <3>1, <3>2
    <3>4. \A k \in DOMAIN updates' : j - 1 < k /\ k < n => ~IsLast(k)'
      BY <1>2, <1>3, <3>1
    <3> QED BY <3>2, <3>3, <3>4 DEF AgreesAt
  <2>2. CASE /\ \A k \in DOMAIN updates : 1 < k /\ k < n + 1 => ~IsLast(k)
             /\ \/ e.type = "lastMessage" /\ e.id = m
                \/ Agrees(m) /\ ~IsLast(1)
    <3>1. \A k \in DOMAIN updates' : k < n => ~IsLast(k)'
      BY <1>2, <1>3, <2>2
    <3>2. e.type # "sendSucceeded"
      <4>1. CASE e.type = "sendSucceeded"
        <5>1. 2 \in DOMAIN updates /\ IsLast(2) /\ 1 < 2 /\ 2 < n + 1
          BY <1>1, <1>2, <1>5, <4>1 DEF LastInv
        <5> QED BY <2>2, <5>1
      <4> QED BY <4>1
    <3>3. Agrees(m)'
      BY <1>1, <1>2, <1>4, <1>5, <2>2, <3>2, HandlerAgrees DEF IsLast
    <3> QED BY <3>1, <3>3 DEF AgreesAt
  <2>3. 1 < n + 1 /\ e = updates[1]
    BY <1>1, <1>2
  <2>4. CASE \E j \in DOMAIN updates : /\ j < n + 1 /\ IsLast(j) /\ updates[j].id = m
                                       /\ \A k \in DOMAIN updates : j < k /\ k < n + 1 => ~IsLast(k)
    <3>1. PICK j \in DOMAIN updates : /\ j < n + 1 /\ IsLast(j) /\ updates[j].id = m
                                      /\ \A k \in DOMAIN updates : j < k /\ k < n + 1 => ~IsLast(k)
      BY <2>4
    <3>2. CASE j # 1
      BY <2>1, <3>1, <3>2
    <3>3. CASE j = 1
      BY <2>2, <2>3, <3>1, <3>3 DEF IsLast
    <3> QED BY <3>2, <3>3
  <2>5. CASE Agrees(m) /\ \A j \in DOMAIN updates : j < n + 1 => ~IsLast(j)
    BY <1>2, <2>2, <2>3, <2>5
  <2> QED BY <1>5, <2>4, <2>5 DEF AgreesAt
<1>6. ASSUME NEW i \in DOMAIN updates', updates'[i].type = "sendSucceeded"
      PROVE  i + 1 \in DOMAIN updates' /\ IsLast(i + 1)'
  <2>1. i + 1 \in DOMAIN updates /\ (i + 1) + 1 \in DOMAIN updates /\ IsLast((i + 1) + 1)
    BY <1>2, <1>6 DEF LastInv
  <2> QED BY <1>2, <1>3, <2>1
<1>7. ASSUME NEW i \in DOMAIN updates', updates'[i].type = "newMessage", updates'[i].prev # NoId
      PROVE  AgreesAt(i, updates[i].prev)'
  <2>1. PICK m : m = updates'[i].prev
    OBVIOUS
  <2>2. i \in 1 .. Len(updates) /\ m # NoId /\ AgreesAt(i + 1, m)
    BY <1>2, <1>7, <2>1 DEF LastInv
  <2>3. e.type = "sendSucceeded" => i > 1
    <3>1. CASE e.type = "sendSucceeded"
      <4>1. IsLast(1 + 1)
        BY <1>1, <1>2, <3>1 DEF LastInv
      <4>2. ~IsLast(i + 1)
        BY <1>2, <1>7 DEF IsLast
      <4> QED BY <1>2, <4>1, <4>2
    <3> QED BY <3>1
  <2>4. AgreesAt(i, m)'
    BY <1>5, <2>2, <2>3
  <2> QED BY <2>1, <2>4
<1>8. ASSUME server' # {}
      PROVE  AgreesAt(Len(updates) + 1, Newest(server))'
  <2>1. PICK m : m = Newest(server)
    OBVIOUS
  <2>2. PICK n : n = Len(updates)
    OBVIOUS
  <2>3. n \in 1 .. Len(updates) /\ m # NoId /\ AgreesAt(n + 1, m)
    <3>1. Newest(server) \in Ids
      BY <1>1, <1>8, NewestIs DEF TypeOK
    <3>2. m # NoId
      BY <2>1, <3>1 DEF Ids, NoId
    <3>3. AgreesAt(n + 1, m)
      BY <1>1, <1>8, <2>1, <2>2 DEF LastInv
    <3> QED BY <1>2, <2>2, <3>2, <3>3
  <2>4. e.type = "sendSucceeded" => n > 1
    BY <1>1, <1>2, <2>2 DEF LastInv
  <2>5. AgreesAt(n, m)'
    BY <1>5, <2>3, <2>4
  <2>6. n = Len(updates') + 1 /\ m = Newest(server')
    BY <1>1, <1>2, <2>1, <2>2
  <2> QED BY <2>5, <2>6
<1> QED BY <1>6, <1>7, <1>8 DEF LastInv

\* A step of the page keeps LastInv.
LEMMA PageLast ==
  ASSUME TypeOK, LastInv, Page
  PROVE  LastInv'
<1>1. /\ UNCHANGED <<messages, lastMessageId, server>> /\ Cached' = Cached
      /\ Len(updates') = Len(updates) /\ DOMAIN updates' = DOMAIN updates
      /\ \A i \in DOMAIN updates :
           updates[i].type = updates'[i].type /\ (updates[i].type # "history" => updates'[i] = updates[i])
  BY PageSteps DEF SameButPurpose, Cached
<1>2. \A n, m : AgreesAt(n, m) => AgreesAt(n, m)'
  BY <1>1 DEF AgreesAt, Agrees, IsLast
<1>3. ASSUME NEW i \in DOMAIN updates', updates'[i].type = "newMessage", updates'[i].prev # NoId
      PROVE  AgreesAt(i, updates[i].prev)'
  <2>1. PICK m : m = updates'[i].prev
    OBVIOUS
  <2>2. AgreesAt(i, m)
    BY <1>1, <1>3, <2>1 DEF LastInv
  <2>3. AgreesAt(i, m)'
    BY <1>2, <2>2
  <2> QED BY <2>1, <2>3
<1>4. ASSUME server' # {}
      PROVE  AgreesAt(Len(updates) + 1, Newest(server))'
  <2>1. PICK m, n : m = Newest(server) /\ n = Len(updates) + 1
    OBVIOUS
  <2>2. AgreesAt(n, m)
    BY <1>1, <1>4, <2>1 DEF LastInv
  <2>3. AgreesAt(n, m)'
    BY <1>2, <2>2
  <2> QED BY <1>1, <2>1, <2>3
<1> QED BY <1>1, <1>3, <1>4 DEF LastInv, IsLast

\* The inductive invariant of the last message.
THEOREM LastInvariant == Spec => []LastInv
<1>1. Init => LastInv
  BY DEF Init, LastInv
<1>2. TypeOK /\ TypeOK' /\ ObjectsInv /\ LastInv /\ [Next]_vars => LastInv'
  <2>1. ASSUME LastInv, UNCHANGED vars
        PROVE  LastInv'
    BY <2>1 DEF LastInv, AgreesAt, Agrees, IsLast, Cached, vars, chatVars, serverVars
  <2> QED BY <2>1, ServerLast, HandlerLast, PageLast DEF Next
<1> QED BY <1>1, <1>2, TypeCorrect, ObjectsInvariant, PTL DEF Spec

\* LastMessageAgrees: once every event is handled, the chat's last message is TDLib's.
THEOREM LastMessageIsRight == Spec => []LastMessageAgrees
<1>1. TypeOK /\ LastInv => LastMessageAgrees
  <2> SUFFICES ASSUME TypeOK, LastInv, updates = <<>>, server # {}
               PROVE  Agrees(Newest(server))
    BY DEF LastMessageAgrees, Agrees
  <2>1. AgreesAt(Len(updates) + 1, Newest(server)) /\ DOMAIN updates = {}
    BY DEF LastInv
  <2> QED BY <2>1 DEF AgreesAt
<1> QED BY <1>1, TypeCorrect, LastInvariant, PTL

\* FollowsNewMessages: a page that shows the end of the chat shows a new message.
THEOREM PageFollows == Spec => FollowsNewMessages
<1> DEFINE Follows ==
      \A e \in {updates[i] : i \in DOMAIN updates \cap {1}} :
         (/\ updates' = Tail(updates)
          /\ e.type = "newMessage"
          /\ LatestMessageId = e.prev
          /\ (e.prev = NoId => lastMessageId = NoId)
          /\ (lastMessageId \in Cached => messages[lastMessageId] = lastMessageId))
         => rows'[e.id] > 0
<1>1. TypeOK /\ TypeOK' /\ LastInv /\ [Next]_vars => [Follows]_vars
  <2> SUFFICES ASSUME TypeOK, TypeOK', LastInv, Next,
                      NEW e \in Event, 1 \in DOMAIN updates, e = updates[1],
                      updates' = Tail(updates), e.type = "newMessage",
                      LatestMessageId = e.prev,
                      e.prev = NoId => lastMessageId = NoId,
                      lastMessageId \in Cached => messages[lastMessageId] = lastMessageId
               PROVE  rows'[e.id] > 0
    BY QueueType
  <2>1. Len(updates') < Len(updates)
    BY QueueType, HeadTailProperties, EmptySeq DEF TypeOK
  <2>2. ~TDLib /\ ~Page
    <3>1. ASSUME TDLib PROVE FALSE
      <4>1. PICK x \in Event, changed \in BOOLEAN : Posts(x, changed)
        BY <3>1, ServerSteps
      <4> QED BY <2>1, <4>1, QueueType DEF Posts
    <3>2. ASSUME Page PROVE FALSE
      <4>1. Len(updates') = Len(updates)
        BY <3>2, PageSteps
      <4>2. Len(updates) \in Nat
        BY QueueType
      <4> QED BY <2>1, <4>1, <4>2
    <3> QED BY <3>1, <3>2
  <2>3. HandleNextUpdate
    BY <2>2 DEF Next
  <2>4. NewMessage(e.id, LatestMessageId = lastMessageId) /\ e.id \in Ids
    BY <2>3, HandlingQueue, EventFields DEF Handle, UpdateNewMessage, UpdateChatLastMessage,
       UpdateMessageSendSucceeded, IgnoreMessageSendFailed, UpdateDeleteMessages,
       OnGotChatHistory, OnGotMessage, OnGotMessageProperties, NewMessageEvent
  <2>5. e.prev # NoId => AgreesAt(1, e.prev)
    BY DEF LastInv
  <2>6. e.prev # NoId => Agrees(e.prev)
    BY <2>5, QueueType DEF AgreesAt
  <2>7. LatestMessageId = lastMessageId
    BY <2>6 DEF Agrees
  <2> QED BY <2>4, <2>7 DEF NewMessage, TypeOK
<1> QED BY <1>1, TypeCorrect, LastInvariant, PTL DEF Spec, FollowsNewMessages
-----------------------------------------------------------------------------
(* The window of rows.                                                     *)

\* x is between two members of S.
Between(x, S) == \E a, b \in S : a <= x /\ x <= b

\* Between says the same as Within, of sets that need no ends.
LEMMA WithinIsBetween ==
  ASSUME NEW S \in SUBSET Ids, NEW x \in Ids
  PROVE  Within(x, S) <=> Between(x, S)
<1>1. CASE S = {}
  BY <1>1 DEF Within, Between, Oldest, Newest, Ids, NoId
<1>2. CASE S # {}
  <2>1. Newest(S) \in S /\ \A y \in S : y <= Newest(S)
    BY <1>2, NewestIs
  <2>2. Oldest(S) \in S /\ \A y \in S : Oldest(S) <= y
    <3>1. \E id \in S : \A y \in S : id <= y
      BY <1>2, OldestExists DEF Ids
    <3> QED BY <1>2, <3>1 DEF Oldest
  <2>3. PICK a \in S, b \in S : a = Oldest(S) /\ b = Newest(S)
    BY <2>1, <2>2
  <2>4. Within(x, S) => Between(x, S)
    BY <2>3 DEF Within, Between
  <2>5. ASSUME NEW c \in S, NEW d \in S, c <= x, x <= d
        PROVE  Within(x, S)
    <3>1. a <= c /\ d <= b
      BY <2>1, <2>2, <2>3
    <3>2. a \in Int /\ b \in Int /\ c \in Int /\ d \in Int /\ x \in Int
      BY DEF Ids
    <3>3. a <= x /\ x <= b
      BY <2>5, <3>1, <3>2
    <3> QED BY <2>3, <3>3 DEF Within
  <2> QED BY <2>4, <2>5 DEF Between
<1> QED BY <1>1, <1>2

\* A page leaves out no message of the chat between its messages, nor, if it
\* extends a window, between them and the row it was asked for at.
SoundPage(e) ==
  /\ e.purpose = "extend" => e.from # NoId
  /\ \A x \in server \ e.ids :
       /\ ~Between(x, e.ids)
       /\ e.purpose = "extend" /\ x # e.from => ~Between(x, e.ids \cup {e.from})

\* An event that announces an id comes before any other that carries a larger one,
\* and tells what is between that id and the ones before it.
OrderInv ==
  /\ \A r \in requests : r.type = "history" /\ r.purpose = "extend" => r.from # NoId
  /\ \A id \in ExtendedAt : id < nextId
  /\ \A i \in DOMAIN updates :
       /\ updates[i].type \in {"newMessage", "sendSucceeded"} =>
            /\ \A id \in Shown \cup ExtendedAt : id < updates[i].id
            /\ \A j \in DOMAIN updates : j < i => \A id \in Carried(updates[j]) : id < updates[i].id
       /\ updates[i].type = "newMessage" =>
            \A x \in server : x < updates[i].id => x <= updates[i].prev
       /\ updates[i].type = "sendSucceeded" =>
            \A x \in server : updates[i].old < x /\ x < updates[i].id => x \in updates[i].newer
       /\ updates[i].type = "history" => SoundPage(updates[i])

\* The window: no message is missing between any two of the rows and of the
\* places where pages under way will extend them.
WindowInv ==
  ~torn => \A x \in server : Between(x, Shown \cup ExtendedAt) => x \in Shown

\* The members of ExtendedAt.
LEMMA ExtendedIs ==
  \A id : id \in ExtendedAt <=>
     \/ \E r \in requests : r.type = "history" /\ r.purpose = "extend" /\ r.from = id
     \/ \E i \in DOMAIN updates :
          updates[i].type = "history" /\ updates[i].purpose = "extend" /\ updates[i].from = id
BY DEF ExtendedAt

\* A window is extended at an id.
LEMMA ExtendedType ==
  ASSUME TypeOK, OrderInv
  PROVE  ExtendedAt \subseteq Ids
<1> SUFFICES ASSUME NEW id \in ExtendedAt
             PROVE  id \in Ids
  OBVIOUS
<1>1. CASE \E r \in requests : r.type = "history" /\ r.purpose = "extend" /\ r.from = id
  BY <1>1 DEF OrderInv, TypeOK, Request, HistoryRequest, IdRequest
<1>2. ASSUME NEW i \in DOMAIN updates, updates[i].type = "history",
             updates[i].purpose = "extend", updates[i].from = id
      PROVE  id \in Ids
  <2>1. updates[i] \in HistoryEvent /\ SoundPage(updates[i])
    BY <1>2, QueueType, EventFields DEF OrderInv
  <2> QED BY <1>2, <2>1 DEF SoundPage, HistoryEvent
<1> QED BY <1>1, <1>2, ExtendedIs

\* A step of TDLib adds no place where the window is to be extended.
LEMMA ServerExtended ==
  ASSUME TypeOK, TypeOK', TDLib
  PROVE  ExtendedAt' \subseteq ExtendedAt
<1>1. PICK e \in Event, changed \in BOOLEAN :
        Posts(e, changed) /\ (Arrives(e) \/ Moves(e) \/ Leaves(e) \/ Drops(e) \/ Answers(e))
  BY ServerSteps
<1>2. requests' \subseteq requests
  BY <1>1 DEF Arrives, Moves, Leaves, Drops, Answers
<1>3. ASSUME NEW i \in DOMAIN updates', updates'[i].type = "history",
             updates'[i].purpose = "extend"
      PROVE  updates'[i].from \in ExtendedAt
  <2>1. CASE i \in DOMAIN updates /\ updates'[i] = updates[i]
    BY <1>3, <2>1, ExtendedIs
  <2>2. CASE updates'[i] = e
    <3>1. e.type = "history" /\ e.purpose = "extend"
      BY <1>3, <2>2
    <3>2. \E r \in requests : r.type = "history" /\ r.purpose = "extend" /\ r.from = e.from
      BY <1>1, <3>1 DEF Arrives, Moves, Leaves, Drops, Answers
    <3> QED BY <2>2, <3>2, ExtendedIs
  <2> QED BY <1>1, <1>3, <2>1, <2>2, PostedAt
<1> QED BY <1>2, <1>3, ExtendedIs DEF ExtendedAt

\* Nor does an event handler; a page that extends is handled at such a place.
LEMMA HandlerExtended ==
  ASSUME TypeOK, HandleNextUpdate
  PROVE  /\ ExtendedAt' \subseteq ExtendedAt
         /\ updates[1].type = "history" /\ updates[1].purpose = "extend" =>
              updates[1].from \in ExtendedAt
<1>1. /\ requests' = requests /\ 1 \in DOMAIN updates
      /\ \A i \in DOMAIN updates' : i + 1 \in DOMAIN updates /\ updates'[i] = updates[i + 1]
  BY HandlingQueue
<1>2. updates[1].type = "history" /\ updates[1].purpose = "extend" =>
        updates[1].from \in ExtendedAt
  BY <1>1, ExtendedIs
<1>3. \A id \in ExtendedAt' : id \in ExtendedAt
  BY <1>1, ExtendedIs DEF ExtendedAt
<1> QED BY <1>2, <1>3

\* The page asks for what extends the rows at one of them; rows that are cleared
\* are not extended.
LEMMA PageExtended ==
  ASSUME TypeOK, Page
  PROVE  /\ ExtendedAt' \subseteq ExtendedAt \cup Shown
         /\ UNCHANGED <<rows, torn>> \/ (Shown' = {} /\ ExtendedAt' = {})
         /\ \A r \in requests' : r.type = "history" /\ r.purpose = "extend" =>
              r \in requests \/ r.from \in Shown
<1> USE DEF chatVars
<1>1. ASSUME NEW q \in Outdate(requests)
      PROVE  q.type = "history" => q.purpose # "extend"
  <2>1. \A r \in requests : r.type = "history" => [r EXCEPT !.purpose = "open"].purpose = "open"
    BY DEF TypeOK, Request, HistoryRequest, IdRequest
  <2> QED BY <1>1, <2>1 DEF Outdate
<1>2. ASSUME rows' = NoRows, OutdateEvents,
             \A q \in requests' : q \in Outdate(requests) \/ (q.type = "history" => q.purpose = "open")
      PROVE  /\ Shown' = {} /\ ExtendedAt' = {}
             /\ \A r \in requests' : r.type = "history" => r.purpose # "extend"
  <2>1. \A r \in requests' : r.type = "history" => r.purpose # "extend"
    BY <1>1, <1>2
  <2>2. ASSUME NEW i \in DOMAIN updates', updates'[i].type = "history"
        PROVE  updates'[i].purpose # "extend"
    <3>1. i \in DOMAIN updates /\ updates[i] \in Event
      BY <1>2, <2>2, QueueType DEF OutdateEvents
    <3>2. CASE updates[i].type = "history"
      <4>1. updates[i] \in HistoryEvent /\ updates'[i] = [updates[i] EXCEPT !.purpose = "open"]
        BY <1>2, <3>1, <3>2, EventFields DEF OutdateEvents
      <4> QED BY <4>1 DEF HistoryEvent
    <3>3. CASE updates[i].type # "history"
      BY <1>2, <2>2, <3>1, <3>3 DEF OutdateEvents
    <3> QED BY <3>2, <3>3
  <2>3. ExtendedAt' = {}
    BY <2>1, <2>2 DEF ExtendedAt
  <2> QED BY <1>2, <2>1, <2>3 DEF Shown, NoRows
<1>3. ASSUME UNCHANGED <<rows, updates>>,
             \A r \in requests' : r.type = "history" /\ r.purpose = "extend" =>
               r \in requests \/ r.from \in Shown
      PROVE  ExtendedAt' \subseteq ExtendedAt \cup Shown
  BY <1>3 DEF ExtendedAt
<1> DEFINE Kept == /\ UNCHANGED <<rows, torn>>
                   /\ \A r \in requests' : r.type = "history" /\ r.purpose = "extend" =>
                        r \in requests \/ r.from \in Shown
<1>4. CASE ClearCachedHistory
  BY <1>2, <1>4 DEF ClearCachedHistory
<1>5. ASSUME NEW id \in Ids, ScrollToMessage(id)
      PROVE  /\ Shown' = {} /\ ExtendedAt' = {}
             /\ \A r \in requests' : r.type = "history" => r.purpose # "extend"
  BY <1>2, <1>5 DEF ScrollToMessage
<1>6. ASSUME NEW id \in Ids, ReadRow(id) \/ FetchReply(id) \/ LoadContextPermissions(id)
      PROVE  Kept
  BY <1>6 DEF ReadRow, FetchReply, LoadContextPermissions, FetchProperties, Ask
<1>7. ASSUME NEW from \in Ids \cup {NoId}, GetChatHistory(from)
      PROVE  Kept
  BY <1>7 DEF GetChatHistory, Ask
<1>8. ASSUME NEW from \in {Oldest(Shown), LatestMessageId}, GetMore(from)
      PROVE  Kept
  <2>1. Shown \in SUBSET Ids /\ Shown # {}
    BY <1>8 DEF GetMore, Shown
  <2>2. \E id \in Shown : \A y \in Shown : id <= y
    BY <2>1, OldestExists DEF Ids
  <2>3. from \in Shown
    BY <1>8, <2>1, <2>2, NewestIs DEF LatestMessageId, Oldest
  <2> QED BY <1>8, <2>3 DEF GetMore, Ask
<1> HIDE DEF Kept
<1>9. CASE ~ClearCachedHistory /\ ~\E id \in Ids : ScrollToMessage(id)
  <2>1. Kept /\ UNCHANGED updates
    BY <1>6, <1>7, <1>8, <1>9 DEF Page
  <2> QED BY <1>3, <2>1 DEF Kept
<1> QED BY <1>4, <1>2, <1>5, <1>9 DEF ClearCachedHistory

\* A step of TDLib keeps OrderInv: a message that arrives or moves gets the largest id.
LEMMA ServerOrder ==
  ASSUME TypeOK, TypeOK', RowsInv, OrderInv, TDLib
  PROVE  OrderInv'
<1>1. Shown' = Shown /\ ExtendedAt' \subseteq ExtendedAt
  BY ServerSteps, ServerExtended DEF chatVars, Shown
<1>2. PICK e \in Event, changed \in BOOLEAN :
        Posts(e, changed) /\ (Arrives(e) \/ Moves(e) \/ Leaves(e) \/ Drops(e) \/ Answers(e))
  BY ServerSteps
<1>3. /\ requests' \subseteq requests /\ server' \subseteq server \cup {nextId}
      /\ nextId \in Int /\ nextId' \in {nextId, nextId + 1}
      /\ DOMAIN updates = 1 .. Len(updates) /\ Len(updates) \in Nat
  BY <1>2, PostedNames, QueueType DEF Arrives, Moves, Leaves, Drops, Answers
<1>4. ExtendedAt \subseteq Ids /\ Shown \subseteq Ids
  BY ExtendedType DEF Shown
<1>5. \A id \in Shown \cup ExtendedAt \cup server : id \in Int /\ id < nextId
  BY <1>4 DEF RowsInv, OrderInv, Ids, TypeOK
<1>6. ASSUME NEW i \in DOMAIN updates, NEW u \in Event, u = updates[i]
      PROVE  \A id \in Carried(u) : id \in Int /\ id < nextId
  BY <1>6, CarriedIds DEF RowsInv, SoundEvent, Ids
<1>7. Answers(e) => e.type \notin {"newMessage", "sendSucceeded"}
  BY DEF Answers, TypeOK, Request, HistoryRequest, IdRequest
<1>8. ASSUME NEW i \in DOMAIN updates', updates'[i].type \in {"newMessage", "sendSucceeded"}
      PROVE  /\ \A id \in Shown' \cup ExtendedAt' : id < updates'[i].id
             /\ \A j \in DOMAIN updates' : j < i => \A id \in Carried(updates'[j]) : id < updates'[i].id
  <2>1. \A j \in DOMAIN updates' : j < i => j \in DOMAIN updates /\ updates'[j] = updates[j]
    BY <1>2, <1>3, <1>8, PostedAt
  <2>2. CASE i \in DOMAIN updates /\ updates'[i] = updates[i]
    BY <1>1, <1>8, <2>1, <2>2 DEF OrderInv
  <2>3. CASE updates'[i] = e
    <3>1. e.id = nextId
      BY <1>2, <1>7, <1>8, <2>3 DEF Arrives, Moves, Leaves, Drops
    <3>2. \A j \in DOMAIN updates' : j < i => \A id \in Carried(updates'[j]) : id < nextId
      BY <1>6, <2>1, QueueType
    <3> QED BY <1>1, <1>5, <2>3, <3>1, <3>2
  <2> QED BY <1>2, <1>8, <2>2, <2>3, PostedAt
<1>9. ASSUME NEW i \in DOMAIN updates', updates'[i].type = "newMessage",
             NEW x \in server', x < updates'[i].id
      PROVE  x <= updates'[i].prev
  <2>1. CASE i \in DOMAIN updates /\ updates'[i] = updates[i]
    <3>1. updates[i].id \in Int /\ updates[i].id < nextId
      BY <1>6, <1>9, <2>1, QueueType DEF Carried
    <3>2. x \in server
      BY <1>3, <1>9, <2>1, <3>1
    <3> QED BY <1>9, <2>1, <3>2 DEF OrderInv
  <2>2. CASE updates'[i] = e
    <3>1. Arrives(e)
      BY <1>2, <1>7, <1>9, <2>2 DEF Moves, Leaves, Drops
    <3>2. x \in server /\ server \in SUBSET Ids
      BY <1>3, <1>9, <2>2, <3>1 DEF Arrives, TypeOK
    <3> QED BY <2>2, <3>1, <3>2, NewestIs DEF Arrives
  <2> QED BY <1>2, <1>9, <2>1, <2>2, PostedAt
<1>10. ASSUME NEW i \in DOMAIN updates', updates'[i].type = "sendSucceeded",
              NEW x \in server', updates'[i].old < x, x < updates'[i].id
       PROVE  x \in updates'[i].newer
  <2>1. CASE i \in DOMAIN updates /\ updates'[i] = updates[i]
    <3>1. updates[i].id \in Int /\ updates[i].id < nextId
      BY <1>6, <1>10, <2>1, QueueType DEF Carried
    <3>2. x \in server
      BY <1>3, <1>10, <2>1, <3>1
    <3> QED BY <1>10, <2>1, <3>2 DEF OrderInv
  <2>2. CASE updates'[i] = e
    <3>0. e.type = "sendSucceeded"
      BY <1>10, <2>2
    <3>1. Moves(e)
      BY <1>2, <1>7, <3>0 DEF Arrives, Leaves, Drops
    <3>2. e.old \in server /\ e.id = nextId
      BY <3>1 DEF Moves, TypeOK
    <3>3. e.old < x /\ x < nextId
      BY <1>10, <2>2, <3>2
    <3>4. x \in server
      BY <1>3, <1>10, <3>3
    <3>5. x > e.old
      BY <1>5, <3>2, <3>3, <3>4
    <3> QED BY <2>2, <3>1, <3>4, <3>5 DEF Moves
  <2> QED BY <1>2, <1>10, <2>1, <2>2, PostedAt
<1>11. ASSUME NEW u \in Event, u.type = "history", SoundPage(u),
              \A id \in u.ids : id < nextId, u.purpose = "extend" => u.from < nextId
       PROVE  SoundPage(u)'
  <2>1. u.ids \subseteq Ids /\ u.from \in Ids \cup {NoId}
    BY <1>11, EventFields DEF HistoryEvent
  <2>2. ~Between(nextId, u.ids) /\ (u.purpose = "extend" => ~Between(nextId, u.ids \cup {u.from}))
    BY <1>3, <1>11, <2>1 DEF Between, Ids, NoId
  <2> QED BY <1>3, <1>11, <2>2 DEF SoundPage, Between
<1>12. ASSUME NEW i \in DOMAIN updates', updates'[i].type = "history"
       PROVE  SoundPage(updates[i])'
  <2>1. CASE i \in DOMAIN updates /\ updates'[i] = updates[i]
    <3>1. PICK u \in Event : u = updates[i]
      BY <2>1, QueueType
    <3>2. SoundPage(u) /\ u.type = "history"
      BY <1>12, <2>1, <3>1 DEF OrderInv
    <3>3. \A id \in u.ids : id < nextId
      BY <1>6, <2>1, <3>1, <3>2 DEF Carried
    <3>4. u.purpose = "extend" => u.from < nextId
      BY <1>5, <2>1, <3>1, <3>2, ExtendedIs
    <3>5. SoundPage(u)'
      BY <1>11, <3>2, <3>3, <3>4
    <3> QED BY <2>1, <3>1, <3>5 DEF SoundPage
  <2>2. CASE updates'[i] = e
    <3>1. Answers(e) /\ e.type = "history"
      BY <1>2, <1>12, <2>2 DEF Arrives, Moves, Leaves, Drops
    <3>2. PICK r \in requests : /\ r.type = "history" /\ e.ids \subseteq server
                                /\ IsPageAt(e.ids, r.from) /\ e.from = r.from /\ e.purpose = r.purpose
      BY <3>1 DEF Answers
    <3>3. e.ids \in SUBSET Ids /\ server \subseteq Ids
      BY <3>2 DEF TypeOK
    <3>4. e.purpose = "extend" => e.from # NoId /\ e.from \in Ids
      BY <3>2 DEF OrderInv, TypeOK, Request, HistoryRequest, IdRequest
    <3>5. ASSUME NEW x \in server \ e.ids
          PROVE  /\ ~Between(x, e.ids)
                 /\ e.purpose = "extend" /\ x # e.from => ~Between(x, e.ids \cup {e.from})
      <4>1. ~Within(x, e.ids)
        BY <3>2 DEF IsPageAt
      <4>2. ~Between(x, e.ids)
        BY <3>3, <3>5, <4>1, WithinIsBetween
      <4>3. CASE e.purpose = "extend" /\ x # e.from
        <5>1. ~Within(x, e.ids \cup {e.from})
          BY <3>2, <3>4, <4>3 DEF IsPageAt
        <5>2. e.ids \cup {e.from} \in SUBSET Ids /\ x \in Ids
          BY <3>3, <3>4, <4>3
        <5> QED BY <4>2, <5>1, <5>2, WithinIsBetween
      <4> QED BY <4>2, <4>3
    <3>6. SoundPage(e)
      BY <3>4, <3>5 DEF SoundPage
    <3>7. UNCHANGED server
      BY <3>1 DEF Answers
    <3>8. SoundPage(e)'
      BY <3>6, <3>7 DEF SoundPage
    <3> QED BY <2>2, <3>8 DEF SoundPage
  <2> QED BY <1>2, <1>12, <2>1, <2>2, PostedAt
<1>13. /\ \A r \in requests' : r.type = "history" /\ r.purpose = "extend" => r.from # NoId
       /\ \A id \in ExtendedAt' : id < nextId'
  BY <1>1, <1>3, <1>5 DEF OrderInv
<1> QED BY <1>8, <1>9, <1>10, <1>12, <1>13 DEF OrderInv

\* Every event handler keeps OrderInv: a row appears for an id its event carries.
LEMMA HandlerOrder ==
  ASSUME TypeOK, RowsInv, ObjectsInv, OrderInv, HandleNextUpdate
  PROVE  OrderInv'
<1>1. PICK e \in Event : /\ e = updates[1] /\ Handle(e)
                         /\ UNCHANGED <<requests, server, nextId>>
  BY HandlingQueue
<1>2. 1 \in DOMAIN updates /\ SoundEvent(e)
  BY <1>1, HandlingQueue DEF RowsInv
<1>3. Shown' \subseteq Shown \cup Carried(e) /\ ExtendedAt' \subseteq ExtendedAt
  BY <1>1, <1>2, HandlerShows, HandlerExtended
<1>4. ASSUME NEW i \in DOMAIN updates'
      PROVE  /\ i + 1 \in DOMAIN updates /\ updates'[i] = updates[i + 1] /\ 1 < i + 1
             /\ \A j \in DOMAIN updates' :
                  j + 1 \in DOMAIN updates /\ updates'[j] = updates[j + 1] /\ (j < i => j + 1 < i + 1)
  BY HandlingQueue
<1>5. ASSUME NEW i \in DOMAIN updates', updates'[i].type \in {"newMessage", "sendSucceeded"}
      PROVE  /\ \A id \in Shown' \cup ExtendedAt' : id < updates'[i].id
             /\ \A j \in DOMAIN updates' : j < i => \A id \in Carried(updates'[j]) : id < updates'[i].id
  <2>1. /\ \A id \in Shown \cup ExtendedAt : id < updates[i + 1].id
        /\ \A j \in DOMAIN updates : j < i + 1 => \A id \in Carried(updates[j]) : id < updates[i + 1].id
    BY <1>4, <1>5 DEF OrderInv
  <2> QED BY <1>1, <1>2, <1>3, <1>4, <2>1
<1>6. ASSUME NEW i \in DOMAIN updates'
      PROVE  /\ updates'[i].type = "newMessage" =>
                  \A x \in server' : x < updates'[i].id => x <= updates'[i].prev
             /\ updates'[i].type = "sendSucceeded" =>
                  \A x \in server' : updates'[i].old < x /\ x < updates'[i].id => x \in updates'[i].newer
             /\ updates'[i].type = "history" => SoundPage(updates[i])'
  <2>1. updates'[i].type = "history" => SoundPage(updates[i + 1])
    BY <1>4 DEF OrderInv
  <2> QED BY <1>1, <1>4, <2>1 DEF OrderInv, SoundPage
<1> QED BY <1>1, <1>3, <1>5, <1>6 DEF OrderInv

\* A step of the page keeps OrderInv: it asks for what extends the rows at one of them.
LEMMA PageOrder ==
  ASSUME TypeOK, RowsInv, OrderInv, Page
  PROVE  OrderInv'
<1>1. /\ UNCHANGED <<server, nextId>> /\ DOMAIN updates' = DOMAIN updates
      /\ UNCHANGED rows \/ rows' = NoRows
  BY PageSteps
<1>2. Shown' \subseteq Shown /\ ExtendedAt' \subseteq ExtendedAt \cup Shown
  BY <1>1, PageExtended DEF Shown, NoRows
<1>3. \A r \in requests' : r.type = "history" /\ r.purpose = "extend" => r.from # NoId
  BY PageExtended DEF OrderInv, Shown, Ids, NoId
<1>4. \A id \in ExtendedAt' : id < nextId'
  BY <1>1, <1>2 DEF OrderInv, RowsInv
<1>5. \A i \in DOMAIN updates : /\ Carried(updates'[i]) = Carried(updates[i])
                                /\ updates'[i].type = updates[i].type
                                /\ updates[i].type # "history" => updates'[i] = updates[i]
  BY PageSteps DEF SameButPurpose, Carried
<1>6. ASSUME NEW i \in DOMAIN updates, updates[i].type = "history", SoundPage(updates[i])
      PROVE  SoundPage(updates[i])'
  <2>1. /\ updates'[i].ids = updates[i].ids /\ updates'[i].from = updates[i].from
        /\ updates'[i].purpose = "extend" => updates[i].purpose = "extend"
    BY <1>6, PageSteps DEF SameButPurpose
  <2> QED BY <1>1, <1>6, <2>1 DEF SoundPage, Between
<1> QED BY <1>1, <1>2, <1>3, <1>4, <1>5, <1>6 DEF OrderInv

\* The inductive invariant of the ids that events announce and pages carry.
THEOREM OrderInvariant == Spec => []OrderInv
<1>1. Init => OrderInv
  BY DEF Init, OrderInv, ExtendedAt
<1>2. TypeOK /\ TypeOK' /\ RowsInv /\ ObjectsInv /\ OrderInv /\ [Next]_vars => OrderInv'
  <2>1. ASSUME OrderInv, UNCHANGED vars
        PROVE  OrderInv'
    BY <2>1 DEF OrderInv, ExtendedAt, Shown, SoundPage, Between, Carried,
                vars, chatVars, serverVars
  <2> QED BY <2>1, ServerOrder, HandlerOrder, PageOrder DEF Next
<1> QED BY <1>1, <1>2, TypeCorrect, RowsInvariant, ObjectsInvariant, PTL DEF Spec

\* A step of TDLib keeps WindowInv: a message that arrives is beyond the window.
LEMMA ServerWindow ==
  ASSUME TypeOK, TypeOK', RowsInv, OrderInv, WindowInv, TDLib
  PROVE  WindowInv'
<1>1. Shown' = Shown /\ ExtendedAt' \subseteq ExtendedAt
  BY ServerSteps, ServerExtended DEF chatVars, Shown
<1>2. PICK e \in Event : Arrives(e) \/ Moves(e) \/ Leaves(e) \/ Drops(e) \/ Answers(e)
  BY ServerSteps
<1>3. server' \subseteq server \cup {nextId} /\ nextId \in Int /\ UNCHANGED torn
  BY <1>2, PostedNames DEF Arrives, Moves, Leaves, Drops, Answers, historyVars
<1>4. \A id \in Shown \cup ExtendedAt : id \in Int /\ id < nextId
  BY ExtendedType DEF RowsInv, OrderInv, Ids, Shown
<1>5. ~Between(nextId, Shown \cup ExtendedAt)
  BY <1>3, <1>4 DEF Between
<1>6. \A x : Between(x, Shown' \cup ExtendedAt') => Between(x, Shown \cup ExtendedAt)
  BY <1>1 DEF Between
<1> QED BY <1>1, <1>3, <1>5, <1>6 DEF WindowInv

\* A new message's row continues the window: it appears when the newest row is
\* the message before it.
LEMMA NewMessageWindow ==
  ASSUME TypeOK, ObjectsInv, LastInv, OrderInv, WindowInv, ~torn, 1 \in DOMAIN updates,
         NEW e \in Event, e = updates[1], UpdateNewMessage(e), UNCHANGED server,
         ExtendedAt' \subseteq ExtendedAt, NEW x \in server, Between(x, Shown' \cup ExtendedAt')
  PROVE  x \in Shown'
<1>1. /\ e.type = "newMessage" /\ e.id \in Ids /\ e.prev \in Ids \cup {NoId}
      /\ NewMessage(e.id, LatestMessageId = lastMessageId)
  BY EventFields DEF UpdateNewMessage, NewMessageEvent
<1>2. /\ \A id \in Shown \cup ExtendedAt : id < e.id
      /\ \A y \in server : y < e.id => y <= e.prev
  BY <1>1 DEF OrderInv
<1>3. Between(x, Shown \cup ExtendedAt) => x \in Shown
  BY DEF WindowInv
<1>4. Shown \subseteq Ids /\ ExtendedAt \subseteq Ids /\ x \in Ids
  BY ExtendedType DEF Shown, TypeOK
<1>5. CASE UNCHANGED rows
  BY <1>3, <1>5 DEF Between, Shown
<1>6. CASE LatestMessageId = lastMessageId /\ rows' = [rows EXCEPT ![e.id] = @ + 1]
  <2>1. Shown' = Shown \cup {e.id}
    BY <1>1, <1>6 DEF Shown, TypeOK
  <2>2. CASE x < e.id
    <3>1. PICK a \in Shown' \cup ExtendedAt' : a <= x
      BY DEF Between
    <3>2. a \in Shown \cup ExtendedAt
      BY <1>1, <1>4, <2>1, <2>2, <3>1 DEF Ids
    <3>3. x <= e.prev /\ e.prev # NoId
      BY <1>1, <1>2, <1>4, <2>2 DEF Ids, NoId
    <3>4. Agrees(e.prev)
      BY <1>1, <3>3, QueueType DEF LastInv, AgreesAt
    <3>5. LatestMessageId # NoId => LatestMessageId \in Shown
      BY <1>4, NewestIs DEF LatestMessageId
    <3>6. LatestMessageId = e.prev
      <4>1. CASE lastMessageId \in Cached /\ messages[lastMessageId] = e.prev
        <5>1. lastMessageId \in Shown
          BY <1>6, <3>5, <4>1 DEF TypeOK, Ids, NoId
        <5> QED BY <1>6, <4>1, <5>1 DEF ObjectsInv, RowShowsItsMessage, Shown
      <4> QED BY <1>6, <3>4, <4>1 DEF Agrees
    <3>7. Between(x, Shown \cup ExtendedAt)
      BY <3>1, <3>2, <3>3, <3>5, <3>6 DEF Between
    <3> QED BY <1>3, <2>1, <3>7
  <2>3. CASE x >= e.id
    <3>1. PICK b \in Shown' \cup ExtendedAt' : x <= b
      BY DEF Between
    <3>2. x = e.id
      BY <1>1, <1>2, <1>4, <2>1, <2>3, <3>1 DEF Ids
    <3> QED BY <2>1, <3>2
  <2> QED BY <1>1, <1>4, <2>2, <2>3 DEF Ids
<1> QED BY <1>1, <1>5, <1>6 DEF NewMessage

\* A message that moves to its final id passes only messages that have a row, or
\* the window is torn.
LEMMA SendWindow ==
  ASSUME TypeOK, RowsInv, ObjectsInv, OrderInv, WindowInv, ~torn', 1 \in DOMAIN updates,
         NEW e \in Event, e = updates[1], UpdateMessageSendSucceeded(e), UNCHANGED server,
         ExtendedAt' \subseteq ExtendedAt, NEW x \in server, Between(x, Shown' \cup ExtendedAt')
  PROVE  x \in Shown'
<1>1. e.type = "sendSucceeded" /\ e.id \in Ids /\ e.old \in Ids /\ SoundEvent(e)
  BY EventFields DEF UpdateMessageSendSucceeded, SendEvent, RowsInv
<1>2. /\ \A id \in Shown \cup ExtendedAt : id < e.id
      /\ \A y \in server : e.old < y /\ y < e.id => y \in e.newer
  BY <1>1 DEF OrderInv
<1>3. e.old \notin server /\ e.old \notin evicted /\ e.old < e.id
  BY <1>1 DEF SoundEvent
<1>4. ~torn
  BY DEF UpdateMessageSendSucceeded, OnMessageIdChanged
<1>5. Between(x, Shown \cup ExtendedAt) => x \in Shown
  BY <1>4 DEF WindowInv
<1>6. Shown \subseteq Ids /\ ExtendedAt \subseteq Ids /\ x \in Ids
  BY ExtendedType DEF Shown, TypeOK
<1>7. CASE UNCHANGED rows
  BY <1>5, <1>7 DEF Between, Shown
<1>8. CASE /\ rows[e.old] # 0 /\ e.newer \subseteq Shown
           /\ rows' = [rows EXCEPT ![e.old] = @ - 1, ![e.id] = @ + 1]
  <2>1. rows[e.old] = 1 /\ rows \in [Ids -> Nat]
    BY <1>1, <1>3, <1>8 DEF TypeOK, RowsInv, NoDuplicateRows
  <2>2. Shown' = (Shown \ {e.old}) \cup {e.id} /\ e.old \in Shown
    BY <1>1, <1>3, <2>1, <1>8 DEF Shown, Ids
  <2>3. x \in Shown => x \in Shown'
    BY <1>3, <2>2
  <2>4. CASE x < e.id
    <3>1. PICK a \in Shown' \cup ExtendedAt' : a <= x
      BY DEF Between
    <3>2. a \in Shown \cup ExtendedAt
      BY <1>1, <1>6, <2>2, <2>4, <3>1 DEF Ids
    <3>3. x <= e.old => Between(x, Shown \cup ExtendedAt)
      BY <2>2, <3>1, <3>2 DEF Between
    <3>4. e.old < x => x \in Shown
      BY <1>2, <1>8, <2>4
    <3> QED BY <1>1, <1>5, <1>6, <2>3, <3>3, <3>4 DEF Ids
  <2>5. CASE x >= e.id
    <3>1. PICK b \in Shown' \cup ExtendedAt' : x <= b
      BY DEF Between
    <3>2. x = e.id
      BY <1>1, <1>2, <1>6, <2>2, <2>5, <3>1 DEF Ids
    <3> QED BY <2>2, <3>2
  <2> QED BY <1>1, <1>6, <2>4, <2>5 DEF Ids
<1> QED BY <1>4, <1>7, <1>8 DEF UpdateMessageSendSucceeded, OnMessageIdChanged

\* A page opens the window, or joins it where it was asked for.
LEMMA HistoryWindow ==
  ASSUME TypeOK, OrderInv, WindowInv, ~torn', 1 \in DOMAIN updates,
         NEW e \in Event, e = updates[1], OnGotChatHistory(e), UNCHANGED server,
         ExtendedAt' \subseteq ExtendedAt, e.purpose = "extend" => e.from \in ExtendedAt,
         NEW x \in server, Between(x, Shown' \cup ExtendedAt')
  PROVE  x \in Shown'
<1>1. e.type = "history" /\ e.ids \subseteq Ids /\ e.purpose \in Purpose
  BY EventFields DEF OnGotChatHistory, HistoryEvent
<1>2. SoundPage(e)
  BY <1>1 DEF OrderInv
<1>3. ~torn /\ ~TearsHole(e)
  BY DEF OnGotChatHistory
<1>4. Shown' = Shown \cup e.ids
  BY <1>1 DEF OnGotChatHistory, Shown, TypeOK
<1>5. Between(x, Shown \cup ExtendedAt) => x \in Shown
  BY <1>3 DEF WindowInv
<1>6. Shown \subseteq Ids /\ ExtendedAt \subseteq Ids /\ x \in Ids
  BY ExtendedType DEF Shown, TypeOK
<1>7. CASE e.ids = {}
  BY <1>4, <1>5, <1>7 DEF Between
<1>8. CASE e.purpose = "open" /\ Shown = {} /\ ExtendedAt = {}
  BY <1>2, <1>4, <1>8 DEF SoundPage
<1>9. CASE e.purpose = "extend"
  <2>1. PICK f \in ExtendedAt : f = e.from
    BY <1>9
  <2> SUFFICES ASSUME x \notin Shown, x \notin e.ids
               PROVE  FALSE
    BY <1>4
  <2>2. ~Between(x, Shown \cup ExtendedAt) /\ x # f
    BY <1>5, <1>6, <2>1 DEF Between, Ids
  <2>3. ~Between(x, e.ids) /\ ~Between(x, e.ids \cup {f})
    BY <1>2, <1>9, <2>1, <2>2 DEF SoundPage
  <2>4. PICK a \in Shown \cup ExtendedAt \cup e.ids, b \in Shown \cup ExtendedAt \cup e.ids :
          a <= x /\ x <= b
    BY <1>4 DEF Between
  <2>5. CASE x < f
    <3>1. a \notin Shown \cup ExtendedAt
      BY <1>6, <2>1, <2>2, <2>4, <2>5 DEF Between, Ids
    <3>2. a \in e.ids /\ x <= f
      BY <1>6, <2>1, <2>4, <2>5, <3>1 DEF Ids
    <3> QED BY <2>3, <2>4, <3>2 DEF Between
  <2>6. CASE f < x
    <3>1. b \notin Shown \cup ExtendedAt
      BY <1>6, <2>1, <2>2, <2>4, <2>6 DEF Between, Ids
    <3>2. b \in e.ids /\ f <= x
      BY <1>6, <2>1, <2>4, <2>6, <3>1 DEF Ids
    <3> QED BY <2>3, <2>4, <3>2 DEF Between
  <2> QED BY <1>6, <2>1, <2>2, <2>5, <2>6 DEF Ids
<1> QED BY <1>1, <1>3, <1>7, <1>8, <1>9 DEF TearsHole, Purpose

\* Every event handler keeps WindowInv.
LEMMA HandlerWindow ==
  ASSUME TypeOK, RowsInv, ObjectsInv, LiveInv, LastInv, OrderInv, WindowInv, HandleNextUpdate
  PROVE  WindowInv'
<1>1. PICK e \in Event : /\ e = updates[1] /\ Handle(e) /\ UNCHANGED server
  BY HandlingQueue
<1>2. 1 \in DOMAIN updates
  BY HandlingQueue
<1>3. /\ ExtendedAt' \subseteq ExtendedAt
      /\ e.type = "history" /\ e.purpose = "extend" => e.from \in ExtendedAt
  BY <1>1, HandlerExtended
<1> SUFFICES ASSUME ~torn', NEW x \in server, Between(x, Shown' \cup ExtendedAt')
             PROVE  x \in Shown'
  BY <1>1 DEF WindowInv
<1>4. ASSUME Shown' \subseteq Shown, UNCHANGED torn, x \in Shown => x \in Shown'
      PROVE  x \in Shown'
  <2>1. Between(x, Shown \cup ExtendedAt)
    BY <1>3, <1>4 DEF Between
  <2> QED BY <1>4, <2>1 DEF WindowInv
<1>5. CASE UpdateDeleteMessages(e)
  <2>1. e.type = "delete" /\ e.id \in Ids /\ UNCHANGED torn
    BY <1>5, EventFields DEF UpdateDeleteMessages, DeleteEvent
  <2>2. ~e.fromCache => e.id \notin server
    BY <1>1, <1>2, <2>1 DEF LiveInv, RemovedInv, Removes
  <2>3. Shown' \subseteq Shown /\ (x \in Shown => x \in Shown')
    BY <1>5, <2>1, <2>2 DEF UpdateDeleteMessages, Shown, TypeOK
  <2> QED BY <1>4, <2>1, <2>3
<1>6. CASE \/ UpdateChatLastMessage(e) \/ IgnoreMessageSendFailed(e)
           \/ OnGotMessage(e) \/ OnGotMessageProperties(e)
  <2>1. UNCHANGED <<rows, torn>>
    BY <1>6 DEF UpdateChatLastMessage, SetLastMessage, NewMessage, IgnoreMessageSendFailed,
       OnGotMessage, OnGotMessageProperties, chatVars
  <2> QED BY <1>4, <2>1 DEF Shown
<1>7. CASE UpdateNewMessage(e)
  <2>1. ~torn
    BY <1>7 DEF UpdateNewMessage
  <2> QED BY <1>1, <1>2, <1>3, <1>7, <2>1, NewMessageWindow
<1>8. CASE UpdateMessageSendSucceeded(e)
  BY <1>1, <1>2, <1>3, <1>8, SendWindow
<1>9. CASE OnGotChatHistory(e)
  <2>1. e.type = "history"
    BY <1>9 DEF OnGotChatHistory
  <2> QED BY <1>1, <1>2, <1>3, <1>9, <2>1, HistoryWindow
<1> QED BY <1>1, <1>5, <1>6, <1>7, <1>8, <1>9 DEF Handle

\* A step of the page keeps WindowInv.
LEMMA PageWindow ==
  ASSUME TypeOK, WindowInv, Page
  PROVE  WindowInv'
<1>1. UNCHANGED server
  BY PageSteps
<1>2. /\ ExtendedAt' \subseteq ExtendedAt \cup Shown
      /\ UNCHANGED <<rows, torn>> \/ (Shown' = {} /\ ExtendedAt' = {})
  BY PageExtended
<1>3. CASE Shown' = {} /\ ExtendedAt' = {}
  BY <1>3 DEF WindowInv, Between
<1>4. CASE UNCHANGED <<rows, torn>>
  <2>1. Shown' = Shown
    BY <1>4 DEF Shown
  <2>2. \A x : Between(x, Shown' \cup ExtendedAt') => Between(x, Shown \cup ExtendedAt)
    BY <1>2, <2>1 DEF Between
  <2> QED BY <1>1, <1>4, <2>1, <2>2 DEF WindowInv
<1> QED BY <1>2, <1>3, <1>4

\* The inductive invariant of the window.
THEOREM WindowInvariant == Spec => []WindowInv
<1>1. Init => WindowInv
  BY DEF Init, WindowInv, Between, Shown, NoRows, ExtendedAt
<1>2. TypeOK /\ TypeOK' /\ RowsInv /\ ObjectsInv /\ LiveInv /\ LastInv /\ OrderInv /\ WindowInv
        /\ [Next]_vars => WindowInv'
  <2>1. ASSUME WindowInv, UNCHANGED vars
        PROVE  WindowInv'
    BY <2>1 DEF WindowInv, ExtendedAt, Shown, Between, vars, chatVars, serverVars, historyVars
  <2> QED BY <2>1, ServerWindow, HandlerWindow, PageWindow DEF Next
<1> QED BY <1>1, <1>2, TypeCorrect, RowsInvariant, ObjectsInvariant, LiveInvariant, LastInvariant,
       OrderInvariant, PTL DEF Spec

\* HolesAreExplained: once every event is handled no message is missing between the
\* oldest and the newest row, unless the code has torn a hole.
THEOREM RowsAreAWindow == Spec => []HolesAreExplained
<1>1. TypeOK /\ WindowInv => HolesAreExplained
  <2> SUFFICES ASSUME TypeOK, WindowInv, ~torn, NEW id \in server, Within(id, Shown)
               PROVE  id \in Shown
    BY DEF HolesAreExplained
  <2>1. Shown \in SUBSET Ids /\ id \in Ids
    BY DEF TypeOK, Shown
  <2>2. Between(id, Shown)
    BY <2>1, WithinIsBetween
  <2> QED BY <2>2 DEF WindowInv, Between
<1> QED BY <1>1, TypeCorrect, WindowInvariant, PTL
=============================================================================
