---------------------------- MODULE ChatTimeline ----------------------------
(***************************************************************************)
(* The message timeline of one chat: class Chat keeps every Message object *)
(* it has received in _messages and the ids of the rows its list view shows *)
(* in _message_ids.  TDLib is the source of truth.  It sends updates and    *)
(* answers in one FIFO order (TelegramManager, module RequestTable), and   *)
(* the GUI thread handles them one at a time, so the chat is always a few   *)
(* events behind TDLib: every hazard of this class comes from that lag.     *)
(*                                                                         *)
(* Message ids grow with time.  A message being sent has a temporary id,    *)
(* and gets a larger, final one when the server accepts or refuses it.      *)
(* The order of _message_ids is not kept: the view sorts the rows by id     *)
(* (chatProxyModel in Chat.qml), so the rows are a bag of ids.              *)
(* Topics of forum chats are left out (_currentTopicId = 0).                *)
(***************************************************************************)
EXTENDS Integers, Sequences, FiniteSets, Functions

CONSTANTS
  MaxId,        \* bound: message ids are 1 .. MaxId
  MaxUpdates,   \* bound: events waiting for the GUI thread
  MaxRequests,  \* bound: requests TDLib has not answered yet
  MaxEvictions, \* bound: messages TDLib drops from its memory, once each
  RequestTypes  \* bound: the types of requests the page makes

ASSUME BoundsAssumption ==
  /\ MaxId \in Nat \ {0}
  /\ MaxUpdates \in Nat \ {0}
  /\ MaxRequests \in Nat
  /\ MaxEvictions \in Nat
  /\ RequestTypes \subseteq {"history", "message", "properties"}

VARIABLES
  \* class Chat
  messages,       \* _messages: key -> what Message::getId() of that object says
  rows,           \* _message_ids: how many rows show the id
  lastMessageId,  \* _lastMessageId
  fetching,       \* _getMessageCache: ids data() has asked for
  crashed,        \* a null Message was dereferenced
  \* between TDLib and the GUI thread
  updates,        \* events waiting for the GUI thread, oldest first
  requests,       \* requests TDLib has not answered
  \* TDLib (external)
  server,         \* the messages that exist in the chat
  unsent,         \* the ones still being sent
  nextId,         \* the next message id
  \* history, read by the properties only
  evicted,        \* ids TDLib has dropped from its memory at some time
  failedSends,    \* temporary ids of messages that could not be sent
  failedFetches,  \* ids data() asked for and getMessage failed for
  torn            \* the code may have torn a hole in the rows since it cleared them

chatVars == <<messages, rows, lastMessageId, fetching, crashed>>
serverVars == <<server, unsent, nextId>>
historyVars == <<evicted, failedSends, failedFetches, torn>>
vars == <<chatVars, updates, requests, serverVars, historyVars>>

Ids == 1 .. MaxId
NoId == 0
-----------------------------------------------------------------------------
(* The events of the FIFO, and the requests.                               *)

NewMessageEvent == [type : {"newMessage"}, id : Ids, prev : Ids \cup {NoId}]
LastMessageEvent == [type : {"lastMessage"}, id : Ids \cup {NoId}]
SendEvent == [type : {"sendSucceeded", "sendFailed"}, old : Ids, id : Ids,
              newer : SUBSET Ids]
DeleteEvent == [type : {"delete"}, id : Ids, fromCache : BOOLEAN]
\* A history request opens a window of rows or extends the one there is at the
\* message "from"; once the rows are cleared there is no window to extend.
Purpose == {"open", "extend"}
HistoryEvent == [type : {"history"}, from : Ids \cup {NoId}, ids : SUBSET Ids,
                 purpose : Purpose]
AnswerEvent == [type : {"message", "properties"}, id : Ids, ok : BOOLEAN]

Event == NewMessageEvent \cup LastMessageEvent \cup SendEvent
           \cup DeleteEvent \cup HistoryEvent \cup AnswerEvent

HistoryRequest == [type : {"history"}, from : Ids \cup {NoId}, purpose : Purpose]
IdRequest == [type : {"message", "properties"}, id : Ids]
Request == HistoryRequest \cup IdRequest

Shown == {id \in Ids : rows[id] > 0}

Newest(S) == IF S = {} THEN NoId ELSE CHOOSE id \in S : \A x \in S : x <= id
Oldest(S) == IF S = {} THEN NoId ELSE CHOOSE id \in S : \A x \in S : id <= x

\* Chat::getLatestMessageId: the largest id of the rows, 0 without rows.
LatestMessageId == Newest(Shown)

Post(events) ==
  /\ Len(updates) + Len(events) <= MaxUpdates
  /\ updates' = updates \o events

Ask(r) ==
  /\ r.type \in RequestTypes
  /\ Cardinality(requests \cup {r}) <= MaxRequests
  /\ requests' = requests \cup {r}
-----------------------------------------------------------------------------
(* TDLib (external), as class Chat relies on it: ids grow, an event is      *)
(* posted in the order things happen, the last message is announced         *)
(* whenever it changes, and an answer shows the chat as it is when TDLib    *)
(* answers.                                                                 *)

LastMessageUpdate(S) == <<[type |-> "lastMessage", id |-> Newest(S)]>>

\* A message appears in the chat: received, or being sent by this client.
NewServerMessage(sending) ==
  /\ nextId <= MaxId
  /\ server' = server \cup {nextId}
  /\ unsent' = IF sending THEN unsent \cup {nextId} ELSE unsent
  /\ nextId' = nextId + 1
  /\ Post(<<[type |-> "newMessage", id |-> nextId, prev |-> Newest(server)]>>
            \o LastMessageUpdate(server'))
  /\ UNCHANGED <<chatVars, requests, historyVars>>

\* Sending ends: the message moves to a new id, the largest of the chat.
FinishSending(old, type) ==
  /\ nextId <= MaxId
  /\ server' = (server \ {old}) \cup {nextId}
  /\ unsent' = unsent \ {old}
  /\ nextId' = nextId + 1
  /\ Post(<<[type |-> type, old |-> old, id |-> nextId,
             newer |-> {x \in server : x > old}]>> \o LastMessageUpdate(server'))
  /\ failedSends' = IF type = "sendFailed" THEN failedSends \cup {old} ELSE failedSends
  /\ UNCHANGED <<chatVars, requests, evicted, failedFetches, torn>>

DeleteOnServer(id) ==
  /\ server' = server \ {id}
  /\ unsent' = unsent \ {id}
  /\ Post(<<[type |-> "delete", id |-> id, fromCache |-> FALSE]>>
            \o IF id = Newest(server) THEN LastMessageUpdate(server') ELSE <<>>)
  /\ UNCHANGED <<chatVars, requests, nextId, historyVars>>

\* TDLib drops a message from its memory; the message still exists.
Evict(id) ==
  /\ Post(<<[type |-> "delete", id |-> id, fromCache |-> TRUE]>>)
  /\ Cardinality(evicted) < MaxEvictions
  /\ evicted' = evicted \cup {id}
  /\ UNCHANGED <<chatVars, requests, serverVars, failedSends, failedFetches, torn>>

Within(x, S) == Oldest(S) <= x /\ x <= Newest(S)

\* B is a page of the chat at "from", with no message left out; "from" itself
\* may be left out at its edge.
IsPageAt(B, from) ==
  LET anchor == IF from = NoId THEN MaxId + 1 ELSE from
  IN \A x \in server \ B : ~Within(x, B) /\ (x # anchor => ~Within(x, B \cup {anchor}))

AnswerHistory(r, B) ==
  /\ r.type = "history"
  /\ IsPageAt(B, r.from)
  /\ Post(<<[type |-> "history", from |-> r.from, ids |-> B, purpose |-> r.purpose]>>)
  /\ requests' = requests \ {r}
  /\ UNCHANGED <<chatVars, serverVars, historyVars>>

\* getMessage and getMessageProperties fail for a message that does not
\* exist, and may fail for one that does (the network).
AnswerById(r, ok) ==
  /\ r.type \in {"message", "properties"}
  /\ ok => r.id \in server
  /\ Post(<<[type |-> r.type, id |-> r.id, ok |-> ok]>>)
  /\ requests' = requests \ {r}
  /\ UNCHANGED <<chatVars, serverVars, historyVars>>

TDLib ==
  \/ \E sending \in BOOLEAN : NewServerMessage(sending)
  \/ \E id \in unsent, type \in {"sendSucceeded", "sendFailed"} : FinishSending(id, type)
  \/ \E id \in server : DeleteOnServer(id)
  \/ \E id \in server \ (unsent \cup evicted) : Evict(id)
  \/ \E r \in requests, B \in SUBSET server : AnswerHistory(r, B)
  \/ \E r \in requests, ok \in BOOLEAN : AnswerById(r, ok)
-----------------------------------------------------------------------------
(* The GUI thread: TDLib events, one handler each.                          *)

Cached == DOMAIN messages

\* Chat::newMessage
NewMessage(id, addToList) ==
  /\ messages' = IF id \in Cached THEN messages
                 ELSE [k \in Cached \cup {id} |-> IF k = id THEN id ELSE messages[k]]
  /\ rows' = IF addToList /\ (id \notin Cached \/ rows[id] = 0)
             THEN [rows EXCEPT ![id] = @ + 1] ELSE rows

\* Mutant of UpdateNewMessage: every new message gets a row.
UpdateNewMessageAlwaysShown(e) ==
  /\ e.type = "newMessage"
  /\ NewMessage(e.id, TRUE)
  /\ UNCHANGED <<lastMessageId, fetching, crashed, failedFetches, torn>>

\* Mutant of UpdateNewMessage: a row only while the chat has no row.
UpdateNewMessageOnlyFirst(e) ==
  /\ e.type = "newMessage"
  /\ NewMessage(e.id, LatestMessageId = NoId)
  /\ UNCHANGED <<lastMessageId, fetching, crashed, failedFetches, torn>>

\* Chat::updateNewMessage: append a row only if the rows reach the last message.
UpdateNewMessage(e) ==
  /\ e.type = "newMessage"
  /\ NewMessage(e.id, LatestMessageId = lastMessageId)
  /\ UNCHANGED <<lastMessageId, fetching, crashed, failedFetches, torn>>

\* Chat::setLastMessage
SetLastMessage(id) ==
  /\ lastMessageId' = id
  /\ NewMessage(id, FALSE)

\* Mutant of UpdateChatLastMessage: a stored message is not made the last one.
UpdateChatLastMessageNewOnly(e) ==
  /\ e.type = "lastMessage"
  /\ IF e.id # NoId /\ e.id \notin Cached
     THEN SetLastMessage(e.id)
     ELSE UNCHANGED <<messages, rows, lastMessageId>>
  /\ UNCHANGED <<fetching, crashed, failedFetches, torn>>

\* ChatList::updateChatLastMessage, the part about the message (the positions
\* are in ChatPositions).
UpdateChatLastMessage(e) ==
  /\ e.type = "lastMessage"
  /\ IF e.id # NoId /\ ~(lastMessageId \in Cached /\ messages[lastMessageId] = e.id)
     THEN SetLastMessage(e.id)
     ELSE UNCHANGED <<messages, rows, lastMessageId>>
  /\ UNCHANGED <<fetching, crashed, failedFetches, torn>>

\* Mutant of UpdateMessageSendSucceeded: Chat does not hear of the new id.
UpdateMessageSendSucceededUnheard(e) ==
  /\ e.type = "sendSucceeded"
  /\ messages' = IF e.old \notin Cached \/ messages[e.old] # e.old THEN messages
                 ELSE [messages EXCEPT ![e.old] = e.id]
  /\ UNCHANGED <<rows, torn, lastMessageId, fetching, crashed, failedFetches>>

\* Chat::onMessageIdChanged; the object already says its new id, and the early
\* return leaves it under the old one when no row shows it.
OnMessageIdChanged(e) ==
  IF rows[e.old] = 0
  THEN messages' = [messages EXCEPT ![e.old] = e.id] /\ UNCHANGED <<rows, torn>>
  ELSE /\ rows' = [rows EXCEPT ![e.old] = @ - 1, ![e.id] = @ + 1]
       /\ messages' = [k \in (Cached \ {e.old}) \cup {e.id} |->
                         IF k = e.id THEN e.id ELSE messages[k]]
       /\ torn' = (torn \/ ~(e.newer \subseteq Shown))

\* Message::updateMessageSendSucceeded, of the object that has the old id.
UpdateMessageSendSucceeded(e) ==
  /\ e.type = "sendSucceeded"
  /\ IF e.old \notin Cached \/ messages[e.old] # e.old
     THEN UNCHANGED <<messages, rows, torn>>
     ELSE OnMessageIdChanged(e)
  /\ UNCHANGED <<lastMessageId, fetching, crashed, failedFetches>>

\* TelegramManager::messageReceived has no case for updateMessageSendFailed.
IgnoreMessageSendFailed(e) ==
  /\ e.type = "sendFailed"
  /\ UNCHANGED <<chatVars, failedFetches, torn>>

\* Mutant of UpdateDeleteMessages: the row stays.
UpdateDeleteMessagesKeepsRow(e) ==
  /\ e.type = "delete"
  /\ messages' = Restrict(messages, Cached \ {e.id})
  /\ UNCHANGED <<rows, lastMessageId, fetching, crashed, failedFetches, torn>>

\* Chat::updateDeleteMessages
UpdateDeleteMessages(e) ==
  /\ e.type = "delete"
  /\ IF e.fromCache \/ rows[e.id] > 0
     THEN messages' = Restrict(messages, Cached \ {e.id})
     ELSE UNCHANGED messages
  /\ rows' = IF ~e.fromCache /\ rows[e.id] > 0 THEN [rows EXCEPT ![e.id] = @ - 1] ELSE rows
  /\ UNCHANGED <<lastMessageId, fetching, crashed, failedFetches, torn>>

\* Where the window is to be extended by answers that are still to come.
ExtendedAt ==
  {r.from : r \in {r \in requests : r.type = "history" /\ r.purpose = "extend"}}
    \cup {updates[i].from : i \in {i \in DOMAIN updates :
                               updates[i].type = "history" /\ updates[i].purpose = "extend"}}

\* The page opens a window where there is one, or will be one again: all its
\* rows have been deleted while a page that extends it is under way.
TearsHole(e) ==
  e.ids # {} /\ e.purpose = "open" /\ (Shown # {} \/ ExtendedAt # {})

\* Mutant of OnGotChatHistory: a known message gets a row in any case.
OnGotChatHistoryAlwaysAppends(e) ==
  /\ e.type = "history"
  /\ messages' = [k \in Cached \cup e.ids |-> IF k \in Cached THEN messages[k] ELSE k]
  /\ rows' = [id \in Ids |-> IF id \in e.ids THEN rows[id] + 1 ELSE rows[id]]
  /\ torn' = (torn \/ TearsHole(e))
  /\ UNCHANGED <<lastMessageId, fetching, crashed, failedFetches>>

\* Chat::onGotChatHistory: an unknown message is stored and gets a row, a known
\* one gets a row unless it has one.
OnGotChatHistory(e) ==
  /\ e.type = "history"
  /\ messages' = [k \in Cached \cup e.ids |-> IF k \in Cached THEN messages[k] ELSE k]
  /\ rows' = [id \in Ids |-> IF id \in e.ids /\ (id \notin Cached \/ rows[id] = 0)
                             THEN rows[id] + 1 ELSE rows[id]]
  /\ torn' = (torn \/ TearsHole(e))
  /\ UNCHANGED <<lastMessageId, fetching, crashed, failedFetches>>

\* Mutant of OnGotMessage: the id stays in _getMessageCache.
OnGotMessageKeepsAsking(e) ==
  /\ e.type = "message"
  /\ IF e.ok THEN NewMessage(e.id, FALSE) /\ UNCHANGED failedFetches
     ELSE failedFetches' = failedFetches \cup ({e.id} \cap fetching) /\ UNCHANGED <<messages, rows>>
  /\ UNCHANGED <<fetching, lastMessageId, crashed, torn>>

\* Chat::onGotMessage; an error reaches no handler of Chat.
OnGotMessage(e) ==
  /\ e.type = "message"
  /\ IF e.ok THEN /\ NewMessage(e.id, FALSE)
                  /\ fetching' = fetching \ {e.id}
                  /\ UNCHANGED failedFetches
     ELSE /\ failedFetches' = failedFetches \cup ({e.id} \cap fetching)
          /\ UNCHANGED <<messages, rows, fetching>>
  /\ UNCHANGED <<lastMessageId, crashed, torn>>

\* Chat::onGotMessageProperties dereferences _messages[id] without a check.
OnGotMessageProperties(e) ==
  /\ e.type = "properties"
  /\ crashed' = (e.ok /\ e.id \notin Cached)
  /\ UNCHANGED <<messages, rows, lastMessageId, fetching, failedFetches, torn>>

Handle(e) ==
  \/ UpdateNewMessage(e)
  \/ UpdateChatLastMessage(e)
  \/ UpdateMessageSendSucceeded(e)
  \/ IgnoreMessageSendFailed(e)
  \/ UpdateDeleteMessages(e)
  \/ OnGotChatHistory(e)
  \/ OnGotMessage(e)
  \/ OnGotMessageProperties(e)

HandleNextUpdate ==
  /\ updates # <<>>
  /\ ~crashed
  /\ Handle(Head(updates))
  /\ updates' = Tail(updates)
  /\ UNCHANGED <<requests, serverVars, evicted, failedSends>>
-----------------------------------------------------------------------------
(* The GUI thread: what the chat page asks for.                            *)

\* Chat::data for a row whose message is gone, and Chat::fetchMessage.
ReadRow(id) ==
  /\ rows[id] > 0 /\ id \notin Cached /\ id \notin fetching
  /\ fetching' = fetching \cup {id}
  /\ Ask([type |-> "message", id |-> id])
  /\ UNCHANGED <<messages, rows, lastMessageId, crashed, torn>>

\* Chat::fetchMessage for the message a shown message replies to.
FetchReply(id) ==
  /\ id < nextId /\ id \notin Cached
  /\ Ask([type |-> "message", id |-> id])
  /\ UNCHANGED <<chatVars, torn>>

\* Chat::getChatHistory, from the page: it opens a window around "from".
GetChatHistory(from) ==
  /\ from < nextId
  /\ Ask([type |-> "history", from |-> from, purpose |-> "open"])
  /\ UNCHANGED <<chatVars, torn>>

\* Chat::getMoreChatHistory and Chat::getMoreChatMessages
GetMore(from) ==
  /\ Shown # {}
  /\ Ask([type |-> "history", from |-> from, purpose |-> "extend"])
  /\ UNCHANGED <<chatVars, torn>>

NoRows == [id \in Ids |-> 0]

\* What was asked for the old rows opens a window once they are cleared.
Outdate(S) == {[r EXCEPT !.purpose = "open"] : r \in {r \in S : r.type = "history"}}
                \cup {r \in S : r.type # "history"}
OutdateEvents ==
  updates' = [i \in DOMAIN updates |->
                IF updates[i].type = "history" THEN [updates[i] EXCEPT !.purpose = "open"]
                ELSE updates[i]]

\* Chat::clearCachedHistory
ClearCachedHistory ==
  /\ rows' = NoRows
  /\ torn' = FALSE
  /\ requests' = Outdate(requests)
  /\ OutdateEvents
  /\ UNCHANGED <<messages, lastMessageId, fetching, crashed>>

\* Chat::scrollToMessage
ScrollToMessage(id) ==
  /\ id < nextId
  /\ rows' = NoRows
  /\ torn' = FALSE
  /\ LET r == [type |-> "history", from |-> id, purpose |-> "open"]
     IN /\ "history" \in RequestTypes
        /\ Cardinality(Outdate(requests) \cup {r}) <= MaxRequests
        /\ requests' = Outdate(requests) \cup {r}
  /\ OutdateEvents
  /\ UNCHANGED <<messages, lastMessageId, fetching, crashed>>

\* Mutant of LoadContextPermissions: no check that the message is stored.
LoadContextPermissionsUnchecked(id) ==
  /\ rows[id] > 0 \/ id < nextId
  /\ Ask([type |-> "properties", id |-> id])
  /\ UNCHANGED <<chatVars, torn>>

\* Message::fetchProperties, of the message stored under the key.
FetchProperties(key) == Ask([type |-> "properties", id |-> messages[key]])

\* Chat::loadContextPermissions, for a shown row.
LoadContextPermissions(id) ==
  /\ rows[id] > 0 /\ id \in Cached
  /\ FetchProperties(id)
  /\ UNCHANGED <<chatVars, torn>>

Page ==
  /\ ~crashed
  /\ \/ /\ \/ \E id \in Ids : ReadRow(id) \/ FetchReply(id) \/ LoadContextPermissions(id)
           \/ \E from \in Ids \cup {NoId} : GetChatHistory(from)
           \/ GetMore(Oldest(Shown))
           \/ GetMore(LatestMessageId)
        /\ UNCHANGED updates
     \/ ClearCachedHistory
     \/ \E id \in Ids : ScrollToMessage(id)
  /\ UNCHANGED <<serverVars, evicted, failedSends, failedFetches>>
-----------------------------------------------------------------------------
Init ==
  /\ messages = <<>>
  /\ rows = NoRows
  /\ lastMessageId = NoId
  /\ fetching = {}
  /\ crashed = FALSE
  /\ updates = <<>>
  /\ requests = {}
  /\ server = {} /\ unsent = {} /\ nextId = 1
  /\ evicted = {} /\ failedSends = {} /\ failedFetches = {} /\ torn = FALSE

Next == TDLib \/ HandleNextUpdate \/ Page

Spec == Init /\ [][Next]_vars
-----------------------------------------------------------------------------
\* The type of every variable.
TypeOK ==
  /\ Cached \subseteq Ids /\ messages \in [Cached -> Ids]
  /\ rows \in [Ids -> Nat]
  /\ lastMessageId \in Ids \cup {NoId}
  /\ fetching \subseteq Ids
  /\ crashed \in BOOLEAN
  /\ updates \in Seq(Event)
  /\ requests \subseteq Request
  /\ server \subseteq Ids /\ unsent \subseteq server
  /\ nextId \in 1 .. MaxId + 1
  /\ evicted \subseteq Ids /\ failedSends \subseteq Ids /\ failedFetches \subseteq Ids
  /\ torn \in BOOLEAN

\* A message has one row, whatever the order of history pages, updates and
\* send results, unless TDLib dropped it from its memory: then its object goes,
\* its row stays, and the next page that holds it gives it a second row.
NoDuplicateRows == \A id \in Ids : rows[id] <= 1 \/ id \in evicted

\* What makes NoDuplicateRows inductive (proved in ChatTimelineProofs).  The ids
\* for which an event can add a row:
Carried(e) ==
  CASE e.type \in {"newMessage", "sendSucceeded"} -> {e.id}
    [] e.type = "history" -> e.ids
    [] OTHER -> {}

\* A waiting event only speaks of ids that are in use; a message sent has left
\* its old id for good, and its new one has no row yet.
SoundEvent(e) ==
  /\ \A id \in Carried(e) : id < nextId
  /\ e.type = "delete" /\ e.fromCache => e.id \in evicted
  /\ e.type = "sendSucceeded" => /\ e.old < e.id
                                 /\ e.old \notin server \cup evicted
                                 /\ rows[e.id] = 0

\* Rows have their message, unless it was dropped from memory; ids are below
\* nextId; and no event before the one that announces a sent message's new id
\* carries that id.
RowsInv ==
  /\ NoDuplicateRows
  /\ Shown \subseteq Cached \cup evicted
  /\ \A id \in Shown \cup server \cup evicted : id < nextId
  /\ unsent \cap evicted = {}
  /\ \A i \in DOMAIN updates : SoundEvent(updates[i])
  /\ \A i, j \in DOMAIN updates :
       (j < i /\ updates[i].type = "sendSucceeded") => updates[i].id \notin Carried(updates[j])

\* The object behind a row is the message of that id: a message that moves to
\* its final id takes its row and its place in _messages along together.
RowShowsItsMessage == \A k \in Cached : rows[k] > 0 => messages[k] = k

\* Once every event is handled no row stands for a message that is gone.  The
\* code ignores updateMessageSendFailed, and forgets the objects of messages
\* dropped from memory, so their ids are excepted.
RowsAreLive ==
  updates = <<>> => Shown \subseteq server \cup failedSends \cup evicted

\* A blank row that data() believes to be on its way really is: its getMessage
\* is unanswered or its answer waits in the queue, or the request failed (the
\* code never asks again).
BlankRowsAreFetched ==
  \A id \in (Shown \cap fetching) \ (Cached \cup failedFetches) :
    \/ [type |-> "message", id |-> id] \in requests
    \/ \E i \in DOMAIN updates :
         updates[i].type = "message" /\ updates[i].id = id

\* The rows are a window of the chat: once every event is handled, no message
\* between the oldest and the newest row is missing.  The ways in which the code
\* may tear a hole set "torn": a second window opened (or the answer to a request
\* made for rows that were cleared since) where there is one already or pages
\* extend one, and a message sent past others that have no row.
HolesAreExplained ==
  (updates = <<>> /\ ~torn) =>
    \A id \in server : Within(id, Shown) => id \in Shown

\* Once every event is handled the chat's last message is TDLib's, though it
\* may be stored under the temporary id it was sent with; an emptied chat
\* keeps its old one.
LastMessageAgrees ==
  (updates = <<>> /\ server # {}) =>
    \/ lastMessageId = Newest(server)
    \/ lastMessageId \in Cached /\ messages[lastMessageId] = Newest(server)

\* loadContextPermissions checks that the message is stored, and its answer is
\* handled without a check: it finds the message unless TDLib dropped it from
\* its memory while the request was under way.
PropertiesFindMessage == crashed => evicted # {}

\* A page that shows the end of the chat follows it: a new message gets a row
\* when the newest row is the message it comes after.  Excepted are a last
\* message still stored under a temporary id, and a chat emptied since.
FollowsNewMessages ==
  [][\A e \in {updates[i] : i \in DOMAIN updates \cap {1}} :
       (/\ updates' = Tail(updates)
        /\ e.type = "newMessage"
        /\ LatestMessageId = e.prev
        /\ (e.prev = NoId => lastMessageId = NoId)
        /\ (lastMessageId \in Cached => messages[lastMessageId] = lastMessageId))
       => rows'[e.id] > 0]_vars
=============================================================================
