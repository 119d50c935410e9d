--------------------------- MODULE ChatPositions ---------------------------
(***************************************************************************)
(* The chat lists of class ChatList.  The main list, the archive and every *)
(* folder have a vector of chat ids, and every Chat object keeps its own   *)
(* position (order) in each of them: two copies of what TDLib says, changed *)
(* by the same handler.  A third copy is the order the view has read for    *)
(* each row of the selected list.  The view of qml/pages/ChatList.qml sorts *)
(* by that role and hides the rows where it is 0, and it reads it again     *)
(* only when the model says that it may have changed.                       *)
(*                                                                         *)
(* The position of a row in the vector is not kept (the view sorts), so a   *)
(* list is a set of chats.  Pinning is a range of orders, and not kept.     *)
(***************************************************************************)
EXTENDS Integers, Sequences, FiniteSets

CONSTANTS
  Chats,      \* chat ids
  Folders,    \* chat folders
  MaxOrder,   \* bound: orders are 0 .. MaxOrder, 0 is "not in the list"
  MaxUpdates, \* bound: events waiting for the GUI thread
  MaxChanges  \* bound: times TDLib changes positions

Main == "main"
Archive == "archive"

ASSUME ListsAssumption == Main \notin Folders /\ Archive \notin Folders
ASSUME BoundsAssumption ==
  MaxOrder \in Nat \ {0} /\ MaxUpdates \in Nat \ {0} /\ MaxChanges \in Nat

Lists == {Main, Archive} \cup Folders
Orders == 0 .. MaxOrder
\* A key of _folderPositions whose chatPosition* is nullptr.
Null == -1

VARIABLES
  \* class ChatList
  chats,     \* _chats: the chats that have a Chat object
  lists,     \* _main_chats_ids, _archive_chats_ids, _filter_chats_ids
  selected,  \* _selectedChatList and _chats_ids: the list the model shows
  timer,     \* _updateListTimer is running
  \* class Chat
  position,  \* _mainPosition, _archivePosition, _folderPositions
  crashed,   \* a null chatPosition was dereferenced
  \* the view
  view,      \* order role of each row as the view read it last
  \* the rest of the program, and TDLib (external)
  authorized, \* isAuthorizedChanged(true) was emitted
  bootup,     \* TelegramManager::_bootupComplete
  updates,    \* events waiting for the GUI thread, oldest first
  asked,      \* lists loadChats was sent for
  announced,  \* chats TDLib has sent in updateNewChat
  server,     \* the positions as TDLib reported them last
  changes     \* counter for the bound MaxChanges

chatVars == <<chats, position>>
modelVars == <<lists, timer, view, crashed>>
tdlibVars == <<announced, server, changes>>
vars == <<chatVars, modelVars, selected, authorized, bootup, updates, asked, tdlibVars>>

\* Positions an update may carry: any lists, each with its order.
PartialOrders == UNION {[D -> Orders] : D \in SUBSET Lists}

ChatEvent == [type : {"newChat", "createdPrivateChat"}, chat : Chats]
PositionEvent == [type : {"position"}, chat : Chats,
                  orders : UNION {[{l} -> Orders] : l \in Lists}]
LastMessageEvent == [type : {"lastMessage"}, chat : Chats, orders : PartialOrders,
                     newer : BOOLEAN]
DraftEvent == [type : {"draft"}, chat : Chats, orders : PartialOrders]
Event == ChatEvent \cup PositionEvent \cup LastMessageEvent \cup DraftEvent

\* Chat::getOrder, for a position that can be read
OrderIn(known, p, c, l) == IF c \in known /\ p[c][l] # Null THEN p[c][l] ELSE 0
Order(c, l) == OrderIn(chats, position, c, l)

\* Mutant of Unreadable: Chat::getOrder reads _mainPosition unchecked.
UnreadableUnchecked(c, l) == position[c][l] = Null \/ (l = Main /\ position[c][l] = 0)

\* Chat::getOrder follows the pointer of a folder it has a key for.
Unreadable(c, l) == position[c][l] = Null

ReadRows(l) == [c \in lists[l] |-> Order(c, l)]
-----------------------------------------------------------------------------
(* TDLib (external): it announces a chat before it mentions it, reports    *)
(* every change of a position, and puts a chat only into lists that were    *)
(* asked for.                                                               *)

Post(e) ==
  /\ Len(updates) < MaxUpdates
  /\ updates' = Append(updates, e)

AnnounceChat(c) ==
  /\ c \notin announced
  /\ announced' = announced \cup {c}
  /\ Post([type |-> "newChat", chat |-> c])
  /\ UNCHANGED <<chatVars, modelVars, selected, authorized, bootup, asked, server, changes>>

\* The answer to createPrivateChat.
AnswerCreatePrivateChat(c) ==
  /\ c \in announced
  /\ Post([type |-> "createdPrivateChat", chat |-> c])
  /\ changes < MaxChanges
  /\ changes' = changes + 1
  /\ UNCHANGED <<chatVars, modelVars, selected, authorized, bootup, asked, announced, server>>

ChangePositions(e) ==
  /\ changes < MaxChanges
  /\ changes' = changes + 1
  /\ \A l \in DOMAIN e.orders : e.orders[l] # 0 => l \in asked
  /\ server' = [server EXCEPT ![e.chat] =
                  [l \in Lists |-> IF l \in DOMAIN e.orders THEN e.orders[l] ELSE @[l]]]
  /\ Post(e)
  /\ UNCHANGED <<chatVars, modelVars, selected, authorized, bootup, asked, announced>>

TDLib ==
  \/ \E c \in Chats : AnnounceChat(c)
  \/ \E c \in announced : AnswerCreatePrivateChat(c)
  \/ \E c \in announced, l \in Lists, o \in Orders :
       ChangePositions([type |-> "position", chat |-> c, orders |-> [x \in {l} |-> o]])
  \/ \E c \in announced, orders \in PartialOrders, newer \in BOOLEAN :
       ChangePositions([type |-> "lastMessage", chat |-> c, orders |-> orders, newer |-> newer])
  \/ \E c \in announced, orders \in PartialOrders :
       ChangePositions([type |-> "draft", chat |-> c, orders |-> orders])
-----------------------------------------------------------------------------
(* The GUI thread: TDLib events.                                            *)

\* ChatList::updateChat, after the lists have changed.  Without the order role
\* the view does not read the order again; the timer will say so.  The order
\* role alone leaves an empty vector of roles, which tells the view that every
\* role of the row changed.
UpdateChat(c, roles, rows) ==
  LET emits == bootup /\ lists'[selected] # {}
  IN /\ timer' = (timer \/ (emits /\ (roles = {} \/ "order" \in roles)))
     /\ view' = IF emits /\ roles = {"order"} /\ c \in DOMAIN rows
                THEN [rows EXCEPT ![c] = OrderIn(chats', position', c, selected)] ELSE rows

\* ChatList::createChat: a Chat object without a position
CreateChat(c) ==
  /\ chats' = chats \cup {c}
  /\ position' = [position EXCEPT ![c] = [l \in Lists |-> 0]]
  /\ UNCHANGED <<lists, crashed>>
  /\ UpdateChat(c, {}, view)

\* Mutant of OnCreatedPrivateChat: the Chat object is always replaced.
OnCreatedPrivateChatReplaces(e) ==
  /\ e.type = "createdPrivateChat"
  /\ CreateChat(e.chat)

\* ChatList::onCreatedPrivateChat
OnCreatedPrivateChat(e) ==
  /\ e.type = "createdPrivateChat"
  /\ IF e.chat \in chats THEN UNCHANGED <<chatVars, modelVars>> ELSE CreateChat(e.chat)

\* ChatList::newChat
NewChat(e) ==
  /\ e.type = "newChat"
  /\ CreateChat(e.chat)

\* Chat::updatePosition: what is left of a position
Stored(l, o) == IF o = 0 /\ l \in Folders THEN Null ELSE o

\* The lists where the order of the Chat object is not the reported one.
Moved(c, orders) ==
  {l \in DOMAIN orders : c \in chats /\ ~Unreadable(c, l) /\ Order(c, l) # orders[l]}

\* Mutant of SetChatPositions: an order is taken over only with a new row.
SetChatPositionsFirstOnly(c, orders) ==
  /\ lists' = [l \in Lists |-> IF l \notin DOMAIN orders THEN lists[l]
                               ELSE IF orders[l] = 0 THEN lists[l] \ {c}
                               ELSE lists[l] \cup {c}]
  /\ crashed' = \E l \in DOMAIN orders : c \in chats /\ Unreadable(c, l)
  /\ position' = [position EXCEPT ![c] =
       [l \in Lists |-> IF l \in Moved(c, orders) /\ (c \notin lists[l] \/ orders[l] = 0)
                        THEN Stored(l, orders[l]) ELSE @[l]]]

\* ChatList::setChatPosition, for each position of an update
SetChatPositions(c, orders) ==
  /\ lists' = [l \in Lists |-> IF l \notin DOMAIN orders THEN lists[l]
                               ELSE IF orders[l] = 0 THEN lists[l] \ {c}
                               ELSE lists[l] \cup {c}]
  /\ crashed' = \E l \in DOMAIN orders : c \in chats /\ Unreadable(c, l)
  /\ position' = [position EXCEPT ![c] =
       [l \in Lists |-> IF l \in Moved(c, orders) THEN Stored(l, orders[l]) ELSE @[l]]]

\* Mutant of MovedRows: no beginInsertRows for a chat that has no position yet.
MovedRowsUntold(c) == [x \in lists'[selected] \cap DOMAIN view |-> view[x]]

\* The rows the view knows of when setChatPosition returns: it reads a new row
\* before the Chat object has its position.
MovedRows(c) ==
  [x \in lists'[selected] |-> IF x \in DOMAIN view THEN view[x] ELSE Order(x, selected)]

\* ChatList::updateChatPosition
UpdateChatPosition(e) ==
  /\ e.type = "position"
  /\ UNCHANGED chats
  /\ SetChatPositions(e.chat, e.orders)
  /\ UpdateChat(e.chat, {"order"}, MovedRows(e.chat))

\* ChatList::updateChatLastMessage; "newer" is a last message not seen before.
UpdateChatLastMessage(e) ==
  /\ e.type = "lastMessage"
  /\ UNCHANGED chats
  /\ SetChatPositions(e.chat, e.orders)
  /\ UpdateChat(e.chat,
                (IF Moved(e.chat, e.orders) # {} THEN {"order"} ELSE {})
                  \cup (IF e.newer THEN {"content"} ELSE {}),
                MovedRows(e.chat))

\* ChatList::updateChatDraftMessage
UpdateChatDraftMessage(e) ==
  /\ e.type = "draft"
  /\ UNCHANGED chats
  /\ SetChatPositions(e.chat, e.orders)
  /\ UpdateChat(e.chat, {"order"}, MovedRows(e.chat))

HandleNextUpdate ==
  /\ updates # <<>>
  /\ ~crashed
  /\ updates' = Tail(updates)
  /\ \E e \in {Head(updates)} :
       \/ NewChat(e)
       \/ OnCreatedPrivateChat(e)
       \/ UpdateChatPosition(e)
       \/ UpdateChatLastMessage(e)
       \/ UpdateChatDraftMessage(e)
  /\ UNCHANGED <<selected, authorized, bootup, asked, tdlibVars>>
-----------------------------------------------------------------------------
(* The GUI thread: the user, the timer and other components.                *)

\* ChatList::onIsAuthorizedChanged
OnIsAuthorizedChanged ==
  /\ ~authorized /\ ~crashed
  /\ authorized' = TRUE
  /\ asked' = asked \cup {selected}
  /\ UNCHANGED <<chatVars, modelVars, selected, bootup, updates, tdlibVars>>

\* ChatList::switchChatList, from the page that is shown once authorized
SwitchChatList(l) ==
  /\ authorized /\ ~crashed
  /\ selected' = l
  /\ asked' = IF lists[l] = {} THEN asked \cup {l} ELSE asked
  /\ view' = ReadRows(l)
  /\ UNCHANGED <<chatVars, lists, timer, crashed, authorized, bootup, updates, tdlibVars>>

\* ChatList::onBootupComplete, the flag set by TelegramManager just before
OnBootupComplete ==
  /\ ~crashed
  /\ bootup' = TRUE
  /\ view' = ReadRows(selected)
  /\ UNCHANGED <<chatVars, lists, timer, crashed, selected, authorized, updates, asked, tdlibVars>>

\* Mutant of TimerFires: the timer goes off and tells the view nothing.
TimerFiresUnheard ==
  /\ timer /\ ~crashed
  /\ timer' = FALSE
  /\ UNCHANGED <<chatVars, lists, view, crashed, selected, authorized, bootup, updates, asked,
                 tdlibVars>>

\* the timeout of _updateListTimer
TimerFires ==
  /\ timer /\ ~crashed
  /\ timer' = FALSE
  /\ view' = ReadRows(selected)
  /\ UNCHANGED <<chatVars, lists, crashed, selected, authorized, bootup, updates, asked, tdlibVars>>
-----------------------------------------------------------------------------
Init ==
  /\ chats = {}
  /\ lists = [l \in Lists |-> {}]
  /\ selected = Main
  /\ timer = FALSE
  /\ position = [c \in Chats |-> [l \in Lists |-> 0]]
  /\ crashed = FALSE
  /\ view = [c \in {} |-> 0]
  /\ authorized = FALSE
  /\ bootup = FALSE
  /\ updates = <<>>
  /\ asked = {}
  /\ announced = {}
  /\ server = [c \in Chats |-> [l \in Lists |-> 0]]
  /\ changes = 0

Next ==
  \/ TDLib
  \/ HandleNextUpdate
  \/ OnIsAuthorizedChanged
  \/ \E l \in Lists : SwitchChatList(l)
  \/ OnBootupComplete
  \/ TimerFires

\* The Qt event loop runs a timer that is due.  An update restarts the timer,
\* so this needs updates that pause for its interval: TDLib's are bounded here.
Fairness == WF_vars(TimerFires)

Spec == Init /\ [][Next]_vars /\ Fairness
-----------------------------------------------------------------------------
(* Properties.                                                              *)

TypeOK ==
  /\ chats \subseteq announced /\ announced \subseteq Chats
  /\ lists \in [Lists -> SUBSET Chats]
  /\ selected \in Lists
  /\ position \in [Chats -> [Lists -> Orders \cup {Null}]]
  /\ view \in UNION {[D -> Orders] : D \in SUBSET Chats}
  /\ {timer, crashed, authorized, bootup} \subseteq BOOLEAN
  /\ updates \in Seq(Event) /\ Len(updates) <= MaxUpdates
  /\ asked \subseteq Lists
  /\ server \in [Chats -> [Lists -> Orders]]
  /\ changes \in 0 .. MaxChanges

\* The two copies of the positions agree: a chat is in a list exactly if its
\* Chat object has a position there.  The view relies on it: the rows it shows
\* call Chat::isPinned, which dereferences the position unchecked.
ListsMatchPositions ==
  ~crashed => \A l \in Lists : lists[l] = {c \in chats : Order(c, l) # 0}

\* What makes ListsMatchPositions inductive (proved in ChatPositionsProofs): a
\* chat is announced by one event, which comes before every other event about it.
Announces(i, c) == updates[i].type = "newChat" /\ updates[i].chat = c

AnnouncedFirst ==
  /\ \A c \in announced : c \in chats \/ \E i \in DOMAIN updates : Announces(i, c)
  /\ \A c \in chats, i \in DOMAIN updates : ~Announces(i, c)
  /\ \A c \in Chats, i, j \in DOMAIN updates : Announces(i, c) /\ Announces(j, c) => i = j
  /\ \A i \in DOMAIN updates :
       /\ updates[i].chat \in announced
       /\ \/ updates[i].chat \in chats
          \/ \E j \in 1 .. i : Announces(j, updates[i].chat)

ListsInv == ListsMatchPositions /\ AnnouncedFirst

\* The model has told the view about every row of the selected list, and about
\* no other: begin/endInsertRows and begin/endRemoveRows are paired with the
\* changes of the vector, whatever list is selected when they happen.
ViewKnowsRows == DOMAIN view = lists[selected]

\* Once everything TDLib sent is handled, every Chat object has the positions
\* TDLib reported last, even where several updates report one list.
PositionsAgree ==
  updates = <<>> /\ ~crashed =>
    \A c \in announced, l \in Lists : Order(c, l) = server[c][l]

\* The null pointer of Chat::getOrder needs a chat that has left a folder and
\* is mentioned with that folder again; the main list and the archive are safe.
CrashNeedsLeftFolder ==
  crashed => \E c \in chats, f \in Folders : position[c][f] = Null

Stale == bootup /\ ~crashed /\ \E c \in DOMAIN view : view[c] # Order(c, selected)

\* The view does not sort by an old order for ever.
ViewCatchesUp == Stale ~> ~Stale
=============================================================================
