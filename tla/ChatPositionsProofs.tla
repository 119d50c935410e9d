------------------------ MODULE ChatPositionsProofs ------------------------
(***************************************************************************)
(* Proofs about ChatPositions: every variable keeps its type; the lists of *)
(* class ChatList agree with the positions of the Chat objects; the view   *)
(* has been told of every row; the null pointer is met only at a chat that *)
(* has left a folder; and the Chat objects follow what TDLib reported      *)
(* last.  The invariant of the lists is ListsInv: a position is stored     *)
(* only with a Chat object, so the announcement of a chat must be handled  *)
(* before anything else about it, and only once.  That of the positions is *)
(* LastWord: the last update that mentions a list says what the server     *)
(* has.                                                                    *)
(***************************************************************************)
EXTENDS ChatPositions, SequenceTheorems, TLAPS

\* Orders are naturals, and no order is the null pointer.
LEMMA OrderTypes == 0 \in Orders /\ Null \notin Orders /\ \A o \in Orders : o \in Nat
BY BoundsAssumption DEF Orders, Null

LEMMA OrderType ==
  ASSUME TypeOK, NEW c \in Chats, NEW l \in Lists
  PROVE  Order(c, l) \in Orders
BY OrderTypes DEF TypeOK, Order, OrderIn

\* The type of an event says what it carries.
LEMMA EventFields ==
  ASSUME NEW e \in Event
  PROVE  /\ e.chat \in Chats
         /\ e.type \in {"newChat", "createdPrivateChat", "position", "lastMessage", "draft"}
         /\ e.type \in {"position", "lastMessage", "draft"} => e.orders \in PartialOrders
<1>1. CASE e \in ChatEvent
  BY <1>1 DEF ChatEvent
<1>2. CASE e \in PositionEvent
  BY <1>2 DEF PositionEvent, PartialOrders
<1>3. CASE e \in LastMessageEvent
  BY <1>3 DEF LastMessageEvent
<1>4. CASE e \in DraftEvent
  BY <1>4 DEF DraftEvent
<1> QED BY <1>1, <1>2, <1>3, <1>4 DEF Event
-----------------------------------------------------------------------------
\* What the view may hold: an order for each of some chats.
RowOrders == UNION {[D -> Orders] : D \in SUBSET Chats}

LEMMA RowOrdersIntro ==
  ASSUME NEW D \in SUBSET Chats, NEW f \in [D -> Orders]
  PROVE  f \in RowOrders
BY DEF RowOrders

LEMMA ReadRowsType ==
  ASSUME TypeOK, NEW l \in Lists
  PROVE  ReadRows(l) \in RowOrders
<1>1. lists[l] \in SUBSET Chats
  BY DEF TypeOK
<1>2. \A c \in lists[l] : Order(c, l) \in Orders
  BY <1>1, OrderType
<1>3. ReadRows(l) \in [lists[l] -> Orders]
  BY <1>2 DEF ReadRows
<1> QED BY <1>1, <1>3, RowOrdersIntro

LEMMA InitType == Init => TypeOK
<1> SUFFICES ASSUME Init PROVE TypeOK
  OBVIOUS
<1>1. updates \in Seq(Event) /\ Len(updates) <= MaxUpdates
  BY BoundsAssumption DEF Init
<1>2. view \in RowOrders
  BY DEF Init, RowOrders
<1>3. changes \in 0 .. MaxChanges
  BY BoundsAssumption DEF Init
<1> QED BY <1>1, <1>2, <1>3, OrderTypes DEF Init, TypeOK, Lists, RowOrders

\* An event that TDLib posts is queued.
LEMMA PostType ==
  ASSUME TypeOK, NEW e \in Event, Post(e)
  PROVE  updates' \in Seq(Event) /\ Len(updates') <= MaxUpdates
<1>1. updates \in Seq(Event) /\ MaxUpdates \in Nat
  BY BoundsAssumption DEF TypeOK
<1>2. updates' \in Seq(Event) /\ Len(updates') = Len(updates) + 1
  BY <1>1, AppendProperties DEF Post
<1>3. Len(updates) \in Nat /\ Len(updates) < MaxUpdates
  BY <1>1, LenProperties DEF Post
<1> QED BY <1>1, <1>2, <1>3

\* The ways in which TDLib posts an event about a chat.
LEMMA ServerCases ==
  ASSUME TypeOK, TDLib
  PROVE  \/ \E c \in Chats : AnnounceChat(c)
         \/ \E c \in announced : AnswerCreatePrivateChat(c)
         \/ \E e \in Event : /\ e.type \in {"position", "lastMessage", "draft"}
                             /\ e.chat \in announced
                             /\ ChangePositions(e)
<1>1. ASSUME NEW c \in announced, NEW l \in Lists, NEW o \in Orders
      PROVE  [type |-> "position", chat |-> c, orders |-> [x \in {l} |-> o]] \in Event
  <2>1. c \in Chats
    BY DEF TypeOK
  <2>2. [x \in {l} |-> o] \in UNION {[{k} -> Orders] : k \in Lists}
    OBVIOUS
  <2> QED BY <2>1, <2>2 DEF Event, PositionEvent
<1>2. ASSUME NEW c \in announced, NEW orders \in PartialOrders, NEW newer \in BOOLEAN
      PROVE  [type |-> "lastMessage", chat |-> c, orders |-> orders, newer |-> newer] \in Event
  BY DEF TypeOK, Event, LastMessageEvent
<1>3. ASSUME NEW c \in announced, NEW orders \in PartialOrders
      PROVE  [type |-> "draft", chat |-> c, orders |-> orders] \in Event
  BY DEF TypeOK, Event, DraftEvent
<1>4. CASE \E c \in announced, l \in Lists, o \in Orders :
             ChangePositions([type |-> "position", chat |-> c, orders |-> [x \in {l} |-> o]])
  BY <1>1, <1>4
<1>5. CASE \E c \in announced, orders \in PartialOrders, newer \in BOOLEAN :
             ChangePositions([type |-> "lastMessage", chat |-> c, orders |-> orders,
                              newer |-> newer])
  BY <1>2, <1>5
<1>6. CASE \E c \in announced, orders \in PartialOrders :
             ChangePositions([type |-> "draft", chat |-> c, orders |-> orders])
  BY <1>3, <1>6
<1> QED BY <1>4, <1>5, <1>6 DEF TDLib

LEMMA ServerType ==
  ASSUME TypeOK, TDLib
  PROVE  TypeOK'
<1>1. CASE \E c \in Chats : AnnounceChat(c)
  <2>1. PICK c \in Chats : AnnounceChat(c)
    BY <1>1
  <2>2. [type |-> "newChat", chat |-> c] \in Event
    BY DEF Event, ChatEvent
  <2>3. updates' \in Seq(Event) /\ Len(updates') <= MaxUpdates
    BY <2>1, <2>2, PostType DEF AnnounceChat
  <2> QED BY <2>1, <2>3 DEF AnnounceChat, TypeOK, chatVars, modelVars
<1>2. CASE \E c \in announced : AnswerCreatePrivateChat(c)
  <2>1. PICK c \in announced : AnswerCreatePrivateChat(c)
    BY <1>2
  <2>2. [type |-> "createdPrivateChat", chat |-> c] \in Event
    BY DEF Event, ChatEvent, TypeOK
  <2>3. updates' \in Seq(Event) /\ Len(updates') <= MaxUpdates
    BY <2>1, <2>2, PostType DEF AnswerCreatePrivateChat
  <2>4. changes' \in 0 .. MaxChanges
    BY <2>1, BoundsAssumption DEF AnswerCreatePrivateChat, TypeOK
  <2> QED BY <2>1, <2>3, <2>4 DEF AnswerCreatePrivateChat, TypeOK, chatVars, modelVars
<1>3. CASE \E e \in Event : /\ e.type \in {"position", "lastMessage", "draft"}
                            /\ e.chat \in announced
                            /\ ChangePositions(e)
  <2>1. PICK e \in Event : /\ e.type \in {"position", "lastMessage", "draft"}
                           /\ ChangePositions(e)
    BY <1>3
  <2>2. updates' \in Seq(Event) /\ Len(updates') <= MaxUpdates
    BY <2>1, PostType DEF ChangePositions
  <2>3. changes' \in 0 .. MaxChanges
    BY <2>1, BoundsAssumption DEF ChangePositions, TypeOK
  <2>4. server' \in [Chats -> [Lists -> Orders]]
    <3>1. e.chat \in Chats /\ e.orders \in PartialOrders
      BY <2>1, EventFields
    <3>2. PICK D \in SUBSET Lists : e.orders \in [D -> Orders]
      BY <3>1 DEF PartialOrders
    <3>3. [l \in Lists |-> IF l \in DOMAIN e.orders THEN e.orders[l] ELSE server[e.chat][l]]
            \in [Lists -> Orders]
      BY <3>1, <3>2 DEF TypeOK
    <3> QED BY <2>1, <3>1, <3>3 DEF ChangePositions, TypeOK
  <2> QED BY <2>1, <2>2, <2>3, <2>4 DEF ChangePositions, TypeOK, chatVars, modelVars
<1> QED BY <1>1, <1>2, <1>3, ServerCases

\* The rows of the view after setChatPosition, and the order read by updateChat.
LEMMA UpdateChatType ==
  ASSUME TypeOK, NEW c \in Chats, NEW roles, NEW rows \in RowOrders,
         chats' \subseteq announced, position' \in [Chats -> [Lists -> Orders \cup {Null}]],
         UpdateChat(c, roles, rows)
  PROVE  timer' \in BOOLEAN /\ view' \in RowOrders
<1>1. selected \in Lists /\ timer \in BOOLEAN
  BY DEF TypeOK
<1>2. OrderIn(chats', position', c, selected) \in Orders
  BY <1>1, OrderTypes DEF OrderIn
<1>3. timer' \in BOOLEAN
  BY <1>1 DEF UpdateChat
<1>4. view' = rows \/ view' = [rows EXCEPT ![c] = OrderIn(chats', position', c, selected)]
  BY DEF UpdateChat
<1>5. [rows EXCEPT ![c] = OrderIn(chats', position', c, selected)] \in RowOrders
  <2>1. PICK D \in SUBSET Chats : rows \in [D -> Orders]
    BY DEF RowOrders
  <2>2. [rows EXCEPT ![c] = OrderIn(chats', position', c, selected)] \in [D -> Orders]
    BY <1>2, <2>1
  <2> QED BY <2>1, <2>2, RowOrdersIntro
<1> QED BY <1>3, <1>4, <1>5

LEMMA CreateChatType ==
  ASSUME TypeOK, NEW c \in announced, CreateChat(c)
  PROVE  /\ chats' \subseteq announced
         /\ lists' \in [Lists -> SUBSET Chats]
         /\ position' \in [Chats -> [Lists -> Orders \cup {Null}]]
         /\ crashed' \in BOOLEAN /\ timer' \in BOOLEAN /\ view' \in RowOrders
<1>1. c \in Chats /\ view \in RowOrders
  BY DEF TypeOK, RowOrders
<1>2. chats' \subseteq announced /\ lists' \in [Lists -> SUBSET Chats] /\ crashed' \in BOOLEAN
  BY DEF CreateChat, TypeOK
<1>3. position' \in [Chats -> [Lists -> Orders \cup {Null}]]
  BY OrderTypes DEF CreateChat, TypeOK
<1>4. timer' \in BOOLEAN /\ view' \in RowOrders
  BY <1>1, <1>2, <1>3, UpdateChatType DEF CreateChat
<1> QED BY <1>2, <1>3, <1>4

LEMMA SetChatPositionsType ==
  ASSUME TypeOK, NEW c \in Chats, NEW orders \in PartialOrders, NEW roles,
         UNCHANGED chats, SetChatPositions(c, orders), UpdateChat(c, roles, MovedRows(c))
  PROVE  /\ chats' \subseteq announced
         /\ lists' \in [Lists -> SUBSET Chats]
         /\ position' \in [Chats -> [Lists -> Orders \cup {Null}]]
         /\ crashed' \in BOOLEAN /\ timer' \in BOOLEAN /\ view' \in RowOrders
<1>0. PICK D \in SUBSET Lists : orders \in [D -> Orders]
  BY DEF PartialOrders
<1>1. chats' \subseteq announced
  BY DEF TypeOK
<1>2. lists' \in [Lists -> SUBSET Chats]
  BY DEF SetChatPositions, TypeOK
<1>3. position' \in [Chats -> [Lists -> Orders \cup {Null}]]
  <2>1. \A l \in Moved(c, orders) : Stored(l, orders[l]) \in Orders \cup {Null}
    BY <1>0 DEF Moved, Stored
  <2>2. [l \in Lists |-> IF l \in Moved(c, orders) THEN Stored(l, orders[l]) ELSE position[c][l]]
          \in [Lists -> Orders \cup {Null}]
    BY <2>1 DEF TypeOK
  <2> QED BY <2>2 DEF SetChatPositions, TypeOK
<1>4. crashed' \in BOOLEAN
  BY DEF SetChatPositions
<1>5. MovedRows(c) \in RowOrders
  <2>1. PICK E \in SUBSET Chats : view \in [E -> Orders]
    BY DEF TypeOK
  <2>2. lists'[selected] \in SUBSET Chats /\ selected \in Lists
    BY <1>2 DEF TypeOK
  <2>3. \A x \in lists'[selected] :
          (IF x \in DOMAIN view THEN view[x] ELSE Order(x, selected)) \in Orders
    BY <2>1, <2>2, OrderType
  <2>4. MovedRows(c) \in [lists'[selected] -> Orders]
    BY <2>3 DEF MovedRows
  <2> QED BY <2>2, <2>4, RowOrdersIntro
<1>6. timer' \in BOOLEAN /\ view' \in RowOrders
  BY <1>1, <1>3, <1>5, UpdateChatType
<1> QED BY <1>1, <1>2, <1>3, <1>4, <1>6

\* What the handlers of TDLib's events do: nothing, a new Chat, new positions.
LEMMA HandlerCases ==
  ASSUME TypeOK, HandleNextUpdate
  PROVE  \E e \in Event :
           /\ e = Head(updates) /\ e = updates[1] /\ 1 \in DOMAIN updates
           /\ \/ e.type = "createdPrivateChat" /\ e.chat \in chats
                 /\ UNCHANGED <<chatVars, modelVars>>
              \/ e.type = "createdPrivateChat" /\ e.chat \notin chats /\ CreateChat(e.chat)
              \/ e.type = "newChat" /\ CreateChat(e.chat)
              \/ /\ e.type \in {"position", "lastMessage", "draft"}
                 /\ e.orders \in PartialOrders
                 /\ UNCHANGED chats
                 /\ SetChatPositions(e.chat, e.orders)
                 /\ \E roles \in SUBSET {"order", "content"} :
                      UpdateChat(e.chat, roles, MovedRows(e.chat))
<1> DEFINE e == Head(updates)
<1>1. e \in Event /\ e = updates[1] /\ 1 \in DOMAIN updates
  BY HeadTailProperties, LenProperties, EmptySeq DEF TypeOK, HandleNextUpdate
<1>2. \/ NewChat(e) \/ OnCreatedPrivateChat(e) \/ UpdateChatPosition(e)
      \/ UpdateChatLastMessage(e) \/ UpdateChatDraftMessage(e)
  BY DEF HandleNextUpdate
<1> HIDE DEF e
<1>3. e.type \in {"position", "lastMessage", "draft"} => e.orders \in PartialOrders
  BY <1>1, EventFields
<1>4. CASE NewChat(e)
  BY <1>1, <1>4 DEF NewChat, e
<1>5. CASE OnCreatedPrivateChat(e)
  BY <1>1, <1>5 DEF OnCreatedPrivateChat, e
<1>6. CASE UpdateChatPosition(e)
  BY <1>1, <1>3, <1>6 DEF UpdateChatPosition, e
<1>7. CASE UpdateChatLastMessage(e)
  <2>1. PICK roles \in SUBSET {"order", "content"} :
          UpdateChat(e.chat, roles, MovedRows(e.chat))
    BY <1>7 DEF UpdateChatLastMessage
  <2> QED BY <1>1, <1>3, <1>7, <2>1 DEF UpdateChatLastMessage, e
<1>8. CASE UpdateChatDraftMessage(e)
  BY <1>1, <1>3, <1>8 DEF UpdateChatDraftMessage, e
<1> QED BY <1>2, <1>4, <1>5, <1>6, <1>7, <1>8

LEMMA HandlerType ==
  ASSUME TypeOK, HandleNextUpdate, \A i \in DOMAIN updates : updates[i].chat \in announced
  PROVE  TypeOK'
<1>1. updates' \in Seq(Event) /\ Len(updates') <= MaxUpdates
  <2>1. updates \in Seq(Event) /\ updates # <<>> /\ updates' = Tail(updates)
    BY DEF HandleNextUpdate, TypeOK
  <2>2. updates' \in Seq(Event) /\ Len(updates') = Len(updates) - 1 /\ Len(updates) \in Nat
    BY <2>1, HeadTailProperties, LenProperties
  <2> QED BY <2>2, BoundsAssumption DEF TypeOK
<1>2. /\ chats' \subseteq announced
      /\ lists' \in [Lists -> SUBSET Chats]
      /\ position' \in [Chats -> [Lists -> Orders \cup {Null}]]
      /\ crashed' \in BOOLEAN /\ timer' \in BOOLEAN /\ view' \in RowOrders
  <2>1. PICK e \in Event :
          /\ e = updates[1] /\ 1 \in DOMAIN updates
          /\ \/ UNCHANGED <<chatVars, modelVars>>
             \/ CreateChat(e.chat)
             \/ /\ e.orders \in PartialOrders
                /\ UNCHANGED chats
                /\ SetChatPositions(e.chat, e.orders)
                /\ \E roles \in SUBSET {"order", "content"} :
                     UpdateChat(e.chat, roles, MovedRows(e.chat))
    BY HandlerCases
  <2>2. e.chat \in announced /\ e.chat \in Chats
    BY <2>1, EventFields
  <2>3. CASE UNCHANGED <<chatVars, modelVars>>
    BY <2>3 DEF TypeOK, chatVars, modelVars, RowOrders
  <2>4. CASE CreateChat(e.chat)
    BY <2>2, <2>4, CreateChatType
  <2>5. CASE /\ e.orders \in PartialOrders
             /\ UNCHANGED chats
             /\ SetChatPositions(e.chat, e.orders)
             /\ \E roles \in SUBSET {"order", "content"} :
                  UpdateChat(e.chat, roles, MovedRows(e.chat))
    BY <2>2, <2>5, SetChatPositionsType
  <2> QED BY <2>1, <2>3, <2>4, <2>5
<1> QED BY <1>1, <1>2 DEF HandleNextUpdate, TypeOK, tdlibVars, RowOrders

\* The user, the timer and the start of the program.
Page ==
  \/ OnIsAuthorizedChanged
  \/ \E l \in Lists : SwitchChatList(l)
  \/ OnBootupComplete
  \/ TimerFires

LEMMA PageType ==
  ASSUME TypeOK, Page
  PROVE  TypeOK'
<1>1. CASE OnIsAuthorizedChanged
  BY <1>1 DEF OnIsAuthorizedChanged, TypeOK, chatVars, modelVars, tdlibVars
<1>2. CASE \E l \in Lists : SwitchChatList(l)
  <2>1. PICK l \in Lists : SwitchChatList(l)
    BY <1>2
  <2>2. view' \in RowOrders
    BY <2>1, ReadRowsType DEF SwitchChatList
  <2> QED BY <2>1, <2>2 DEF SwitchChatList, TypeOK, chatVars, tdlibVars, RowOrders
<1>3. CASE OnBootupComplete
  <2>1. view' \in RowOrders
    BY <1>3, ReadRowsType DEF OnBootupComplete, TypeOK
  <2> QED BY <1>3, <2>1 DEF OnBootupComplete, TypeOK, chatVars, tdlibVars, RowOrders
<1>4. CASE TimerFires
  <2>1. view' \in RowOrders
    BY <1>4, ReadRowsType DEF TimerFires, TypeOK
  <2> QED BY <1>4, <2>1 DEF TimerFires, TypeOK, chatVars, tdlibVars, RowOrders
<1> QED BY <1>1, <1>2, <1>3, <1>4 DEF Page
-----------------------------------------------------------------------------
\* Every chat an event speaks of has been announced, and the announcement of a
\* chat is handled once and first.
LEMMA ServerOrder ==
  ASSUME TypeOK, AnnouncedFirst, TDLib
  PROVE  AnnouncedFirst'
<1>1. PICK n \in Nat : /\ updates \in Seq(Event) /\ n = Len(updates)
                      /\ DOMAIN updates = 1 .. n
  BY LenProperties DEF TypeOK
<1>2. ASSUME NEW e, Post(e)
      PROVE  /\ DOMAIN updates' = 1 .. n + 1 /\ updates'[n + 1] = e
             /\ \A i \in 1 .. n : updates'[i] = updates[i]
  BY <1>1, <1>2 DEF Post
<1>3. CASE \E c \in Chats : AnnounceChat(c)
  <2>1. PICK c \in Chats : AnnounceChat(c)
    BY <1>3
  <2> DEFINE e == [type |-> "newChat", chat |-> c]
  <2>2. /\ Post(e) /\ e.type = "newChat" /\ e.chat = c
        /\ c \notin announced /\ announced' = announced \cup {c} /\ chats' = chats
    BY <2>1 DEF AnnounceChat, chatVars
  <2> HIDE DEF e
  <2>3. /\ DOMAIN updates' = 1 .. n + 1 /\ updates'[n + 1] = e
        /\ \A i \in 1 .. n : updates'[i] = updates[i]
    BY <1>2, <2>2
  <2>4. \A i \in 1 .. n : ~Announces(i, c)
    BY <1>1, <2>2 DEF AnnouncedFirst, Announces
  <2>5. \A i \in 1 .. n, d \in Chats : Announces(i, d)' <=> Announces(i, d)
    BY <2>3 DEF Announces
  <2>6. \A d \in Chats : Announces(n + 1, d)' <=> d = c
    BY <2>2, <2>3 DEF Announces
  <2>7. c \notin chats /\ chats \subseteq Chats /\ announced \subseteq Chats
    BY <2>2 DEF TypeOK
  <2>8. (\A d \in announced : d \in chats \/ \E i \in DOMAIN updates : Announces(i, d))'
    BY <1>1, <2>2, <2>3, <2>5, <2>6, <2>7 DEF AnnouncedFirst
  <2>9. (\A d \in chats, i \in DOMAIN updates : ~Announces(i, d))'
    BY <1>1, <2>2, <2>3, <2>5, <2>6, <2>7 DEF AnnouncedFirst
  <2>10. (\A d \in Chats, i, j \in DOMAIN updates : Announces(i, d) /\ Announces(j, d) => i = j)'
    BY <1>1, <2>3, <2>4, <2>5, <2>6 DEF AnnouncedFirst
  <2>11. (\A i \in DOMAIN updates :
            /\ updates[i].chat \in announced
            /\ \/ updates[i].chat \in chats
               \/ \E j \in 1 .. i : Announces(j, updates[i].chat))'
    <3> SUFFICES ASSUME NEW i \in 1 .. n + 1
                 PROVE  /\ updates'[i].chat \in announced'
                        /\ \/ updates'[i].chat \in chats'
                           \/ \E j \in 1 .. i : Announces(j, updates[i].chat)'
      BY <2>3
    <3>1. CASE i \in 1 .. n
      <4>1. updates[i].chat \in announced /\ updates'[i] = updates[i]
        BY <1>1, <2>3, <3>1 DEF AnnouncedFirst
      <4>2. CASE updates[i].chat \in chats
        BY <2>2, <4>1, <4>2
      <4>3. CASE \E j \in 1 .. i : Announces(j, updates[i].chat)
        <5>1. PICK j \in 1 .. i : Announces(j, updates[i].chat)
          BY <4>3
        <5>2. j \in 1 .. n
          BY <1>1, <3>1
        <5>3. Announces(j, updates[i].chat)'
          BY <2>3, <4>1, <5>1, <5>2 DEF Announces
        <5> QED BY <2>2, <4>1, <5>3
      <4> QED BY <1>1, <3>1, <4>2, <4>3 DEF AnnouncedFirst
    <3>2. CASE i = n + 1
      <4>1. Announces(n + 1, updates[i].chat)'
        BY <2>2, <2>3, <3>2 DEF Announces
      <4> QED BY <1>1, <2>2, <2>3, <3>2, <4>1
    <3> QED BY <1>1, <3>1, <3>2
  <2> QED BY <2>8, <2>9, <2>10, <2>11 DEF AnnouncedFirst
<1>4. ASSUME NEW e, e.type # "newChat", e.chat \in announced, Post(e),
             UNCHANGED <<chats, announced>>
      PROVE  AnnouncedFirst'
  <2>1. /\ DOMAIN updates' = 1 .. n + 1 /\ updates'[n + 1] = e
        /\ \A i \in 1 .. n : updates'[i] = updates[i]
    BY <1>2, <1>4
  <2>2. \A i \in 1 .. n, d \in Chats : Announces(i, d)' <=> Announces(i, d)
    BY <2>1 DEF Announces
  <2>3. \A d \in Chats : ~Announces(n + 1, d)'
    BY <1>4, <2>1 DEF Announces
  <2>4. chats \subseteq Chats /\ announced \subseteq Chats
    BY DEF TypeOK
  <2>5. (\A d \in announced : d \in chats \/ \E i \in DOMAIN updates : Announces(i, d))'
    BY <1>1, <1>4, <2>1, <2>2, <2>4 DEF AnnouncedFirst
  <2>6. (\A d \in chats, i \in DOMAIN updates : ~Announces(i, d))'
    BY <1>1, <1>4, <2>1, <2>2, <2>3, <2>4 DEF AnnouncedFirst
  <2>7. (\A d \in Chats, i, j \in DOMAIN updates : Announces(i, d) /\ Announces(j, d) => i = j)'
    BY <1>1, <2>1, <2>2, <2>3 DEF AnnouncedFirst
  <2>8. ASSUME NEW d \in announced, NEW i \in 1 .. n + 1,
               d \in chats \/ \E j \in 1 .. i : j \in 1 .. n /\ Announces(j, d)
        PROVE  d \in chats' \/ \E j \in 1 .. i : Announces(j, d)'
    BY <1>4, <2>2, <2>4, <2>8
  <2>9. (\A i \in DOMAIN updates :
            /\ updates[i].chat \in announced
            /\ \/ updates[i].chat \in chats
               \/ \E j \in 1 .. i : Announces(j, updates[i].chat))'
    <3> SUFFICES ASSUME NEW i \in 1 .. n + 1
                 PROVE  /\ updates'[i].chat \in announced
                        /\ \/ updates'[i].chat \in chats'
                           \/ \E j \in 1 .. i : Announces(j, updates[i].chat)'
      BY <1>4, <2>1
    <3>1. PICK d \in announced : d = updates'[i].chat
      BY <1>1, <1>4, <2>1 DEF AnnouncedFirst
    <3>2. d \in chats \/ \E j \in 1 .. i : j \in 1 .. n /\ Announces(j, d)
      <4>1. CASE i \in 1 .. n
        BY <1>1, <2>1, <3>1, <4>1 DEF AnnouncedFirst
      <4>2. CASE i = n + 1
        BY <1>1, <1>4, <2>1, <3>1, <4>2 DEF AnnouncedFirst
      <4> QED BY <1>1, <4>1, <4>2
    <3>3. d \in chats' \/ \E j \in 1 .. i : Announces(j, d)'
      BY <2>8, <3>2
    <3> QED BY <3>1, <3>3 DEF Announces
  <2> QED BY <2>5, <2>6, <2>7, <2>9 DEF AnnouncedFirst
<1>5. CASE \E c \in announced : AnswerCreatePrivateChat(c)
  BY <1>4, <1>5 DEF AnswerCreatePrivateChat, chatVars
<1>6. CASE \E e \in Event : /\ e.type \in {"position", "lastMessage", "draft"}
                            /\ e.chat \in announced
                            /\ ChangePositions(e)
  BY <1>4, <1>6 DEF ChangePositions, chatVars
<1> QED BY <1>3, <1>5, <1>6, ServerCases

\* Handling the head of the queue: a new chat is one that was announced there
\* and nowhere else, and any other event finds its Chat object.
LEMMA HandlerOrder ==
  ASSUME TypeOK, AnnouncedFirst, HandleNextUpdate
  PROVE  AnnouncedFirst'
<1>1. PICK n \in Nat : /\ updates \in Seq(Event) /\ n = Len(updates)
                       /\ DOMAIN updates = 1 .. n
  BY LenProperties DEF TypeOK
<1>2. /\ n >= 1 /\ DOMAIN updates' = 1 .. n - 1 /\ announced' = announced
      /\ \A i \in 1 .. n - 1 : updates'[i] = updates[i + 1]
  <2>1. updates # <<>> /\ updates' = Tail(updates) /\ announced' = announced
    BY DEF HandleNextUpdate, tdlibVars
  <2>2. n >= 1 /\ DOMAIN Tail(updates) = 1 .. n - 1
    BY <1>1, <2>1, HeadTailProperties, LenProperties, EmptySeq
  <2>3. \A i \in 1 .. n - 1 : Tail(updates)[i] = updates[i + 1]
    BY <1>1, <2>1, HeadTailProperties
  <2> QED BY <2>1, <2>2, <2>3
<1>3. PICK c \in Chats : updates[1].chat = c /\ c \in announced
  BY <1>1, <1>2 DEF AnnouncedFirst, TypeOK
<1>4. \A i \in 1 .. n - 1, d \in Chats : Announces(i, d)' <=> Announces(i + 1, d)
  BY <1>2 DEF Announces
<1>5. chats \subseteq Chats /\ announced \subseteq Chats
  BY DEF TypeOK
<1>6. \/ Announces(1, c) /\ chats' = chats \cup {c}
      \/ updates[1].type # "newChat" /\ c \in chats /\ chats' = chats
  <2>1. updates[1].type # "newChat" => c \in chats
    <3>1. c \in chats \/ \E j \in 1 .. 1 : Announces(j, c)
      BY <1>1, <1>2, <1>3 DEF AnnouncedFirst
    <3> QED BY <3>1 DEF Announces
  <2> QED BY <1>3, <2>1, HandlerCases DEF Announces, CreateChat, chatVars
<1>7. c \in chats' /\ chats \subseteq chats' /\ chats' \subseteq chats \cup {c}
  BY <1>6
<1>8. (\A d \in announced : d \in chats \/ \E i \in DOMAIN updates : Announces(i, d))'
  <2> SUFFICES ASSUME NEW d \in announced, d \notin chats'
               PROVE  \E i \in 1 .. n - 1 : Announces(i, d)'
    BY <1>2
  <2>1. PICK i \in 1 .. n : Announces(i, d)
    BY <1>1, <1>7 DEF AnnouncedFirst
  <2>2. i # 1
    BY <1>3, <1>7, <2>1 DEF Announces
  <2>3. i - 1 \in 1 .. n - 1 /\ (i - 1) + 1 = i
    BY <1>1, <2>2
  <2>4. Announces(i - 1, d)'
    BY <1>4, <1>5, <2>1, <2>3
  <2> QED BY <2>3, <2>4
<1>9. (\A d \in chats, i \in DOMAIN updates : ~Announces(i, d))'
  <2> SUFFICES ASSUME NEW d \in chats', NEW i \in 1 .. n - 1, Announces(i, d)'
               PROVE  FALSE
    BY <1>2
  <2>1. d \in Chats /\ i + 1 \in 1 .. n /\ i + 1 # 1 /\ 1 \in 1 .. n
    BY <1>1, <1>2, <1>5, <1>7
  <2>2. Announces(i + 1, d)
    BY <1>4, <2>1
  <2>3. d \notin chats
    BY <1>1, <2>1, <2>2 DEF AnnouncedFirst
  <2>4. Announces(1, d)
    BY <1>6, <2>3
  <2> QED BY <1>1, <2>1, <2>2, <2>4 DEF AnnouncedFirst
<1>10. (\A d \in Chats, i, j \in DOMAIN updates : Announces(i, d) /\ Announces(j, d) => i = j)'
  <2> SUFFICES ASSUME NEW d \in Chats, NEW i \in 1 .. n - 1, NEW j \in 1 .. n - 1,
                      Announces(i, d)', Announces(j, d)'
               PROVE  i = j
    BY <1>2
  <2>1. i + 1 \in 1 .. n /\ j + 1 \in 1 .. n
    BY <1>1
  <2>2. i + 1 = j + 1
    BY <1>1, <1>4, <2>1 DEF AnnouncedFirst
  <2> QED BY <2>2
<1>11. (\A i \in DOMAIN updates :
          /\ updates[i].chat \in announced
          /\ \/ updates[i].chat \in chats
             \/ \E j \in 1 .. i : Announces(j, updates[i].chat))'
  <2> SUFFICES ASSUME NEW i \in 1 .. n - 1
               PROVE  /\ updates'[i].chat \in announced
                      /\ \/ updates'[i].chat \in chats'
                         \/ \E j \in 1 .. i : Announces(j, updates[i].chat)'
    BY <1>2
  <2>1. PICK d \in announced : d = updates[i + 1].chat /\ d = updates'[i].chat
    BY <1>1, <1>2 DEF AnnouncedFirst
  <2>2. d \in chats \/ \E j \in 1 .. i + 1 : Announces(j, d)
    <3>1. i + 1 \in DOMAIN updates
      BY <1>1
    <3>2. \/ updates[i + 1].chat \in chats
          \/ \E j \in 1 .. i + 1 : Announces(j, updates[i + 1].chat)
      BY <3>1 DEF AnnouncedFirst
    <3> QED BY <2>1, <3>2 DEF Announces
  <2>3. ASSUME NEW j \in 1 .. i + 1, Announces(j, d), d \notin chats'
        PROVE  \E k \in 1 .. i : Announces(k, d)'
    <3>1. j # 1
      BY <1>3, <1>7, <2>3 DEF Announces
    <3>2. j - 1 \in 1 .. i /\ j - 1 \in 1 .. n - 1 /\ (j - 1) + 1 = j
      BY <3>1
    <3>3. Announces(j - 1, d)'
      BY <1>4, <1>5, <2>3, <3>2
    <3> QED BY <3>2, <3>3
  <2>4. d \in chats' \/ \E k \in 1 .. i : Announces(k, d)'
    BY <1>7, <2>2, <2>3
  <2> QED BY <2>1, <2>4 DEF Announces
<1> QED BY <1>8, <1>9, <1>10, <1>11 DEF AnnouncedFirst
-----------------------------------------------------------------------------
\* setChatPosition gives a chat that has a Chat object the reported orders, and
\* leaves all others alone.
LEMMA SetChatPositionsOrder ==
  ASSUME TypeOK, NEW c \in chats, NEW orders \in PartialOrders,
         UNCHANGED chats, SetChatPositions(c, orders), ~crashed',
         NEW d \in Chats, NEW l \in Lists
  PROVE  Order(d, l)' = IF d = c /\ l \in DOMAIN orders THEN orders[l] ELSE Order(d, l)
<1>1. PICK D \in SUBSET Lists : orders \in [D -> Orders]
  BY DEF PartialOrders
<1>2. c \in Chats
  BY DEF TypeOK
<1>3. CASE d # c
  BY <1>2, <1>3 DEF SetChatPositions, TypeOK, Order, OrderIn
<1>4. CASE d = c
  <2>1. position'[c][l] = IF l \in Moved(c, orders) THEN Stored(l, orders[l]) ELSE position[c][l]
    BY <1>2 DEF SetChatPositions, TypeOK
  <2>2. CASE l \notin DOMAIN orders
    BY <1>4, <2>1, <2>2 DEF Moved, Order, OrderIn
  <2>3. CASE l \in DOMAIN orders
    <3>1. orders[l] \in Orders /\ ~Unreadable(c, l)
      BY <1>1, <2>3 DEF SetChatPositions
    <3>2. CASE l \in Moved(c, orders)
      BY <1>4, <2>1, <2>3, <3>1, <3>2, OrderTypes DEF Order, OrderIn, Stored
    <3>3. CASE l \notin Moved(c, orders)
      <4>1. Order(c, l) = orders[l]
        BY <2>3, <3>1, <3>3 DEF Moved
      <4> QED BY <1>4, <2>1, <2>3, <3>3, <4>1 DEF Order, OrderIn
    <3> QED BY <3>2, <3>3
  <2> QED BY <2>2, <2>3
<1> QED BY <1>3, <1>4

\* It changes a list and the position in it together.
LEMMA SetChatPositionsAgree ==
  ASSUME TypeOK, ListsMatchPositions, NEW c \in chats, NEW orders \in PartialOrders,
         ~crashed, UNCHANGED chats, SetChatPositions(c, orders)
  PROVE  ListsMatchPositions'
<1> SUFFICES ASSUME ~crashed', NEW l \in Lists
             PROVE  lists'[l] = {d \in chats : Order(d, l)' # 0}
  BY DEF ListsMatchPositions
<1>1. PICK D \in SUBSET Lists : orders \in [D -> Orders]
  BY DEF PartialOrders
<1>2. lists[l] = {d \in chats : Order(d, l) # 0}
  BY DEF ListsMatchPositions
<1>3. \A d \in chats : Order(d, l)' = IF d = c /\ l \in D THEN orders[l] ELSE Order(d, l)
  BY <1>1, SetChatPositionsOrder DEF TypeOK
<1>4. lists'[l] = IF l \notin D THEN lists[l]
                  ELSE IF orders[l] = 0 THEN lists[l] \ {c} ELSE lists[l] \cup {c}
  BY <1>1 DEF SetChatPositions
<1>5. ASSUME NEW d
      PROVE  d \in lists'[l] <=> d \in chats /\ Order(d, l)' # 0
  BY <1>2, <1>3, <1>4
<1> QED BY <1>5

\* A new Chat object has no positions, and its chat is in no list.
LEMMA CreateChatAgrees ==
  ASSUME TypeOK, ListsMatchPositions, NEW c \in Chats, c \notin chats, ~crashed, CreateChat(c)
  PROVE  ListsMatchPositions'
<1> SUFFICES ASSUME NEW l \in Lists
             PROVE  lists'[l] = {d \in chats' : OrderIn(chats', position', d, l) # 0}
  BY DEF ListsMatchPositions, Order
<1>1. lists'[l] = {d \in chats : OrderIn(chats, position, d, l) # 0}
  BY DEF CreateChat, ListsMatchPositions, Order
<1>2. chats' = chats \cup {c} /\ chats \subseteq Chats
  BY DEF CreateChat, TypeOK
<1>3. OrderIn(chats', position', c, l) = 0
  BY <1>2 DEF CreateChat, OrderIn, TypeOK
<1>4. \A d \in chats : OrderIn(chats', position', d, l) = OrderIn(chats, position, d, l)
  BY <1>2 DEF CreateChat, OrderIn, TypeOK
<1> QED BY <1>1, <1>2, <1>3, <1>4

LEMMA HandlerAgrees ==
  ASSUME TypeOK, ListsInv, HandleNextUpdate
  PROVE  ListsMatchPositions'
<1>1. ~crashed
  BY DEF HandleNextUpdate
<1>2. PICK e \in Event :
        /\ e = updates[1] /\ 1 \in DOMAIN updates
        /\ \/ e.type = "createdPrivateChat" /\ e.chat \in chats
              /\ UNCHANGED <<chatVars, modelVars>>
           \/ e.type = "createdPrivateChat" /\ e.chat \notin chats /\ CreateChat(e.chat)
           \/ e.type = "newChat" /\ CreateChat(e.chat)
           \/ /\ e.type \in {"position", "lastMessage", "draft"}
              /\ e.orders \in PartialOrders
              /\ UNCHANGED chats
              /\ SetChatPositions(e.chat, e.orders)
  BY HandlerCases
<1>3. e.chat \in Chats
  BY EventFields
<1>4. e.type = "newChat" => e.chat \notin chats
  BY <1>2 DEF ListsInv, AnnouncedFirst, Announces
<1>5. e.type # "newChat" => e.chat \in chats
  <2>1. e.chat \in chats \/ \E j \in 1 .. 1 : Announces(j, e.chat)
    BY <1>2 DEF ListsInv, AnnouncedFirst
  <2> QED BY <1>2, <2>1 DEF Announces
<1>6. CASE UNCHANGED <<chatVars, modelVars>>
  BY <1>6 DEF ListsInv, ListsMatchPositions, Order, OrderIn, chatVars, modelVars
<1>7. CASE CreateChat(e.chat) /\ e.type = "newChat"
  BY <1>1, <1>3, <1>4, <1>7, CreateChatAgrees DEF ListsInv
<1>8. CASE /\ e.type \in {"position", "lastMessage", "draft"}
           /\ e.orders \in PartialOrders
           /\ UNCHANGED chats
           /\ SetChatPositions(e.chat, e.orders)
  BY <1>1, <1>5, <1>8, SetChatPositionsAgree DEF ListsInv
<1> QED BY <1>2, <1>5, <1>6, <1>7, <1>8

\* Every other step leaves the queue, the lists and the Chat objects alone.
LEMMA Unmoved ==
  ASSUME Page \/ UNCHANGED vars
  PROVE  UNCHANGED <<chats, position, lists, crashed, updates, announced>>
BY DEF Page, OnIsAuthorizedChanged, SwitchChatList, OnBootupComplete, TimerFires,
       vars, chatVars, modelVars, tdlibVars

LEMMA StepCases == [Next]_vars => TDLib \/ HandleNextUpdate \/ Page \/ UNCHANGED vars
BY DEF Next, Page

LEMMA ListsInit == Init => ListsInv
<1> SUFFICES ASSUME Init PROVE ListsInv
  OBVIOUS
<1>1. ListsMatchPositions
  BY DEF Init, ListsMatchPositions
<1>2. AnnouncedFirst
  BY EmptySeq DEF Init, AnnouncedFirst
<1> QED BY <1>1, <1>2 DEF ListsInv

LEMMA TypeStep == TypeOK /\ AnnouncedFirst /\ [Next]_vars => TypeOK'
<1> SUFFICES ASSUME TypeOK, AnnouncedFirst, [Next]_vars PROVE TypeOK'
  OBVIOUS
<1>1. CASE TDLib
  BY <1>1, ServerType
<1>2. CASE HandleNextUpdate
  BY <1>2, HandlerType DEF AnnouncedFirst
<1>3. CASE Page
  BY <1>3, PageType
<1>4. CASE UNCHANGED vars
  BY <1>4 DEF TypeOK, vars, chatVars, modelVars, tdlibVars
<1> QED BY <1>1, <1>2, <1>3, <1>4, StepCases

LEMMA ListsStep == TypeOK /\ ListsInv /\ [Next]_vars => ListsInv'
<1> SUFFICES ASSUME TypeOK, ListsInv, [Next]_vars PROVE ListsInv'
  OBVIOUS
<1>1. CASE TDLib
  <2>1. UNCHANGED <<chats, position, lists, crashed>>
    BY <1>1, ServerCases
       DEF AnnounceChat, AnswerCreatePrivateChat, ChangePositions, chatVars, modelVars
  <2>2. ListsMatchPositions'
    BY <2>1 DEF ListsInv, ListsMatchPositions, Order, OrderIn
  <2> QED BY <1>1, <2>2, ServerOrder DEF ListsInv
<1>2. CASE HandleNextUpdate
  BY <1>2, HandlerOrder, HandlerAgrees DEF ListsInv
<1>3. CASE Page \/ UNCHANGED vars
  <2>1. UNCHANGED <<chats, position, lists, crashed, updates, announced>>
    BY <1>3, Unmoved
  <2> QED BY <2>1 DEF ListsInv, ListsMatchPositions, Order, OrderIn, AnnouncedFirst, Announces
<1> QED BY <1>1, <1>2, <1>3, StepCases
-----------------------------------------------------------------------------
\* The invariant of the lists: they hold exactly the chats that have a position
\* there, because each Chat object exists before its first position comes.
THEOREM ListsInvariant == Spec => [](TypeOK /\ ListsInv)
<1>1. Init => TypeOK /\ ListsInv
  BY InitType, ListsInit
<1>2. TypeOK /\ ListsInv /\ [Next]_vars => (TypeOK /\ ListsInv)'
  BY TypeStep, ListsStep DEF ListsInv
<1> QED BY <1>1, <1>2, PTL DEF Spec

\* Every variable of the chat lists keeps its type.
THEOREM TypeCorrect == Spec => []TypeOK
BY ListsInvariant, PTL

\* ChatList's vectors and the positions of its Chat objects agree in every
\* state in which the program has not run into the null pointer.
THEOREM ListsAgree == Spec => []ListsMatchPositions
<1>1. ListsInv => ListsMatchPositions
  BY DEF ListsInv
<1> QED BY <1>1, ListsInvariant, PTL
-----------------------------------------------------------------------------
\* The null position.  Only the position in a folder becomes null, and a handler
\* that dereferences one leaves it where it is.
NullInFolders ==
  /\ \A c \in Chats, l \in Lists \ Folders : position[c][l] # Null
  /\ CrashNeedsLeftFolder

LEMMA NullInFoldersStep ==
  TypeOK /\ ListsInv /\ NullInFolders /\ [Next]_vars => NullInFolders'
<1> SUFFICES ASSUME TypeOK, ListsInv, NullInFolders, [Next]_vars PROVE NullInFolders'
  OBVIOUS
<1>1. CASE UNCHANGED <<chats, position, crashed>>
  BY <1>1 DEF NullInFolders, CrashNeedsLeftFolder
<1>2. CASE HandleNextUpdate
  <2>1. ~crashed
    BY <1>2 DEF HandleNextUpdate
  <2>2. PICK e \in Event :
          \/ UNCHANGED <<chatVars, modelVars>>
          \/ CreateChat(e.chat)
          \/ /\ e.orders \in PartialOrders
             /\ UNCHANGED chats
             /\ SetChatPositions(e.chat, e.orders)
    BY <1>2, HandlerCases
  <2>3. e.chat \in Chats
    BY EventFields
  <2>4. CASE UNCHANGED <<chatVars, modelVars>>
    BY <1>1, <2>4 DEF chatVars, modelVars
  <2>5. CASE CreateChat(e.chat)
    <3>1. ~crashed' /\ position' = [position EXCEPT ![e.chat] = [l \in Lists |-> 0]]
      BY <2>1, <2>5 DEF CreateChat
    <3>2. \A c \in Chats, l \in Lists : position'[c][l] \in {position[c][l], 0}
      BY <2>3, <3>1 DEF TypeOK
    <3> QED BY <3>1, <3>2, OrderTypes DEF NullInFolders, CrashNeedsLeftFolder
  <2>6. CASE /\ e.orders \in PartialOrders
             /\ UNCHANGED chats
             /\ SetChatPositions(e.chat, e.orders)
    <3>1. PICK D \in SUBSET Lists : e.orders \in [D -> Orders]
      BY <2>6 DEF PartialOrders
    <3>2. \A l \in Lists : position'[e.chat][l] =
            IF l \in Moved(e.chat, e.orders) THEN Stored(l, e.orders[l]) ELSE position[e.chat][l]
      BY <2>3, <2>6 DEF SetChatPositions, TypeOK
    <3>3. \A c \in Chats \ {e.chat} : position'[c] = position[c]
      BY <2>3, <2>6 DEF SetChatPositions, TypeOK
    <3>4. \A l \in Lists \ Folders : position'[e.chat][l] # Null
      <4> SUFFICES ASSUME NEW l \in Lists \ Folders PROVE position'[e.chat][l] # Null
        OBVIOUS
      <4>1. l \in Moved(e.chat, e.orders) => e.orders[l] \in Orders
        BY <3>1 DEF Moved
      <4> QED BY <2>3, <3>2, <4>1, OrderTypes DEF NullInFolders, Stored
    <3>5. ASSUME crashed' PROVE \E f \in Folders : e.chat \in chats /\ position'[e.chat][f] = Null
      <4>1. PICK l \in D : e.chat \in chats /\ position[e.chat][l] = Null
        BY <2>6, <3>1, <3>5 DEF SetChatPositions, Unreadable
      <4>2. l \in Folders
        BY <2>3, <4>1 DEF NullInFolders
      <4>3. position'[e.chat][l] = Null
        BY <3>2, <4>1 DEF Moved, Unreadable
      <4> QED BY <4>1, <4>2, <4>3
    <3> QED BY <2>6, <3>3, <3>4, <3>5 DEF NullInFolders, CrashNeedsLeftFolder
  <2> QED BY <2>2, <2>4, <2>5, <2>6
<1>3. TDLib \/ Page \/ UNCHANGED vars => UNCHANGED <<chats, position, crashed>>
  BY Unmoved, ServerCases
     DEF AnnounceChat, AnswerCreatePrivateChat, ChangePositions, chatVars, modelVars
<1> QED BY <1>1, <1>2, <1>3, StepCases

\* The program meets the null pointer of Chat::getOrder only at a chat that has
\* left a folder, never in the main list or the archive.
THEOREM CrashIsExplained == Spec => []CrashNeedsLeftFolder
<1>1. Init => NullInFolders
  BY OrderTypes DEF Init, NullInFolders, CrashNeedsLeftFolder
<1>2. NullInFolders => CrashNeedsLeftFolder
  BY DEF NullInFolders
<1> QED BY <1>1, <1>2, ListsInvariant, NullInFoldersStep, PTL DEF Spec
-----------------------------------------------------------------------------
\* The view is told of exactly the rows of the list that is selected, whichever
\* handler or user changes the list or the selection.
LEMMA ViewKnowsRowsStep == TypeOK /\ ViewKnowsRows /\ [Next]_vars => ViewKnowsRows'
<1> SUFFICES ASSUME TypeOK, ViewKnowsRows, [Next]_vars PROVE ViewKnowsRows'
  OBVIOUS
<1> USE DEF ViewKnowsRows
<1>1. CASE HandleNextUpdate
  <2>1. UNCHANGED selected
    BY <1>1 DEF HandleNextUpdate
  <2>2. ASSUME NEW c, NEW roles, NEW rows, UpdateChat(c, roles, rows)
        PROVE  DOMAIN view' = DOMAIN rows
    BY <2>2 DEF UpdateChat
  <2>3. PICK e \in Event :
          \/ UNCHANGED <<chatVars, modelVars>>
          \/ CreateChat(e.chat)
          \/ \E roles \in SUBSET {"order", "content"} :
               UpdateChat(e.chat, roles, MovedRows(e.chat))
    BY <1>1, HandlerCases
  <2>4. CASE UNCHANGED <<chatVars, modelVars>>
    BY <2>1, <2>4 DEF modelVars
  <2>5. CASE CreateChat(e.chat)
    BY <2>1, <2>2, <2>5 DEF CreateChat
  <2>6. CASE \E roles \in SUBSET {"order", "content"} :
               UpdateChat(e.chat, roles, MovedRows(e.chat))
    <3>1. DOMAIN view' = DOMAIN MovedRows(e.chat)
      BY <2>2, <2>6
    <3> QED BY <2>1, <3>1 DEF MovedRows
  <2> QED BY <2>3, <2>4, <2>5, <2>6
<1>2. CASE Page
  BY <1>2 DEF Page, OnIsAuthorizedChanged, SwitchChatList, OnBootupComplete, TimerFires,
              ReadRows, modelVars
<1>3. CASE TDLib
  BY <1>3, ServerCases DEF AnnounceChat, AnswerCreatePrivateChat, ChangePositions, modelVars
<1>4. CASE UNCHANGED vars
  BY <1>4 DEF vars, modelVars
<1> QED BY <1>1, <1>2, <1>3, <1>4, StepCases

\* begin/endInsertRows and begin/endRemoveRows of ChatList are paired with the
\* changes of the vector.
THEOREM ViewIsTold == Spec => []ViewKnowsRows
<1>1. Init => ViewKnowsRows
  BY DEF Init, ViewKnowsRows, Lists
<1> QED BY <1>1, TypeCorrect, ViewKnowsRowsStep, PTL DEF Spec
-----------------------------------------------------------------------------
\* What TDLib reported last: the last event about a position carries it, or the
\* Chat object has it already.
Mentions(i, c, l) ==
  /\ updates[i].type \in {"position", "lastMessage", "draft"}
  /\ updates[i].chat = c /\ l \in DOMAIN updates[i].orders

LastMention(i, c, l) == Mentions(i, c, l) /\ \A j \in DOMAIN updates : j > i => ~Mentions(j, c, l)

Reported(c, l) ==
  /\ \A i \in DOMAIN updates : LastMention(i, c, l) => updates[i].orders[l] = server[c][l]
  /\ (\A i \in DOMAIN updates : ~Mentions(i, c, l)) => Order(c, l) = server[c][l]

LastWord == ~crashed => \A c \in Chats, l \in Lists : Reported(c, l)

LEMMA LastWordServer ==
  ASSUME TypeOK, LastWord, TDLib
  PROVE  LastWord'
<1> SUFFICES ASSUME ~crashed, NEW c \in Chats, NEW l \in Lists PROVE Reported(c, l)'
  <2>1. crashed' = crashed
    BY ServerCases DEF AnnounceChat, AnswerCreatePrivateChat, ChangePositions, modelVars
  <2> QED BY <2>1 DEF LastWord
<1>1. UNCHANGED <<chats, position>>
  BY ServerCases DEF AnnounceChat, AnswerCreatePrivateChat, ChangePositions, chatVars
<1>2. PICK e \in Event :
        /\ updates' = Append(updates, e)
        /\ \/ e.type \in {"newChat", "createdPrivateChat"} /\ UNCHANGED server
           \/ e.type \in {"position", "lastMessage", "draft"} /\ ChangePositions(e)
  <2>1. \A type \in {"newChat", "createdPrivateChat"}, d \in Chats :
          [type |-> type, chat |-> d] \in Event
    BY DEF Event, ChatEvent
  <2>2. CASE \E d \in Chats : AnnounceChat(d)
    BY <2>1, <2>2 DEF AnnounceChat, Post
  <2>3. CASE \E d \in announced : AnswerCreatePrivateChat(d)
    BY <2>1, <2>3 DEF AnswerCreatePrivateChat, Post, TypeOK
  <2>4. CASE \E e \in Event : /\ e.type \in {"position", "lastMessage", "draft"}
                              /\ ChangePositions(e)
    BY <2>4 DEF ChangePositions, Post
  <2> QED BY <2>2, <2>3, <2>4, ServerCases
<1>3. Reported(c, l)
  BY DEF LastWord
<1>0. PICK n \in Nat : n = Len(updates)
  BY LenProperties DEF TypeOK
<1>4. n \in Nat /\ DOMAIN updates = 1 .. n /\ DOMAIN updates' = 1 .. n + 1
      /\ updates'[n + 1] = e /\ \A i \in 1 .. n : updates'[i] = updates[i]
  BY <1>2, <1>0, AppendProperties, LenProperties DEF TypeOK
<1>5. \A i \in 1 .. n : Mentions(i, c, l)' <=> Mentions(i, c, l)
  BY <1>4 DEF Mentions
<1>6. CASE Mentions(n + 1, c, l)'
  <2>1. e.chat = c /\ l \in DOMAIN e.orders /\ ChangePositions(e)
    BY <1>2, <1>4, <1>6 DEF Mentions
  <2>2. server'[c][l] = e.orders[l]
    BY <2>1 DEF ChangePositions, TypeOK
  <2>3. \A i \in 1 .. n + 1 : LastMention(i, c, l)' => i = n + 1
    BY <1>4, <1>6 DEF LastMention
  <2> QED BY <1>4, <1>6, <2>2, <2>3 DEF Reported
<1>7. CASE ~Mentions(n + 1, c, l)'
  <2>1. server'[c][l] = server[c][l]
    <3>1. CASE UNCHANGED server
      BY <3>1
    <3>2. CASE e.type \in {"position", "lastMessage", "draft"} /\ ChangePositions(e)
      <4>1. ~(e.chat = c /\ l \in DOMAIN e.orders)
        BY <1>4, <1>7, <3>2 DEF Mentions
      <4> QED BY <3>2, <4>1 DEF ChangePositions, TypeOK
    <3> QED BY <1>2, <3>1, <3>2
  <2>2. \A i \in 1 .. n : LastMention(i, c, l)' => LastMention(i, c, l)
    BY <1>4, <1>5 DEF LastMention
  <2>3. \A i \in 1 .. n + 1 : LastMention(i, c, l)' => i \in 1 .. n
    BY <1>4, <1>7 DEF LastMention
  <2>4. Order(c, l)' = Order(c, l)
    BY <1>1 DEF Order, OrderIn
  <2>5. \A i \in 1 .. n + 1 : LastMention(i, c, l)' => updates'[i].orders[l] = server'[c][l]
    BY <1>3, <1>4, <2>1, <2>2, <2>3 DEF Reported
  <2>6. (\A i \in 1 .. n + 1 : ~Mentions(i, c, l)') => Order(c, l)' = server'[c][l]
    BY <1>3, <1>4, <1>5, <2>1, <2>4 DEF Reported
  <2> QED BY <1>4, <2>5, <2>6 DEF Reported
<1> QED BY <1>6, <1>7

LEMMA LastWordHandler ==
  ASSUME TypeOK, AnnouncedFirst, LastWord, HandleNextUpdate
  PROVE  LastWord'
<1> SUFFICES ASSUME ~crashed', NEW c \in Chats, NEW l \in Lists PROVE Reported(c, l)'
  BY DEF LastWord
<1>1. ~crashed /\ Reported(c, l) /\ UNCHANGED server
  BY DEF HandleNextUpdate, LastWord, tdlibVars
<1>2. PICK e \in Event :
        /\ e = updates[1] /\ 1 \in DOMAIN updates
        /\ \/ e.type = "createdPrivateChat" /\ e.chat \in chats
              /\ UNCHANGED <<chatVars, modelVars>>
           \/ e.type = "createdPrivateChat" /\ e.chat \notin chats /\ CreateChat(e.chat)
           \/ e.type = "newChat" /\ CreateChat(e.chat)
           \/ /\ e.type \in {"position", "lastMessage", "draft"}
              /\ e.orders \in PartialOrders
              /\ UNCHANGED chats
              /\ SetChatPositions(e.chat, e.orders)
  BY HandlerCases
<1>3. e.chat \in Chats
  BY EventFields
<1>4. e.type = "newChat" => e.chat \notin chats
  BY <1>2 DEF AnnouncedFirst, Announces
<1>5. e.type # "newChat" => e.chat \in chats
  <2>1. e.chat \in chats \/ \E j \in 1 .. 1 : Announces(j, e.chat)
    BY <1>2 DEF AnnouncedFirst
  <2> QED BY <1>2, <2>1 DEF Announces
<1>6. Order(c, l)' = IF Mentions(1, c, l) THEN e.orders[l] ELSE Order(c, l)
  <2>1. CASE UNCHANGED <<chatVars, modelVars>> /\ e.type = "createdPrivateChat"
    BY <1>2, <2>1 DEF Mentions, Order, OrderIn, chatVars
  <2>2. CASE CreateChat(e.chat) /\ e.type = "newChat"
    <3>1. ~Mentions(1, c, l)
      BY <1>2, <2>2 DEF Mentions
    <3>2. CASE c = e.chat
      BY <1>3, <1>4, <2>2, <3>1, <3>2 DEF CreateChat, Order, OrderIn, TypeOK
    <3>3. CASE c # e.chat
      BY <1>3, <2>2, <3>1, <3>3 DEF CreateChat, Order, OrderIn, TypeOK
    <3> QED BY <3>2, <3>3
  <2>3. CASE /\ e.type \in {"position", "lastMessage", "draft"}
             /\ e.orders \in PartialOrders
             /\ UNCHANGED chats
             /\ SetChatPositions(e.chat, e.orders)
    BY <1>2, <1>5, <2>3, SetChatPositionsOrder DEF Mentions
  <2> QED BY <1>2, <1>5, <2>1, <2>2, <2>3
<1>0. PICK n \in Nat : n = Len(updates)
  BY LenProperties DEF TypeOK
<1>7. n \in Nat /\ DOMAIN updates = 1 .. n /\ DOMAIN updates' = 1 .. n - 1 /\ n > 0
      /\ \A i \in 1 .. n - 1 : i + 1 \in 1 .. n /\ updates'[i] = updates[i + 1]
  BY <1>2, <1>0, HeadTailProperties, LenProperties DEF TypeOK, HandleNextUpdate
<1>8. \A i \in 1 .. n - 1 : Mentions(i, c, l)' <=> Mentions(i + 1, c, l)
  BY <1>7 DEF Mentions
<1>9. \A j \in 2 .. n : j - 1 \in 1 .. n - 1 /\ (j - 1) + 1 = j
  BY <1>7
<1>10. ASSUME NEW i \in 1 .. n - 1, LastMention(i, c, l)'
       PROVE  updates'[i].orders[l] = server'[c][l]
  <2>1. Mentions(i + 1, c, l) /\ i + 1 \in 1 .. n /\ updates'[i] = updates[i + 1]
    BY <1>7, <1>8, <1>10 DEF LastMention
  <2>2. ASSUME NEW j \in 1 .. n, j > i + 1 PROVE ~Mentions(j, c, l)
    <3>1. j - 1 \in 1 .. n - 1 /\ (j - 1) + 1 = j /\ j - 1 > i
      BY <1>7, <2>2
    <3>2. ~Mentions(j - 1, c, l)'
      BY <1>7, <1>10, <3>1 DEF LastMention
    <3> QED BY <1>8, <3>1, <3>2
  <2> QED BY <1>1, <1>7, <2>1, <2>2 DEF Reported, LastMention
<1>11. ASSUME \A i \in 1 .. n - 1 : ~Mentions(i, c, l)'
       PROVE  Order(c, l)' = server'[c][l]
  <2>1. \A j \in 1 .. n : j > 1 => ~Mentions(j, c, l)
    <3> SUFFICES ASSUME NEW j \in 1 .. n, j > 1 PROVE ~Mentions(j, c, l)
      OBVIOUS
    <3>1. j - 1 \in 1 .. n - 1 /\ (j - 1) + 1 = j
      BY <1>7
    <3> QED BY <1>8, <1>11, <3>1
  <2>2. CASE Mentions(1, c, l)
    BY <1>1, <1>2, <1>6, <1>7, <2>1, <2>2 DEF Reported, LastMention
  <2>3. CASE ~Mentions(1, c, l)
    <3>1. \A j \in 1 .. n : ~Mentions(j, c, l)
      BY <1>7, <2>1, <2>3
    <3> QED BY <1>1, <1>6, <1>7, <2>3, <3>1 DEF Reported
  <2> QED BY <2>2, <2>3
<1> QED BY <1>7, <1>10, <1>11 DEF Reported

LEMMA LastWordStep == TypeOK /\ ListsInv /\ LastWord /\ [Next]_vars => LastWord'
<1> SUFFICES ASSUME TypeOK, ListsInv, LastWord, [Next]_vars PROVE LastWord'
  OBVIOUS
<1>1. CASE TDLib
  BY <1>1, LastWordServer
<1>2. CASE HandleNextUpdate
  BY <1>2, LastWordHandler DEF ListsInv
<1>3. CASE Page \/ UNCHANGED vars
  <2>1. UNCHANGED <<chats, position, crashed, updates, server>>
    BY <1>3 DEF Page, OnIsAuthorizedChanged, SwitchChatList, OnBootupComplete, TimerFires,
                vars, chatVars, modelVars, tdlibVars
  <2> QED BY <2>1 DEF LastWord, Reported, LastMention, Mentions, Order, OrderIn
<1> QED BY <1>1, <1>2, <1>3, StepCases

\* Once the handlers have run, every Chat object has the positions that TDLib
\* reported last, however many updates reported one list.
THEOREM PositionsFollowTdlib == Spec => []PositionsAgree
<1>1. Init => LastWord
  <2> SUFFICES ASSUME Init PROVE LastWord
    OBVIOUS
  <2>1. updates = <<>> /\ DOMAIN updates = {}
    BY EmptySeq DEF Init
  <2>2. \A c \in Chats, l \in Lists : Order(c, l) = 0 /\ server[c][l] = 0
    BY DEF Init, Order, OrderIn
  <2> QED BY <2>1, <2>2 DEF LastWord, Reported
<1>2. TypeOK /\ LastWord => PositionsAgree
  <2> SUFFICES ASSUME TypeOK, LastWord, updates = <<>>, ~crashed, NEW c \in announced, NEW l \in Lists
               PROVE  Order(c, l) = server[c][l]
    BY DEF PositionsAgree
  <2>1. DOMAIN updates = {} /\ c \in Chats
    BY EmptySeq DEF TypeOK
  <2> QED BY <2>1 DEF LastWord, Reported
<1> QED BY <1>1, <1>2, ListsInvariant, LastWordStep, PTL DEF Spec
=============================================================================
