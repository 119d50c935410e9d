--------------------------- MODULE ChatPageProofs ---------------------------
(***************************************************************************)
(* Theorems about ChatPage, for any messages, notifications and bounds:    *)
(* what the system's screen shows is what TDLib has told; a user who has   *)
(* the chat in front is not told of its messages; the page's list is the   *)
(* pinned messages and its bar leads to each; and the page scrolls to the  *)
(* newest unread mention.  The last three rest on                          *)
(*   SearchesOK  what searches, answers and the list hold are messages;    *)
(*   PinsInv     a pinned message that is not in the list is ahead of a    *)
(*               search, an answer or a notice under way;                  *)
(*   ExactInv    unless pagings meet, one search or answer is under way,   *)
(*               and the list ends where it goes on;                       *)
(*   StartInv, CountInv, MentionInv  the last event about mentions leaves  *)
(*               the chat right, or a search begun since will.             *)
(***************************************************************************)
EXTENDS ChatPage, SequencesExt, SequenceTheorems, FiniteSetTheorems, TLAPS

(***************************************************************************)
(* The queue is a sequence; what Post and Received do to it.               *)
(***************************************************************************)
IsSequence(q) == \E S : q \in Seq(S)

LEMMA PostedLast ==
  ASSUME IsSequence(queue), NEW event, Post(event)
  PROVE  /\ IsSequence(queue')
         /\ Len(queue) \in Nat /\ Len(queue') = Len(queue) + 1
         /\ queue'[Len(queue) + 1] = event
         /\ \A i \in 1 .. Len(queue) : queue'[i] = queue[i]
<1>1. PICK S : queue \in Seq(S)
  BY DEF IsSequence
<1>2. queue \in Seq(S \cup {event}) /\ event \in S \cup {event} /\ queue' = Append(queue, event)
  BY <1>1 DEF Post
<1>3. queue' \in Seq(S \cup {event})
  BY <1>2
<1> QED
  BY <1>2, <1>3 DEF IsSequence

LEMMA ReceivedFirst ==
  ASSUME IsSequence(queue), NEW type, Received(type)
  PROVE  /\ IsSequence(queue')
         /\ Len(queue) \in Nat /\ Len(queue) >= 1 /\ Len(queue') = Len(queue) - 1
         /\ Head(queue) = queue[1] /\ queue[1].type = type
         /\ \A i \in 1 .. Len(queue') : queue'[i] = queue[i + 1]
         /\ \A j \in 2 .. Len(queue) : j - 1 \in 1 .. Len(queue') /\ queue'[j - 1] = queue[j]
<1>1. PICK S : queue \in Seq(S)
  BY DEF IsSequence
<1>2. queue # <<>> /\ queue' = Tail(queue) /\ Head(queue).type = type
  BY DEF Received
<1>3. queue' \in Seq(S)
  BY <1>1, <1>2
<1> QED
  BY <1>1, <1>2, <1>3 DEF IsSequence

\* What is left when one element is taken out of a sequence.
LEMMA Without ==
  ASSUME NEW S, NEW s \in Seq(S), NEW i \in DOMAIN s
  PROVE  /\ RemoveAt(s, i) \in Seq(S) /\ Len(RemoveAt(s, i)) = Len(s) - 1
         /\ \A j \in DOMAIN RemoveAt(s, i) :
               IF j < i THEN j \in DOMAIN s /\ RemoveAt(s, i)[j] = s[j]
               ELSE j + 1 \in DOMAIN s /\ RemoveAt(s, i)[j] = s[j + 1]
         /\ \A k \in DOMAIN s \ {i} : \E j \in DOMAIN RemoveAt(s, i) : RemoveAt(s, i)[j] = s[k]
<1>1. Len(s) \in Nat /\ DOMAIN s = 1 .. Len(s) /\ i \in 1 .. Len(s)
  BY LenProperties
<1> DEFINE a == SubSeq(s, 1, i - 1)
           b == SubSeq(s, i + 1, Len(s))
<1>2. a \in Seq(S) /\ Len(a) = i - 1 /\ \A j \in 1 .. i - 1 : a[j] = s[j]
  BY <1>1, SubSeqProperties
<1>3. b \in Seq(S) /\ Len(b) = Len(s) - i /\ \A j \in 1 .. Len(s) - i : b[j] = s[j + i]
  BY <1>1, SubSeqProperties
<1> HIDE DEF a, b
<1>4. /\ a \o b \in Seq(S) /\ Len(a \o b) = Len(a) + Len(b)
      /\ \A j \in 1 .. Len(a) + Len(b) : (a \o b)[j] = IF j <= Len(a) THEN a[j] ELSE b[j - Len(a)]
  BY <1>2, <1>3, ConcatProperties
<1>5. RemoveAt(s, i) = a \o b
  BY DEF RemoveAt, a, b
<1> DEFINE r == RemoveAt(s, i)
<1>6. r \in Seq(S) /\ Len(r) = Len(s) - 1 /\ DOMAIN r = 1 .. Len(s) - 1
  <2>1. r \in Seq(S) /\ Len(r) = Len(a) + Len(b)
    BY <1>4, <1>5
  <2>2. DOMAIN r = 1 .. Len(r)
    BY <2>1, LenProperties
  <2> QED
    BY <1>1, <1>2, <1>3, <2>1, <2>2
<1>7. ASSUME NEW j \in 1 .. Len(s) - 1
      PROVE  r[j] = IF j < i THEN s[j] ELSE s[j + 1]
  <2>1. r[j] = IF j <= i - 1 THEN a[j] ELSE b[j - (i - 1)]
    BY <1>1, <1>2, <1>3, <1>4, <1>5
  <2>2. CASE j < i
    BY <1>1, <1>2, <2>1, <2>2
  <2>3. CASE j >= i
    <3>1. j - (i - 1) \in 1 .. Len(s) - i /\ (j - (i - 1)) + i = j + 1 /\ ~(j <= i - 1)
      BY <1>1, <2>3
    <3> QED
      BY <1>1, <1>3, <2>1, <2>3, <3>1
  <2> QED
    BY <1>1, <2>2, <2>3
<1> HIDE DEF r
<1>8. ASSUME NEW k \in DOMAIN s \ {i}
      PROVE  \E j \in DOMAIN r : r[j] = s[k]
  <2>1. CASE k < i
    BY <1>1, <1>6, <1>7, <2>1
  <2>2. CASE k > i
    <3>1. k - 1 \in 1 .. Len(s) - 1 /\ ~(k - 1 < i) /\ (k - 1) + 1 = k
      BY <1>1, <2>2
    <3> QED
      BY <1>6, <1>7, <3>1
  <2> QED
    BY <1>1, <2>1, <2>2
<1>9. \A j \in DOMAIN r : IF j < i THEN j \in DOMAIN s /\ r[j] = s[j]
                          ELSE j + 1 \in DOMAIN s /\ r[j] = s[j + 1]
  BY <1>1, <1>6, <1>7
<1> QED
  BY <1>6, <1>8, <1>9 DEF r

-----------------------------------------------------------------------------
(***************************************************************************)
(* The page in front of the user counts as open; and a page belongs to a   *)
(* chat that exists, so the program starts without one.                    *)
(***************************************************************************)
PageHasChat == page # "none" => exists
FrontIsOpen == InFront => isOpen

LEMMA PageHasChatKeeps == PageHasChat /\ [Next]_vars => PageHasChat'
<1> SUFFICES ASSUME PageHasChat, [Next]_vars PROVE PageHasChat'
  OBVIOUS
<1> USE DEF PageHasChat
<1>1. CASE PushPage \/ PageActive \/ Cover \/ Uncover \/ PopPage \/ PageGone
  BY <1>1 DEF PushPage, PageActive, Cover, Uncover, PopPage, PageGone, mentionVars
<1>2. CASE ApplicationInactive \/ ApplicationActive
  BY <1>2 DEF ApplicationInactive, ApplicationActive, mentionVars
<1>3. CASE \E n \in Notification : TapNotification(n) \/ ClearNotification(n)
  BY <1>3 DEF TapNotification, ClearNotification, mentionVars
<1>4. CASE \/ HandlePinned \/ HandleNotifications \/ TapPinnedMessage \/ ClosePinnedBar
           \/ Tdlib \/ OtherPeople \/ Start \/ UNCHANGED vars
  BY <1>4 DEF HandlePinned, HandleNotifications, TapPinnedMessage, ClosePinnedBar, Tdlib, OtherPeople, Start,
              mentionVars, pageVars, vars
<1>5. CASE HandleMentions
  BY <1>5 DEF HandleMentions, OnUpdateNewChat, OnUnreadMentionCount,
              OnGotSearchChatMessagesFilterUnreadMention, pageVars
<1>6. CASE Crash \/ CrashOnNotification
  BY <1>6 DEF Crash, CrashOnNotification, End
<1> QED
  BY <1>1, <1>2, <1>3, <1>4, <1>5, <1>6 DEF Next

LEMMA FrontKeeps == PageHasChat /\ FrontIsOpen /\ [Next]_vars => FrontIsOpen'
<1> SUFFICES ASSUME PageHasChat, FrontIsOpen, [Next]_vars PROVE FrontIsOpen'
  OBVIOUS
<1> USE DEF FrontIsOpen, InFront
<1>1. CASE PushPage \/ PageActive \/ Cover \/ Uncover \/ PopPage \/ PageGone
  BY <1>1 DEF PushPage, PageActive, Cover, Uncover, PopPage, PageGone
<1>2. CASE ApplicationInactive \/ ApplicationActive
  BY <1>2 DEF ApplicationInactive, ApplicationActive
<1>3. CASE \E n \in Notification : TapNotification(n)
  <2>1. page' = "arriving"
    BY <1>3 DEF TapNotification
  <2> QED
    BY <2>1
<1>4. CASE HandlePinned \/ HandleMentions \/ HandleNotifications \/ ClosePinnedBar \/ UNCHANGED vars
  BY <1>4 DEF HandlePinned, HandleMentions, HandleNotifications, ClosePinnedBar, pageVars, vars
<1>5. CASE TapPinnedMessage \/ Tdlib \/ OtherPeople \/ \E n \in Notification : ClearNotification(n)
  BY <1>5 DEF TapPinnedMessage, Tdlib, OtherPeople, ClearNotification
<1>6. CASE Crash \/ CrashOnNotification
  <2>1. page' = "none"
    BY <1>6 DEF Crash, CrashOnNotification, End
  <2> QED
    BY <2>1
<1>7. CASE Start
  <2>1. ~exists /\ page' = page
    BY <1>7 DEF Start, Running
  <2> QED
    BY <2>1 DEF PageHasChat
<1> QED
  BY <1>1, <1>2, <1>3, <1>4, <1>5, <1>6, <1>7 DEF Next

(***************************************************************************)
(* Which actions put something on the screen: only the handler of group    *)
(* updates, and the one that ends the program, and only for a closed chat. *)
(***************************************************************************)
LEMMA OpenChatIsSilent == isOpen /\ [Next]_vars => screen' \subseteq screen
<1> SUFFICES ASSUME isOpen, [Next]_vars PROVE screen' \subseteq screen
  OBVIOUS
<1>1. CASE PushPage \/ PageActive \/ Cover \/ Uncover \/ PopPage \/ PageGone
  BY <1>1 DEF PushPage, PageActive, Cover, Uncover, PopPage, PageGone, notificationVars
<1>2. CASE ApplicationInactive \/ ApplicationActive \/ UNCHANGED vars
  BY <1>2 DEF ApplicationInactive, ApplicationActive, notificationVars, vars
<1>3. CASE \E n \in Notification : TapNotification(n) \/ ClearNotification(n)
  BY <1>3 DEF TapNotification, ClearNotification, Dismiss
<1>4. CASE HandlePinned \/ HandleMentions
  BY <1>4 DEF HandlePinned, HandleMentions, notificationVars
<1>5. CASE HandleNotifications
  BY <1>5 DEF HandleNotifications, UpdateNotificationGroup, ToShow
<1>6. CASE TapPinnedMessage \/ ClosePinnedBar \/ Tdlib
  BY <1>6 DEF TapPinnedMessage, ClosePinnedBar, Tdlib, notificationVars
<1>7. CASE OtherPeople
  BY <1>7 DEF OtherPeople, Notify, Withdraw, Regroup, notificationVars
<1>8. CASE Crash
  BY <1>8 DEF Crash, LeaveScreen
<1>9. CASE CrashOnNotification
  BY <1>9 DEF CrashOnNotification, Dereferences, ToShow
<1>10. CASE Start
  BY <1>10 DEF Start, notificationVars
<1> QED
  BY <1>1, <1>2, <1>3, <1>4, <1>5, <1>6, <1>7, <1>8, <1>9, <1>10 DEF Next

(***************************************************************************)
(* While the chat's page is active and the application too, nothing of the *)
(* chat is put on the screen (Notifications::updateNotificationGroup),     *)
(* whatever way led to the page.                                           *)
(***************************************************************************)
THEOREM NobodyIsTold == Spec => NobodyInFrontIsTold
<1>1. Init => PageHasChat /\ FrontIsOpen
  BY DEF Init, PageHasChat, FrontIsOpen, InFront
<1>2. FrontIsOpen /\ [Next]_vars => [InFront => screen' \subseteq screen]_vars
  BY OpenChatIsSilent DEF FrontIsOpen
<1> QED
  BY <1>1, <1>2, PageHasChatKeeps, FrontKeeps, PTL DEF Spec, NobodyInFrontIsTold
-----------------------------------------------------------------------------
(***************************************************************************)
(* The invariant behind ScreenAgrees.  For every notification, the last    *)
(* update on its way that names it tells what TDLib has in its group       *)
(* (LastWord), and when none is on its way the screen has been told        *)
(* (Settled).  In between, what Notifications keeps is on the screen or    *)
(* was seen off, and what is on the screen is kept or is left over         *)
(* (Books): without this an update could take away too little.             *)
(***************************************************************************)
Names(event) == IF event.type = "group" THEN event.added \cup event.removed ELSE {}

LastNamed(i, n) ==
    /\ n \in Names(queue[i])
    /\ \A j \in 1 .. Len(queue) : j > i => n \notin Names(queue[j])

Unnamed(n) == \A i \in 1 .. Len(queue) : n \notin Names(queue[i])

Sound == \A i \in 1 .. Len(queue) : queue[i].type = "group" => queue[i].added \cap queue[i].removed = {}

LastWord == \A n : \A i \in 1 .. Len(queue) : LastNamed(i, n) => (n \in queue[i].added <=> n \in listed)

SettledFor(n) ==
    /\ n \in listed => n \in Other \cup missed \cup screen
    /\ n \in screen => n \in leftOver \cup listed

Settled == \A n : Unnamed(n) => SettledFor(n)

Books ==
    /\ notifications \subseteq screen \cup missed
    /\ screen \subseteq leftOver \cup notifications
    /\ listed \subseteq active

ScreenInv == IsSequence(queue) /\ Sound /\ LastWord /\ Settled /\ Books

(***************************************************************************)
(* Handlers and posts that do not concern notifications.                   *)
(***************************************************************************)
LEMMA OtherPost ==
  ASSUME ScreenInv, UNCHANGED notificationVars, NEW event, event.type # "group", Post(event)
  PROVE  ScreenInv'
<1> USE DEF ScreenInv
<1>1. /\ IsSequence(queue') /\ Len(queue) \in Nat /\ Len(queue') = Len(queue) + 1
      /\ queue'[Len(queue) + 1] = event
      /\ \A i \in 1 .. Len(queue) : queue'[i] = queue[i]
  BY PostedLast
<1>2. Books'
  BY DEF Books, notificationVars
<1>3. Names(queue'[Len(queue) + 1]) = {}
  BY <1>1 DEF Names
<1>5. Sound'
  BY <1>1 DEF Sound
<1>6. LastWord'
  BY <1>1, <1>3 DEF LastWord, LastNamed, notificationVars
<1>7. Settled'
  BY <1>1, <1>3 DEF Settled, SettledFor, Unnamed, notificationVars
<1> QED
  BY <1>1, <1>2, <1>5, <1>6, <1>7

LEMMA NamesMove ==
  ASSUME IsSequence(queue), NEW type, Received(type)
  PROVE  /\ \A n, i : i \in 1 .. Len(queue') /\ LastNamed(i, n)' => LastNamed(i + 1, n)
         /\ \A n : Unnamed(n)' /\ n \in Names(queue[1]) => LastNamed(1, n)
         /\ \A n : Unnamed(n)' /\ n \notin Names(queue[1]) => Unnamed(n)
<1>1. /\ Len(queue) \in Nat /\ Len(queue) >= 1 /\ Len(queue') = Len(queue) - 1
      /\ \A i \in 1 .. Len(queue') : queue'[i] = queue[i + 1]
  BY ReceivedFirst
<1>2. \A j \in 2 .. Len(queue) : j - 1 \in 1 .. Len(queue') /\ queue'[j - 1] = queue[j]
  BY ReceivedFirst
<1>3. ASSUME NEW n, NEW i \in 1 .. Len(queue'), LastNamed(i, n)' PROVE LastNamed(i + 1, n)
  <2>1. n \in Names(queue[i + 1])
    BY <1>1, <1>3 DEF LastNamed
  <2>2. ASSUME NEW j \in 1 .. Len(queue), j > i + 1 PROVE n \notin Names(queue[j])
    <3>1. j \in 2 .. Len(queue) /\ j - 1 > i
      BY <2>2, <1>1
    <3> QED
      BY <3>1, <1>2, <1>3 DEF LastNamed
  <2> QED
    BY <2>1, <2>2 DEF LastNamed
<1>4. ASSUME NEW n, Unnamed(n)' PROVE \A j \in 2 .. Len(queue) : n \notin Names(queue[j])
  BY <1>2, <1>4 DEF Unnamed
<1>5. ASSUME NEW n, Unnamed(n)', n \in Names(queue[1]) PROVE LastNamed(1, n)
  BY <1>1, <1>4, <1>5 DEF LastNamed
<1>6. ASSUME NEW n, Unnamed(n)', n \notin Names(queue[1]) PROVE Unnamed(n)
  <2>1. \A j \in 1 .. Len(queue) : j = 1 \/ j \in 2 .. Len(queue)
    BY <1>1
  <2>2. \A j \in 2 .. Len(queue) : n \notin Names(queue[j])
    BY <1>4, <1>6
  <2> QED
    BY <2>1, <2>2, <1>6 DEF Unnamed
<1> QED
  BY <1>3, <1>5, <1>6

LEMMA OtherReceived ==
  ASSUME ScreenInv, UNCHANGED notificationVars, NEW type, type # "group", Received(type)
  PROVE  ScreenInv'
<1> USE DEF ScreenInv
<1>1. /\ IsSequence(queue') /\ Len(queue) \in Nat /\ Len(queue) >= 1 /\ Len(queue') = Len(queue) - 1
      /\ queue[1].type = type
      /\ \A i \in 1 .. Len(queue') : queue'[i] = queue[i + 1] /\ i + 1 \in 1 .. Len(queue)
  BY ReceivedFirst
<1>2. Books'
  BY DEF Books, notificationVars
<1>3. \A n : n \notin Names(queue[1])
  BY <1>1 DEF Names
<1>4. Sound'
  BY <1>1 DEF Sound
<1>5. LastWord'
  BY <1>1, NamesMove DEF LastWord, notificationVars
<1>6. Settled'
  BY <1>3, NamesMove DEF Settled, SettledFor, notificationVars
<1> QED
  BY <1>1, <1>2, <1>4, <1>5, <1>6

LEMMA NotConcerned ==
  ASSUME ScreenInv, UNCHANGED <<queue, notificationVars>>
  PROVE  ScreenInv'
BY DEF ScreenInv, Sound, LastWord, LastNamed, Settled, SettledFor, Unnamed, Books, notificationVars

(***************************************************************************)
(* TDLib's side: what it posts is the difference of its groups.            *)
(***************************************************************************)
LEMMA RegroupKeeps ==
  ASSUME ScreenInv, NEW now, NEW group, Regroup(now, group)
  PROVE  ScreenInv'
<1> USE DEF ScreenInv
<1>1. CASE group = listed
  BY <1>1 DEF Regroup, Sound, LastWord, LastNamed, Settled, SettledFor, Unnamed, Books
<1>2. CASE group # listed
  <2> DEFINE event == [type |-> "group", added |-> group \ listed, removed |-> listed \ group]
  <2>1. Post(event) /\ listed' = group /\ group \subseteq now /\ active' = now
    BY <1>2 DEF Regroup
  <2>2. UNCHANGED <<notifications, screen, leftOver, missed>>
    BY DEF Regroup
  <2>3. /\ IsSequence(queue') /\ Len(queue) \in Nat /\ Len(queue') = Len(queue) + 1
        /\ queue'[Len(queue) + 1] = event
        /\ \A i \in 1 .. Len(queue) : queue'[i] = queue[i]
    BY <2>1, PostedLast
  <2>4. /\ queue'[Len(queue) + 1].type = "group"
        /\ queue'[Len(queue) + 1].added = group \ listed
        /\ queue'[Len(queue) + 1].removed = listed \ group
    BY <2>3
  <2>5. Names(queue'[Len(queue) + 1]) = (group \ listed) \cup (listed \ group)
    BY <2>4 DEF Names
  <2>6. Books'
    BY <2>1, <2>2 DEF Books
  <2>7. Sound'
    BY <2>3, <2>4 DEF Sound
  <2>8. LastWord'
    <3> SUFFICES ASSUME NEW n, NEW i \in 1 .. Len(queue'), LastNamed(i, n)'
                 PROVE  n \in queue'[i].added <=> n \in group
      BY <2>1 DEF LastWord
    <3>1. CASE i = Len(queue) + 1
      BY <3>1, <2>4, <2>5 DEF LastNamed
    <3>2. CASE i \in 1 .. Len(queue)
      <4>1. LastNamed(i, n)
        BY <3>2, <2>3 DEF LastNamed
      <4>2. n \notin Names(queue'[Len(queue) + 1])
        BY <3>2, <2>3 DEF LastNamed
      <4>3. n \in queue[i].added <=> n \in listed
        BY <3>2, <4>1 DEF LastWord
      <4> QED
        BY <4>2, <4>3, <3>2, <2>3, <2>5
    <3> QED
      BY <3>1, <3>2, <2>3
  <2>9. Settled'
    <3> SUFFICES ASSUME NEW n, Unnamed(n)' PROVE SettledFor(n)'
      BY DEF Settled
    <3>1. Unnamed(n) /\ n \notin Names(queue'[Len(queue) + 1])
      BY <2>3 DEF Unnamed
    <3>2. SettledFor(n) /\ (n \in listed' <=> n \in listed)
      BY <3>1, <2>1, <2>5 DEF Settled
    <3> QED
      BY <3>2, <2>2 DEF SettledFor
  <2> QED
    BY <2>3, <2>6, <2>7, <2>8, <2>9
<1> QED
  BY <1>1, <1>2
(***************************************************************************)
(* The handler of group updates.                                           *)
(***************************************************************************)
LEMMA UpdateNotificationGroupKeeps ==
  ASSUME ScreenInv, UpdateNotificationGroup(isOpen)
  PROVE  ScreenInv'
<1> USE DEF ScreenInv
<1> DEFINE event == Head(queue)
           shows == ToShow(event, isOpen)
<1>1. /\ Received("group")
      /\ notifications' = (notifications \cup shows) \ event.removed
      /\ screen' = (screen \cup shows) \ (event.removed \cap (notifications \cup shows))
      /\ missed' = (IF isOpen THEN missed \cup (event.added \ notifications) ELSE missed \ shows) \ event.removed
      /\ UNCHANGED <<active, listed, leftOver>>
  BY DEF UpdateNotificationGroup
<1>2. shows = IF isOpen THEN {} ELSE (event.added \ notifications) \ Other
  BY DEF ToShow
<1>3. /\ IsSequence(queue') /\ Len(queue) \in Nat /\ Len(queue) >= 1 /\ Len(queue') = Len(queue) - 1
      /\ event = queue[1] /\ event.type = "group"
      /\ \A i \in 1 .. Len(queue') : queue'[i] = queue[i + 1] /\ i + 1 \in 1 .. Len(queue)
  BY <1>1, ReceivedFirst
<1>4. event.added \cap event.removed = {} /\ Names(queue[1]) = event.added \cup event.removed
  BY <1>3 DEF Sound, Names
<1> HIDE DEF event, shows
<1>5. Books'
  <2>1. notifications' \subseteq screen' \cup missed'
    BY <1>1, <1>2 DEF Books
  <2>2. screen' \subseteq leftOver' \cup notifications'
    BY <1>1 DEF Books
  <2> QED
    BY <1>1, <2>1, <2>2 DEF Books
<1>6. Sound'
  BY <1>3 DEF Sound
<1>7. LastWord'
  BY <1>1, <1>3, NamesMove DEF LastWord
<1>8. Settled'
  <2> SUFFICES ASSUME NEW n, Unnamed(n)' PROVE SettledFor(n)'
    BY DEF Settled
  <2>1. CASE n \notin event.added \cup event.removed
    <3>1. SettledFor(n)
      BY <1>1, <1>4, <2>1, NamesMove DEF Settled
    <3>2. n \notin shows
      BY <1>2, <2>1
    <3> QED
      BY <1>1, <3>1, <3>2, <2>1 DEF SettledFor
  <2>2. ASSUME n \in event.added \cup event.removed PROVE n \in event.added <=> n \in listed
    BY <1>1, <1>3, <1>4, <2>2, NamesMove DEF LastWord
  <2>3. CASE n \in event.added
    BY <1>1, <1>2, <1>4, <2>2, <2>3 DEF SettledFor, Books
  <2>4. CASE n \in event.removed
    BY <1>1, <1>2, <1>4, <2>2, <2>4 DEF SettledFor, Books
  <2> QED
    BY <2>1, <2>3, <2>4
<1> QED
  BY <1>3, <1>5, <1>6, <1>7, <1>8

(***************************************************************************)
(* A notification is cleared; the program ends.                            *)
(***************************************************************************)
LEMMA DismissKeeps ==
  ASSUME ScreenInv, NEW n, Dismiss(n), UNCHANGED <<queue, active, listed, notifications>>
  PROVE  ScreenInv'
<1> USE DEF ScreenInv
<1>1. IsSequence(queue)' /\ Sound' /\ LastWord'
  BY DEF Sound, LastWord, LastNamed
<1>2. Books'
  BY DEF Books, Dismiss
<1>3. Settled'
  BY DEF Settled, SettledFor, Unnamed, Dismiss
<1> QED
  BY <1>1, <1>2, <1>3

LEMMA LeaveScreenKeeps ==
  ASSUME ScreenInv, NEW shows, LeaveScreen(shows), queue' = <<>>
  PROVE  ScreenInv'
<1> USE DEF ScreenInv
<1>1. queue' \in Seq({}) /\ Len(queue') = 0
  OBVIOUS
<1>2. IsSequence(queue)' /\ Sound' /\ LastWord'
  BY <1>1 DEF IsSequence, Sound, LastWord
<1>3. /\ notifications' = {} /\ leftOver' = screen' /\ missed' = active
      /\ active' = active /\ listed' = listed
  BY DEF LeaveScreen
<1>4. Books' /\ Settled'
  BY <1>3 DEF Books, Settled, SettledFor
<1> QED
  BY <1>2, <1>4

(***************************************************************************)
(* The rest of the page: which handlers take an object from the queue.     *)
(***************************************************************************)
LEMMA ScreenInvKeeps == ScreenInv /\ [Next]_vars => ScreenInv'
<1> SUFFICES ASSUME ScreenInv, [Next]_vars PROVE ScreenInv'
  OBVIOUS
<1>1. CASE PushPage \/ PageActive \/ Cover \/ Uncover \/ PopPage \/ PageGone
  <2>1. UNCHANGED <<queue, notificationVars>>
    BY <1>1 DEF PushPage, PageActive, Cover, Uncover, PopPage, PageGone, SetTelegramManager, searchVars
  <2> QED
    BY <2>1, NotConcerned
<1>2. CASE ApplicationInactive \/ ApplicationActive \/ TapPinnedMessage \/ ClosePinnedBar \/ UNCHANGED vars
  <2>1. UNCHANGED <<queue, notificationVars>>
    BY <1>2 DEF ApplicationInactive, ApplicationActive, TapPinnedMessage, CycleMessage,
                ClosePinnedBar, CloseBar, searchVars, vars
  <2> QED
    BY <2>1, NotConcerned
<1>3. CASE \E n \in Notification : TapNotification(n) \/ ClearNotification(n)
  BY <1>3, DismissKeeps DEF TapNotification, ClearNotification, SetTelegramManager, searchVars
<1>4. CASE HandlePinned \/ HandleMentions
  <2>1. UNCHANGED notificationVars /\ \E type \in {"pinned", "isPinned", "newChat", "mentions", "mention"} : Received(type)
    BY <1>4 DEF HandlePinned, HandleMentions, OnGotSearchChatMessagesFilterPinned, OnUpdateMessageIsPinned,
                OnUpdateNewChat, OnUnreadMentionCount, OnGotSearchChatMessagesFilterUnreadMention
  <2> QED
    BY <2>1, OtherReceived
<1>5. CASE HandleNotifications
  BY <1>5, UpdateNotificationGroupKeeps DEF HandleNotifications
<1>6. CASE Tdlib
  <2>1. PICK i \in DOMAIN searches : Find(i) \/ Refuse(i) \/ \E kind \in Kinds : Answer(kind, i)
    BY <1>6 DEF Tdlib
  <2>2. UNCHANGED notificationVars
    BY <1>6 DEF Tdlib
  <2>3. CASE Find(i) \/ Refuse(i)
    BY <2>2, <2>3, NotConcerned DEF Find, Refuse
  <2>4. CASE \E kind \in Kinds : Answer(kind, i)
    <3>1. PICK kind \in Kinds : Answer(kind, i)
      BY <2>4
    <3> DEFINE event == [type |-> kind, found |-> searches[i].found,
                         late |-> searches[i].found \notin Answers(searches[i].kind, searches[i].from)]
    <3>2. Post(event)
      BY <3>1 DEF Answer
    <3>3. event.type # "group"
      BY DEF Kinds
    <3> HIDE DEF event
    <3> QED
      BY <2>2, <3>2, <3>3, OtherPost
  <2> QED
    BY <2>1, <2>3, <2>4
<1>7. CASE OtherPeople
  <2>1. CASE \E n \in Notification : Notify(n) \/ Withdraw(n)
    BY <2>1, RegroupKeeps DEF Notify, Withdraw
  <2>2. ASSUME UNCHANGED notificationVars, NEW m \in Message, Delete(m) PROVE ScreenInv'
    <3> DEFINE event == [type |-> "mentions", count |-> Cardinality(marked'["mention"])]
    <3>1. Post(event) \/ UNCHANGED queue
      BY <2>2 DEF Delete
    <3>2. event.type # "group"
      OBVIOUS
    <3> HIDE DEF event
    <3> QED
      BY <2>2, <3>1, <3>2, OtherPost, NotConcerned
  <2>3. ASSUME UNCHANGED notificationVars, NEW m \in Message, NEW kind \in Kinds, Toggle(kind, m) PROVE ScreenInv'
    <3> DEFINE event == IF kind = "pinned" THEN [type |-> "isPinned"]
                        ELSE [type |-> "mentions", count |-> Cardinality(marked'["mention"])]
    <3>1. Post(event)
      BY <2>3 DEF Toggle
    <3>2. event.type # "group"
      OBVIOUS
    <3> HIDE DEF event
    <3> QED
      BY <2>3, <3>1, <3>2, OtherPost
  <2> QED
    BY <1>7, <2>1, <2>2, <2>3 DEF OtherPeople
<1>8. CASE Crash \/ CrashOnNotification
  <2>1. queue' = <<>> /\ \E shows : LeaveScreen(shows)
    BY <1>8 DEF Crash, CrashOnNotification
  <2> QED
    BY <2>1, LeaveScreenKeeps
<1>9. CASE Start
  <2> DEFINE event == [type |-> "newChat", count |-> Cardinality(marked["mention"])]
  <2>1. Post(event) /\ UNCHANGED notificationVars
    BY <1>9 DEF Start
  <2>2. event.type # "group"
    OBVIOUS
  <2> HIDE DEF event
  <2> QED
    BY <2>1, <2>2, OtherPost
<1> QED
  BY <1>1, <1>2, <1>3, <1>4, <1>5, <1>6, <1>7, <1>8, <1>9 DEF Next

(***************************************************************************)
(* Once TDLib's updates are handled, what this run of the program has put  *)
(* on the screen is what TDLib has in its group, but for what was seen off *)
(* or cleared (Notifications::updateNotificationGroup): whatever was told  *)
(* and taken back meanwhile, and however often the program ended.          *)
(***************************************************************************)
THEOREM ScreenIsWhatWasTold == Spec => []ScreenAgrees
<1>1. Init => ScreenInv
  <2> SUFFICES ASSUME Init PROVE ScreenInv
    OBVIOUS
  <2>1. queue = <<>> /\ queue \in Seq({}) /\ Len(queue) = 0
    BY DEF Init, SearchesInit
  <2>2. notifications = {} /\ screen = {} /\ listed = {} /\ active = {}
    BY DEF Init, NotificationsInit
  <2> QED
    BY <2>1, <2>2 DEF ScreenInv, IsSequence, Sound, LastWord, Settled, SettledFor, Books
<1>2. ScreenInv => ScreenAgrees
  <2> SUFFICES ASSUME ScreenInv, \A event \in OnTheirWay : event.type # "group" PROVE ScreenAgrees
    BY DEF ScreenAgrees
  <2>1. DOMAIN queue = 1 .. Len(queue)
    BY DEF ScreenInv, IsSequence
  <2>2. \A n : SettledFor(n)
    BY <2>1 DEF ScreenInv, Settled, Unnamed, Names, OnTheirWay
  <2> QED
    BY <2>2 DEF SettledFor, ScreenAgrees
<1> QED
  BY <1>1, <1>2, ScreenInvKeeps, PTL DEF Spec

-----------------------------------------------------------------------------
(***************************************************************************)
(* The searches of the chat and their answers.                             *)
(***************************************************************************)

\* The event tells a number of mentions.
Counts(event) == event.type \in {"newChat", "mentions"}

SearchType == [kind : Kinds, from : Message \cup {0}, found : Seq(Message) \cup {NotYet}]

\* What the searches, their answers and the lists made of them hold.
EventOK(event) ==
    /\ event.type \in Kinds => event.found \in Seq(Message)
    /\ Counts(event) => event.count \in Nat
EventsOK == IsSequence(queue) /\ \A i \in 1 .. Len(queue) : EventOK(queue[i])
SearchesOK ==
    /\ EventsOK
    /\ searches \in Seq(SearchType)
    /\ \A i \in DOMAIN searches : searches[i].kind = "mention" => searches[i].from = 0
    /\ marked \in [Kinds -> SUBSET Message]
    /\ messages \in Seq(Message) /\ current \in Nat

\* The page of messages holds m, or is continued towards it.
Reaches(found, m) == m \in Range(found) \/ (found # <<>> /\ m < Last(found))

\* A search that finds m, or the way to it.
Covers(search, m) ==
    /\ search.kind = "pinned"
    /\ search.from = 0 \/ m < search.from
    /\ search.found = NotYet \/ Reaches(search.found, m)

\* The event makes the list anew, or leads it to m.
Carries(event, m) ==
    \/ event.type = "isPinned"
    \/ event.type = "pinned" /\ Reaches(event.found, m)

\* The list has m, or will have it: it is emptied once more, or a page or a search
\* under way leads there.
OnItsWay(m) ==
    \/ \E i \in 1 .. Len(queue) : Carries(queue[i], m)
    \/ \E i \in DOMAIN searches : Covers(searches[i], m)
    \/ m \in Range(messages)

PinsInv ==
    shown =>
        /\ "pinned" \notin refused => \A m \in marked["pinned"] : OnItsWay(m)
        /\ current = 0 \/ current < Len(messages) \/ refetched

\* The list goes on with the page that is found next.
Descends(ms) == \A i, j \in DOMAIN ms : i < j => ms[i] > ms[j]
Continues(found) == Descends(found) /\ \A m \in Range(messages), x \in Range(found) : x < m

\* One search, or its answer, is under way.
Alone ==
    /\ \A i, j \in DOMAIN searches : searches[i].kind = "pinned" /\ searches[j].kind = "pinned" => i = j
    /\ \A i, j \in 1 .. Len(queue) : queue[i].type = "pinned" /\ queue[j].type = "pinned" => i = j
    /\ \A i \in DOMAIN searches, j \in 1 .. Len(queue) :
          ~(searches[i].kind = "pinned" /\ queue[j].type = "pinned")

\* What is found is pinned, or deleted, or the chat hears of the change.
IsPinned(ms) ==
    \/ \E i \in 1 .. Len(queue) : queue[i].type = "isPinned"
    \/ Range(ms) \subseteq marked["pinned"] \cup gone

ExactInv ==
    shown /\ ~joined =>
        /\ Alone
        /\ Descends(messages) /\ IsPinned(messages)
        /\ \A i \in DOMAIN searches : searches[i].kind = "pinned" =>
              IF searches[i].found = NotYet
              THEN \A m \in Range(messages) : searches[i].from # 0 /\ searches[i].from <= m
              ELSE Continues(searches[i].found) /\ IsPinned(searches[i].found)
        /\ \A i \in 1 .. Len(queue) : queue[i].type = "pinned" =>
              Continues(queue[i].found) /\ IsPinned(queue[i].found)

\* It tells a number of mentions, or a mention.
Tells(event) == Counts(event) \/ (event.type = "mention" /\ event.found # <<>>)

NewestMention == Max(marked["mention"] \cup {0})

\* A search whose answer will be right if nothing changes before it is emitted.
Fresh(search) ==
    /\ search.kind = "mention"
    /\ search.found = NotYet \/ search.found \in Answers("mention", 0)

\* What the chat takes for its first unread mention once the event is handled.
LeavesRight(event) ==
    IF Counts(event) THEN marked["mention"] = {}
    ELSE event.late \/ event.found[1] = NewestMention

\* Before the chat is made there is nothing but the update that makes it.
StartInv ==
    /\ ~exists => /\ searches = <<>> /\ firstUnreadMention = 0
                  /\ queue # <<>> => queue[1].type = "newChat"
                  /\ \A i \in 1 .. Len(queue) : queue[i].type # "mention"
    /\ \A i \in 1 .. Len(queue) : queue[i].type = "newChat" => i = 1 /\ ~exists

\* The last number of mentions told is TDLib's.
CountInv ==
    \A i \in 1 .. Len(queue) :
        Counts(queue[i]) /\ (\A j \in 1 .. Len(queue) : j > i => ~Counts(queue[j])) =>
            (queue[i].count = 0 <=> marked["mention"] = {})

\* A mention is being searched for, or will be.
Sought ==
    /\ marked["mention"] # {}
    /\ \/ \E i \in 1 .. Len(queue) : Counts(queue[i])
       \/ \E i \in DOMAIN searches : Fresh(searches[i])

\* The last event that tells of mentions leaves the chat right.
WillBeRight ==
    \E i \in 1 .. Len(queue) :
        /\ Tells(queue[i]) /\ LeavesRight(queue[i])
        /\ \A j \in 1 .. Len(queue) : j > i => ~Tells(queue[j])

IsRight ==
    /\ \A i \in 1 .. Len(queue) : ~Tells(queue[i])
    /\ overtaken \/ firstUnreadMention = NewestMention

\* The first unread mention is TDLib's, or will be.
MentionInv == exists /\ "mention" \notin refused => Sought \/ WillBeRight \/ IsRight

(***************************************************************************)
(* Steps of the page, by what they do to searches, pinned messages and     *)
(* unread mentions.                                                        *)
(***************************************************************************)

\* Other parts of the page; the queue may get or lose an event of theirs, and the bar
\* may be closed.
Quiet ==
    /\ UNCHANGED <<marked, gone, searches, refused, mentionVars>>
    /\ UNCHANGED <<shown, messages, current, joined, refetched>>
    /\ \/ UNCHANGED queue
       \/ Running /\ \E event : event.type = "group" /\ Post(event)
       \/ Received("group")

\* The page is pushed, or pushed anew; it is destroyed.
Opens == exists /\ SetTelegramManager /\ UNCHANGED mentionVars
Closes == Destroy /\ UNCHANGED <<searchVars, mentionVars>>

\* The program ends; it starts, and TDLib announces the chat.
Ends ==
    /\ Destroy /\ Forget
    /\ queue' = <<>> /\ searches' = <<>> /\ refused' = {}
    /\ UNCHANGED <<marked, gone>>
Starts ==
    /\ ~Running /\ queue = <<>>
    /\ Post([type |-> "newChat", count |-> Cardinality(marked["mention"])])
    /\ UNCHANGED <<marked, gone, searches, refused, pinnedVars, mentionVars>>

PinnedStep ==
    \/ OnGotSearchChatMessagesFilterPinned /\ UNCHANGED mentionVars
    \/ OnUpdateMessageIsPinned /\ UNCHANGED mentionVars
    \/ CycleMessage /\ UNCHANGED mentionVars

MentionStep ==
    /\ OnUpdateNewChat \/ OnUnreadMentionCount \/ OnGotSearchChatMessagesFilterUnreadMention
    /\ UNCHANGED pinnedVars

SearchStep ==
    /\ \E i \in DOMAIN searches : Find(i) \/ Refuse(i) \/ \E kind \in Kinds : Answer(kind, i)
    /\ UNCHANGED <<pinnedVars, mentionVars>>

MessageStep ==
    /\ Running
    /\ \E m \in Message : Delete(m) \/ \E kind \in Kinds : Toggle(kind, m)
    /\ UNCHANGED <<pinnedVars, mentionVars>>

\* Every step of the page is one of these.
LEMMA Steps ==
  ASSUME PageHasChat, [Next]_vars
  PROVE  \/ Quiet \/ Opens \/ Closes \/ Ends \/ Starts
         \/ PinnedStep \/ MentionStep \/ SearchStep \/ MessageStep
<1>1. CASE PushPage
  BY <1>1 DEF PushPage, Opens
<1>2. CASE PageActive \/ Cover \/ Uncover \/ PopPage
  BY <1>2 DEF PageActive, Cover, Uncover, PopPage, Quiet, searchVars, pinnedVars
<1>3. CASE PageGone
  BY <1>3 DEF PageGone, Closes
<1>4. CASE ApplicationInactive \/ ApplicationActive \/ ClosePinnedBar \/ UNCHANGED vars
  BY <1>4 DEF ApplicationInactive, ApplicationActive, ClosePinnedBar, CloseBar, vars, Quiet, searchVars, pinnedVars
<1>5. CASE \E n \in Notification : TapNotification(n)
  BY <1>5 DEF TapNotification, Opens
<1>6. CASE \E n \in Notification : ClearNotification(n)
  BY <1>6 DEF ClearNotification, Quiet, searchVars, pinnedVars
<1>7. CASE HandlePinned
  BY <1>7 DEF HandlePinned, PinnedStep
<1>8. CASE HandleMentions
  BY <1>8 DEF HandleMentions, MentionStep
<1>9. CASE HandleNotifications
  BY <1>9 DEF HandleNotifications, UpdateNotificationGroup, Quiet, pinnedVars
<1>10. CASE TapPinnedMessage
  BY <1>10 DEF TapPinnedMessage, PinnedStep
<1>11. CASE Tdlib
  BY <1>11 DEF Tdlib, SearchStep
<1>12. CASE OtherPeople
  <2>1. ASSUME NEW n \in Notification, Notify(n) \/ Withdraw(n),
               UNCHANGED <<marked, gone, searches, refused, pinnedVars, mentionVars>>
        PROVE  Quiet
    <3>1. PICK now, group : Regroup(now, group)
      BY <2>1 DEF Notify, Withdraw
    <3>2. [type |-> "group", added |-> group \ listed, removed |-> listed \ group].type = "group"
      OBVIOUS
    <3>3. UNCHANGED queue \/ \E event : event.type = "group" /\ Post(event)
      BY <3>1, <3>2 DEF Regroup
    <3> QED
      BY <2>1, <3>3, <1>12 DEF Quiet, OtherPeople, pinnedVars
  <2> QED
    BY <1>12, <2>1 DEF OtherPeople, MessageStep
<1>13. CASE Crash \/ CrashOnNotification
  BY <1>13 DEF Crash, CrashOnNotification, End, Ends
<1>14. CASE Start
  BY <1>14 DEF Start, Starts
<1> QED
  BY <1>1, <1>2, <1>3, <1>4, <1>5, <1>6, <1>7, <1>8, <1>9, <1>10, <1>11, <1>12, <1>13, <1>14 DEF Next

\* The answers that are possible.
LEMMA AnswersAre ==
  ASSUME SearchesOK, NEW kind \in Kinds, NEW from \in Message \cup {0},
         NEW found \in Answers(kind, from)
  PROVE  /\ found \in Seq(Message) /\ found # NotYet /\ Len(found) <= Limit[kind]
         /\ Range(found) \subseteq {m \in marked[kind] : from = 0 \/ m < from}
         /\ Descends(found)
         /\ \A m \in marked[kind] : from = 0 \/ m < from => Reaches(found, m)
<1> DEFINE all == {m \in marked[kind] : from = 0 \/ m < from}
<1>1. /\ \E n \in 0 .. Limit[kind] : found \in [1 .. n -> all]
      /\ \A i, j \in DOMAIN found : i < j => found[i] > found[j]
      /\ \A m \in all \ Range(found) : found # <<>> /\ m < Last(found)
  BY DEF Answers
<1>2. Limit[kind] \in Nat /\ all \subseteq Message
  BY DEF Limit, Kinds, SearchesOK
<1> HIDE DEF all
<1>3. PICK n \in 0 .. Limit[kind] : found \in [1 .. n -> all]
  BY <1>1
<1>4. found \in Seq(Message) /\ Len(found) = n /\ Range(found) \subseteq all
  <2>1. n \in Nat /\ found \in [1 .. n -> Message]
    BY <1>2, <1>3
  <2> QED
    BY <1>3, <2>1 DEF Range
<1>5. found # NotYet
  <2>1. NotYet[1] = 0 /\ 1 \in DOMAIN NotYet
    BY DEF NotYet
  <2>2. 0 \notin Range(found)
    BY <1>2, <1>4, MessageAssumption
  <2> QED
    BY <2>1, <2>2 DEF Range
<1>6. \A m \in all : Reaches(found, m)
  BY <1>1 DEF Reaches
<1> QED
  BY <1>1, <1>2, <1>3, <1>4, <1>5, <1>6 DEF all, Descends

\* A search that begins is the last of those under way.
LEMMA Begun ==
  ASSUME SearchesOK, NEW kind \in Kinds, NEW from \in Message \cup {0}, Search(kind, from)
  PROVE  /\ searches' \in Seq(SearchType) /\ Len(searches) \in Nat /\ Len(searches') = Len(searches) + 1
         /\ DOMAIN searches = 1 .. Len(searches) /\ DOMAIN searches' = 1 .. Len(searches) + 1
         /\ \A i \in DOMAIN searches : searches'[i] = searches[i]
         /\ searches'[Len(searches) + 1] = NewSearch(kind, from)
         /\ NewSearch(kind, from) = [kind |-> kind, from |-> from, found |-> NotYet]
<1> DEFINE new == NewSearch(kind, from)
<1>1. new \in SearchType
  BY DEF NewSearch, SearchType
<1>2. searches \in Seq(SearchType) /\ searches' = Append(searches, new)
  BY DEF SearchesOK, Search
<1> HIDE DEF new
<1>3. /\ searches' \in Seq(SearchType) /\ Len(searches) \in Nat /\ Len(searches') = Len(searches) + 1
      /\ DOMAIN searches = 1 .. Len(searches) /\ DOMAIN searches' = 1 .. Len(searches) + 1
      /\ \A i \in DOMAIN searches : searches'[i] = searches[i]
      /\ searches'[Len(searches) + 1] = new
  BY <1>1, <1>2
<1> QED
  BY <1>3 DEF new, NewSearch

\* There are finitely many messages.
LEMMA MentionCount ==
  ASSUME NEW S \in SUBSET Message
  PROVE  IsFiniteSet(S) /\ Cardinality(S) \in Nat /\ (Cardinality(S) = 0 <=> S = {})
BY MessageAssumption, FS_Subset, FS_CardinalityType, FS_EmptySet

\* What a step posts or takes leaves the queue's events well-formed.
LEMMA EventsKeep ==
  ASSUME EventsOK,
         \/ \E event : EventOK(event) /\ Post(event)
         \/ \E type : Received(type)
         \/ UNCHANGED queue
  PROVE  EventsOK'
<1>1. ASSUME NEW event, EventOK(event), Post(event)
      PROVE  EventsOK'
  BY <1>1, PostedLast DEF EventsOK
<1>2. ASSUME NEW type, Received(type)
      PROVE  EventsOK'
  <2>1. /\ IsSequence(queue') /\ Len(queue) \in Nat /\ Len(queue) >= 1 /\ Len(queue') = Len(queue) - 1
        /\ \A i \in 1 .. Len(queue') : queue'[i] = queue[i + 1] /\ i + 1 \in 1 .. Len(queue)
    BY <1>2, ReceivedFirst DEF EventsOK
  <2> QED
    BY <2>1 DEF EventsOK
<1> QED
  BY <1>1, <1>2 DEF EventsOK

\* A search that begins leaves the searches well-formed.
LEMMA BegunOK ==
  ASSUME SearchesOK, NEW kind \in Kinds, NEW from \in Message \cup {0}, Search(kind, from),
         kind = "mention" => from = 0
  PROVE  /\ searches' \in Seq(SearchType)
         /\ \A i \in DOMAIN searches' : searches'[i].kind = "mention" => searches'[i].from = 0
<1>1. \A i \in DOMAIN searches' : i \in DOMAIN searches \/ i = Len(searches) + 1
  BY Begun
<1>2. NewSearch(kind, from).kind = kind /\ NewSearch(kind, from).from = from
  BY DEF NewSearch
<1> QED
  BY <1>1, <1>2, Begun DEF SearchesOK

\* Once an answer to the search for pinned messages or mentions is received.
LEMMA ReceivedPage ==
  ASSUME SearchesOK, NEW type \in Kinds, Received(type)
  PROVE  /\ Head(queue) = queue[1] /\ Head(queue).type = type /\ Head(queue).found \in Seq(Message)
         /\ Head(queue).found # <<>> =>
               /\ Len(Head(queue).found) \in Nat \ {0} /\ DOMAIN Head(queue).found = 1 .. Len(Head(queue).found)
               /\ Last(Head(queue).found) \in Message /\ Last(Head(queue).found) \in Range(Head(queue).found)
               /\ Head(queue).found[1] \in Message
<1>1. /\ Head(queue) = queue[1] /\ queue[1].type = type /\ 1 \in 1 .. Len(queue)
  BY ReceivedFirst DEF SearchesOK, EventsOK
<1>2. PICK found \in Seq(Message) : found = Head(queue).found
  BY <1>1 DEF SearchesOK, EventsOK, EventOK
<1>3. CASE found # <<>>
  <2>1. Len(found) \in Nat \ {0} /\ DOMAIN found = 1 .. Len(found)
    BY <1>2, <1>3, LenProperties, EmptySeq
  <2>2. Len(found) \in DOMAIN found /\ 1 \in DOMAIN found
    BY <2>1
  <2> QED
    BY <1>1, <1>2, <2>1, <2>2, ElementOfSeq DEF Last, Range
<1> QED
  BY <1>1, <1>2, <1>3

\* The searches that the new chat begins.
LEMMA NewChatBegins ==
  ASSUME SearchesOK, OnUpdateNewChat
  PROVE  \E n \in Nat : /\ searches' = searches \o [i \in 1 .. n |-> NewSearch("mention", 0)]
                        /\ Head(queue).count > 0 => n > 0
<1>1. Head(queue).count \in Nat
  BY ReceivedFirst DEF OnUpdateNewChat, SearchesOK, EventsOK, EventOK, Counts
<1>2. Min({Head(queue).count, 1}) = IF Head(queue).count > 0 THEN 1 ELSE 0
  BY <1>1 DEF Min
<1>3. PICK unset \in {0, 1} :
        searches' = searches \o [i \in 1 .. Min({Head(queue).count, 1}) + unset |-> NewSearch("mention", 0)]
  BY DEF OnUpdateNewChat
<1>4. PICK n \in Nat : n = Min({Head(queue).count, 1}) + unset
  BY <1>1, <1>2
<1>5. searches' = searches \o [i \in 1 .. n |-> NewSearch("mention", 0)]
  BY <1>3, <1>4
<1>6. Head(queue).count > 0 => n > 0
  BY <1>1, <1>2, <1>4
<1> QED
  BY <1>5, <1>6

\* SearchesOK is inductive.
LEMMA SearchesKeep == PageHasChat /\ SearchesOK /\ [Next]_vars => SearchesOK'
<1> SUFFICES ASSUME PageHasChat, SearchesOK, [Next]_vars PROVE SearchesOK'
  OBVIOUS
<1> USE DEF pinnedVars, searchVars, mentionVars
<1> DEFINE Kept == /\ searches' \in Seq(SearchType)
                   /\ \A i \in DOMAIN searches' : searches'[i].kind = "mention" => searches'[i].from = 0
<1>0. EventsOK /\ (UNCHANGED searches => Kept)
  BY DEF SearchesOK
<1>0a. Cardinality(marked["mention"]) \in Nat
  BY MentionCount DEF SearchesOK, Kinds
<1>1. CASE Quiet
  <2>1. ASSUME NEW event, event.type = "group" PROVE EventOK(event)
    BY <2>1 DEF Kinds, EventOK, Counts
  <2>2. EventsOK'
    BY <1>0, <1>1, <2>1, EventsKeep DEF Quiet
  <2> QED
    BY <1>1, <2>2 DEF Quiet, SearchesOK
<1>2. CASE Opens
  <2>1. Search("pinned", 0) /\ messages' = <<>> /\ current' = 0 /\ UNCHANGED <<queue, marked>>
    BY <1>2 DEF Opens, SetTelegramManager, FetchMessages
  <2>2. EventsOK' /\ Kept
    BY <1>0, <2>1, EventsKeep, BegunOK DEF Kinds
  <2> QED
    BY <2>1, <2>2 DEF SearchesOK
<1>3. CASE Closes
  <2>1. EventsOK'
    BY <1>0, <1>3, EventsKeep DEF Closes
  <2> QED
    BY <1>3, <2>1 DEF Closes, Destroy, SearchesOK
<1>4. CASE Ends
  <2>1. queue' \in Seq({}) /\ Len(queue') = 0 /\ searches' \in Seq(SearchType) /\ DOMAIN searches' = {}
    BY <1>4 DEF Ends
  <2> QED
    BY <1>4, <2>1 DEF Ends, Destroy, SearchesOK, EventsOK, IsSequence
<1>5. CASE Starts
  <2> DEFINE event == [type |-> "newChat", count |-> Cardinality(marked["mention"])]
  <2>1. Post(event) /\ EventOK(event)
    BY <1>5, <1>0a DEF Starts, Kinds, EventOK
  <2> HIDE DEF event
  <2>2. EventsOK'
    BY <1>0, <2>1, EventsKeep
  <2> QED
    BY <1>5, <2>2 DEF Starts, SearchesOK
<1>6. CASE PinnedStep
  <2>1. CASE OnGotSearchChatMessagesFilterPinned
    <3>1. Received("pinned") /\ UNCHANGED <<marked, current>> /\ "pinned" \in Kinds
      BY <2>1 DEF OnGotSearchChatMessagesFilterPinned, Kinds
    <3>2. PICK found : found = Head(queue).found
      OBVIOUS
    <3>3. found \in Seq(Message) /\ (found # <<>> => Last(found) \in Message)
      BY <3>1, <3>2, ReceivedPage
    <3>4. messages' \in Seq(Message)
      <4>1. messages' = messages \/ messages' = messages \o found
        BY <2>1, <3>2 DEF OnGotSearchChatMessagesFilterPinned
      <4>2. messages \in Seq(Message)
        BY DEF SearchesOK
      <4> QED
        BY <3>3, <4>1, <4>2, ConcatProperties
    <3>5. EventsOK'
      BY <1>0, <3>1, EventsKeep
    <3>6. UNCHANGED searches \/ (found # <<>> /\ Search("pinned", Last(found)))
      BY <2>1, <3>2 DEF OnGotSearchChatMessagesFilterPinned
    <3>7. Kept
      BY <1>0, <3>1, <3>3, <3>6, BegunOK
    <3> QED
      BY <3>1, <3>4, <3>5, <3>7 DEF SearchesOK
  <2>2. CASE OnUpdateMessageIsPinned
    <3>1. Received("isPinned") /\ UNCHANGED <<marked, current>> /\ "pinned" \in Kinds
      BY <2>2 DEF OnUpdateMessageIsPinned, Kinds
    <3>2. UNCHANGED <<searches, messages>> \/ (Search("pinned", 0) /\ messages' = <<>>)
      BY <2>2 DEF OnUpdateMessageIsPinned, FetchMessages
    <3>3. EventsOK' /\ Kept
      BY <1>0, <3>1, <3>2, EventsKeep, BegunOK
    <3>4. messages' \in Seq(Message)
      <4>1. messages \in Seq(Message)
        BY DEF SearchesOK
      <4>2. messages' = messages \/ messages' = <<>>
        BY <3>2
      <4>3. << >> \in Seq(Message)
        OBVIOUS
      <4> QED
        BY <4>1, <4>2, <4>3
    <3> QED
      BY <3>1, <3>3, <3>4 DEF SearchesOK
  <2>3. CASE CycleMessage
    <3>1. current < Len(messages) /\ Len(messages) \in Nat /\ current \in Nat
      BY <2>3 DEF CycleMessage, BarIsShown, SearchesOK
    <3>2. current' \in Nat
      BY <2>3, <3>1 DEF CycleMessage
    <3>3. EventsOK'
      BY <1>0, <2>3, EventsKeep DEF CycleMessage
    <3> QED
      BY <2>3, <3>2, <3>3 DEF CycleMessage, SearchesOK
  <2> QED
    BY <1>6, <2>1, <2>2, <2>3 DEF PinnedStep
<1>7. CASE MentionStep
  <2>1. UNCHANGED <<marked, messages, current>> /\ \E type : Received(type)
    BY <1>7 DEF MentionStep, OnUpdateNewChat, OnUnreadMentionCount, OnGotSearchChatMessagesFilterUnreadMention
  <2>2. EventsOK'
    BY <1>0, <2>1, EventsKeep
  <2>3. Kept
    <3>1. CASE OnUpdateNewChat
      <4>1. PICK n \in Nat : searches' = searches \o [i \in 1 .. n |-> NewSearch("mention", 0)]
        BY <3>1, NewChatBegins
      <4> DEFINE new == [i \in 1 .. n |-> NewSearch("mention", 0)]
      <4>2. new \in Seq(SearchType) /\ \A i \in DOMAIN new : new[i].from = 0
        BY DEF NewSearch, SearchType, Kinds
      <4> HIDE DEF new
      <4>3. searches' \in Seq(SearchType)
        <5>1. searches' = searches \o new
          BY <4>1 DEF new
        <5> QED
          BY <4>2, <5>1, ConcatProperties DEF SearchesOK
      <4>4. \A i \in DOMAIN searches' : \/ i \in DOMAIN searches /\ searches'[i] = searches[i]
                                        \/ \E j \in DOMAIN new : searches'[i] = new[j]
        <5>1. searches' = searches \o new /\ searches \in Seq(SearchType)
          BY <4>1 DEF SearchesOK, new
        <5>2. /\ Len(searches) \in Nat /\ Len(new) \in Nat
              /\ DOMAIN searches = 1 .. Len(searches) /\ DOMAIN new = 1 .. Len(new)
              /\ DOMAIN searches' = 1 .. Len(searches) + Len(new)
              /\ \A i \in 1 .. Len(searches) + Len(new) :
                    searches'[i] = IF i <= Len(searches) THEN searches[i] ELSE new[i - Len(searches)]
          BY <4>2, <4>3, <5>1, ConcatProperties, LenProperties
        <5>3. ASSUME NEW i \in DOMAIN searches', i > Len(searches) PROVE \E j \in DOMAIN new : searches'[i] = new[j]
          <6>1. i - Len(searches) \in DOMAIN new /\ searches'[i] = new[i - Len(searches)]
            BY <5>2, <5>3
          <6> QED
            BY <6>1
        <5> QED
          BY <5>2, <5>3
      <4> QED
        BY <4>2, <4>3, <4>4 DEF SearchesOK
    <3>2. CASE OnUnreadMentionCount
      BY <1>0, <3>2, BegunOK DEF OnUnreadMentionCount, SetUnreadMentionCount, Kinds
    <3>3. CASE OnGotSearchChatMessagesFilterUnreadMention
      BY <1>0, <3>3 DEF OnGotSearchChatMessagesFilterUnreadMention
    <3> QED
      BY <1>7, <3>1, <3>2, <3>3 DEF MentionStep
  <2> QED
    BY <2>1, <2>2, <2>3 DEF SearchesOK
<1>8. CASE SearchStep
  <2>1. PICK i \in DOMAIN searches : Find(i) \/ Refuse(i) \/ \E kind \in Kinds : Answer(kind, i)
    BY <1>8 DEF SearchStep
  <2>2. searches[i] \in SearchType /\ UNCHANGED <<messages, current, marked>>
    BY <1>8, <2>1, ElementOfSeq, LenProperties DEF SearchesOK, SearchStep, Find, Refuse, Answer
  <2>3. CASE Find(i)
    <3>1. PICK found \in Answers(searches[i].kind, searches[i].from) :
            searches' = [searches EXCEPT ![i].found = found]
      BY <2>3 DEF Find
    <3>2. found \in Seq(Message)
      BY <2>2, <3>1, AnswersAre DEF SearchType
    <3>3. [searches[i] EXCEPT !.found = found] \in SearchType
      BY <2>2, <3>2 DEF SearchType
    <3>4. /\ searches' \in Seq(SearchType) /\ DOMAIN searches' = DOMAIN searches
          /\ \A j \in DOMAIN searches : searches'[j] = IF j = i THEN [searches[i] EXCEPT !.found = found]
                                                       ELSE searches[j]
      BY <3>1, <3>3 DEF SearchesOK
    <3>5. [searches[i] EXCEPT !.found = found].from = searches[i].from
          /\ [searches[i] EXCEPT !.found = found].kind = searches[i].kind
      BY <2>2 DEF SearchType
    <3>6. EventsOK'
      BY <1>0, <2>3, EventsKeep DEF Find
    <3> QED
      BY <2>2, <3>4, <3>5, <3>6 DEF SearchesOK
  <2>4. CASE searches' = RemoveAt(searches, i) /\ EventsOK'
    BY <2>2, <2>4, Without DEF SearchesOK
  <2>5. CASE Refuse(i)
    <3>1. EventsOK'
      BY <1>0, <2>5, EventsKeep DEF Refuse
    <3> QED
      BY <2>4, <2>5, <3>1 DEF Refuse
  <2>6. ASSUME NEW kind \in Kinds, Answer(kind, i) PROVE SearchesOK'
    <3> DEFINE event == [type |-> kind, found |-> searches[i].found,
                         late |-> searches[i].found \notin Answers(searches[i].kind, searches[i].from)]
    <3>1. Post(event) /\ EventOK(event)
      BY <2>2, <2>6 DEF Answer, SearchType, EventOK, Counts, Kinds
    <3> HIDE DEF event
    <3>2. EventsOK'
      BY <1>0, <3>1, EventsKeep
    <3> QED
      BY <2>4, <2>6, <3>2 DEF Answer
  <2> QED
    BY <2>1, <2>3, <2>5, <2>6
<1>9. CASE MessageStep
  <2>1. UNCHANGED <<searches, messages, current>> /\ marked' \in [Kinds -> SUBSET Message]
    BY <1>9 DEF MessageStep, Toggle, Delete, SearchesOK
  <2>2. UNCHANGED queue \/ \E event : EventOK(event) /\ Post(event)
    <3> DEFINE count == [type |-> "mentions", count |-> Cardinality(marked'["mention"])]
               pinned == [type |-> "isPinned"]
    <3>1. EventOK(count) /\ EventOK(pinned)
      BY <2>1, MentionCount DEF Kinds, EventOK, Counts
    <3>2. UNCHANGED queue \/ Post(count) \/ Post(pinned)
      BY <1>9 DEF MessageStep, Toggle, Delete
    <3> HIDE DEF count, pinned
    <3> QED
      BY <3>1, <3>2
  <2>3. EventsOK'
    BY <1>0, <2>2, EventsKeep
  <2> QED
    BY <2>1, <2>3 DEF SearchesOK
<1> QED
  BY <1>1, <1>2, <1>3, <1>4, <1>5, <1>6, <1>7, <1>8, <1>9, Steps

\* What the invariants of the searches start from.
LEMMA SearchesBegin == Init => PageHasChat /\ SearchesOK
<1> SUFFICES ASSUME Init PROVE PageHasChat /\ SearchesOK
  OBVIOUS
<1>1. /\ queue \in Seq({}) /\ Len(queue) = 0 /\ searches \in Seq(SearchType) /\ DOMAIN searches = {}
      /\ messages \in Seq(Message)
  BY DEF Init, SearchesInit, PinnedInit
<1>2. SearchesOK
  BY <1>1 DEF SearchesOK, EventsOK, IsSequence, Init, SearchesInit, PinnedInit
<1> QED
  BY <1>2 DEF Init, PageHasChat

-----------------------------------------------------------------------------
(***************************************************************************)
(* The pinned messages that are in the list, or on their way to it.        *)
(***************************************************************************)

\* What is added to the queue, or taken out that has nothing to do with the pinned
\* messages, leaves what leads to m.
LEMMA CarriedOn ==
  ASSUME EventsOK, NEW m,
         \/ UNCHANGED queue
         \/ \E event : Post(event)
         \/ \E type \in {"group", "newChat", "mentions", "mention"} : Received(type)
  PROVE  \A i \in 1 .. Len(queue) :
            Carries(queue[i], m) => \E j \in 1 .. Len(queue') : Carries(queue'[j], m)
<1> SUFFICES ASSUME NEW i \in 1 .. Len(queue), Carries(queue[i], m)
             PROVE  \E j \in 1 .. Len(queue') : Carries(queue'[j], m)
  OBVIOUS
<1>1. ASSUME NEW event, Post(event)
      PROVE  i \in 1 .. Len(queue') /\ queue'[i] = queue[i]
  BY <1>1, PostedLast DEF EventsOK
<1>2. ASSUME NEW type \in {"group", "newChat", "mentions", "mention"}, Received(type)
      PROVE  i - 1 \in 1 .. Len(queue') /\ queue'[i - 1] = queue[i]
  <2>1. /\ Len(queue) \in Nat /\ queue[1].type = type
        /\ \A j \in 2 .. Len(queue) : j - 1 \in 1 .. Len(queue') /\ queue'[j - 1] = queue[j]
    BY <1>2, ReceivedFirst DEF EventsOK
  <2>2. i # 1
    BY <2>1 DEF Carries
  <2> QED
    BY <2>1, <2>2
<1> QED
  BY <1>1, <1>2

\* A message stays on its way as long as what carries it goes on.
LEMMA WayGoesOn ==
  ASSUME NEW m, OnItsWay(m),
         Range(messages) \subseteq Range(messages)',
         \A i \in 1 .. Len(queue) :
            Carries(queue[i], m) => \E j \in 1 .. Len(queue') : Carries(queue'[j], m),
         \A i \in DOMAIN searches :
            Covers(searches[i], m) => \E j \in DOMAIN searches' : Covers(searches'[j], m)
  PROVE  OnItsWay(m)'
BY DEF OnItsWay

\* Fetching the list anew finds every message.
LEMMA FetchedAnew ==
  ASSUME SearchesOK, Search("pinned", 0), NEW m
  PROVE  OnItsWay(m)'
<1>1. /\ Len(searches) + 1 \in DOMAIN searches'
      /\ searches'[Len(searches) + 1] = [kind |-> "pinned", from |-> 0, found |-> NotYet]
  BY Begun DEF Kinds
<1> DEFINE new == searches'[Len(searches) + 1]
<1>2. new.kind = "pinned" /\ new.from = 0 /\ new.found = NotYet
  BY <1>1
<1>3. Covers(new, m)
  BY <1>2 DEF Covers
<1> QED
  BY <1>1, <1>3 DEF OnItsWay

\* Searches that are added leave those under way.
LEMMA SearchesGoOn ==
  ASSUME SearchesOK, NEW m,
         \/ UNCHANGED searches
         \/ \E kind \in Kinds : \E from \in Message \cup {0} : Search(kind, from)
         \/ OnUpdateNewChat
  PROVE  \A i \in DOMAIN searches : i \in DOMAIN searches' /\ searches'[i] = searches[i]
<1>1. ASSUME NEW kind \in Kinds, NEW from \in Message \cup {0}, Search(kind, from), NEW i \in DOMAIN searches
      PROVE  i \in DOMAIN searches' /\ searches'[i] = searches[i]
  BY <1>1, Begun
<1>2. ASSUME OnUpdateNewChat, NEW i \in DOMAIN searches
      PROVE  i \in DOMAIN searches' /\ searches'[i] = searches[i]
  <2>1. PICK n \in Nat : searches' = searches \o [j \in 1 .. n |-> NewSearch("mention", 0)]
    BY <1>2, NewChatBegins
  <2> DEFINE new == [j \in 1 .. n |-> NewSearch("mention", 0)]
  <2>2. new \in Seq(SearchType) /\ Len(new) = n
    BY DEF NewSearch, SearchType, Kinds
  <2>3. searches' = searches \o new /\ searches \in Seq(SearchType)
    BY <2>1 DEF SearchesOK
  <2> HIDE DEF new
  <2> QED
    BY <2>2, <2>3, ConcatProperties, LenProperties
<1> QED
  BY <1>1, <1>2

\* PinsInv is inductive.
LEMMA PinsKeep == PageHasChat /\ SearchesOK /\ PinsInv /\ [Next]_vars => PinsInv'
<1> SUFFICES ASSUME PageHasChat, SearchesOK, PinsInv, [Next]_vars, shown' PROVE
        /\ "pinned" \notin refused' => \A m \in marked'["pinned"] : OnItsWay(m)'
        /\ current' = 0 \/ current' < Len(messages') \/ refetched'
  BY DEF PinsInv
<1> USE DEF pinnedVars, searchVars, mentionVars
<1> DEFINE BarOK == current = 0 \/ current < Len(messages) \/ refetched
           AllOnTheirWay == "pinned" \notin refused => \A m \in marked["pinned"] : OnItsWay(m)
<1>0. EventsOK /\ (shown => BarOK /\ AllOnTheirWay) /\ "pinned" \in Kinds /\ marked["pinned"] \subseteq Message
  BY DEF SearchesOK, PinsInv, Kinds
<1>1. CASE Quiet
  <2>1. ASSUME NEW m, OnItsWay(m) PROVE OnItsWay(m)'
    BY <1>0, <1>1, <2>1, CarriedOn, WayGoesOn DEF Quiet
  <2> QED
    BY <1>0, <1>1, <2>1 DEF Quiet
<1>2. CASE Opens
  BY <1>2, FetchedAnew DEF Opens, SetTelegramManager, FetchMessages
<1>3. CASE Closes \/ Ends
  BY <1>3 DEF Closes, Ends, Destroy
<1>4. CASE Starts
  <2>1. ASSUME NEW m, OnItsWay(m) PROVE OnItsWay(m)'
    BY <1>0, <1>4, <2>1, CarriedOn, WayGoesOn DEF Starts
  <2> QED
    BY <1>0, <1>4, <2>1 DEF Starts
<1>5. CASE PinnedStep
  <2>1. CASE OnGotSearchChatMessagesFilterPinned
    <3>1. Received("pinned") /\ UNCHANGED <<marked, refused, shown, current, refetched>>
      BY <2>1 DEF OnGotSearchChatMessagesFilterPinned
    <3>2. PICK found : found = queue[1].found
      OBVIOUS
    <3>3. found \in Seq(Message) /\ (found # <<>> => Last(found) \in Message) /\ found = Head(queue).found
      BY <1>0, <3>1, <3>2, ReceivedPage
    <3>4. messages' = messages \o found
          /\ IF found # <<>> THEN Search("pinned", Last(found)) ELSE UNCHANGED searches
      BY <2>1, <3>3, <3>1 DEF OnGotSearchChatMessagesFilterPinned
    <3>5. /\ messages \in Seq(Message) /\ messages' \in Seq(Message)
          /\ Len(messages') >= Len(messages) /\ Len(messages) \in Nat /\ Len(messages') \in Nat
          /\ Range(messages') = Range(messages) \cup Range(found)
      <4>1. messages \in Seq(Message)
        BY DEF SearchesOK
      <4> QED
        BY <3>3, <3>4, <4>1, ConcatProperties, LenProperties, RangeConcatenation
    <3>6. BarOK'
      BY <1>0, <3>1, <3>5 DEF SearchesOK
    <3>7. ASSUME NEW m \in Message, OnItsWay(m) PROVE OnItsWay(m)'
      <4>1. ASSUME Reaches(found, m), m \notin Range(found) PROVE OnItsWay(m)'
        <5>1. found # <<>> /\ m < Last(found) /\ Search("pinned", Last(found))
          BY <3>4, <4>1 DEF Reaches
        <5>2. /\ Len(searches) + 1 \in DOMAIN searches'
              /\ searches'[Len(searches) + 1] = [kind |-> "pinned", from |-> Last(found), found |-> NotYet]
          BY <1>0, <3>3, <5>1, Begun
        <5> DEFINE new == searches'[Len(searches) + 1]
        <5>3. new.kind = "pinned" /\ new.from = Last(found) /\ new.found = NotYet
          BY <5>2
        <5>4. Covers(new, m)
          BY <5>1, <5>3 DEF Covers
        <5> QED
          BY <5>2, <5>4 DEF OnItsWay
      <4>2. ASSUME ~Reaches(found, m) PROVE OnItsWay(m)'
        <5>1. ASSUME NEW i \in 1 .. Len(queue), Carries(queue[i], m)
              PROVE  \E j \in 1 .. Len(queue') : Carries(queue'[j], m)
          <6>1. /\ Len(queue) \in Nat /\ queue[1].type = "pinned"
                /\ \A j \in 2 .. Len(queue) : j - 1 \in 1 .. Len(queue') /\ queue'[j - 1] = queue[j]
            BY <1>0, <3>1, ReceivedFirst DEF EventsOK
          <6>2. i # 1
            BY <3>2, <4>2, <5>1, <6>1 DEF Carries
          <6> QED
            BY <5>1, <6>1, <6>2
        <5>2. \A i \in DOMAIN searches : i \in DOMAIN searches' /\ searches'[i] = searches[i]
          BY <1>0, <3>3, <3>4, SearchesGoOn
        <5> QED
          BY <3>5, <3>7, <5>1, <5>2, WayGoesOn
      <4> QED
        BY <3>5, <4>1, <4>2 DEF OnItsWay
    <3> QED
      BY <1>0, <3>1, <3>6, <3>7
  <2>2. CASE OnUpdateMessageIsPinned
    BY <2>2, FetchedAnew DEF OnUpdateMessageIsPinned, FetchMessages
  <2>3. CASE CycleMessage
    <3>1. current < Len(messages) /\ Len(messages) \in Nat /\ current \in Nat
      BY <2>3 DEF CycleMessage, BarIsShown, SearchesOK
    <3>2. current' < Len(messages')
      BY <2>3, <3>1 DEF CycleMessage
    <3>3. ASSUME NEW m, OnItsWay(m) PROVE OnItsWay(m)'
      BY <2>3, <3>3 DEF CycleMessage, OnItsWay
    <3> QED
      BY <1>0, <2>3, <3>2, <3>3 DEF CycleMessage
  <2> QED
    BY <1>5, <2>1, <2>2, <2>3 DEF PinnedStep
<1>6. CASE MentionStep
  <2>1. UNCHANGED <<marked, messages, current, shown, refused, refetched>>
        /\ \E type \in {"group", "newChat", "mentions", "mention"} : Received(type)
    BY <1>6 DEF MentionStep, OnUpdateNewChat, OnUnreadMentionCount, OnGotSearchChatMessagesFilterUnreadMention
  <2>2. \A i \in DOMAIN searches : i \in DOMAIN searches' /\ searches'[i] = searches[i]
    <3>1. OnUpdateNewChat \/ UNCHANGED searches \/ Search("mention", 0)
      BY <1>6 DEF MentionStep, OnUnreadMentionCount, SetUnreadMentionCount,
                  OnGotSearchChatMessagesFilterUnreadMention
    <3> QED
      BY <3>1, SearchesGoOn DEF Kinds
  <2>3. ASSUME NEW m, OnItsWay(m) PROVE OnItsWay(m)'
    BY <1>0, <2>1, <2>2, <2>3, CarriedOn, WayGoesOn
  <2> QED
    BY <1>0, <2>1, <2>3
<1>7. CASE SearchStep
  <2>1. PICK i \in DOMAIN searches : Find(i) \/ Refuse(i) \/ \E kind \in Kinds : Answer(kind, i)
    BY <1>7 DEF SearchStep
  <2>2. searches[i] \in SearchType /\ UNCHANGED <<messages, current, marked, shown, refetched>>
    BY <1>7, <2>1, ElementOfSeq, LenProperties DEF SearchesOK, SearchStep, Find, Refuse, Answer
  <2>3. ASSUME "pinned" \notin refused', NEW m \in marked["pinned"], OnItsWay(m)
        PROVE  OnItsWay(m)'
    <3>1. CASE Find(i)
      <4>1. PICK found \in Answers(searches[i].kind, searches[i].from) :
              searches' = [searches EXCEPT ![i].found = found]
        BY <3>1 DEF Find
      <4>2. ASSUME NEW j \in DOMAIN searches, Covers(searches[j], m)
            PROVE  j \in DOMAIN searches' /\ Covers(searches'[j], m)
        <5>1. CASE j = i
          <6>1. searches'[i] = [searches[i] EXCEPT !.found = found] /\ i \in DOMAIN searches'
            BY <4>1 DEF SearchesOK
          <6>2. /\ searches'[i].kind = "pinned" /\ searches'[i].from = searches[i].from
                /\ searches'[i].found = found /\ searches[i].kind = "pinned"
                /\ searches[i].from \in Message \cup {0}
            BY <2>2, <4>2, <5>1, <6>1 DEF SearchType, Covers
          <6>3. Reaches(found, m)
            <7>1. m \in marked["pinned"] /\ (searches[i].from = 0 \/ m < searches[i].from)
              BY <2>3, <4>2, <5>1 DEF Covers
            <7> QED
              BY <1>0, <4>1, <6>2, <7>1, AnswersAre
          <6> QED
            BY <4>2, <5>1, <6>1, <6>2, <6>3 DEF Covers
        <5>2. CASE j # i
          BY <4>1, <4>2, <5>2 DEF SearchesOK
        <5> QED
          BY <5>1, <5>2
      <4> QED
        BY <2>2, <2>3, <3>1, <4>2, WayGoesOn DEF Find
    <3>2. CASE searches' = RemoveAt(searches, i)
      <4>1. \A j \in DOMAIN searches \ {i} : \E k \in DOMAIN searches' : searches'[k] = searches[j]
        BY <3>2, Without DEF SearchesOK
      <4>2. CASE ~Covers(searches[i], m) /\ (UNCHANGED queue \/ \E event : Post(event))
        <5>1. ASSUME NEW j \in DOMAIN searches, Covers(searches[j], m)
              PROVE  \E k \in DOMAIN searches' : Covers(searches'[k], m)
          BY <4>1, <4>2, <5>1
        <5> QED
          BY <1>0, <2>2, <2>3, <4>2, <5>1, CarriedOn, WayGoesOn
      <4>3. CASE Refuse(i)
        <5>1. searches[i].kind # "pinned" /\ UNCHANGED queue
          BY <2>3, <4>3 DEF Refuse
        <5> QED
          BY <4>2, <5>1 DEF Covers
      <4>4. ASSUME NEW kind \in Kinds, Answer(kind, i) PROVE OnItsWay(m)'
        <5> DEFINE event == [type |-> kind, found |-> searches[i].found,
                             late |-> searches[i].found \notin Answers(searches[i].kind, searches[i].from)]
        <5>1. Post(event) /\ searches[i].kind = kind /\ searches[i].found # NotYet
          BY <4>4 DEF Answer
        <5>2. event.type = kind /\ event.found = searches[i].found
          OBVIOUS
        <5> HIDE DEF event
        <5>3. ASSUME Covers(searches[i], m) PROVE OnItsWay(m)'
          <6>1. Carries(event, m)
            BY <5>1, <5>2, <5>3 DEF Covers, Carries
          <6>2. queue'[Len(queue) + 1] = event /\ Len(queue) + 1 \in 1 .. Len(queue')
            BY <1>0, <5>1, PostedLast DEF EventsOK
          <6> QED
            BY <6>1, <6>2 DEF OnItsWay
        <5> QED
          BY <4>2, <5>1, <5>3
      <4> QED
        BY <2>1, <3>1, <4>3, <4>4
    <3> QED
      BY <2>1, <3>1, <3>2 DEF Refuse, Answer
  <2>4. refused \subseteq refused'
    BY <2>1 DEF Find, Refuse, Answer
  <2> QED
    BY <1>0, <2>2, <2>3, <2>4
<1>8. CASE MessageStep
  <2>1. UNCHANGED <<searches, messages, current, shown, refused, refetched>>
    BY <1>8 DEF MessageStep, Toggle, Delete
  <2>2. CASE \E m \in Message : Toggle("pinned", m)
    <3> DEFINE event == [type |-> "isPinned"]
    <3>1. Post(event) /\ event.type = "isPinned"
      BY <2>2 DEF Toggle
    <3> HIDE DEF event
    <3>2. queue'[Len(queue) + 1].type = "isPinned" /\ Len(queue) + 1 \in 1 .. Len(queue')
      BY <1>0, <3>1, PostedLast DEF EventsOK
    <3>3. \A m : OnItsWay(m)'
      BY <3>2 DEF OnItsWay, Carries
    <3> QED
      BY <1>0, <2>1, <3>3
  <2>3. CASE \E m \in Message : Delete(m) \/ Toggle("mention", m)
    <3>1. marked'["pinned"] \subseteq marked["pinned"]
      BY <1>0, <2>3 DEF Toggle, Delete, SearchesOK
    <3>2. UNCHANGED queue \/ \E event : Post(event)
      BY <2>3 DEF Toggle, Delete
    <3>3. ASSUME NEW m, OnItsWay(m) PROVE OnItsWay(m)'
      BY <1>0, <2>1, <3>2, <3>3, CarriedOn, WayGoesOn
    <3> QED
      BY <1>0, <2>1, <3>1, <3>3
  <2> QED
    BY <1>8, <2>2, <2>3 DEF MessageStep, Kinds
<1> QED
  BY <1>1, <1>2, <1>3, <1>4, <1>5, <1>6, <1>7, <1>8, Steps

(***************************************************************************)
(* Every pinned message is in PinnedMessages' list once nothing is under   *)
(* way, and the bar is there that leads to it: each page continues from    *)
(* the last message of its own answer, and a change fetches the list anew  *)
(* (pinnedmessages.cpp).  There may be no bar past the end of a list that  *)
(* was fetched anew, or once the user has closed it (Chat.qml:419-421).    *)
(***************************************************************************)
THEOREM PinsStayReachable == Spec => []PinsAreReachable
<1>1. Init => PageHasChat /\ SearchesOK /\ PinsInv
  BY SearchesBegin DEF Init, PinnedInit, PinsInv
<1>2. PageHasChat /\ SearchesOK /\ PinsInv /\ [Next]_vars => (PageHasChat /\ SearchesOK /\ PinsInv)'
  BY PageHasChatKeeps, SearchesKeep, PinsKeep
<1>3. SearchesOK /\ PinsInv => PinsAreReachable
  <2> SUFFICES ASSUME SearchesOK, PinsInv, Fetched
               PROVE  /\ marked["pinned"] \subseteq Range(messages)
                      /\ marked["pinned"] # {} => BarIsShown \/ refetched \/ closed
    BY DEF PinsAreReachable
  <2>1. ASSUME NEW i \in 1 .. Len(queue) PROVE queue[i].type # "pinned" /\ queue[i].type # "isPinned"
    <3>1. queue[i] \in OnTheirWay
      BY DEF OnTheirWay, SearchesOK, EventsOK, IsSequence
    <3> QED
      BY <3>1 DEF Fetched, Searching
  <2>2. \A i \in DOMAIN searches : searches[i].kind # "pinned"
    BY DEF Fetched, Searching
  <2>3. ASSUME NEW m \in marked["pinned"] PROVE m \in Range(messages)
    <3>1. OnItsWay(m)
      BY DEF PinsInv, Fetched
    <3> QED
      BY <2>1, <2>2, <3>1 DEF OnItsWay, Carries, Covers
  <2>4. ASSUME marked["pinned"] # {}, ~refetched, ~closed PROVE BarIsShown
    <3>1. Range(messages) # {} /\ messages \in Seq(Message)
      BY <2>3, <2>4 DEF SearchesOK
    <3>2. Len(messages) \in Nat \ {0}
      BY <3>1 DEF Range
    <3> QED
      BY <2>4, <3>2 DEF PinsInv, Fetched, BarIsShown
  <2> QED
    BY <2>3, <2>4
<1> QED
  BY <1>1, <1>2, <1>3, PTL DEF Spec

-----------------------------------------------------------------------------
(***************************************************************************)
(* The list holds nothing else, and nothing twice.                         *)
(***************************************************************************)

\* What is added to the queue and taken from it that has nothing to do with the pinned
\* messages: "d" events are taken.
LEMMA OthersCome ==
  ASSUME EventsOK,
         \/ UNCHANGED queue
         \/ \E event : event.type # "pinned" /\ Post(event)
         \/ \E type \in {"group", "newChat", "mentions", "mention"} : Received(type)
  PROVE  /\ \E d \in {0, 1} : \A i \in 1 .. Len(queue') : queue'[i].type = "pinned" =>
                                 i + d \in 1 .. Len(queue) /\ queue'[i] = queue[i + d]
         /\ (\E i \in 1 .. Len(queue) : queue[i].type = "isPinned") =>
               \E i \in 1 .. Len(queue') : queue'[i].type = "isPinned"
<1>0. Len(queue) \in Nat
  BY DEF EventsOK, IsSequence
<1>1. CASE UNCHANGED queue
  <2>1. \A i \in 1 .. Len(queue') : i + 0 \in 1 .. Len(queue) /\ queue'[i] = queue[i + 0]
    BY <1>0, <1>1
  <2> QED
    BY <1>1, <2>1
<1>2. ASSUME NEW event, event.type # "pinned", Post(event)
      PROVE  /\ \A i \in 1 .. Len(queue') : queue'[i].type = "pinned" =>
                    i + 0 \in 1 .. Len(queue) /\ queue'[i] = queue[i + 0]
             /\ \A i \in 1 .. Len(queue) : i \in 1 .. Len(queue') /\ queue'[i] = queue[i]
  BY <1>2, PostedLast DEF EventsOK
<1>3. ASSUME NEW type \in {"group", "newChat", "mentions", "mention"}, Received(type)
      PROVE  /\ \A i \in 1 .. Len(queue') : i + 1 \in 1 .. Len(queue) /\ queue'[i] = queue[i + 1]
             /\ \A i \in 1 .. Len(queue) : queue[i].type = "isPinned" =>
                   i - 1 \in 1 .. Len(queue') /\ queue'[i - 1] = queue[i]
  <2>1. /\ Len(queue) >= 1 /\ Len(queue') = Len(queue) - 1 /\ queue[1].type = type
        /\ \A i \in 1 .. Len(queue') : queue'[i] = queue[i + 1]
        /\ \A j \in 2 .. Len(queue) : j - 1 \in 1 .. Len(queue') /\ queue'[j - 1] = queue[j]
    BY <1>3, ReceivedFirst DEF EventsOK
  <2>2. \A i \in 1 .. Len(queue) : queue[i].type = "isPinned" => i # 1
    BY <2>1
  <2> QED
    BY <1>0, <2>1, <2>2
<1> QED
  BY <1>1, <1>2, <1>3

\* What is pinned stays so unless the chat hears of it.
LEMMA StaysPinned ==
  ASSUME (\E i \in 1 .. Len(queue) : queue[i].type = "isPinned") =>
            \E i \in 1 .. Len(queue') : queue'[i].type = "isPinned",
         marked["pinned"] \cup gone \subseteq marked'["pinned"] \cup gone'
  PROVE  \A ms : IsPinned(ms) => IsPinned(ms)'
BY DEF IsPinned

\* ExactInv is kept when no search for pinned messages begins and none is answered.
LEMMA ListGoesOn ==
  ASSUME SearchesOK, ExactInv, UNCHANGED <<shown, joined, messages>>,
         NEW d \in {0, 1},
         \A i \in 1 .. Len(queue') : queue'[i].type = "pinned" =>
            i + d \in 1 .. Len(queue) /\ queue'[i] = queue[i + d],
         NEW f,
         \A i \in DOMAIN searches' : searches'[i].kind = "pinned" =>
            f[i] \in DOMAIN searches /\ searches'[i] = searches[f[i]],
         \A i, j \in DOMAIN searches' : f[i] = f[j] => i = j,
         \A ms : IsPinned(ms) => IsPinned(ms)'
  PROVE  ExactInv'
<1> SUFFICES ASSUME shown, ~joined PROVE ExactInv'
  BY DEF ExactInv
<1>1. /\ Alone
      /\ Descends(messages) /\ IsPinned(messages)
      /\ \A i \in DOMAIN searches : searches[i].kind = "pinned" =>
            IF searches[i].found = NotYet
            THEN \A m \in Range(messages) : searches[i].from # 0 /\ searches[i].from <= m
            ELSE Continues(searches[i].found) /\ IsPinned(searches[i].found)
      /\ \A i \in 1 .. Len(queue) : queue[i].type = "pinned" =>
            Continues(queue[i].found) /\ IsPinned(queue[i].found)
  BY DEF ExactInv
<1>2. \A found : Continues(found) => Continues(found)'
  BY DEF Continues
<1>3. Alone'
  <2>1. \A i, j \in 1 .. Len(queue') : i + d = j + d => i = j
    OBVIOUS
  <2>2. \A i, j \in DOMAIN searches' : searches'[i].kind = "pinned" /\ searches'[j].kind = "pinned" => i = j
    BY <1>1 DEF Alone
  <2>3. ASSUME NEW i \in 1 .. Len(queue'), NEW j \in 1 .. Len(queue'),
               queue'[i].type = "pinned", queue'[j].type = "pinned"
        PROVE  i = j
    <3>1. /\ i + d \in 1 .. Len(queue) /\ queue[i + d].type = "pinned"
          /\ j + d \in 1 .. Len(queue) /\ queue[j + d].type = "pinned"
      BY <2>3
    <3>2. i + d = j + d
      BY <1>1, <3>1 DEF Alone
    <3> QED
      BY <2>1, <3>2
  <2>4. \A i \in DOMAIN searches', j \in 1 .. Len(queue') :
            ~(searches'[i].kind = "pinned" /\ queue'[j].type = "pinned")
    BY <1>1 DEF Alone
  <2> QED
    BY <2>2, <2>3, <2>4 DEF Alone
<1>4. Descends(messages)' /\ IsPinned(messages)'
  <2>1. IsPinned(messages') <=> IsPinned(messages)
    OBVIOUS
  <2> QED
    BY <1>1 DEF Descends, IsPinned
<1>5. ASSUME NEW i \in DOMAIN searches', searches'[i].kind = "pinned"
      PROVE  IF searches'[i].found = NotYet
             THEN \A m \in Range(messages') : searches'[i].from # 0 /\ searches'[i].from <= m
             ELSE Continues(searches[i].found)' /\ IsPinned(searches[i].found)'
  <2>1. PICK found : found = searches'[i].found
    OBVIOUS
  <2>2. IF found = NotYet
        THEN \A m \in Range(messages') : searches'[i].from # 0 /\ searches'[i].from <= m
        ELSE Continues(found) /\ IsPinned(found)
    BY <1>1, <1>5, <2>1
  <2> QED
    BY <1>2, <2>1, <2>2 DEF Continues, IsPinned
<1>6. ASSUME NEW i \in 1 .. Len(queue'), queue'[i].type = "pinned"
      PROVE  Continues(queue[i].found)' /\ IsPinned(queue[i].found)'
  <2>1. PICK found : found = queue'[i].found
    OBVIOUS
  <2>2. Continues(found) /\ IsPinned(found)
    BY <1>1, <1>6, <2>1
  <2> QED
    BY <1>2, <2>1, <2>2 DEF Continues, IsPinned
<1> QED
  BY <1>3, <1>4, <1>5, <1>6 DEF ExactInv

\* The searches for pinned messages are still those that were under way.
LEMMA SearchesAside ==
  ASSUME SearchesOK,
         \/ UNCHANGED searches \/ Search("mention", 0) \/ OnUpdateNewChat
         \/ \E i \in DOMAIN searches : searches' = RemoveAt(searches, i)
  PROVE  \E f : /\ \A i \in DOMAIN searches' : searches'[i].kind = "pinned" =>
                      f[i] \in DOMAIN searches /\ searches'[i] = searches[f[i]]
                /\ \A i, j \in DOMAIN searches' : f[i] = f[j] => i = j
<1>0. searches \in Seq(SearchType) /\ Len(searches) \in Nat /\ DOMAIN searches = 1 .. Len(searches)
  BY LenProperties DEF SearchesOK
<1>1. CASE UNCHANGED searches \/ Search("mention", 0) \/ OnUpdateNewChat
  <2>1. \A i \in DOMAIN searches' : searches'[i].kind = "pinned" =>
           i \in DOMAIN searches /\ searches'[i] = searches[i]
    <3>1. ASSUME Search("mention", 0), NEW i \in DOMAIN searches', searches'[i].kind = "pinned"
          PROVE  i \in DOMAIN searches /\ searches'[i] = searches[i]
      <4>1. /\ DOMAIN searches' = 1 .. Len(searches) + 1
            /\ \A j \in DOMAIN searches : searches'[j] = searches[j]
            /\ searches'[Len(searches) + 1] = [kind |-> "mention", from |-> 0, found |-> NotYet]
        BY <3>1, Begun DEF Kinds
      <4>2. searches'[Len(searches) + 1].kind = "mention"
        BY <4>1
      <4> QED
        BY <1>0, <3>1, <4>1, <4>2
    <3>2. ASSUME OnUpdateNewChat, NEW i \in DOMAIN searches', searches'[i].kind = "pinned"
          PROVE  i \in DOMAIN searches /\ searches'[i] = searches[i]
      <4>1. PICK n \in Nat : searches' = searches \o [j \in 1 .. n |-> NewSearch("mention", 0)]
        BY <3>2, NewChatBegins
      <4> DEFINE new == [j \in 1 .. n |-> NewSearch("mention", 0)]
      <4>2. new \in Seq(SearchType) /\ Len(new) = n /\ \A j \in 1 .. n : new[j].kind = "mention"
        BY DEF NewSearch, SearchType, Kinds
      <4>3. searches' = searches \o new
        BY <4>1
      <4> HIDE DEF new
      <4>4. /\ DOMAIN searches' = 1 .. Len(searches) + n
            /\ searches'[i] = IF i <= Len(searches) THEN searches[i] ELSE new[i - Len(searches)]
        <5>1. searches' \in Seq(SearchType) /\ Len(searches') = Len(searches) + n
          BY <1>0, <4>2, <4>3, ConcatProperties
        <5>2. DOMAIN searches' = 1 .. Len(searches')
          BY <5>1, LenProperties
        <5> QED
          BY <1>0, <3>2, <4>2, <4>3, <5>1, <5>2, ConcatProperties
      <4> QED
        BY <1>0, <3>2, <4>2, <4>4
    <3> QED
      BY <1>1, <3>1, <3>2
  <2> DEFINE f == [i \in DOMAIN searches' |-> i]
  <2>2. \A i \in DOMAIN searches' : f[i] = i
    OBVIOUS
  <2> HIDE DEF f
  <2> QED
    BY <2>1, <2>2
<1>2. ASSUME NEW i \in DOMAIN searches, searches' = RemoveAt(searches, i)
      PROVE  \E f : /\ \A j \in DOMAIN searches' : f[j] \in DOMAIN searches /\ searches'[j] = searches[f[j]]
                    /\ \A j, k \in DOMAIN searches' : f[j] = f[k] => j = k
  <2> DEFINE f == [j \in DOMAIN searches' |-> IF j < i THEN j ELSE j + 1]
  <2>1. \A j \in DOMAIN searches' : f[j] = IF j < i THEN j ELSE j + 1
    OBVIOUS
  <2>2. \A j \in DOMAIN searches' : IF j < i THEN j \in DOMAIN searches /\ searches'[j] = searches[j]
                                    ELSE j + 1 \in DOMAIN searches /\ searches'[j] = searches[j + 1]
    BY <1>0, <1>2, Without
  <2>3. searches' \in Seq(SearchType) /\ DOMAIN searches' = 1 .. Len(searches')
    BY <1>0, <1>2, Without, LenProperties
  <2> HIDE DEF f
  <2>4. ASSUME NEW j \in DOMAIN searches', NEW k \in DOMAIN searches', f[j] = f[k]
        PROVE  j = k
    BY <1>0, <2>1, <2>3, <2>4
  <2> QED
    BY <2>1, <2>2, <2>4
<1> QED
  BY <1>1, <1>2

\* ExactInv is kept by a step that has nothing to do with the list.
LEMMA ListAside ==
  ASSUME SearchesOK, ExactInv, UNCHANGED <<shown, joined, messages>>,
         \/ UNCHANGED searches \/ Search("mention", 0) \/ OnUpdateNewChat
         \/ \E i \in DOMAIN searches : searches' = RemoveAt(searches, i),
         \/ UNCHANGED queue
         \/ \E event : event.type # "pinned" /\ Post(event)
         \/ \E type \in {"group", "newChat", "mentions", "mention"} : Received(type),
         \/ marked["pinned"] \cup gone \subseteq marked'["pinned"] \cup gone'
         \/ \E event : event.type = "isPinned" /\ Post(event)
  PROVE  ExactInv'
<1>1. EventsOK
  BY DEF SearchesOK
<1>2. \A ms : IsPinned(ms) => IsPinned(ms)'
  <2>1. ASSUME NEW event, event.type = "isPinned", Post(event)
        PROVE  \A ms : IsPinned(ms)'
    <3>1. queue'[Len(queue) + 1].type = "isPinned" /\ Len(queue) + 1 \in 1 .. Len(queue')
      BY <1>1, <2>1, PostedLast DEF EventsOK
    <3> QED
      BY <3>1 DEF IsPinned
  <2>2. CASE marked["pinned"] \cup gone \subseteq marked'["pinned"] \cup gone'
    BY <1>1, <2>2, OthersCome, StaysPinned
  <2> QED
    BY <2>1, <2>2
<1>3. PICK d \in {0, 1} : \A i \in 1 .. Len(queue') : queue'[i].type = "pinned" =>
                             i + d \in 1 .. Len(queue) /\ queue'[i] = queue[i + d]
  BY <1>1, OthersCome
<1>4. PICK f : /\ \A i \in DOMAIN searches' : searches'[i].kind = "pinned" =>
                     f[i] \in DOMAIN searches /\ searches'[i] = searches[f[i]]
               /\ \A i, j \in DOMAIN searches' : f[i] = f[j] => i = j
  BY SearchesAside
<1> QED
  BY <1>2, <1>3, <1>4, ListGoesOn

\* ExactInv holds of a list that is fetched anew while nothing is under way.
LEMMA ListBegins ==
  ASSUME SearchesOK, FetchMessages,
         UNCHANGED queue \/ Received("isPinned")
  PROVE  ExactInv'
<1> SUFFICES ASSUME ~joined' PROVE ExactInv'
  BY DEF ExactInv
<1>1. EventsOK /\ messages' = <<>> /\ ~Searching("pinned")
  BY DEF FetchMessages, SearchesOK
<1>2. \A i \in DOMAIN searches : searches[i].kind # "pinned"
  BY <1>1 DEF Searching
<1>3. \A i \in 1 .. Len(queue) : queue[i].type # "pinned"
  BY <1>1 DEF Searching, OnTheirWay, EventsOK, IsSequence
<1>4. \A i \in 1 .. Len(queue') : queue'[i].type # "pinned"
  <2>1. ASSUME Received("isPinned"), NEW i \in 1 .. Len(queue')
        PROVE  i + 1 \in 1 .. Len(queue) /\ queue'[i] = queue[i + 1]
    BY <1>1, <2>1, ReceivedFirst DEF EventsOK
  <2> QED
    BY <1>3, <2>1
<1>5. /\ Len(searches) \in Nat /\ DOMAIN searches = 1 .. Len(searches) /\ DOMAIN searches' = 1 .. Len(searches) + 1
      /\ \A i \in DOMAIN searches : searches'[i] = searches[i]
      /\ searches'[Len(searches) + 1] = [kind |-> "pinned", from |-> 0, found |-> NotYet]
  BY Begun DEF FetchMessages, Kinds
<1>6. \A i \in DOMAIN searches' : searches'[i].kind = "pinned" => i = Len(searches) + 1
  BY <1>2, <1>5
<1>7. searches'[Len(searches) + 1].found = NotYet
  BY <1>5
<1>8. Range(messages') = {} /\ DOMAIN messages' = {}
  BY <1>1 DEF Range
<1> QED
  BY <1>4, <1>6, <1>7, <1>8 DEF ExactInv, Alone, Descends, IsPinned

\* ExactInv is inductive.
LEMMA ExactKeeps == PageHasChat /\ SearchesOK /\ ExactInv /\ [Next]_vars => ExactInv'
<1> SUFFICES ASSUME PageHasChat, SearchesOK, ExactInv, [Next]_vars, shown', ~joined' PROVE ExactInv'
  BY DEF ExactInv
<1> USE DEF pinnedVars, searchVars, mentionVars
<1>0. /\ EventsOK /\ marked["pinned"] \subseteq Message /\ marked \in [Kinds -> SUBSET Message]
      /\ searches \in Seq(SearchType) /\ Len(searches) \in Nat /\ DOMAIN searches = 1 .. Len(searches)
      /\ Len(queue) \in Nat /\ messages \in Seq(Message) /\ Range(messages) \subseteq Message
      /\ Message \subseteq Nat \ {0}
  <2>1. messages \in Seq(Message) => Range(messages) \subseteq Message
    BY DEF Range
  <2> QED
    BY <2>1, LenProperties, MessageAssumption DEF SearchesOK, Kinds, EventsOK, IsSequence
<1>00. shown /\ ~joined =>
        /\ Alone
        /\ Descends(messages) /\ IsPinned(messages)
        /\ \A i \in DOMAIN searches : searches[i].kind = "pinned" =>
              IF searches[i].found = NotYet
              THEN \A m \in Range(messages) : searches[i].from # 0 /\ searches[i].from <= m
              ELSE Continues(searches[i].found) /\ IsPinned(searches[i].found)
        /\ \A i \in 1 .. Len(queue) : queue[i].type = "pinned" =>
              Continues(queue[i].found) /\ IsPinned(queue[i].found)
  BY DEF ExactInv
<1>1. CASE Quiet
  <2>1. UNCHANGED queue \/ (\E event : event.type # "pinned" /\ Post(event)) \/ Received("group")
    BY <1>1 DEF Quiet
  <2> QED
    BY <1>1, <2>1, ListAside DEF Quiet
<1>2. CASE Opens
  BY <1>2, ListBegins DEF Opens, SetTelegramManager
<1>3. CASE Closes \/ Ends
  BY <1>3 DEF Closes, Ends, Destroy
<1>4. CASE Starts
  <2> DEFINE event == [type |-> "newChat", count |-> Cardinality(marked["mention"])]
  <2>1. event.type # "pinned" /\ Post(event)
    BY <1>4 DEF Starts
  <2> HIDE DEF event
  <2> QED
    BY <1>4, <2>1, ListAside DEF Starts
<1>5. CASE PinnedStep
  <2>1. CASE OnGotSearchChatMessagesFilterPinned
    <3>1. Received("pinned") /\ UNCHANGED <<marked, gone, shown, joined>> /\ "pinned" \in Kinds
      BY <2>1 DEF OnGotSearchChatMessagesFilterPinned, Kinds
    <3>2. /\ Head(queue) = queue[1] /\ queue[1].type = "pinned" /\ Len(queue) >= 1
          /\ \A i \in 1 .. Len(queue') : queue'[i] = queue[i + 1] /\ i + 1 \in 1 .. Len(queue)
          /\ \A j \in 2 .. Len(queue) : j - 1 \in 1 .. Len(queue') /\ queue'[j - 1] = queue[j]
      BY <1>0, <3>1, ReceivedFirst DEF EventsOK
    <3>3. PICK found : found = Head(queue).found
      OBVIOUS
    <3>4. /\ found \in Seq(Message)
          /\ found # <<>> => /\ Last(found) \in Message /\ Len(found) \in Nat \ {0}
                             /\ DOMAIN found = 1 .. Len(found)
          /\ Range(found) \subseteq Message
      <4>1. /\ found \in Seq(Message)
            /\ found # <<>> => /\ Last(found) \in Message /\ Len(found) \in Nat \ {0}
                               /\ DOMAIN found = 1 .. Len(found)
        BY <3>1, <3>3, ReceivedPage
      <4>2. Range(found) \subseteq Message
        BY <4>1 DEF Range
      <4> QED
        BY <4>1, <4>2
    <3>5. /\ messages' = messages \o found
          /\ IF found # <<>> THEN Search("pinned", Last(found)) ELSE UNCHANGED searches
      BY <2>1, <3>1, <3>3 DEF OnGotSearchChatMessagesFilterPinned
    <3>6. /\ Continues(found) /\ IsPinned(found) /\ Descends(messages) /\ IsPinned(messages) /\ Alone
      <4>1. 1 \in 1 .. Len(queue)
        BY <1>0, <3>2
      <4> QED
        BY <1>00, <3>1, <3>2, <3>3, <4>1
    <3>7. \A i \in 1 .. Len(queue') : queue'[i].type # "pinned"
      <4> SUFFICES ASSUME NEW i \in 1 .. Len(queue'), queue'[i].type = "pinned" PROVE FALSE
        OBVIOUS
      <4>1. i + 1 \in 1 .. Len(queue) /\ queue[i + 1].type = "pinned" /\ 1 \in 1 .. Len(queue) /\ i + 1 # 1
        BY <1>0, <3>2
      <4> QED
        BY <3>2, <3>6, <4>1 DEF Alone
    <3>8. \A i \in DOMAIN searches : searches[i].kind # "pinned"
      <4>1. 1 \in 1 .. Len(queue)
        BY <1>0, <3>2
      <4> QED
        BY <3>2, <3>6, <4>1 DEF Alone
    <3>9. \A i \in DOMAIN searches' : searches'[i].kind = "pinned" =>
             /\ i = Len(searches) + 1 /\ found # <<>>
             /\ searches'[i].found = NotYet /\ searches'[i].from = Last(found)
      <4>1. CASE found = <<>>
        BY <3>5, <3>8, <4>1
      <4>2. CASE found # <<>>
        <5>1. /\ DOMAIN searches' = 1 .. Len(searches) + 1
              /\ \A i \in DOMAIN searches : searches'[i] = searches[i]
              /\ searches'[Len(searches) + 1] = [kind |-> "pinned", from |-> Last(found), found |-> NotYet]
          BY <3>1, <3>4, <3>5, <4>2, Begun
        <5>2. searches'[Len(searches) + 1].found = NotYet /\ searches'[Len(searches) + 1].from = Last(found)
          BY <5>1
        <5> QED
          BY <1>0, <3>8, <4>2, <5>1, <5>2
      <4> QED
        BY <4>1, <4>2
    <3>10. /\ messages' \in Seq(Message) /\ Range(messages') = Range(messages) \cup Range(found)
           /\ Len(messages) \in Nat /\ Len(found) \in Nat /\ DOMAIN messages' = 1 .. Len(messages) + Len(found)
           /\ \A i \in DOMAIN messages' :
                 IF i <= Len(messages) THEN i \in DOMAIN messages /\ messages'[i] = messages[i]
                 ELSE /\ i - Len(messages) \in DOMAIN found /\ messages'[i] = found[i - Len(messages)]
      <4>1. messages' \in Seq(Message) /\ Len(messages) \in Nat /\ Len(found) \in Nat
            /\ Len(messages') = Len(messages) + Len(found)
            /\ Range(messages') = Range(messages) \cup Range(found)
            /\ DOMAIN messages = 1 .. Len(messages) /\ DOMAIN found = 1 .. Len(found)
        BY <1>0, <3>4, <3>5, ConcatProperties, LenProperties, RangeConcatenation
      <4>2. DOMAIN messages' = 1 .. Len(messages')
        BY <4>1, LenProperties
      <4>3. ASSUME NEW i \in DOMAIN messages'
            PROVE  messages'[i] = IF i <= Len(messages) THEN messages[i] ELSE found[i - Len(messages)]
        BY <1>0, <3>4, <3>5, <4>1, <4>2, ConcatProperties
      <4> QED
        BY <4>1, <4>2, <4>3
    <3>11. Descends(messages)'
      <4>1. ASSUME NEW i \in DOMAIN messages', NEW j \in DOMAIN messages', i < j
            PROVE  messages'[i] > messages'[j]
        <5>1. CASE j <= Len(messages)
          <6>1. i <= Len(messages)
            BY <3>10, <4>1, <5>1
          <6> QED
            BY <3>6, <3>10, <4>1, <5>1, <6>1 DEF Descends
        <5>2. CASE i <= Len(messages) /\ ~(j <= Len(messages))
          <6>1. messages[i] \in Range(messages) /\ found[j - Len(messages)] \in Range(found)
            BY <3>10, <4>1, <5>2 DEF Range
          <6>2. found[j - Len(messages)] < messages[i]
            BY <3>6, <6>1 DEF Continues
          <6>3. messages[i] \in Nat /\ found[j - Len(messages)] \in Nat
            BY <1>0, <3>4, <6>1
          <6> QED
            BY <3>10, <4>1, <5>2, <6>2, <6>3
        <5>3. CASE ~(i <= Len(messages)) /\ ~(j <= Len(messages))
          <6>1. i - Len(messages) < j - Len(messages)
            BY <3>10, <4>1
          <6>2. Descends(found)
            BY <3>6 DEF Continues
          <6> QED
            BY <3>10, <4>1, <5>3, <6>1, <6>2 DEF Descends
        <5> QED
          BY <5>1, <5>2, <5>3
      <4> QED
        BY <4>1 DEF Descends
    <3>12. IsPinned(messages)'
      <4>1. IsPinned(found) /\ IsPinned(messages)
        BY <3>6
      <4>2. \A i \in 1 .. Len(queue) : queue[i].type = "isPinned" =>
               i - 1 \in 1 .. Len(queue') /\ queue'[i - 1].type = "isPinned"
        BY <1>0, <3>2
      <4>3. CASE \E i \in 1 .. Len(queue) : queue[i].type = "isPinned"
        BY <4>2, <4>3 DEF IsPinned
      <4>4. CASE ~\E i \in 1 .. Len(queue) : queue[i].type = "isPinned"
        BY <3>1, <3>10, <4>1, <4>4 DEF IsPinned
      <4> QED
        BY <4>3, <4>4
    <3>13. ASSUME found # <<>>, NEW m \in Range(messages') PROVE Last(found) # 0 /\ Last(found) <= m
      <4>1. Last(found) \in Message /\ Last(found) = found[Len(found)] /\ Len(found) \in DOMAIN found
        BY <3>4, <3>13 DEF Last
      <4>2. Last(found) \in Nat \ {0} /\ m \in Nat
        BY <1>0, <3>4, <3>10, <4>1, <3>13
      <4>3. CASE m \in Range(messages)
        <5>1. Last(found) \in Range(found)
          BY <4>1 DEF Range
        <5> QED
          BY <3>6, <4>2, <4>3, <5>1 DEF Continues
      <4>4. CASE m \in Range(found)
        <5>1. PICK k \in DOMAIN found : m = found[k]
          BY <4>4 DEF Range
        <5>2. k = Len(found) \/ k < Len(found)
          BY <3>4, <3>13, <5>1
        <5> QED
          BY <3>6, <4>1, <4>2, <5>1, <5>2 DEF Continues, Descends
      <4> QED
        BY <3>10, <3>13, <4>3, <4>4
    <3>14. Alone'
      BY <3>7, <3>9 DEF Alone
    <3> QED
      BY <3>7, <3>9, <3>11, <3>12, <3>13, <3>14 DEF ExactInv
  <2>2. CASE OnUpdateMessageIsPinned
    BY <2>2, ListBegins DEF OnUpdateMessageIsPinned
  <2>3. CASE CycleMessage
    BY <2>3, ListAside DEF CycleMessage
  <2> QED
    BY <1>5, <2>1, <2>2, <2>3 DEF PinnedStep
<1>6. CASE MentionStep
  <2>1. UNCHANGED <<marked, gone, messages, shown, joined>>
        /\ \E type \in {"group", "newChat", "mentions", "mention"} : Received(type)
    BY <1>6 DEF MentionStep, OnUpdateNewChat, OnUnreadMentionCount, OnGotSearchChatMessagesFilterUnreadMention
  <2>2. OnUpdateNewChat \/ UNCHANGED searches \/ Search("mention", 0)
    BY <1>6 DEF MentionStep, OnUnreadMentionCount, SetUnreadMentionCount,
                OnGotSearchChatMessagesFilterUnreadMention
  <2> QED
    BY <2>1, <2>2, ListAside
<1>7. CASE SearchStep
  <2>1. PICK i \in DOMAIN searches : Find(i) \/ Refuse(i) \/ \E kind \in Kinds : Answer(kind, i)
    BY <1>7 DEF SearchStep
  <2>2. searches[i] \in SearchType /\ UNCHANGED <<messages, marked, gone, shown, joined>>
    BY <1>0, <1>7, <2>1, ElementOfSeq DEF SearchStep, Find, Refuse, Answer
  <2>3. CASE Find(i)
    <3>1. PICK found \in Answers(searches[i].kind, searches[i].from) :
            searches' = [searches EXCEPT ![i].found = found]
      BY <2>3 DEF Find
    <3>2. UNCHANGED queue /\ searches[i].found = NotYet
      BY <2>3 DEF Find
    <3>3. /\ DOMAIN searches' = DOMAIN searches
          /\ \A j \in DOMAIN searches : j # i => searches'[j] = searches[j]
          /\ searches'[i] = [searches[i] EXCEPT !.found = found]
      BY <1>0, <3>1
    <3>4. /\ searches'[i].kind = searches[i].kind /\ searches'[i].found = found
          /\ searches[i].from \in Message \cup {0} /\ searches[i].kind \in Kinds
      BY <2>2, <3>3 DEF SearchType
    <3>5. Alone'
      <4>1. Alone /\ \A j \in DOMAIN searches : searches'[j].kind = searches[j].kind
        BY <1>00, <2>2, <3>3, <3>4
      <4> QED
        BY <3>2, <3>3, <4>1 DEF Alone
    <3>6. \A ms : IsPinned(ms) => IsPinned(ms)'
      BY <2>2, <3>2 DEF IsPinned
    <3>7. \A ms : Continues(ms) => Continues(ms)'
      BY <2>2 DEF Continues
    <3>8. ASSUME searches[i].kind = "pinned" PROVE Continues(found) /\ IsPinned(found) /\ found # NotYet
      <4>1. /\ found \in Seq(Message) /\ found # NotYet /\ Descends(found)
            /\ Range(found) \subseteq {m \in marked["pinned"] : searches[i].from = 0 \/ m < searches[i].from}
        BY <3>1, <3>4, <3>8, AnswersAre
      <4>2. \A m \in Range(messages) : searches[i].from # 0 /\ searches[i].from <= m
        BY <1>00, <2>2, <3>2, <3>8
      <4>3. ASSUME NEW m \in Range(messages), NEW x \in Range(found) PROVE x < m
        <5>1. x < searches[i].from /\ searches[i].from <= m /\ x \in Message /\ m \in Message
          BY <1>0, <4>1, <4>2, <4>3
        <5>2. Message \subseteq Nat
          BY <1>0
        <5>3. x \in Nat /\ m \in Nat
          BY <5>1, <5>2
        <5>4. PICK from \in Message \cup {0} : from = searches[i].from
          BY <3>4
        <5>5. from \in Nat
          BY <5>2, <5>4
        <5> QED
          BY <5>1, <5>3, <5>4, <5>5
      <4> QED
        BY <4>1, <4>3 DEF Continues, IsPinned
    <3>9. ASSUME NEW j \in DOMAIN searches', searches'[j].kind = "pinned"
          PROVE  IF searches'[j].found = NotYet
                 THEN \A m \in Range(messages') : searches'[j].from # 0 /\ searches'[j].from <= m
                 ELSE Continues(searches[j].found)' /\ IsPinned(searches[j].found)'
      <4>1. CASE j = i
        <5>1. Continues(found)' /\ IsPinned(found)' /\ found # NotYet
          BY <3>4, <3>6, <3>7, <3>8, <3>9, <4>1
        <5> QED
          BY <3>4, <4>1, <5>1 DEF Continues, IsPinned
      <4>2. CASE j # i
        <5>1. PICK ms : ms = searches'[j].found
          OBVIOUS
        <5>2. searches'[j] = searches[j] /\ j \in DOMAIN searches
          BY <3>3, <3>9, <4>2
        <5>3. IF ms = NotYet
              THEN \A m \in Range(messages') : searches'[j].from # 0 /\ searches'[j].from <= m
              ELSE Continues(ms)' /\ IsPinned(ms)'
          BY <1>00, <2>2, <3>6, <3>7, <3>9, <5>1, <5>2
        <5> QED
          BY <5>1, <5>3 DEF Continues, IsPinned
      <4> QED
        BY <4>1, <4>2
    <3>10. \A j \in 1 .. Len(queue') : queue'[j].type = "pinned" =>
              Continues(queue[j].found)' /\ IsPinned(queue[j].found)'
      BY <1>00, <2>2, <3>2 DEF Continues, IsPinned
    <3> QED
      BY <1>00, <2>2, <3>5, <3>9, <3>10, <3>6 DEF ExactInv, Descends, IsPinned
  <2>4. CASE Refuse(i)
    BY <2>2, <2>4, ListAside DEF Refuse
  <2>5. ASSUME NEW kind \in Kinds, Answer(kind, i) PROVE ExactInv'
    <3> DEFINE event == [type |-> kind, found |-> searches[i].found,
                         late |-> searches[i].found \notin Answers(searches[i].kind, searches[i].from)]
    <3>1. Post(event) /\ searches[i].kind = kind /\ searches[i].found # NotYet /\ searches' = RemoveAt(searches, i)
      BY <2>5 DEF Answer
    <3>2. event.type = kind /\ event.found = searches[i].found
      OBVIOUS
    <3> HIDE DEF event
    <3>3. CASE kind = "mention"
      BY <2>2, <3>1, <3>2, <3>3, ListAside
    <3>4. CASE kind = "pinned"
      <4>1. /\ Continues(searches[i].found) /\ IsPinned(searches[i].found) /\ Alone
            /\ Descends(messages) /\ IsPinned(messages)
        BY <1>00, <2>2, <3>1, <3>4
      <4>2. \A j \in DOMAIN searches' : searches'[j].kind # "pinned"
        <5>1. \A j \in DOMAIN searches' : IF j < i THEN j \in DOMAIN searches /\ searches'[j] = searches[j]
                                          ELSE j + 1 \in DOMAIN searches /\ searches'[j] = searches[j + 1]
              /\ DOMAIN searches' = 1 .. Len(searches')
          BY <1>0, <3>1, Without, LenProperties
        <5>2. \A j \in DOMAIN searches : searches[j].kind = "pinned" => j = i
          BY <3>1, <3>4, <4>1 DEF Alone
        <5> QED
          BY <1>0, <5>1, <5>2
      <4>3. \A j \in 1 .. Len(queue') : queue'[j].type = "pinned" => j = Len(queue) + 1
        BY <1>0, <3>1, <3>4, <4>1, PostedLast DEF Alone, EventsOK
      <4>4. /\ queue'[Len(queue) + 1] = event
            /\ \A j \in 1 .. Len(queue) : j \in 1 .. Len(queue') /\ queue'[j] = queue[j]
        BY <1>0, <3>1, PostedLast DEF EventsOK
      <4>5. \A ms : IsPinned(ms) => IsPinned(ms)'
        BY <2>2, <4>4 DEF IsPinned
      <4>6. \A ms : Continues(ms) => Continues(ms)'
        BY <2>2 DEF Continues
      <4>7. ASSUME NEW j \in 1 .. Len(queue'), queue'[j].type = "pinned"
            PROVE  Continues(queue[j].found)' /\ IsPinned(queue[j].found)'
        <5>1. PICK ms : ms = searches[i].found
          OBVIOUS
        <5>2. Continues(ms)' /\ IsPinned(ms)' /\ queue'[j].found = ms
          BY <3>2, <4>1, <4>3, <4>4, <4>5, <4>6, <4>7, <5>1
        <5> QED
          BY <5>2 DEF Continues, IsPinned
      <4>8. Alone'
        BY <4>2, <4>3 DEF Alone
      <4>9. Descends(messages)' /\ IsPinned(messages)'
        BY <2>2, <4>1, <4>5 DEF Descends, IsPinned
      <4> QED
        BY <4>2, <4>7, <4>8, <4>9 DEF ExactInv
    <3> QED
      BY <3>3, <3>4 DEF Kinds
  <2> QED
    BY <2>1, <2>3, <2>4, <2>5
<1>8. CASE MessageStep
  <2>1. UNCHANGED <<searches, messages, shown, joined>>
    BY <1>8 DEF MessageStep, Toggle, Delete
  <2> DEFINE count == [type |-> "mentions", count |-> Cardinality(marked'["mention"])]
             pinned == [type |-> "isPinned"]
  <2>2. count.type # "pinned" /\ pinned.type = "isPinned" /\ pinned.type # "pinned"
    OBVIOUS
  <2>3. UNCHANGED queue \/ Post(count) \/ Post(pinned)
    BY <1>8 DEF MessageStep, Toggle, Delete
  <2>4. marked["pinned"] \cup gone \subseteq marked'["pinned"] \cup gone' \/ Post(pinned)
    <3>1. CASE \E m \in Message : Delete(m)
      BY <3>1 DEF Delete, Kinds
    <3>2. CASE \E m \in Message : Toggle("mention", m)
      BY <1>0, <3>2 DEF Toggle, Kinds
    <3>3. CASE \E m \in Message : Toggle("pinned", m)
      BY <3>3 DEF Toggle
    <3> QED
      BY <1>8, <3>1, <3>2, <3>3 DEF MessageStep, Kinds
  <2> HIDE DEF count, pinned
  <2> QED
    BY <2>1, <2>2, <2>3, <2>4, ListAside
<1> QED
  BY <1>1, <1>2, <1>3, <1>4, <1>5, <1>6, <1>7, <1>8, Steps

(***************************************************************************)
(* PinnedMessages' list is what is pinned, newest first and each once, as  *)
(* long as no paging was begun while answers of an earlier one were on     *)
(* their way.                                                              *)
(***************************************************************************)
THEOREM ListStaysExact == Spec => []ListIsExact
<1>1. Init => ExactInv
  BY DEF Init, PinnedInit, ExactInv
<1>2. (PageHasChat /\ SearchesOK /\ ExactInv) /\ [Next]_vars => (PageHasChat /\ SearchesOK /\ ExactInv)'
  BY PageHasChatKeeps, SearchesKeep, ExactKeeps
<1>3. SearchesOK /\ ExactInv => ListIsExact
  <2> SUFFICES ASSUME SearchesOK, ExactInv, Fetched, ~joined
               PROVE  /\ \A i, j \in DOMAIN messages : i < j => messages[i] > messages[j]
                      /\ Range(messages) \subseteq marked["pinned"] \cup gone
    BY DEF ListIsExact
  <2>1. ASSUME NEW i \in 1 .. Len(queue) PROVE queue[i].type # "isPinned"
    <3>1. queue[i] \in OnTheirWay
      BY DEF OnTheirWay, SearchesOK, EventsOK, IsSequence
    <3> QED
      BY <3>1 DEF Fetched
  <2>2. Descends(messages) /\ IsPinned(messages)
    BY DEF ExactInv, Fetched
  <2> QED
    BY <2>1, <2>2 DEF Descends, IsPinned
<1> QED
  BY <1>1, <1>2, <1>3, SearchesBegin, PTL DEF Spec

-----------------------------------------------------------------------------
(***************************************************************************)
(* The mention to which the page scrolls.                                  *)
(***************************************************************************)

\* A non-empty set of places in the queue has a last one.
LEMMA LastPlace ==
  ASSUME NEW n \in Nat, NEW S \in SUBSET (1 .. n), S # {}
  PROVE  \E i \in S : \A j \in S : j <= i
<1> DEFINE R == {ss \in Nat \X Nat : ss[1] < ss[2]}
           D == {d \in Nat : \E i \in S : d = n - i}
<1>1. IsWellFoundedOn(R, Nat)
  BY NatLessThanWellFounded, Zenon DEF OpToRel
<1>2. \A i \in S : n - i \in D
  OBVIOUS
<1>3. PICK d \in D : \A y \in D : ~ (<<y, d>> \in R)
  <2>1. D # {} /\ D \subseteq Nat
    BY <1>2
  <2> HIDE DEF R, D
  <2> QED BY <1>1, <2>1, WFMin, Zenon
<1>4. \A y \in D : d <= y
  <2> TAKE y \in D
  <2>1. <<y, d>> \notin R
    BY <1>3
  <2> QED BY <2>1
<1>5. PICK i \in S : d = n - i
  OBVIOUS
<1>6. ASSUME NEW j \in S PROVE j <= i
  <2>1. d <= n - j
    BY <1>2, <1>4
  <2> QED
    BY <1>5, <2>1
<1> QED
  BY <1>6

\* StartInv is inductive.
LEMMA StartKeeps == PageHasChat /\ SearchesOK /\ StartInv /\ [Next]_vars => StartInv'
<1> SUFFICES ASSUME PageHasChat, SearchesOK, StartInv, [Next]_vars PROVE StartInv'
  OBVIOUS
<1> USE DEF pinnedVars, searchVars, mentionVars
<1>0. /\ EventsOK /\ Len(queue) \in Nat
      /\ ~exists => /\ searches = <<>> /\ firstUnreadMention = 0
                    /\ queue # <<>> => queue[1].type = "newChat"
                    /\ \A i \in 1 .. Len(queue) : queue[i].type # "mention"
      /\ \A i \in 1 .. Len(queue) : queue[i].type = "newChat" => i = 1 /\ ~exists
  BY DEF SearchesOK, StartInv, EventsOK, IsSequence
<1>1. ASSUME UNCHANGED exists, ~exists => UNCHANGED <<searches, firstUnreadMention>>,
             \/ UNCHANGED queue
             \/ \E event : /\ Post(event) /\ event.type # "newChat"
                           /\ exists \/ (Running /\ event.type # "mention")
             \/ \E type : type # "newChat" /\ Received(type)
      PROVE  StartInv'
  <2>1. CASE UNCHANGED queue
    BY <1>0, <1>1, <2>1 DEF StartInv
  <2>2. ASSUME NEW event, Post(event), event.type # "newChat",
               exists \/ (Running /\ event.type # "mention")
        PROVE  StartInv'
    <3>1. /\ Len(queue') = Len(queue) + 1 /\ queue'[Len(queue) + 1] = event
          /\ \A i \in 1 .. Len(queue) : queue'[i] = queue[i]
      BY <1>0, <2>2, PostedLast DEF EventsOK
    <3>2. \A i \in 1 .. Len(queue') : i \in 1 .. Len(queue) \/ i = Len(queue) + 1
      BY <1>0, <3>1
    <3>3. ~exists => queue # <<>> /\ 1 \in 1 .. Len(queue)
      <4>1. ~exists => queue # <<>>
        BY <2>2 DEF Running, OnTheirWay
      <4> QED
        BY <1>0, <4>1 DEF EventsOK, IsSequence
    <3>4. ~exists => queue'[1].type = "newChat"
      BY <1>0, <3>1, <3>3
    <3> QED
      BY <1>0, <1>1, <2>2, <3>1, <3>2, <3>4 DEF StartInv
  <2>3. ASSUME NEW type, type # "newChat", Received(type) PROVE StartInv'
    <3>1. /\ Len(queue) >= 1 /\ Len(queue') = Len(queue) - 1 /\ queue[1].type = type
          /\ \A i \in 1 .. Len(queue') : queue'[i] = queue[i + 1]
      BY <1>0, <2>3, ReceivedFirst DEF EventsOK
    <3>2. exists
      BY <1>0, <2>3, <3>1 DEF Received
    <3>3. \A i \in 1 .. Len(queue') : queue'[i].type # "newChat"
      BY <1>0, <3>1, <3>2
    <3> QED
      BY <1>1, <3>2, <3>3 DEF StartInv
  <2> QED
    BY <1>1, <2>1, <2>2, <2>3
<1>2. CASE Quiet
  <2>1. ASSUME NEW event, Running, event.type = "group", Post(event) PROVE StartInv'
    BY <1>1, <1>2, <2>1 DEF Quiet
  <2>2. CASE UNCHANGED queue \/ Received("group")
    BY <1>1, <1>2, <2>2 DEF Quiet
  <2> QED
    BY <1>2, <2>1, <2>2 DEF Quiet
<1>3. CASE Opens \/ Closes
  BY <1>1, <1>3 DEF Opens, SetTelegramManager, Closes
<1>4. CASE Ends
  <2>1. queue' = <<>> /\ Len(queue') = 0
    BY <1>4 DEF Ends
  <2> QED
    BY <1>4, <2>1 DEF Ends, Forget, StartInv
<1>5. CASE Starts
  <2> DEFINE event == [type |-> "newChat", count |-> Cardinality(marked["mention"])]
  <2>1. Post(event) /\ event.type = "newChat" /\ ~exists /\ queue = <<>> /\ UNCHANGED <<searches, firstUnreadMention, exists>>
    BY <1>5 DEF Starts, Running
  <2> HIDE DEF event
  <2>2. queue' = <<event>>
    BY <2>1 DEF Post
  <2>3. Len(queue') = 1 /\ queue'[1] = event
    BY <2>2
  <2> QED
    BY <1>0, <2>1, <2>3 DEF StartInv
<1>6. CASE PinnedStep
  <2>1. UNCHANGED <<exists, firstUnreadMention>>
        /\ (UNCHANGED <<searches, queue>> \/ \E type \in {"pinned", "isPinned"} : Received(type))
    BY <1>6 DEF PinnedStep, OnGotSearchChatMessagesFilterPinned, OnUpdateMessageIsPinned, CycleMessage
  <2>2. ~exists => \A type \in {"pinned", "isPinned"} : ~Received(type)
    BY <1>0, ReceivedFirst DEF EventsOK, Received
  <2> QED
    BY <1>1, <2>1, <2>2
<1>7. CASE MentionStep
  <2>1. CASE OnUpdateNewChat
    <3>1. /\ Len(queue) >= 1 /\ Len(queue') = Len(queue) - 1 /\ exists'
          /\ \A i \in 1 .. Len(queue') : queue'[i] = queue[i + 1]
      BY <1>0, <2>1, ReceivedFirst DEF EventsOK, OnUpdateNewChat
    <3>2. \A i \in 1 .. Len(queue') : queue'[i].type # "newChat"
      BY <1>0, <3>1
    <3> QED
      BY <3>1, <3>2 DEF StartInv
  <2>2. CASE OnUnreadMentionCount \/ OnGotSearchChatMessagesFilterUnreadMention
    <3>1. UNCHANGED exists /\ \E type \in {"mentions", "mention"} : Received(type)
      BY <2>2 DEF OnUnreadMentionCount, OnGotSearchChatMessagesFilterUnreadMention
    <3>2. ~exists => \A type \in {"mentions", "mention"} : ~Received(type)
      BY <1>0, ReceivedFirst DEF EventsOK, Received
    <3> QED
      BY <1>1, <3>1, <3>2
  <2> QED
    BY <1>7, <2>1, <2>2 DEF MentionStep
<1>8. CASE SearchStep
  <2>1. PICK i \in DOMAIN searches : Find(i) \/ Refuse(i) \/ \E kind \in Kinds : Answer(kind, i)
    BY <1>8 DEF SearchStep
  <2>2. exists /\ UNCHANGED exists
    BY <1>0, <1>8, <2>1 DEF SearchStep
  <2>3. UNCHANGED queue \/ \E event : Post(event) /\ event.type # "newChat"
    <3>1. ASSUME NEW kind \in Kinds, Answer(kind, i) PROVE \E event : Post(event) /\ event.type # "newChat"
      <4> DEFINE event == [type |-> kind, found |-> searches[i].found,
                           late |-> searches[i].found \notin Answers(searches[i].kind, searches[i].from)]
      <4>1. Post(event) /\ event.type # "newChat"
        BY <3>1 DEF Answer, Kinds
      <4> QED
        BY <4>1
    <3> QED
      BY <2>1, <3>1 DEF Find, Refuse
  <2> QED
    BY <1>1, <2>2, <2>3
<1>9. CASE MessageStep
  <2>1. UNCHANGED queue \/ \E event : Post(event) /\ event.type \in {"mentions", "isPinned"}
    <3> DEFINE count == [type |-> "mentions", count |-> Cardinality(marked'["mention"])]
               pinned == [type |-> "isPinned"]
    <3>1. count.type = "mentions" /\ pinned.type = "isPinned"
      OBVIOUS
    <3>2. UNCHANGED queue \/ Post(count) \/ Post(pinned)
      BY <1>9 DEF MessageStep, Toggle, Delete
    <3> HIDE DEF count, pinned
    <3> QED
      BY <3>1, <3>2
  <2>2. Running /\ UNCHANGED <<exists, searches, firstUnreadMention>>
    BY <1>9 DEF MessageStep, Toggle, Delete
  <2> QED
    BY <1>1, <2>1, <2>2
<1> QED
  BY <1>2, <1>3, <1>4, <1>5, <1>6, <1>7, <1>8, <1>9, Steps

\* A number of mentions is told whenever one is added, read or deleted.
LEMMA MentionsTold ==
  ASSUME PageHasChat, SearchesOK, [Next]_vars
  PROVE  \/ marked'["mention"] = marked["mention"]
         \/ /\ MessageStep /\ UNCHANGED <<searches, refused>>
            /\ \E event : /\ Post(event) /\ event.type = "mentions"
                          /\ event.count = 0 <=> marked'["mention"] = {}
<1>1. CASE MessageStep
  <2> DEFINE count == [type |-> "mentions", count |-> Cardinality(marked'["mention"])]
  <2>1. marked'["mention"] \in SUBSET Message
    BY SearchesKeep DEF SearchesOK, Kinds
  <2>2. count.type = "mentions" /\ (count.count = 0 <=> marked'["mention"] = {})
    BY <2>1, MentionCount
  <2>3. marked'["mention"] = marked["mention"] \/ Post(count)
    <3>1. ASSUME NEW m \in Message, Delete(m) PROVE marked'["mention"] = marked["mention"] \/ Post(count)
      BY <3>1 DEF Delete, Kinds
    <3>2. ASSUME NEW m \in Message, NEW kind \in Kinds, Toggle(kind, m)
          PROVE  marked'["mention"] = marked["mention"] \/ Post(count)
      BY <3>2 DEF Toggle, Kinds, SearchesOK
    <3> QED
      BY <1>1, <3>1, <3>2 DEF MessageStep
  <2>4. UNCHANGED <<searches, refused>>
    BY <1>1 DEF MessageStep, Delete, Toggle
  <2> HIDE DEF count
  <2> QED
    BY <1>1, <2>2, <2>3, <2>4
<1>2. CASE ~MessageStep
  <2>1. UNCHANGED marked
    BY <1>2, Steps DEF Quiet, Opens, SetTelegramManager, Closes, Ends, Starts, searchVars,
       PinnedStep, OnGotSearchChatMessagesFilterPinned, OnUpdateMessageIsPinned, CycleMessage,
       MentionStep, OnUpdateNewChat, OnUnreadMentionCount, OnGotSearchChatMessagesFilterUnreadMention,
       SearchStep, Find, Refuse, Answer
  <2> QED
    BY <2>1
<1> QED
  BY <1>1, <1>2

\* What is posted tells the number of mentions there are.
LEMMA PostedCount ==
  ASSUME PageHasChat, SearchesOK, [Next]_vars
  PROVE  \/ queue' = <<>> \/ UNCHANGED queue \/ \E type : Received(type)
         \/ \E event : Post(event) /\ (Counts(event) => (event.count = 0 <=> marked'["mention"] = {}))
<1> USE DEF pinnedVars, searchVars, mentionVars
<1> DEFINE Told == \/ queue' = <<>> \/ UNCHANGED queue \/ \E type : Received(type)
                   \/ \E event : Post(event) /\ (Counts(event) => (event.count = 0 <=> marked'["mention"] = {}))
<1>1. CASE Quiet
  BY <1>1 DEF Quiet, Counts
<1>2. CASE Starts
  <2> DEFINE event == [type |-> "newChat", count |-> Cardinality(marked["mention"])]
  <2>1. Post(event) /\ marked'["mention"] = marked["mention"]
    BY <1>2 DEF Starts
  <2>2. event.count = 0 <=> marked["mention"] = {}
    BY MentionCount DEF SearchesOK, Kinds
  <2> QED
    BY <2>1, <2>2
<1>3. CASE SearchStep
  <2>1. ASSUME NEW kind \in Kinds, NEW i \in DOMAIN searches, Answer(kind, i) PROVE Told
    <3> DEFINE event == [type |-> kind, found |-> searches[i].found,
                         late |-> searches[i].found \notin Answers(searches[i].kind, searches[i].from)]
    <3>1. Post(event) /\ ~Counts(event)
      BY <2>1 DEF Answer, Kinds, Counts
    <3> QED
      BY <3>1
  <2> QED
    BY <1>3, <2>1 DEF SearchStep, Find, Refuse
<1>4. CASE MessageStep
  <2>1. CASE marked'["mention"] = marked["mention"]
    <3> DEFINE count == [type |-> "mentions", count |-> Cardinality(marked'["mention"])]
               pinned == [type |-> "isPinned"]
    <3>1. ~Counts(pinned) /\ (count.count = 0 <=> marked'["mention"] = {})
      BY <2>1, MentionCount DEF SearchesOK, Kinds, Counts
    <3>2. UNCHANGED queue \/ Post(count) \/ Post(pinned)
      BY <1>4 DEF MessageStep, Toggle, Delete
    <3> HIDE DEF count, pinned
    <3> QED
      BY <3>1, <3>2
  <2>2. CASE \E event : /\ Post(event) /\ event.type = "mentions"
                        /\ event.count = 0 <=> marked'["mention"] = {}
    BY <2>2
  <2> QED
    BY <2>1, <2>2, MentionsTold
<1>5. CASE PinnedStep \/ MentionStep
  BY <1>5 DEF PinnedStep, OnGotSearchChatMessagesFilterPinned, OnUpdateMessageIsPinned, CycleMessage,
     MentionStep, OnUpdateNewChat, OnUnreadMentionCount, OnGotSearchChatMessagesFilterUnreadMention
<1>6. CASE Opens \/ Closes \/ Ends
  BY <1>6 DEF Opens, SetTelegramManager, Closes, Ends
<1> QED
  BY <1>1, <1>2, <1>3, <1>4, <1>5, <1>6, Steps

\* CountInv is inductive.
LEMMA CountKeeps == PageHasChat /\ SearchesOK /\ CountInv /\ [Next]_vars => CountInv'
<1> SUFFICES ASSUME PageHasChat, SearchesOK, CountInv, [Next]_vars,
                    NEW i \in 1 .. Len(queue'), Counts(queue'[i]),
                    \A j \in 1 .. Len(queue') : j > i => ~Counts(queue'[j])
             PROVE  queue'[i].count = 0 <=> marked'["mention"] = {}
  BY DEF CountInv, Counts
<1>0. EventsOK /\ Len(queue) \in Nat
  BY DEF SearchesOK, EventsOK, IsSequence
<1>1. ASSUME NEW event, Post(event), Counts(event) => (event.count = 0 <=> marked'["mention"] = {}),
             Counts(event) \/ marked'["mention"] = marked["mention"]
      PROVE  queue'[i].count = 0 <=> marked'["mention"] = {}
  <2>1. /\ Len(queue') = Len(queue) + 1 /\ queue'[Len(queue) + 1] = event
        /\ \A j \in 1 .. Len(queue) : queue'[j] = queue[j]
    BY <1>0, <1>1, PostedLast DEF EventsOK
  <2>2. CASE i = Len(queue) + 1
    BY <1>1, <2>1, <2>2
  <2>3. CASE i # Len(queue) + 1
    <3>1. i \in 1 .. Len(queue) /\ queue'[i] = queue[i] /\ ~Counts(event)
          /\ \A j \in 1 .. Len(queue) : j > i => ~Counts(queue[j])
      BY <1>0, <2>1, <2>3
    <3> QED
      BY <1>1, <3>1 DEF CountInv
  <2> QED
    BY <2>2, <2>3
<1>2. ASSUME NEW type, Received(type), marked'["mention"] = marked["mention"]
      PROVE  queue'[i].count = 0 <=> marked'["mention"] = {}
  <2>1. /\ Len(queue) >= 1 /\ Len(queue') = Len(queue) - 1
        /\ \A j \in 1 .. Len(queue') : queue'[j] = queue[j + 1]
        /\ \A j \in 2 .. Len(queue) : j - 1 \in 1 .. Len(queue') /\ queue'[j - 1] = queue[j]
    BY <1>0, <1>2, ReceivedFirst DEF EventsOK
  <2>2. i + 1 \in 1 .. Len(queue) /\ queue'[i] = queue[i + 1]
    BY <1>0, <2>1
  <2>3. ASSUME NEW j \in 1 .. Len(queue), j > i + 1 PROVE ~Counts(queue[j])
    <3>1. j \in 2 .. Len(queue) /\ j - 1 > i
      BY <1>0, <2>3
    <3> QED
      BY <2>1, <3>1
  <2> QED
    BY <1>2, <2>2, <2>3 DEF CountInv
<1>3. CASE UNCHANGED queue /\ marked'["mention"] = marked["mention"]
  BY <1>3 DEF CountInv
<1>4. CASE queue' = <<>>
  <2>1. Len(queue') = 0
    BY <1>4
  <2> QED
    BY <2>1
<1>5. CASE marked'["mention"] = marked["mention"]
  BY <1>1, <1>2, <1>3, <1>4, <1>5, PostedCount
<1>6. CASE \E event : /\ Post(event) /\ event.type = "mentions"
                      /\ event.count = 0 <=> marked'["mention"] = {}
  BY <1>1, <1>6 DEF Counts
<1> QED
  BY <1>5, <1>6, MentionsTold

\* What a search for mentions finds is the newest one.
LEMMA NewestFound ==
  ASSUME SearchesOK, NEW found \in Answers("mention", 0)
  PROVE  /\ found = <<>> => marked["mention"] = {}
         /\ found # <<>> => marked["mention"] # {} /\ found[1] = NewestMention
<1>1. /\ found \in Seq(Message) /\ Len(found) <= 1
      /\ Range(found) \subseteq marked["mention"]
      /\ \A m \in marked["mention"] : Reaches(found, m)
  <2>1. Limit["mention"] = 1 /\ "mention" \in Kinds
    BY DEF Limit, Kinds
  <2> QED
    BY <2>1, AnswersAre
<1>2. CASE found = <<>>
  BY <1>1, <1>2 DEF Reaches, Range
<1>3. CASE found # <<>>
  <2>1. Len(found) = 1 /\ DOMAIN found = {1} /\ Last(found) = found[1]
    <3>1. found \in Seq(Message) /\ Len(found) \in Nat /\ Len(found) # 0 /\ DOMAIN found = 1 .. Len(found)
      BY <1>1, <1>3, LenProperties, EmptySeq
    <3>2. Len(found) = 1
      BY <1>1, <3>1
    <3> QED
      BY <3>1, <3>2 DEF Last
  <2>2. Range(found) = {found[1]} /\ found[1] \in marked["mention"]
    BY <1>1, <2>1 DEF Range
  <2>3. marked["mention"] \subseteq Nat \ {0}
    BY MessageAssumption DEF SearchesOK, Kinds
  <2>4. \A m \in marked["mention"] \cup {0} : found[1] >= m
    BY <1>1, <2>1, <2>2, <2>3 DEF Reaches
  <2>5. \A x \in marked["mention"] \cup {0} :
           (\A m \in marked["mention"] \cup {0} : x >= m) => x = found[1]
    BY <2>2, <2>3, <2>4
  <2>6. NewestMention = found[1]
    BY <2>2, <2>4, <2>5 DEF NewestMention, Max
  <2> QED
    BY <1>3, <2>2, <2>6
<1> QED
  BY <1>2, <1>3

\* Without unread mentions there is none to scroll to.
LEMMA NoMention == marked["mention"] = {} => NewestMention = 0
BY DEF NewestMention, Max

\* The answers to a search for mentions depend on the mentions alone.
LEMMA SameAnswers ==
  ASSUME marked'["mention"] = marked["mention"]
  PROVE  /\ NewestMention' = NewestMention
         /\ \A search : Fresh(search) => Fresh(search)'
         /\ \A event : LeavesRight(event) => LeavesRight(event)'
<1>1. Answers("mention", 0)' = Answers("mention", 0)
  BY DEF Answers
<1>2. NewestMention' = NewestMention
  BY DEF NewestMention
<1> QED
  BY <1>1, <1>2 DEF Fresh, LeavesRight

\* Events that do not tell of mentions leave the last one that does.
LEMMA StaysRight ==
  ASSUME EventsOK, WillBeRight, marked'["mention"] = marked["mention"],
         \/ UNCHANGED queue
         \/ \E event : ~Tells(event) /\ Post(event)
         \/ \E type : Received(type) /\ ~(Tells(queue[1]) /\ LeavesRight(queue[1])
                                          /\ \A j \in 1 .. Len(queue) : j > 1 => ~Tells(queue[j]))
  PROVE  WillBeRight'
<1>0. Len(queue) \in Nat
  BY DEF EventsOK, IsSequence
<1>1. PICK i \in 1 .. Len(queue) :
        /\ Tells(queue[i]) /\ LeavesRight(queue[i])
        /\ \A j \in 1 .. Len(queue) : j > i => ~Tells(queue[j])
  BY DEF WillBeRight
<1>2. PICK event : event = queue[i]
  OBVIOUS
<1>3. Tells(event) /\ LeavesRight(event)'
  BY <1>1, <1>2, SameAnswers
<1>4. ASSUME NEW k \in 1 .. Len(queue'), queue'[k] = event,
             \A j \in 1 .. Len(queue') : j > k => ~Tells(queue'[j])
      PROVE  WillBeRight'
  <2>1. LeavesRight(queue[k])'
    BY <1>3, <1>4 DEF LeavesRight
  <2> QED
    BY <1>3, <1>4, <2>1 DEF WillBeRight, Tells, Counts
<1>5. CASE UNCHANGED queue
  BY <1>1, <1>2, <1>4, <1>5
<1>6. ASSUME NEW new, ~Tells(new), Post(new) PROVE WillBeRight'
  <2>1. /\ Len(queue') = Len(queue) + 1 /\ queue'[Len(queue) + 1] = new
        /\ \A j \in 1 .. Len(queue) : queue'[j] = queue[j]
    BY <1>6, PostedLast DEF EventsOK
  <2>2. ASSUME NEW j \in 1 .. Len(queue'), j > i PROVE ~Tells(queue'[j])
    BY <1>0, <1>1, <1>6, <2>1, <2>2
  <2> QED
    BY <1>0, <1>2, <1>4, <2>1, <2>2
<1>7. ASSUME NEW type, Received(type), i # 1 PROVE WillBeRight'
  <2>1. /\ Len(queue) >= 1 /\ Len(queue') = Len(queue) - 1
        /\ \A j \in 1 .. Len(queue') : queue'[j] = queue[j + 1]
    BY <1>7, ReceivedFirst DEF EventsOK
  <2>2. i - 1 \in 1 .. Len(queue') /\ queue'[i - 1] = event
    BY <1>0, <1>2, <1>7, <2>1
  <2>3. ASSUME NEW j \in 1 .. Len(queue'), j > i - 1 PROVE ~Tells(queue'[j])
    BY <1>0, <1>1, <2>1, <2>3
  <2> QED
    BY <1>4, <2>2, <2>3
<1> QED
  BY <1>1, <1>5, <1>6, <1>7

\* A search goes on, and so does a number that is not handled.
LEMMA StaysSought ==
  ASSUME EventsOK, Sought, marked'["mention"] = marked["mention"],
         \/ UNCHANGED queue
         \/ \E event : Post(event)
         \/ \E type : Received(type) /\ ~Counts(queue[1]),
         \A i \in DOMAIN searches : Fresh(searches[i]) => \E j \in DOMAIN searches' : Fresh(searches'[j])
  PROVE  Sought'
<1>0. Len(queue) \in Nat
  BY DEF EventsOK, IsSequence
<1>1. ASSUME NEW i \in 1 .. Len(queue), Counts(queue[i])
      PROVE  \E j \in 1 .. Len(queue') : Counts(queue'[j])
  <2>1. ASSUME NEW event, Post(event) PROVE i \in 1 .. Len(queue') /\ queue'[i] = queue[i]
    BY <1>0, <2>1, PostedLast DEF EventsOK
  <2>2. ASSUME NEW type, Received(type), i # 1 PROVE i - 1 \in 1 .. Len(queue') /\ queue'[i - 1] = queue[i]
    BY <1>0, <2>2, ReceivedFirst DEF EventsOK
  <2> QED
    BY <1>1, <2>1, <2>2
<1>2. ASSUME NEW i \in DOMAIN searches, Fresh(searches[i])
      PROVE  \E j \in DOMAIN searches' : Fresh(searches[j])'
  <2>1. PICK j \in DOMAIN searches' : Fresh(searches'[j])
    BY <1>2
  <2>2. PICK search : search = searches'[j]
    OBVIOUS
  <2>3. Fresh(search)'
    BY <2>1, <2>2, SameAnswers
  <2>4. Fresh(searches[j])'
    BY <2>2, <2>3 DEF Fresh
  <2> QED
    BY <2>4
<1> QED
  BY <1>1, <1>2 DEF Sought, Counts

\* MentionInv is kept by a step that has nothing to do with mentions.
LEMMA MentionsAside ==
  ASSUME EventsOK, MentionInv, marked'["mention"] = marked["mention"],
         UNCHANGED <<exists, firstUnreadMention, overtaken>>,
         "mention" \in refused => "mention" \in refused',
         \/ UNCHANGED queue
         \/ \E event : ~Tells(event) /\ Post(event)
         \/ \E type : Received(type) /\ ~Tells(queue[1]),
         marked["mention"] # {} =>
            \A i \in DOMAIN searches : Fresh(searches[i]) => \E j \in DOMAIN searches' : Fresh(searches'[j])
  PROVE  MentionInv'
<1>1. CASE Sought
  <2>1. Sought'
    BY <1>1, StaysSought DEF Sought, Tells
  <2> QED
    BY <2>1 DEF MentionInv
<1>2. CASE WillBeRight
  <2>1. WillBeRight'
    BY <1>2, StaysRight
  <2> QED
    BY <2>1 DEF MentionInv
<1>3. CASE IsRight
  <2>1. \A i \in 1 .. Len(queue) : ~Tells(queue[i])
    BY <1>3 DEF IsRight
  <2>2. ASSUME NEW i \in 1 .. Len(queue') PROVE ~Tells(queue[i])'
    <3>0. Len(queue) \in Nat
      BY DEF EventsOK, IsSequence
    <3>1. ASSUME NEW event, ~Tells(event), Post(event) PROVE ~Tells(queue'[i])
      BY <2>1, <3>0, <3>1, PostedLast DEF EventsOK
    <3>2. ASSUME NEW type, Received(type) PROVE ~Tells(queue'[i])
      BY <2>1, <3>0, <3>2, ReceivedFirst DEF EventsOK
    <3>3. ~Tells(queue'[i])
      BY <2>1, <2>2, <3>1, <3>2
    <3> QED
      BY <3>3 DEF Tells, Counts
  <2>3. IsRight'
    BY <1>3, <2>2, SameAnswers DEF IsRight
  <2> QED
    BY <2>3 DEF MentionInv
<1>4. CASE ~(exists /\ "mention" \notin refused)
  BY <1>4 DEF MentionInv
<1> QED
  BY <1>1, <1>2, <1>3, <1>4 DEF MentionInv

\* A search for mentions that begins is fresh.
LEMMA BegunIsFresh ==
  ASSUME SearchesOK, Search("mention", 0), marked'["mention"] = marked["mention"], marked["mention"] # {}
  PROVE  Sought'
<1>1. /\ Len(searches) + 1 \in DOMAIN searches'
      /\ searches'[Len(searches) + 1] = [kind |-> "mention", from |-> 0, found |-> NotYet]
  BY Begun DEF Kinds
<1>2. searches'[Len(searches) + 1].kind = "mention" /\ searches'[Len(searches) + 1].found = NotYet
  BY <1>1
<1> QED
  BY <1>1, <1>2 DEF Sought, Fresh

\* The chat is made: MentionInv holds of what was told before.
LEMMA MentionsBegin ==
  ASSUME SearchesOK, StartInv, CountInv, OnUpdateNewChat
  PROVE  MentionInv'
<1>0. Len(queue) \in Nat /\ EventsOK /\ UNCHANGED <<marked, firstUnreadMention, overtaken>>
  BY DEF SearchesOK, EventsOK, IsSequence, OnUpdateNewChat
<1>1. /\ Len(queue) >= 1 /\ Len(queue') = Len(queue) - 1 /\ queue[1].type = "newChat" /\ Head(queue) = queue[1]
      /\ \A i \in 1 .. Len(queue') : queue'[i] = queue[i + 1]
      /\ \A j \in 2 .. Len(queue) : j - 1 \in 1 .. Len(queue') /\ queue'[j - 1] = queue[j]
  BY <1>0, ReceivedFirst DEF EventsOK, OnUpdateNewChat
<1>2. /\ ~exists /\ firstUnreadMention = 0 /\ searches = <<>>
      /\ \A i \in 1 .. Len(queue) : queue[i].type # "mention"
  <2>1. 1 \in 1 .. Len(queue)
    BY <1>0, <1>1
  <2> QED
    BY <1>1, <2>1 DEF StartInv
<1>3. \A i \in 1 .. Len(queue') : Tells(queue'[i]) <=> Counts(queue'[i])
  BY <1>0, <1>1, <1>2 DEF Tells
<1>4. CASE \E i \in 1 .. Len(queue') : Counts(queue'[i])
  <2>1. CASE marked["mention"] # {}
    <3>1. Sought'
      BY <1>0, <1>4, <2>1 DEF Sought, Counts
    <3> QED
      BY <3>1 DEF MentionInv
  <2>2. CASE marked["mention"] = {}
    <3> DEFINE S == {i \in 1 .. Len(queue') : Counts(queue'[i])}
    <3>1. PICK i \in S : \A j \in S : j <= i
      <4>1. Len(queue') \in Nat /\ S \in SUBSET (1 .. Len(queue')) /\ S # {}
        BY <1>0, <1>1, <1>4
      <4> HIDE DEF S
      <4> QED
        BY <4>1, LastPlace
    <3>2. \A j \in 1 .. Len(queue') : j > i => ~Tells(queue'[j])
      BY <1>0, <1>1, <1>3, <3>1
    <3>3. i \in 1 .. Len(queue') /\ Tells(queue'[i]) /\ Counts(queue'[i])
      BY <1>3, <3>1
    <3>4. LeavesRight(queue[i])'
      BY <1>0, <2>2, <3>3 DEF LeavesRight, Counts
    <3>5. WillBeRight'
      BY <3>2, <3>3, <3>4 DEF WillBeRight, Tells, Counts
    <3> QED
      BY <3>5 DEF MentionInv
  <2> QED
    BY <2>1, <2>2
<1>5. CASE \A i \in 1 .. Len(queue') : ~Counts(queue'[i])
  <2>1. Head(queue).count = 0 <=> marked["mention"] = {}
    <3>1. 1 \in 1 .. Len(queue) /\ Counts(queue[1])
      BY <1>0, <1>1 DEF Counts
    <3>2. \A j \in 1 .. Len(queue) : j > 1 => ~Counts(queue[j])
      BY <1>0, <1>1, <1>5
    <3> QED
      BY <1>1, <3>1, <3>2 DEF CountInv
  <2>2. CASE marked["mention"] = {}
    <3>1. firstUnreadMention' = NewestMention'
      BY <1>0, <1>2, <2>2, SameAnswers, NoMention
    <3>2. IsRight'
      BY <1>3, <1>5, <3>1 DEF IsRight, Tells, Counts
    <3> QED
      BY <3>2 DEF MentionInv
  <2>3. CASE marked["mention"] # {}
    <3>1. Head(queue).count > 0
      <4>1. Head(queue).count \in Nat
        BY <1>0, <1>1 DEF EventsOK, EventOK, Counts
      <4> QED
        BY <2>1, <2>3, <4>1
    <3>2. PICK n \in Nat : searches' = searches \o [i \in 1 .. n |-> NewSearch("mention", 0)] /\ n > 0
      BY <3>1, NewChatBegins
    <3> DEFINE new == [i \in 1 .. n |-> NewSearch("mention", 0)]
    <3>3. new \in Seq(SearchType) /\ new[1].kind = "mention" /\ new[1].found = NotYet /\ 1 \in DOMAIN new
      BY <3>2 DEF NewSearch, SearchType, Kinds
    <3>4. searches' = new
      BY <1>2, <3>2, <3>3
    <3> HIDE DEF new
    <3>5. Sought'
      BY <1>0, <2>3, <3>3, <3>4 DEF Sought, Fresh
    <3> QED
      BY <3>5 DEF MentionInv
  <2> QED
    BY <2>2, <2>3
<1> QED
  BY <1>4, <1>5

\* MentionInv is inductive.
LEMMA MentionKeeps ==
  PageHasChat /\ SearchesOK /\ StartInv /\ CountInv /\ MentionInv /\ [Next]_vars => MentionInv'
<1> SUFFICES ASSUME PageHasChat, SearchesOK, StartInv, CountInv, MentionInv, [Next]_vars PROVE MentionInv'
  OBVIOUS
<1> USE DEF pinnedVars, searchVars, mentionVars
<1>0. /\ EventsOK /\ Len(queue) \in Nat
      /\ searches \in Seq(SearchType) /\ Len(searches) \in Nat /\ DOMAIN searches = 1 .. Len(searches)
  BY LenProperties DEF SearchesOK, EventsOK, IsSequence
<1>1. CASE Quiet
  <2>1. ASSUME NEW type \in {"group"}, Received(type) PROVE ~Tells(queue[1])
    BY <1>0, <2>1, ReceivedFirst DEF EventsOK, Tells, Counts
  <2>2. \A event : event.type = "group" => ~Tells(event)
    BY DEF Tells, Counts
  <2> QED
    BY <1>0, <1>1, <2>1, <2>2, MentionsAside DEF Quiet
<1>2. CASE Opens
  <2>1. \A i \in DOMAIN searches : i \in DOMAIN searches' /\ searches'[i] = searches[i]
    BY <1>2, SearchesGoOn DEF Opens, SetTelegramManager, FetchMessages, Kinds
  <2> QED
    BY <1>0, <1>2, <2>1, MentionsAside DEF Opens, SetTelegramManager
<1>3. CASE Closes
  BY <1>0, <1>3, MentionsAside DEF Closes
<1>4. CASE Ends \/ Starts
  BY <1>4 DEF Ends, Forget, Starts, Running, MentionInv
<1>5. CASE PinnedStep
  <2>1. ASSUME NEW type \in {"pinned", "isPinned"}, Received(type) PROVE ~Tells(queue[1])
    BY <1>0, <2>1, ReceivedFirst DEF EventsOK, Tells, Counts
  <2>2. \A i \in DOMAIN searches : i \in DOMAIN searches' /\ searches'[i] = searches[i]
    <3>1. CASE OnGotSearchChatMessagesFilterPinned
      <4>1. UNCHANGED searches \/ \E from \in Message : Search("pinned", from)
        BY <3>1, ReceivedPage DEF OnGotSearchChatMessagesFilterPinned, Kinds
      <4> QED
        BY <4>1, SearchesGoOn DEF Kinds
    <3>2. CASE OnUpdateMessageIsPinned \/ CycleMessage
      BY <3>2, SearchesGoOn DEF OnUpdateMessageIsPinned, CycleMessage, FetchMessages, Kinds
    <3> QED
      BY <1>5, <3>1, <3>2 DEF PinnedStep
  <2>3. UNCHANGED <<marked, refused, mentionVars>>
        /\ (UNCHANGED queue \/ \E type \in {"pinned", "isPinned"} : Received(type))
    BY <1>5 DEF PinnedStep, OnGotSearchChatMessagesFilterPinned, OnUpdateMessageIsPinned, CycleMessage
  <2> QED
    BY <1>0, <2>1, <2>2, <2>3, MentionsAside
<1>6. CASE OnUpdateNewChat
  BY <1>6, MentionsBegin
<1>7. CASE OnUnreadMentionCount
  <2>1. /\ Received("mentions") /\ UNCHANGED <<marked, refused, exists>>
        /\ SetUnreadMentionCount(Head(queue).count)
    BY <1>7 DEF OnUnreadMentionCount
  <2>2. /\ Len(queue) >= 1 /\ Len(queue') = Len(queue) - 1 /\ queue[1].type = "mentions" /\ Head(queue) = queue[1]
        /\ \A i \in 1 .. Len(queue') : queue'[i] = queue[i + 1]
        /\ \A j \in 2 .. Len(queue) : j - 1 \in 1 .. Len(queue') /\ queue'[j - 1] = queue[j]
    BY <1>0, <2>1, ReceivedFirst DEF EventsOK
  <2>3. 1 \in 1 .. Len(queue) /\ Counts(queue[1]) /\ Tells(queue[1]) /\ queue[1].count \in Nat
    BY <1>0, <2>2 DEF Counts, Tells, EventsOK, EventOK
  <2>4. (\A j \in 1 .. Len(queue) : j > 1 => ~Counts(queue[j])) =>
           (queue[1].count = 0 <=> marked["mention"] = {})
    BY <2>3 DEF CountInv
  <2>5. CASE queue[1].count > 0
    <3>1. Search("mention", 0)
      BY <2>1, <2>2, <2>5 DEF SetUnreadMentionCount
    <3>2. CASE marked["mention"] # {}
      <4>1. Sought'
        BY <2>1, <3>1, <3>2, BegunIsFresh
      <4> QED
        BY <4>1 DEF MentionInv
    <3>3. CASE marked["mention"] = {} /\ exists /\ "mention" \notin refused
      <4>1. WillBeRight
        BY <2>3, <3>3 DEF MentionInv, Sought, IsRight
      <4>2. ~(\A j \in 1 .. Len(queue) : j > 1 => ~Tells(queue[j]))
        BY <2>3, <2>4, <2>5, <3>3 DEF Tells
      <4>3. WillBeRight'
        BY <1>0, <2>1, <4>1, <4>2, StaysRight
      <4> QED
        BY <4>3 DEF MentionInv
    <3> QED
      BY <2>1, <3>2, <3>3 DEF MentionInv
  <2>6. CASE queue[1].count = 0
    <3>1. firstUnreadMention' = 0 /\ overtaken' = FALSE /\ UNCHANGED searches
      BY <2>1, <2>2, <2>6 DEF SetUnreadMentionCount
    <3>2. CASE Sought
      <4>1. \/ \E i \in 1 .. Len(queue) : i > 1 /\ Counts(queue[i])
            \/ \E k \in DOMAIN searches : Fresh(searches[k])
        BY <2>4, <2>6, <3>2 DEF Sought
      <4>2. ASSUME NEW i \in 1 .. Len(queue), i > 1, Counts(queue[i]) PROVE Sought'
        <5>1. i - 1 \in 1 .. Len(queue') /\ queue'[i - 1] = queue[i]
          BY <1>0, <2>2, <4>2
        <5> QED
          BY <2>1, <3>2, <4>2, <5>1 DEF Sought, Counts
      <4>3. ASSUME NEW i \in DOMAIN searches, Fresh(searches[i]) PROVE Sought'
        <5>1. \A search : Fresh(search) => Fresh(search)'
          BY <2>1, SameAnswers
        <5>2. Fresh(searches[i])'
          BY <3>1, <4>3, <5>1 DEF Fresh
        <5> QED
          BY <2>1, <3>1, <3>2, <5>2 DEF Sought
      <4>4. Sought'
        BY <4>1, <4>2, <4>3
      <4> QED
        BY <4>4 DEF MentionInv
    <3>3. CASE WillBeRight
      <4>1. PICK i \in 1 .. Len(queue) :
              /\ Tells(queue[i]) /\ LeavesRight(queue[i])
              /\ \A j \in 1 .. Len(queue) : j > i => ~Tells(queue[j])
        BY <3>3 DEF WillBeRight
      <4>2. CASE i = 1
        <5>1. marked["mention"] = {}
          BY <2>3, <4>1, <4>2 DEF LeavesRight
        <5>2. firstUnreadMention' = NewestMention'
          BY <2>1, <3>1, <5>1, SameAnswers, NoMention
        <5>3. \A j \in 1 .. Len(queue') : ~Tells(queue'[j])
          BY <1>0, <2>2, <4>1, <4>2
        <5>4. IsRight'
          BY <5>2, <5>3 DEF IsRight, Tells, Counts
        <5> QED
          BY <5>4 DEF MentionInv
      <4>3. CASE i # 1
        <5>1. ~(\A j \in 1 .. Len(queue) : j > 1 => ~Tells(queue[j]))
          BY <1>0, <4>1, <4>3
        <5>2. WillBeRight'
          BY <1>0, <2>1, <3>3, <5>1, StaysRight
        <5> QED
          BY <5>2 DEF MentionInv
      <4> QED
        BY <4>2, <4>3
    <3>4. ~IsRight
      BY <2>3 DEF IsRight
    <3> QED
      BY <2>1, <3>2, <3>3, <3>4 DEF MentionInv
  <2> QED
    BY <2>3, <2>5, <2>6
<1>8. CASE OnGotSearchChatMessagesFilterUnreadMention
  <2>1. Received("mention") /\ UNCHANGED <<marked, refused, exists, searches>>
    BY <1>8 DEF OnGotSearchChatMessagesFilterUnreadMention
  <2>2. /\ Len(queue) >= 1 /\ Len(queue') = Len(queue) - 1 /\ queue[1].type = "mention" /\ Head(queue) = queue[1]
        /\ \A i \in 1 .. Len(queue') : queue'[i] = queue[i + 1]
    BY <1>0, <2>1, ReceivedFirst DEF EventsOK
  <2>3. 1 \in 1 .. Len(queue) /\ ~Counts(queue[1])
    BY <1>0, <2>2 DEF Counts
  <2>4. CASE queue[1].found = <<>>
    <3>1. ~Tells(queue[1]) /\ UNCHANGED <<firstUnreadMention, overtaken>>
      BY <1>8, <2>2, <2>3, <2>4 DEF OnGotSearchChatMessagesFilterUnreadMention, Tells
    <3> QED
      BY <1>0, <2>1, <3>1, MentionsAside
  <2>5. CASE queue[1].found # <<>>
    <3>1. firstUnreadMention' = queue[1].found[1] /\ overtaken' = queue[1].late /\ Tells(queue[1])
      BY <1>8, <2>2, <2>5 DEF OnGotSearchChatMessagesFilterUnreadMention, Tells
    <3>2. CASE Sought
      <4>1. Sought'
        BY <1>0, <2>1, <2>3, <3>2, StaysSought
      <4> QED
        BY <4>1 DEF MentionInv
    <3>3. CASE WillBeRight
      <4>1. CASE LeavesRight(queue[1]) /\ \A j \in 1 .. Len(queue) : j > 1 => ~Tells(queue[j])
        <5>1. overtaken' \/ firstUnreadMention' = NewestMention
          BY <2>3, <3>1, <4>1 DEF LeavesRight
        <5>2. \A j \in 1 .. Len(queue') : ~Tells(queue'[j])
          BY <1>0, <2>2, <4>1
        <5>3. IsRight'
          BY <2>1, <5>1, <5>2, SameAnswers DEF IsRight, Tells, Counts
        <5> QED
          BY <5>3 DEF MentionInv
      <4>2. CASE ~(LeavesRight(queue[1]) /\ \A j \in 1 .. Len(queue) : j > 1 => ~Tells(queue[j]))
        <5>1. WillBeRight'
          BY <1>0, <2>1, <3>3, <4>2, StaysRight
        <5> QED
          BY <5>1 DEF MentionInv
      <4> QED
        BY <4>1, <4>2
    <3>4. ~IsRight
      BY <2>3, <3>1 DEF IsRight
    <3> QED
      BY <2>1, <3>2, <3>3, <3>4 DEF MentionInv
  <2> QED
    BY <2>4, <2>5
<1>9. CASE SearchStep
  <2>1. PICK i \in DOMAIN searches : Find(i) \/ Refuse(i) \/ \E kind \in Kinds : Answer(kind, i)
    BY <1>9 DEF SearchStep
  <2>2. /\ searches[i] \in SearchType
        /\ searches[i].kind = "mention" => searches[i].from = 0
        /\ UNCHANGED <<marked, exists, firstUnreadMention, overtaken>>
    BY <1>0, <1>9, <2>1, ElementOfSeq DEF SearchesOK, SearchStep, Find, Refuse, Answer
  <2>3. CASE Find(i)
    <3>1. PICK found \in Answers(searches[i].kind, searches[i].from) :
            searches' = [searches EXCEPT ![i].found = found]
      BY <2>3 DEF Find
    <3>2. /\ DOMAIN searches' = DOMAIN searches
          /\ \A j \in DOMAIN searches : j # i => searches'[j] = searches[j]
          /\ searches'[i] = [searches[i] EXCEPT !.found = found]
      BY <1>0, <3>1
    <3>3. searches'[i].kind = searches[i].kind /\ searches'[i].found = found
      BY <2>2, <3>2 DEF SearchType
    <3>4. Fresh(searches[i]) => Fresh(searches'[i])
      BY <2>2, <3>1, <3>3 DEF Fresh
    <3>5. \A j \in DOMAIN searches : Fresh(searches[j]) => Fresh(searches'[j])
      BY <3>2, <3>4
    <3> QED
      BY <1>0, <2>2, <2>3, <3>2, <3>5, MentionsAside DEF Find
  <2>4. CASE Refuse(i)
    <3>1. CASE searches[i].kind = "mention"
      BY <2>4, <3>1 DEF Refuse, MentionInv
    <3>2. CASE searches[i].kind # "mention"
      <4>1. ~Fresh(searches[i]) /\ searches' = RemoveAt(searches, i)
        BY <2>4, <3>2 DEF Refuse, Fresh
      <4>2. \A j \in DOMAIN searches : Fresh(searches[j]) => \E k \in DOMAIN searches' : Fresh(searches'[k])
        <5>1. \A j \in DOMAIN searches \ {i} : \E k \in DOMAIN searches' : searches'[k] = searches[j]
          BY <1>0, <4>1, Without
        <5> QED
          BY <4>1, <5>1
      <4> QED
        BY <1>0, <2>2, <2>4, <4>2, MentionsAside DEF Refuse
    <3> QED
      BY <3>1, <3>2
  <2>5. ASSUME NEW kind \in Kinds, Answer(kind, i) PROVE MentionInv'
    <3>0. PICK event : event = [type |-> kind, found |-> searches[i].found,
                                late |-> searches[i].found \notin Answers(searches[i].kind, searches[i].from)]
      OBVIOUS
    <3>1. /\ Post(event) /\ searches[i].kind = kind /\ searches[i].found # NotYet
          /\ searches' = RemoveAt(searches, i) /\ UNCHANGED refused
      BY <2>5, <3>0 DEF Answer
    <3>2. /\ event.type = kind /\ event.found = searches[i].found /\ ~Counts(event)
          /\ event.late = (searches[i].found \notin Answers(searches[i].kind, searches[i].from))
      BY <3>0 DEF Counts, Kinds
    <3>3. CASE Tells(event)
      <4>1. kind = "mention" /\ event.found # <<>>
        BY <3>2, <3>3 DEF Tells
      <4>2. LeavesRight(event)
        <5>1. searches[i].kind = "mention" /\ searches[i].from = 0
          BY <2>2, <3>1, <4>1
        <5>2. event.late = (searches[i].found \notin Answers("mention", 0))
          BY <3>2, <5>1
        <5>3. event.found \in Answers("mention", 0) => event.found[1] = NewestMention
          BY <4>1, NewestFound
        <5> QED
          BY <3>2, <5>2, <5>3 DEF LeavesRight
      <4>3. LeavesRight(event)'
        BY <2>2, <4>2, SameAnswers
      <4>4. PICK last : last = Len(queue) + 1
        OBVIOUS
      <4>5. /\ Len(queue') = last /\ queue'[last] = event /\ last \in 1 .. Len(queue')
            /\ \A j \in 1 .. Len(queue') : ~(j > last)
        BY <1>0, <3>1, <4>4, PostedLast DEF EventsOK
      <4>6. LeavesRight(queue[last])' /\ Tells(queue[last])'
        BY <3>3, <4>3, <4>5 DEF LeavesRight, Tells, Counts
      <4>7. WillBeRight'
        BY <4>5, <4>6 DEF WillBeRight
      <4> QED
        BY <4>7 DEF MentionInv
    <3>4. CASE ~Tells(event)
      <4>1. marked["mention"] # {} => ~Fresh(searches[i])
        <5>1. kind = "mention" => searches[i].found = <<>>
          BY <3>2, <3>4 DEF Tells
        <5> QED
          BY <3>1, <5>1, NewestFound DEF Fresh
      <4>2. marked["mention"] # {} =>
              \A j \in DOMAIN searches : Fresh(searches[j]) => \E k \in DOMAIN searches' : Fresh(searches'[k])
        <5>1. \A j \in DOMAIN searches \ {i} : \E k \in DOMAIN searches' : searches'[k] = searches[j]
          BY <1>0, <3>1, Without
        <5> QED
          BY <4>1, <5>1
      <4> QED
        BY <1>0, <2>2, <3>1, <3>4, <4>2, MentionsAside
    <3> QED
      BY <3>3, <3>4
  <2> QED
    BY <2>1, <2>3, <2>4, <2>5
<1>10. CASE MessageStep
  <2>1. UNCHANGED <<searches, refused, exists, firstUnreadMention, overtaken>>
    BY <1>10 DEF MessageStep, Toggle, Delete
  <2>2. ASSUME NEW event, Post(event), event.type = "mentions", event.count = 0 <=> marked'["mention"] = {}
        PROVE  MentionInv'
    <3>1. PICK last : last = Len(queue) + 1
      OBVIOUS
    <3>2. /\ Len(queue') = last /\ queue'[last] = event /\ last \in 1 .. Len(queue')
          /\ \A j \in 1 .. Len(queue') : ~(j > last)
      BY <1>0, <2>2, <3>1, PostedLast DEF EventsOK
    <3>3. Counts(event) /\ Tells(event)
      BY <2>2 DEF Counts, Tells
    <3>4. CASE marked'["mention"] # {}
      <4>1. Sought'
        BY <3>2, <3>3, <3>4 DEF Sought, Counts
      <4> QED
        BY <4>1 DEF MentionInv
    <3>5. CASE marked'["mention"] = {}
      <4>1. LeavesRight(queue[last])' /\ Tells(queue[last])'
        BY <3>2, <3>3, <3>5 DEF LeavesRight, Counts, Tells
      <4>2. WillBeRight'
        BY <3>2, <4>1 DEF WillBeRight
      <4> QED
        BY <4>2 DEF MentionInv
    <3> QED
      BY <3>4, <3>5
  <2>3. ASSUME marked'["mention"] = marked["mention"] PROVE MentionInv'
    <3> DEFINE count == [type |-> "mentions", count |-> Cardinality(marked'["mention"])]
               pinned == [type |-> "isPinned"]
    <3>1. ~Tells(pinned)
      BY DEF Tells, Counts
    <3>2. count.type = "mentions" /\ (count.count = 0 <=> marked'["mention"] = {})
      BY <2>3, MentionCount DEF SearchesOK, Kinds
    <3>3. UNCHANGED queue \/ Post(count) \/ Post(pinned)
      BY <1>10 DEF MessageStep, Toggle, Delete
    <3> HIDE DEF count, pinned
    <3>4. CASE Post(count)
      BY <2>2, <3>2, <3>4
    <3>5. CASE UNCHANGED queue \/ Post(pinned)
      BY <1>0, <2>1, <2>3, <3>1, <3>5, MentionsAside
    <3> QED
      BY <3>3, <3>4, <3>5
  <2> QED
    BY <2>2, <2>3, MentionsTold
<1> QED
  BY <1>1, <1>2, <1>3, <1>4, <1>5, <1>6, <1>7, <1>8, <1>9, <1>10, Steps DEF MentionStep

(***************************************************************************)
(* Chat::_firstUnreadMention, to which the page scrolls, is the newest     *)
(* unread mention once nothing is under way, but for a refused search and  *)
(* an answer that was found too early.                                     *)
(***************************************************************************)
THEOREM MentionsStayRight == Spec => []MentionsAgree
<1> DEFINE IInv == PageHasChat /\ SearchesOK /\ StartInv /\ CountInv /\ MentionInv
<1>1. Init => IInv
  <2> SUFFICES ASSUME Init PROVE StartInv /\ CountInv /\ MentionInv
    BY SearchesBegin
  <2>1. Len(queue) = 0 /\ queue = <<>> /\ ~exists /\ searches = <<>> /\ firstUnreadMention = 0
    BY DEF Init, SearchesInit, MentionsInit
  <2> QED
    BY <2>1 DEF StartInv, CountInv, MentionInv
<1>2. IInv /\ [Next]_vars => IInv'
  BY PageHasChatKeeps, SearchesKeep, StartKeeps, CountKeeps, MentionKeeps
<1>3. IInv => MentionsAgree
  <2> SUFFICES ASSUME IInv, exists, ~Searching("mention"), \A event \in OnTheirWay : event.type # "mentions",
                      "mention" \notin refused, ~overtaken
               PROVE  firstUnreadMention = NewestMention
    BY DEF MentionsAgree, NewestMention
  <2>1. ASSUME NEW i \in 1 .. Len(queue) PROVE ~Tells(queue[i])
    <3>1. queue[i] \in OnTheirWay
      BY DEF OnTheirWay, SearchesOK, EventsOK, IsSequence
    <3>2. queue[i].type # "newChat"
      BY <2>1 DEF StartInv
    <3> QED
      BY <3>1, <3>2 DEF Searching, Tells, Counts
  <2>2. ~Sought
    BY <2>1 DEF Sought, Fresh, Tells, Searching
  <2>3. IsRight
    BY <2>1, <2>2 DEF MentionInv, WillBeRight
  <2> QED
    BY <2>3 DEF IsRight
<1> QED
  BY <1>1, <1>2, <1>3, PTL DEF Spec
=============================================================================
