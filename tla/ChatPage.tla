------------------------------ MODULE ChatPage ------------------------------
(***************************************************************************)
(* One chat, its page and its notifications: Chat.qml, ChatList::openChat  *)
(* and closeChat, composed with the page's pinned messages, the chat's     *)
(* unread mentions and Notifications.  The page is pushed and popped with  *)
(* an animation, the application goes to the background and comes back,    *)
(* a tap on a notification opens the page anew, and the program may end.   *)
(***************************************************************************)
EXTENDS PinnedMessages, UnreadMentions, Notifications

CONSTANT
    MaxActs       \* bound: acts of the user, of other people and of the system

VARIABLES
    page,         \* "none", or the status of the chat's page
    appActive,    \* Qt.application.state is ApplicationActive
    isOpen,       \* Chat::_isOpen
    acts          \* how many acts there have been

pageVars == <<page, appActive, isOpen, acts>>
vars == <<searchVars, pinnedVars, mentionVars, notificationVars, pageVars>>

Act == acts < MaxActs /\ acts' = acts + 1

(***************************************************************************)
(* The page.  Active: openChat.  Deactivating, when another page is pushed *)
(* or this one is popped: closeChat.                                       *)
(***************************************************************************)
PushPage ==
    /\ exists /\ page = "none" /\ appActive /\ Act
    /\ page' = "arriving"
    /\ SetTelegramManager
    /\ UNCHANGED <<mentionVars, notificationVars, appActive, isOpen>>

PageActive ==
    /\ page \in {"arriving", "uncovered"}
    /\ page' = "active" /\ isOpen' = TRUE
    /\ UNCHANGED <<searchVars, pinnedVars, mentionVars, notificationVars, appActive, acts>>

Cover ==
    /\ page = "active" /\ appActive /\ Act
    /\ page' = "covered" /\ isOpen' = FALSE
    /\ UNCHANGED <<searchVars, pinnedVars, mentionVars, notificationVars, appActive>>

Uncover ==
    /\ page = "covered" /\ appActive
    /\ page' = "uncovered"
    /\ UNCHANGED <<searchVars, pinnedVars, mentionVars, notificationVars, appActive, isOpen, acts>>

PopPage ==
    /\ page = "active" /\ appActive
    /\ page' = "leaving" /\ isOpen' = FALSE
    /\ UNCHANGED <<searchVars, pinnedVars, mentionVars, notificationVars, appActive, acts>>

PageGone ==
    /\ page = "leaving"
    /\ page' = "none"
    /\ Destroy
    /\ UNCHANGED <<searchVars, mentionVars, notificationVars, appActive, isOpen, acts>>

(***************************************************************************)
(* Chat.qml's Connections to Qt.application, as long as the page exists.   *)
(***************************************************************************)
ApplicationInactive ==
    /\ exists /\ appActive /\ Act
    /\ appActive' = FALSE
    /\ isOpen' = (isOpen /\ page = "none")
    /\ UNCHANGED <<searchVars, pinnedVars, mentionVars, notificationVars, page>>

\* Mutant of ApplicationActive: the chat is not opened again.
ApplicationActiveOnly ==
    /\ ~appActive
    /\ appActive' = TRUE
    /\ UNCHANGED <<searchVars, pinnedVars, mentionVars, notificationVars, page, isOpen, acts>>

ApplicationActive ==
    /\ ~appActive
    /\ appActive' = TRUE
    /\ isOpen' = (isOpen \/ page # "none")
    /\ UNCHANGED <<searchVars, pinnedVars, mentionVars, notificationVars, page, acts>>

(***************************************************************************)
(* ChatList.qml, the D-Bus method openChat, to which a notification's      *)
(* action leads, from the background too: the application is activated,    *)
(* which shows later; the chat is opened; the pages above the list are     *)
(* popped at once, which closes it when its page was active; and a page is *)
(* pushed.                                                                 *)
(***************************************************************************)
TapNotification(n) ==
    /\ exists /\ Act
    /\ Dismiss(n)
    /\ isOpen' = (page # "active")
    /\ page' = "arriving"
    /\ SetTelegramManager
    /\ UNCHANGED <<mentionVars, active, listed, notifications, appActive>>

ClearNotification(n) ==
    /\ Act
    /\ Dismiss(n)
    /\ UNCHANGED <<searchVars, pinnedVars, mentionVars, active, listed, notifications,
                   page, appActive, isOpen>>

(***************************************************************************)
(* Handlers, TDLib's side, and other people.                               *)
(***************************************************************************)
HandlePinned ==
    /\ OnGotSearchChatMessagesFilterPinned \/ OnUpdateMessageIsPinned
    /\ UNCHANGED <<mentionVars, notificationVars, pageVars>>

HandleMentions ==
    /\ OnUpdateNewChat \/ OnUnreadMentionCount \/ OnGotSearchChatMessagesFilterUnreadMention
    /\ UNCHANGED <<pinnedVars, notificationVars, pageVars>>

HandleNotifications ==
    /\ UpdateNotificationGroup(isOpen)
    /\ UNCHANGED <<marked, gone, searches, refused, pinnedVars, mentionVars, pageVars>>

TapPinnedMessage ==
    /\ page = "active" /\ Act
    /\ CycleMessage
    /\ UNCHANGED <<mentionVars, notificationVars, page, appActive, isOpen>>

ClosePinnedBar ==
    /\ page = "active"
    /\ CloseBar
    /\ UNCHANGED <<mentionVars, notificationVars, pageVars>>

Running == exists \/ \E event \in OnTheirWay : event.type = "newChat"

Tdlib ==
    /\ \E i \in DOMAIN searches :
          \/ (Find(i) \/ \E kind \in Kinds : Answer(kind, i)) /\ UNCHANGED acts
          \/ Refuse(i) /\ Act
    /\ UNCHANGED <<pinnedVars, mentionVars, notificationVars, page, appActive, isOpen>>

OtherPeople ==
    /\ Running /\ Act
    /\ \/ /\ \E m \in Message : Delete(m) \/ \E kind \in Kinds : Toggle(kind, m)
          /\ UNCHANGED notificationVars
       \/ /\ \E n \in Notification : Notify(n) \/ Withdraw(n)
          /\ UNCHANGED <<marked, gone, searches, refused>>
    /\ UNCHANGED <<pinnedVars, mentionVars, page, appActive, isOpen>>

(***************************************************************************)
(* The program ends, by itself or through a notification that it cannot    *)
(* read; TDLib announces the chat to the next one.                         *)
(***************************************************************************)
End ==
    /\ searches' = <<>>
    /\ Destroy
    /\ Forget
    /\ page' = "none" /\ isOpen' = FALSE
    /\ refused' = {}

Crash ==
    /\ Running /\ Act
    /\ End
    /\ LeaveScreen({})
    /\ queue' = <<>>
    /\ UNCHANGED <<marked, gone, appActive>>

CrashOnNotification ==
    /\ Received("group")
    /\ Dereferences(Head(queue), isOpen)
    /\ End
    /\ LeaveScreen(ToShow(Head(queue), isOpen))
    /\ queue' = <<>>
    /\ UNCHANGED <<marked, gone, appActive, acts>>

Start ==
    /\ ~Running /\ queue = <<>>
    /\ Post([type |-> "newChat", count |-> Cardinality(marked["mention"])])
    /\ appActive' = TRUE
    /\ UNCHANGED <<marked, gone, searches, refused, pinnedVars, mentionVars, notificationVars,
                   page, isOpen, acts>>

Init ==
    /\ SearchesInit /\ PinnedInit /\ MentionsInit /\ NotificationsInit
    /\ page = "none" /\ appActive = TRUE /\ isOpen = FALSE
    /\ acts = 0

Next ==
    \/ PushPage \/ PageActive \/ Cover \/ Uncover \/ PopPage \/ PageGone
    \/ ApplicationInactive \/ ApplicationActive
    \/ \E n \in Notification : TapNotification(n) \/ ClearNotification(n)
    \/ HandlePinned \/ HandleMentions \/ HandleNotifications
    \/ TapPinnedMessage \/ ClosePinnedBar
    \/ Tdlib \/ OtherPeople
    \/ Crash \/ CrashOnNotification \/ Start

Spec == Init /\ [][Next]_vars

(***************************************************************************)
(* A user who has the chat in front is not told of its messages: while the *)
(* page is active and the application too, the chat counts as open,        *)
(* whatever came before (Chat.qml:104-111,157).  The converse fails: the   *)
(* chat counts as open behind another page when the application comes back *)
(* to it, and what arrives then is in "missed".                            *)
(***************************************************************************)
InFront == page = "active" /\ appActive

NobodyInFrontIsTold == [][InFront => screen' \subseteq screen]_vars
=============================================================================
