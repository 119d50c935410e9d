--------------------------- MODULE Notifications ---------------------------
(***************************************************************************)
(* Notifications (notifications.cpp): what the system's screen shows of    *)
(* the notifications of a chat that TDLib holds active.  The screen        *)
(* outlives the program, which keeps no record of what it put there; and   *)
(* the user clears the screen without TDLib being told.                    *)
(***************************************************************************)
EXTENDS Updates, FiniteSets

CONSTANTS
    Plain,        \* notifications of messages without custom emojis, or of a new secret chat
    Emoji,        \* of text messages with a custom emoji
    Other,        \* of calls and pushes, and silent ones: none is shown
    Capacity      \* external: TDLib's notification_group_size_max

VARIABLES
    active,       \* external: notifications that TDLib holds active
    listed,       \* external: those of them in its group, which it has told
    notifications,\* Notifications::_notifications
    screen,       \* what the system shows
    leftOver,     \* history: shown by the program before its last start
    missed        \* history: seen off because the chat was open, or cleared by the user

notificationVars == <<active, listed, notifications, screen, leftOver, missed>>

Notification == Plain \cup Emoji \cup Other

ASSUME NotificationKinds == Plain \cap Emoji = {} /\ Plain \cap Other = {} /\ Emoji \cap Other = {}

(***************************************************************************)
(* External: TDLib tells the newest of the active ones, as many as fit: a  *)
(* new one pushes out the oldest, which comes back when there is room.     *)
(***************************************************************************)
Regroup(now, group) ==
    /\ active' = now
    /\ listed' = group
    /\ group \subseteq now /\ Cardinality(group) <= Capacity
    /\ Cardinality(group) < Capacity => group = now
    /\ IF group = listed THEN UNCHANGED queue
       ELSE Post([type |-> "group", added |-> group \ listed, removed |-> listed \ group])
    /\ UNCHANGED <<notifications, screen, leftOver, missed>>

Notify(n) ==
    /\ n \notin active
    /\ \E group \in SUBSET (listed \cup {n}) : n \in group /\ Regroup(active \cup {n}, group)

Withdraw(n) ==
    /\ n \in active
    /\ \E group \in SUBSET (active \ {n}) : listed \ {n} \subseteq group /\ Regroup(active \ {n}, group)

(***************************************************************************)
(* updateNotificationGroup.  Message::formatTextAsHTML uses the custom     *)
(* emojis of the message, which Notifications does not set: the program    *)
(* ends there (Dereferenced).                                              *)
(***************************************************************************)
ToShow(event, isOpen) == IF isOpen THEN {} ELSE (event.added \ notifications) \ Other

Dereferences(event, isOpen) == ToShow(event, isOpen) \cap Emoji # {}

\* Mutant of UpdateNotificationGroup: what is removed stays on the screen.
UpdateNotificationGroupKept(isOpen) ==
    /\ Received("group")
    /\ LET event == Head(queue)
           shows == ToShow(event, isOpen)
       IN  /\ ~Dereferences(event, isOpen)
           /\ notifications' = (notifications \cup shows) \ event.removed
           /\ screen' = screen \cup shows
           /\ missed' = IF isOpen THEN missed \cup event.added ELSE missed
    /\ UNCHANGED <<active, listed, leftOver>>

UpdateNotificationGroup(isOpen) ==
    /\ Received("group")
    /\ LET event == Head(queue)
           shows == ToShow(event, isOpen)
       IN  /\ ~Dereferences(event, isOpen)
           /\ notifications' = (notifications \cup shows) \ event.removed
           /\ screen' = (screen \cup shows) \ (event.removed \cap (notifications \cup shows))
           /\ missed' = (IF isOpen THEN missed \cup (event.added \ notifications) ELSE missed \ shows) \ event.removed
    /\ UNCHANGED <<active, listed, leftOver>>

\* The user clears a notification, or taps on it.
Dismiss(n) ==
    /\ n \in screen
    /\ screen' = screen \ {n}
    /\ leftOver' = leftOver \ {n}
    /\ missed' = missed \cup {n}

\* The program ends, maybe while it puts "shows" on the screen.
LeaveScreen(shows) ==
    /\ \E done \in SUBSET (shows \ Emoji) : screen' = screen \cup done
    /\ notifications' = {}
    /\ leftOver' = screen'
    /\ missed' = active
    /\ UNCHANGED <<active, listed>>

NotificationsInit ==
    /\ active = {} /\ listed = {}
    /\ notifications = {} /\ screen = {} /\ leftOver = {} /\ missed = {}

(***************************************************************************)
(* Once TDLib's updates are handled, what this run of the program has put  *)
(* on the screen is what TDLib has told of, but for what came while the    *)
(* chat was open or was cleared by the user.  Excepted are notifications   *)
(* of an earlier run, which nothing takes away: updateActiveNotifications  *)
(* is not connected (notifications.cpp:28-34,67).                          *)
(***************************************************************************)
ScreenAgrees ==
    (\A event \in OnTheirWay : event.type # "group") =>
        /\ screen \ leftOver \subseteq listed
        /\ listed \ (Other \cup missed) \subseteq screen
=============================================================================
