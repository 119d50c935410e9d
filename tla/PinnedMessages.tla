--------------------------- MODULE PinnedMessages ---------------------------
(***************************************************************************)
(* PinnedMessages (components/pinnedmessages.cpp), an object of the chat's *)
(* page, and the bar that shows its current message.  The list is fetched  *)
(* page by page, each from the last message of the one before; whenever a  *)
(* message is pinned or unpinned it is emptied and fetched anew.  Answers  *)
(* are told apart by the chat alone, so those of an earlier paging, even   *)
(* of an earlier page's object, join the new one.                          *)
(***************************************************************************)
EXTENDS Searches

VARIABLES
    shown,        \* the chat's page exists, and its PinnedMessages with it
    messages,     \* PinnedMessages::_messages
    current,      \* PinnedMessages::_currentMessage
    closed,       \* pinnedMessageLoader.active was set to false: its binding is gone
    joined,       \* history: answers of an earlier paging were under way
    refetched     \* history: the list was emptied since the user last cycled

pinnedVars == <<shown, messages, current, closed, joined, refetched>>

FetchMessages ==
    /\ messages' = <<>>
    /\ Search("pinned", 0)
    /\ joined' = Searching("pinned")

\* Chat.qml: the page is pushed, and injectDependencies calls setTelegramManager.
SetTelegramManager ==
    /\ shown' = TRUE
    /\ current' = 0 /\ closed' = FALSE
    /\ refetched' = FALSE
    /\ FetchMessages
    /\ UNCHANGED <<queue, marked, gone, refused>>

\* The page is popped: the object and the bar are destroyed.
Destroy ==
    /\ shown' = FALSE
    /\ messages' = <<>> /\ current' = 0 /\ closed' = FALSE
    /\ joined' = FALSE /\ refetched' = FALSE

\* Mutant of OnGotSearchChatMessagesFilterPinned: the last message of the page is left out of the next request.
OnGotPinnedSkipping ==
    /\ Received("pinned")
    /\ LET found == Head(queue).found
       IN  IF ~shown THEN UNCHANGED <<searches, messages>>
           ELSE /\ messages' = messages \o found
                /\ IF found # <<>> /\ Last(found) > 1 THEN Search("pinned", Last(found) - 1) ELSE UNCHANGED searches
    /\ UNCHANGED <<marked, gone, refused, shown, current, closed, joined, refetched>>

OnGotSearchChatMessagesFilterPinned ==
    /\ Received("pinned")
    /\ LET found == Head(queue).found
       IN  IF ~shown THEN UNCHANGED <<searches, messages>>
           ELSE /\ messages' = messages \o found
                /\ IF found # <<>> THEN Search("pinned", Last(found)) ELSE UNCHANGED searches
    /\ UNCHANGED <<marked, gone, refused, shown, current, closed, joined, refetched>>

\* Mutant of OnUpdateMessageIsPinned: the list is not emptied.
OnUpdateMessageIsPinnedKept ==
    /\ Received("isPinned")
    /\ IF ~shown THEN UNCHANGED <<searches, messages, joined, refetched>>
       ELSE /\ Search("pinned", 0)
            /\ joined' = Searching("pinned")
            /\ refetched' = TRUE
            /\ UNCHANGED messages
    /\ UNCHANGED <<marked, gone, refused, shown, current, closed>>

OnUpdateMessageIsPinned ==
    /\ Received("isPinned")
    /\ IF ~shown THEN UNCHANGED <<searches, messages, joined, refetched>>
       ELSE FetchMessages /\ refetched' = TRUE
    /\ UNCHANGED <<marked, gone, refused, shown, current, closed>>

(***************************************************************************)
(* The bar is there while id() is not 0, which is that of the current      *)
(* message, or 0 past the end of the list; and until the user closes it.   *)
(* To close it is to assign to what was bound to id(): the bar comes back  *)
(* with the next page only.  A tap on the bar goes to the next message.    *)
(***************************************************************************)
BarIsShown == ~closed /\ current < Len(messages)

CloseBar ==
    /\ BarIsShown
    /\ closed' = TRUE
    /\ UNCHANGED <<searchVars, shown, messages, current, joined, refetched>>

CycleMessage ==
    /\ BarIsShown
    /\ current' = (current + 1) % Len(messages)
    /\ refetched' = FALSE
    /\ UNCHANGED <<searchVars, shown, messages, closed, joined>>

PinnedInit ==
    /\ shown = FALSE /\ messages = <<>> /\ current = 0 /\ closed = FALSE
    /\ joined = FALSE /\ refetched = FALSE

(***************************************************************************)
(* Once nothing is under way.                                              *)
(***************************************************************************)
Fetched ==
    /\ shown
    /\ ~Searching("pinned")
    /\ \A event \in OnTheirWay : event.type # "isPinned"
    /\ "pinned" \notin refused

(***************************************************************************)
(* The user can reach every pinned message: none is missing from the list, *)
(* whatever was pinned while it was fetched, whichever page of an earlier  *)
(* fetch came in between and however often the chat's page was opened and  *)
(* closed, since each page of messages continues from the last of its own  *)
(* answer (pinnedmessages.cpp:149); and the bar, with which the user goes  *)
(* through the list, is there.  Excepted from the latter are a list that   *)
(* was fetched anew since the user's last tap: _currentMessage is kept,    *)
(* and past the end of a shorter list id() is 0, and the bar that would    *)
(* move it is gone; and a bar the user has closed on this page, which      *)
(* stays away for messages pinned later too (Chat.qml:419-421).            *)
(***************************************************************************)
PinsAreReachable ==
    Fetched =>
        /\ marked["pinned"] \subseteq Range(messages)
        /\ marked["pinned"] # {} => BarIsShown \/ refetched \/ closed

(***************************************************************************)
(* The list is the pinned messages, newest first and each once, but for    *)
(* messages that were deleted, of which nothing tells it.  Excepted is a   *)
(* paging begun while answers of an earlier one were on their way: what    *)
(* these answers hold is in the list twice, or is no longer pinned.        *)
(***************************************************************************)
ListIsExact ==
    Fetched /\ ~joined =>
        /\ \A i, j \in DOMAIN messages : i < j => messages[i] > messages[j]
        /\ Range(messages) \subseteq marked["pinned"] \cup gone
=============================================================================
