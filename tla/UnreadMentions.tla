--------------------------- MODULE UnreadMentions ---------------------------
(***************************************************************************)
(* The unread mentions of a chat: the number TDLib tells, and the mention  *)
(* to which the page scrolls, which the chat searches for whenever it is   *)
(* told a number (chat.cpp, chatlist.cpp).                                 *)
(***************************************************************************)
EXTENDS Searches

VARIABLES
    exists,             \* the chat's object has been made
    firstUnreadMention, \* Chat::_firstUnreadMention; 0 when there is none
    overtaken           \* history: the mention comes from a late answer

mentionVars == <<exists, firstUnreadMention, overtaken>>

\* Mutant of SetUnreadMentionCount: a known mention is kept.
SetUnreadMentionCountOnce(count) ==
    IF count > 0
    THEN /\ IF firstUnreadMention = 0 THEN Search("mention", 0) ELSE UNCHANGED searches
         /\ UNCHANGED <<firstUnreadMention, overtaken>>
    ELSE firstUnreadMention' = 0 /\ overtaken' = FALSE /\ UNCHANGED searches

SetUnreadMentionCount(count) ==
    IF count > 0
    THEN Search("mention", 0) /\ UNCHANGED <<firstUnreadMention, overtaken>>
    ELSE firstUnreadMention' = 0 /\ overtaken' = FALSE /\ UNCHANGED searches

(***************************************************************************)
(* createChat: setTelegramManager reads _unreadMentionCount before         *)
(* initialize() has set it, so it sends a search of its own, or not; then  *)
(* initialize() calls setUnreadMentionCount.                               *)
(***************************************************************************)
OnUpdateNewChat ==
    /\ Received("newChat")
    /\ exists' = TRUE
    /\ LET told == Min({Head(queue).count, 1})
       IN  \E unset \in {0, 1} :
              /\ Len(searches) + told + unset <= MaxSearches
              /\ searches' = searches \o [i \in 1 .. told + unset |-> NewSearch("mention", 0)]
    /\ UNCHANGED <<marked, gone, refused, firstUnreadMention, overtaken>>

\* updateChatUnreadMentionCount and updateMessageMentionRead.
OnUnreadMentionCount ==
    /\ Received("mentions")
    /\ SetUnreadMentionCount(Head(queue).count)
    /\ UNCHANGED <<marked, gone, refused, exists>>

OnGotSearchChatMessagesFilterUnreadMention ==
    /\ Received("mention")
    /\ LET answer == Head(queue)
       IN  IF answer.found = <<>> THEN UNCHANGED <<firstUnreadMention, overtaken>>
           ELSE firstUnreadMention' = answer.found[1] /\ overtaken' = answer.late
    /\ UNCHANGED <<marked, gone, searches, refused, exists>>

\* The chat's object is gone.
Forget == exists' = FALSE /\ firstUnreadMention' = 0 /\ overtaken' = FALSE

MentionsInit == exists = FALSE /\ firstUnreadMention = 0 /\ overtaken = FALSE

(***************************************************************************)
(* Once nothing is under way the page scrolls to the newest unread         *)
(* mention, and there is none when all are read.  Excepted are a refused   *)
(* search, and an answer that was found before the last mention was read   *)
(* and emitted after: nothing takes it back (chat.cpp:2207).               *)
(***************************************************************************)
MentionsAgree ==
    /\ exists /\ ~Searching("mention")
    /\ \A event \in OnTheirWay : event.type # "mentions"
    /\ "mention" \notin refused /\ ~overtaken
    => firstUnreadMention = Max(marked["mention"] \cup {0})
=============================================================================
