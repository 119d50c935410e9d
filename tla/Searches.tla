------------------------------ MODULE Searches ------------------------------
(***************************************************************************)
(* searchChatMessages, through which a chat finds its pinned messages      *)
(* (PinnedMessages) and its unread mentions (UnreadMentions).  TDLib asks  *)
(* the server, so what a search finds is settled some time before its      *)
(* answer is emitted, and searches overtake each other and the updates.    *)
(* External: written down from how the two components use it.              *)
(***************************************************************************)
EXTENDS Updates, SequencesExt, FiniteSetsExt

CONSTANTS
    Message,      \* ids of the chat's messages; a newer one is greater
    MaxSearches   \* bound: searches that are under way

ASSUME MessageAssumption == Message \subseteq Nat \ {0} /\ IsFiniteSet(Message)

VARIABLES
    marked,       \* the chat's pinned messages and its unread mentions
    gone,         \* messages that were deleted
    searches,     \* searches under way, with what they have found
    refused       \* history: the kinds of search that TDLib has refused

searchVars == <<queue, marked, gone, searches, refused>>

Kinds == {"pinned", "mention"}
Limit == [pinned |-> 2, mention |-> 1]
NotYet == <<0>>

NewSearch(kind, from) == [kind |-> kind, from |-> from, found |-> NotYet]

Search(kind, from) ==
    /\ Len(searches) < MaxSearches
    /\ searches' = Append(searches, NewSearch(kind, from))

(***************************************************************************)
(* The newest messages before "from", as many as TDLib chooses within the  *)
(* limit, and none only when there are none.                               *)
(***************************************************************************)
Answers(kind, from) ==
    LET all == {m \in marked[kind] : from = 0 \/ m < from}
    IN  {found \in UNION {[1 .. n -> all] : n \in 0 .. Limit[kind]} :
            /\ \A i, j \in DOMAIN found : i < j => found[i] > found[j]
            /\ \A m \in all \ Range(found) : found # <<>> /\ m < Last(found)}

Find(i) ==
    /\ searches[i].found = NotYet
    /\ \E found \in Answers(searches[i].kind, searches[i].from) :
          searches' = [searches EXCEPT ![i].found = found]
    /\ UNCHANGED <<queue, marked, gone, refused>>

Answer(kind, i) ==
    LET search == searches[i]
    IN  /\ search.kind = kind /\ search.found # NotYet
        /\ Post([type |-> kind, found |-> search.found,
                 late |-> search.found \notin Answers(search.kind, search.from)])
        /\ searches' = RemoveAt(searches, i)
        /\ UNCHANGED <<marked, gone, refused>>

Refuse(i) ==
    /\ searches[i].found = NotYet
    /\ searches' = RemoveAt(searches, i)
    /\ refused' = refused \cup {searches[i].kind}
    /\ UNCHANGED <<queue, marked, gone>>

(***************************************************************************)
(* A message is pinned or unpinned; it mentions the user or is read; it is *)
(* deleted, of which only the number of unread mentions tells.             *)
(***************************************************************************)
Toggle(kind, m) ==
    /\ m \notin gone
    /\ marked' = [marked EXCEPT ![kind] = IF m \in @ THEN @ \ {m} ELSE @ \cup {m}]
    /\ Post(IF kind = "pinned" THEN [type |-> "isPinned"]
            ELSE [type |-> "mentions", count |-> Cardinality(marked'["mention"])])
    /\ UNCHANGED <<gone, searches, refused>>

Delete(m) ==
    /\ m \notin gone
    /\ gone' = gone \cup {m}
    /\ marked' = [kind \in Kinds |-> marked[kind] \ {m}]
    /\ IF m \in marked["mention"]
       THEN Post([type |-> "mentions", count |-> Cardinality(marked'["mention"])])
       ELSE UNCHANGED queue
    /\ UNCHANGED <<searches, refused>>

Searching(kind) ==
    \/ \E i \in DOMAIN searches : searches[i].kind = kind
    \/ \E event \in OnTheirWay : event.type = kind

SearchesInit ==
    /\ queue = <<>> /\ searches = <<>> /\ refused = {} /\ gone = {}
    /\ marked \in [Kinds -> SUBSET Message]
=============================================================================
