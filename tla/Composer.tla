------------------------------ MODULE Composer ------------------------------
(***************************************************************************)
(* What the user writes to a chat: the text field of its page (Chat.qml),  *)
(* the message that is being edited or replied to, and the draft, of which *)
(* the field, Chat and TDLib each have one.  The field saves its text when *)
(* it loses the focus and when its page is left; TDLib reports every draft,*)
(* and the field is given Chat's draft whenever Chat says that it changed: *)
(* of a report, and also of emojis that have come.                         *)
(*                                                                         *)
(* Words are numbered by the act that wrote them.  The reply is saved with *)
(* a draft but never restored (draftMessageReplyId is 0 for every message, *)
(* chat.cpp:644), so a draft is its words.                                 *)
(***************************************************************************)
EXTENDS Requests

VARIABLES
    page,         \* "none", "behind" another page or "active"
    text,         \* textInput.text
    focus,        \* textInput.focus
    editing,      \* newEditMessageId is not 0
    replying,     \* newReplyMessageId is not 0
    draft,        \* Chat::draftMessage
    tdDraft,      \* external: TDLib's draft of the chat
    forEdit,      \* history: words meant for the message that is edited
    sends,        \* history: what was sent, from where, how and whether again
    meantForEdit, \* history: the user last chose to edit, not to write
    mine,         \* history: words of the user that were neither sent nor dropped
    restored,     \* history: the field's words are those of a draft
    late,         \* history: words of drafts that came late into the field
    replaced,     \* history: those words had to make way in the field
    unsaved,      \* history: the field was changed since it was last saved
    unfocused     \* history: a message was sent from a field without the focus

fieldVars == <<page, text, focus, editing, replying>>
wordVars == <<forEdit, sends, meantForEdit, mine, restored, late, replaced, unsaved, unfocused>>
composerVars == <<queue, fieldVars, draft, tdDraft, requests, acts, wordVars>>

Nothing == 0
NewWords == acts + 1

(***************************************************************************)
(* setDraftMessage(text, reply)                                            *)
(***************************************************************************)
Save(drafts) ==
    /\ Len(requests) + Len(drafts) <= MaxRequests
    /\ requests' = requests \o drafts

\* onNewReplyMessageIdChanged, of a change to r.
SavedByReply(r, words) == IF r # replying /\ draft # Nothing THEN <<words>> ELSE <<>>

ComposerInit ==
    /\ queue = <<>> /\ requests = <<>>
    /\ page = "none" /\ text = Nothing /\ focus = FALSE
    /\ editing = FALSE /\ replying = FALSE
    /\ draft = Nothing /\ tdDraft = Nothing
    /\ acts = 0
    /\ forEdit = {} /\ sends = {} /\ meantForEdit = FALSE
    /\ mine = Nothing /\ restored = FALSE /\ late = {}
    /\ replaced = FALSE /\ unsaved = FALSE /\ unfocused = FALSE

(***************************************************************************)
(* The page: Active restores a draft, Deactivating saves the field.        *)
(***************************************************************************)
\* A draft crosses with a later one, or with what is not saved yet.
Fill(words, crosses) ==
    /\ text' = words
    /\ restored' = (restored \/ words # text)
    /\ late' = late \cup (IF (crosses \/ unsaved) /\ words # text THEN {words} ELSE {})
    /\ unsaved' = (unsaved /\ words = text)

PushPage ==
    /\ page = "none"
    /\ page' = "behind"
    /\ restored' = FALSE /\ unsaved' = FALSE
    /\ UNCHANGED <<queue, text, focus, editing, replying, draft, tdDraft, requests, acts>>
    /\ UNCHANGED <<forEdit, sends, meantForEdit, mine, late, replaced, unfocused>>

PageActive ==
    /\ page = "behind"
    /\ page' = "active"
    /\ IF draft = Nothing THEN UNCHANGED <<text, restored, late, unsaved>> ELSE Fill(draft, ~Quiet)
    /\ replaced' = (replaced \/ (~Quiet /\ text' # mine))
    /\ UNCHANGED <<queue, focus, editing, replying, draft, tdDraft, requests, acts>>
    /\ UNCHANGED <<forEdit, sends, meantForEdit, mine, unfocused>>

Destroy ==
    /\ page' = "none" /\ text' = Nothing /\ focus' = FALSE
    /\ editing' = FALSE /\ replying' = FALSE /\ meantForEdit' = FALSE

\* Mutant of Cover: the field is not saved.
CoverUnsaved ==
    /\ page = "active"
    /\ page' = "behind" /\ unsaved' = FALSE
    /\ UNCHANGED <<queue, text, focus, editing, replying, draft, tdDraft, requests, acts>>
    /\ UNCHANGED <<forEdit, sends, meantForEdit, mine, restored, late, replaced, unfocused>>

Cover ==
    /\ page = "active"
    /\ page' = "behind" /\ Save(<<text>>) /\ unsaved' = FALSE
    /\ UNCHANGED <<queue, text, focus, editing, replying, draft, tdDraft, acts>>
    /\ UNCHANGED <<forEdit, sends, meantForEdit, mine, restored, late, replaced, unfocused>>

PopPage ==
    /\ \/ page = "active" /\ Save(<<text>>)
       \/ page = "behind" /\ UNCHANGED requests
    /\ Destroy
    /\ restored' = FALSE /\ unsaved' = FALSE
    /\ UNCHANGED <<queue, draft, tdDraft, acts, forEdit, sends, mine, late, replaced, unfocused>>

(***************************************************************************)
(* The field.  Losing the focus saves it.                                  *)
(***************************************************************************)
TakeFocus ==
    /\ page = "active" /\ ~focus
    /\ focus' = TRUE
    /\ UNCHANGED <<queue, page, text, editing, replying, draft, tdDraft, requests, acts, wordVars>>

LoseFocus ==
    /\ page = "active" /\ focus
    /\ focus' = FALSE /\ Save(<<text>>) /\ unsaved' = FALSE
    /\ UNCHANGED <<queue, page, text, editing, replying, draft, tdDraft, acts>>
    /\ UNCHANGED <<forEdit, sends, meantForEdit, mine, restored, late, replaced, unfocused>>

\* The user has the field hold words, to which the user is bound or not.
Written(words, own, edit) ==
    /\ text' = words /\ restored' = FALSE
    /\ mine' = own /\ replaced' = FALSE
    /\ forEdit' = forEdit \cup (IF edit THEN {words} ELSE {})
    /\ meantForEdit' = edit
    /\ UNCHANGED <<sends, late, unfocused>>

Type ==
    /\ page = "active" /\ focus /\ Act
    /\ Written(NewWords, NewWords, meantForEdit) /\ unsaved' = TRUE
    /\ UNCHANGED <<queue, page, focus, editing, replying, draft, tdDraft, requests>>

(***************************************************************************)
(* The menu of a message and the rows above the field.                     *)
(***************************************************************************)
Reply ==
    /\ page = "active"
    /\ editing' = FALSE /\ replying' = TRUE /\ focus' = TRUE
    /\ Save(SavedByReply(TRUE, text))
    /\ unsaved' = (unsaved /\ requests' = requests)
    /\ meantForEdit' = FALSE
    /\ UNCHANGED <<queue, page, text, draft, tdDraft, acts, forEdit, sends, mine, restored, late, replaced, unfocused>>

CancelReply ==
    /\ page = "active" /\ replying
    /\ replying' = FALSE
    /\ Save(SavedByReply(FALSE, text))
    /\ unsaved' = (unsaved /\ requests' = requests)
    /\ UNCHANGED <<queue, page, text, focus, editing, draft, tdDraft, acts>>
    /\ UNCHANGED <<forEdit, sends, meantForEdit, mine, restored, late, replaced, unfocused>>

Edit ==
    /\ page = "active" /\ Act
    /\ Written(NewWords, Nothing, TRUE)
    /\ focus' = TRUE /\ editing' = TRUE /\ replying' = FALSE
    /\ Save(SavedByReply(FALSE, NewWords))
    /\ unsaved' = (requests' = requests)
    /\ UNCHANGED <<queue, page, draft, tdDraft>>

CancelEdit ==
    /\ page = "active" /\ editing
    /\ editing' = FALSE
    /\ Written(Nothing, Nothing, FALSE) /\ unsaved' = TRUE
    /\ UNCHANGED <<queue, page, focus, replying, draft, tdDraft, requests, acts>>

(***************************************************************************)
(* sendMessage.  After a message the reply is reset, which may save the    *)
(* words once more; then the field is emptied, and it saves that if it had *)
(* the focus that it is made to lose.  editMessage does nothing when the   *)
(* message is not there any more.                                          *)
(***************************************************************************)
\* Mutant of EndOfEdit: newEditMessageId keeps its value.
EndOfEditForgotten == editing' = editing /\ meantForEdit' = FALSE

EndOfEdit == editing' = FALSE /\ meantForEdit' = FALSE

\* Mutant of SavedBySend: losing the focus saves nothing.
SavedBySendOnlyReply == IF editing THEN <<>> ELSE SavedByReply(FALSE, text)

SavedBySend ==
    (IF editing THEN <<>> ELSE SavedByReply(FALSE, text)) \o (IF focus THEN <<Nothing>> ELSE <<>>)

ThisSend == [words |-> text, restored |-> restored, edit |-> editing, again |-> \E s \in sends : s.words = text]

Sent ==
    /\ sends' = sends \cup {ThisSend}
    /\ mine' = IF text = mine THEN Nothing ELSE mine
    /\ UNCHANGED replaced

EditMessage == Sent \/ (replaced' = TRUE /\ UNCHANGED <<sends, mine>>)

SendMessage ==
    /\ page = "active" /\ text # Nothing
    /\ IF editing THEN EditMessage ELSE Sent
    /\ Save(SavedBySend)
    /\ EndOfEdit
    /\ replying' = (replying /\ editing)
    /\ text' = Nothing /\ focus' = TRUE
    /\ restored' = FALSE /\ unsaved' = FALSE
    /\ unfocused' = (unfocused \/ ~focus)
    /\ UNCHANGED <<queue, page, draft, tdDraft, acts, forEdit, late>>

(***************************************************************************)
(* ChatList::updateChatDraftMessage: the draft is stored, and a page that  *)
(* is there puts it into the field, whatever the field holds.              *)
(***************************************************************************)
UpdateChatDraftMessage ==
    /\ Received("draft")
    /\ draft' = Head(queue).words
    /\ IF page = "none" THEN UNCHANGED <<text, restored, late, unsaved>>
                        ELSE Fill(draft', requests # <<>> \/ queue' # <<>>)
    /\ replaced' = (replaced \/ (text' # text /\ text' \in late'))
    /\ UNCHANGED <<page, focus, editing, replying, tdDraft, requests, acts>>
    /\ UNCHANGED <<forEdit, sends, meantForEdit, mine, unfocused>>

(***************************************************************************)
(* draftMessageChanged without a report: the page that is there puts the   *)
(* draft Chat has, or that there is none, into the field.  Chat emits it   *)
(* of the emojis of a message that it does not have (any more), the draft  *)
(* being one, and of a file with an emoji of this or an earlier draft.     *)
(* Such an answer may come at any time: the messages are not modelled.     *)
(***************************************************************************)
DraftMessageChanged ==
    /\ page # "none"
    /\ Fill(draft, ~Quiet)
    /\ replaced' = (replaced \/ (text' # text /\ (unsaved \/ ~Quiet)))
    /\ UNCHANGED <<queue, page, focus, editing, replying, draft, tdDraft, requests, acts>>
    /\ UNCHANGED <<forEdit, sends, meantForEdit, mine, unfocused>>

OnCustomEmojiUpdated == DraftMessageChanged

OnDraftMessageEmojisChanged == DraftMessageChanged

(***************************************************************************)
(* TDLib reports a draft that is new, and may report one with the same     *)
(* words again: another reply or date makes another draft.                 *)
(***************************************************************************)
HandleSetChatDraftMessage ==
    /\ requests # <<>>
    /\ requests' = Tail(requests)
    /\ tdDraft' = Head(requests)
    /\ \/ tdDraft' = tdDraft /\ UNCHANGED queue
       \/ Post([type |-> "draft", words |-> tdDraft'])
    /\ UNCHANGED <<fieldVars, draft, acts, wordVars>>

OtherDevice ==
    /\ Act
    /\ tdDraft' \in {NewWords, Nothing} \ {tdDraft}
    /\ Post([type |-> "draft", words |-> tdDraft'])
    /\ mine' = Nothing
    /\ UNCHANGED <<fieldVars, draft, requests>>
    /\ UNCHANGED <<forEdit, sends, meantForEdit, restored, late, replaced, unsaved, unfocused>>

ComposerNext ==
    \/ PushPage \/ PageActive \/ Cover \/ PopPage
    \/ TakeFocus \/ LoseFocus \/ Type
    \/ Reply \/ CancelReply \/ Edit \/ CancelEdit \/ SendMessage
    \/ UpdateChatDraftMessage
    \/ OnCustomEmojiUpdated \/ OnDraftMessageEmojisChanged
    \/ HandleSetChatDraftMessage \/ OtherDevice

ComposerSpec == ComposerInit /\ [][ComposerNext]_composerVars

(***************************************************************************)
(* Once everything is handled, the field of the page in front, Chat and    *)
(* TDLib have the same draft, unless the user has written since the field  *)
(* was saved: however saves, reports, other devices and page changes       *)
(* crossed.  Excepted is a message sent from a field without the focus,    *)
(* for which nothing removes the draft (Chat.qml:1193-1195).               *)
(***************************************************************************)
DraftsAgree ==
    Quiet =>
        /\ draft = tdDraft
        /\ page = "active" /\ ~unsaved => text = draft \/ unfocused

(***************************************************************************)
(* What the user wrote is in the field or on its way to TDLib's draft,     *)
(* until it is sent or the user drops it, whatever page comes in front.    *)
(* Excepted are words in whose place the field was given an older draft,   *)
(* before they were saved or before Chat had them as its draft: by a       *)
(* report or a new page (Chat.qml:83, 133), or by emojis that came         *)
(* (chat.cpp:2378, 2408); and an edit of a message that is gone            *)
(* (chat.cpp:1665).                                                        *)
(***************************************************************************)
NothingIsLost ==
    \/ mine \in {Nothing, text, tdDraft} \cup {requests[i] : i \in DOMAIN requests}
    \/ replaced

(***************************************************************************)
(* What is sent is sent once, and as what the user meant it: as the edit   *)
(* of a message or as a message.  That holds for all that the user wrote   *)
(* into the field, but for an edit that a reply was chosen for             *)
(* (MessageContextMenu.qml:70), and for a draft that came back in time,    *)
(* but for one that was left by an edit, one that came into an edit, and   *)
(* one of a message that was sent without the focus.                       *)
(***************************************************************************)
WordsGoWhereMeant ==
    \A s \in sends :
        \/ ~s.again /\ (s.edit <=> s.words \in forEdit)
        \/ s.words \in forEdit /\ ~s.edit
        \/ s.restored /\ (s.edit \/ unfocused)
        \/ s.words \in late
=============================================================================
