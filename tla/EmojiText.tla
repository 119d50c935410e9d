----------------------------- MODULE EmojiText -----------------------------
(***************************************************************************)
(* Custom emojis in the text of messages: class Message (message.cpp)      *)
(* formats its text with what CustomEmojis (customemojis.cpp) and Files    *)
(* know, asks for what they do not, and formats again when something is    *)
(* said to have changed.                                                   *)
(*                                                                         *)
(* Three things have to come before an emoji is an image: the answer to    *)
(* getCustomEmojiStickers, the file of the sticker, and the file of the    *)
(* thumbnail.  The text shows the thumbnail; the message listens to the    *)
(* sticker.                                                                *)
(***************************************************************************)
EXTENDS Files

CONSTANTS
    Emojis,       \* custom emojis; each has a sticker and a thumbnail
    Messages,     \* messages of one chat
    MaxQueries    \* bound: getCustomEmojiStickers under way

VARIABLES
    ids,          \* the id under which Chat::_messages has each message
    text,         \* Message::_text: the custom emojis in the text of each message
    shown,        \* Message::_formattedMessage: path of the image of each emoji, or ""
    emojis,       \* CustomEmojis::_customEmojis
    connected,    \* <<message, emoji>>: connected to localPathChanged of the sticker
    timers,       \* messages whose _reformatTimer runs
    queries,      \* external: getCustomEmojiStickers that TDLib has not answered
    picker,       \* has the emoji picker asked for the set of the emojis
    missed        \* history: <<message, emoji>> whose news the message is not told

textVars == <<ids, text, shown, emojis, connected, timers, queries, picker, missed>>
vars == <<filesVars, textVars>>

Ids == {"temporary", "final"}
InChat(m) == ids[m] # "none"

Sticker(e) == <<"sticker", e>>
Thumbnail(e) == <<"thumbnail", e>>
EmojiFiles(es) == {Sticker(e) : e \in es} \cup {Thumbnail(e) : e \in es}
FilesOfEmojis == EmojiFiles(Emojis)

\* Both files of every emoji are fetched as soon as they are known.
ASSUME EmojiFilesAssumption == FilesOfEmojis \subseteq Fetched

StickerPath(e) == IF e \in emojis THEN LocalPath(files[Sticker(e)]) ELSE ""

\* What TextEntityProcessor puts into the text for an emoji: the thumbnail.
Image(e) == IF e \in emojis THEN LocalPath(files[Thumbnail(e)]) ELSE ""

(***************************************************************************)
(* formatTextAsHTML of message m, filed under id, with the emojis t: the   *)
(* unknown ones are asked for; a known one whose sticker has no path is    *)
(* listened to.                                                            *)
(***************************************************************************)
\* Mutant of Format: a known emoji without a file is shown as text and forgotten.
FormatUnheard(m, id, t) ==
    /\ queries' = IF t \subseteq emojis THEN queries
                  ELSE Append(queries, [msg |-> m, id |-> id, emojis |-> t \ emojis])
    /\ shown' = [shown EXCEPT ![m] = [e \in Emojis |-> IF e \in t THEN Image(e) ELSE ""]]
    /\ missed' = (missed \ ({m} \X Emojis))
                    \cup {<<m, e>> : e \in {d \in t : StickerPath(d) # "" /\ Image(d) = ""}}
    /\ UNCHANGED connected

Format(m, id, t) ==
    /\ queries' = IF t \subseteq emojis THEN queries
                  ELSE Append(queries, [msg |-> m, id |-> id, emojis |-> t \ emojis])
    /\ connected' = connected \cup {<<m, e>> : e \in {d \in t \cap emojis : StickerPath(d) = ""}}
    /\ shown' = [shown EXCEPT ![m] = [e \in Emojis |-> IF e \in t THEN Image(e) ELSE ""]]
    /\ missed' = (missed \ ({m} \X Emojis))
                    \cup {<<m, e>> : e \in {d \in t : StickerPath(d) # "" /\ Image(d) = ""}}

CanAsk == Len(queries) < MaxQueries

\* Chat::newMessage, Message::handleMessageContent: a text message comes.
NewMessage(m, id, t) ==
    /\ ~InChat(m) /\ CanAsk
    /\ ids' = [ids EXCEPT ![m] = id]
    /\ text' = [text EXCEPT ![m] = t]
    /\ Format(m, id, t)
    /\ UNCHANGED <<filesVars, emojis, timers, picker>>

UpdateMessageContent(m, t) ==
    /\ InChat(m) /\ CanAsk
    /\ Incident
    /\ text' = [text EXCEPT ![m] = t]
    /\ Format(m, ids[m], t)
    /\ UNCHANGED <<fileState, ids, emojis, timers, picker>>

OnReformatMessage(m) ==
    /\ m \in timers /\ CanAsk
    /\ timers' = timers \ {m}
    /\ Format(m, ids[m], text[m])
    /\ UNCHANGED <<filesVars, ids, text, emojis, picker>>

\* The message is sent: Chat::onMessageIdChanged files it under its new id.
OnMessageIdChanged(m) ==
    /\ Incident
    /\ ids[m] = "temporary"
    /\ ids' = [ids EXCEPT ![m] = "final"]
    /\ UNCHANGED <<fileState, text, shown, emojis, connected, timers, queries, picker, missed>>

(***************************************************************************)
(* onEntityLocalPathChanged starts the timer of every message that listens *)
(* to a sticker whose path has changed.  Nobody listens to the thumbnail:  *)
(* its news are missed by a message that does not wait for the sticker.    *)
(***************************************************************************)
WaitsForSticker(m, e) == <<m, e>> \in connected /\ StickerPath(e) = ""

OnEntityLocalPathChanged(moved) ==
    {m \in Messages : \E e \in Emojis : <<m, e>> \in connected /\ Sticker(e) \in moved}

InText == UNION {{m} \X text[m] : m \in Messages}

ThumbnailsMissed(moved) == {p \in InText : Thumbnail(p[2]) \in moved /\ ~WaitsForSticker(p[1], p[2])}

OnFileUpdated ==
    /\ Received("file")
    /\ LET copies == Head(queue).copies
           f == CHOOSE g \in DOMAIN copies : TRUE
       IN  IF Known(f)
           THEN /\ UpdateFile(f, copies[f], {})
                /\ timers' = timers \cup OnEntityLocalPathChanged(PathChanges(copies))
                /\ missed' = missed \cup ThumbnailsMissed(PathChanges(copies))
           ELSE UNCHANGED <<files, asked, timers, missed>>
    /\ UNCHANGED <<tdFiles, incidents, failed, ids, text, shown, emojis, connected, queries, picker>>

(***************************************************************************)
(* onGotCustomEmojiStickers stores the emojis that are new and tells the   *)
(* message of these, and only by the id the query was sent with.           *)
(* Message::updateCustomEmojis (below: told) listens to their stickers and *)
(* starts the timer when one has a path already.                           *)
(***************************************************************************)
New(answer) == answer.emojis \ emojis

\* Mutant of Told: a message that is being sent is not told.
ToldWhenSent(answer) ==
    IF ids[answer.msg] = answer.id /\ answer.id = "final" THEN New(answer) \cap text[answer.msg] ELSE {}

Told(answer) == IF ids[answer.msg] = answer.id THEN New(answer) \cap text[answer.msg] ELSE {}

\* The messages, other than the one that asked, that show an emoji as text.
Untold(es, answer) ==
    {p \in InText : p[2] \in es /\ (p[1] # answer.msg \/ ids[p[1]] # answer.id)}

OnGotCustomEmojiStickers ==
    /\ Received("stickers")
    /\ LET answer == Head(queue)
           copies == [f \in EmojiFiles(New(answer)) |-> answer.copies[f]]
       IN  /\ emojis' = emojis \cup New(answer)
           /\ AppendFiles(copies, {})
           /\ connected' = connected \cup {<<answer.msg, e>> : e \in Told(answer)}
           /\ timers' = timers \cup {m \in {answer.msg} : \E e \in Told(answer) : LocalPath(copies[Sticker(e)]) # ""}
           /\ missed' = missed \cup Untold(New(answer), answer)
    /\ UNCHANGED <<tdFiles, incidents, failed, ids, text, shown, queries, picker>>

(***************************************************************************)
(* StickerSets::onGotStickerSet, StickerSet::setStickerSet: CustomEmojis   *)
(* learns every emoji of the picker's set, and no message is told.         *)
(***************************************************************************)
OnGotStickerSet ==
    /\ Received("set")
    /\ LET moved == PathChanges(Head(queue).copies)
       IN  /\ timers' = timers \cup OnEntityLocalPathChanged(moved)
           /\ missed' = missed \cup ThumbnailsMissed(moved) \cup (InText \ (Messages \X emojis))
    /\ emojis' = Emojis
    /\ AppendFiles(Head(queue).copies, {})
    /\ UNCHANGED <<tdFiles, incidents, failed, ids, text, shown, connected, queries, picker>>

(***************************************************************************)
(* TDLib answers queries in any order, or with an error, which reaches     *)
(* nobody.  The user opens the emoji picker.                               *)
(***************************************************************************)
AnswerQuery(i) ==
    /\ queries' = RemoveAt(queries, i)
    /\ Post([type |-> "stickers", msg |-> queries[i].msg, id |-> queries[i].id,
             emojis |-> queries[i].emojis, copies |-> CopyOf(EmojiFiles(queries[i].emojis))])
    /\ UNCHANGED <<files, tdFiles, asked, incidents, failed,
                   ids, text, shown, emojis, connected, timers, picker, missed>>

RefuseQuery(i) ==
    /\ Incident /\ failed' = TRUE
    /\ queries' = RemoveAt(queries, i)
    /\ missed' = missed \cup ({queries[i].msg} \X queries[i].emojis)
    /\ UNCHANGED <<queue, files, tdFiles, asked,
                   ids, text, shown, emojis, connected, timers, picker>>

OpenPicker ==
    /\ ~picker /\ picker' = TRUE
    /\ Post([type |-> "set", copies |-> CopyOf(FilesOfEmojis)])
    /\ UNCHANGED <<files, tdFiles, asked, incidents, failed,
                   ids, text, shown, emojis, connected, timers, queries, missed>>

Init ==
    /\ FilesInit
    /\ ids = [m \in Messages |-> "none"]
    /\ text = [m \in Messages |-> {}]
    /\ shown = [m \in Messages |-> [e \in Emojis |-> ""]]
    /\ emojis = {}
    /\ connected = {}
    /\ timers = {}
    /\ queries = <<>>
    /\ picker = FALSE
    /\ missed = {}

Disk == \E f \in File : ShowProgress(f) \/ FailDownload(f) \/ RemoveFile(f)

Texts ==
    \E m \in Messages :
        \/ \E id \in Ids, t \in SUBSET Emojis : NewMessage(m, id, t)
        \/ \E t \in SUBSET Emojis : UpdateMessageContent(m, t)
        \/ OnMessageIdChanged(m)

HandleObject == OnFileUpdated \/ OnGotCustomEmojiStickers \/ OnGotStickerSet
Answer == \E i \in DOMAIN queries : AnswerQuery(i)
Refuse == \E i \in DOMAIN queries : RefuseQuery(i)
HandleDownload(f) == HandleRequest(f) /\ UNCHANGED textVars
FinishDownload(f) == Complete(f) /\ UNCHANGED textVars

Next ==
    \/ Disk /\ UNCHANGED textVars
    \/ \E f \in File : HandleDownload(f) \/ FinishDownload(f)
    \/ Texts
    \/ \E m \in Messages : OnReformatMessage(m)
    \/ HandleObject
    \/ Answer
    \/ Refuse
    \/ OpenPicker

(***************************************************************************)
(* The event loop handles what is queued, single-shot timers fire, TDLib   *)
(* answers and handles requests, and a download comes to its end.          *)
(***************************************************************************)
Fairness ==
    /\ WF_vars(HandleObject)
    /\ WF_vars(Answer)
    /\ \A m \in Messages : WF_vars(OnReformatMessage(m))
    /\ \A f \in File : WF_vars(HandleDownload(f)) /\ WF_vars(FinishDownload(f))

Spec == Init /\ [][Next]_vars /\ Fairness

(***************************************************************************)
(* An emoji in the text of a message is the present image, or the message  *)
(* will be formatted again: its query or the answer is under way, it       *)
(* listens to a sticker that has no path yet, or its timer runs.  Excepted *)
(* is what no signal tells the message (missed):                           *)
(*   - another message's answer, or the picker's set, brought the emoji,   *)
(*     so that the answer to its own query is skipped (customemojis.cpp:53);*)
(*   - it was sent while the query was under way, and the answer names its *)
(*     old id (chat.cpp:2375);                                             *)
(*   - the thumbnail's path changes after the sticker's (message.cpp:806); *)
(*   - the query failed.                                                   *)
(***************************************************************************)
Current(m, e) == e \in emojis /\ shown[m][e] = Image(e) /\ Image(e) # ""

Asks(q, m, e) == q.msg = m /\ e \in q.emojis
AnswerIsComing(m, e) ==
    \/ \E i \in DOMAIN queries : Asks(queries[i], m, e)
    \/ \E event \in OnTheirWay : event.type = "stickers" /\ Asks(event, m, e)

EmojisAreCurrentOrAwaited ==
    \A m \in Messages : \A e \in text[m] :
        \/ Current(m, e)
        \/ e \notin emojis /\ AnswerIsComing(m, e)
        \/ WaitsForSticker(m, e)
        \/ m \in timers
        \/ <<m, e>> \in missed

(***************************************************************************)
(* An emoji that stays in the text of a message becomes an image, with the *)
(* same exceptions, and unless a download fails.                           *)
(***************************************************************************)
EmojisAppear ==
    \A m \in Messages, e \in Emojis :
        e \in text[m] ~> e \notin text[m] \/ Current(m, e) \/ <<m, e>> \in missed \/ failed
=============================================================================
