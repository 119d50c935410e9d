-------------------------- MODULE EmojiTextProofs --------------------------
(***************************************************************************)
(* Theorems about EmojiText, for any files, emojis, messages and bounds:   *)
(* what the program knows of a file never falls behind TDLib for good, and *)
(* neither does what a message shows, but in the ways that tell nobody.    *)
(***************************************************************************)
EXTENDS EmojiText, SequencesExt, SequenceTheorems, TLAPS

(***************************************************************************)
(* The queue is a sequence; what Post and Received do to it.               *)
(***************************************************************************)
IsSequence(q) == \E S : q \in Seq(S)

LEMMA PostedLast ==
  ASSUME IsSequence(queue), NEW event, Post(event)
  PROVE  /\ IsSequence(queue')
         /\ Len(queue) \in Nat /\ Len(queue') = Len(queue) + 1
         /\ queue'[Len(queue) + 1] = event
         /\ \A i \in 1 .. Len(queue) : queue'[i] = queue[i]
<1>1. PICK S : queue \in Seq(S)
  BY DEF IsSequence
<1>2. queue \in Seq(S \cup {event}) /\ event \in S \cup {event} /\ queue' = Append(queue, event)
  BY <1>1 DEF Post
<1>3. queue' \in Seq(S \cup {event})
  BY <1>2
<1> QED
  BY <1>2, <1>3 DEF IsSequence

LEMMA ReceivedFirst ==
  ASSUME IsSequence(queue), NEW type, Received(type)
  PROVE  /\ IsSequence(queue')
         /\ Len(queue) \in Nat /\ Len(queue) >= 1 /\ Len(queue') = Len(queue) - 1
         /\ Head(queue) = queue[1] /\ queue[1].type = type
         /\ \A i \in 1 .. Len(queue') : queue'[i] = queue[i + 1]
         /\ \A j \in 2 .. Len(queue) : j - 1 \in 1 .. Len(queue') /\ queue'[j - 1] = queue[j]
<1>1. PICK S : queue \in Seq(S)
  BY DEF IsSequence
<1>2. queue # <<>> /\ queue' = Tail(queue) /\ Head(queue).type = type
  BY DEF Received
<1>3. queue' \in Seq(S)
  BY <1>1, <1>2
<1> QED
  BY <1>1, <1>2, <1>3 DEF IsSequence

\* What is left when one element is taken out of a sequence.
LEMMA Without ==
  ASSUME NEW S, NEW s \in Seq(S), NEW i \in DOMAIN s
  PROVE  /\ RemoveAt(s, i) \in Seq(S) /\ Len(RemoveAt(s, i)) = Len(s) - 1
         /\ \A j \in DOMAIN RemoveAt(s, i) :
               IF j < i THEN j \in DOMAIN s /\ RemoveAt(s, i)[j] = s[j]
               ELSE j + 1 \in DOMAIN s /\ RemoveAt(s, i)[j] = s[j + 1]
         /\ \A k \in DOMAIN s \ {i} : \E j \in DOMAIN RemoveAt(s, i) : RemoveAt(s, i)[j] = s[k]
<1>1. Len(s) \in Nat /\ DOMAIN s = 1 .. Len(s) /\ i \in 1 .. Len(s)
  BY LenProperties
<1> DEFINE a == SubSeq(s, 1, i - 1)
           b == SubSeq(s, i + 1, Len(s))
<1>2. a \in Seq(S) /\ Len(a) = i - 1 /\ \A j \in 1 .. i - 1 : a[j] = s[j]
  BY <1>1, SubSeqProperties
<1>3. b \in Seq(S) /\ Len(b) = Len(s) - i /\ \A j \in 1 .. Len(s) - i : b[j] = s[j + i]
  BY <1>1, SubSeqProperties
<1> HIDE DEF a, b
<1>4. /\ a \o b \in Seq(S) /\ Len(a \o b) = Len(a) + Len(b)
      /\ \A j \in 1 .. Len(a) + Len(b) : (a \o b)[j] = IF j <= Len(a) THEN a[j] ELSE b[j - Len(a)]
  BY <1>2, <1>3, ConcatProperties
<1>5. RemoveAt(s, i) = a \o b
  BY DEF RemoveAt, a, b
<1> DEFINE r == RemoveAt(s, i)
<1>6. r \in Seq(S) /\ Len(r) = Len(s) - 1 /\ DOMAIN r = 1 .. Len(s) - 1
  <2>1. r \in Seq(S) /\ Len(r) = Len(a) + Len(b)
    BY <1>4, <1>5
  <2>2. DOMAIN r = 1 .. Len(r)
    BY <2>1, LenProperties
  <2> QED
    BY <1>1, <1>2, <1>3, <2>1, <2>2
<1>7. ASSUME NEW j \in 1 .. Len(s) - 1
      PROVE  r[j] = IF j < i THEN s[j] ELSE s[j + 1]
  <2>1. r[j] = IF j <= i - 1 THEN a[j] ELSE b[j - (i - 1)]
    BY <1>1, <1>2, <1>3, <1>4, <1>5
  <2>2. CASE j < i
    BY <1>1, <1>2, <2>1, <2>2
  <2>3. CASE j >= i
    <3>1. j - (i - 1) \in 1 .. Len(s) - i /\ (j - (i - 1)) + i = j + 1 /\ ~(j <= i - 1)
      BY <1>1, <2>3
    <3> QED
      BY <1>1, <1>3, <2>1, <2>3, <3>1
  <2> QED
    BY <1>1, <2>2, <2>3
<1> HIDE DEF r
<1>8. ASSUME NEW k \in DOMAIN s \ {i}
      PROVE  \E j \in DOMAIN r : r[j] = s[k]
  <2>1. CASE k < i
    BY <1>1, <1>6, <1>7, <2>1
  <2>2. CASE k > i
    <3>1. k - 1 \in 1 .. Len(s) - 1 /\ ~(k - 1 < i) /\ (k - 1) + 1 = k
      BY <1>1, <2>2
    <3> QED
      BY <1>6, <1>7, <3>1
  <2> QED
    BY <1>1, <2>1, <2>2
<1>9. \A j \in DOMAIN r : IF j < i THEN j \in DOMAIN s /\ r[j] = s[j]
                          ELSE j + 1 \in DOMAIN s /\ r[j] = s[j + 1]
  BY <1>1, <1>6, <1>7
<1> QED
  BY <1>6, <1>8, <1>9 DEF r

-----------------------------------------------------------------------------
(***************************************************************************)
(* The invariant.  An object may hold an old copy of a file, or be skipped *)
(* as known; so that neither harms, each change of a file is told by an    *)
(* updateFile of its own, behind every object with a copy from before the  *)
(* change (CopiesHold), and an object alone never is what a known file     *)
(* waits for (FilesHold).                                                  *)
(***************************************************************************)
Tells(event, f) == event.type = "file" /\ f \in DOMAIN event.copies

Shape(event) ==
    /\ "copies" \in DOMAIN event
    /\ event.type = "file" => \E f : DOMAIN event.copies = {f}
    /\ event.type = "stickers" => DOMAIN event.copies = EmojiFiles(event.emojis)

Shapes ==
    /\ IsSequence(queue)
    /\ \A i \in 1 .. Len(queue) : Shape(queue[i])
    /\ File \subseteq DOMAIN files /\ File \subseteq DOMAIN tdFiles

FilesHold ==
    \A f \in File : Known(f) =>
        files[f] = tdFiles[f] \/ \E i \in 1 .. Len(queue) : Tells(queue[i], f)

CopiesHold ==
    \A i \in 1 .. Len(queue), f \in File : f \in DOMAIN queue[i].copies =>
        \/ queue[i].copies[f] = tdFiles[f]
        \/ \E j \in 1 .. Len(queue) : j > i /\ Tells(queue[j], f)

FilesInv == Shapes /\ FilesHold /\ CopiesHold

(***************************************************************************)
(* TDLib: an updateFile with the change, or an object with what there is.  *)
(***************************************************************************)
LEMMA ObjectPosted ==
  ASSUME FilesInv, UNCHANGED <<files, tdFiles>>, NEW event, Shape(event), Post(event),
         \A f \in File \cap DOMAIN event.copies : event.copies[f] = tdFiles[f]
  PROVE  FilesInv'
<1> USE DEF FilesInv
<1>1. /\ IsSequence(queue') /\ Len(queue) \in Nat /\ Len(queue') = Len(queue) + 1
      /\ queue'[Len(queue) + 1] = event
      /\ \A i \in 1 .. Len(queue) : queue'[i] = queue[i]
  BY PostedLast DEF Shapes
<1>2. Shapes'
  BY <1>1 DEF Shapes
<1>3. FilesHold'
  BY <1>1 DEF FilesHold, Known
<1>4. CopiesHold'
  BY <1>1 DEF CopiesHold
<1> QED
  BY <1>2, <1>3, <1>4

LEMMA FileMoved ==
  ASSUME FilesInv, NEW f \in File, NEW st, MoveFile(f, st)
  PROVE  FilesInv'
<1> USE DEF FilesInv
<1> DEFINE event == [type |-> "file", copies |-> [g \in {f} |-> st]]
<1>1. Post(event) /\ files' = files /\ tdFiles' = [tdFiles EXCEPT ![f] = st]
  BY DEF MoveFile
<1>2. /\ "copies" \in DOMAIN event /\ event.type = "file"
      /\ DOMAIN event.copies = {f} /\ event.copies[f] = st
  OBVIOUS
<1> HIDE DEF event
<1>3. /\ IsSequence(queue') /\ Len(queue) \in Nat /\ Len(queue') = Len(queue) + 1
      /\ queue'[Len(queue) + 1] = event
      /\ \A i \in 1 .. Len(queue) : queue'[i] = queue[i]
  BY <1>1, PostedLast DEF Shapes
<1>4. Tells(queue'[Len(queue) + 1], f)
  BY <1>2, <1>3 DEF Tells
<1>5. tdFiles'[f] = st /\ \A g \in File : g # f => tdFiles'[g] = tdFiles[g]
  BY <1>1 DEF Shapes
<1>6. Shapes'
  <2>1. Shape(event)
    BY <1>2 DEF Shape
  <2>2. \A i \in 1 .. Len(queue') : Shape(queue'[i])
    BY <2>1, <1>3 DEF Shapes
  <2> QED
    BY <2>2, <1>1, <1>3 DEF Shapes
<1>7. FilesHold'
  BY <1>1, <1>3, <1>4, <1>5 DEF FilesHold, Known
<1>8. CopiesHold'
  <2> SUFFICES ASSUME NEW i \in 1 .. Len(queue'), NEW g \in File, g \in DOMAIN queue'[i].copies
               PROVE  \/ queue'[i].copies[g] = tdFiles'[g]
                      \/ \E j \in 1 .. Len(queue') : j > i /\ Tells(queue'[j], g)
    BY DEF CopiesHold
  <2>1. CASE i = Len(queue) + 1
    BY <2>1, <1>2, <1>3, <1>5
  <2>2. CASE i \in 1 .. Len(queue) /\ g = f
    BY <2>2, <1>3, <1>4
  <2>3. CASE i \in 1 .. Len(queue) /\ g # f
    BY <2>3, <1>3, <1>5 DEF CopiesHold
  <2> QED
    BY <2>1, <2>2, <2>3, <1>3
<1> QED
  BY <1>6, <1>7, <1>8

(***************************************************************************)
(* The program: copies of the object are taken, or skipped.                *)
(***************************************************************************)
LEMMA ObjectHandled ==
  ASSUME FilesInv, tdFiles' = tdFiles, NEW type, Received(type), NEW taken \in SUBSET File,
         taken \subseteq DOMAIN queue[1].copies,
         type = "file" => \A f \in File \cap DOMAIN queue[1].copies : f \in taken \/ ~Known(f),
         File \subseteq DOMAIN files',
         \A f \in File : files'[f] = IF f \in taken THEN queue[1].copies[f] ELSE files[f]
  PROVE  FilesInv'
<1> USE DEF FilesInv
<1>1. /\ IsSequence(queue') /\ Len(queue) \in Nat /\ Len(queue) >= 1 /\ Len(queue') = Len(queue) - 1
      /\ queue[1].type = type
      /\ \A i \in 1 .. Len(queue') : queue'[i] = queue[i + 1] /\ i + 1 \in 1 .. Len(queue)
      /\ \A j \in 2 .. Len(queue) : j - 1 \in 1 .. Len(queue') /\ queue'[j - 1] = queue[j]
  BY ReceivedFirst DEF Shapes
<1>2. Shapes'
  BY <1>1 DEF Shapes
<1>3. FilesHold'
  <2> SUFFICES ASSUME NEW f \in File, files'[f] # "unknown", files'[f] # tdFiles[f]
               PROVE  \E i \in 1 .. Len(queue') : Tells(queue'[i], f)
    BY DEF FilesHold, Known
  <2>1. \E j \in 2 .. Len(queue) : Tells(queue[j], f)
    <3>1. CASE f \in taken
      BY <3>1, <1>1 DEF CopiesHold
    <3>2. CASE f \notin taken
      <4>1. \E j \in 1 .. Len(queue) : Tells(queue[j], f)
        BY <3>2 DEF FilesHold, Known
      <4>2. ~Tells(queue[1], f)
        BY <3>2, <1>1 DEF Tells, Known
      <4> QED
        BY <4>1, <4>2, <1>1
    <3> QED
      BY <3>1, <3>2
  <2> QED
    BY <2>1, <1>1
<1>4. CopiesHold'
  <2> SUFFICES ASSUME NEW i \in 1 .. Len(queue'), NEW f \in File, f \in DOMAIN queue'[i].copies,
                      queue'[i].copies[f] # tdFiles'[f]
               PROVE  \E j \in 1 .. Len(queue') : j > i /\ Tells(queue'[j], f)
    BY DEF CopiesHold
  <2>1. PICK j \in 1 .. Len(queue) : j > i + 1 /\ Tells(queue[j], f)
    BY <1>1 DEF CopiesHold
  <2>2. j \in 2 .. Len(queue) /\ j - 1 > i
    BY <2>1, <1>1
  <2> QED
    BY <2>1, <2>2, <1>1
<1> QED
  BY <1>2, <1>3, <1>4

(***************************************************************************)
(* The handlers.                                                           *)
(***************************************************************************)
LEMMA Appended ==
  ASSUME Shapes, NEW copies, NEW permitted, AppendFiles(copies, permitted)
  PROVE  /\ File \subseteq DOMAIN files'
         /\ \A f \in File : files'[f] = IF f \in DOMAIN copies THEN copies[f] ELSE files[f]
BY DEF Shapes, AppendFiles

LEMMA HandlersKeep == FilesInv /\ HandleObject => FilesInv'
<1> SUFFICES ASSUME FilesInv, HandleObject PROVE FilesInv'
  OBVIOUS
<1> USE DEF FilesInv
<1>1. CASE OnFileUpdated
  <2>1. Received("file") /\ tdFiles' = tdFiles
    BY <1>1 DEF OnFileUpdated
  <2>2. Shape(queue[1]) /\ Head(queue) = queue[1] /\ queue[1].type = "file"
    BY <2>1, ReceivedFirst DEF Shapes
  <2>3. PICK f : DOMAIN queue[1].copies = {f}
    BY <2>2 DEF Shape
  <2>4. f = CHOOSE g \in DOMAIN Head(queue).copies : TRUE
    BY <2>2, <2>3
  <2>5. IF Known(f) THEN files' = [files EXCEPT ![f] = queue[1].copies[f]] ELSE files' = files
    BY <1>1, <2>2, <2>4 DEF OnFileUpdated, UpdateFile
  <2> DEFINE taken == {g \in File : g = f /\ Known(g)}
  <2>6. taken \in SUBSET File /\ taken \subseteq DOMAIN queue[1].copies
    BY <2>3
  <2>7. \A g \in File \cap DOMAIN queue[1].copies : g \in taken \/ ~Known(g)
    BY <2>3
  <2>8. File \subseteq DOMAIN files'
    BY <2>5 DEF Shapes
  <2>9. \A g \in File : files'[g] = IF g \in taken THEN queue[1].copies[g] ELSE files[g]
    BY <2>5 DEF Shapes
  <2> QED
    BY <2>1, <2>6, <2>7, <2>8, <2>9, ObjectHandled
<1>2. CASE OnGotCustomEmojiStickers
  <2>1. Received("stickers") /\ tdFiles' = tdFiles
    BY <1>2 DEF OnGotCustomEmojiStickers
  <2>2. Shape(queue[1]) /\ Head(queue) = queue[1] /\ queue[1].type = "stickers"
    BY <2>1, ReceivedFirst DEF Shapes
  <2> DEFINE copies == [f \in EmojiFiles(New(queue[1])) |-> queue[1].copies[f]]
             taken == File \cap EmojiFiles(New(queue[1]))
  <2>3. AppendFiles(copies, {})
    BY <1>2, <2>2 DEF OnGotCustomEmojiStickers
  <2>4. EmojiFiles(New(queue[1])) \subseteq DOMAIN queue[1].copies
    BY <2>2 DEF Shape, New, EmojiFiles
  <2>5. /\ File \subseteq DOMAIN files'
        /\ \A f \in File : files'[f] = IF f \in DOMAIN copies THEN copies[f] ELSE files[f]
    BY <2>3, Appended
  <2>6. \A f \in File : files'[f] = IF f \in taken THEN queue[1].copies[f] ELSE files[f]
    BY <2>5
  <2>7. taken \in SUBSET File /\ taken \subseteq DOMAIN queue[1].copies
    BY <2>4
  <2> HIDE DEF taken, copies
  <2> QED
    BY <2>1, <2>5, <2>6, <2>7, ObjectHandled
<1>3. CASE OnGotStickerSet
  <2>1. Received("set") /\ tdFiles' = tdFiles /\ AppendFiles(Head(queue).copies, {})
    BY <1>3 DEF OnGotStickerSet
  <2>2. Head(queue) = queue[1]
    BY <2>1, ReceivedFirst DEF Shapes
  <2> DEFINE taken == File \cap DOMAIN queue[1].copies
  <2>3. /\ File \subseteq DOMAIN files'
        /\ \A f \in File : files'[f] = IF f \in taken THEN queue[1].copies[f] ELSE files[f]
    BY <2>1, <2>2, Appended
  <2> QED
    BY <2>1, <2>3, ObjectHandled
<1> QED
  BY <1>1, <1>2, <1>3 DEF HandleObject

LEMMA NothingMoved == FilesInv /\ UNCHANGED <<queue, files, tdFiles>> => FilesInv'
BY DEF FilesInv, Shapes, FilesHold, CopiesHold, Known

LEMMA FilesInvKeeps == FilesInv /\ [Next]_vars => FilesInv'
<1> SUFFICES ASSUME FilesInv, [Next]_vars PROVE FilesInv'
  OBVIOUS
<1>1. ASSUME NEW f \in File, ShowProgress(f) \/ FailDownload(f) \/ RemoveFile(f) \/ FinishDownload(f)
      PROVE  FilesInv'
  BY <1>1, FileMoved DEF ShowProgress, FailDownload, RemoveFile, FinishDownload, Complete
<1>2. ASSUME NEW f \in File, HandleDownload(f) PROVE FilesInv'
  <2>1. HandleRequest(f)
    BY <1>2 DEF HandleDownload
  <2>2. \/ MoveFile(f, Started(tdFiles[f])) \/ MoveFile(f, Halted(tdFiles[f]))
        \/ UNCHANGED <<queue, files, tdFiles>>
    BY <2>1 DEF HandleRequest
  <2> QED
    BY <2>2, FileMoved, NothingMoved
<1>3. CASE Texts \/ Refuse \/ (\E m \in Messages : OnReformatMessage(m)) \/ UNCHANGED vars
  <2>1. UNCHANGED <<queue, files, tdFiles>>
    BY <1>3 DEF Texts, NewMessage, UpdateMessageContent, OnMessageIdChanged, Refuse, RefuseQuery,
                OnReformatMessage, vars, filesVars, fileState
  <2> QED
    BY <2>1, NothingMoved
<1>4. CASE HandleObject
  BY <1>4, HandlersKeep
<1>5. CASE Answer
  <2>1. PICK i \in DOMAIN queries : AnswerQuery(i)
    BY <1>5 DEF Answer
  <2> DEFINE fs == EmojiFiles(queries[i].emojis)
             event == [type |-> "stickers", msg |-> queries[i].msg, id |-> queries[i].id,
                       emojis |-> queries[i].emojis, copies |-> CopyOf(fs)]
  <2>2. Post(event) /\ UNCHANGED <<files, tdFiles>>
    BY <2>1 DEF AnswerQuery
  <2>3. Shape(event)
    BY DEF Shape, CopyOf
  <2>4. \A f \in File \cap DOMAIN event.copies : event.copies[f] = tdFiles[f]
    BY DEF CopyOf
  <2> HIDE DEF event
  <2> QED
    BY <2>2, <2>3, <2>4, ObjectPosted
<1>6. CASE OpenPicker
  <2> DEFINE event == [type |-> "set", copies |-> CopyOf(FilesOfEmojis)]
  <2>1. Post(event) /\ UNCHANGED <<files, tdFiles>>
    BY <1>6 DEF OpenPicker
  <2>2. Shape(event)
    BY DEF Shape
  <2>3. \A f \in File \cap DOMAIN event.copies : event.copies[f] = tdFiles[f]
    BY DEF CopyOf
  <2> HIDE DEF event
  <2> QED
    BY <2>1, <2>2, <2>3, ObjectPosted
<1> QED
  BY <1>1, <1>2, <1>3, <1>4, <1>5, <1>6 DEF Next, Disk

\* What FilesInv starts from.
LEMMA FilesBegin == Init => FilesInv
<1> SUFFICES ASSUME Init PROVE FilesInv
  OBVIOUS
<1>1. queue = <<>>
  BY DEF Init, FilesInit
<1>2. DOMAIN files = File /\ DOMAIN tdFiles = File /\ \A f \in File : ~Known(f)
  BY DEF Init, FilesInit, Known
<1>3. queue \in Seq({}) /\ Len(queue) = 0
  BY <1>1
<1> QED
  BY <1>1, <1>2, <1>3 DEF FilesInv, IsSequence, Shapes, FilesHold, CopiesHold

(***************************************************************************)
(* What the program knows of a file is what TDLib has, or an object that   *)
(* brings the rest is on its way (File::updateFile, Files::appendFile),    *)
(* although the stickers of an answer are skipped when their emojis are    *)
(* known already (customemojis.cpp:53).                                    *)
(***************************************************************************)
THEOREM FilesFollowTdlib == Spec => []FilesAgree
<1>1. FilesInv => FilesAgree
  <2> SUFFICES ASSUME FilesInv, NEW f \in File, NEW i \in 1 .. Len(queue), Tells(queue[i], f)
               PROVE  CopyIsComing(f)
    BY DEF FilesInv, FilesHold, FilesAgree
  <2>1. DOMAIN queue = 1 .. Len(queue) /\ "copies" \in DOMAIN queue[i]
    BY DEF FilesInv, Shapes, Shape, IsSequence
  <2> QED
    BY <2>1 DEF CopyIsComing, OnTheirWay, Tells
<1> QED
  BY <1>1, FilesBegin, FilesInvKeeps, PTL DEF Spec

(***************************************************************************)
(* The texts of messages.  Besides FilesInv it takes that the two files of *)
(* every known emoji are known (onGotCustomEmojiStickers and onGotSticker- *)
(* Set append them in the step that makes the emoji known): only then does *)
(* updateFile tell each change of their paths, and the message that shows  *)
(* the emoji or waits for its sticker hears of it.                         *)
(***************************************************************************)
\* A request for stickers, with the message and the number it had.
Query == [msg : Messages, id : {"none"} \cup Ids, emojis : SUBSET Emojis]

\* What queries, answers and copies hold.
Holds(event) ==
    /\ event.type = "stickers" => event.msg \in Messages /\ event.emojis \subseteq Emojis
    /\ event.type = "set" => DOMAIN event.copies = FilesOfEmojis
    /\ \A f \in DOMAIN event.copies : event.copies[f] \in States

TextsOK ==
    /\ queries \in Seq(Query)
    /\ \A i \in 1 .. Len(queue) : Holds(queue[i])
    /\ text \in [Messages -> SUBSET Emojis] /\ DOMAIN shown = Messages /\ emojis \subseteq Emojis
    /\ ids \in [Messages -> {"none"} \cup Ids]
    /\ tdFiles \in [File -> States]

\* The files of a known emoji are known, and only known emojis are listened to: an
\* object that brings the sticker's path is noticed.
EmojisKnown ==
    /\ \A e \in emojis : Known(Sticker(e)) /\ Known(Thumbnail(e))
    /\ connected \subseteq Messages \X emojis

TextsInv == TextsOK /\ EmojisKnown

\* The message shows the emoji, or will be formatted again, or is not told.
Heard(m, e) ==
    \/ Current(m, e)
    \/ e \notin emojis /\ AnswerIsComing(m, e)
    \/ WaitsForSticker(m, e)
    \/ m \in timers
    \/ <<m, e>> \in missed

\* Formatting a message asks for what is not known, and leaves what was asked for.
LEMMA FormatAsks ==
  ASSUME TextsOK, NEW m \in Messages, NEW id \in {"none"} \cup Ids, NEW t \in SUBSET Emojis, Format(m, id, t)
  PROVE  /\ queries' \in Seq(Query) /\ Len(queries) \in Nat
         /\ \A i \in DOMAIN queries : i \in DOMAIN queries' /\ queries'[i] = queries[i]
         /\ \A e \in t \ emojis : \E i \in DOMAIN queries' : Asks(queries'[i], m, e)
<1>1. PICK q \in Query : q = [msg |-> m, id |-> id, emojis |-> t \ emojis]
  BY DEF Query
<1>2. queries' = IF t \subseteq emojis THEN queries ELSE Append(queries, q)
  BY <1>1 DEF Format
<1>3. queries \in Seq(Query) /\ Len(queries) \in Nat /\ DOMAIN queries = 1 .. Len(queries)
  BY LenProperties DEF TextsOK
<1>4. CASE t \subseteq emojis
  BY <1>2, <1>3, <1>4
<1>5. CASE ~(t \subseteq emojis)
  <2>1. /\ queries' \in Seq(Query) /\ DOMAIN queries' = 1 .. Len(queries) + 1
        /\ queries'[Len(queries) + 1] = q /\ \A i \in 1 .. Len(queries) : queries'[i] = queries[i]
    BY <1>1, <1>2, <1>3, <1>5
  <2>2. \A e \in t \ emojis : Asks(q, m, e)
    BY <1>1 DEF Asks
  <2>3. Len(queries) + 1 \in DOMAIN queries'
    BY <1>3, <2>1
  <2> QED
    BY <1>3, <2>1, <2>2, <2>3
<1> QED
  BY <1>4, <1>5

\* Events that are posted are added to those under way; received ones are taken from them.
LEMMA UnderWay ==
  ASSUME IsSequence(queue)
  PROVE  /\ Len(queue) \in Nat /\ OnTheirWay = {queue[i] : i \in 1 .. Len(queue)}
         /\ \A event : Post(event) => OnTheirWay' = OnTheirWay \cup {event}
         /\ \A type : Received(type) => /\ Head(queue) = queue[1] /\ 1 \in 1 .. Len(queue)
                                        /\ queue[1].type = type /\ OnTheirWay' \subseteq OnTheirWay
                                        /\ OnTheirWay \ {queue[1]} \subseteq OnTheirWay'
<1>1. Len(queue) \in Nat /\ DOMAIN queue = 1 .. Len(queue)
  BY DEF IsSequence
<1>2. ASSUME NEW event, Post(event) PROVE OnTheirWay' = OnTheirWay \cup {event}
  <2>1. /\ IsSequence(queue') /\ Len(queue') = Len(queue) + 1 /\ queue'[Len(queue) + 1] = event
        /\ \A i \in 1 .. Len(queue) : queue'[i] = queue[i]
    BY <1>2, PostedLast
  <2>2. DOMAIN queue' = 1 .. Len(queue) + 1
    BY <1>1, <2>1 DEF IsSequence
  <2> QED
    BY <1>1, <2>1, <2>2 DEF OnTheirWay
<1>3. ASSUME NEW type, Received(type)
      PROVE  /\ Head(queue) = queue[1] /\ 1 \in 1 .. Len(queue)
             /\ queue[1].type = type /\ OnTheirWay' \subseteq OnTheirWay
             /\ OnTheirWay \ {queue[1]} \subseteq OnTheirWay'
  <2>1. /\ IsSequence(queue') /\ Len(queue) >= 1 /\ Len(queue') = Len(queue) - 1
        /\ Head(queue) = queue[1] /\ queue[1].type = type
        /\ \A i \in 1 .. Len(queue') : queue'[i] = queue[i + 1]
        /\ \A j \in 2 .. Len(queue) : j - 1 \in 1 .. Len(queue') /\ queue'[j - 1] = queue[j]
    BY <1>3, ReceivedFirst
  <2>2. DOMAIN queue' = 1 .. Len(queue')
    BY <2>1 DEF IsSequence
  <2>3. \A i \in 1 .. Len(queue') : i + 1 \in 1 .. Len(queue)
    BY <1>1, <2>1
  <2>4. \A i \in 1 .. Len(queue) : i = 1 \/ i \in 2 .. Len(queue)
    BY <1>1
  <2>5. /\ \A event : event \in OnTheirWay <=> \E i \in 1 .. Len(queue) : event = queue[i]
        /\ \A event : event \in OnTheirWay' <=> \E i \in 1 .. Len(queue') : event = queue'[i]
    BY <1>1, <2>2 DEF OnTheirWay
  <2>6. ASSUME NEW event \in OnTheirWay' PROVE event \in OnTheirWay
    BY <2>1, <2>3, <2>5, <2>6
  <2>7. ASSUME NEW event \in OnTheirWay, event # queue[1] PROVE event \in OnTheirWay'
    <3>1. PICK i \in 1 .. Len(queue) : event = queue[i]
      BY <2>5, <2>7
    <3>2. i - 1 \in 1 .. Len(queue') /\ queue'[i - 1] = event
      BY <2>1, <2>4, <2>7, <3>1
    <3> QED
      BY <2>5, <3>2
  <2> QED
    BY <1>1, <2>1, <2>6, <2>7
<1> QED
  BY <1>1, <1>2, <1>3 DEF OnTheirWay

\* What is heard of does not depend on the rest.
LEMMA StillHeard ==
  ASSUME NEW m \in Messages, NEW e \in Emojis, Heard(m, e),
         UNCHANGED <<files, emojis>>, shown'[m] = shown[m],
         connected \subseteq connected', m \in timers => m \in timers',
         <<m, e>> \in missed => <<m, e>> \in missed',
         AnswerIsComing(m, e) => AnswerIsComing(m, e)' \/ <<m, e>> \in missed'
  PROVE  Heard(m, e)'
<1>1. StickerPath(e)' = StickerPath(e) /\ Image(e)' = Image(e)
  BY DEF StickerPath, Image
<1> QED
  BY <1>1 DEF Heard, Current, WaitsForSticker

\* Whoever shows an emoji or waits for its sticker hears of its files.
LEMMA FilesAreHeard ==
  ASSUME NEW m \in Messages, NEW e \in Emojis, e \in text[m], e \in emojis, e \in emojis', Heard(m, e), EmojisKnown,
         NEW copies,
         \A f \in {Sticker(e), Thumbnail(e)} : files'[f] = IF f \in DOMAIN copies THEN copies[f] ELSE files[f],
         UNCHANGED shown, connected \subseteq connected',
         timers \cup OnEntityLocalPathChanged(PathChanges(copies)) \subseteq timers',
         missed \cup ThumbnailsMissed(PathChanges(copies)) \subseteq missed'
  PROVE  Heard(m, e)'
<1>1. /\ StickerPath(e) = LocalPath(files[Sticker(e)]) /\ Image(e) = LocalPath(files[Thumbnail(e)])
      /\ StickerPath(e)' = LocalPath(files'[Sticker(e)]) /\ Image(e)' = LocalPath(files'[Thumbnail(e)])
  BY DEF StickerPath, Image
<1>2. LocalPath(files'[Sticker(e)]) # LocalPath(files[Sticker(e)]) => Sticker(e) \in PathChanges(copies)
  BY DEF PathChanges, EmojisKnown
<1>3. LocalPath(files'[Thumbnail(e)]) # LocalPath(files[Thumbnail(e)]) => Thumbnail(e) \in PathChanges(copies)
  BY DEF PathChanges, EmojisKnown
<1>4. CASE WaitsForSticker(m, e)
  <2>1. CASE Sticker(e) \in PathChanges(copies)
    <3>1. m \in timers'
      BY <1>4, <2>1 DEF WaitsForSticker, OnEntityLocalPathChanged
    <3> QED
      BY <3>1 DEF Heard
  <2>2. CASE Sticker(e) \notin PathChanges(copies)
    <3>1. StickerPath(e)' = StickerPath(e)
      BY <1>1, <1>2, <2>2
    <3> QED
      BY <1>4, <3>1 DEF Heard, WaitsForSticker
  <2> QED
    BY <2>1, <2>2
<1>5. CASE Current(m, e) /\ ~WaitsForSticker(m, e)
  <2>1. CASE Thumbnail(e) \in PathChanges(copies)
    <3>1. <<m, e>> \in InText
      BY DEF InText
    <3>2. <<m, e>> \in ThumbnailsMissed(PathChanges(copies))
      BY <1>5, <2>1, <3>1 DEF ThumbnailsMissed
    <3> QED
      BY <3>2 DEF Heard
  <2>2. CASE Thumbnail(e) \notin PathChanges(copies)
    <3>1. Image(e)' = Image(e)
      BY <1>1, <1>3, <2>2
    <3> QED
      BY <1>5, <3>1 DEF Heard, Current
  <2> QED
    BY <2>1, <2>2
<1>6. CASE m \in timers \/ <<m, e>> \in missed
  BY <1>6 DEF Heard
<1> QED
  BY <1>4, <1>5, <1>6 DEF Heard

\* A message that is formatted hears of each emoji, and the others as before.
LEMMA FormattedIsHeard ==
  ASSUME TextsInv, NEW m \in Messages, NEW id \in {"none"} \cup Ids, NEW t \in SUBSET Emojis, Format(m, id, t),
         UNCHANGED <<queue, files, emojis>>, timers \ {m} \subseteq timers'
  PROVE  /\ \A e \in t : Heard(m, e)'
         /\ \A n \in Messages \ {m}, e \in Emojis : Heard(n, e) => Heard(n, e)'
<1>0. /\ \A i \in DOMAIN queries : i \in DOMAIN queries' /\ queries'[i] = queries[i]
      /\ \A e \in t \ emojis : \E i \in DOMAIN queries' : Asks(queries'[i], m, e)
  BY FormatAsks DEF TextsInv
<1>1. ASSUME NEW e \in t PROVE Heard(m, e)'
  <2>1. shown'[m][e] = Image(e)
    BY <1>1 DEF Format, TextsInv, TextsOK
  <2>2. StickerPath(e)' = StickerPath(e) /\ Image(e)' = Image(e)
    BY DEF StickerPath, Image
  <2>3. CASE e \notin emojis
    <3>1. PICK i \in DOMAIN queries' : Asks(queries'[i], m, e)
      BY <1>0, <1>1, <2>3
    <3>2. AnswerIsComing(m, e)'
      BY <3>1 DEF AnswerIsComing, Asks
    <3> QED
      BY <2>3, <3>2 DEF Heard
  <2>4. CASE e \in emojis /\ StickerPath(e) = ""
    <3>1. <<m, e>> \in connected'
      BY <1>1, <2>4 DEF Format
    <3> QED
      BY <2>2, <2>4, <3>1 DEF Heard, WaitsForSticker
  <2>5. CASE StickerPath(e) # "" /\ Image(e) = ""
    <3>1. <<m, e>> \in missed'
      BY <1>1, <2>5 DEF Format
    <3> QED
      BY <3>1 DEF Heard
  <2>6. CASE e \in emojis /\ Image(e) # ""
    BY <2>1, <2>2, <2>6 DEF Heard, Current
  <2> QED
    BY <2>3, <2>4, <2>5, <2>6
<1>2. ASSUME NEW n \in Messages \ {m}, NEW e \in Emojis, Heard(n, e) PROVE Heard(n, e)'
  <2>1. shown'[n] = shown[n] /\ connected \subseteq connected' /\ (<<n, e>> \in missed => <<n, e>> \in missed')
    BY <1>2 DEF Format, TextsInv, TextsOK
  <2>2. AnswerIsComing(n, e) => AnswerIsComing(n, e)'
    BY <1>0 DEF AnswerIsComing, OnTheirWay, Asks
  <2> QED
    BY <1>2, <2>1, <2>2, StillHeard
<1> QED
  BY <1>1, <1>2

\* What is posted or taken leaves the events well-formed.
LEMMA HoldsStays ==
  ASSUME IsSequence(queue), \A i \in 1 .. Len(queue) : Holds(queue[i]),
         UNCHANGED queue \/ (\E event : Holds(event) /\ Post(event)) \/ \E type : Received(type)
  PROVE  \A i \in 1 .. Len(queue') : Holds(queue'[i])
<1>1. ASSUME NEW event, Holds(event), Post(event)
      PROVE  \A i \in 1 .. Len(queue') : Holds(queue'[i])
  BY <1>1, PostedLast
<1>2. ASSUME NEW type, Received(type)
      PROVE  \A i \in 1 .. Len(queue') : Holds(queue'[i])
  BY <1>2, ReceivedFirst
<1> QED
  BY <1>1, <1>2

\* The states that TDLib gives a file.
LEMMA MovedIsHeld ==
  ASSUME FilesInv, TextsInv, NEW f \in File, NEW st \in States, MoveFile(f, st), UNCHANGED textVars
  PROVE  TextsInv'
<1> DEFINE event == [type |-> "file", copies |-> [g \in {f} |-> st]]
<1>1. Post(event) /\ files' = files /\ tdFiles' = [tdFiles EXCEPT ![f] = st]
  BY DEF MoveFile
<1>2. Holds(event)
  BY DEF Holds
<1> HIDE DEF event
<1>3. tdFiles' \in [File -> States]
  BY <1>1 DEF TextsInv, TextsOK
<1>4. \A i \in 1 .. Len(queue') : Holds(queue[i])'
  <2>1. \A i \in 1 .. Len(queue') : Holds(queue'[i])
    BY <1>1, <1>2, HoldsStays DEF FilesInv, Shapes, TextsInv, TextsOK
  <2> QED
    BY <2>1 DEF Holds, FilesOfEmojis
<1> QED
  BY <1>1, <1>3, <1>4 DEF TextsInv, TextsOK, EmojisKnown, Known, textVars

\* What formatting leaves.
LEMMA FormattedIsOK ==
  ASSUME FilesInv, TextsInv, NEW m \in Messages, NEW id \in {"none"} \cup Ids, NEW t \in SUBSET Emojis, Format(m, id, t),
         text' = text \/ text' = [text EXCEPT ![m] = t],
         ids' = ids \/ ids' = [ids EXCEPT ![m] = id],
         UNCHANGED <<queue, files, tdFiles, emojis>>
  PROVE  TextsInv'
<1>1. queries' \in Seq(Query)
  BY FormatAsks DEF TextsInv
<1>2. text' \in [Messages -> SUBSET Emojis] /\ ids' \in [Messages -> {"none"} \cup Ids] /\ DOMAIN shown' = Messages
  BY DEF TextsInv, TextsOK, Format
<1>3. connected' \subseteq Messages \X emojis
  <2>1. connected \subseteq Messages \X emojis
    BY DEF TextsInv, EmojisKnown
  <2>2. connected' = connected \cup {<<m, e>> : e \in {d \in t \cap emojis : StickerPath(d) = ""}}
    BY DEF Format
  <2>3. ASSUME NEW e \in {d \in t \cap emojis : StickerPath(d) = ""} PROVE <<m, e>> \in Messages \X emojis
    OBVIOUS
  <2> DEFINE heard == {<<m, e>> : e \in {d \in t \cap emojis : StickerPath(d) = ""}}
  <2>4. heard \subseteq Messages \X emojis
    BY <2>3
  <2>5. connected' = connected \cup heard
    BY <2>2
  <2> HIDE DEF heard
  <2> QED
    BY <2>1, <2>4, <2>5
<1>4. \A i \in 1 .. Len(queue') : Holds(queue[i])'
  BY DEF TextsInv, TextsOK, Holds, FilesOfEmojis
<1> QED
  BY <1>1, <1>2, <1>3, <1>4 DEF TextsInv, TextsOK, EmojisKnown, Known

\* TextsInv is inductive.
LEMMA TextsKeep == FilesInv /\ TextsInv /\ [Next]_vars => TextsInv'
<1> SUFFICES ASSUME FilesInv, TextsInv, [Next]_vars PROVE TextsInv'
  OBVIOUS
<1>0. /\ IsSequence(queue) /\ queries \in Seq(Query) /\ \A i \in DOMAIN queries : queries[i] \in Query
      /\ tdFiles \in [File -> States] /\ FilesOfEmojis \subseteq File
      /\ \A e \in Emojis : Sticker(e) \in FilesOfEmojis /\ Thumbnail(e) \in FilesOfEmojis
  <2>1. queries \in Seq(Query) => \A i \in DOMAIN queries : queries[i] \in Query
    OBVIOUS
  <2> QED
    BY <2>1, EmojiFilesAssumption DEF FilesInv, Shapes, TextsInv, TextsOK, File, FilesOfEmojis, EmojiFiles
<1>1. ASSUME NEW f \in File, ShowProgress(f) \/ FailDownload(f) \/ RemoveFile(f) \/ FinishDownload(f) \/ HandleDownload(f),
             UNCHANGED textVars
      PROVE  TextsInv'
  <2>1. \/ \E st \in States : MoveFile(f, st)
        \/ UNCHANGED <<queue, files, tdFiles>>
    BY <1>1 DEF ShowProgress, FailDownload, RemoveFile, FinishDownload, Complete, HandleDownload, HandleRequest,
                States, Started, Halted
  <2>2. CASE UNCHANGED <<queue, files, tdFiles>>
    BY <1>1, <2>2 DEF TextsInv, TextsOK, EmojisKnown, Known, textVars, Holds, FilesOfEmojis
  <2> QED
    BY <1>1, <2>1, <2>2, MovedIsHeld
<1>2. CASE Texts
  <2>1. ASSUME NEW m \in Messages, NEW id \in Ids, NEW t \in SUBSET Emojis, NewMessage(m, id, t) PROVE TextsInv'
    BY <2>1, FormattedIsOK DEF NewMessage, filesVars, fileState
  <2>2. ASSUME NEW m \in Messages, NEW t \in SUBSET Emojis, UpdateMessageContent(m, t) PROVE TextsInv'
    <3>1. ids[m] \in Ids
      BY <2>2 DEF UpdateMessageContent, InChat, TextsInv, TextsOK
    <3> QED
      BY <2>2, <3>1, FormattedIsOK DEF UpdateMessageContent, fileState
  <2>3. ASSUME NEW m \in Messages, OnMessageIdChanged(m) PROVE TextsInv'
    <3>1. ids' \in [Messages -> {"none"} \cup Ids]
      BY <2>3 DEF OnMessageIdChanged, TextsInv, TextsOK, Ids
    <3> QED
      BY <2>3, <3>1 DEF OnMessageIdChanged, fileState, TextsInv, TextsOK, EmojisKnown, Known, Holds, FilesOfEmojis
  <2> QED
    BY <1>2, <2>1, <2>2, <2>3 DEF Texts
<1>3. ASSUME NEW m \in Messages, OnReformatMessage(m) PROVE TextsInv'
  <2>1. text[m] \in SUBSET Emojis
    BY DEF TextsInv, TextsOK
  <2>2. ids[m] \in {"none"} \cup Ids
    BY DEF TextsInv, TextsOK
  <2> QED
    BY <1>3, <2>1, <2>2, FormattedIsOK DEF OnReformatMessage, filesVars, fileState
<1>4. CASE OnFileUpdated
  <2>1. Received("file") /\ UNCHANGED <<tdFiles, ids, text, shown, emojis, connected, queries>>
    BY <1>4 DEF OnFileUpdated
  <2>2. Head(queue) = queue[1] /\ 1 \in 1 .. Len(queue) /\ queue[1].type = "file"
    BY <1>0, <2>1, UnderWay
  <2>3. PICK f : DOMAIN queue[1].copies = {f}
    BY <2>2 DEF FilesInv, Shapes, Shape
  <2>4. files' = files \/ files' = [files EXCEPT ![f] = queue[1].copies[f]]
    BY <1>4, <2>2, <2>3 DEF OnFileUpdated, UpdateFile
  <2>5. queue[1].copies[f] # "unknown"
    BY <2>2, <2>3 DEF TextsInv, TextsOK, Holds, States
  <2>6. \A e \in emojis : Known(Sticker(e))' /\ Known(Thumbnail(e))'
    <3>1. \A g \in File : Known(g) => Known(g)'
      BY <2>4, <2>5 DEF Known, FilesInv, Shapes
    <3> QED
      BY <1>0, <3>1 DEF TextsInv, TextsOK, EmojisKnown
  <2>7. \A i \in 1 .. Len(queue') : Holds(queue[i])'
    <3>1. \A i \in 1 .. Len(queue') : Holds(queue'[i])
      BY <1>0, <2>1, HoldsStays DEF TextsInv, TextsOK
    <3> QED
      BY <3>1 DEF Holds, FilesOfEmojis
  <2> QED
    BY <2>1, <2>6, <2>7 DEF TextsInv, TextsOK, EmojisKnown
<1>5. CASE OnGotCustomEmojiStickers
  <2>1. Received("stickers") /\ UNCHANGED <<tdFiles, ids, text, shown, queries>>
    BY <1>5 DEF OnGotCustomEmojiStickers
  <2>2. Head(queue) = queue[1] /\ 1 \in 1 .. Len(queue) /\ queue[1].type = "stickers"
    BY <1>0, <2>1, UnderWay
  <2>3. PICK answer : answer = queue[1]
    OBVIOUS
  <2>4. /\ answer.msg \in Messages /\ answer.emojis \subseteq Emojis /\ DOMAIN answer.copies = EmojiFiles(answer.emojis)
        /\ \A f \in DOMAIN answer.copies : answer.copies[f] \in States
    BY <2>2, <2>3 DEF TextsInv, TextsOK, Holds, FilesInv, Shapes, Shape
  <2>5. /\ emojis' = emojis \cup New(answer) /\ New(answer) \subseteq answer.emojis
        /\ connected' = connected \cup {<<answer.msg, e>> : e \in Told(answer)}
        /\ AppendFiles([f \in EmojiFiles(New(answer)) |-> answer.copies[f]], {})
    BY <1>5, <2>2, <2>3 DEF OnGotCustomEmojiStickers, New
  <2>6. \A f \in File : files'[f] = IF f \in EmojiFiles(New(answer)) THEN answer.copies[f] ELSE files[f]
    BY <2>5, Appended DEF FilesInv
  <2>7. EmojiFiles(New(answer)) \subseteq DOMAIN answer.copies
    BY <2>4, <2>5 DEF EmojiFiles
  <2>8. ASSUME NEW f \in File, Known(f) \/ f \in EmojiFiles(New(answer)) PROVE Known(f)'
    <3>1. "unknown" \notin States
      BY DEF States
    <3> QED
      BY <2>4, <2>6, <2>7, <2>8, <3>1 DEF Known
  <2>9. \A e \in emojis' : Known(Sticker(e))' /\ Known(Thumbnail(e))'
    <3>1. ASSUME NEW e \in emojis' PROVE Known(Sticker(e))' /\ Known(Thumbnail(e))'
      <4>1. e \in Emojis /\ Sticker(e) \in File /\ Thumbnail(e) \in File
        BY <1>0, <2>4, <2>5 DEF TextsInv, TextsOK
      <4>2. CASE e \in emojis
        BY <2>8, <4>1, <4>2 DEF TextsInv, EmojisKnown
      <4>3. CASE e \in New(answer)
        <5>1. Sticker(e) \in EmojiFiles(New(answer)) /\ Thumbnail(e) \in EmojiFiles(New(answer))
          BY <4>3 DEF EmojiFiles
        <5> QED
          BY <2>8, <4>1, <5>1
      <4> QED
        BY <2>5, <4>2, <4>3
    <3> QED
      BY <3>1
  <2>10. connected' \subseteq Messages \X emojis'
    BY <2>4, <2>5 DEF Told, TextsInv, EmojisKnown
  <2>11. \A i \in 1 .. Len(queue') : Holds(queue[i])'
    <3>1. \A i \in 1 .. Len(queue') : Holds(queue'[i])
      BY <1>0, <2>1, HoldsStays DEF TextsInv, TextsOK
    <3> QED
      BY <3>1 DEF Holds, FilesOfEmojis
  <2>12. emojis' \subseteq Emojis
    BY <2>4, <2>5 DEF TextsInv, TextsOK
  <2> QED
    BY <2>1, <2>9, <2>10, <2>11, <2>12 DEF TextsInv, TextsOK, EmojisKnown
<1>6. CASE OnGotStickerSet
  <2>1. Received("set") /\ UNCHANGED <<tdFiles, ids, text, shown, connected, queries>> /\ emojis' = Emojis
    BY <1>6 DEF OnGotStickerSet
  <2>2. Head(queue) = queue[1] /\ 1 \in 1 .. Len(queue) /\ queue[1].type = "set"
    BY <1>0, <2>1, UnderWay
  <2>3. PICK copies : copies = queue[1].copies
    OBVIOUS
  <2>4. DOMAIN copies = FilesOfEmojis /\ \A f \in DOMAIN copies : copies[f] \in States
    BY <2>2, <2>3 DEF TextsInv, TextsOK, Holds
  <2>5. \A f \in File : files'[f] = IF f \in DOMAIN copies THEN copies[f] ELSE files[f]
    BY <1>6, <2>2, <2>3, Appended DEF OnGotStickerSet, FilesInv
  <2>6. \A e \in Emojis : Known(Sticker(e))' /\ Known(Thumbnail(e))'
    <3>1. "unknown" \notin States
      BY DEF States
    <3> QED
      BY <1>0, <2>4, <2>5, <3>1 DEF Known
  <2>7. connected' \subseteq Messages \X emojis'
    BY <2>1 DEF TextsInv, TextsOK, EmojisKnown
  <2>8. \A i \in 1 .. Len(queue') : Holds(queue[i])'
    <3>1. \A i \in 1 .. Len(queue') : Holds(queue'[i])
      BY <1>0, <2>1, HoldsStays DEF TextsInv, TextsOK
    <3> QED
      BY <3>1 DEF Holds, FilesOfEmojis
  <2> QED
    BY <2>1, <2>6, <2>7, <2>8 DEF TextsInv, TextsOK, EmojisKnown
<1>7. CASE Answer
  <2>1. PICK i \in DOMAIN queries : AnswerQuery(i)
    BY <1>7 DEF Answer
  <2> DEFINE fs == EmojiFiles(queries[i].emojis)
             event == [type |-> "stickers", msg |-> queries[i].msg, id |-> queries[i].id,
                       emojis |-> queries[i].emojis, copies |-> CopyOf(fs)]
  <2>2. Post(event) /\ queries' = RemoveAt(queries, i) /\ UNCHANGED <<files, tdFiles, ids, text, shown, emojis, connected>>
    BY <2>1 DEF AnswerQuery
  <2>3. Holds(event)
    <3>1. fs \subseteq File /\ queries[i] \in Query
      BY <1>0, EmojiFilesAssumption DEF Query, EmojiFiles, FilesOfEmojis
    <3> QED
      BY <1>0, <3>1 DEF Holds, CopyOf, Query
  <2> HIDE DEF event
  <2>4. queries' \in Seq(Query)
    BY <1>0, <2>2, Without
  <2>5. \A j \in 1 .. Len(queue') : Holds(queue[j])'
    <3>1. \A j \in 1 .. Len(queue') : Holds(queue'[j])
      BY <1>0, <2>2, <2>3, HoldsStays DEF TextsInv, TextsOK
    <3> QED
      BY <3>1 DEF Holds, FilesOfEmojis
  <2> QED
    BY <2>2, <2>4, <2>5 DEF TextsInv, TextsOK, EmojisKnown, Known
<1>8. CASE Refuse
  <2>1. PICK i \in DOMAIN queries : RefuseQuery(i)
    BY <1>8 DEF Refuse
  <2>2. queries' \in Seq(Query)
    BY <1>0, <2>1, Without DEF RefuseQuery
  <2> QED
    BY <2>1, <2>2 DEF RefuseQuery, TextsInv, TextsOK, EmojisKnown, Known, Holds, FilesOfEmojis
<1>9. CASE OpenPicker
  <2> DEFINE event == [type |-> "set", copies |-> CopyOf(FilesOfEmojis)]
  <2>1. Post(event) /\ UNCHANGED <<files, tdFiles, ids, text, shown, emojis, connected, queries>>
    BY <1>9 DEF OpenPicker
  <2>2. Holds(event)
    BY <1>0 DEF Holds, CopyOf
  <2> HIDE DEF event
  <2>3. \A j \in 1 .. Len(queue') : Holds(queue[j])'
    <3>1. \A j \in 1 .. Len(queue') : Holds(queue'[j])
      BY <1>0, <2>1, <2>2, HoldsStays DEF TextsInv, TextsOK
    <3> QED
      BY <3>1 DEF Holds, FilesOfEmojis
  <2> QED
    BY <2>1, <2>3 DEF TextsInv, TextsOK, EmojisKnown, Known
<1>10. CASE UNCHANGED vars
  BY <1>10 DEF vars, filesVars, fileState, textVars, TextsInv, TextsOK, EmojisKnown, Known, Holds, FilesOfEmojis
<1> QED
  BY <1>1, <1>2, <1>3, <1>4, <1>5, <1>6, <1>7, <1>8, <1>9, <1>10
     DEF Next, Disk, HandleObject, HandleDownload, FinishDownload

\* An answer that is awaited is not taken from those under way unless it is received.
LEMMA StillComing ==
  ASSUME IsSequence(queue), NEW m, NEW e, AnswerIsComing(m, e),
         queries' = queries,
         \/ UNCHANGED queue
         \/ \E event : Post(event)
         \/ \E type \in {"file", "set"} : Received(type)
         \/ Received("stickers") /\ ~Asks(queue[1], m, e)
  PROVE  AnswerIsComing(m, e)'
<1>1. CASE \E i \in DOMAIN queries : Asks(queries[i], m, e)
  BY <1>1 DEF AnswerIsComing, Asks
<1>2. ASSUME NEW event \in OnTheirWay, event.type = "stickers", Asks(event, m, e)
      PROVE  AnswerIsComing(m, e)'
  <2>1. event \in OnTheirWay'
    <3>1. ASSUME Received("stickers"), ~Asks(queue[1], m, e) PROVE event \in OnTheirWay'
      BY <1>2, <3>1, UnderWay
    <3>2. ASSUME NEW type \in {"file", "set"}, Received(type) PROVE event \in OnTheirWay'
      BY <1>2, <3>2, UnderWay
    <3>3. ASSUME NEW new, Post(new) PROVE event \in OnTheirWay'
      BY <1>2, <3>3, UnderWay
    <3>4. CASE UNCHANGED queue
      BY <1>2, <3>4 DEF OnTheirWay
    <3> QED
      BY <3>1, <3>2, <3>3, <3>4
  <2> QED
    BY <1>2, <2>1 DEF AnswerIsComing, Asks
<1> QED
  BY <1>1, <1>2 DEF AnswerIsComing

\* EmojisAreCurrentOrAwaited is inductive.
LEMMA HeardKeeps ==
  FilesInv /\ TextsInv /\ EmojisAreCurrentOrAwaited /\ [Next]_vars => EmojisAreCurrentOrAwaited'
<1> SUFFICES ASSUME FilesInv, TextsInv, [Next]_vars,
                    \A n \in Messages : \A d \in text[n] : Heard(n, d)
             PROVE  EmojisAreCurrentOrAwaited'
  BY DEF EmojisAreCurrentOrAwaited, Heard
<1>0. /\ IsSequence(queue) /\ queries \in Seq(Query)
      /\ text \in [Messages -> SUBSET Emojis] /\ FilesOfEmojis \subseteq File
      /\ \A e \in Emojis : Sticker(e) \in FilesOfEmojis /\ Thumbnail(e) \in FilesOfEmojis
      /\ ids \in [Messages -> {"none"} \cup Ids]
      /\ emojis \subseteq Emojis
  BY EmojiFilesAssumption DEF FilesInv, Shapes, TextsInv, TextsOK, File, FilesOfEmojis, EmojiFiles
<1> SUFFICES ASSUME NEW m \in Messages, NEW e \in Emojis, e \in text'[m]
             PROVE  Heard(m, e)'
  BY TextsKeep DEF EmojisAreCurrentOrAwaited, Heard, TextsInv, TextsOK
<1>00. text'[m] = text[m] => Heard(m, e)
  OBVIOUS
<1>1. ASSUME NEW f \in File, ShowProgress(f) \/ FailDownload(f) \/ RemoveFile(f) \/ FinishDownload(f) \/ HandleDownload(f),
             UNCHANGED textVars
      PROVE  Heard(m, e)'
  <2>1. UNCHANGED files /\ (UNCHANGED queue \/ \E event : Post(event))
    BY <1>1 DEF ShowProgress, FailDownload, RemoveFile, FinishDownload, Complete, HandleDownload, HandleRequest, MoveFile
  <2> QED
    BY <1>0, <1>00, <1>1, <2>1, StillComing, StillHeard DEF textVars
<1>2. ASSUME NEW n \in Messages, NEW id \in {"none"} \cup Ids, NEW t \in SUBSET Emojis, Format(n, id, t),
             text' = [text EXCEPT ![n] = t], UNCHANGED <<queue, files, emojis>>, timers \ {n} \subseteq timers'
      PROVE  Heard(m, e)'
  <2>1. CASE m = n
    <3>1. e \in t
      BY <1>0, <1>2, <2>1
    <3> QED
      BY <1>2, <2>1, <3>1, FormattedIsHeard
  <2>2. CASE m # n
    <3>1. Heard(m, e)
      BY <1>0, <1>2, <1>00, <2>2
    <3> QED
      BY <1>2, <2>2, <3>1, FormattedIsHeard
  <2> QED
    BY <2>1, <2>2
<1>3. CASE Texts
  <2>1. ASSUME NEW n \in Messages, NEW id \in Ids, NEW t \in SUBSET Emojis, NewMessage(n, id, t) PROVE Heard(m, e)'
    BY <1>2, <2>1 DEF NewMessage, filesVars, fileState
  <2>2. ASSUME NEW n \in Messages, NEW t \in SUBSET Emojis, UpdateMessageContent(n, t) PROVE Heard(m, e)'
    BY <1>0, <1>2, <2>2 DEF UpdateMessageContent, fileState
  <2>3. ASSUME NEW n \in Messages, OnMessageIdChanged(n) PROVE Heard(m, e)'
    BY <1>0, <1>00, <2>3, StillComing, StillHeard DEF OnMessageIdChanged, fileState
  <2> QED
    BY <1>3, <2>1, <2>2, <2>3 DEF Texts
<1>4. ASSUME NEW n \in Messages, OnReformatMessage(n) PROVE Heard(m, e)'
  <2>1. text[n] \in SUBSET Emojis /\ [text EXCEPT ![n] = text[n]] = text /\ ids[n] \in {"none"} \cup Ids
    BY <1>0
  <2> QED
    BY <1>2, <1>4, <2>1 DEF OnReformatMessage, filesVars, fileState
<1>5. CASE OnFileUpdated
  <2>1. Received("file") /\ UNCHANGED <<text, shown, emojis, connected, queries>>
    BY <1>5 DEF OnFileUpdated
  <2>2. Head(queue) = queue[1] /\ 1 \in 1 .. Len(queue) /\ queue[1].type = "file"
    BY <1>0, <2>1, UnderWay
  <2>3. PICK copies : copies = queue[1].copies
    OBVIOUS
  <2>4. PICK f : DOMAIN copies = {f}
    BY <2>2, <2>3 DEF FilesInv, Shapes, Shape
  <2>5. Heard(m, e)
    BY <1>00, <2>1
  <2>6. CASE ~Known(f)
    <3>1. UNCHANGED <<files, timers, missed>>
      BY <1>5, <2>2, <2>3, <2>4, <2>6 DEF OnFileUpdated
    <3> QED
      BY <1>0, <2>1, <2>5, <3>1, StillComing, StillHeard
  <2>7. CASE Known(f)
    <3>1. /\ files' = [files EXCEPT ![f] = copies[f]]
          /\ timers' = timers \cup OnEntityLocalPathChanged(PathChanges(copies))
          /\ missed' = missed \cup ThumbnailsMissed(PathChanges(copies))
      BY <1>5, <2>2, <2>3, <2>4, <2>7 DEF OnFileUpdated, UpdateFile
    <3>2. CASE e \in emojis
      <4>1. \A g \in File : files'[g] = IF g \in DOMAIN copies THEN copies[g] ELSE files[g]
        BY <2>4, <3>1 DEF FilesInv, Shapes
      <4>2. \A g \in {Sticker(e), Thumbnail(e)} : files'[g] = IF g \in DOMAIN copies THEN copies[g] ELSE files[g]
        BY <1>0, <4>1
      <4> QED
        BY <2>1, <2>5, <3>1, <3>2, <4>2, FilesAreHeard DEF TextsInv
    <3>3. CASE e \notin emojis
      <4>1. ~Current(m, e) /\ (WaitsForSticker(m, e) => WaitsForSticker(m, e)')
            /\ (AnswerIsComing(m, e) => AnswerIsComing(m, e)')
        BY <1>0, <2>1, <3>3, StillComing DEF Current, WaitsForSticker, StickerPath
      <4> QED
        BY <2>1, <2>5, <3>1, <3>3, <4>1 DEF Heard
    <3> QED
      BY <3>2, <3>3
  <2> QED
    BY <2>6, <2>7
<1>6. CASE OnGotCustomEmojiStickers
  <2>1. Received("stickers") /\ UNCHANGED <<ids, text, shown, queries>>
    BY <1>6 DEF OnGotCustomEmojiStickers
  <2>2. Head(queue) = queue[1] /\ 1 \in 1 .. Len(queue) /\ queue[1].type = "stickers"
    BY <1>0, <2>1, UnderWay
  <2>3. PICK answer : answer = queue[1]
    OBVIOUS
  <2>4. PICK copies : copies = [f \in EmojiFiles(New(answer)) |-> answer.copies[f]]
    OBVIOUS
  <2>5. /\ emojis' = emojis \cup New(answer) /\ New(answer) = answer.emojis \ emojis
        /\ connected' = connected \cup {<<answer.msg, d>> : d \in Told(answer)}
        /\ timers' = timers \cup {n \in {answer.msg} : \E d \in Told(answer) : LocalPath(copies[Sticker(d)]) # ""}
        /\ missed' = missed \cup Untold(New(answer), answer)
        /\ AppendFiles(copies, {})
    BY <1>6, <2>2, <2>3, <2>4 DEF OnGotCustomEmojiStickers, New
  <2>6. \A f \in File : files'[f] = IF f \in EmojiFiles(New(answer)) THEN copies[f] ELSE files[f]
    <3>1. \A f \in File : files'[f] = IF f \in DOMAIN copies THEN copies[f] ELSE files[f]
      BY <2>5, Appended DEF FilesInv
    <3>2. DOMAIN copies = EmojiFiles(New(answer))
      BY <2>4
    <3> QED
      BY <3>1, <3>2
  <2>7. Heard(m, e)
    BY <1>00, <2>1
  <2>8. Sticker(e) \in File /\ Thumbnail(e) \in File
    BY <1>0
  <2>9. CASE e \in emojis
    <3>1. Sticker(e) \notin EmojiFiles(New(answer)) /\ Thumbnail(e) \notin EmojiFiles(New(answer))
      <4>1. e \notin New(answer)
        BY <2>5, <2>9
      <4>2. \A d : Sticker(d) = Sticker(e) => d = e
        BY DEF Sticker
      <4>3. \A d : Thumbnail(d) = Thumbnail(e) => d = e
        BY DEF Thumbnail
      <4>4. \A d : Thumbnail(d) # Sticker(e) /\ Sticker(d) # Thumbnail(e)
        BY DEF Sticker, Thumbnail
      <4> QED
        BY <4>1, <4>2, <4>3, <4>4 DEF EmojiFiles
    <3>2. StickerPath(e)' = StickerPath(e) /\ Image(e)' = Image(e)
      BY <2>5, <2>6, <2>8, <2>9, <3>1 DEF StickerPath, Image
    <3> QED
      BY <2>1, <2>5, <2>7, <2>9, <3>2 DEF Heard, Current, WaitsForSticker
  <2>10. CASE e \in New(answer) /\ m = answer.msg /\ ids[m] = answer.id
    <3>1. e \in Told(answer)
      BY <2>1, <2>10 DEF Told
    <3>2. StickerPath(e)' = LocalPath(copies[Sticker(e)])
      <4>1. Sticker(e) \in EmojiFiles(New(answer)) /\ e \in emojis'
        BY <2>5, <2>10 DEF EmojiFiles
      <4> QED
        BY <2>6, <2>8, <4>1 DEF StickerPath
    <3>3. CASE LocalPath(copies[Sticker(e)]) # ""
      <4>1. m \in timers'
        BY <2>5, <2>10, <3>1, <3>3
      <4> QED
        BY <4>1 DEF Heard
    <3>4. CASE LocalPath(copies[Sticker(e)]) = ""
      <4>1. <<m, e>> \in connected'
        BY <2>5, <2>10, <3>1
      <4> QED
        BY <3>2, <3>4, <4>1 DEF Heard, WaitsForSticker
    <3> QED
      BY <3>3, <3>4
  <2>11. CASE e \in New(answer) /\ ~(m = answer.msg /\ ids[m] = answer.id)
    <3>1. <<m, e>> \in InText
      BY <2>1 DEF InText
    <3>2. <<m, e>> \in Untold(New(answer), answer)
      BY <2>11, <3>1 DEF Untold
    <3> QED
      BY <2>5, <3>2 DEF Heard
  <2>12. CASE e \notin emojis /\ e \notin New(answer)
    <3>1. e \notin emojis' /\ e \notin answer.emojis
      BY <2>5, <2>12
    <3>2. AnswerIsComing(m, e) => AnswerIsComing(m, e)'
      BY <1>0, <2>1, <2>3, <3>1, StillComing DEF Asks
    <3>3. WaitsForSticker(m, e) => WaitsForSticker(m, e)'
      BY <2>5, <3>1 DEF WaitsForSticker, StickerPath
    <3> QED
      BY <2>5, <2>7, <2>12, <3>1, <3>2, <3>3 DEF Heard, Current
  <2> QED
    BY <2>9, <2>10, <2>11, <2>12
<1>7. CASE OnGotStickerSet
  <2>1. Received("set") /\ UNCHANGED <<text, shown, connected, queries>> /\ emojis' = Emojis
    BY <1>7 DEF OnGotStickerSet
  <2>2. Head(queue) = queue[1] /\ 1 \in 1 .. Len(queue) /\ queue[1].type = "set"
    BY <1>0, <2>1, UnderWay
  <2>3. PICK copies : copies = queue[1].copies
    OBVIOUS
  <2>4. /\ timers' = timers \cup OnEntityLocalPathChanged(PathChanges(copies))
        /\ missed' = missed \cup ThumbnailsMissed(PathChanges(copies)) \cup (InText \ (Messages \X emojis))
        /\ AppendFiles(copies, {})
    BY <1>7, <2>2, <2>3 DEF OnGotStickerSet
  <2>5. \A f \in File : files'[f] = IF f \in DOMAIN copies THEN copies[f] ELSE files[f]
    BY <2>4, Appended DEF FilesInv
  <2>6. Heard(m, e)
    BY <1>00, <2>1
  <2>7. CASE e \in emojis
    <3>1. \A g \in {Sticker(e), Thumbnail(e)} : files'[g] = IF g \in DOMAIN copies THEN copies[g] ELSE files[g]
      BY <1>0, <2>5
    <3> QED
      BY <2>1, <2>4, <2>6, <2>7, <3>1, FilesAreHeard DEF TextsInv
  <2>8. CASE e \notin emojis
    <3>1. <<m, e>> \in InText \ (Messages \X emojis)
      BY <2>1, <2>8 DEF InText
    <3> QED
      BY <2>4, <3>1 DEF Heard
  <2> QED
    BY <2>7, <2>8
<1>8. CASE Answer
  <2>1. PICK i \in DOMAIN queries : AnswerQuery(i)
    BY <1>8 DEF Answer
  <2>2. PICK event : event = [type |-> "stickers", msg |-> queries[i].msg, id |-> queries[i].id,
                              emojis |-> queries[i].emojis, copies |-> CopyOf(EmojiFiles(queries[i].emojis))]
    OBVIOUS
  <2>3. /\ Post(event) /\ queries' = RemoveAt(queries, i)
        /\ UNCHANGED <<files, text, shown, emojis, connected, timers, missed>>
    BY <2>1, <2>2 DEF AnswerQuery
  <2>4. event.type = "stickers" /\ event.msg = queries[i].msg /\ event.emojis = queries[i].emojis
    BY <2>2
  <2>5. ASSUME AnswerIsComing(m, e) PROVE AnswerIsComing(m, e)'
    <3>1. OnTheirWay' = OnTheirWay \cup {event}
      BY <1>0, <2>3, UnderWay
    <3>2. \A j \in DOMAIN queries \ {i} : \E k \in DOMAIN queries' : queries'[k] = queries[j]
      BY <1>0, <2>3, Without
    <3>3. Asks(queries[i], m, e) => Asks(event, m, e)
      BY <2>4 DEF Asks
    <3> QED
      BY <2>4, <2>5, <3>1, <3>2, <3>3 DEF AnswerIsComing, Asks
  <2> QED
    BY <1>00, <2>3, <2>5, StillHeard
<1>9. CASE Refuse
  <2>1. PICK i \in DOMAIN queries : RefuseQuery(i)
    BY <1>9 DEF Refuse
  <2>2. /\ queries' = RemoveAt(queries, i) /\ missed' = missed \cup ({queries[i].msg} \X queries[i].emojis)
        /\ UNCHANGED <<queue, files, text, shown, emojis, connected, timers>>
    BY <2>1 DEF RefuseQuery
  <2>3. ASSUME AnswerIsComing(m, e) PROVE AnswerIsComing(m, e)' \/ <<m, e>> \in missed'
    <3>1. OnTheirWay' = OnTheirWay
      BY <2>2 DEF OnTheirWay
    <3>2. \A j \in DOMAIN queries \ {i} : \E k \in DOMAIN queries' : queries'[k] = queries[j]
      BY <1>0, <2>2, Without
    <3>3. Asks(queries[i], m, e) => <<m, e>> \in missed'
      BY <2>2 DEF Asks
    <3> QED
      BY <2>3, <3>1, <3>2, <3>3 DEF AnswerIsComing, Asks
  <2> QED
    BY <1>00, <2>2, <2>3, StillHeard
<1>10. CASE OpenPicker
  <2>1. UNCHANGED <<files, text, shown, emojis, connected, timers, queries, missed>> /\ \E event : Post(event)
    BY <1>10 DEF OpenPicker
  <2> QED
    BY <1>0, <1>00, <2>1, StillComing, StillHeard
<1>11. CASE UNCHANGED vars
  BY <1>0, <1>00, <1>11, StillComing, StillHeard DEF vars, filesVars, fileState, textVars
<1> QED
  BY <1>1, <1>3, <1>4, <1>5, <1>6, <1>7, <1>8, <1>9, <1>10, <1>11
     DEF Next, Disk, HandleObject, HandleDownload, FinishDownload

(***************************************************************************)
(* A custom emoji in the text of a message is the present image, or the    *)
(* message will be formatted again, but for the ways in which no signal    *)
(* tells it (Message::formatTextAsHTML, CustomEmojis::onGotCustomEmoji-    *)
(* Stickers, Message::updateCustomEmojis).                                 *)
(***************************************************************************)
THEOREM MessagesAreTold == Spec => []EmojisAreCurrentOrAwaited
<1>1. Init => FilesInv /\ TextsInv /\ EmojisAreCurrentOrAwaited
  <2> SUFFICES ASSUME Init PROVE FilesInv /\ TextsInv /\ EmojisAreCurrentOrAwaited
    OBVIOUS
  <2>1. /\ queue = <<>> /\ queries = <<>> /\ emojis = {} /\ connected = {}
        /\ text = [m \in Messages |-> {}] /\ ids = [m \in Messages |-> "none"]
        /\ shown = [m \in Messages |-> [e \in Emojis |-> ""]]
        /\ tdFiles \in [File -> {"idle", "done"}]
    BY DEF Init, FilesInit
  <2>2. /\ Len(queue) = 0 /\ queries \in Seq(Query)
        /\ DOMAIN shown = Messages /\ \A m \in Messages : text[m] = {}
    <3>1. Len(queue) = 0
      <4>1. queue = <<>>
        BY <2>1
      <4>2. queue \in Seq({}) /\ Len(queue) = 0
        BY <4>1
      <4> QED
        BY <4>2
    <3>2. queries \in Seq(Query)
      <4>1. queries = <<>>
        BY <2>1
      <4> QED
        BY <4>1
    <3>3. DOMAIN shown = Messages
      BY <2>1
    <3>4. \A m \in Messages : text[m] = {}
      BY <2>1
    <3> QED
      BY <3>1, <3>2, <3>3, <3>4
  <2>3. tdFiles \in [File -> States]
    BY <2>1 DEF States
  <2>4. TextsInv
    <3>1. \A i \in 1 .. Len(queue) : Holds(queue[i])
      BY <2>2
    <3>2. text \in [Messages -> SUBSET Emojis] /\ ids \in [Messages -> {"none"} \cup Ids]
      BY <2>1
    <3>3. TextsOK
      BY <2>1, <2>2, <2>3, <3>1, <3>2 DEF TextsOK
    <3>4. EmojisKnown
      BY <2>1 DEF EmojisKnown
    <3> QED
      BY <3>3, <3>4 DEF TextsInv
  <2> QED
    BY <2>1, <2>2, <2>4, FilesBegin DEF EmojisAreCurrentOrAwaited
<1>2. FilesInv /\ TextsInv /\ EmojisAreCurrentOrAwaited /\ [Next]_vars
         => (FilesInv /\ TextsInv /\ EmojisAreCurrentOrAwaited)'
  BY FilesInvKeeps, TextsKeep, HeardKeeps
<1> QED
  BY <1>1, <1>2, PTL DEF Spec
=============================================================================
