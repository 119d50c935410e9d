---------------------------- MODULE StickerSets ----------------------------
(***************************************************************************)
(* StickerSets (stickersets.cpp, stickerset.cpp) and the picker of         *)
(* stickers (StickerPicker.qml), which shows its rows and, below them, the *)
(* stickers of one of its sets.  Sets are asked for when a row is read     *)
(* that has none yet.                                                      *)
(*                                                                         *)
(* Modelled is the object for stickers.  The object for custom emojis gets *)
(* the same answers; each drops what is not of its type, which is left out *)
(* here.  What is in a set is left out too.                                *)
(***************************************************************************)
EXTENDS Acts, SequencesExt, FiniteSetsExt

CONSTANTS
    Set,          \* sticker sets
    AtFirst       \* lists of sets that may be installed when the program starts

VARIABLES
    installed,    \* StickerSets::_installedStickerSetIds
    stickerSetIds,\* StickerSets::_stickerSetIds, from which nothing is ever removed
    stickerSets,  \* StickerSets::_stickerSets
    predefined,   \* those of _predefinedStickerSets that have stickers
    asked,        \* external: getStickerSet that TDLib has not answered
    askedOwn,     \* external: getFavoriteStickers and getRecentStickers not answered
    open,         \* the picker is on the screen
    rows,         \* what it shows in each row
    grid,         \* the set whose stickers it shows
    picked,       \* the setting stickerPickerPickedPack: a row
    ended,        \* the program has dereferenced a null pointer
    moved,        \* history: the rows changed since the user opened the picker or picked
    refused       \* history: sets that TDLib has refused

modelVars == <<installed, stickerSetIds, stickerSets, predefined>>
tdVars == <<asked, askedOwn, refused>>
pickerVars == <<open, rows, grid, picked, moved>>
vars == <<queue, modelVars, tdVars, pickerVars, ended, acts>>

\* An act of the user, or a change of what is installed.
Acting == ~ended /\ Act

(***************************************************************************)
(* The rows: favourite stickers, recent ones, and what is installed.       *)
(***************************************************************************)
Predefined == <<"favourite", "recent">>
Own == Range(Predefined)

ASSUME SetAssumption == IsFiniteSet(Set) /\ Set \cap Own = {} /\ AtFirst \subseteq Seq(Set)

Sets == Predefined \o installed
Rows == 0 .. Len(Sets) - 1

\* The set of row r, if there is such a row.
SetOf(r) == IF r \in Rows THEN Sets[r + 1] ELSE "none"

(***************************************************************************)
(* data: a row without its set is empty, and the set is asked for, once    *)
(* for each role that is read.  Several stands for the roles of a row.     *)
(***************************************************************************)
Data(r) == IF SetOf(r) \in predefined \cup stickerSets THEN SetOf(r) ELSE "blank"
Missing(r) == {SetOf(r)} \ (stickerSets \cup Own \cup {"none"})

Several == 2
AskFor(read, role) ==
    asked' = [s \in Set |-> CASE s \in read -> Several
                              [] s \in role \ read -> Min({asked[s] + 1, Several})
                              [] OTHER -> asked[s]]

ReadRows == [r \in Rows |-> Data(r)]
AllMissing == UNION {Missing(r) : r \in Rows}

(***************************************************************************)
(* onIsAuthorizedChanged has made the predefined sets, without stickers,   *)
(* and asked for everything.  The row that was picked is a setting, which  *)
(* an earlier run of the program has left.                                 *)
(***************************************************************************)
Init ==
    /\ \E list \in AtFirst : queue = <<[type |-> "installed", sets |-> list]>>
    /\ installed = <<>> /\ stickerSetIds = <<>> /\ stickerSets = {} /\ predefined = {}
    /\ asked = [s \in Set |-> 0] /\ askedOwn = Own
    /\ open = FALSE /\ rows = <<>> /\ grid = "none"
    /\ picked \in 0 .. Len(Predefined) + Cardinality(Set) - 1
    /\ ended = FALSE /\ moved = FALSE /\ refused = {}
    /\ acts = 0

(***************************************************************************)
(* The picker.  A set without stickers has no list either: rowCount        *)
(* dereferences it (stickerset.cpp, line 131).                             *)
(***************************************************************************)
Show(r) ==
    /\ picked' = r
    /\ moved' = FALSE
    /\ ended' = (SetOf(r) \in Own \ predefined)
    /\ grid' = IF SetOf(r) \in Own \cup stickerSets THEN SetOf(r) ELSE "none"

OpenPicker ==
    /\ ~open /\ Acting
    /\ open' = TRUE
    /\ Show(picked)
    /\ rows' = ReadRows
    /\ AskFor(AllMissing, Missing(picked))
    /\ UNCHANGED <<queue, modelVars, askedOwn, refused>>

Pick(r) ==
    /\ open /\ Acting
    /\ Show(r)
    /\ AskFor({}, Missing(r))
    /\ UNCHANGED <<queue, modelVars, askedOwn, refused, open, rows>>

\* A row is scrolled out of sight and back.
Scroll(r) ==
    /\ open /\ Acting
    /\ rows' = [rows EXCEPT ![r] = Data(r)]
    /\ AskFor(Missing(r), {})
    /\ UNCHANGED <<queue, modelVars, askedOwn, refused, open, grid, picked, moved, ended>>

ClosePicker ==
    /\ open /\ Acting
    /\ open' = FALSE
    /\ rows' = <<>> /\ grid' = "none" /\ moved' = FALSE
    /\ UNCHANGED <<queue, modelVars, tdVars, picked, ended>>

(***************************************************************************)
(* updateInstalledStickerSets: the rows are read anew.                     *)
(***************************************************************************)
UpdateInstalledStickerSets ==
    /\ Received("installed")
    /\ installed' = Head(queue).sets
    /\ stickerSetIds' = stickerSetIds \o installed'
    /\ UNCHANGED <<stickerSets, predefined, askedOwn, refused, open, grid, picked, ended, acts>>
    /\ rows' = IF open THEN ReadRows' ELSE rows
    /\ AskFor(IF open THEN AllMissing' ELSE {}, {})
    /\ moved' = (open /\ (moved \/ SetOf(picked)' # SetOf(picked)))

(***************************************************************************)
(* onGotStickerSet.  dataChanged names the row by the place of the set in  *)
(* _stickerSetIds, and the view reads that row anew; then the picker, told *)
(* of the set, looks whether it is that of the row that was picked.        *)
(***************************************************************************)
IndexOf(s, ids) == Min({i \in DOMAIN ids : ids[i] = s}) - 1
Filed(s) == IF s \in Range(stickerSetIds) THEN stickerSetIds ELSE Append(stickerSetIds, s)

DataChanged(row) == rows' = [r \in DOMAIN rows |-> IF r = row THEN Data(r)' ELSE rows[r]]
MissingThen(row) == UNION {Missing(r)' : r \in {row} \cap DOMAIN rows}

StoreSet(s) ==
    /\ stickerSetIds' = Filed(s)
    /\ stickerSets' = stickerSets \cup {s}
    /\ UNCHANGED <<installed, predefined, askedOwn, refused, open, picked, moved, ended, acts>>

\* Mutant of OnGotStickerSet: the view is not told.
OnGotStickerSetSilent ==
    /\ Received("set")
    /\ LET s == Head(queue).id
       IN  /\ StoreSet(s)
           /\ AskFor({}, IF open THEN Missing(picked)' ELSE {})
           /\ grid' = IF open /\ SetOf(picked) = s THEN s ELSE grid
    /\ UNCHANGED rows

\* Mutant of OnGotStickerSet: the picker takes whatever set has come.
OnGotStickerSetAny ==
    /\ Received("set")
    /\ LET s == Head(queue).id
           row == IndexOf(s, Filed(s))
       IN  /\ StoreSet(s)
           /\ DataChanged(row)
           /\ AskFor(MissingThen(row), IF open THEN Missing(picked)' ELSE {})
           /\ grid' = IF open THEN s ELSE grid

\* Mutant of OnGotStickerSet: the picker looks at its row before the set is there.
OnGotStickerSetEarly ==
    /\ Received("set")
    /\ LET s == Head(queue).id
           row == IndexOf(s, Filed(s))
       IN  /\ StoreSet(s)
           /\ DataChanged(row)
           /\ AskFor(MissingThen(row), IF open THEN Missing(picked) ELSE {})
           /\ UNCHANGED grid

OnGotStickerSet ==
    /\ Received("set")
    /\ LET s == Head(queue).id
           row == IndexOf(s, Filed(s))
       IN  /\ StoreSet(s)
           /\ DataChanged(row)
           /\ AskFor(MissingThen(row), IF open THEN Missing(picked)' ELSE {})
           /\ grid' = IF open /\ SetOf(picked) = s THEN s ELSE grid

\* onGotFavouriteStickers and onGotRecentStickers.
OnGotOwnStickers ==
    /\ Received("own")
    /\ predefined' = predefined \cup {Head(queue).id}
    /\ UNCHANGED <<installed, stickerSetIds, stickerSets>>
    /\ UNCHANGED <<tdVars, open, grid, picked, moved, ended, acts>>
    /\ DataChanged(IndexOf(Head(queue).id, Predefined))

\* updateFavouriteStickers and updateRecentStickers: they are asked for again.
UpdateOwnStickers ==
    /\ Received("ownChanged")
    /\ askedOwn' = askedOwn \cup {Head(queue).id}
    /\ UNCHANGED <<modelVars, asked, refused, pickerVars, ended, acts>>

HandleObject ==
    /\ ~ended
    /\ \/ UpdateInstalledStickerSets \/ OnGotStickerSet
       \/ OnGotOwnStickers \/ UpdateOwnStickers

(***************************************************************************)
(* TDLib.  An error reaches nobody.                                        *)
(***************************************************************************)
Answer(s) ==
    /\ asked[s] > 0
    /\ asked' = [asked EXCEPT ![s] = @ - 1]
    /\ Post([type |-> "set", id |-> s])
    /\ UNCHANGED <<modelVars, askedOwn, refused, pickerVars, ended, acts>>

AnswerOwn(s) ==
    /\ s \in askedOwn
    /\ askedOwn' = askedOwn \ {s}
    /\ Post([type |-> "own", id |-> s])
    /\ UNCHANGED <<modelVars, asked, refused, pickerVars, ended, acts>>

AnswerAny == (\E s \in Set : Answer(s)) \/ \E s \in Own : AnswerOwn(s)

Refuse ==
    /\ Acting
    /\ \/ \E s \in Set : /\ asked[s] > 0
                         /\ asked' = [asked EXCEPT ![s] = @ - 1]
                         /\ refused' = refused \cup {s}
                         /\ UNCHANGED askedOwn
       \/ \E s \in askedOwn : askedOwn' = askedOwn \ {s} /\ UNCHANGED <<asked, refused>>
    /\ UNCHANGED <<queue, modelVars, pickerVars, ended>>

Lists == UNION {SetToSeqs(S) : S \in SUBSET Set}

Install ==
    /\ Acting
    /\ \E list \in Lists : Post([type |-> "installed", sets |-> list])
    /\ UNCHANGED <<modelVars, tdVars, pickerVars, ended>>

ChangeOwn ==
    /\ Acting
    /\ \E s \in Own : Post([type |-> "ownChanged", id |-> s])
    /\ UNCHANGED <<modelVars, tdVars, pickerVars, ended>>

Next ==
    \/ OpenPicker \/ ClosePicker
    \/ \E r \in Rows : Pick(r) \/ Scroll(r)
    \/ HandleObject
    \/ AnswerAny
    \/ Refuse \/ Install \/ ChangeOwn

(***************************************************************************)
(* The event loop handles what is queued, and TDLib answers.               *)
(***************************************************************************)
Fairness ==
    /\ WF_vars(HandleObject)
    /\ WF_vars(AnswerAny)

Spec == Init /\ [][Next]_vars /\ Fairness

(***************************************************************************)
(* A row of the picker shows its set as soon as there is one, whatever was *)
(* installed and moved meanwhile and in whatever order the answers came.   *)
(* Excepted are rows other than the set's place in _stickerSetIds, which   *)
(* dataChanged names: that list has no predefined sets in front and keeps  *)
(* the places of sets that were moved (stickersets.cpp:238), so most rows  *)
(* stay empty until they are scrolled out of sight.                        *)
(***************************************************************************)
RowsShowTheirSets ==
    open => \A r \in Rows :
        \/ rows[r] = SetOf(r)
        \/ SetOf(r) \notin predefined \cup stickerSets
        \/ SetOf(r) \in Set /\ IndexOf(SetOf(r), stickerSetIds) # r

(***************************************************************************)
(* The stickers under the user's finger are exchanged only by the user, or *)
(* after another set has moved into the row that was picked: the picker    *)
(* remembers the row, not the set (StickerPicker.qml:48).                  *)
(***************************************************************************)
GridStaysPut ==
    [][open /\ grid # "none" /\ open' /\ picked' = picked /\ ~moved => grid' = grid]_vars

(***************************************************************************)
(* The set in the row that the user picked, or had picked when the picker  *)
(* was opened, appears in the end, whether it was there already, is under  *)
(* way or has to be asked for; unless TDLib refuses it or the rows change. *)
(***************************************************************************)
PickedSetAppears ==
    open /\ ~moved /\ SetOf(picked) \in Set \ refused
        ~> grid = SetOf(picked) \/ ~open \/ moved \/ SetOf(picked) \in Own \cup refused \/ ended
=============================================================================
