------------------------------ MODULE GuiProofs ------------------------------
(***************************************************************************)
(* Theorems about three components that stand between the user and TDLib,  *)
(* each on its own: the picker of stickers (StickerSets), the field of the *)
(* page of a chat (Composer) and the switches for notifications            *)
(* (NotificationSettings).  Each theorem is about one specification, whose *)
(* queue, requests and acts those of Acts and Requests are then.           *)
(***************************************************************************)
EXTENDS StickerSets, Composer, NotificationSettings, SequenceTheorems, FiniteSetTheorems, TLAPS

(***************************************************************************)
(* StickerSets: the types of what is under way and what is known.  What is *)
(* installed has a place in _stickerSetIds.                                *)
(***************************************************************************)
Event ==
    [type : {"installed"}, sets : Seq(Set)] \cup [type : {"set"}, id : Set]
        \cup [type : {"own", "ownChanged"}, id : Own]

Placed(s, ids) == \E i \in 1 .. Len(ids) : ids[i] = s

SetsInv ==
    /\ queue \in Seq(Event)
    /\ installed \in Seq(Set) /\ stickerSetIds \in Seq(Set)
    /\ \A i \in 1 .. Len(installed) : Placed(installed[i], stickerSetIds)

\* The view has all rows, and what it shows in them is RowsShowTheirSets.
RowsInv == (open => DOMAIN rows = Rows) /\ RowsShowTheirSets

\* The stickers that are shown are those of the row that was picked.
GridInv ==
    open /\ grid # "none" /\ ~moved => grid = SetOf(picked) /\ grid \in Own \cup stickerSets

PickerInv == SetsInv /\ RowsInv /\ GridInv

(***************************************************************************)
(* The rows, and the places of sets.                                       *)
(***************************************************************************)
LEMMA OwnSets == Own = {"favourite", "recent"} /\ Predefined \in Seq(Own) /\ Len(Predefined) = 2
<1>1. Len(Predefined) = 2 /\ Predefined[1] = "favourite" /\ Predefined[2] = "recent" /\ DOMAIN Predefined = 1 .. 2
  BY DEF Predefined
<1>2. Own = {"favourite", "recent"}
  BY <1>1 DEF Own, Range
<1> QED
  BY <1>1, <1>2 DEF Predefined

\* The rows, one by one.
LEMMA SetOfRow ==
  ASSUME installed \in Seq(Set)
  PROVE  /\ Rows = 0 .. Len(installed) + 1 /\ Len(installed) \in Nat
         /\ SetOf(0) = "favourite" /\ SetOf(1) = "recent"
         /\ \A r \in Rows \ {0, 1} : r - 1 \in 1 .. Len(installed) /\ SetOf(r) = installed[r - 1] /\ SetOf(r) \in Set
         /\ \A r : r \notin Rows => SetOf(r) = "none"
<1>1. Predefined \in Seq(Own \cup Set) /\ installed \in Seq(Own \cup Set) /\ Len(Predefined) = 2 /\ Len(installed) \in Nat
  <2>1. Predefined \in Seq(Own) /\ Len(Predefined) = 2
    BY OwnSets
  <2> QED
    BY <2>1, LenProperties, SeqDef
<1>2. /\ Len(Sets) = Len(installed) + 2
      /\ \A i \in 1 .. Len(installed) + 2 : Sets[i] = IF i <= 2 THEN Predefined[i] ELSE installed[i - 2]
  <2>1. PICK S : S = Own \cup Set
    OBVIOUS
  <2>2. Predefined \in Seq(S) /\ installed \in Seq(S)
    BY <1>1, <2>1
  <2>3. /\ Len(Sets) = Len(Predefined) + Len(installed)
        /\ \A i \in 1 .. Len(Predefined) + Len(installed) :
              Sets[i] = IF i <= Len(Predefined) THEN Predefined[i] ELSE installed[i - Len(Predefined)]
    BY <2>2, ConcatProperties DEF Sets
  <2> QED
    BY <1>1, <2>3
<1>3. Rows = 0 .. Len(installed) + 1
  BY <1>1, <1>2 DEF Rows
<1>4. SetOf(0) = "favourite" /\ SetOf(1) = "recent"
  BY <1>1, <1>2, <1>3 DEF SetOf, Predefined
<1>5. ASSUME NEW r \in Rows \ {0, 1}
      PROVE  r - 1 \in 1 .. Len(installed) /\ SetOf(r) = installed[r - 1] /\ SetOf(r) \in Set
  <2>1. r + 1 \in 1 .. Len(installed) + 2 /\ ~(r + 1 <= 2) /\ (r + 1) - 2 = r - 1 /\ r - 1 \in 1 .. Len(installed)
    BY <1>1, <1>3
  <2>2. SetOf(r) = installed[r - 1]
    BY <1>2, <2>1 DEF SetOf
  <2> QED
    BY <2>1, <2>2, ElementOfSeq
<1> QED
  BY <1>1, <1>3, <1>4, <1>5 DEF SetOf

\* A set keeps its place when others are added behind it.
LEMMA PlaceStays ==
  ASSUME NEW ids \in Seq(Set), NEW more \in Seq(Set), NEW s, Placed(s, ids)
  PROVE  Placed(s, ids \o more) /\ IndexOf(s, ids \o more) = IndexOf(s, ids)
<1> DEFINE A == {i \in DOMAIN ids : ids[i] = s}
           B == {i \in DOMAIN (ids \o more) : (ids \o more)[i] = s}
<1>1. /\ Len(ids) \in Nat /\ Len(more) \in Nat /\ Len(ids \o more) = Len(ids) + Len(more)
      /\ DOMAIN ids = 1 .. Len(ids) /\ DOMAIN (ids \o more) = 1 .. Len(ids) + Len(more)
      /\ \A i \in 1 .. Len(ids) : (ids \o more)[i] = ids[i]
  BY ConcatProperties, LenProperties
<1>2. PICK a \in A : TRUE
  BY <1>1 DEF Placed
<1>3. A \subseteq B /\ \A b \in B \ A : \A i \in A : i < b /\ ~(b <= i)
  BY <1>1
<1>4. A \subseteq Nat /\ B \subseteq Nat
  BY <1>1
<1> HIDE DEF A, B
<1>5. ASSUME NEW x PROVE (x \in A /\ \A y \in A : x <= y) <=> (x \in B /\ \A y \in B : x <= y)
  <2>1. ASSUME x \in A, \A y \in A : x <= y PROVE x \in B /\ \A y \in B : x <= y
    <3>1. ASSUME NEW y \in B PROVE x <= y
      <4>1. CASE y \in A
        BY <2>1, <4>1
      <4>2. CASE y \notin A
        BY <1>3, <1>4, <2>1, <3>1, <4>2
      <4> QED
        BY <4>1, <4>2
    <3> QED
      BY <1>3, <2>1, <3>1
  <2>2. ASSUME x \in B, \A y \in B : x <= y PROVE x \in A /\ \A y \in A : x <= y
    <3>1. x <= a /\ a \in A
      BY <1>2, <1>3, <2>2
    <3>2. x \in A
      BY <1>3, <2>2, <3>1
    <3> QED
      BY <1>3, <2>2, <3>2
  <2> QED
    BY <2>1, <2>2
<1>6. Min(A) = Min(B)
  BY <1>5 DEF Min
<1>7. Placed(s, ids \o more)
  BY <1>1 DEF Placed
<1> QED
  BY <1>6, <1>7 DEF IndexOf, A, B

\* A set is in the list if it has a place there.
LEMMA PlacedIsIn ==
  ASSUME NEW ids \in Seq(Set), NEW s
  PROVE  s \in Range(ids) <=> Placed(s, ids)
BY LenProperties DEF Range, Placed

\* A set that has come has a place.
LEMMA FiledSet ==
  ASSUME SetsInv, NEW s \in Set
  PROVE  /\ Filed(s) \in Seq(Set)
         /\ \A t : Placed(t, stickerSetIds) =>
               Placed(t, Filed(s)) /\ IndexOf(t, Filed(s)) = IndexOf(t, stickerSetIds)
<1>1. stickerSetIds \in Seq(Set) /\ <<s>> \in Seq(Set)
  BY DEF SetsInv
<1>2. Append(stickerSetIds, s) = stickerSetIds \o <<s>>
  BY <1>1, AppendIsConcat
<1>3. Append(stickerSetIds, s) \in Seq(Set)
  BY <1>1, AppendProperties
<1>4. CASE s \in Range(stickerSetIds)
  <2>1. Filed(s) = stickerSetIds
    BY <1>4 DEF Filed
  <2> QED
    BY <1>1, <2>1
<1>5. CASE s \notin Range(stickerSetIds)
  <2>1. Filed(s) = stickerSetIds \o <<s>>
    BY <1>2, <1>5 DEF Filed
  <2>2. Filed(s) \in Seq(Set)
    BY <1>3, <1>5 DEF Filed
  <2> QED
    BY <1>1, <2>1, <2>2, PlaceStays
<1> QED
  BY <1>4, <1>5

\* The places of the predefined sets.
LEMMA IndexOfOwn ==
  ASSUME NEW s \in Own
  PROVE  IndexOf("favourite", Predefined) = 0 /\ IndexOf("recent", Predefined) = 1
<1>1. DOMAIN Predefined = {1, 2} /\ Predefined[1] = "favourite" /\ Predefined[2] = "recent"
  BY DEF Predefined
<1>2. {i \in DOMAIN Predefined : Predefined[i] = "favourite"} = {1}
  BY <1>1
<1>3. {i \in DOMAIN Predefined : Predefined[i] = "recent"} = {2}
  BY <1>1
<1>4. Min({1}) = 1 /\ Min({2}) = 2
  BY DEF Min
<1> QED
  BY <1>2, <1>3, <1>4 DEF IndexOf

(***************************************************************************)
(* Every step keeps them.                                                  *)
(***************************************************************************)
LEMMA Stocked ==
  ASSUME queue \in Seq(Event), NEW t \in {"installed", "set", "own", "ownChanged"}, Received(t)
  PROVE  /\ queue' \in Seq(Event)
         /\ t = "installed" => Head(queue).sets \in Seq(Set)
         /\ t = "set" => Head(queue).id \in Set
         /\ t = "own" => Head(queue).id \in Own
<1>1. queue # <<>> /\ Head(queue).type = t /\ queue' = Tail(queue)
  BY DEF Received
<1>2. Head(queue) \in Event /\ Tail(queue) \in Seq(Event)
  BY <1>1, HeadTailProperties
<1> QED
  BY <1>1, <1>2 DEF Event

\* An object is added or makes the program ask again, and nothing else of the picker changes.
LEMMA PostKeepsPicker ==
  ASSUME PickerInv, UNCHANGED <<modelVars, pickerVars>>,
         queue' = queue \/ Received("ownChanged") \/ \E event \in Event : Post(event)
  PROVE  PickerInv'
<1>1. queue' \in Seq(Event)
  <2>1. CASE queue' = queue
    BY <2>1 DEF PickerInv, SetsInv
  <2>2. ASSUME NEW event \in Event, Post(event) PROVE queue' \in Seq(Event)
    BY <2>2, AppendProperties DEF PickerInv, SetsInv, Post
  <2>3. CASE Received("ownChanged")
    BY <2>3, Stocked DEF PickerInv, SetsInv
  <2> QED
    BY <2>1, <2>2, <2>3
<1>2. UNCHANGED <<installed, stickerSetIds, stickerSets, predefined, open, rows, grid, picked, moved>>
  BY DEF modelVars, pickerVars
<1>3. SetsInv'
  BY <1>1, <1>2 DEF PickerInv, SetsInv, Placed
<1>4. RowsInv'
  BY <1>2 DEF PickerInv, RowsInv, RowsShowTheirSets, Rows, Sets, SetOf, IndexOf
<1>5. GridInv'
  BY <1>2 DEF PickerInv, GridInv, SetOf, Rows, Sets
<1> QED
  BY <1>3, <1>4, <1>5 DEF PickerInv

\* The user opens the picker, picks, scrolls, or closes it.
LEMMA UserKeepsPicker ==
  ASSUME PickerInv, OpenPicker \/ (\E r \in Rows : Pick(r) \/ Scroll(r)) \/ ClosePicker
  PROVE  PickerInv'
<1>1. UNCHANGED <<queue, installed, stickerSetIds, stickerSets, predefined>>
  BY DEF OpenPicker, Pick, Scroll, ClosePicker, modelVars
<1>2. SetsInv'
  BY <1>1 DEF PickerInv, SetsInv, Placed
<1>3. Sets' = Sets /\ Rows' = Rows /\ \A r : SetOf(r)' = SetOf(r)
  BY <1>1 DEF Sets, Rows, SetOf
<1>4. ASSUME NEW r PROVE Data(r) = SetOf(r) \/ SetOf(r) \notin predefined \cup stickerSets
  BY DEF Data
<1>5. ASSUME OpenPicker PROVE PickerInv'
  <2>1. open' = TRUE /\ rows' = [r \in Rows |-> Data(r)] /\ Show(picked)
    BY <1>5 DEF OpenPicker, ReadRows
  <2>2. RowsInv'
    BY <1>1, <1>3, <1>4, <2>1 DEF RowsInv, RowsShowTheirSets
  <2>3. GridInv'
    BY <1>1, <1>3, <2>1 DEF GridInv, Show
  <2> QED
    BY <1>2, <2>2, <2>3 DEF PickerInv
<1>6. ASSUME NEW r \in Rows, Pick(r) PROVE PickerInv'
  <2>1. UNCHANGED <<open, rows>> /\ Show(r)
    BY <1>6 DEF Pick
  <2>2. RowsInv'
    BY <1>1, <1>3, <2>1 DEF PickerInv, RowsInv, RowsShowTheirSets, IndexOf
  <2>3. GridInv'
    BY <1>1, <1>3, <2>1 DEF GridInv, Show
  <2> QED
    BY <1>2, <2>2, <2>3 DEF PickerInv
<1>7. ASSUME NEW r \in Rows, Scroll(r) PROVE PickerInv'
  <2>1. UNCHANGED <<open, grid, picked, moved>> /\ open /\ rows' = [rows EXCEPT ![r] = Data(r)]
    BY <1>7 DEF Scroll
  <2>2. DOMAIN rows' = Rows' /\ rows'[r] = Data(r) /\ \A q \in Rows \ {r} : rows'[q] = rows[q]
    BY <1>3, <2>1 DEF PickerInv, RowsInv
  <2>3. RowsInv'
    <3>1. ASSUME NEW q \in Rows
          PROVE  \/ rows'[q] = SetOf(q)
                 \/ SetOf(q) \notin predefined \cup stickerSets
                 \/ SetOf(q) \in Set /\ IndexOf(SetOf(q), stickerSetIds) # q
      <4>1. CASE q = r
        BY <1>4, <2>2, <4>1
      <4>2. CASE q # r
        BY <2>1, <2>2, <4>2 DEF PickerInv, RowsInv, RowsShowTheirSets
      <4> QED
        BY <4>1, <4>2
    <3> QED
      BY <1>1, <1>3, <2>2, <3>1 DEF RowsInv, RowsShowTheirSets, IndexOf
  <2>4. GridInv'
    BY <1>1, <1>3, <2>1 DEF PickerInv, GridInv
  <2> QED
    BY <1>2, <2>3, <2>4 DEF PickerInv
<1>8. ASSUME ClosePicker PROVE PickerInv'
  <2>1. open' = FALSE
    BY <1>8 DEF ClosePicker
  <2> QED
    BY <1>2, <2>1 DEF PickerInv, RowsInv, RowsShowTheirSets, GridInv
<1> QED
  BY <1>5, <1>6, <1>7, <1>8

\* Other sets are installed: all rows are read anew.
LEMMA InstalledKeepsPicker ==
  ASSUME PickerInv, UpdateInstalledStickerSets
  PROVE  PickerInv'
<1>1. PICK sets : sets = installed'
  OBVIOUS
<1>2. /\ Received("installed") /\ sets = Head(queue).sets
      /\ stickerSetIds' = stickerSetIds \o sets
      /\ UNCHANGED <<stickerSets, predefined, open, grid, picked>>
      /\ rows' = (IF open THEN ReadRows' ELSE rows)
      /\ moved' = (open /\ (moved \/ SetOf(picked)' # SetOf(picked)))
  BY <1>1 DEF UpdateInstalledStickerSets
<1>3. queue' \in Seq(Event) /\ sets \in Seq(Set) /\ stickerSetIds \in Seq(Set)
  BY <1>2, Stocked DEF PickerInv, SetsInv
<1>4. SetsInv'
  <2>1. /\ stickerSetIds' \in Seq(Set) /\ Len(sets) \in Nat /\ Len(stickerSetIds) \in Nat
        /\ Len(stickerSetIds') = Len(stickerSetIds) + Len(sets)
        /\ \A i \in 1 .. Len(stickerSetIds) + Len(sets) :
              stickerSetIds'[i] = IF i <= Len(stickerSetIds) THEN stickerSetIds[i] ELSE sets[i - Len(stickerSetIds)]
    BY <1>2, <1>3, ConcatProperties, LenProperties
  <2>2. ASSUME NEW i \in 1 .. Len(sets) PROVE Placed(sets[i], stickerSetIds')
    <3>1. i + Len(stickerSetIds) \in 1 .. Len(stickerSetIds') /\ stickerSetIds'[i + Len(stickerSetIds)] = sets[i]
      BY <2>1
    <3> QED
      BY <3>1 DEF Placed
  <2> QED
    BY <1>1, <1>3, <2>1, <2>2 DEF SetsInv, Placed
<1>5. RowsInv'
  <2>1. ASSUME open
        PROVE  /\ DOMAIN rows' = Rows'
               /\ \A r \in Rows' : rows'[r] = SetOf(r)' \/ SetOf(r)' \notin predefined' \cup stickerSets'
    <3>1. rows' = [r \in Rows' |-> Data(r)']
      BY <1>2, <2>1 DEF ReadRows
    <3>2. \A r : Data(r)' = SetOf(r)' \/ SetOf(r)' \notin predefined' \cup stickerSets'
      BY DEF Data
    <3> QED
      BY <3>1, <3>2
  <2> QED
    BY <1>2, <2>1 DEF RowsInv, RowsShowTheirSets
<1>6. GridInv'
  <2>1. ASSUME open', grid' # "none", ~moved' PROVE grid' = SetOf(picked)' /\ grid' \in Own \cup stickerSets'
    <3>1. open /\ grid # "none" /\ ~moved /\ SetOf(picked)' = SetOf(picked)
      BY <1>2, <2>1
    <3> QED
      BY <1>2, <3>1 DEF PickerInv, GridInv
  <2> QED
    BY <1>2, <2>1 DEF GridInv
<1> QED
  BY <1>4, <1>5, <1>6 DEF PickerInv

\* A set comes: the view reads the row that dataChanged names.
LEMMA SetKeepsPicker ==
  ASSUME PickerInv, OnGotStickerSet
  PROVE  PickerInv'
<1>1. PICK s, row :
        /\ s = Head(queue).id /\ row = IndexOf(s, Filed(s)) /\ Received("set")
        /\ StoreSet(s) /\ DataChanged(row)
        /\ grid' = IF open /\ SetOf(picked) = s THEN s ELSE grid
  BY DEF OnGotStickerSet
<1>2. /\ stickerSetIds' = Filed(s) /\ stickerSets' = stickerSets \cup {s}
      /\ UNCHANGED <<installed, predefined, open, picked, moved>>
  BY <1>1 DEF StoreSet
<1>3. /\ queue' \in Seq(Event) /\ s \in Set /\ Filed(s) \in Seq(Set)
      /\ \A t : Placed(t, stickerSetIds) =>
            Placed(t, Filed(s)) /\ IndexOf(t, Filed(s)) = IndexOf(t, stickerSetIds)
  BY <1>1, Stocked, FiledSet DEF PickerInv, SetsInv
<1>4. Rows' = Rows /\ \A r : SetOf(r)' = SetOf(r)
  BY <1>2 DEF Sets, Rows, SetOf
<1>5. SetsInv'
  BY <1>2, <1>3 DEF PickerInv, SetsInv
<1>6. RowsInv'
  <2>1. rows' = [r \in DOMAIN rows |-> IF r = row THEN Data(r)' ELSE rows[r]]
    BY <1>1 DEF DataChanged
  <2>2. ASSUME open, NEW r \in Rows
        PROVE  \/ rows'[r] = SetOf(r)
               \/ SetOf(r) \notin predefined' \cup stickerSets'
               \/ SetOf(r) \in Set /\ IndexOf(SetOf(r), stickerSetIds') # r
    <3>1. r \in DOMAIN rows
      BY <2>2 DEF PickerInv, RowsInv
    <3>2. CASE r = row
      <4>1. rows'[r] = Data(r)'
        BY <2>1, <3>1, <3>2
      <4>2. Data(r)' = SetOf(r)' \/ SetOf(r)' \notin predefined' \cup stickerSets'
        BY DEF Data
      <4> QED
        BY <1>4, <4>1, <4>2
    <3>3. CASE r # row
      <4>1. rows'[r] = rows[r]
        BY <2>1, <3>1, <3>3
      <4>2. CASE SetOf(r) = s
        BY <1>1, <1>2, <1>3, <3>3, <4>2
      <4>3. CASE SetOf(r) # s
        <5>1. SetOf(r) \in Set => Placed(SetOf(r), stickerSetIds)
          <6>1. /\ \A q \in Rows \ {0, 1} : q - 1 \in 1 .. Len(installed) /\ SetOf(q) = installed[q - 1]
                /\ SetOf(0) = "favourite" /\ SetOf(1) = "recent"
            BY SetOfRow DEF PickerInv, SetsInv
          <6>2. SetOf(r) \in Set => r \notin {0, 1}
            BY <6>1, OwnSets, SetAssumption
          <6> QED
            BY <6>1, <6>2 DEF PickerInv, SetsInv
        <5> QED
          BY <1>2, <1>3, <2>2, <4>1, <4>3, <5>1 DEF PickerInv, RowsInv, RowsShowTheirSets
      <4> QED
        BY <4>2, <4>3
    <3> QED
      BY <3>2, <3>3
  <2>3. open => DOMAIN rows' = Rows
    BY <2>1 DEF PickerInv, RowsInv
  <2> QED
    BY <1>2, <1>4, <2>2, <2>3 DEF RowsInv, RowsShowTheirSets
<1>7. GridInv'
  BY <1>1, <1>2, <1>4 DEF PickerInv, GridInv
<1> QED
  BY <1>5, <1>6, <1>7 DEF PickerInv

\* The stickers of a predefined set come: dataChanged names its row.
LEMMA OwnKeepsPicker ==
  ASSUME PickerInv, OnGotOwnStickers
  PROVE  PickerInv'
<1>1. PICK s, row :
        s = Head(queue).id /\ row = IndexOf(s, Predefined) /\ DataChanged(row) /\ Received("own")
  BY DEF OnGotOwnStickers
<1>2. /\ predefined' = predefined \cup {s}
      /\ UNCHANGED <<installed, stickerSetIds, stickerSets, open, grid, picked, moved>>
  BY <1>1 DEF OnGotOwnStickers
<1>3. queue' \in Seq(Event) /\ s \in Own
  BY <1>1, Stocked DEF PickerInv, SetsInv
<1>4. Rows' = Rows /\ \A r : SetOf(r)' = SetOf(r)
  BY <1>2 DEF Sets, Rows, SetOf
<1>5. SetsInv'
  BY <1>2, <1>3 DEF PickerInv, SetsInv, Placed
<1>6. RowsInv'
  <2>1. rows' = [r \in DOMAIN rows |-> IF r = row THEN Data(r)' ELSE rows[r]]
    BY <1>1 DEF DataChanged
  <2>2. ASSUME open, NEW r \in Rows
        PROVE  \/ rows'[r] = SetOf(r)
               \/ SetOf(r) \notin predefined' \cup stickerSets
               \/ SetOf(r) \in Set /\ IndexOf(SetOf(r), stickerSetIds) # r
    <3>1. r \in DOMAIN rows
      BY <2>2 DEF PickerInv, RowsInv
    <3>2. CASE r = row
      <4>1. rows'[r] = Data(r)'
        BY <2>1, <3>1, <3>2
      <4>2. Data(r)' = SetOf(r)' \/ SetOf(r)' \notin predefined' \cup stickerSets'
        BY DEF Data
      <4> QED
        BY <1>2, <1>4, <4>1, <4>2
    <3>3. CASE r # row
      <4>1. rows'[r] = rows[r]
        BY <2>1, <3>1, <3>3
      <4>2. SetOf(r) # s
        <5>1. /\ \A q \in Rows \ {0, 1} : SetOf(q) \in Set
              /\ SetOf(0) = "favourite" /\ SetOf(1) = "recent"
          BY SetOfRow DEF PickerInv, SetsInv
        <5>2. CASE r \in {0, 1}
          BY <1>1, <1>3, <3>3, <5>1, <5>2, IndexOfOwn
        <5>3. CASE r \notin {0, 1}
          BY <1>3, <5>1, <5>3, SetAssumption
        <5> QED
          BY <5>2, <5>3
      <4> QED
        BY <1>2, <2>2, <4>1, <4>2 DEF PickerInv, RowsInv, RowsShowTheirSets
    <3> QED
      BY <3>2, <3>3
  <2>3. open => DOMAIN rows' = Rows
    BY <2>1 DEF PickerInv, RowsInv
  <2> QED
    BY <1>2, <1>4, <2>2, <2>3 DEF RowsInv, RowsShowTheirSets, IndexOf
<1>7. GridInv'
  BY <1>2, <1>4 DEF PickerInv, GridInv
<1> QED
  BY <1>5, <1>6, <1>7 DEF PickerInv

\* What is installed is a sequence of sets.
LEMMA ListsAreOfSets == Lists \subseteq Seq(Set)
<1>1. ASSUME NEW S \in SUBSET Set, NEW list \in SetToSeqs(S) PROVE list \in Seq(Set)
  <2>1. Cardinality(S) \in Nat
    BY SetAssumption, FS_Subset, FS_CardinalityType
  <2>2. list \in [1 .. Cardinality(S) -> Set]
    BY <1>1 DEF SetToSeqs
  <2> QED
    BY <2>1, <2>2, SeqDef
<1> QED
  BY <1>1 DEF Lists

\* What happens at TDLib.
LEMMA TdlibKeepsPicker ==
  ASSUME PickerInv, UpdateOwnStickers \/ AnswerAny \/ Refuse \/ Install \/ ChangeOwn
  PROVE  PickerInv' /\ UNCHANGED pickerVars
<1>1. UNCHANGED <<modelVars, pickerVars>>
  BY DEF UpdateOwnStickers, AnswerAny, Answer, AnswerOwn, Refuse, Install, ChangeOwn
<1>2. queue' = queue \/ Received("ownChanged") \/ \E event \in Event : Post(event)
  <2>1. ASSUME NEW s \in Set, Answer(s) PROVE \E event \in Event : Post(event)
    BY <2>1 DEF Answer, Event
  <2>2. ASSUME NEW s \in Own, AnswerOwn(s) \/ Post([type |-> "ownChanged", id |-> s])
        PROVE  \E event \in Event : Post(event)
    BY <2>2 DEF AnswerOwn, Event
  <2>3. ASSUME Install PROVE \E event \in Event : Post(event)
    BY <2>3, ListsAreOfSets DEF Install, Event
  <2> QED
    BY <2>1, <2>2, <2>3 DEF UpdateOwnStickers, AnswerAny, Refuse, ChangeOwn
<1> QED
  BY <1>1, <1>2, PostKeepsPicker

\* So every step keeps them.
LEMMA PickerKeeps ==
  ASSUME PickerInv, [Next]_vars
  PROVE  PickerInv'
<1>1. CASE UNCHANGED vars
  BY <1>1, PostKeepsPicker DEF vars
<1> QED
  BY <1>1, UserKeepsPicker, InstalledKeepsPicker, SetKeepsPicker, OwnKeepsPicker, TdlibKeepsPicker
     DEF Next, HandleObject

\* At first TDLib tells what is installed, and the picker is closed.
LEMMA PickerBegins ==
  ASSUME Init
  PROVE  PickerInv
<1>1. PICK list \in AtFirst : queue = <<[type |-> "installed", sets |-> list]>>
  BY DEF Init
<1>2. PICK event : event = [type |-> "installed", sets |-> list]
  OBVIOUS
<1>3. event \in Event /\ queue = <<event>>
  BY <1>1, <1>2, SetAssumption DEF Event
<1>4. queue \in Seq(Event)
  BY <1>3
<1>5. installed = <<>> /\ stickerSetIds = <<>> /\ <<>> \in Seq(Set) /\ Len(installed) = 0
  BY DEF Init
<1>6. SetsInv
  BY <1>4, <1>5 DEF SetsInv
<1>7. open = FALSE
  BY DEF Init
<1> QED
  BY <1>6, <1>7 DEF PickerInv, RowsInv, RowsShowTheirSets, GridInv

\* The picker's invariant: the types, the rows that are read and the set that is
\* shown (StickerSets::data, StickerPicker.qml).
THEOREM PickerInvariant == Spec => []PickerInv
<1>1. Init => PickerInv
  BY PickerBegins
<1>2. PickerInv /\ [Next]_vars => PickerInv'
  BY PickerKeeps
<1> QED
  BY <1>1, <1>2, PTL DEF Spec

\* A row of the picker shows its set as soon as there is one, except rows other
\* than the place of the set in _stickerSetIds: RowsShowTheirSets, for any
\* finite number of sets and in whatever order they come.
THEOREM RowsAreShown == Spec => []RowsShowTheirSets
<1>1. PickerInv => RowsShowTheirSets
  BY DEF PickerInv, RowsInv
<1> QED
  BY <1>1, PickerInvariant, PTL

\* The stickers under the user's finger are exchanged only by the user, or after
\* another set has moved into the row that was picked: GridStaysPut.
THEOREM GridIsLeftAlone == Spec => GridStaysPut
<1>1. ASSUME PickerInv, [Next]_vars, open, grid # "none", open', picked' = picked, ~moved
      PROVE  grid' = grid
  <2>1. grid = SetOf(picked) /\ grid \in Own \cup stickerSets
    BY <1>1 DEF PickerInv, GridInv
  <2>2. ~OpenPicker /\ ~ClosePicker
    BY <1>1 DEF OpenPicker, ClosePicker
  <2>3. ASSUME NEW r \in Rows, Pick(r) PROVE grid' = grid
    BY <1>1, <2>1, <2>3 DEF Pick, Show
  <2>4. ASSUME OnGotStickerSet PROVE grid' = grid
    <3>1. PICK s : grid' = IF open /\ SetOf(picked) = s THEN s ELSE grid
      BY <2>4 DEF OnGotStickerSet
    <3> QED
      BY <2>1, <3>1
  <2>5. ASSUME UpdateInstalledStickerSets \/ OnGotOwnStickers \/ (\E r \in Rows : Scroll(r)) PROVE grid' = grid
    BY <2>5 DEF UpdateInstalledStickerSets, OnGotOwnStickers, Scroll
  <2>6. ASSUME UpdateOwnStickers \/ AnswerAny \/ Refuse \/ Install \/ ChangeOwn PROVE grid' = grid
    BY <1>1, <2>6, TdlibKeepsPicker DEF pickerVars
  <2>7. CASE UNCHANGED vars
    BY <2>7 DEF vars, pickerVars
  <2> QED
    BY <1>1, <2>2, <2>3, <2>4, <2>5, <2>6, <2>7 DEF Next, HandleObject
<1>2. PickerInv /\ [Next]_vars
        => [open /\ grid # "none" /\ open' /\ picked' = picked /\ ~moved => grid' = grid]_vars
  BY <1>1
<1> QED
  BY <1>2, PickerInvariant, PTL DEF Spec, GridStaysPut

-----------------------------------------------------------------------------
(***************************************************************************)
(* The field of the page of a chat: the field, Chat and TDLib agree when   *)
(* nothing is under way, and what the user wrote is kept until it is sent, *)
(* once and as it was meant.  All three theorems rest on what TDLib's      *)
(* draft is going to be: the last words that were saved.                   *)
(***************************************************************************)
Newest == IF requests = <<>> THEN tdDraft ELSE requests[Len(requests)]

Words == 0 .. acts
DraftReport == [type : {"draft"}, words : Nat]

(***************************************************************************)
(* Words are those of an act; what TDLib has was reported, or is being     *)
(* reported last; a page that is gone has no words.                        *)
(***************************************************************************)
DraftTypes ==
    /\ acts \in Nat /\ requests \in Seq(Nat) /\ queue \in Seq(DraftReport)
    /\ {text, draft, tdDraft, mine} \subseteq Words
    /\ \A i \in 1 .. Len(requests) : requests[i] \in Words
    /\ \A i \in 1 .. Len(queue) : queue[i].words \in Words
    /\ page \in {"none", "behind", "active"}
    /\ focus \in BOOLEAN /\ unsaved \in BOOLEAN

DraftsReported == tdDraft = IF queue = <<>> THEN draft ELSE queue[Len(queue)].words

PageInv ==
    /\ page = "none" => text = Nothing
    /\ unsaved => page = "active"

WordsInv == DraftTypes /\ DraftsReported /\ PageInv

(***************************************************************************)
(* Saving and reporting.                                                   *)
(***************************************************************************)
LEMMA Saved ==
  ASSUME requests \in Seq(Nat), NEW drafts \in Seq(Nat), Save(drafts)
  PROVE  /\ requests' \in Seq(Nat)
         /\ drafts = <<>> => requests' = requests
         /\ drafts # <<>> => /\ requests' # <<>> /\ requests' # requests
                             /\ requests'[Len(requests')] = drafts[Len(drafts)]
         /\ \A i \in 1 .. Len(requests') : \/ \E j \in 1 .. Len(requests) : requests'[i] = requests[j]
                                           \/ \E j \in 1 .. Len(drafts) : requests'[i] = drafts[j]
<1>1. Len(requests) \in Nat /\ Len(drafts) \in Nat /\ requests' = requests \o drafts
  BY LenProperties DEF Save
<1>2. /\ requests' \in Seq(Nat) /\ Len(requests') = Len(requests) + Len(drafts)
      /\ \A i \in 1 .. Len(requests) + Len(drafts) :
            requests'[i] = IF i <= Len(requests) THEN requests[i] ELSE drafts[i - Len(requests)]
  BY <1>1, ConcatProperties
<1>3. CASE drafts = <<>>
  <2>1. Len(drafts) = 0
    BY <1>3
  <2>2. requests' = requests
    BY <1>1, <1>3
  <2> QED
    BY <1>1, <1>2, <1>3, <2>1, <2>2
<1>4. CASE drafts # <<>>
  <2>1. Len(drafts) > 0
    BY <1>1, <1>4, EmptySeq
  <2>2. Len(requests') # Len(requests) /\ Len(requests') > 0
    BY <1>1, <1>2, <2>1
  <2>3. requests' # <<>>
    BY <2>2, EmptySeq
  <2>4. requests'[Len(requests')] = drafts[Len(drafts)]
    BY <1>1, <1>2, <2>1
  <2>5. ASSUME NEW i \in 1 .. Len(requests')
        PROVE  \/ \E j \in 1 .. Len(requests) : requests'[i] = requests[j]
               \/ \E j \in 1 .. Len(drafts) : requests'[i] = drafts[j]
    <3>1. CASE i <= Len(requests)
      BY <1>1, <1>2, <3>1
    <3>2. CASE i > Len(requests)
      <4>1. i - Len(requests) \in 1 .. Len(drafts) /\ requests'[i] = drafts[i - Len(requests)]
        BY <1>1, <1>2, <3>2
      <4> QED
        BY <4>1
    <3> QED
      BY <1>1, <3>1, <3>2
  <2> QED
    BY <1>2, <1>4, <2>2, <2>3, <2>4, <2>5
<1> QED
  BY <1>3, <1>4

\* What is left when the first is taken.
LEMMA TailOfWords ==
  ASSUME NEW S, NEW s \in Seq(S), s # <<>>
  PROVE  /\ Head(s) = s[1] /\ Head(s) \in S /\ 1 \in 1 .. Len(s) /\ Tail(s) \in Seq(S)
         /\ \A i \in 1 .. Len(Tail(s)) : i + 1 \in 1 .. Len(s) /\ Tail(s)[i] = s[i + 1]
         /\ \A j \in 1 .. Len(s) : s[j] = Head(s) \/ \E i \in 1 .. Len(Tail(s)) : Tail(s)[i] = s[j]
         /\ IF Tail(s) = <<>> THEN s[Len(s)] = Head(s) ELSE Tail(s)[Len(Tail(s))] = s[Len(s)]
<1>1. /\ Head(s) \in S /\ Tail(s) \in Seq(S) /\ Len(Tail(s)) = Len(s) - 1
      /\ \A i \in 1 .. Len(Tail(s)) : Tail(s)[i] = s[i + 1]
  BY HeadTailProperties
<1>2. Len(s) \in Nat \ {0} /\ Head(s) = s[1]
  BY EmptySeq
<1>3. Tail(s) = <<>> <=> Len(s) = 1
  <2>1. Len(Tail(s)) = 0 <=> Tail(s) = <<>>
    BY <1>1, EmptySeq
  <2> QED
    BY <1>1, <1>2, <2>1
<1>4. ASSUME NEW j \in 1 .. Len(s), j # 1 PROVE \E i \in 1 .. Len(Tail(s)) : Tail(s)[i] = s[j]
  <2>1. j - 1 \in 1 .. Len(Tail(s)) /\ Tail(s)[j - 1] = s[(j - 1) + 1] /\ (j - 1) + 1 = j
    BY <1>1, <1>2, <1>4
  <2> QED
    BY <2>1
<1>5. IF Tail(s) = <<>> THEN s[Len(s)] = Head(s) ELSE Tail(s)[Len(Tail(s))] = s[Len(s)]
  BY <1>1, <1>2, <1>3
<1> QED
  BY <1>1, <1>2, <1>4, <1>5

\* The words of the field are saved.
LEMMA SavedText ==
  ASSUME requests \in Seq(Nat), NEW words \in Nat, Save(<<words>>)
  PROVE  /\ requests' \in Seq(Nat) /\ requests' # <<>> /\ requests' # requests
         /\ requests'[Len(requests')] = words
         /\ \A i \in 1 .. Len(requests') : \/ \E j \in 1 .. Len(requests) : requests'[i] = requests[j]
                                           \/ requests'[i] = words
<1> DEFINE drafts == <<words>>
<1>1. drafts \in Seq(Nat) /\ drafts # <<>> /\ Len(drafts) = 1 /\ drafts[1] = words
  OBVIOUS
<1>2. Save(drafts)
  OBVIOUS
<1> HIDE DEF drafts
<1>3. drafts[Len(drafts)] = words /\ \A j \in 1 .. Len(drafts) : drafts[j] = words
  BY <1>1
<1> QED
  BY <1>1, <1>2, <1>3, Saved

\* onNewReplyMessageIdChanged saves the words, or nothing.
LEMMA SavedReply ==
  ASSUME requests \in Seq(Nat), NEW words \in Nat, NEW r, Save(SavedByReply(r, words))
  PROVE  /\ requests' \in Seq(Nat)
         /\ requests' # requests => requests' # <<>> /\ requests'[Len(requests')] = words
         /\ \A i \in 1 .. Len(requests') : \/ \E j \in 1 .. Len(requests) : requests'[i] = requests[j]
                                           \/ requests'[i] = words
<1>1. CASE r # replying /\ draft # Nothing
  <2>1. Save(<<words>>)
    BY <1>1 DEF SavedByReply
  <2> QED
    BY <2>1, SavedText
<1>2. CASE ~(r # replying /\ draft # Nothing)
  <2>1. requests' = requests \o <<>>
    BY <1>2 DEF SavedByReply, Save
  <2>2. requests' = requests
    BY <2>1, ConcatEmptySeq
  <2> QED
    BY <2>2
<1> QED
  BY <1>1, <1>2

\* Sending saves the words at most, and that there are none if it had the focus.
LEMMA SavedSend ==
  ASSUME requests \in Seq(Nat), text \in Nat, focus \in BOOLEAN, Save(SavedBySend)
  PROVE  /\ requests' \in Seq(Nat)
         /\ focus => requests' # <<>> /\ requests'[Len(requests')] = Nothing
         /\ \A i \in 1 .. Len(requests') : \/ \E j \in 1 .. Len(requests) : requests'[i] = requests[j]
                                           \/ requests'[i] \in {text, Nothing}
<1> DEFINE reply == IF editing THEN <<>> ELSE SavedByReply(FALSE, text)
           empty == IF focus THEN <<Nothing>> ELSE <<>>
           drafts == reply \o empty
<1>1. reply \in Seq({text, Nothing}) /\ empty \in Seq({text, Nothing})
  <2>1. reply = <<>> \/ reply = <<text>>
    BY DEF SavedByReply
  <2>2. empty = <<>> \/ empty = <<Nothing>>
    OBVIOUS
  <2>3. \A w \in {text, Nothing} : <<w>> \in Seq({text, Nothing})
    OBVIOUS
  <2>4. <<>> \in Seq({text, Nothing})
    BY EmptySeq
  <2> HIDE DEF reply, empty
  <2> QED
    BY <2>1, <2>2, <2>3, <2>4
<1>2. focus => empty # <<>> /\ Len(empty) = 1 /\ empty[1] = Nothing
  OBVIOUS
<1>3. Save(drafts)
  BY DEF SavedBySend
<1> HIDE DEF reply, empty
<1>4. /\ drafts \in Seq({text, Nothing}) /\ Len(drafts) = Len(reply) + Len(empty)
      /\ Len(reply) \in Nat /\ Len(empty) \in Nat
      /\ focus => drafts[Len(drafts)] = Nothing /\ Len(drafts) # 0
  BY <1>1, <1>2, ConcatProperties, LenProperties
<1> HIDE DEF drafts
<1>5. /\ drafts \in Seq(Nat) /\ \A j \in 1 .. Len(drafts) : drafts[j] \in {text, Nothing}
      /\ focus => drafts # <<>>
  <2>1. {text, Nothing} \subseteq Nat
    BY DEF Nothing
  <2>2. drafts \in Seq(Nat)
    BY <1>4, <2>1
  <2>3. \A j \in 1 .. Len(drafts) : drafts[j] \in {text, Nothing}
    BY <1>4, LenProperties
  <2> QED
    BY <1>4, <2>2, <2>3, EmptySeq
<1> QED
  BY <1>3, <1>4, <1>5, Saved

\* TDLib reports a draft, behind the other reports.
LEMMA ReportPosted ==
  ASSUME queue \in Seq(DraftReport), NEW words \in Nat, Post([type |-> "draft", words |-> words])
  PROVE  /\ queue' \in Seq(DraftReport) /\ queue' # <<>> /\ queue'[Len(queue')].words = words
         /\ \A i \in 1 .. Len(queue') : \/ \E j \in 1 .. Len(queue) : queue'[i] = queue[j]
                                        \/ queue'[i].words = words
<1>1. PICK report \in DraftReport : report = [type |-> "draft", words |-> words]
  BY DEF DraftReport
<1>2. report.words = words /\ queue' = Append(queue, report) /\ Len(queue) \in Nat
  BY <1>1, LenProperties DEF Post
<1>3. /\ queue' \in Seq(DraftReport) /\ queue' # <<>> /\ Len(queue') = Len(queue) + 1
      /\ \A i \in 1 .. Len(queue) : queue'[i] = queue[i]
      /\ queue'[Len(queue) + 1] = report
  BY <1>2, AppendProperties
<1>4. \A i \in 1 .. Len(queue') : i \in 1 .. Len(queue) \/ i = Len(queue) + 1
  BY <1>2, <1>3
<1> QED
  BY <1>2, <1>3, <1>4

\* The first of the reports is taken.
LEMMA ReportTaken ==
  ASSUME WordsInv, Received("draft")
  PROVE  /\ queue' \in Seq(DraftReport) /\ Head(queue).words \in Words
         /\ \A i \in 1 .. Len(queue') : \E j \in 1 .. Len(queue) : queue'[i] = queue[j]
         /\ tdDraft = IF queue' = <<>> THEN Head(queue).words ELSE queue'[Len(queue')].words
<1>1. queue \in Seq(DraftReport) /\ queue # <<>> /\ queue' = Tail(queue)
  BY DEF WordsInv, DraftTypes, Received
<1>2. /\ Head(queue) = queue[1] /\ 1 \in 1 .. Len(queue) /\ queue' \in Seq(DraftReport)
      /\ \A i \in 1 .. Len(queue') : i + 1 \in 1 .. Len(queue) /\ queue'[i] = queue[i + 1]
      /\ IF queue' = <<>> THEN queue[Len(queue)] = Head(queue) ELSE queue'[Len(queue')] = queue[Len(queue)]
  BY <1>1, TailOfWords
<1> QED
  BY <1>1, <1>2 DEF WordsInv, DraftTypes, DraftsReported

\* TDLib takes the first of the requests: what its draft is going to be stays.
LEMMA RequestTaken ==
  ASSUME WordsInv, HandleSetChatDraftMessage
  PROVE  /\ requests' \in Seq(Nat) /\ tdDraft' \in Words /\ Newest' = Newest
         /\ \A i \in 1 .. Len(requests') : \E j \in 1 .. Len(requests) : requests'[i] = requests[j]
         /\ \A j \in 1 .. Len(requests) : requests[j] = tdDraft' \/ \E i \in 1 .. Len(requests') : requests'[i] = requests[j]
<1>1. requests \in Seq(Nat) /\ requests # <<>> /\ requests' = Tail(requests) /\ tdDraft' = Head(requests)
  BY DEF WordsInv, DraftTypes, HandleSetChatDraftMessage
<1>2. /\ Head(requests) = requests[1] /\ 1 \in 1 .. Len(requests) /\ requests' \in Seq(Nat)
      /\ \A i \in 1 .. Len(requests') : i + 1 \in 1 .. Len(requests) /\ requests'[i] = requests[i + 1]
      /\ \A j \in 1 .. Len(requests) : requests[j] = Head(requests) \/ \E i \in 1 .. Len(requests') : requests'[i] = requests[j]
      /\ IF requests' = <<>> THEN requests[Len(requests)] = Head(requests) ELSE requests'[Len(requests')] = requests[Len(requests)]
  BY <1>1, TailOfWords
<1>3. Newest' = Newest
  BY <1>1, <1>2 DEF Newest
<1> QED
  BY <1>1, <1>2, <1>3 DEF WordsInv, DraftTypes

\* Words stay those of an act, whatever is saved.
LEMMA WordsStay ==
  ASSUME WordsInv, acts' \in {acts, acts + 1},
         requests' \in Seq(Nat), queue' \in Seq(DraftReport),
         \A i \in 1 .. Len(requests') : requests'[i] \in Words' \/ \E j \in 1 .. Len(requests) : requests'[i] = requests[j],
         \A i \in 1 .. Len(queue') : queue'[i].words \in Words' \/ \E j \in 1 .. Len(queue) : queue'[i] = queue[j],
         {text', draft', tdDraft', mine'} \subseteq Words', page' \in {"none", "behind", "active"},
         focus' \in BOOLEAN, unsaved' \in BOOLEAN
  PROVE  DraftTypes'
<1>1. acts \in Nat /\ acts' \in Nat /\ Words \subseteq Words'
  BY DEF WordsInv, DraftTypes, Words
<1> QED
  BY <1>1 DEF WordsInv, DraftTypes

\* Every step keeps the types and what was reported.
LEMMA WordsKeep == WordsInv /\ [ComposerNext]_(composerVars) => WordsInv'
<1> SUFFICES ASSUME WordsInv, [ComposerNext]_(composerVars) PROVE WordsInv'
  OBVIOUS
<1>0. /\ acts \in Nat /\ requests \in Seq(Nat) /\ queue \in Seq(DraftReport)
      /\ text \in Words /\ draft \in Words /\ tdDraft \in Words /\ mine \in Words
      /\ text \in Nat /\ Nothing \in Words /\ acts + 1 \in Nat
      /\ page \in {"none", "behind", "active"} /\ focus \in BOOLEAN /\ unsaved \in BOOLEAN
  BY DEF WordsInv, DraftTypes, Words, Nothing
<1>00. acts' = acts => Words' = Words
  BY DEF Words
<1>000. acts' = acts + 1 => Words \subseteq Words' /\ NewWords \in Words' /\ NewWords \in Nat
  BY <1>0 DEF Words, NewWords
<1>1. CASE PushPage
  <2>1. DraftTypes'
    BY <1>0, <1>00, <1>1, WordsStay DEF PushPage
  <2> QED
    BY <1>1, <2>1 DEF PushPage, WordsInv, DraftsReported, PageInv
<1>2. CASE PageActive
  <2>1. text' \in Words /\ unsaved' \in BOOLEAN /\ page' = "active"
    BY <1>0, <1>2 DEF PageActive, Fill
  <2>2. DraftTypes'
    BY <1>0, <1>00, <1>2, <2>1, WordsStay DEF PageActive
  <2> QED
    BY <1>2, <2>1, <2>2 DEF PageActive, WordsInv, DraftsReported, PageInv
<1>3. CASE Cover
  <2>1. DraftTypes'
    BY <1>0, <1>00, <1>3, SavedText, WordsStay DEF Cover
  <2> QED
    BY <1>3, <2>1 DEF Cover, WordsInv, DraftsReported, PageInv
<1>4. CASE PopPage
  <2>1. /\ requests' \in Seq(Nat)
        /\ \A i \in 1 .. Len(requests') : requests'[i] \in Words \/ \E j \in 1 .. Len(requests) : requests'[i] = requests[j]
    BY <1>0, <1>4, SavedText DEF PopPage
  <2>2. DraftTypes'
    BY <1>0, <1>00, <1>4, <2>1, WordsStay DEF PopPage, Destroy
  <2> QED
    BY <1>4, <2>2 DEF PopPage, Destroy, WordsInv, DraftsReported, PageInv
<1>5. CASE TakeFocus
  <2>1. DraftTypes'
    BY <1>0, <1>00, <1>5, WordsStay DEF TakeFocus, wordVars
  <2> QED
    BY <1>5, <2>1 DEF TakeFocus, WordsInv, DraftsReported, PageInv, wordVars
<1>6. CASE LoseFocus
  <2>1. DraftTypes'
    BY <1>0, <1>00, <1>6, SavedText, WordsStay DEF LoseFocus
  <2> QED
    BY <1>6, <2>1 DEF LoseFocus, WordsInv, DraftsReported, PageInv
<1>7. CASE Type
  <2>1. acts' = acts + 1 /\ text' = NewWords /\ mine' = NewWords
    BY <1>7 DEF Type, Written, Act
  <2>2. DraftTypes'
    BY <1>0, <1>000, <1>7, <2>1, WordsStay DEF Type
  <2> QED
    BY <1>7, <2>2 DEF Type, WordsInv, DraftsReported, PageInv
<1>8. CASE Reply \/ CancelReply
  <2>1. \E r \in BOOLEAN : Save(SavedByReply(r, text))
    BY <1>8 DEF Reply, CancelReply
  <2>2. DraftTypes'
    BY <1>0, <1>00, <1>8, <2>1, SavedReply, WordsStay DEF Reply, CancelReply
  <2> QED
    BY <1>8, <2>2 DEF Reply, CancelReply, WordsInv, DraftsReported, PageInv
<1>9. CASE Edit
  <2>1. /\ acts' = acts + 1 /\ text' = NewWords /\ mine' = Nothing /\ Save(SavedByReply(FALSE, NewWords))
        /\ UNCHANGED <<queue, page, draft, tdDraft>> /\ unsaved' \in BOOLEAN /\ focus' = TRUE /\ page = "active"
    BY <1>9 DEF Edit, Written, Act
  <2>2. DraftTypes'
    BY <1>0, <1>000, <2>1, SavedReply, WordsStay
  <2> QED
    BY <2>1, <2>2 DEF WordsInv, DraftsReported, PageInv
<1>10. CASE CancelEdit
  <2>1. /\ text' = Nothing /\ mine' = Nothing /\ page = "active" /\ unsaved' = TRUE
        /\ UNCHANGED <<queue, page, focus, draft, tdDraft, requests, acts>>
    BY <1>10 DEF CancelEdit, Written
  <2>2. DraftTypes'
    BY <1>0, <1>00, <2>1, WordsStay
  <2> QED
    BY <2>1, <2>2 DEF WordsInv, DraftsReported, PageInv
<1>11. CASE SendMessage
  <2>1. /\ text' = Nothing /\ mine' \in {mine, Nothing} /\ page = "active" /\ unsaved' = FALSE /\ focus' = TRUE
        /\ Save(SavedBySend) /\ UNCHANGED <<queue, page, draft, tdDraft, acts>>
    BY <1>11 DEF SendMessage, EditMessage, Sent
  <2>2. DraftTypes'
    BY <1>0, <1>00, <2>1, SavedSend, WordsStay
  <2> QED
    BY <2>1, <2>2 DEF WordsInv, DraftsReported, PageInv
<1>12. CASE UpdateChatDraftMessage
  <2>1. /\ draft' = Head(queue).words /\ draft' \in Words /\ unsaved' \in BOOLEAN
        /\ IF page = "none" THEN UNCHANGED <<text, unsaved>> ELSE text' = draft' /\ (unsaved' => unsaved)
    BY <1>0, <1>12, ReportTaken DEF UpdateChatDraftMessage, Fill
  <2>2. DraftTypes'
    BY <1>0, <1>00, <1>12, <2>1, ReportTaken, WordsStay DEF UpdateChatDraftMessage
  <2>3. DraftsReported'
    BY <1>12, <2>1, ReportTaken DEF UpdateChatDraftMessage, DraftsReported
  <2> QED
    BY <1>12, <2>1, <2>2, <2>3 DEF UpdateChatDraftMessage, WordsInv, PageInv
<1>16. CASE OnCustomEmojiUpdated \/ OnDraftMessageEmojisChanged
  <2>1. /\ page # "none" /\ text' = draft /\ unsaved' = (unsaved /\ draft = text)
        /\ UNCHANGED <<queue, page, focus, draft, tdDraft, requests, acts, mine>>
    BY <1>16 DEF OnCustomEmojiUpdated, OnDraftMessageEmojisChanged, DraftMessageChanged, Fill
  <2>2. DraftTypes'
    BY <1>0, <1>00, <2>1, WordsStay
  <2> QED
    BY <2>1, <2>2 DEF WordsInv, DraftsReported, PageInv
<1>13. CASE HandleSetChatDraftMessage
  <2>1. /\ UNCHANGED <<fieldVars, draft, acts, wordVars>> /\ tdDraft' \in Words /\ tdDraft' \in Nat
        /\ \/ tdDraft' = tdDraft /\ UNCHANGED queue
           \/ Post([type |-> "draft", words |-> tdDraft'])
    BY <1>0, <1>13, RequestTaken DEF HandleSetChatDraftMessage, Words
  <2>2. DraftTypes'
    BY <1>0, <1>00, <1>13, <2>1, RequestTaken, ReportPosted, WordsStay DEF fieldVars, wordVars
  <2>3. DraftsReported'
    BY <1>0, <2>1, ReportPosted DEF DraftsReported, WordsInv
  <2> QED
    BY <2>1, <2>2, <2>3 DEF WordsInv, PageInv, fieldVars, wordVars
<1>14. CASE OtherDevice
  <2>1. /\ acts' = acts + 1 /\ tdDraft' \in {NewWords, Nothing} /\ mine' = Nothing
        /\ Post([type |-> "draft", words |-> tdDraft'])
        /\ UNCHANGED <<fieldVars, draft, requests, unsaved>>
    BY <1>14 DEF OtherDevice, Act
  <2>2. DraftTypes'
    BY <1>0, <1>000, <2>1, ReportPosted, WordsStay DEF fieldVars, Nothing
  <2>3. DraftsReported'
    BY <1>0, <1>000, <2>1, ReportPosted DEF DraftsReported, Nothing
  <2> QED
    BY <2>1, <2>2, <2>3 DEF WordsInv, PageInv, fieldVars
<1>15. CASE UNCHANGED composerVars
  <2>1. DraftTypes'
    BY <1>0, <1>00, <1>15, WordsStay DEF composerVars, fieldVars, wordVars
  <2> QED
    BY <1>15, <2>1 DEF composerVars, fieldVars, wordVars, WordsInv, DraftsReported, PageInv
<1> QED
  BY <1>1, <1>2, <1>3, <1>4, <1>5, <1>6, <1>7, <1>8, <1>9, <1>10, <1>11, <1>12, <1>13, <1>14, <1>15, <1>16 DEF ComposerNext

(***************************************************************************)
(* The field, once it is saved, has the last words that were saved, or a   *)
(* report will put others into it: one on its way, one that a request will *)
(* make, or the draft when the page comes to the front.                    *)
(***************************************************************************)
Changing == \E i \in 1 .. Len(requests) : requests[i] # tdDraft

FieldInv ==
    page # "none" /\ ~unsaved /\ ~unfocused =>
        \/ text = Newest
        \/ queue # <<>> \/ Changing
        \/ page = "behind" /\ draft # Nothing

\* What is under way, if no request changes anything, has the words that were saved last.
LEMMA Unchanging ==
  ASSUME WordsInv, ~Changing
  PROVE  Newest = tdDraft
<1>1. requests # <<>> => Len(requests) \in 1 .. Len(requests)
  BY EmptySeq DEF WordsInv, DraftTypes
<1> QED
  BY <1>1 DEF Changing, Newest

\* FieldInv is kept where neither the field nor what is under way changes.
LEMMA FieldStays ==
  ASSUME FieldInv, UNCHANGED <<text, queue, requests, tdDraft, draft>>,
         unsaved => unsaved', unfocused => unfocused', page' = page
  PROVE  FieldInv'
BY DEF FieldInv, Newest, Changing

\* The field was saved.
LEMMA FieldSaved ==
  ASSUME requests' # <<>>, requests'[Len(requests')] = text'
  PROVE  FieldInv'
BY DEF FieldInv, Newest

\* A saved reply: the field, or nothing.
LEMMA FieldReplied ==
  ASSUME WordsInv, FieldInv, NEW r, Save(SavedByReply(r, text)),
         UNCHANGED <<page, text, queue, tdDraft, draft, unfocused>>, unsaved' = (unsaved /\ requests' = requests)
  PROVE  FieldInv'
<1>1. requests \in Seq(Nat) /\ text \in Nat /\ unsaved \in BOOLEAN
  BY DEF WordsInv, DraftTypes, Words
<1>2. CASE requests' = requests
  BY <1>1, <1>2, FieldStays
<1>3. CASE requests' # requests
  BY <1>1, <1>3, SavedReply, FieldSaved
<1> QED
  BY <1>2, <1>3

\* Every step keeps the field and the draft together.
LEMMA FieldKeeps == WordsInv /\ FieldInv /\ [ComposerNext]_(composerVars) => FieldInv'
<1> SUFFICES ASSUME WordsInv, FieldInv, [ComposerNext]_(composerVars) PROVE FieldInv'
  OBVIOUS
<1>0. /\ requests \in Seq(Nat) /\ text \in Nat /\ draft \in Nat /\ acts \in Nat /\ queue \in Seq(DraftReport)
      /\ NewWords \in Nat /\ focus \in BOOLEAN /\ unsaved \in BOOLEAN
  BY DEF WordsInv, DraftTypes, Words, NewWords
<1>1. CASE PushPage
  <2>1. /\ page' = "behind" /\ text' = Nothing /\ UNCHANGED <<queue, requests, tdDraft, draft>>
    BY <1>1 DEF PushPage, WordsInv, PageInv
  <2>2. ~(queue # <<>> \/ Changing) => Newest = draft
    BY Unchanging DEF WordsInv, DraftsReported
  <2> QED
    BY <2>1, <2>2 DEF FieldInv, Newest, Changing
<1>2. CASE PageActive
  <2>1. /\ page = "behind" /\ page' = "active" /\ UNCHANGED <<queue, requests, tdDraft, draft, unfocused>>
        /\ ~unsaved /\ IF draft = Nothing THEN text' = text ELSE text' = draft
    BY <1>2 DEF PageActive, Fill, WordsInv, PageInv
  <2>2. ~(queue # <<>> \/ Changing) => Newest = draft
    BY Unchanging DEF WordsInv, DraftsReported
  <2> QED
    BY <2>1, <2>2 DEF FieldInv, Newest, Changing
<1>3. CASE Cover \/ LoseFocus
  <2>1. Save(<<text>>) /\ text' = text
    BY <1>3 DEF Cover, LoseFocus
  <2> QED
    BY <1>0, <2>1, SavedText, FieldSaved
<1>4. CASE PopPage
  BY <1>4 DEF PopPage, Destroy, FieldInv
<1>5. CASE TakeFocus
  BY <1>5, FieldStays DEF TakeFocus, wordVars
<1>7. CASE Type \/ CancelEdit
  BY <1>7 DEF Type, CancelEdit, FieldInv
<1>8. CASE Reply \/ CancelReply
  BY <1>8, FieldReplied DEF Reply, CancelReply
<1>9. CASE Edit
  <2>1. text' = NewWords /\ Save(SavedByReply(FALSE, NewWords)) /\ unsaved' = (requests' = requests)
    BY <1>9 DEF Edit, Written
  <2> QED
    BY <1>0, <2>1, SavedReply, FieldSaved DEF FieldInv
<1>11. CASE SendMessage
  <2>1. text' = Nothing /\ Save(SavedBySend) /\ unfocused' = (unfocused \/ ~focus)
    BY <1>11 DEF SendMessage
  <2> QED
    BY <1>0, <2>1, SavedSend, FieldSaved DEF FieldInv
<1>12. CASE UpdateChatDraftMessage
  <2>1. /\ draft' = Head(queue).words /\ UNCHANGED <<page, requests, tdDraft, unfocused>>
        /\ page # "none" => text' = draft'
    BY <1>12 DEF UpdateChatDraftMessage, Fill
  <2>2. queue' = <<>> => tdDraft = draft'
    BY <1>12, <2>1, ReportTaken DEF UpdateChatDraftMessage
  <2> QED
    BY <2>1, <2>2, Unchanging DEF FieldInv, Newest, Changing
<1>16. CASE OnCustomEmojiUpdated \/ OnDraftMessageEmojisChanged
  <2>1. text' = draft /\ UNCHANGED <<queue, page, draft, tdDraft, requests, unfocused>>
    BY <1>16 DEF OnCustomEmojiUpdated, OnDraftMessageEmojisChanged, DraftMessageChanged, Fill
  <2>2. ~(queue # <<>> \/ Changing) => Newest = draft
    BY Unchanging DEF WordsInv, DraftsReported
  <2> QED
    BY <2>1, <2>2 DEF FieldInv, Newest, Changing
<1>13. CASE HandleSetChatDraftMessage
  <2>1. /\ UNCHANGED <<page, text, draft, unsaved, unfocused>> /\ tdDraft' \in Nat
        /\ \/ tdDraft' = tdDraft /\ UNCHANGED queue
           \/ Post([type |-> "draft", words |-> tdDraft'])
    BY <1>13, RequestTaken DEF HandleSetChatDraftMessage, fieldVars, wordVars, Words
  <2>2. CASE Post([type |-> "draft", words |-> tdDraft'])
    BY <1>0, <2>1, <2>2, ReportPosted DEF FieldInv
  <2>3. CASE tdDraft' = tdDraft /\ UNCHANGED queue
    <3>1. Changing => Changing'
      BY <1>13, <2>3, RequestTaken DEF Changing
    <3> QED
      BY <1>13, <2>1, <2>3, <3>1, RequestTaken DEF FieldInv
  <2> QED
    BY <2>1, <2>2, <2>3
<1>14. CASE OtherDevice
  <2>1. Post([type |-> "draft", words |-> tdDraft']) /\ tdDraft' \in Nat
    BY <1>0, <1>14 DEF OtherDevice, Nothing
  <2> QED
    BY <1>0, <2>1, ReportPosted DEF FieldInv
<1>15. CASE UNCHANGED composerVars
  BY <1>15, FieldStays DEF composerVars, fieldVars, wordVars
<1> QED
  BY <1>1, <1>2, <1>3, <1>4, <1>5, <1>7, <1>8, <1>9, <1>11, <1>12, <1>13, <1>14, <1>15, <1>16 DEF ComposerNext

(***************************************************************************)
(* What the user wrote, unless it was sent, dropped or replaced: the page  *)
(* in front has it in its field, and once that was saved it is also what   *)
(* TDLib's draft is going to be.                                           *)
(***************************************************************************)
KeptInv ==
    mine # Nothing /\ ~replaced =>
        /\ page = "active" => text = mine
        /\ ~unsaved => Newest = mine

\* What is neither written, saved nor sent is kept as it was.
LEMMA KeptStays ==
  ASSUME KeptInv, UNCHANGED <<page, text, requests, tdDraft, mine>>,
         unsaved' = unsaved, replaced => replaced'
  PROVE  KeptInv'
BY DEF KeptInv, Newest

\* A saved field.
LEMMA KeptSaved ==
  ASSUME KeptInv, page = "active", text' = text \/ page' # "active", mine' = mine, replaced' = replaced,
         requests' # <<>>, requests'[Len(requests')] = text
  PROVE  KeptInv'
BY DEF KeptInv, Newest

\* A reply that begins or ends saves the words of the field.
LEMMA KeptReplied ==
  ASSUME WordsInv, KeptInv, NEW r, Save(SavedByReply(r, text)), page = "active",
         UNCHANGED <<page, text, tdDraft, mine, replaced>>, unsaved' = (unsaved /\ requests' = requests)
  PROVE  KeptInv'
<1>1. requests \in Seq(Nat) /\ text \in Nat /\ unsaved \in BOOLEAN
  BY DEF WordsInv, DraftTypes, Words
<1>2. CASE requests' = requests
  BY <1>1, <1>2, KeptStays
<1>3. CASE requests' # requests
  BY <1>1, <1>3, SavedReply, KeptSaved
<1> QED
  BY <1>2, <1>3

\* Every step keeps what the user wrote.
LEMMA KeptKeeps == WordsInv /\ KeptInv /\ [ComposerNext]_(composerVars) => KeptInv'
<1> SUFFICES ASSUME WordsInv, KeptInv, [ComposerNext]_(composerVars) PROVE KeptInv'
  OBVIOUS
<1>0. requests \in Seq(Nat) /\ text \in Nat /\ unsaved \in BOOLEAN
  BY DEF WordsInv, DraftTypes, Words
<1>1. CASE PushPage
  BY <1>1 DEF PushPage, KeptInv, Newest, WordsInv, PageInv
<1>2. CASE PageActive
  <2>1. /\ ~unsaved /\ ~unsaved' /\ UNCHANGED <<mine, requests, tdDraft>>
        /\ replaced' = (replaced \/ (~Quiet /\ text' # mine))
        /\ IF draft = Nothing THEN text' = text ELSE text' = draft
    BY <1>2 DEF PageActive, Fill, WordsInv, PageInv
  <2>2. Quiet => Newest = draft
    BY DEF Quiet, Newest, WordsInv, DraftsReported
  <2>3. ASSUME mine # Nothing, ~replaced' PROVE text' = mine /\ Newest' = mine
    <3>1. Newest = mine /\ Newest' = Newest
      BY <2>1, <2>3 DEF KeptInv, Newest
    <3>2. CASE Quiet
      BY <2>1, <2>2, <2>3, <3>1, <3>2
    <3>3. CASE ~Quiet
      BY <2>1, <2>3, <3>1, <3>3
    <3> QED
      BY <3>1, <3>2, <3>3
  <2> QED
    BY <2>1, <2>3 DEF KeptInv
<1>3. CASE Cover \/ LoseFocus
  <2>1. /\ Save(<<text>>) /\ text' = text /\ page = "active" /\ mine' = mine /\ replaced' = replaced
    BY <1>3 DEF Cover, LoseFocus
  <2> QED
    BY <1>0, <2>1, SavedText, KeptSaved
<1>4. CASE PopPage
  <2>1. mine' = mine /\ replaced' = replaced /\ page' = "none" /\ tdDraft' = tdDraft /\ unsaved' = FALSE
    BY <1>4 DEF PopPage, Destroy
  <2>2. CASE page = "active" /\ Save(<<text>>)
    BY <1>0, <2>1, <2>2, SavedText, KeptSaved
  <2>3. CASE page = "behind" /\ UNCHANGED requests
    BY <2>1, <2>3 DEF KeptInv, Newest, WordsInv, PageInv
  <2> QED
    BY <1>4, <2>2, <2>3 DEF PopPage
<1>5. CASE TakeFocus
  BY <1>5, KeptStays DEF TakeFocus, wordVars
<1>7. CASE Type
  BY <1>7 DEF Type, Written, KeptInv
<1>8. CASE Reply \/ CancelReply
  BY <1>8, KeptReplied DEF Reply, CancelReply
<1>9. CASE Edit \/ CancelEdit \/ OtherDevice
  BY <1>9 DEF Edit, CancelEdit, OtherDevice, Written, KeptInv
<1>11. CASE SendMessage
  <2>1. page = "active" /\ \/ mine' = (IF text = mine THEN Nothing ELSE mine) /\ replaced' = replaced
                           \/ replaced' = TRUE
    BY <1>11 DEF SendMessage, EditMessage, Sent
  <2> QED
    BY <2>1 DEF KeptInv
<1>12. CASE UpdateChatDraftMessage
  <2>1. /\ UNCHANGED <<page, requests, tdDraft, mine>> /\ queue' \in Seq(DraftReport)
        /\ replaced' = (replaced \/ (text' # text /\ text' \in late'))
    BY <1>12, ReportTaken DEF UpdateChatDraftMessage
  <2>2. CASE text' = text
    <3>1. unsaved' = unsaved
      BY <1>0, <1>12, <2>2 DEF UpdateChatDraftMessage, Fill
    <3> QED
      BY <2>1, <2>2, <3>1, KeptStays
  <2>3. CASE text' # text /\ text' \in late'
    BY <2>1, <2>3 DEF KeptInv
  <2>4. CASE text' # text /\ text' \notin late'
    <3>1. /\ text' = Head(queue).words /\ ~unsaved /\ requests = <<>> /\ queue' = <<>> /\ unsaved' = FALSE
      BY <1>12, <2>4 DEF UpdateChatDraftMessage, Fill
    <3>2. Newest = text' /\ Newest' = Newest
      BY <1>12, <2>1, <3>1, ReportTaken DEF UpdateChatDraftMessage, Newest
    <3> QED
      BY <2>1, <3>1, <3>2 DEF KeptInv
  <2> QED
    BY <2>2, <2>3, <2>4
<1>16. CASE OnCustomEmojiUpdated \/ OnDraftMessageEmojisChanged
  <2>1. /\ text' = draft /\ unsaved' = (unsaved /\ draft = text)
        /\ replaced' = (replaced \/ (text' # text /\ (unsaved \/ ~Quiet)))
        /\ UNCHANGED <<page, draft, tdDraft, requests, mine>>
    BY <1>16 DEF OnCustomEmojiUpdated, OnDraftMessageEmojisChanged, DraftMessageChanged, Fill
  <2>2. CASE text' = text
    BY <1>0, <2>1, <2>2, KeptStays
  <2>3. CASE text' # text /\ (unsaved \/ ~Quiet)
    BY <2>1, <2>3 DEF KeptInv
  <2>4. CASE text' # text /\ ~unsaved /\ Quiet
    <3>1. Newest = draft /\ Newest' = Newest
      BY <2>1, <2>4 DEF Quiet, Newest, WordsInv, DraftsReported
    <3> QED
      BY <2>1, <2>4, <3>1 DEF KeptInv
  <2> QED
    BY <2>2, <2>3, <2>4
<1>13. CASE HandleSetChatDraftMessage
  <2>1. UNCHANGED <<page, text, unsaved, replaced, mine>> /\ Newest' = Newest
    BY <1>13, RequestTaken DEF HandleSetChatDraftMessage, fieldVars, wordVars
  <2> QED
    BY <2>1 DEF KeptInv
<1>15. CASE UNCHANGED composerVars
  BY <1>15, KeptStays DEF composerVars, fieldVars, wordVars
<1> QED
  BY <1>1, <1>2, <1>3, <1>4, <1>5, <1>7, <1>8, <1>9, <1>11, <1>12, <1>13, <1>15, <1>16 DEF ComposerNext

(***************************************************************************)
(* How what is in the field is going to be sent.  An edit that is going on *)
(* was meant; words that the user has put there are new, and are meant for *)
(* the edit if there is one; and what was sent is neither in the field nor *)
(* what TDLib's draft is going to be, because sending from a field with    *)
(* the focus saves that there are no words.                                *)
(***************************************************************************)
Fresh == text # Nothing /\ ~restored =>
    /\ editing => text \in forEdit
    /\ \A s \in sends : s.words # text

Gone(w) == w \in forEdit \cup late \/ unfocused \/ w \notin {text, Newest}

MeantInv ==
    /\ editing => meantForEdit
    /\ \A s \in sends : s.words \in 1 .. acts /\ Gone(s.words)
    /\ Fresh

\* Words mean the same while the field is left alone.
LEMMA MeantStays ==
  ASSUME MeantInv, acts \in Nat, acts' \in {acts, acts + 1}, sends' = sends,
         editing' => meantForEdit', Fresh',
         forEdit \subseteq forEdit', late \subseteq late', unfocused => unfocused',
         \A w \in 1 .. acts : Gone(w) => Gone(w)'
  PROVE  MeantInv'
BY DEF MeantInv

\* Every step keeps what words were meant for.
LEMMA MeantKeeps == WordsInv /\ MeantInv /\ [ComposerNext]_(composerVars) => MeantInv'
<1> SUFFICES ASSUME WordsInv, MeantInv, [ComposerNext]_(composerVars) PROVE MeantInv'
  OBVIOUS
<1>0. /\ requests \in Seq(Nat) /\ text \in Nat /\ unsaved \in BOOLEAN /\ focus \in BOOLEAN /\ acts \in Nat
      /\ text \in 0 .. acts /\ Nothing \notin 1 .. acts /\ NewWords \notin 0 .. acts /\ NewWords \in Nat
      /\ Nothing = 0 /\ queue \in Seq(DraftReport)
  BY DEF WordsInv, DraftTypes, Words, NewWords, Nothing
<1>1. CASE PushPage
  <2>1. /\ text = Nothing
        /\ UNCHANGED <<text, requests, tdDraft, acts, editing, meantForEdit, forEdit, sends, late, unfocused>>
    BY <1>1 DEF PushPage, WordsInv, PageInv
  <2> QED
    BY <1>0, <2>1, MeantStays DEF MeantInv, Fresh, Gone, Newest
<1>2. CASE PageActive
  <2>1. /\ UNCHANGED <<requests, tdDraft, acts, editing, meantForEdit, forEdit, sends, unfocused>>
        /\ IF draft = Nothing THEN UNCHANGED <<text, restored, late>>
           ELSE /\ text' = draft /\ restored' = (restored \/ draft # text)
                /\ late \subseteq late'
                /\ ~Quiet /\ draft # text => draft \in late'
    BY <1>2 DEF PageActive, Fill
  <2>2. Quiet => Newest = draft
    BY DEF Quiet, Newest, WordsInv, DraftsReported
  <2>3. Fresh'
    <3>1. ~restored' => ~restored /\ text' = text
      BY <2>1
    <3> QED
      BY <2>1, <3>1 DEF MeantInv, Fresh
  <2>4. ASSUME NEW w \in 1 .. acts, Gone(w) PROVE Gone(w)'
    BY <2>1, <2>2, <2>4 DEF Gone, Newest
  <2> QED
    BY <1>0, <2>1, <2>3, <2>4, MeantStays DEF MeantInv
<1>3. CASE Cover \/ LoseFocus
  <2>1. /\ Save(<<text>>)
        /\ UNCHANGED <<text, acts, editing, meantForEdit, forEdit, sends, late, restored, unfocused>>
    BY <1>3 DEF Cover, LoseFocus
  <2>2. Newest' = text'
    BY <1>0, <2>1, SavedText DEF Newest
  <2> QED
    BY <1>0, <2>1, <2>2, MeantStays DEF MeantInv, Fresh, Gone
<1>4. CASE PopPage
  <2>1. /\ text' = Nothing /\ editing' = FALSE
        /\ UNCHANGED <<acts, tdDraft, forEdit, sends, late, unfocused>>
    BY <1>4 DEF PopPage, Destroy
  <2>2. Newest' \in {Newest, text}
    BY <1>0, <1>4, <2>1, SavedText DEF PopPage, Newest
  <2> QED
    BY <1>0, <2>1, <2>2, MeantStays DEF Fresh, Gone
<1>5. CASE TakeFocus \/ UNCHANGED composerVars
  <2>1. /\ UNCHANGED <<text, requests, tdDraft, acts, editing, meantForEdit, forEdit, sends, late, restored, unfocused>>
    BY <1>5 DEF TakeFocus, wordVars, composerVars, fieldVars
  <2> QED
    BY <1>0, <2>1, MeantStays DEF MeantInv, Fresh, Gone, Newest
<1>7. CASE Type
  <2>1. /\ text' = NewWords /\ acts' = acts + 1 /\ forEdit' = forEdit \cup (IF meantForEdit THEN {text'} ELSE {})
        /\ UNCHANGED <<requests, tdDraft, editing, meantForEdit, sends, late, unfocused>>
    BY <1>7 DEF Type, Written, Act
  <2>2. Fresh'
    BY <1>0, <2>1 DEF MeantInv, Fresh
  <2> QED
    BY <1>0, <2>1, <2>2, MeantStays DEF MeantInv, Gone, Newest
<1>8. CASE Reply \/ CancelReply
  <2>1. /\ \E r \in BOOLEAN : Save(SavedByReply(r, text))
        /\ UNCHANGED <<text, tdDraft, acts, forEdit, sends, late, restored, unfocused>>
        /\ editing' = FALSE \/ UNCHANGED <<editing, meantForEdit>>
    BY <1>8 DEF Reply, CancelReply
  <2>2. Newest' \in {Newest, text}
    BY <1>0, <2>1, SavedReply DEF Newest
  <2> QED
    BY <1>0, <2>1, <2>2, MeantStays DEF MeantInv, Fresh, Gone
<1>9. CASE Edit
  <2>1. /\ text' = NewWords /\ acts' = acts + 1 /\ forEdit' = forEdit \cup {text'} /\ meantForEdit' = TRUE
        /\ Save(SavedByReply(FALSE, NewWords))
        /\ UNCHANGED <<tdDraft, sends, late, unfocused>>
    BY <1>9 DEF Edit, Written, Act
  <2>2. Newest' \in {Newest, NewWords}
    BY <1>0, <2>1, SavedReply DEF Newest
  <2>3. Fresh'
    BY <1>0, <2>1 DEF MeantInv, Fresh
  <2> QED
    BY <1>0, <2>1, <2>2, <2>3, MeantStays DEF Gone
<1>10. CASE CancelEdit
  <2>1. /\ text' = Nothing /\ editing' = FALSE /\ forEdit \subseteq forEdit'
        /\ UNCHANGED <<requests, tdDraft, acts, sends, late, unfocused>>
    BY <1>10 DEF CancelEdit, Written
  <2> QED
    BY <1>0, <2>1, MeantStays DEF Fresh, Gone, Newest
<1>11. CASE SendMessage
  <2>1. /\ text # Nothing /\ text' = Nothing /\ editing' = FALSE
        /\ sends' = sends \/ sends' = sends \cup {ThisSend}
        /\ Save(SavedBySend) /\ unfocused' = (unfocused \/ ~focus)
        /\ UNCHANGED <<tdDraft, acts, forEdit, late>>
    BY <1>11 DEF SendMessage, EndOfEdit, EditMessage, Sent
  <2>2. focus => Newest' = Nothing
    BY <1>0, <2>1, SavedSend DEF Newest
  <2>3. \A w \in 1 .. acts : Gone(w)'
    BY <1>0, <2>1, <2>2 DEF Gone
  <2>4. ThisSend.words = text /\ text \in 1 .. acts
    BY <1>0, <2>1 DEF ThisSend
  <2>5. \A s \in sends' : s.words \in 1 .. acts
    BY <2>1, <2>4 DEF MeantInv
  <2> QED
    BY <2>1, <2>3, <2>5 DEF MeantInv, Fresh
<1>12. CASE UpdateChatDraftMessage
  <2>1. /\ UNCHANGED <<requests, tdDraft, acts, editing, meantForEdit, forEdit, sends, unfocused>>
        /\ \/ UNCHANGED <<text, restored, late>>
           \/ /\ text' = Head(queue).words /\ restored' = (restored \/ text' # text)
              /\ late \subseteq late'
              /\ (requests # <<>> \/ queue' # <<>>) /\ text' # text => text' \in late'
    BY <1>12 DEF UpdateChatDraftMessage, Fill
  <2>2. requests = <<>> /\ queue' = <<>> => Newest = Head(queue).words
    BY <1>12, ReportTaken DEF UpdateChatDraftMessage, Newest
  <2>3. Fresh'
    BY <2>1 DEF MeantInv, Fresh
  <2>4. ASSUME NEW w \in 1 .. acts, Gone(w) PROVE Gone(w)'
    BY <2>1, <2>2, <2>4 DEF Gone, Newest
  <2> QED
    BY <1>0, <2>1, <2>3, <2>4, MeantStays DEF MeantInv
<1>16. CASE OnCustomEmojiUpdated \/ OnDraftMessageEmojisChanged
  <2>1. /\ UNCHANGED <<requests, tdDraft, acts, editing, meantForEdit, forEdit, sends, unfocused>>
        /\ text' = draft /\ restored' = (restored \/ draft # text)
        /\ late \subseteq late'
        /\ ~Quiet /\ draft # text => draft \in late'
    BY <1>16 DEF OnCustomEmojiUpdated, OnDraftMessageEmojisChanged, DraftMessageChanged, Fill
  <2>2. Quiet => Newest = draft
    BY DEF Quiet, Newest, WordsInv, DraftsReported
  <2>3. Fresh'
    BY <2>1 DEF MeantInv, Fresh
  <2>4. ASSUME NEW w \in 1 .. acts, Gone(w) PROVE Gone(w)'
    BY <2>1, <2>2, <2>4 DEF Gone, Newest
  <2> QED
    BY <1>0, <2>1, <2>3, <2>4, MeantStays DEF MeantInv
<1>13. CASE HandleSetChatDraftMessage
  <2>1. /\ UNCHANGED <<text, acts, editing, meantForEdit, forEdit, sends, late, restored, unfocused>>
        /\ Newest' = Newest
    BY <1>13, RequestTaken DEF HandleSetChatDraftMessage, fieldVars, wordVars
  <2> QED
    BY <1>0, <2>1, MeantStays DEF MeantInv, Fresh, Gone
<1>14. CASE OtherDevice
  <2>1. /\ acts' = acts + 1 /\ tdDraft' \in {NewWords, Nothing}
        /\ UNCHANGED <<text, requests, editing, meantForEdit, forEdit, sends, late, restored, unfocused>>
    BY <1>14 DEF OtherDevice, Act, fieldVars
  <2>2. Newest' \in {Newest, NewWords, Nothing}
    BY <2>1 DEF Newest
  <2> QED
    BY <1>0, <2>1, <2>2, MeantStays DEF MeantInv, Fresh, Gone
<1> QED
  BY <1>1, <1>2, <1>3, <1>4, <1>5, <1>7, <1>8, <1>9, <1>10, <1>11, <1>12, <1>13, <1>14, <1>16 DEF ComposerNext

\* Every sent word went where it was meant, as long as those in the field will.
LEMMA SentKeeps ==
  WordsInv /\ MeantInv /\ WordsGoWhereMeant /\ [ComposerNext]_(composerVars) => WordsGoWhereMeant'
<1> DEFINE Went(s) == \/ ~s.again /\ (s.edit <=> s.words \in forEdit)
                      \/ s.words \in forEdit /\ ~s.edit
                      \/ s.restored /\ (s.edit \/ unfocused)
                      \/ s.words \in late
<1> SUFFICES ASSUME WordsInv, MeantInv, \A s \in sends : Went(s), [ComposerNext]_(composerVars)
             PROVE  \A s \in sends' : Went(s)'
  BY DEF WordsGoWhereMeant
<1>1. ASSUME sends' = sends, forEdit \subseteq forEdit', late \subseteq late', unfocused => unfocused'
      PROVE  \A s \in sends' : Went(s)'
  BY <1>1
<1>2. CASE SendMessage
  <2>1. /\ text # Nothing
        /\ sends' = sends \/ sends' = sends \cup {ThisSend}
        /\ unfocused' = (unfocused \/ ~focus) /\ UNCHANGED <<forEdit, late>>
    BY <1>2 DEF SendMessage, EditMessage, Sent
  <2>2. Went(ThisSend)
    <3>1. /\ ThisSend.words = text /\ ThisSend.restored = restored /\ ThisSend.edit = editing
          /\ ThisSend.again = \E s \in sends : s.words = text
      BY DEF ThisSend
    <3>2. CASE ~restored
      <4>1. (editing => text \in forEdit) /\ ~\E s \in sends : s.words = text
        BY <2>1, <3>2 DEF MeantInv, Fresh
      <4>2. ~ThisSend.again
        BY <3>1, <4>1
      <4> QED
        BY <3>1, <4>1, <4>2
    <3>3. CASE restored /\ editing
      BY <3>1, <3>3
    <3>4. CASE restored /\ ~editing /\ \E s \in sends : s.words = text
      <4>1. Gone(text)
        BY <3>4 DEF MeantInv
      <4> QED
        BY <3>1, <3>4, <4>1 DEF Gone
    <3>5. CASE ~editing /\ ~\E s \in sends : s.words = text
      BY <3>1, <3>5
    <3> QED
      BY <3>2, <3>3, <3>4, <3>5
  <2> QED
    BY <1>1, <2>1, <2>2
<1>3. CASE PushPage \/ PageActive \/ Cover \/ PopPage
  BY <1>1, <1>3 DEF PushPage, PageActive, Fill, Cover, PopPage
<1>4. CASE TakeFocus \/ LoseFocus \/ Type
  BY <1>1, <1>4 DEF TakeFocus, LoseFocus, Type, Written, wordVars
<1>5. CASE Reply \/ CancelReply \/ Edit \/ CancelEdit
  BY <1>1, <1>5 DEF Reply, CancelReply, Edit, CancelEdit, Written
<1>6. CASE UpdateChatDraftMessage \/ OnCustomEmojiUpdated \/ OnDraftMessageEmojisChanged
  BY <1>1, <1>6 DEF UpdateChatDraftMessage, OnCustomEmojiUpdated, OnDraftMessageEmojisChanged,
                    DraftMessageChanged, Fill
<1>7. CASE HandleSetChatDraftMessage \/ OtherDevice \/ UNCHANGED composerVars
  BY <1>1, <1>7 DEF HandleSetChatDraftMessage, OtherDevice, composerVars, wordVars
<1> QED
  BY <1>2, <1>3, <1>4, <1>5, <1>6, <1>7 DEF ComposerNext

\* The initial state.
LEMMA WordsBegin == ComposerInit => WordsInv /\ FieldInv /\ KeptInv /\ MeantInv /\ WordsGoWhereMeant
<1> SUFFICES ASSUME ComposerInit PROVE WordsInv /\ FieldInv /\ KeptInv /\ MeantInv /\ WordsGoWhereMeant
  OBVIOUS
<1>1. /\ page = "none" /\ text = Nothing /\ draft = Nothing /\ tdDraft = Nothing /\ mine = Nothing /\ acts = 0
      /\ focus = FALSE /\ unsaved = FALSE /\ editing = FALSE /\ sends = {}
  BY DEF ComposerInit
<1>2. queue = <<>> /\ requests = <<>>
  BY DEF ComposerInit
<1>3. queue \in Seq(DraftReport) /\ requests \in Seq(Nat) /\ Len(queue) = 0 /\ Len(requests) = 0
  BY <1>2, EmptySeq
<1>4. DraftTypes
  <2>1. acts \in Nat /\ Words = {0} /\ Nothing \in Words
    BY <1>1 DEF Words, Nothing
  <2>2. focus \in BOOLEAN /\ unsaved \in BOOLEAN /\ page \in {"none", "behind", "active"}
    BY <1>1
  <2>3. {text, draft, tdDraft, mine} \subseteq Words
    BY <1>1, <2>1
  <2> QED
    BY <1>3, <2>1, <2>2, <2>3 DEF DraftTypes
<1> QED
  BY <1>1, <1>2, <1>4 DEF WordsInv, DraftsReported, PageInv, FieldInv, KeptInv, MeantInv, Fresh, WordsGoWhereMeant

\* Words are those of an act, and the last report that is on its way, or else
\* Chat, has TDLib's draft.
THEOREM WordsAreWords == ComposerSpec => []WordsInv
BY WordsBegin, WordsKeep, PTL DEF ComposerSpec

(***************************************************************************)
(* Once everything is handled, the field of the page in front, Chat and    *)
(* TDLib have the same draft, unless the user has written since the field  *)
(* was saved (Chat.qml:83, ChatList::updateChatDraftMessage).              *)
(***************************************************************************)
THEOREM DraftsComeTogether == ComposerSpec => []DraftsAgree
<1>1. WordsInv /\ FieldInv => DraftsAgree
  <2> SUFFICES ASSUME WordsInv, FieldInv, Quiet
               PROVE  draft = tdDraft /\ (page = "active" /\ ~unsaved => text = draft \/ unfocused)
    BY DEF DraftsAgree
  <2>1. draft = tdDraft /\ Newest = tdDraft /\ queue = <<>>
    BY DEF Quiet, Newest, WordsInv, DraftsReported
  <2>2. ~Changing
    <3>1. Len(requests) = 0
      BY EmptySeq DEF Quiet
    <3> QED
      BY <3>1 DEF Changing
  <2> QED
    BY <2>1, <2>2 DEF FieldInv
<1> QED
  BY <1>1, WordsBegin, WordsKeep, FieldKeeps, PTL DEF ComposerSpec

(***************************************************************************)
(* What the user wrote is in the field or on its way to TDLib's draft,     *)
(* until it is sent or dropped, but for words in whose place the field was *)
(* given an older draft: by a report or a new page (Chat.qml:83, 133), or  *)
(* by emojis that came (chat.cpp:2378, 2408).                              *)
(***************************************************************************)
THEOREM WordsAreKept == ComposerSpec => []NothingIsLost
<1>1. WordsInv /\ KeptInv => NothingIsLost
  <2> SUFFICES ASSUME WordsInv, KeptInv, ~replaced, mine # Nothing
               PROVE  mine \in {text, tdDraft} \cup {requests[i] : i \in DOMAIN requests}
    BY DEF NothingIsLost
  <2>1. CASE unsaved
    BY <2>1 DEF WordsInv, PageInv, KeptInv
  <2>2. CASE ~unsaved
    <3>1. Newest = mine
      BY <2>2 DEF KeptInv
    <3>2. requests # <<>> => Len(requests) \in DOMAIN requests
      BY EmptySeq, LenProperties DEF WordsInv, DraftTypes
    <3> QED
      BY <3>1, <3>2 DEF Newest
  <2> QED
    BY <2>1, <2>2
<1> QED
  BY <1>1, WordsBegin, WordsKeep, KeptKeeps, PTL DEF ComposerSpec

(***************************************************************************)
(* What is sent is sent once, and as what the user meant it: as the edit   *)
(* of a message or as a message, but for the cases that WordsGoWhereMeant  *)
(* excepts (Chat.qml's sendMessage, MessageContextMenu.qml:70).            *)
(***************************************************************************)
THEOREM WordsAreSentAsMeant == ComposerSpec => []WordsGoWhereMeant
BY WordsBegin, WordsKeep, MeantKeeps, SentKeeps, PTL DEF ComposerSpec

-----------------------------------------------------------------------------
(***************************************************************************)
(* The switches for notifications: whatever is sent and reported meanwhile,*)
(* what was chosen last stays.  The theorem rests on what TDLib's settings *)
(* are going to be, and, while a switch follows the chat, on all that is   *)
(* under way.                                                              *)
(***************************************************************************)
Value == {"default", "on", "hour", "off"}
SettingsQuery == [of : {"chat", "scope"}, to : [Setting -> Value]]
SettingsReport == [type : {"chat", "scope"}, to : [Setting -> Value]]

SettingsTypes ==
    /\ requests \in Seq(SettingsQuery) /\ queue \in Seq(SettingsReport)
    /\ {settings, tdSettings} \subseteq OwnSettings /\ {scope, tdScope} \subseteq [Setting -> Value]
    /\ \A i \in 1 .. Len(requests) : requests[i].of = "chat" => requests[i].to \in OwnSettings
    /\ \A i \in 1 .. Len(queue) : queue[i].type = "chat" => queue[i].to \in OwnSettings
    /\ DOMAIN wanted = Setting /\ \A f \in Setting : wanted[f] \in {"any"} \cup Values(f)
    /\ checked \in [Setting -> BOOLEAN] /\ switch \in [Setting -> {"none", "follows", "set"}]

(***************************************************************************)
(* What the program knows was the last report, if none is on its way.      *)
(***************************************************************************)
LastReport(q, type, i) ==
    q[i].type = type /\ \A j \in 1 .. Len(q) : j > i => q[j].type # type
NoReport(q, type) == \A i \in 1 .. Len(q) : q[i].type # type

Told(q, type, known, td) ==
    /\ \A i \in 1 .. Len(q) : LastReport(q, type, i) => q[i].to = td
    /\ NoReport(q, type) => known = td

SettingsReported == Told(queue, "chat", settings, tdSettings) /\ Told(queue, "scope", scope, tdScope)

SettingsInv == SettingsTypes /\ SettingsReported

(***************************************************************************)
(* Own settings are right for f if they give what was chosen; if they      *)
(* defer to the scope, all that is known or under way of it must agree.    *)
(***************************************************************************)
ScopeIs(f, v) ==
    /\ scope[f] = v /\ tdScope[f] = v
    /\ \A i \in 1 .. Len(queue) : queue[i].type = "scope" => queue[i].to[f] = v
    /\ \A i \in 1 .. Len(requests) : requests[i].of = "scope" => requests[i].to[f] = v

Right(own, f) == IF own[f] = "default" THEN ScopeIs(f, wanted[f]) ELSE own[f] = wanted[f]

Choice(f) == f \notin excused /\ wanted[f] # "any"

(***************************************************************************)
(* The settings that TDLib is going to have are right for each choice.     *)
(***************************************************************************)
LastQuery(i) ==
    requests[i].of = "chat" /\ \A j \in 1 .. Len(requests) : j > i => requests[j].of # "chat"

FinalInv ==
    \A f \in Setting : Choice(f) =>
        /\ \A i \in 1 .. Len(requests) : LastQuery(i) => Right(requests[i].to, f)
        /\ (\A i \in 1 .. Len(requests) : requests[i].of # "chat") => Right(tdSettings, f)

(***************************************************************************)
(* While a switch follows the chat it answers reports, so all that is      *)
(* under way has to be right, and no switch may be about to undo an hour.  *)
(***************************************************************************)
FollowInv ==
    (\E g \in Setting : Follows(g)) => \A f \in Setting : Choice(f) =>
        /\ ScopeIs(f, scope[f])
        /\ \A i \in 1 .. Len(queue) : queue[i].type = "chat" => Right(queue[i].to, f)
        /\ \A i \in 1 .. Len(requests) : requests[i].of = "chat" => Right(requests[i].to, f)
        /\ Follows(f) /\ wanted[f] = "hour" => ~checked[f]

(***************************************************************************)
(* Queries and reports.                                                    *)
(***************************************************************************)
LEMMA QuerySent ==
  ASSUME NEW S, requests \in Seq(S), NEW queries \in Seq(S), SendQueries(queries)
  PROVE  /\ requests' \in Seq(S) /\ Len(requests) \in Nat
         /\ queries = <<>> => requests' = requests
         /\ queries # <<>> => Len(requests') \in 1 .. Len(requests') /\ requests'[Len(requests')] = queries[Len(queries)]
         /\ Len(requests') = Len(requests) + Len(queries)
         /\ \A i \in 1 .. Len(requests) : i \in 1 .. Len(requests') /\ requests'[i] = requests[i]
         /\ \A i \in 1 .. Len(requests') : \/ i \in 1 .. Len(requests) /\ requests'[i] = requests[i]
                                           \/ \E j \in 1 .. Len(queries) : requests'[i] = queries[j]
<1>1. Len(requests) \in Nat /\ Len(queries) \in Nat /\ requests' = requests \o queries
  BY LenProperties DEF SendQueries
<1>2. /\ requests' \in Seq(S) /\ Len(requests') = Len(requests) + Len(queries)
      /\ \A i \in 1 .. Len(requests) + Len(queries) :
            requests'[i] = IF i <= Len(requests) THEN requests[i] ELSE queries[i - Len(requests)]
  BY <1>1, ConcatProperties
<1>3. \A i \in 1 .. Len(requests) : i \in 1 .. Len(requests') /\ requests'[i] = requests[i]
  BY <1>1, <1>2
<1>4. ASSUME NEW i \in 1 .. Len(requests')
      PROVE  \/ i \in 1 .. Len(requests) /\ requests'[i] = requests[i]
             \/ \E j \in 1 .. Len(queries) : requests'[i] = queries[j]
  <2>1. CASE i <= Len(requests)
    BY <1>1, <1>2, <2>1
  <2>2. CASE i > Len(requests)
    <3>1. i - Len(requests) \in 1 .. Len(queries) /\ requests'[i] = queries[i - Len(requests)]
      BY <1>1, <1>2, <2>2
    <3> QED
      BY <3>1
  <2> QED
    BY <1>1, <2>1, <2>2
<1>5. CASE queries = <<>>
  <2>1. requests' = requests
    BY <1>1, <1>5
  <2> QED
    BY <1>1, <1>2, <1>3, <1>4, <1>5, <2>1
<1>6. CASE queries # <<>>
  <2>1. Len(queries) > 0
    BY <1>1, <1>6, EmptySeq
  <2>2. Len(requests') \in 1 .. Len(requests') /\ requests'[Len(requests')] = queries[Len(queries)]
    BY <1>1, <1>2, <2>1
  <2> QED
    BY <1>1, <1>2, <1>3, <1>4, <1>6, <2>2
<1> QED
  BY <1>5, <1>6

\* One query is sent.
LEMMA SentOne ==
  ASSUME NEW S, requests \in Seq(S), NEW q \in S, SendQueries(<<q>>)
  PROVE  /\ requests' \in Seq(S) /\ Len(requests) \in Nat /\ Len(requests') = Len(requests) + 1
         /\ requests'[Len(requests) + 1] = q
         /\ \A i \in 1 .. Len(requests) : requests'[i] = requests[i]
<1> DEFINE queries == <<q>>
<1>1. queries \in Seq(S) /\ queries # <<>> /\ Len(queries) = 1 /\ queries[1] = q
  OBVIOUS
<1>2. SendQueries(queries)
  OBVIOUS
<1> HIDE DEF queries
<1> QED
  BY <1>1, <1>2, QuerySent

\* A report is posted.
LEMMA Posted ==
  ASSUME queue \in Seq(SettingsReport), NEW event \in SettingsReport, Post(event)
  PROVE  /\ queue' \in Seq(SettingsReport) /\ Len(queue) \in Nat /\ Len(queue') = Len(queue) + 1
         /\ queue'[Len(queue) + 1] = event /\ \A i \in 1 .. Len(queue) : queue'[i] = queue[i]
BY AppendProperties, LenProperties DEF Post

\* The first query or report is taken.
LEMMA TailOfSettings ==
  ASSUME NEW S, NEW s \in Seq(S), s # <<>>
  PROVE  /\ Head(s) = s[1] /\ Head(s) \in S /\ Len(s) \in Nat /\ 1 \in 1 .. Len(s)
         /\ Tail(s) \in Seq(S) /\ Len(Tail(s)) = Len(s) - 1
         /\ \A i \in 1 .. Len(Tail(s)) : i + 1 \in 1 .. Len(s) /\ Tail(s)[i] = s[i + 1]
         /\ \A j \in 2 .. Len(s) : j - 1 \in 1 .. Len(Tail(s)) /\ Tail(s)[j - 1] = s[j]
<1>1. /\ Head(s) \in S /\ Tail(s) \in Seq(S) /\ Len(Tail(s)) = Len(s) - 1
      /\ \A i \in 1 .. Len(Tail(s)) : Tail(s)[i] = s[i + 1]
  BY HeadTailProperties
<1>2. Len(s) \in Nat \ {0} /\ Head(s) = s[1]
  BY EmptySeq
<1>3. ASSUME NEW j \in 2 .. Len(s) PROVE j - 1 \in 1 .. Len(Tail(s)) /\ Tail(s)[j - 1] = s[j]
  <2>1. j - 1 \in 1 .. Len(Tail(s)) /\ (j - 1) + 1 = j
    BY <1>1, <1>2
  <2> QED
    BY <1>1, <2>1
<1> QED
  BY <1>1, <1>2, <1>3

\* A report is added behind the others, or taken from before them.
LEMMA ToldLast ==
  ASSUME queue \in Seq(SettingsReport), NEW event \in SettingsReport, Post(event), NEW type, NEW known, NEW td, NEW td2,
         Told(queue, type, known, td), td2 = IF event.type = type THEN event.to ELSE td
  PROVE  Told(queue', type, known, td2)
<1>1. /\ Len(queue) \in Nat /\ Len(queue') = Len(queue) + 1
      /\ queue'[Len(queue) + 1] = event /\ \A i \in 1 .. Len(queue) : queue'[i] = queue[i]
  BY Posted
<1> QED
  BY <1>1 DEF Told, LastReport, NoReport

\* The first report is taken: the program knows what it tells.
LEMMA ToldFirst ==
  ASSUME queue \in Seq(SettingsReport), NEW t, Received(t), NEW type, NEW known, NEW known2, NEW td,
         Told(queue, type, known, td), known2 = IF t = type THEN queue[1].to ELSE known
  PROVE  Told(queue', type, known2, td)
<1>1. /\ Len(queue) \in Nat /\ 1 \in 1 .. Len(queue) /\ queue[1].type = t
      /\ \A i \in 1 .. Len(queue') : i + 1 \in 1 .. Len(queue) /\ queue'[i] = queue[i + 1]
      /\ \A j \in 2 .. Len(queue) : j - 1 \in 1 .. Len(queue') /\ queue'[j - 1] = queue[j]
  BY TailOfSettings DEF Received
<1>2. ASSUME NEW i \in 1 .. Len(queue'), LastReport(queue', type, i) PROVE queue'[i].to = td
  <2>1. LastReport(queue, type, i + 1)
    <3>1. ASSUME NEW j \in 1 .. Len(queue), j > i + 1 PROVE queue[j].type # type
      <4>1. j \in 2 .. Len(queue) /\ j - 1 > i
        BY <1>1, <3>1
      <4> QED
        BY <1>1, <1>2, <4>1 DEF LastReport
    <3> QED
      BY <1>1, <1>2, <3>1 DEF LastReport
  <2> QED
    BY <1>1, <2>1 DEF Told
<1>3. ASSUME NoReport(queue', type) PROVE known2 = td
  <2>1. \A j \in 2 .. Len(queue) : queue[j].type # type
    BY <1>1, <1>3 DEF NoReport
  <2>2. CASE t = type
    <3>1. LastReport(queue, type, 1)
      BY <1>1, <2>1, <2>2 DEF LastReport
    <3> QED
      BY <1>1, <2>2, <3>1 DEF Told
  <2>3. CASE t # type
    <3>1. NoReport(queue, type)
      BY <1>1, <2>1, <2>3 DEF NoReport
    <3> QED
      BY <2>3, <3>1 DEF Told
  <2> QED
    BY <2>2, <2>3
<1> QED
  BY <1>2, <1>3 DEF Told

\* When nothing is under way the program knows what there is.
LEMMA QuietIsTold ==
  ASSUME SettingsInv, Quiet
  PROVE  settings = tdSettings /\ scope = tdScope /\ Len(queue) = 0 /\ Len(requests) = 0
BY EmptySeq DEF SettingsInv, SettingsReported, Told, NoReport, Quiet

(***************************************************************************)
(* What is changed, and what is sent with it.                              *)
(***************************************************************************)
LEMMA ChangedOne ==
  ASSUME SettingsInv, NEW own \in OwnSettings, NEW f \in Setting, NEW v \in Values(f)
  PROVE  /\ Changed(own, f, v) \in OwnSettings
         /\ Changed(own, f, v)[f] = IF scope[f] = v THEN "default" ELSE v
         /\ \A g \in Setting : g # f => Changed(own, f, v)[g] = own[g]
<1>1. own \in [Setting -> Value] /\ own["preview"] # "hour" /\ v \in Value /\ v # "default"
      /\ (f = "preview" => v # "hour") /\ "preview" \in Setting
  BY DEF OwnSettings, Value, Values, Setting
<1>2. Changed(own, f, v) = [own EXCEPT ![f] = IF scope[f] = v THEN "default" ELSE v]
  BY DEF Changed
<1>3. Changed(own, f, v) \in [Setting -> Value] /\ Changed(own, f, v)["preview"] # "hour"
  BY <1>1, <1>2 DEF Value
<1> QED
  BY <1>1, <1>2, <1>3 DEF OwnSettings, Value

\* The query that is sent for it.
LEMMA QueryOfChat ==
  ASSUME SettingsInv, NEW own \in OwnSettings, NEW f \in Setting, NEW v \in Values(f)
  PROVE  /\ ChatQuery(own, f, v) \in SettingsQuery /\ ChatQuery(own, f, v).of = "chat"
         /\ ChatQuery(own, f, v).to = Changed(own, f, v)
         /\ ChatQuery(own, f, v).to \in OwnSettings
<1>1. Changed(own, f, v) \in OwnSettings /\ Changed(own, f, v) \in [Setting -> Value]
  BY ChangedOne DEF OwnSettings, Value
<1> QED
  BY <1>1 DEF ChatQuery, SettingsQuery

\* The queries that OpenPage, Tap and MuteForAnHour send.
Sends(f, v) ==
    /\ \/ SendQueries(<<ChatQuery(settings, f, v)>>)
       \/ SendQueries(<<>>)
    /\ UNCHANGED <<queue, tdSettings, tdScope, settings, scope>>

\* What keeps the types.
LEMMA TypesStay ==
  ASSUME SettingsInv, requests' \in Seq(SettingsQuery), queue' \in Seq(SettingsReport),
         {settings', tdSettings'} \subseteq OwnSettings, {scope', tdScope'} \subseteq [Setting -> Value],
         \A i \in 1 .. Len(requests') : \/ requests'[i].of = "chat" => requests'[i].to \in OwnSettings
                                        \/ \E j \in 1 .. Len(requests) : requests'[i] = requests[j],
         \A i \in 1 .. Len(queue') : \/ queue'[i].type = "chat" => queue'[i].to \in OwnSettings
                                     \/ \E j \in 1 .. Len(queue) : queue'[i] = queue[j],
         \/ wanted' = wanted
         \/ \E f \in Setting : \E v \in {"any"} \cup Values(f) : wanted' = [wanted EXCEPT ![f] = v],
         checked' \in [Setting -> BOOLEAN], switch' \in [Setting -> {"none", "follows", "set"}]
  PROVE  SettingsTypes'
<1>1. DOMAIN wanted' = Setting /\ \A f \in Setting : wanted'[f] \in {"any"} \cup Values(f)
  BY DEF SettingsInv, SettingsTypes
<1>2. \A i \in 1 .. Len(requests') : requests'[i].of = "chat" => requests'[i].to \in OwnSettings
  BY DEF SettingsInv, SettingsTypes
<1>3. \A i \in 1 .. Len(queue') : queue'[i].type = "chat" => queue'[i].to \in OwnSettings
  BY DEF SettingsInv, SettingsTypes
<1> QED
  BY <1>1, <1>2, <1>3 DEF SettingsTypes

\* TDLib stores settings, and reports them if they are new.
LEMMA Stores ==
  ASSUME SettingsInv, NEW of \in {"chat", "scope"}, NEW to \in [Setting -> Value], of = "chat" => to \in OwnSettings,
         Store(of, to)
  PROVE  /\ tdSettings' = (IF of = "chat" THEN to ELSE tdSettings) /\ tdSettings' \in OwnSettings
         /\ tdScope' = (IF of = "scope" THEN to ELSE tdScope) /\ tdScope' \in [Setting -> Value]
         /\ queue' \in Seq(SettingsReport)
         /\ \A i \in 1 .. Len(queue') : \/ i \in 1 .. Len(queue) /\ queue'[i] = queue[i]
                                        \/ queue'[i].type = of /\ queue'[i].to = to
         /\ Told(queue', "chat", settings, tdSettings') /\ Told(queue', "scope", scope, tdScope')
<1>1. /\ queue \in Seq(SettingsReport) /\ tdSettings \in OwnSettings /\ tdScope \in [Setting -> Value]
      /\ Told(queue, "chat", settings, tdSettings) /\ Told(queue, "scope", scope, tdScope)
  BY DEF SettingsInv, SettingsTypes, SettingsReported
<1>2. /\ tdSettings' = (IF of = "chat" THEN to ELSE tdSettings) /\ tdSettings' \in OwnSettings
      /\ tdScope' = (IF of = "scope" THEN to ELSE tdScope) /\ tdScope' \in [Setting -> Value]
  BY <1>1 DEF Store
<1>3. CASE UNCHANGED <<queue, tdSettings, tdScope>>
  BY <1>1, <1>2, <1>3
<1>4. CASE Post([type |-> of, to |-> to])
  <2>1. PICK report \in SettingsReport : report = [type |-> of, to |-> to]
    BY DEF SettingsReport
  <2>2. Post(report) /\ report.type = of /\ report.to = to
    BY <1>4, <2>1
  <2>3. /\ queue' \in Seq(SettingsReport) /\ Len(queue) \in Nat /\ Len(queue') = Len(queue) + 1
        /\ queue'[Len(queue) + 1] = report /\ \A i \in 1 .. Len(queue) : queue'[i] = queue[i]
    BY <1>1, <2>2, Posted
  <2>4. ASSUME NEW i \in 1 .. Len(queue')
        PROVE  \/ i \in 1 .. Len(queue) /\ queue'[i] = queue[i]
               \/ queue'[i].type = of /\ queue'[i].to = to
    BY <2>2, <2>3
  <2>5. Told(queue', "chat", settings, tdSettings')
    <3>1. tdSettings' = IF report.type = "chat" THEN report.to ELSE tdSettings
      BY <1>2, <2>2
    <3> QED
      BY <1>1, <2>2, <3>1, ToldLast
  <2>6. Told(queue', "scope", scope, tdScope')
    <3>1. tdScope' = IF report.type = "scope" THEN report.to ELSE tdScope
      BY <1>2, <2>2
    <3> QED
      BY <1>1, <2>2, <3>1, ToldLast
  <2> QED
    BY <1>2, <2>3, <2>4, <2>5, <2>6
<1> QED
  BY <1>3, <1>4 DEF Store

\* The first report is taken.
LEMMA Takes ==
  ASSUME SettingsInv, NEW t \in {"chat", "scope"}, Received(t)
  PROVE  /\ queue' \in Seq(SettingsReport) /\ Head(queue) = queue[1] /\ 1 \in 1 .. Len(queue) /\ queue[1].type = t
         /\ queue[1].to \in [Setting -> Value] /\ (t = "chat" => queue[1].to \in OwnSettings)
         /\ \A i \in 1 .. Len(queue') : \E j \in 1 .. Len(queue) : queue'[i] = queue[j]
         /\ t = "chat" => Told(queue', "chat", queue[1].to, tdSettings) /\ Told(queue', "scope", scope, tdScope)
         /\ t = "scope" => Told(queue', "chat", settings, tdSettings) /\ Told(queue', "scope", queue[1].to, tdScope)
<1>1. /\ queue \in Seq(SettingsReport) /\ \A i \in 1 .. Len(queue) : queue[i].type = "chat" => queue[i].to \in OwnSettings
      /\ Told(queue, "chat", settings, tdSettings) /\ Told(queue, "scope", scope, tdScope)
  BY DEF SettingsInv, SettingsTypes, SettingsReported
<1>2. /\ queue' \in Seq(SettingsReport) /\ Head(queue) = queue[1] /\ 1 \in 1 .. Len(queue) /\ queue[1].type = t
      /\ queue[1] \in SettingsReport
      /\ \A i \in 1 .. Len(queue') : i + 1 \in 1 .. Len(queue) /\ queue'[i] = queue[i + 1]
  BY <1>1, TailOfSettings DEF Received
<1>3. t = "chat" => Told(queue', "chat", queue[1].to, tdSettings) /\ Told(queue', "scope", scope, tdScope)
  BY <1>1, ToldFirst
<1>4. t = "scope" => Told(queue', "chat", settings, tdSettings) /\ Told(queue', "scope", queue[1].to, tdScope)
  BY <1>1, ToldFirst
<1> QED
  BY <1>1, <1>2, <1>3, <1>4 DEF SettingsReport

\* Switches that follow answer a report.
Answers(q) ==
    \E g \in Setting :
        /\ Follows(g) /\ checked'[g] # checked[g] /\ checked'[g] = (InForce(settings', scope, g) = "on")
        /\ q = ChatQuery(settings', g, IF checked'[g] THEN "on" ELSE "off")

\* So the queries that a report brings about are answers.
LEMMA Answered ==
  ASSUME SettingsInv, UpdateChatNotificationSettings
  PROVE  /\ settings' = queue[1].to /\ settings' \in OwnSettings /\ checked' \in [Setting -> BOOLEAN]
         /\ requests' \in Seq(SettingsQuery)
         /\ requests' = requests \/ (Len(requests') \in 1 .. Len(requests') /\ Answers(requests'[Len(requests')]))
         /\ \A i \in 1 .. Len(requests') : (i \in 1 .. Len(requests) /\ requests'[i] = requests[i]) \/ Answers(requests'[i])
<1>1. /\ settings' = queue[1].to /\ settings' \in OwnSettings /\ scope' = scope
      /\ checked' = [f \in Setting |-> IF Follows(f) THEN InForce(settings', scope, f) = "on" ELSE checked[f]]
      /\ SendQueries(WriteIfChanged(settings', "mute") \o WriteIfChanged(settings', "preview"))
  BY Takes DEF UpdateChatNotificationSettings
<1>2. checked' \in [Setting -> BOOLEAN] /\ requests \in Seq(SettingsQuery)
  BY <1>1 DEF SettingsInv, SettingsTypes
<1>3. ASSUME NEW g \in Setting
      PROVE  /\ WriteIfChanged(settings', g) \in Seq(SettingsQuery)
             /\ \A j \in 1 .. Len(WriteIfChanged(settings', g)) : Answers(WriteIfChanged(settings', g)[j])
  <2>1. PICK q : q = ChatQuery(settings', g, IF checked'[g] THEN "on" ELSE "off")
    OBVIOUS
  <2>2. q \in SettingsQuery
    BY <1>1, <2>1, QueryOfChat DEF Values
  <2>3. WriteIfChanged(settings', g) = IF checked'[g] = checked[g] THEN <<>> ELSE <<q>>
    BY <2>1 DEF WriteIfChanged
  <2>4. CASE checked'[g] = checked[g]
    <3>1. WriteIfChanged(settings', g) = <<>>
      BY <2>3, <2>4
    <3> QED
      BY <3>1, EmptySeq
  <2>5. CASE checked'[g] # checked[g]
    <3>1. WriteIfChanged(settings', g) = <<q>>
      BY <2>3, <2>5
    <3>2. Answers(q)
      BY <1>1, <2>1, <2>5 DEF Answers
    <3>3. <<q>> \in Seq(SettingsQuery) /\ Len(<<q>>) = 1 /\ <<q>>[1] = q
      BY <2>2
    <3> QED
      BY <3>1, <3>2, <3>3
  <2> QED
    BY <2>4, <2>5
<1> DEFINE a == WriteIfChanged(settings', "mute")
           b == WriteIfChanged(settings', "preview")
           queries == a \o b
<1>4. /\ a \in Seq(SettingsQuery) /\ b \in Seq(SettingsQuery) /\ SendQueries(queries)
      /\ \A j \in 1 .. Len(a) : Answers(a[j])
      /\ \A j \in 1 .. Len(b) : Answers(b[j])
  BY <1>1, <1>3 DEF Setting
<1> HIDE DEF a, b
<1>5. /\ queries \in Seq(SettingsQuery) /\ Len(queries) = Len(a) + Len(b) /\ Len(a) \in Nat /\ Len(b) \in Nat
      /\ \A j \in 1 .. Len(a) + Len(b) : queries[j] = IF j <= Len(a) THEN a[j] ELSE b[j - Len(a)]
  BY <1>4, ConcatProperties, LenProperties
<1> HIDE DEF queries
<1>6. ASSUME NEW j \in 1 .. Len(queries) PROVE Answers(queries[j])
  <2>1. CASE j <= Len(a)
    BY <1>4, <1>5, <2>1
  <2>2. CASE j > Len(a)
    <3>1. j - Len(a) \in 1 .. Len(b) /\ queries[j] = b[j - Len(a)]
      BY <1>5, <2>2
    <3> QED
      BY <1>4, <3>1
  <2> QED
    BY <1>5, <2>1, <2>2
<1>7. queries # <<>> => Len(queries) \in 1 .. Len(queries)
  BY <1>5, EmptySeq
<1>8. /\ requests' \in Seq(SettingsQuery) /\ (queries = <<>> => requests' = requests)
      /\ (queries # <<>> => Len(requests') \in 1 .. Len(requests') /\ requests'[Len(requests')] = queries[Len(queries)])
      /\ \A i \in 1 .. Len(requests') : \/ i \in 1 .. Len(requests) /\ requests'[i] = requests[i]
                                        \/ \E j \in 1 .. Len(queries) : requests'[i] = queries[j]
  BY <1>2, <1>4, <1>5, QuerySent
<1>9. requests' = requests \/ (Len(requests') \in 1 .. Len(requests') /\ Answers(requests'[Len(requests')]))
  <2>1. CASE queries = <<>>
    BY <1>8, <2>1
  <2>2. CASE queries # <<>>
    <3>1. Answers(queries[Len(queries)])
      BY <1>6, <1>7, <2>2
    <3>2. Len(requests') \in 1 .. Len(requests') /\ requests'[Len(requests')] = queries[Len(queries)]
      BY <1>8, <2>2
    <3> QED
      BY <3>1, <3>2
  <2> QED
    BY <2>1, <2>2
<1>10. ASSUME NEW i \in 1 .. Len(requests')
       PROVE  (i \in 1 .. Len(requests) /\ requests'[i] = requests[i]) \/ Answers(requests'[i])
  <2>1. CASE i \in 1 .. Len(requests) /\ requests'[i] = requests[i]
    BY <2>1
  <2>2. ASSUME NEW j \in 1 .. Len(queries), requests'[i] = queries[j] PROVE Answers(requests'[i])
    BY <1>6, <2>2
  <2> QED
    BY <1>8, <2>1, <2>2
<1> QED
  BY <1>1, <1>2, <1>8, <1>9, <1>10

\* TDLib takes the first query.
LEMMA Handles ==
  ASSUME SettingsInv, HandleQuery
  PROVE  /\ requests[1] \in SettingsQuery /\ (requests[1].of = "chat" => requests[1].to \in OwnSettings) /\ 1 \in 1 .. Len(requests)
         /\ Store(requests[1].of, requests[1].to)
         /\ requests' \in Seq(SettingsQuery) /\ Len(requests) \in Nat
         /\ \A i \in 1 .. Len(requests') : i + 1 \in 1 .. Len(requests) /\ requests'[i] = requests[i + 1]
         /\ \A j \in 2 .. Len(requests) : j - 1 \in 1 .. Len(requests') /\ requests'[j - 1] = requests[j]
<1>1. /\ requests \in Seq(SettingsQuery) /\ requests # <<>> /\ requests' = Tail(requests)
      /\ Store(Head(requests).of, Head(requests).to)
  BY DEF SettingsInv, SettingsTypes, HandleQuery
<1>2. /\ Head(requests) = requests[1] /\ requests[1] \in SettingsQuery /\ Len(requests) \in Nat /\ 1 \in 1 .. Len(requests)
      /\ requests' \in Seq(SettingsQuery)
      /\ \A i \in 1 .. Len(requests') : i + 1 \in 1 .. Len(requests) /\ requests'[i] = requests[i + 1]
      /\ \A j \in 2 .. Len(requests) : j - 1 \in 1 .. Len(requests') /\ requests'[j - 1] = requests[j]
  BY <1>1, TailOfSettings
<1> QED
  BY <1>1, <1>2 DEF SettingsInv, SettingsTypes

\* What a page asks for is added behind the other queries.
LEMMA Asked ==
  ASSUME SettingsInv, NEW f \in Setting, NEW v \in Values(f), Sends(f, v)
  PROVE  /\ requests' \in Seq(SettingsQuery) /\ Len(requests) \in Nat
         /\ \/ requests' = requests
            \/ /\ Len(requests') = Len(requests) + 1
               /\ requests'[Len(requests) + 1] = ChatQuery(settings, f, v)
               /\ \A i \in 1 .. Len(requests) : requests'[i] = requests[i]
<1>1. requests \in Seq(SettingsQuery) /\ settings \in OwnSettings
  BY DEF SettingsInv, SettingsTypes
<1>2. ChatQuery(settings, f, v) \in SettingsQuery
  BY <1>1, QueryOfChat
<1>3. CASE SendQueries(<<ChatQuery(settings, f, v)>>)
  BY <1>1, <1>2, <1>3, SentOne
<1>4. CASE SendQueries(<<>>)
  <2>1. <<>> \in Seq(SettingsQuery)
    OBVIOUS
  <2> QED
    BY <1>1, <1>4, <2>1, QuerySent
<1> QED
  BY <1>3, <1>4 DEF Sends

\* The three handlers of a page.
LEMMA PageAsks ==
  ASSUME SettingsInv
  PROVE  /\ \A f \in Setting : OpenPage(f) => Sends(f, "on")
         /\ \A f \in Setting : Tap(f) => \E v \in Values(f) :
              Sends(f, v) /\ SendQueries(<<ChatQuery(settings, f, v)>>) /\ Chosen(f, v) /\ v \in {"on", "off"}
         /\ MuteForAnHour =>
              Sends("mute", "hour") /\ SendQueries(<<ChatQuery(settings, "mute", "hour")>>) /\ Chosen("mute", "hour")
<1>1. ASSUME NEW f \in Setting, OpenPage(f) PROVE Sends(f, "on")
  BY <1>1 DEF OpenPage, Sends
<1>2. ASSUME NEW f \in Setting, Tap(f)
      PROVE  \E v \in Values(f) :
               Sends(f, v) /\ SendQueries(<<ChatQuery(settings, f, v)>>) /\ Chosen(f, v) /\ v \in {"on", "off"}
  <2>1. CASE checked'[f]
    <3>1. SendQueries(<<ChatQuery(settings, f, "on")>>) /\ Chosen(f, "on")
      BY <1>2, <2>1 DEF Tap
    <3> QED
      BY <1>2, <3>1 DEF Tap, Sends, Values
  <2>2. CASE ~checked'[f]
    <3>1. SendQueries(<<ChatQuery(settings, f, "off")>>) /\ Chosen(f, "off")
      BY <1>2, <2>2 DEF Tap
    <3> QED
      BY <1>2, <3>1 DEF Tap, Sends, Values
  <2> QED
    BY <2>1, <2>2
<1>3. MuteForAnHour =>
        Sends("mute", "hour") /\ SendQueries(<<ChatQuery(settings, "mute", "hour")>>) /\ Chosen("mute", "hour")
  BY DEF MuteForAnHour, Sends
<1> QED
  BY <1>1, <1>2, <1>3

\* The types are kept, and so is what the program knows.
LEMMA PageKeepsSettings ==
  ASSUME SettingsInv, NEW f \in Setting, NEW v \in Values(f), Sends(f, v),
         wanted' = wanted \/ \E w \in {"any"} \cup Values(f) : wanted' = [wanted EXCEPT ![f] = w],
         checked' \in [Setting -> BOOLEAN], switch' \in [Setting -> {"none", "follows", "set"}]
  PROVE  SettingsInv'
<1>1. /\ UNCHANGED <<queue, tdSettings, tdScope, settings, scope>> /\ queue \in Seq(SettingsReport)
      /\ {settings, tdSettings} \subseteq OwnSettings /\ {scope, tdScope} \subseteq [Setting -> Value]
  BY DEF Sends, SettingsInv, SettingsTypes
<1>2. ChatQuery(settings, f, v).to \in OwnSettings
  BY <1>1, QueryOfChat
<1>3. /\ requests' \in Seq(SettingsQuery)
      /\ \A i \in 1 .. Len(requests') : \/ requests'[i].of = "chat" => requests'[i].to \in OwnSettings
                                        \/ \E j \in 1 .. Len(requests) : requests'[i] = requests[j]
  <2>1. ASSUME NEW i \in 1 .. Len(requests')
        PROVE  \/ requests'[i].of = "chat" => requests'[i].to \in OwnSettings
               \/ \E j \in 1 .. Len(requests) : requests'[i] = requests[j]
    BY <1>2, Asked
  <2> QED
    BY <2>1, Asked
<1>4. \A i \in 1 .. Len(queue') : \E j \in 1 .. Len(queue) : queue'[i] = queue[j]
  BY <1>1
<1>5. SettingsTypes'
  <2>1. \/ wanted' = wanted
        \/ \E g \in Setting : \E w \in {"any"} \cup Values(g) : wanted' = [wanted EXCEPT ![g] = w]
    OBVIOUS
  <2> QED
    BY <1>1, <1>3, <1>4, <2>1, TypesStay
<1>6. SettingsReported'
  BY <1>1 DEF SettingsInv, SettingsReported, Told, NoReport, LastReport
<1> QED
  BY <1>5, <1>6 DEF SettingsInv

\* TDLib stores settings: the types are kept, and so is what it reports.
LEMMA StoreKeepsSettings ==
  ASSUME SettingsInv, NEW of \in {"chat", "scope"}, NEW to \in [Setting -> Value], of = "chat" => to \in OwnSettings,
         Store(of, to), requests' \in Seq(SettingsQuery), UNCHANGED <<settings, scope, pageVars>>,
         \A i \in 1 .. Len(requests') : \E j \in 1 .. Len(requests) : requests'[i] = requests[j],
         \/ wanted' = wanted
         \/ \E f \in Setting : \E w \in {"any"} \cup Values(f) : wanted' = [wanted EXCEPT ![f] = w]
  PROVE  SettingsInv'
<1>1. /\ tdSettings' \in OwnSettings /\ tdScope' \in [Setting -> Value] /\ queue' \in Seq(SettingsReport)
      /\ \A i \in 1 .. Len(queue') : \/ i \in 1 .. Len(queue) /\ queue'[i] = queue[i]
                                     \/ queue'[i].type = of /\ queue'[i].to = to
      /\ Told(queue', "chat", settings, tdSettings') /\ Told(queue', "scope", scope, tdScope')
  BY Stores
<1>2. SettingsReported'
  BY <1>1 DEF SettingsReported, Told, NoReport, LastReport
<1>3. {settings', tdSettings'} \subseteq OwnSettings /\ {scope', tdScope'} \subseteq [Setting -> Value]
  BY <1>1 DEF SettingsInv, SettingsTypes
<1>4. checked' \in [Setting -> BOOLEAN] /\ switch' \in [Setting -> {"none", "follows", "set"}]
  BY DEF SettingsInv, SettingsTypes, pageVars
<1>5. \A i \in 1 .. Len(queue') : \/ queue'[i].type = "chat" => queue'[i].to \in OwnSettings
                                  \/ \E j \in 1 .. Len(queue) : queue'[i] = queue[j]
  BY <1>1
<1>6. SettingsTypes'
  BY <1>1, <1>3, <1>4, <1>5, TypesStay
<1> QED
  BY <1>2, <1>6 DEF SettingsInv

\* So every step keeps them.
LEMMA SettingsKeep ==
  ASSUME SettingsInv, [SettingsNext]_(settingsVars)
  PROVE  SettingsInv'
<1>1. /\ requests \in Seq(SettingsQuery) /\ queue \in Seq(SettingsReport) /\ settings \in OwnSettings /\ tdSettings \in OwnSettings
      /\ scope \in [Setting -> Value] /\ tdScope \in [Setting -> Value]
      /\ checked \in [Setting -> BOOLEAN] /\ switch \in [Setting -> {"none", "follows", "set"}]
  BY DEF SettingsInv, SettingsTypes
<1>2. ASSUME NEW f \in Setting, OpenPage(f) PROVE SettingsInv'
  <2>1. checked' \in [Setting -> BOOLEAN] /\ switch' \in [Setting -> {"none", "follows", "set"}] /\ wanted' = wanted
    BY <1>1, <1>2 DEF OpenPage
  <2> QED
    BY <1>2, <2>1, PageAsks, PageKeepsSettings DEF Values
<1>3. ASSUME NEW f \in Setting, ClosePage(f) PROVE SettingsInv'
  <2>1. checked' \in [Setting -> BOOLEAN] /\ switch' \in [Setting -> {"none", "follows", "set"}]
    BY <1>1, <1>3 DEF ClosePage
  <2>2. UNCHANGED <<requests, queue, settings, tdSettings, scope, tdScope, wanted>>
    BY <1>3 DEF ClosePage, tdlibVars, choiceVars
  <2>3. SettingsTypes'
    BY <2>1, <2>2 DEF SettingsInv, SettingsTypes
  <2>4. SettingsReported'
    BY <2>2 DEF SettingsInv, SettingsReported, Told, NoReport, LastReport
  <2> QED
    BY <2>3, <2>4 DEF SettingsInv
<1>4. ASSUME NEW f \in Setting, Tap(f) PROVE SettingsInv'
  <2>1. checked' \in [Setting -> BOOLEAN] /\ switch' \in [Setting -> {"none", "follows", "set"}]
    BY <1>1, <1>4 DEF Tap
  <2>2. PICK v \in Values(f) : Sends(f, v) /\ Chosen(f, v)
    BY <1>4, PageAsks
  <2>3. wanted' = [wanted EXCEPT ![f] = v]
    BY <2>2 DEF Chosen
  <2> QED
    BY <2>1, <2>2, <2>3, PageKeepsSettings
<1>5. ASSUME MuteForAnHour PROVE SettingsInv'
  <2>1. checked' = checked /\ switch' = switch /\ "mute" \in Setting /\ "hour" \in Values("mute")
    BY <1>5 DEF MuteForAnHour, pageVars, Setting, Values
  <2>2. Sends("mute", "hour") /\ wanted' = [wanted EXCEPT !["mute"] = "hour"]
    BY <1>5, PageAsks DEF Chosen
  <2> QED
    BY <1>1, <2>1, <2>2, PageKeepsSettings
<1>6. ASSUME NEW f \in Setting, NEW v \in Values(f), ChangeScope(f, v) PROVE SettingsInv'
  <2> DEFINE q == [of |-> "scope", to |-> [scope EXCEPT ![f] = v]]
  <2>1. q \in SettingsQuery /\ q.of = "scope"
    BY <1>1 DEF SettingsQuery, Value, Values
  <2>2. /\ UNCHANGED <<queue, tdSettings, tdScope, settings, scope, switch, checked>>
        /\ SendQueries(<<q>>) /\ wanted' = [wanted EXCEPT ![f] = "any"]
    BY <1>6 DEF ChangeScope, pageVars
  <2> HIDE DEF q
  <2>3. /\ requests' \in Seq(SettingsQuery) /\ Len(requests) \in Nat /\ Len(requests') = Len(requests) + 1
        /\ requests'[Len(requests) + 1] = q
        /\ \A i \in 1 .. Len(requests) : requests'[i] = requests[i]
    BY <1>1, <2>1, <2>2, SentOne
  <2>4. \A i \in 1 .. Len(requests') : \/ requests'[i].of = "chat" => requests'[i].to \in OwnSettings
                                       \/ \E j \in 1 .. Len(requests) : requests'[i] = requests[j]
    BY <2>1, <2>3
  <2>5. \A i \in 1 .. Len(queue') : \E j \in 1 .. Len(queue) : queue'[i] = queue[j]
    BY <2>2
  <2>6. SettingsTypes'
    BY <1>1, <2>2, <2>3, <2>4, <2>5, TypesStay
  <2>7. SettingsReported'
    BY <2>2 DEF SettingsInv, SettingsReported, Told, NoReport, LastReport
  <2> QED
    BY <2>6, <2>7 DEF SettingsInv
<1>7. ASSUME NEW f \in Setting, NEW v \in Values(f), OtherDeviceScope(f, v) PROVE SettingsInv'
  <2>1. [tdScope EXCEPT ![f] = v] \in [Setting -> Value]
    BY <1>1 DEF Value, Values
  <2>2. /\ Store("scope", [tdScope EXCEPT ![f] = v]) /\ wanted' = [wanted EXCEPT ![f] = "any"]
        /\ UNCHANGED <<requests, settings, scope, pageVars>>
    BY <1>7 DEF OtherDeviceScope
  <2> QED
    BY <1>1, <2>1, <2>2, StoreKeepsSettings
<1>8. ASSUME NEW f \in Setting, NEW v \in Values(f) \cup {"default"}, OtherDeviceChat(f, v) PROVE SettingsInv'
  <2>1. [tdSettings EXCEPT ![f] = v] \in [Setting -> Value] /\ [tdSettings EXCEPT ![f] = v] \in OwnSettings
    BY <1>1 DEF OwnSettings, Value, Values, Setting
  <2>2. /\ Store("chat", [tdSettings EXCEPT ![f] = v])
        /\ \E w \in {"any"} \cup Values(f) : wanted' = [wanted EXCEPT ![f] = w]
        /\ UNCHANGED <<requests, settings, scope, pageVars>>
    BY <1>8 DEF OtherDeviceChat
  <2> QED
    BY <1>1, <2>1, <2>2, StoreKeepsSettings
<1>9. ASSUME UpdateChatNotificationSettings PROVE SettingsInv'
  <2>1. /\ Received("chat") /\ UNCHANGED <<tdSettings, tdScope, scope, switch, wanted>>
    BY <1>9 DEF UpdateChatNotificationSettings
  <2>2. /\ settings' = queue[1].to /\ settings' \in OwnSettings /\ checked' \in [Setting -> BOOLEAN]
        /\ requests' \in Seq(SettingsQuery)
        /\ \A i \in 1 .. Len(requests') : (i \in 1 .. Len(requests) /\ requests'[i] = requests[i]) \/ Answers(requests'[i])
    BY <1>9, Answered
  <2>3. ASSUME NEW q, Answers(q) PROVE q.to \in OwnSettings
    <3>1. PICK g \in Setting : q = ChatQuery(settings', g, IF checked'[g] THEN "on" ELSE "off")
      BY <2>3 DEF Answers
    <3> QED
      BY <2>2, <3>1, QueryOfChat DEF Values
  <2>4. \A i \in 1 .. Len(requests') : \/ requests'[i].of = "chat" => requests'[i].to \in OwnSettings
                                       \/ \E j \in 1 .. Len(requests) : requests'[i] = requests[j]
    BY <2>2, <2>3
  <2>5. /\ queue' \in Seq(SettingsReport)
        /\ \A i \in 1 .. Len(queue') : \E j \in 1 .. Len(queue) : queue'[i] = queue[j]
        /\ Told(queue', "chat", queue[1].to, tdSettings) /\ Told(queue', "scope", scope, tdScope)
    BY <2>1, Takes
  <2>6. SettingsTypes'
    BY <1>1, <2>1, <2>2, <2>4, <2>5, TypesStay
  <2>7. SettingsReported'
    BY <2>1, <2>2, <2>5 DEF SettingsReported, Told, NoReport, LastReport
  <2> QED
    BY <2>6, <2>7 DEF SettingsInv
<1>10. ASSUME UpdateScopeNotificationSettings PROVE SettingsInv'
  <2>1. /\ Received("scope") /\ scope' = Head(queue).to
        /\ UNCHANGED <<tdSettings, tdScope, requests, settings, switch, checked, wanted>>
    BY <1>10 DEF UpdateScopeNotificationSettings, pageVars
  <2>2. /\ queue' \in Seq(SettingsReport) /\ scope' = queue[1].to /\ scope' \in [Setting -> Value]
        /\ \A i \in 1 .. Len(queue') : \E j \in 1 .. Len(queue) : queue'[i] = queue[j]
        /\ Told(queue', "chat", settings, tdSettings) /\ Told(queue', "scope", queue[1].to, tdScope)
    BY <2>1, Takes
  <2>3. SettingsTypes'
    BY <1>1, <2>1, <2>2, TypesStay
  <2>4. SettingsReported'
    BY <2>1, <2>2 DEF SettingsReported, Told, NoReport, LastReport
  <2> QED
    BY <2>3, <2>4 DEF SettingsInv
<1>11. ASSUME HandleQuery PROVE SettingsInv'
  <2>1. UNCHANGED <<settings, scope, pageVars>> /\ wanted' = wanted
    BY <1>11 DEF HandleQuery
  <2>2. /\ requests[1].of \in {"chat", "scope"} /\ requests[1].to \in [Setting -> Value]
        /\ (requests[1].of = "chat" => requests[1].to \in OwnSettings)
        /\ Store(requests[1].of, requests[1].to) /\ requests' \in Seq(SettingsQuery)
        /\ \A i \in 1 .. Len(requests') : \E j \in 1 .. Len(requests) : requests'[i] = requests[j]
    BY <1>11, Handles DEF SettingsQuery
  <2> QED
    BY <2>1, <2>2, StoreKeepsSettings
<1>12. CASE UNCHANGED settingsVars
  <2>1. UNCHANGED <<requests, queue, settings, tdSettings, scope, tdScope, wanted, checked, switch>>
    BY <1>12 DEF settingsVars, tdlibVars, pageVars, choiceVars
  <2>2. SettingsTypes'
    BY <2>1 DEF SettingsInv, SettingsTypes
  <2>3. SettingsReported'
    BY <2>1 DEF SettingsInv, SettingsReported, Told, NoReport, LastReport
  <2> QED
    BY <2>2, <2>3 DEF SettingsInv
<1> QED
  BY <1>2, <1>3, <1>4, <1>5, <1>6, <1>7, <1>8, <1>9, <1>10, <1>11, <1>12 DEF SettingsNext

(***************************************************************************)
(* What was chosen.                                                        *)
(***************************************************************************)
ChoiceInv == FinalInv /\ FollowInv

\* What is known of the scope stays if nothing else is under way.
LEMMA ScopeStays ==
  ASSUME NEW f, NEW v, ScopeIs(f, v), scope'[f] = v, tdScope'[f] = v,
         \A i \in 1 .. Len(queue') : \/ queue'[i].type = "scope" => queue'[i].to[f] = v
                                     \/ \E j \in 1 .. Len(queue) : queue'[i] = queue[j],
         \A i \in 1 .. Len(requests') : \/ requests'[i].of = "scope" => requests'[i].to[f] = v
                                        \/ \E j \in 1 .. Len(requests) : requests'[i] = requests[j]
  PROVE  ScopeIs(f, v)'
<1>1. \A i \in 1 .. Len(queue') : queue'[i].type = "scope" => queue'[i].to[f] = v
  BY DEF ScopeIs
<1>2. \A i \in 1 .. Len(requests') : requests'[i].of = "scope" => requests'[i].to[f] = v
  BY DEF ScopeIs
<1> QED
  BY <1>1, <1>2 DEF ScopeIs

\* Settings stay right.
LEMMA RightStays ==
  ASSUME NEW f, NEW own, NEW own2, Right(own, f), own2[f] = own[f], wanted'[f] = wanted[f],
         \A v : ScopeIs(f, v) => ScopeIs(f, v)'
  PROVE  Right(own2, f)'
BY DEF Right

\* Settings that are right give what was chosen.
LEMMA RightInForce ==
  ASSUME NEW f, NEW own, Right(own, f)
  PROVE  InForce(own, scope, f) = wanted[f] /\ InForce(own, tdScope, f) = wanted[f]
BY DEF Right, ScopeIs, InForce

\* When nothing is under way, settings and scope are what the program knows.
LEMMA QuietIsRight ==
  ASSUME SettingsInv, ChoiceInv, Quiet
  PROVE  /\ Len(queue) = 0 /\ Len(requests) = 0 /\ settings = tdSettings /\ scope = tdScope
         /\ \A f : ScopeIs(f, scope[f])
         /\ \A f \in Setting : Choice(f) => Right(settings, f)
<1>1. Len(queue) = 0 /\ Len(requests) = 0 /\ settings = tdSettings /\ scope = tdScope
  BY QuietIsTold
<1>2. \A i \in 1 .. Len(requests) : requests[i].of # "chat"
  BY <1>1
<1> QED
  BY <1>1, <1>2 DEF ChoiceInv, FinalInv, ScopeIs

\* What is chosen is sent, and with it what the chat has of the other settings.
LEMMA ChoiceIsMade ==
  ASSUME SettingsInv, ChoiceInv, NEW f \in Setting, NEW v \in Values(f),
         Sends(f, v), SendQueries(<<ChatQuery(settings, f, v)>>), Chosen(f, v),
         \A g \in Setting : g # f => switch'[g] = switch[g] /\ checked'[g] = checked[g],
         v = "hour" => switch' = switch /\ checked' = checked
  PROVE  ChoiceInv'
<1>0. PICK q : q = ChatQuery(settings, f, v)
  OBVIOUS
<1>1. /\ requests \in Seq(SettingsQuery) /\ queue \in Seq(SettingsReport) /\ settings \in OwnSettings /\ DOMAIN wanted = Setting
      /\ UNCHANGED <<queue, tdSettings, tdScope, settings, scope>>
      /\ v # "default" /\ v # "any"
  BY DEF SettingsInv, SettingsTypes, Sends, Values
<1>2. /\ q \in SettingsQuery /\ q.of = "chat" /\ q.to[f] = (IF scope[f] = v THEN "default" ELSE v)
      /\ \A g \in Setting : g # f => q.to[g] = settings[g]
  BY <1>0, <1>1, QueryOfChat, ChangedOne
<1>3. SendQueries(<<q>>)
  BY <1>0
<1>4. /\ requests' \in Seq(SettingsQuery) /\ Len(requests) \in Nat /\ Len(requests') = Len(requests) + 1
      /\ requests'[Len(requests) + 1] = q
      /\ \A i \in 1 .. Len(requests) : requests'[i] = requests[i]
  BY <1>1, <1>2, <1>3, SentOne
<1>5. \A i \in 1 .. Len(requests') : requests'[i] = q \/ \E j \in 1 .. Len(requests) : requests'[i] = requests[j]
  BY <1>4
<1>6. /\ wanted'[f] = v /\ \A g \in Setting : g # f => wanted'[g] = wanted[g]
      /\ crossed' = (crossed \/ ((\E g \in Setting : switch'[g] = "follows") /\ ~Quiet))
  BY <1>1 DEF Chosen, Meets
<1>7. SUFFICES ASSUME NEW g \in Setting, Choice(g)'
      PROVE  /\ Right(q.to, g)'
             /\ (\E h \in Setting : Follows(h)') =>
                  Quiet /\ ScopeIs(g, scope[g])' /\ (Follows(g)' /\ wanted'[g] = "hour" => ~checked'[g])
  <2>2. Len(requests) + 1 \in 1 .. Len(requests')
    BY <1>4
  <2>3. FinalInv'
    <3>1. ASSUME NEW g \in Setting, Choice(g)', NEW i \in 1 .. Len(requests'), LastQuery(i)'
          PROVE  Right(requests[i].to, g)'
      <4>1. i = Len(requests) + 1
        BY <1>2, <1>4, <3>1 DEF LastQuery
      <4> QED
        BY <1>4, <1>7, <3>1, <4>1
    <3>2. ~ \A i \in 1 .. Len(requests') : requests'[i].of # "chat"
      BY <1>2, <1>4, <2>2
    <3> QED
      BY <3>1, <3>2 DEF FinalInv
  <2>4. FollowInv'
    <3>1. ASSUME NEW h \in Setting, Follows(h)', NEW g \in Setting, Choice(g)'
          PROVE  /\ ScopeIs(g, scope[g])'
                 /\ \A i \in 1 .. Len(queue') : queue'[i].type = "chat" => Right(queue[i].to, g)'
                 /\ \A i \in 1 .. Len(requests') : requests'[i].of = "chat" => Right(requests[i].to, g)'
                 /\ Follows(g)' /\ wanted'[g] = "hour" => ~checked'[g]
      <4>1. Quiet /\ Right(q.to, g)' /\ ScopeIs(g, scope[g])' /\ (Follows(g)' /\ wanted'[g] = "hour" => ~checked'[g])
        BY <1>7, <3>1
      <4>2. Len(queue') = 0 /\ Len(requests) = 0
        BY <1>1, <4>1, QuietIsTold
      <4>3. ASSUME NEW i \in 1 .. Len(requests') PROVE Right(requests[i].to, g)'
        BY <1>5, <4>1, <4>2, <4>3
      <4> QED
        BY <4>1, <4>2, <4>3
    <3> QED
      BY <3>1 DEF FollowInv
  <2> QED
    BY <2>3, <2>4 DEF ChoiceInv
<1>8. ~crossed' /\ ScopeIsKnown /\ g \notin excused'
  BY <1>7 DEF Choice, Chosen
<1>9. \A h \in Setting : Follows(h)' => Quiet
  BY <1>6, <1>8 DEF Follows
<1>10. scope = tdScope /\ \A h : ScopeIs(h, scope[h]) /\ ScopeIs(h, scope[h])'
  <2>1. /\ \A i \in 1 .. Len(queue) : queue[i].type = "chat"
        /\ \A i \in 1 .. Len(requests) : requests[i].of = "chat"
    BY <1>1, <1>8, LenProperties DEF ScopeIsKnown
  <2>2. scope = tdScope
    BY <2>1 DEF SettingsInv, SettingsReported, Told, NoReport
  <2>3. \A h : ScopeIs(h, scope[h])
    BY <2>1, <2>2 DEF ScopeIs
  <2>4. ASSUME NEW h PROVE ScopeIs(h, scope[h])'
    <3>1. \A i \in 1 .. Len(requests') : requests'[i].of = "chat"
      BY <1>2, <1>5, <2>1
    <3> QED
      BY <1>1, <2>1, <2>2, <3>1 DEF ScopeIs
  <2> QED
    BY <2>2, <2>3, <2>4
<1>11. CASE g = f
  <2>1. Right(q.to, g)'
    <3>1. CASE scope[f] = v
      <4>1. ScopeIs(f, v)'
        BY <1>1, <1>6, <1>10, <3>1
      <4> QED
        BY <1>2, <1>6, <1>11, <3>1, <4>1 DEF Right, ScopeIs
    <3>2. CASE scope[f] # v
      BY <1>1, <1>2, <1>6, <1>11, <3>2 DEF Right
    <3> QED
      BY <3>1, <3>2
  <2>2. Follows(g)' /\ wanted'[g] = "hour" => ~checked'[g]
    <3>1. excused' = Overruled(f, v) \cup ((IF Quiet THEN excused ELSE Setting) \ {f})
      BY <1>8 DEF Chosen
    <3>2. f \notin Overruled(f, v)
      BY <1>8, <1>11, <3>1
    <3>3. v = "hour" => ~(Follows(f) /\ checked[f])
      BY <3>2 DEF Overruled
    <3> QED
      BY <1>6, <1>11, <3>3 DEF Follows
  <2> QED
    BY <1>9, <1>10, <2>1, <2>2
<1>12. CASE g # f
  <2>1. Quiet /\ Choice(g) /\ wanted'[g] = wanted[g]
    <3>1. excused' = Overruled(f, v) \cup ((IF Quiet THEN excused ELSE Setting) \ {f})
      BY <1>8 DEF Chosen
    <3>2. Quiet /\ g \notin excused
      BY <1>8, <1>12, <3>1
    <3> QED
      BY <1>6, <1>7, <1>12, <3>2 DEF Choice
  <2>2. Right(settings, g)
    BY <2>1, QuietIsRight
  <2>3. \A w : ScopeIs(g, w) => ScopeIs(g, w)'
    <3>1. ASSUME NEW w, ScopeIs(g, w) PROVE ScopeIs(g, w)'
      <4>1. w = scope[g] /\ scope' = scope
        BY <1>1, <3>1 DEF ScopeIs
      <4>2. ScopeIs(g, scope[g])'
        BY <1>10
      <4> QED
        BY <4>1, <4>2 DEF ScopeIs
    <3> QED
      BY <3>1
  <2>4. Right(q.to, g)'
    BY <1>2, <1>12, <2>1, <2>2, <2>3, RightStays
  <2>5. Follows(g)' /\ wanted'[g] = "hour" => ~checked'[g]
    BY <1>12, <2>1 DEF ChoiceInv, FollowInv, Follows
  <2> QED
    BY <1>9, <1>10, <2>1, <2>4, <2>5
<1> QED
  BY <1>11, <1>12

\* A page that is opened asks for what is in force, which is what was chosen.
LEMMA OpenKeepsChoice ==
  ASSUME SettingsInv, ChoiceInv, NEW f \in Setting, OpenPage(f)
  PROVE  ChoiceInv'
<1>0. PICK q : q = ChatQuery(settings, f, "on")
  OBVIOUS
<1>1. /\ requests \in Seq(SettingsQuery) /\ settings \in OwnSettings /\ DOMAIN wanted = Setting
      /\ DOMAIN switch = Setting /\ checked \in [Setting -> BOOLEAN]
      /\ UNCHANGED <<queue, tdSettings, tdScope, settings, scope, wanted>>
      /\ switch' = [switch EXCEPT ![f] = "follows"]
      /\ checked' = [checked EXCEPT ![f] = InForce(settings, scope, f) = "on"]
      /\ excused' = IF Quiet THEN excused ELSE Setting
      /\ SendQueries(IF checked'[f] THEN <<q>> ELSE <<>>)
  BY <1>0 DEF SettingsInv, SettingsTypes, OpenPage
<1>2. SUFFICES ASSUME Quiet PROVE ChoiceInv'
  <2>1. CASE ~Quiet
    <3>1. \A g \in Setting : ~Choice(g)'
      BY <1>1, <2>1 DEF Choice
    <3> QED
      BY <3>1 DEF ChoiceInv, FinalInv, FollowInv
  <2> QED
    BY <1>2, <2>1
<1>3. /\ Len(queue) = 0 /\ Len(requests) = 0 /\ settings = tdSettings /\ scope = tdScope
      /\ \A g : ScopeIs(g, scope[g])
      /\ \A g \in Setting : Choice(g) => Right(settings, g)
  BY <1>2, QuietIsRight
<1>4. /\ q \in SettingsQuery /\ q.of = "chat" /\ q.to[f] = (IF scope[f] = "on" THEN "default" ELSE "on")
      /\ \A g \in Setting : g # f => q.to[g] = settings[g]
  BY <1>0, <1>1, QueryOfChat, ChangedOne DEF Values
<1>5. /\ requests' \in Seq(SettingsQuery)
      /\ \/ Len(requests') = 0
         \/ Len(requests') = 1 /\ requests'[1] = q /\ InForce(settings, scope, f) = "on"
  <2>1. CASE checked'[f]
    <3>1. SendQueries(<<q>>) /\ InForce(settings, scope, f) = "on"
      BY <1>1, <2>1
    <3> QED
      BY <1>1, <1>3, <1>4, <3>1, SentOne
  <2>2. CASE ~checked'[f]
    <3>1. SendQueries(<<>>) /\ <<>> \in Seq(SettingsQuery)
      BY <1>1, <2>2
    <3>2. requests' = requests
      BY <1>1, <3>1, QuerySent
    <3> QED
      BY <1>1, <1>3, <3>2
  <2> QED
    BY <2>1, <2>2
<1>6. ASSUME NEW g, NEW w, ScopeIs(g, w) PROVE ScopeIs(g, w)'
  BY <1>1, <1>3, <1>4, <1>5, <1>6 DEF ScopeIs
<1>7. ASSUME NEW g \in Setting, Choice(g)'
      PROVE  /\ ScopeIs(g, scope[g])' /\ Right(tdSettings, g)'
             /\ Len(requests') = 1 => Right(q.to, g)'
             /\ Follows(g)' /\ wanted'[g] = "hour" => ~checked'[g]
  <2>1. Choice(g) /\ Right(settings, g) /\ wanted'[g] = wanted[g]
    BY <1>1, <1>2, <1>3, <1>7 DEF Choice
  <2>2. ScopeIs(g, scope[g])'
    <3>1. ScopeIs(g, scope[g])
      BY <1>3
    <3> QED
      BY <1>1, <1>3, <1>4, <1>5, <3>1 DEF ScopeIs
  <2>3. Right(tdSettings, g)'
    BY <1>1, <1>3, <1>6, <2>1, RightStays DEF Right
  <2>4. InForce(settings, scope, g) = wanted[g]
    BY <2>1, RightInForce
  <2>5. ASSUME Len(requests') = 1 PROVE Right(q.to, g)'
    <3>1. CASE g = f /\ scope[f] = "on"
      <4>1. wanted'[f] = "on" /\ scope'[f] = "on"
        BY <1>1, <1>5, <2>1, <2>4, <2>5, <3>1
      <4> QED
        BY <1>4, <2>2, <3>1, <4>1 DEF Right, ScopeIs
    <3>2. CASE g = f /\ scope[f] # "on"
      <4>1. wanted'[f] = "on"
        BY <1>1, <1>5, <2>1, <2>4, <2>5, <3>2
      <4> QED
        BY <1>4, <3>2, <4>1 DEF Right
    <3>3. CASE g # f
      BY <1>4, <1>6, <2>1, <3>3, RightStays
    <3> QED
      BY <3>1, <3>2, <3>3
  <2>6. Follows(g)' /\ wanted'[g] = "hour" => ~checked'[g]
    <3>1. CASE g = f
      BY <1>1, <2>1, <2>4, <3>1
    <3>2. CASE g # f
      BY <1>1, <2>1, <3>2 DEF ChoiceInv, FollowInv, Follows
    <3> QED
      BY <3>1, <3>2
  <2> QED
    BY <2>2, <2>3, <2>5, <2>6
<1>8. FinalInv'
  BY <1>4, <1>5, <1>7 DEF FinalInv
<1>9. FollowInv'
  BY <1>1, <1>3, <1>5, <1>7 DEF FollowInv
<1> QED
  BY <1>8, <1>9 DEF ChoiceInv

\* A page that is closed asks for nothing.
LEMMA CloseKeepsChoice ==
  ASSUME ChoiceInv, SettingsInv, NEW f \in Setting, ClosePage(f)
  PROVE  ChoiceInv'
<1>1. /\ UNCHANGED <<queue, requests, tdSettings, tdScope, settings, scope, wanted, excused>>
      /\ switch' = [switch EXCEPT ![f] = "none"] /\ checked' = [checked EXCEPT ![f] = FALSE]
      /\ DOMAIN switch = Setting /\ DOMAIN checked = Setting
  BY DEF SettingsInv, SettingsTypes, ClosePage, tdlibVars, choiceVars
<1>2. ASSUME NEW g \in Setting, Follows(g)' PROVE Follows(g) /\ checked'[g] = checked[g]
  BY <1>1, <1>2 DEF Follows
<1>3. FinalInv'
  BY <1>1 DEF ChoiceInv, FinalInv, Choice, LastQuery, Right, ScopeIs
<1>4. FollowInv'
  <2>1. ASSUME NEW h \in Setting, Follows(h)', NEW g \in Setting, Choice(g)'
        PROVE  /\ ScopeIs(g, scope[g])'
               /\ \A i \in 1 .. Len(queue') : queue'[i].type = "chat" => Right(queue[i].to, g)'
               /\ \A i \in 1 .. Len(requests') : requests'[i].of = "chat" => Right(requests[i].to, g)'
               /\ Follows(g)' /\ wanted'[g] = "hour" => ~checked'[g]
    <3>1. /\ ScopeIs(g, scope[g])
          /\ \A i \in 1 .. Len(queue) : queue[i].type = "chat" => Right(queue[i].to, g)
          /\ \A i \in 1 .. Len(requests) : requests[i].of = "chat" => Right(requests[i].to, g)
          /\ Follows(g) /\ wanted[g] = "hour" => ~checked[g]
      BY <1>1, <1>2, <2>1 DEF ChoiceInv, FollowInv, Choice
    <3>2. Follows(g)' /\ wanted'[g] = "hour" => ~checked'[g]
      BY <1>1, <1>2, <3>1
    <3> QED
      BY <1>1, <3>1, <3>2 DEF Right, ScopeIs
  <2> QED
    BY <2>1 DEF FollowInv
<1> QED
  BY <1>3, <1>4 DEF ChoiceInv

\* A scope query is added: it repeats what is known of the other settings.
LEMMA ScopeKeepsChoice ==
  ASSUME SettingsInv, ChoiceInv, NEW f \in Setting, NEW v \in Values(f), ChangeScope(f, v)
  PROVE  ChoiceInv'
<1>0. PICK q : q = [of |-> "scope", to |-> [scope EXCEPT ![f] = v]]
  OBVIOUS
<1>1. /\ requests \in Seq(SettingsQuery) /\ DOMAIN wanted = Setting /\ scope \in [Setting -> Value]
      /\ UNCHANGED <<queue, tdSettings, tdScope, settings, scope, switch, excused>>
      /\ wanted' = [wanted EXCEPT ![f] = "any"] /\ SendQueries(<<q>>)
      /\ \A g \in Setting : switch[g] = "none"
  BY <1>0 DEF SettingsInv, SettingsTypes, ChangeScope, pageVars
<1>2. q \in SettingsQuery /\ q.of = "scope" /\ \A g \in Setting : g # f => q.to[g] = scope[g]
  BY <1>0, <1>1 DEF SettingsQuery, Value, Values
<1>3. /\ requests' \in Seq(SettingsQuery) /\ Len(requests) \in Nat /\ Len(requests') = Len(requests) + 1
      /\ requests'[Len(requests) + 1] = q
      /\ \A i \in 1 .. Len(requests) : requests'[i] = requests[i]
  BY <1>1, <1>2, SentOne
<1>4. ASSUME NEW g \in Setting, Choice(g)'
      PROVE  /\ Choice(g) /\ wanted'[g] = wanted[g]
             /\ \A w : ScopeIs(g, w) => ScopeIs(g, w)'
  <2>1. g # f
    BY <1>1, <1>4 DEF Choice
  <2>2. \A w : ScopeIs(g, w) => ScopeIs(g, w)'
    BY <1>1, <1>2, <1>3, <2>1 DEF ScopeIs
  <2> QED
    BY <1>1, <1>4, <2>1, <2>2 DEF Choice
<1>5. ASSUME NEW i \in 1 .. Len(requests'), LastQuery(i)'
      PROVE  i \in 1 .. Len(requests) /\ LastQuery(i) /\ requests'[i] = requests[i]
  <2>1. i \in 1 .. Len(requests)
    BY <1>2, <1>3, <1>5 DEF LastQuery
  <2> QED
    BY <1>3, <1>5, <2>1 DEF LastQuery
<1>6. FinalInv'
  <2>1. ASSUME NEW g \in Setting, Choice(g)', NEW i \in 1 .. Len(requests'), LastQuery(i)'
        PROVE  Right(requests[i].to, g)'
    <3>1. Right(requests[i].to, g)
      BY <1>4, <1>5, <2>1 DEF ChoiceInv, FinalInv
    <3> QED
      BY <1>4, <1>5, <2>1, <3>1 DEF Right
  <2>2. ASSUME NEW g \in Setting, Choice(g)', \A i \in 1 .. Len(requests') : requests'[i].of # "chat"
        PROVE  Right(tdSettings, g)'
    <3>1. \A i \in 1 .. Len(requests) : requests[i].of # "chat"
      BY <1>3, <2>2
    <3>2. Right(tdSettings, g)
      BY <1>4, <2>2, <3>1 DEF ChoiceInv, FinalInv
    <3> QED
      BY <1>1, <1>4, <2>2, <3>2 DEF Right
  <2> QED
    BY <2>1, <2>2 DEF FinalInv
<1>7. FollowInv'
  BY <1>1 DEF FollowInv, Follows
<1> QED
  BY <1>6, <1>7 DEF ChoiceInv

\* TDLib takes a query.
LEMMA HandleKeepsChoice ==
  ASSUME SettingsInv, ChoiceInv, HandleQuery
  PROVE  ChoiceInv'
<1>0. PICK q : q = requests[1]
  OBVIOUS
<1>1. /\ q \in SettingsQuery /\ 1 \in 1 .. Len(requests) /\ Len(requests) \in Nat
      /\ requests' \in Seq(SettingsQuery) /\ Store(q.of, q.to)
      /\ \A i \in 1 .. Len(requests') : i + 1 \in 1 .. Len(requests) /\ requests'[i] = requests[i + 1]
      /\ \A j \in 2 .. Len(requests) : j - 1 \in 1 .. Len(requests') /\ requests'[j - 1] = requests[j]
      /\ (q.of = "chat" => q.to \in OwnSettings)
  BY <1>0, Handles
<1>2. /\ UNCHANGED <<settings, scope, wanted, excused, switch, checked>> /\ requests \in Seq(SettingsQuery)
  BY DEF HandleQuery, pageVars, SettingsInv, SettingsTypes
<1>3. q.of \in {"chat", "scope"} /\ q.to \in [Setting -> Value]
  BY <1>1 DEF SettingsQuery
<1>4. /\ tdSettings' = (IF q.of = "chat" THEN q.to ELSE tdSettings)
      /\ tdScope' = (IF q.of = "scope" THEN q.to ELSE tdScope)
      /\ \A i \in 1 .. Len(queue') : \/ i \in 1 .. Len(queue) /\ queue'[i] = queue[i]
                                     \/ queue'[i].type = q.of /\ queue'[i].to = q.to
  BY <1>1, <1>3, Stores
<1>5. ASSUME NEW g, NEW w, ScopeIs(g, w) PROVE ScopeIs(g, w)'
  <2>1. q.of = "scope" => q.to[g] = w
    BY <1>0, <1>1, <1>5 DEF ScopeIs
  <2>2. scope'[g] = w /\ tdScope'[g] = w
    BY <1>2, <1>4, <1>5, <2>1 DEF ScopeIs
  <2>3. \A i \in 1 .. Len(queue') : queue'[i].type = "scope" => queue'[i].to[g] = w
    BY <1>4, <1>5, <2>1 DEF ScopeIs
  <2>4. \A i \in 1 .. Len(requests') : requests'[i].of = "scope" => requests'[i].to[g] = w
    BY <1>1, <1>5 DEF ScopeIs
  <2> QED
    BY <2>2, <2>3, <2>4 DEF ScopeIs
<1>6. ASSUME NEW g, NEW own, Right(own, g) PROVE Right(own, g)'
  BY <1>2, <1>5, <1>6, RightStays
<1>7. ASSUME NEW g PROVE Choice(g)' <=> Choice(g)
  BY <1>2 DEF Choice
<1>8. FinalInv'
  <2>1. ASSUME NEW g \in Setting, Choice(g)', NEW i \in 1 .. Len(requests'), LastQuery(i)'
        PROVE  Right(requests[i].to, g)'
    <3>1. i + 1 \in 1 .. Len(requests) /\ requests'[i] = requests[i + 1]
      BY <1>1
    <3>2. ASSUME NEW j \in 1 .. Len(requests), j > i + 1 PROVE requests[j].of # "chat"
      <4>1. j \in 2 .. Len(requests) /\ j - 1 > i
        BY <1>1, <3>2
      <4> QED
        BY <1>1, <2>1, <4>1 DEF LastQuery
    <3>3. LastQuery(i + 1)
      BY <2>1, <3>1, <3>2 DEF LastQuery
    <3>4. Right(requests[i + 1].to, g)
      BY <1>7, <2>1, <3>1, <3>3 DEF ChoiceInv, FinalInv
    <3> QED
      BY <1>6, <3>1, <3>4 DEF Right
  <2>2. ASSUME NEW g \in Setting, Choice(g)', \A i \in 1 .. Len(requests') : requests'[i].of # "chat"
        PROVE  Right(tdSettings, g)'
    <3>1. \A j \in 2 .. Len(requests) : requests[j].of # "chat"
      BY <1>1, <2>2
    <3>2. CASE q.of = "chat"
      <4>1. LastQuery(1)
        BY <1>0, <1>1, <3>1, <3>2 DEF LastQuery
      <4>2. Right(q.to, g)
        BY <1>0, <1>1, <1>7, <2>2, <4>1 DEF ChoiceInv, FinalInv
      <4> QED
        BY <1>4, <1>6, <3>2, <4>2 DEF Right
    <3>3. CASE q.of # "chat"
      <4>1. \A j \in 1 .. Len(requests) : requests[j].of # "chat"
        BY <1>0, <1>1, <3>1, <3>3
      <4>2. Right(tdSettings, g)
        BY <1>7, <2>2, <4>1 DEF ChoiceInv, FinalInv
      <4> QED
        BY <1>4, <1>6, <3>3, <4>2 DEF Right
    <3> QED
      BY <3>2, <3>3
  <2> QED
    BY <2>1, <2>2 DEF FinalInv
<1>9. FollowInv'
  <2>1. ASSUME NEW h \in Setting, Follows(h)', NEW g \in Setting, Choice(g)'
        PROVE  /\ ScopeIs(g, scope[g])'
               /\ \A i \in 1 .. Len(queue') : queue'[i].type = "chat" => Right(queue[i].to, g)'
               /\ \A i \in 1 .. Len(requests') : requests'[i].of = "chat" => Right(requests[i].to, g)'
               /\ Follows(g)' /\ wanted'[g] = "hour" => ~checked'[g]
    <3>1. /\ ScopeIs(g, scope[g])
          /\ \A i \in 1 .. Len(queue) : queue[i].type = "chat" => Right(queue[i].to, g)
          /\ \A i \in 1 .. Len(requests) : requests[i].of = "chat" => Right(requests[i].to, g)
          /\ Follows(g) /\ wanted[g] = "hour" => ~checked[g]
      BY <1>2, <1>7, <2>1 DEF ChoiceInv, FollowInv, Follows
    <3>2. ScopeIs(g, scope[g])'
      BY <1>2, <1>5, <3>1 DEF ScopeIs
    <3>3. ASSUME NEW i \in 1 .. Len(queue'), queue'[i].type = "chat" PROVE Right(queue[i].to, g)'
      <4>1. Right(q.to, g) \/ q.of # "chat"
        BY <1>0, <1>1, <3>1
      <4>2. PICK to : to = queue'[i].to
        OBVIOUS
      <4>3. Right(to, g)
        BY <1>4, <3>1, <3>3, <4>1, <4>2
      <4> QED
        BY <1>6, <4>2, <4>3 DEF Right
    <3>4. ASSUME NEW i \in 1 .. Len(requests'), requests'[i].of = "chat" PROVE Right(requests[i].to, g)'
      <4>1. PICK to : to = requests'[i].to
        OBVIOUS
      <4>2. Right(to, g)
        BY <1>1, <3>1, <3>4, <4>1
      <4> QED
        BY <1>6, <4>1, <4>2 DEF Right
    <3>5. Follows(g)' /\ wanted'[g] = "hour" => ~checked'[g]
      BY <1>2, <3>1 DEF Follows
    <3> QED
      BY <3>2, <3>3, <3>4, <3>5
  <2> QED
    BY <2>1 DEF FollowInv
<1> QED
  BY <1>8, <1>9 DEF ChoiceInv

\* Another device changes a setting of the chat.
LEMMA OtherKeepsChoice ==
  ASSUME SettingsInv, ChoiceInv, NEW f \in Setting, NEW v \in Values(f) \cup {"default"}, OtherDeviceChat(f, v)
  PROVE  ChoiceInv'
<1>0. PICK to : to = [tdSettings EXCEPT ![f] = v]
  OBVIOUS
<1>1. /\ tdSettings \in OwnSettings /\ DOMAIN wanted = Setting /\ Store("chat", to)
      /\ wanted' = [wanted EXCEPT ![f] = IF v = "default" THEN "any" ELSE v]
      /\ crossed' = (crossed \/ ((\E g \in Setting : Follows(g)) /\ ~Quiet))
      /\ excused' = (IF crossed' \/ requests # <<>> THEN Setting ELSE Overruled(f, v) \cup (excused \ {f}))
      /\ UNCHANGED <<requests, settings, scope, switch, checked>>
  BY <1>0 DEF SettingsInv, SettingsTypes, OtherDeviceChat, Meets, pageVars
<1>2. /\ to \in [Setting -> Value] /\ to \in OwnSettings /\ to[f] = v
      /\ \A g \in Setting : g # f => to[g] = tdSettings[g]
  BY <1>0, <1>1 DEF OwnSettings, Value, Values, Setting
<1>3. /\ tdSettings' = to /\ tdScope' = tdScope
      /\ \A i \in 1 .. Len(queue') : \/ i \in 1 .. Len(queue) /\ queue'[i] = queue[i]
                                     \/ queue'[i].type = "chat" /\ queue'[i].to = to
  BY <1>1, <1>2, Stores
<1>4. ASSUME NEW g, NEW w, ScopeIs(g, w) PROVE ScopeIs(g, w)'
  BY <1>1, <1>3, <1>4 DEF ScopeIs
<1>5. ASSUME NEW g \in Setting, Choice(g)'
      PROVE  /\ requests = <<>> /\ Right(to, g)'
             /\ (\E h \in Setting : Follows(h)) => Quiet
             /\ Follows(g)' /\ wanted'[g] = "hour" => ~checked'[g]
  <2>1. ~crossed' /\ requests = <<>> /\ g \notin Overruled(f, v) \cup (excused \ {f})
    BY <1>1, <1>5 DEF Choice
  <2>2. Len(requests) = 0
    BY <2>1
  <2>3. (\E h \in Setting : Follows(h)) => Quiet
    BY <1>1, <2>1
  <2>4. CASE g = f
    <3>1. v # "default" /\ wanted'[f] = v
      BY <1>1, <1>5, <2>4 DEF Choice
    <3>2. Right(to, f)'
      BY <1>2, <3>1 DEF Right
    <3>3. v = "hour" => ~(Follows(f) /\ checked[f])
      BY <2>1, <2>4 DEF Overruled
    <3> QED
      BY <1>1, <2>1, <2>3, <2>4, <3>1, <3>2, <3>3 DEF Follows
  <2>5. CASE g # f
    <3>1. Choice(g) /\ wanted'[g] = wanted[g]
      BY <1>1, <1>5, <2>1, <2>5 DEF Choice
    <3>2. \A i \in 1 .. Len(requests) : requests[i].of # "chat"
      BY <2>2
    <3>3. Right(tdSettings, g)
      BY <3>1, <3>2 DEF ChoiceInv, FinalInv
    <3>4. Right(to, g)'
      BY <1>2, <1>4, <2>5, <3>1, <3>3, RightStays
    <3>5. Follows(g)' /\ wanted'[g] = "hour" => ~checked'[g]
      BY <1>1, <3>1 DEF ChoiceInv, FollowInv, Follows
    <3> QED
      BY <2>1, <2>3, <3>4, <3>5
  <2> QED
    BY <2>4, <2>5
<1>6. FinalInv'
  <2>1. ASSUME NEW g \in Setting, Choice(g)' PROVE Len(requests') = 0 /\ Right(tdSettings, g)'
    BY <1>1, <1>3, <1>5, <2>1 DEF Right
  <2> QED
    BY <2>1 DEF FinalInv
<1>7. FollowInv'
  <2>1. ASSUME NEW h \in Setting, Follows(h)', NEW g \in Setting, Choice(g)'
        PROVE  /\ ScopeIs(g, scope[g])' /\ Len(requests') = 0
               /\ \A i \in 1 .. Len(queue') : Right(queue[i].to, g)'
    <3>1. Quiet /\ Right(to, g)'
      BY <1>1, <1>5, <2>1 DEF Follows
    <3>2. Len(queue) = 0 /\ Len(requests) = 0 /\ ScopeIs(g, scope[g])
      BY <3>1, QuietIsRight
    <3>3. \A i \in 1 .. Len(queue') : Right(queue[i].to, g)'
      BY <1>3, <3>1, <3>2 DEF Right
    <3>4. ScopeIs(g, scope[g])'
      BY <1>1, <1>4, <3>2 DEF ScopeIs
    <3> QED
      BY <1>1, <3>2, <3>3, <3>4
  <2> QED
    BY <1>5, <2>1 DEF FollowInv
<1> QED
  BY <1>6, <1>7 DEF ChoiceInv

\* Another device changes a setting of the scope.
LEMMA OtherScopeKeepsChoice ==
  ASSUME SettingsInv, ChoiceInv, NEW f \in Setting, NEW v \in Values(f), OtherDeviceScope(f, v)
  PROVE  ChoiceInv'
<1>0. PICK to : to = [tdScope EXCEPT ![f] = v]
  OBVIOUS
<1>1. /\ tdScope \in [Setting -> Value] /\ DOMAIN wanted = Setting /\ Store("scope", to)
      /\ wanted' = [wanted EXCEPT ![f] = "any"]
      /\ UNCHANGED <<requests, settings, scope, switch, checked, excused>>
  BY <1>0 DEF SettingsInv, SettingsTypes, OtherDeviceScope, pageVars
<1>2. to \in [Setting -> Value] /\ \A g \in Setting : g # f => to[g] = tdScope[g]
  BY <1>0, <1>1 DEF Value, Values
<1>3. /\ tdSettings' = tdSettings /\ tdScope' = to
      /\ \A i \in 1 .. Len(queue') : \/ i \in 1 .. Len(queue) /\ queue'[i] = queue[i]
                                     \/ queue'[i].type = "scope" /\ queue'[i].to = to
  BY <1>1, <1>2, Stores
<1>4. ASSUME NEW g \in Setting, Choice(g)'
      PROVE  /\ Choice(g) /\ wanted'[g] = wanted[g]
             /\ \A w : ScopeIs(g, w) => ScopeIs(g, w)'
  <2>1. g # f
    BY <1>1, <1>4 DEF Choice
  <2>2. \A w : ScopeIs(g, w) => ScopeIs(g, w)'
    BY <1>1, <1>2, <1>3, <2>1 DEF ScopeIs
  <2> QED
    BY <1>1, <1>4, <2>1, <2>2 DEF Choice
<1>5. ASSUME NEW g \in Setting, Choice(g)', NEW own, Right(own, g) PROVE Right(own, g)'
  BY <1>4, <1>5, RightStays
<1>6. FinalInv'
  <2>1. ASSUME NEW g \in Setting, Choice(g)'
        PROVE  /\ \A i \in 1 .. Len(requests) : LastQuery(i) => Right(requests[i].to, g)
               /\ (\A i \in 1 .. Len(requests) : requests[i].of # "chat") => Right(tdSettings, g)
    BY <1>4, <2>1 DEF ChoiceInv, FinalInv
  <2>2. ASSUME NEW g \in Setting, Choice(g)', NEW i \in 1 .. Len(requests'), LastQuery(i)'
        PROVE  Right(requests[i].to, g)'
    <3>1. Right(requests[i].to, g)
      BY <1>1, <2>1, <2>2 DEF LastQuery
    <3> QED
      BY <1>1, <1>5, <2>2, <3>1 DEF Right
  <2>3. ASSUME NEW g \in Setting, Choice(g)', \A i \in 1 .. Len(requests') : requests'[i].of # "chat"
        PROVE  Right(tdSettings, g)'
    <3>1. Right(tdSettings, g)
      BY <1>1, <2>1, <2>3
    <3> QED
      BY <1>3, <1>5, <2>3, <3>1 DEF Right
  <2> QED
    BY <2>2, <2>3 DEF FinalInv
<1>7. FollowInv'
  <2>1. ASSUME NEW h \in Setting, Follows(h)', NEW g \in Setting, Choice(g)'
        PROVE  /\ ScopeIs(g, scope[g])'
               /\ \A i \in 1 .. Len(queue') : queue'[i].type = "chat" => Right(queue[i].to, g)'
               /\ \A i \in 1 .. Len(requests') : requests'[i].of = "chat" => Right(requests[i].to, g)'
               /\ Follows(g)' /\ wanted'[g] = "hour" => ~checked'[g]
    <3>1. /\ ScopeIs(g, scope[g])
          /\ \A i \in 1 .. Len(queue) : queue[i].type = "chat" => Right(queue[i].to, g)
          /\ \A i \in 1 .. Len(requests) : requests[i].of = "chat" => Right(requests[i].to, g)
          /\ Follows(g) /\ wanted[g] = "hour" => ~checked[g]
      BY <1>1, <1>4, <2>1 DEF ChoiceInv, FollowInv, Follows
    <3>2. ScopeIs(g, scope[g])'
      BY <1>1, <1>4, <2>1, <3>1 DEF ScopeIs
    <3>3. ASSUME NEW i \in 1 .. Len(queue'), queue'[i].type = "chat" PROVE Right(queue[i].to, g)'
      <4>1. PICK own : own = queue'[i].to
        OBVIOUS
      <4>2. Right(own, g)
        BY <1>3, <3>1, <3>3, <4>1
      <4> QED
        BY <1>5, <2>1, <4>1, <4>2 DEF Right
    <3>4. ASSUME NEW i \in 1 .. Len(requests'), requests'[i].of = "chat" PROVE Right(requests[i].to, g)'
      <4>1. PICK own : own = requests'[i].to
        OBVIOUS
      <4>2. Right(own, g)
        BY <1>1, <3>1, <3>4, <4>1
      <4> QED
        BY <1>5, <2>1, <4>1, <4>2 DEF Right
    <3>5. Follows(g)' /\ wanted'[g] = "hour" => ~checked'[g]
      BY <1>1, <1>4, <2>1, <3>1 DEF Follows
    <3> QED
      BY <3>2, <3>3, <3>4, <3>5
  <2> QED
    BY <2>1 DEF FollowInv
<1> QED
  BY <1>6, <1>7 DEF ChoiceInv

\* The program hears of the scope.
LEMMA HeardScopeKeepsChoice ==
  ASSUME SettingsInv, ChoiceInv, UpdateScopeNotificationSettings
  PROVE  ChoiceInv'
<1>1. /\ Received("scope") /\ scope' = Head(queue).to
      /\ UNCHANGED <<tdSettings, tdScope, requests, settings, switch, checked, wanted, excused>>
  BY DEF UpdateScopeNotificationSettings, pageVars
<1>2. /\ scope' = queue[1].to /\ queue[1].type = "scope" /\ 1 \in 1 .. Len(queue)
      /\ \A i \in 1 .. Len(queue') : \E j \in 1 .. Len(queue) : queue'[i] = queue[j]
  BY <1>1, Takes
<1>3. ASSUME NEW g, NEW w, ScopeIs(g, w) PROVE ScopeIs(g, w)'
  BY <1>1, <1>2, <1>3 DEF ScopeIs
<1>4. ASSUME NEW g, NEW own, Right(own, g) PROVE Right(own, g)'
  BY <1>1, <1>3, <1>4, RightStays
<1>5. FinalInv'
  <2>1. ASSUME NEW g \in Setting, Choice(g)', NEW i \in 1 .. Len(requests'), LastQuery(i)'
        PROVE  Right(requests[i].to, g)'
    <3>1. PICK own : own = requests[i].to
      OBVIOUS
    <3>2. Right(own, g)
      BY <1>1, <2>1, <3>1 DEF ChoiceInv, FinalInv, LastQuery, Choice
    <3> QED
      BY <1>1, <1>4, <3>1, <3>2 DEF Right
  <2>2. ASSUME NEW g \in Setting, Choice(g)', \A i \in 1 .. Len(requests') : requests'[i].of # "chat"
        PROVE  Right(tdSettings, g)'
    <3>1. Right(tdSettings, g)
      BY <1>1, <2>2 DEF ChoiceInv, FinalInv, Choice
    <3> QED
      BY <1>1, <1>4, <3>1 DEF Right
  <2> QED
    BY <2>1, <2>2 DEF FinalInv
<1>6. FollowInv'
  <2>1. ASSUME NEW h \in Setting, Follows(h)', NEW g \in Setting, Choice(g)'
        PROVE  /\ ScopeIs(g, scope[g])'
               /\ \A i \in 1 .. Len(queue') : queue'[i].type = "chat" => Right(queue[i].to, g)'
               /\ \A i \in 1 .. Len(requests') : requests'[i].of = "chat" => Right(requests[i].to, g)'
               /\ Follows(g)' /\ wanted'[g] = "hour" => ~checked'[g]
    <3>1. /\ ScopeIs(g, scope[g])
          /\ \A i \in 1 .. Len(queue) : queue[i].type = "chat" => Right(queue[i].to, g)
          /\ \A i \in 1 .. Len(requests) : requests[i].of = "chat" => Right(requests[i].to, g)
          /\ Follows(g) /\ wanted[g] = "hour" => ~checked[g]
      BY <1>1, <2>1 DEF ChoiceInv, FollowInv, Follows, Choice
    <3>2. ScopeIs(g, scope[g])'
      BY <1>3, <3>1 DEF ScopeIs
    <3>3. ASSUME NEW i \in 1 .. Len(queue'), queue'[i].type = "chat" PROVE Right(queue[i].to, g)'
      <4>1. PICK own : own = queue'[i].to
        OBVIOUS
      <4>2. Right(own, g)
        BY <1>2, <3>1, <3>3, <4>1
      <4> QED
        BY <1>4, <4>1, <4>2 DEF Right
    <3>4. ASSUME NEW i \in 1 .. Len(requests'), requests'[i].of = "chat" PROVE Right(requests[i].to, g)'
      <4>1. PICK own : own = requests'[i].to
        OBVIOUS
      <4>2. Right(own, g)
        BY <1>1, <3>1, <3>4, <4>1
      <4> QED
        BY <1>4, <4>1, <4>2 DEF Right
    <3>5. Follows(g)' /\ wanted'[g] = "hour" => ~checked'[g]
      BY <1>1, <3>1 DEF Follows
    <3> QED
      BY <3>2, <3>3, <3>4, <3>5
  <2> QED
    BY <2>1 DEF FollowInv
<1> QED
  BY <1>5, <1>6 DEF ChoiceInv

\* What a switch answers to a report that is right is right too.
LEMMA AnswersAreRight ==
  ASSUME SettingsInv, ChoiceInv, UpdateChatNotificationSettings, NEW q, Answers(q), NEW g \in Setting, Choice(g)
  PROVE  q.of = "chat" /\ Right(q.to, g)
<1>0. PICK own : own = settings'
  OBVIOUS
<1>1. /\ own = queue[1].to /\ own \in OwnSettings /\ queue[1].type = "chat" /\ 1 \in 1 .. Len(queue) /\ wanted[g] \in Values(g)
  BY <1>0, Answered, Takes DEF UpdateChatNotificationSettings, SettingsInv, SettingsTypes, Choice
<1>2. PICK h \in Setting :
        /\ Follows(h) /\ checked'[h] # checked[h] /\ checked'[h] = (InForce(own, scope, h) = "on")
        /\ q = ChatQuery(own, h, IF checked'[h] THEN "on" ELSE "off")
  BY <1>0 DEF Answers
<1>3. PICK v : v = IF checked'[h] THEN "on" ELSE "off"
  OBVIOUS
<1>4. v \in Values(h) /\ v # "default"
  BY <1>3 DEF Values
<1>5. /\ q.of = "chat" /\ q.to[h] = (IF scope[h] = v THEN "default" ELSE v)
      /\ \A f \in Setting : f # h => q.to[f] = own[f]
  BY <1>1, <1>2, <1>3, <1>4, QueryOfChat, ChangedOne
<1>6. /\ ScopeIs(g, scope[g]) /\ Right(own, g)
      /\ Follows(g) /\ wanted[g] = "hour" => ~checked[g]
  BY <1>1, <1>2 DEF ChoiceInv, FollowInv
<1>7. CASE g # h
  BY <1>5, <1>6, <1>7 DEF Right
<1>8. CASE g = h
  <2>1. InForce(own, scope, h) = wanted[h]
    BY <1>6, <1>8, RightInForce
  <2>2. wanted[h] = v
    <3>1. checked \in [Setting -> BOOLEAN] /\ checked' \in [Setting -> BOOLEAN]
      BY Answered DEF SettingsInv, SettingsTypes
    <3>2. CASE checked'[h]
      BY <1>2, <1>3, <2>1, <3>2
    <3>3. CASE ~checked'[h]
      <4>1. checked[h] = TRUE /\ wanted[h] # "on"
        BY <1>2, <2>1, <3>1, <3>3
      <4>2. wanted[h] # "hour"
        BY <1>2, <1>6, <1>8, <4>1
      <4> QED
        BY <1>1, <1>3, <1>8, <3>3, <4>1, <4>2 DEF Values
    <3> QED
      BY <3>2, <3>3
  <2> QED
    BY <1>4, <1>5, <1>6, <1>8, <2>2 DEF Right
<1> QED
  BY <1>7, <1>8

\* The program hears of the chat, and switches that follow answer.
LEMMA HeardChatKeepsChoice ==
  ASSUME SettingsInv, ChoiceInv, UpdateChatNotificationSettings
  PROVE  ChoiceInv'
<1>1. /\ Received("chat") /\ UNCHANGED <<tdSettings, tdScope, scope, switch, wanted, excused>>
      /\ checked' = [f \in Setting |-> IF Follows(f) THEN InForce(settings', scope, f) = "on" ELSE checked[f]]
  BY DEF UpdateChatNotificationSettings
<1>2. /\ queue[1].type = "chat" /\ 1 \in 1 .. Len(queue) /\ settings' = queue[1].to
      /\ \A i \in 1 .. Len(queue') : \E j \in 1 .. Len(queue) : queue'[i] = queue[j]
      /\ requests' = requests \/ (Len(requests') \in 1 .. Len(requests') /\ Answers(requests'[Len(requests')]))
      /\ \A i \in 1 .. Len(requests') : (i \in 1 .. Len(requests) /\ requests'[i] = requests[i]) \/ Answers(requests'[i])
  BY <1>1, Takes, Answered
<1>3. ASSUME NEW q, Answers(q) PROVE q.of = "chat" /\ \E h \in Setting : Follows(h)
  BY <1>3 DEF Answers, ChatQuery
<1>4. ASSUME NEW g, NEW w, ScopeIs(g, w) PROVE ScopeIs(g, w)'
  BY <1>1, <1>2, <1>3, <1>4 DEF ScopeIs
<1>5. ASSUME NEW g, NEW own, Right(own, g) PROVE Right(own, g)'
  BY <1>1, <1>4, <1>5, RightStays
<1>6. ASSUME NEW g PROVE Choice(g)' <=> Choice(g)
  BY <1>1 DEF Choice
<1>7. ASSUME NEW h \in Setting, Follows(h), NEW g \in Setting, Choice(g)
      PROVE  /\ ScopeIs(g, scope[g])'
             /\ \A i \in 1 .. Len(queue') : queue'[i].type = "chat" => Right(queue[i].to, g)'
             /\ \A i \in 1 .. Len(requests') : requests'[i].of = "chat" => Right(requests[i].to, g)'
             /\ Follows(g)' /\ wanted'[g] = "hour" => ~checked'[g]
  <2>1. /\ ScopeIs(g, scope[g])
        /\ \A i \in 1 .. Len(queue) : queue[i].type = "chat" => Right(queue[i].to, g)
        /\ \A i \in 1 .. Len(requests) : requests[i].of = "chat" => Right(requests[i].to, g)
    BY <1>7 DEF ChoiceInv, FollowInv
  <2>2. ScopeIs(g, scope[g])'
    BY <1>1, <1>4, <2>1 DEF ScopeIs
  <2>3. ASSUME NEW i \in 1 .. Len(queue'), queue'[i].type = "chat" PROVE Right(queue[i].to, g)'
    <3>1. PICK own : own = queue'[i].to
      OBVIOUS
    <3>2. Right(own, g)
      BY <1>2, <2>1, <2>3, <3>1
    <3> QED
      BY <1>5, <3>1, <3>2 DEF Right
  <2>4. ASSUME NEW i \in 1 .. Len(requests'), requests'[i].of = "chat" PROVE Right(requests[i].to, g)'
    <3>1. PICK q : q = requests'[i]
      OBVIOUS
    <3>2. Right(q.to, g)
      <4>1. CASE Answers(q)
        BY <1>7, <4>1, AnswersAreRight
      <4>2. CASE i \in 1 .. Len(requests) /\ q = requests[i]
        BY <2>1, <2>4, <3>1, <4>2
      <4> QED
        BY <1>2, <3>1, <4>1, <4>2
    <3> QED
      BY <1>5, <3>1, <3>2 DEF Right
  <2>5. ASSUME Follows(g)', wanted'[g] = "hour" PROVE ~checked'[g]
    <3>1. PICK own : own = settings'
      OBVIOUS
    <3>2. Right(own, g)
      BY <1>2, <2>1, <3>1
    <3>3. InForce(own, scope, g) = "hour"
      BY <1>1, <2>5, <3>2, RightInForce
    <3> QED
      BY <1>1, <2>5, <3>1, <3>3 DEF Follows
  <2> QED
    BY <2>2, <2>3, <2>4, <2>5
<1>8. FinalInv'
  <2>1. ASSUME NEW g \in Setting, Choice(g)', NEW i \in 1 .. Len(requests'), LastQuery(i)'
        PROVE  Right(requests[i].to, g)'
    <3>1. CASE requests' = requests
      <4>1. PICK own : own = requests[i].to
        OBVIOUS
      <4>2. Right(own, g)
        BY <1>6, <2>1, <3>1, <4>1 DEF ChoiceInv, FinalInv, LastQuery
      <4> QED
        BY <1>5, <3>1, <4>1, <4>2 DEF Right
    <3>2. CASE requests' # requests
      <4>1. \E h \in Setting : Follows(h)
        BY <1>2, <1>3, <3>2
      <4> QED
        BY <1>6, <1>7, <2>1, <4>1 DEF LastQuery
    <3> QED
      BY <3>1, <3>2
  <2>2. ASSUME NEW g \in Setting, Choice(g)', \A i \in 1 .. Len(requests') : requests'[i].of # "chat"
        PROVE  Right(tdSettings, g)'
    <3>1. requests' = requests
      BY <1>2, <1>3, <2>2
    <3>2. Right(tdSettings, g)
      BY <1>6, <2>2, <3>1 DEF ChoiceInv, FinalInv
    <3> QED
      BY <1>1, <1>5, <3>2 DEF Right
  <2> QED
    BY <2>1, <2>2 DEF FinalInv
<1>9. FollowInv'
  <2>1. ASSUME NEW h \in Setting, Follows(h)' PROVE Follows(h)
    BY <1>1, <2>1 DEF Follows
  <2> QED
    BY <1>6, <1>7, <2>1 DEF FollowInv
<1> QED
  BY <1>8, <1>9 DEF ChoiceInv

\* So every step keeps the choices.
LEMMA ChoiceKeeps ==
  ASSUME SettingsInv, ChoiceInv, [SettingsNext]_(settingsVars)
  PROVE  ChoiceInv'
<1>1. ASSUME NEW f \in Setting, Tap(f) PROVE ChoiceInv'
  <2>1. PICK v \in Values(f) :
          Sends(f, v) /\ SendQueries(<<ChatQuery(settings, f, v)>>) /\ Chosen(f, v) /\ v \in {"on", "off"}
    BY <1>1, PageAsks
  <2>2. \A g \in Setting : g # f => switch'[g] = switch[g] /\ checked'[g] = checked[g]
    BY <1>1 DEF SettingsInv, SettingsTypes, Tap
  <2> QED
    BY <2>1, <2>2, ChoiceIsMade
<1>2. ASSUME MuteForAnHour PROVE ChoiceInv'
  <2>1. "mute" \in Setting /\ "hour" \in Values("mute") /\ switch' = switch /\ checked' = checked
    BY <1>2 DEF MuteForAnHour, pageVars, Setting, Values
  <2>2. Sends("mute", "hour") /\ SendQueries(<<ChatQuery(settings, "mute", "hour")>>) /\ Chosen("mute", "hour")
    BY <1>2, PageAsks
  <2> QED
    BY <2>1, <2>2, ChoiceIsMade
<1>3. CASE UNCHANGED settingsVars
  <2>1. UNCHANGED <<requests, queue, settings, tdSettings, scope, tdScope, wanted, excused, checked, switch>>
    BY <1>3 DEF settingsVars, tdlibVars, pageVars, choiceVars
  <2>2. FinalInv'
    BY <2>1 DEF ChoiceInv, FinalInv, Choice, LastQuery, Right, ScopeIs
  <2>3. FollowInv'
    BY <2>1 DEF ChoiceInv, FollowInv, Choice, Follows, Right, ScopeIs
  <2> QED
    BY <2>2, <2>3 DEF ChoiceInv
<1> QED
  BY <1>1, <1>2, <1>3, OpenKeepsChoice, CloseKeepsChoice, ScopeKeepsChoice, OtherScopeKeepsChoice,
     OtherKeepsChoice, HeardChatKeepsChoice, HeardScopeKeepsChoice, HandleKeepsChoice DEF SettingsNext

\* At first nothing has been chosen.
LEMMA SettingsBegin ==
  ASSUME SettingsInit
  PROVE  SettingsInv /\ ChoiceInv
<1>1. /\ queue = <<>> /\ requests = <<>> /\ Len(queue) = 0 /\ Len(requests) = 0
      /\ queue \in Seq(SettingsReport) /\ requests \in Seq(SettingsQuery)
  BY DEF SettingsInit
<1>2. tdScope \in [Setting -> Value] /\ scope = tdScope /\ tdSettings \in OwnSettings /\ settings = tdSettings
  BY DEF SettingsInit, Value
<1>3. SettingsTypes
  BY <1>1, <1>2 DEF SettingsTypes, SettingsInit
<1>4. SettingsReported
  BY <1>1, <1>2 DEF SettingsReported, Told, LastReport
<1>5. ChoiceInv
  BY DEF ChoiceInv, FinalInv, FollowInv, Choice, SettingsInit
<1> QED
  BY <1>3, <1>4, <1>5 DEF SettingsInv

\* When nothing is under way TDLib has, of each setting, what was chosen last,
\* here or on another device: ChoicesStay, for any number of acts.
THEOREM ChoicesAreKept == SettingsSpec => []ChoicesStay
<1>1. SettingsInit => SettingsInv /\ ChoiceInv
  BY SettingsBegin
<1>2. SettingsInv /\ ChoiceInv /\ [SettingsNext]_(settingsVars) => SettingsInv' /\ ChoiceInv'
  BY SettingsKeep, ChoiceKeeps
<1>3. SettingsInv /\ ChoiceInv => ChoicesStay
  <2>1. ASSUME SettingsInv, ChoiceInv, Quiet, NEW f \in Setting \ excused
        PROVE  wanted[f] \in {"any", InForce(tdSettings, tdScope, f)}
    <3>1. CASE Choice(f)
      <4>1. Right(settings, f) /\ settings = tdSettings
        BY <2>1, <3>1, QuietIsRight
      <4> QED
        BY <4>1, RightInForce
    <3>2. CASE ~Choice(f)
      BY <2>1, <3>2 DEF Choice
    <3> QED
      BY <3>1, <3>2
  <2> QED
    BY <2>1 DEF ChoicesStay
<1> QED
  BY <1>1, <1>2, <1>3, PTL DEF SettingsSpec
=============================================================================
