--------------------------- MODULE SessionProofs ---------------------------
(***************************************************************************)
(* Theorems about Session, for any paths, files, types of connection and   *)
(* number of crashes: the stored setting names the data, and once TDLib    *)
(* has handled what was sent, the server has the settings the user sees.   *)
(***************************************************************************)
EXTENDS Session, FiniteSetTheorems, SequenceTheorems, TLAPS

(***************************************************************************)
(* Types of the data directory's variables.                                *)
(***************************************************************************)
DirTypes ==
    /\ holds \in [Paths -> {"nothing", "data", "directory", "file"}]
    /\ filesDir \in Paths \cup {Unset}
    /\ newDir \in Paths \cup {Unset}

(***************************************************************************)
(* Where the data may be.  Until a setting is stored: at the old default,  *)
(* and at the new one when a start has been cut off after the rename.      *)
(* From then on only where the setting points, but for the moment between  *)
(* the rename and the setting of moveDataIfNeeded.                         *)
(***************************************************************************)
DataAt(places) == \A p \in Paths : holds[p] = "data" => p \in places

Placed ==
    /\ step \in {"needed", "moved", "running", "open"} => filesDir # Unset
    /\ step = "legacyMoved" => filesDir = Unset
    /\ step = "moved" => newDir # Unset
    /\ \/ cutOff
       \/ refused
       \/ /\ filesDir = Unset /\ step # "legacyMoved" => DataAt({Legacy, Default})
          /\ step = "legacyMoved" => DataAt({Default})
          /\ filesDir # Unset /\ step # "moved" => DataAt({filesDir})
          /\ step = "moved" => DataAt({newDir})
          /\ step = "open" => holds[filesDir] = "data"

DataInv == DirTypes /\ Placed

\* The user is logged in only to a program that has come through its start.
LoggedIn == authorized => step = "open"

LEMMA InitData == Init => DataInv
<1> SUFFICES ASSUME Init PROVE DataInv
  OBVIOUS
<1> USE PathsAssumption DEF Init, DirInit, DataInv, DirTypes, Placed, DataAt, Nothing, Paths, Unset
<1>1. CASE filesDir = Unset /\ holds = Nothing
  BY <1>1
<1>2. CASE filesDir = Unset /\ \E h \in {"nothing", "directory", "file"} :
             holds = [Nothing EXCEPT ![Legacy] = "data", ![Default] = h]
  BY <1>2
<1>3. CASE filesDir = Default /\ holds = [Nothing EXCEPT ![Default] = "data"]
  BY <1>3
<1> QED
  BY <1>1, <1>2, <1>3

LEMMA MoveLegacyKeeps == DataInv /\ MoveLegacy => DataInv'
<1> SUFFICES ASSUME DataInv, MoveLegacy PROVE DataInv'
  OBVIOUS
<1> USE DEF DataInv, DirTypes, Placed, DataAt, MoveLegacy, Proceed, Exists
<1>1. Legacy \in Paths /\ Default \in Paths
  BY DEF Paths
<1>2. step = "unset" /\ step' = "legacyMoved" /\ filesDir' = Unset /\ UNCHANGED <<newDir, cutOff>>
  OBVIOUS
<1>3. CASE holds[Default] # "data" /\ holds[Default] # "directory" /\ Move(Legacy, Default) /\ UNCHANGED refused
  <2>1. \A p \in Paths : holds'[p] = "data" => p = Default \/ (holds[p] = "data" /\ p # Legacy)
    BY <1>1, <1>3 DEF Move
  <2> QED
    BY <1>1, <1>2, <1>3, <2>1 DEF Move
<1>4. CASE /\ holds' = IF holds[Default] = "file" THEN [holds EXCEPT ![Default] = "nothing"] ELSE holds
           /\ refused' = (refused \/ holds[Legacy] = "data")
  <2>1. DirTypes'
    BY <1>1, <1>2, <1>4
  <2>2. \A p \in Paths : holds'[p] = "data" => holds[p] = "data"
    BY <1>1, <1>4
  <2>3. ~cutOff' /\ ~refused' => DataAt({Default})'
    <3> SUFFICES ASSUME ~cutOff', ~refused', NEW p \in Paths, holds'[p] = "data" PROVE p = Default
      OBVIOUS
    <3>1. ~cutOff
      BY <1>2
    <3>2. ~refused /\ holds[Legacy] # "data"
      BY <1>4
    <3>3. holds[p] = "data"
      BY <2>2
    <3>4. p \in {Legacy, Default}
      BY <1>2, <3>1, <3>2, <3>3
    <3> QED
      BY <3>2, <3>3, <3>4
  <2> QED
    BY <1>2, <2>1, <2>3
<1> QED
  BY <1>3, <1>4

LEMMA MoveDataKeeps == DataInv /\ MoveData => DataInv'
BY PathsAssumption DEF MoveData, MoveOrdered, Proceed, Move, Exists, DataInv, DirTypes, Placed, DataAt, Paths, Unset

LEMMA SettingsKeep ==
  DataInv /\ (StoreLegacyMove \/ NoLegacy \/ NoMove \/ MoveRefused \/ StoreMove) => DataInv'
<1>1. DataInv /\ StoreLegacyMove => DataInv'
  BY PathsAssumption DEF StoreLegacyMove, Proceed, DataInv, DirTypes, Placed, DataAt, Paths, Unset
<1>2. DataInv /\ NoLegacy => DataInv'
  BY PathsAssumption DEF NoLegacy, Proceed, Exists, DataInv, DirTypes, Placed, DataAt, Paths, Unset
<1>3. DataInv /\ NoMove => DataInv'
  BY DEF NoMove, MoveOrdered, Proceed, DataInv, DirTypes, Placed, DataAt
<1>4. DataInv /\ MoveRefused => DataInv'
  BY DEF MoveRefused, MoveOrdered, Proceed, DataInv, DirTypes, Placed, DataAt
<1>5. DataInv /\ StoreMove => DataInv'
  BY DEF StoreMove, Proceed, DataInv, DirTypes, Placed, DataAt
<1> QED
  BY <1>1, <1>2, <1>3, <1>4, <1>5

LEMMA OpenKeeps == DataInv /\ SendTdlibParameters => DataInv'
<1> SUFFICES ASSUME DataInv, SendTdlibParameters PROVE DataInv'
  OBVIOUS
<1>1. filesDir \in Paths
  BY DEF DataInv, DirTypes, Placed, SendTdlibParameters, Proceed
<1>2. DirTypes'
  BY <1>1 DEF DataInv, DirTypes, SendTdlibParameters
<1>3. CASE FirstData
  BY <1>1, <1>2, <1>3 DEF FirstData, SendTdlibParameters, Proceed, DataInv, DirTypes, Placed, DataAt
<1>4. CASE ~FirstData
  BY <1>1, <1>2, <1>4 DEF FirstData, Exists, SendTdlibParameters, Proceed, DataInv, DirTypes, Placed, DataAt
<1> QED
  BY <1>3, <1>4

(***************************************************************************)
(* The end of the program.                                                 *)
(***************************************************************************)
LEMMA EndKeeps ==
  ASSUME DataInv, step' = "off", UNCHANGED <<holds, filesDir, refused>>,
         newDir' \in Paths \cup {Unset},
         cutOff \/ step = "moved" => cutOff'
  PROVE  DataInv'
BY DEF DataInv, DirTypes, Placed, DataAt

LEMMA CrashKeeps == DataInv /\ Crash => DataInv'
<1> SUFFICES ASSUME DataInv, Crash PROVE DataInv'
  OBVIOUS
<1>1. step' = "off" /\ UNCHANGED <<holds, filesDir, newDir, refused>>
  BY DEF Crash, End
<1>2. cutOff' = (cutOff \/ step = "moved")
  BY DEF Crash, CutOff
<1> QED
  BY <1>1, <1>2, EndKeeps DEF DataInv, DirTypes

LEMMA DialogKeeps ==
  ASSUME NEW p \in Paths
  PROVE  DataInv /\ LoggedIn /\ MoveFilesDialog(p) => DataInv'
<1> SUFFICES ASSUME DataInv, LoggedIn, MoveFilesDialog(p) PROVE DataInv'
  OBVIOUS
<1>1. step' = "off" /\ UNCHANGED <<holds, filesDir, cutOff, refused>> /\ newDir' = p
  BY DEF MoveFilesDialog, CommitNewPath, End
<1>2. step = "open"
  BY DEF MoveFilesDialog, LoggedIn
<1> QED
  BY <1>1, <1>2, EndKeeps

(***************************************************************************)
(* While the program runs, only another program changes the disk, and it   *)
(* leaves alone the paths that are in use.                                 *)
(***************************************************************************)
LEMMA OtherProgramKeeps ==
  ASSUME NEW p \in Paths
  PROVE  DataInv /\ MakeDirectory(p) => DataInv'
BY DEF MakeDirectory, Exists, DataInv, DirTypes, Placed, DataAt

LEMMA OthersKeep == DataInv /\ UNCHANGED dirVars => DataInv'
BY DEF DataInv, DirTypes, Placed, DataAt, dirVars

LEMMA NextKeeps == DataInv /\ LoggedIn /\ [Next]_vars => DataInv' /\ LoggedIn'
<1> SUFFICES ASSUME DataInv, LoggedIn, [Next]_vars PROVE DataInv' /\ LoggedIn'
  OBVIOUS
<1>1. CASE Start
  BY <1>1 DEF Start, Proceed, DataInv, DirTypes, Placed, DataAt, LoggedIn
<1>2. CASE LookAfterData
  BY <1>2, MoveLegacyKeeps, MoveDataKeeps, SettingsKeep
  DEF LookAfterData, LoggedIn, MoveLegacy, StoreLegacyMove, NoLegacy, MoveData, Proceed
<1>3. CASE InitCore
  BY <1>3, SettingsKeep DEF InitCore, LoggedIn, NoMove, MoveRefused, StoreMove, Proceed
<1>4. CASE OpenTdlib
  BY <1>4, OpenKeeps DEF OpenTdlib, LoggedIn, SendTdlibParameters, Proceed
<1>5. CASE AuthorizationStateReady
  BY <1>5, OthersKeep DEF AuthorizationStateReady, LoggedIn, dirVars
<1>6. CASE Crash
  BY <1>6, CrashKeeps DEF Crash, End, LoggedIn
<1>7. CASE \E p \in Paths : MoveFilesDialog(p)
  BY <1>7, DialogKeeps DEF MoveFilesDialog, End, LoggedIn
<1>8. CASE OtherProgram
  BY <1>8, OtherProgramKeeps DEF OtherProgram, MakeDirectory, LoggedIn
<1>9. CASE Downloads \/ ChangeSetting \/ ChangeRoute \/ Travel \/ TdlibHandlesQuery \/ UNCHANGED vars
  <2>1. UNCHANGED <<dirVars, authorized>>
    BY <1>9 DEF Downloads, ChangeSetting, ChangeRoute, Travel, TdlibHandlesQuery, vars
  <2> QED
    BY <2>1, OthersKeep DEF LoggedIn, dirVars
<1> QED
  BY <1>1, <1>2, <1>3, <1>4, <1>5, <1>6, <1>7, <1>8, <1>9 DEF Next, StartUp

(***************************************************************************)
(* DataInv is inductive: it says at each step of a start where the data    *)
(* may be, which is what a crash at that step leaves to the next start.    *)
(***************************************************************************)
THEOREM DataInvariant == Spec => [](DataInv /\ LoggedIn)
<1>1. Init => DataInv /\ LoggedIn
  BY InitData DEF Init, LoggedIn
<1> QED
  BY <1>1, NextKeeps, PTL DEF Spec

(***************************************************************************)
(* Whenever TDLib has been opened, the stored setting names the data,      *)
(* unless a start was cut off between the rename of moveDataIfNeeded and   *)
(* its settings, or the rename of the old default failed (Core::Core).     *)
(***************************************************************************)
THEOREM DataIsFound == Spec => []SettingNamesTheData
<1>1. DataInv => SettingNamesTheData
  BY DEF DataInv, Placed, SettingNamesTheData
<1> QED
  BY <1>1, DataInvariant, PTL

(***************************************************************************)
(* What a sequence of queries says about one thing: the queries in Q speak *)
(* about it, and those in W say what is wanted.                            *)
(***************************************************************************)
Silent(s, Q) == \A i \in 1 .. Len(s) : s[i] \notin Q

LastWord(s, Q, W) ==
    \A i \in 1 .. Len(s) :
        s[i] \in Q /\ (\A j \in 1 .. Len(s) : j > i => s[j] \notin Q) => s[i] \in W

LEMMA AfterAppend ==
  ASSUME NEW S, NEW s \in Seq(S), NEW q \in S, NEW Q, NEW W
  PROVE  /\ q \in Q /\ q \in W => LastWord(Append(s, q), Q, W) /\ ~Silent(Append(s, q), Q)
         /\ q \notin Q /\ LastWord(s, Q, W) => LastWord(Append(s, q), Q, W)
         /\ q \notin Q /\ Silent(Append(s, q), Q) => Silent(s, Q)
<1>1. PICK n \in Nat : n = Len(s)
  BY LenProperties
<1>2. /\ Len(Append(s, q)) = n + 1 /\ Append(s, q)[n + 1] = q
      /\ \A i \in 1 .. n : Append(s, q)[i] = s[i]
  BY <1>1, AppendProperties
<1>3. q \in Q /\ q \in W => LastWord(Append(s, q), Q, W) /\ ~Silent(Append(s, q), Q)
  BY <1>1, <1>2 DEF LastWord, Silent
<1>4. q \notin Q /\ LastWord(s, Q, W) => LastWord(Append(s, q), Q, W)
  BY <1>1, <1>2 DEF LastWord
<1>5. q \notin Q /\ Silent(Append(s, q), Q) => Silent(s, Q)
  BY <1>1, <1>2 DEF Silent
<1> QED
  BY <1>3, <1>4, <1>5

LEMMA AfterTail ==
  ASSUME NEW S, NEW s \in Seq(S), s # <<>>, NEW Q, NEW W, LastWord(s, Q, W)
  PROVE  /\ LastWord(Tail(s), Q, W)
         /\ Silent(Tail(s), Q) => Silent(s, Q) \/ (Head(s) \in Q /\ Head(s) \in W)
<1>1. PICK n \in Nat : n = Len(s)
  BY LenProperties
<1>2. /\ n > 0 /\ Len(Tail(s)) = n - 1 /\ Head(s) = s[1]
      /\ \A i \in 1 .. n - 1 : Tail(s)[i] = s[i + 1]
  BY <1>1, HeadTailProperties, EmptySeq
<1>3. ASSUME NEW j \in 2 .. n
      PROVE  j - 1 \in 1 .. n - 1 /\ s[j] = Tail(s)[j - 1]
  BY <1>2
<1>4. LastWord(Tail(s), Q, W)
  <2> SUFFICES ASSUME NEW i \in 1 .. n - 1, Tail(s)[i] \in Q,
                      \A j \in 1 .. n - 1 : j > i => Tail(s)[j] \notin Q
               PROVE  Tail(s)[i] \in W
    BY <1>2 DEF LastWord
  <2>1. i + 1 \in 1 .. n /\ s[i + 1] = Tail(s)[i]
    BY <1>2
  <2>2. ASSUME NEW j \in 1 .. n, j > i + 1 PROVE s[j] \notin Q
    <3>1. j \in 2 .. n /\ j - 1 > i
      BY <2>2
    <3> QED
      BY <1>3, <3>1
  <2> QED
    BY <1>1, <2>1, <2>2 DEF LastWord
<1>5. ASSUME Silent(Tail(s), Q) PROVE \A j \in 1 .. n : j > 1 => s[j] \notin Q
  <2> SUFFICES ASSUME NEW j \in 1 .. n, j > 1 PROVE s[j] \notin Q
    OBVIOUS
  <2>1. j \in 2 .. n
    OBVIOUS
  <2>2. j - 1 \in 1 .. Len(Tail(s)) /\ s[j] = Tail(s)[j - 1]
    BY <1>2, <1>3, <2>1
  <2> QED
    BY <1>5, <2>2 DEF Silent
<1>6. Silent(Tail(s), Q) => Silent(s, Q) \/ (Head(s) \in Q /\ Head(s) \in W)
  <2> SUFFICES ASSUME Silent(Tail(s), Q), ~Silent(s, Q) PROVE s[1] \in Q /\ s[1] \in W
    BY <1>2
  <2>1. s[1] \in Q /\ 1 \in 1 .. n
    BY <1>1, <1>2, <1>5 DEF Silent
  <2> QED
    BY <1>1, <1>5, <2>1 DEF LastWord
<1> QED
  BY <1>4, <1>6

LEMMA AfterConcatenation ==
  ASSUME NEW S, NEW s \in Seq(S), NEW r \in Seq(S), NEW Q, NEW W
  PROVE  /\ ~Silent(r, Q) /\ LastWord(r, Q, W) => LastWord(s \o r, Q, W) /\ ~Silent(s \o r, Q)
         /\ Silent(r, Q) /\ LastWord(s, Q, W) => LastWord(s \o r, Q, W)
         /\ Silent(s \o r, Q) => Silent(s, Q)
<1>1. PICK n \in Nat, k \in Nat : n = Len(s) /\ k = Len(r)
  BY LenProperties
<1>2. /\ Len(s \o r) = n + k
      /\ \A i \in 1 .. n : (s \o r)[i] = s[i]
      /\ \A i \in n + 1 .. n + k : i - n \in 1 .. k /\ (s \o r)[i] = r[i - n]
  BY <1>1, ConcatProperties
<1>3. \A i \in 1 .. k : n + i \in n + 1 .. n + k /\ (s \o r)[n + i] = r[i]
  BY <1>2
<1> DEFINE t == s \o r
<1>4. /\ Len(t) = n + k /\ \A i \in 1 .. n : t[i] = s[i]
      /\ \A i \in n + 1 .. n + k : i - n \in 1 .. k /\ t[i] = r[i - n]
      /\ \A i \in 1 .. k : n + i \in 1 .. n + k /\ t[n + i] = r[i]
  BY <1>2, <1>3
<1> HIDE DEF t
<1>5. ASSUME ~Silent(r, Q), LastWord(r, Q, W) PROVE LastWord(t, Q, W) /\ ~Silent(t, Q)
  <2>1. PICK m \in 1 .. k : r[m] \in Q
    BY <1>1, <1>5 DEF Silent
  <2>2. ~Silent(t, Q)
    BY <1>4, <2>1 DEF Silent
  <2>3. ASSUME NEW i \in 1 .. n + k, t[i] \in Q, \A j \in 1 .. n + k : j > i => t[j] \notin Q
        PROVE  t[i] \in W
    <3>1. ~(n + m > i)
      BY <1>4, <2>1, <2>3
    <3>2. i \in n + 1 .. n + k /\ i - n \in 1 .. k /\ t[i] = r[i - n]
      BY <1>4, <3>1
    <3>3. \A j \in 1 .. k : j > i - n => r[j] \notin Q
      BY <1>4, <2>3, <3>2
    <3> QED
      BY <1>1, <1>5, <2>3, <3>2, <3>3 DEF LastWord
  <2> QED
    BY <1>4, <2>2, <2>3 DEF LastWord
<1>6. ASSUME Silent(r, Q), LastWord(s, Q, W) PROVE LastWord(t, Q, W)
  <2>1. \A i \in n + 1 .. n + k : t[i] \notin Q
    BY <1>1, <1>4, <1>6 DEF Silent
  <2> QED
    BY <1>1, <1>4, <1>6, <2>1 DEF LastWord
<1>7. Silent(t, Q) => Silent(s, Q)
  BY <1>1, <1>4 DEF Silent
<1> QED
  BY <1>5, <1>6, <1>7 DEF t

(***************************************************************************)
(* loadSettings sends one query for each type of connection.               *)
(***************************************************************************)
LEMMA SequenceOfSet ==
  ASSUME NEW S, IsFiniteSet(S)
  PROVE  /\ SetToSeq(S) \in Seq(S)
         /\ \A x \in S : \E i \in 1 .. Len(SetToSeq(S)) : SetToSeq(S)[i] = x
<1> DEFINE n == Cardinality(S)
           f == SetToSeq(S)
<1>1. n \in Nat /\ ExistsBijection(1 .. n, S)
  BY FS_CardinalityType
<1>2. f \in [1 .. n -> S] /\ IsInjective(f)
  BY <1>1 DEF ExistsBijection, Bijection, Injection, SetToSeq
<1>3. f \in Injection(1 .. n, S) /\ IsFiniteSet(1 .. n) /\ Cardinality(1 .. n) = n
  BY <1>1, <1>2, FS_Interval DEF Injection
<1> HIDE DEF n, f
<1>4. f \in Surjection(1 .. n, S)
  BY <1>3, FS_Injection DEF n
<1>5. f \in Seq(S) /\ Len(f) = n
  BY <1>1, <1>2
<1> QED
  BY <1>4, <1>5 DEF Surjection, f

(***************************************************************************)
(* The invariant of the settings.  Of each type of connection, and of the  *)
(* network, the last query says what the program wants; and when there is  *)
(* none left, TDLib has it.                                                *)
(***************************************************************************)
SettingQueries(t) == {SettingQuery(t, on) : on \in BOOLEAN}
NetworkQueries == {[type |-> "network", is |-> NetworkOf(r)] : r \in Routes}
Queries == (UNION {SettingQueries(t) : t \in Types}) \cup NetworkQueries

SettingTypes ==
    /\ stored \in Settings /\ objects \in Settings /\ serverHas \in Settings
    /\ route \in Routes
    /\ sent \in Seq(Queries)

NetworkIsTold ==
    step \in {"running", "open"} =>
        /\ networkType = NetworkOf(route)
        /\ LastWord(sent, NetworkQueries, {[type |-> "network", is |-> networkType]})
        /\ Silent(sent, NetworkQueries) => tdNetwork = networkType

SettingIsTold(t) ==
    /\ LastWord(sent, SettingQueries(t), {SettingQuery(t, stored[t])})
    /\ Silent(sent, SettingQueries(t)) => serverHas[t] = stored[t]

SettingsAreTold == authorized => objects = stored /\ \A t \in Types : SettingIsTold(t)

SettingsInv == SettingTypes /\ NetworkIsTold /\ SettingsAreTold

\* Queries about different things are different.
LEMMA QueriesApart ==
  /\ \A t \in Types, on \in BOOLEAN : SettingQuery(t, on) \in Queries \cap SettingQueries(t)
  /\ \A r \in Routes : [type |-> "network", is |-> NetworkOf(r)] \in Queries \cap NetworkQueries
  /\ \A q \in NetworkQueries : q.type = "network"
  /\ \A t \in Types : \A q \in SettingQueries(t) : q.type = "settings" /\ q.of = t /\ q.on \in BOOLEAN
BY DEF SettingQueries, NetworkQueries, Queries, SettingQuery

LEMMA SettingsUntouched ==
  ASSUME SettingsInv, UNCHANGED settingsVars, authorized' => authorized,
         step' \in {"running", "open"} => step \in {"running", "open"}
  PROVE  SettingsInv'
BY DEF SettingsInv, SettingTypes, NetworkIsTold, SettingsAreTold, SettingIsTold, settingsVars

\* setNetworkType: the last query names the type; queries of settings stay.
LEMMA NetworkTypeTold ==
  ASSUME SettingTypes, SettingsAreTold, NEW r \in Routes, route' = r, SetNetworkType(r),
         UNCHANGED <<stored, objects, serverHas, authorized>>
  PROVE  SettingsInv'
<1> DEFINE q == [type |-> "network", is |-> NetworkOf(r)]
<1>1. q \in Queries /\ q \in NetworkQueries /\ sent' = Append(sent, q) /\ networkType' = NetworkOf(r)
  BY QueriesApart DEF SetNetworkType, Send
<1>2. sent \in Seq(Queries)
  BY DEF SettingTypes
<1>3. SettingTypes'
  BY <1>1, <1>2, AppendProperties DEF SettingTypes
<1>4. NetworkIsTold'
  <2>1. q \in {[type |-> "network", is |-> networkType']}
    BY <1>1
  <2>2. LastWord(sent', NetworkQueries, {[type |-> "network", is |-> networkType']}) /\ ~Silent(sent', NetworkQueries)
    BY <1>1, <1>2, <2>1, AfterAppend
  <2> QED
    BY <1>1, <2>2 DEF NetworkIsTold
<1>5. ASSUME NEW t \in Types, SettingIsTold(t)
      PROVE  SettingIsTold(t)'
  <2>1. q \notin SettingQueries(t)
    BY <1>1, QueriesApart
  <2>2. /\ LastWord(sent', SettingQueries(t), {SettingQuery(t, stored[t])})
        /\ Silent(sent', SettingQueries(t)) => Silent(sent, SettingQueries(t))
    BY <1>1, <1>2, <1>5, <2>1, AfterAppend DEF SettingIsTold
  <2> QED
    BY <1>5, <2>2 DEF SettingIsTold
<1> QED
  BY <1>3, <1>4, <1>5 DEF SettingsInv, SettingsAreTold

\* A setter: the last query about its type says what is stored.
LEMMA SettingTold ==
  ASSUME SettingsInv, authorized, NEW t \in Types, NEW on \in BOOLEAN, SaveSettings(t, on),
         UNCHANGED <<authorized, step>>
  PROVE  SettingsInv'
<1> DEFINE q == SettingQuery(t, on)
<1>1. q \in Queries /\ q \in SettingQueries(t) /\ sent' = Append(sent, q)
  BY QueriesApart DEF SaveSettings, Send
<1>2. sent \in Seq(Queries)
  BY DEF SettingsInv, SettingTypes
<1>3. SettingTypes'
  BY <1>1, <1>2, AppendProperties DEF SettingsInv, SettingTypes, SaveSettings, Settings
<1>4. NetworkIsTold'
  <2>1. q \notin NetworkQueries
    BY <1>1, QueriesApart
  <2>2. ASSUME NEW W, LastWord(sent, NetworkQueries, W)
        PROVE  LastWord(sent', NetworkQueries, W)
    BY <1>1, <1>2, <2>1, <2>2, AfterAppend
  <2>3. Silent(sent', NetworkQueries) => Silent(sent, NetworkQueries)
    BY <1>1, <1>2, <2>1, AfterAppend
  <2> QED
    BY <2>2, <2>3 DEF SettingsInv, NetworkIsTold, SaveSettings
<1>5. ASSUME NEW u \in Types
      PROVE  SettingIsTold(u)'
  <2>1. SettingIsTold(u) /\ stored' = [stored EXCEPT ![t] = on] /\ stored \in Settings /\ serverHas' = serverHas
    BY DEF SettingsInv, SettingsAreTold, SettingTypes, SaveSettings
  <2>2. CASE u = t
    <3>1. q \in {SettingQuery(u, stored'[u])} /\ q \in SettingQueries(u)
      BY <1>1, <2>1, <2>2 DEF Settings
    <3> QED
      BY <1>1, <1>2, <3>1, AfterAppend DEF SettingIsTold
  <2>3. CASE u # t
    <3>1. q \notin SettingQueries(u) /\ stored'[u] = stored[u]
      BY <1>1, <2>1, <2>3, QueriesApart DEF Settings
    <3>2. /\ LastWord(sent', SettingQueries(u), {SettingQuery(u, stored[u])})
          /\ Silent(sent', SettingQueries(u)) => Silent(sent, SettingQueries(u))
      BY <1>1, <1>2, <2>1, <3>1, AfterAppend DEF SettingIsTold
    <3> QED
      BY <2>1, <3>1, <3>2 DEF SettingIsTold
  <2> QED
    BY <2>2, <2>3
<1>6. authorized' /\ objects' = stored'
  BY DEF SaveSettings, SettingsInv, SettingsAreTold
<1> QED
  BY <1>3, <1>4, <1>5, <1>6 DEF SettingsInv, SettingsAreTold

\* The login: one query for each type, after those about the network.
LEMMA LoadedAndTold ==
  ASSUME SettingsInv, LoadSettings, authorized', UNCHANGED step
  PROVE  SettingsInv'
<1> DEFINE S == {SettingQuery(t, stored[t]) : t \in Types}
           r == SetToSeq(S)
<1>1. IsFiniteSet(S)
  <2> DEFINE f == [t \in Types |-> SettingQuery(t, stored[t])]
  <2>1. f \in Surjection(Types, S)
    BY DEF Surjection
  <2> QED
    BY <2>1, TypesAssumption, FS_Surjection
<1>2. stored \in Settings /\ sent \in Seq(Queries)
  BY DEF SettingsInv, SettingTypes
<1>3. \A t \in Types : SettingQuery(t, stored[t]) \in Queries \cap SettingQueries(t)
  BY <1>2, QueriesApart DEF Settings
<1>4. r \in Seq(S) /\ \A x \in S : \E i \in 1 .. Len(r) : r[i] = x
  BY <1>1, SequenceOfSet
<1> HIDE DEF r
<1>5. r \in Seq(Queries) /\ \A i \in 1 .. Len(r) : r[i] \in S
  BY <1>3, <1>4
<1>6. sent' = sent \o r /\ sent' \in Seq(Queries)
  BY <1>2, <1>5, ConcatProperties DEF LoadSettings, r
<1>7. SettingTypes'
  BY <1>2, <1>6 DEF SettingsInv, SettingTypes, LoadSettings
<1>8. NetworkIsTold'
  <2>1. Silent(r, NetworkQueries)
    BY <1>3, <1>5, QueriesApart DEF Silent
  <2>2. ASSUME NEW W, LastWord(sent, NetworkQueries, W)
        PROVE  LastWord(sent', NetworkQueries, W)
    BY <1>2, <1>5, <1>6, <2>1, <2>2, AfterConcatenation
  <2>3. Silent(sent', NetworkQueries) => Silent(sent, NetworkQueries)
    BY <1>2, <1>5, <1>6, AfterConcatenation
  <2> QED
    BY <2>2, <2>3 DEF SettingsInv, NetworkIsTold, LoadSettings
<1>9. ASSUME NEW t \in Types
      PROVE  SettingIsTold(t)'
  <2> DEFINE W == {SettingQuery(t, stored[t])}
  <2>1. ~Silent(r, SettingQueries(t))
    BY <1>3, <1>4 DEF Silent
  <2>2. \A i \in 1 .. Len(r) : r[i] \in SettingQueries(t) => r[i] \in W
    <3> SUFFICES ASSUME NEW i \in 1 .. Len(r), r[i] \in SettingQueries(t) PROVE r[i] \in W
      OBVIOUS
    <3>1. PICK u \in Types : r[i] = SettingQuery(u, stored[u])
      BY <1>5
    <3>2. u = t
      BY <1>3, <3>1, QueriesApart
    <3> QED
      BY <3>1, <3>2
  <2>3. LastWord(r, SettingQueries(t), W)
    BY <2>2 DEF LastWord
  <2>4. LastWord(sent', SettingQueries(t), W) /\ ~Silent(sent', SettingQueries(t))
    BY <1>2, <1>5, <1>6, <2>1, <2>3, AfterConcatenation
  <2> QED
    BY <2>4 DEF SettingIsTold, LoadSettings
<1> QED
  BY <1>7, <1>8, <1>9 DEF SettingsInv, SettingsAreTold, LoadSettings

\* TDLib does what the first query says.
LEMMA QueryHandled ==
  ASSUME SettingsInv, HandleQuery, UNCHANGED <<authorized, step>>
  PROVE  SettingsInv'
<1> DEFINE q == Head(sent)
<1>1. sent \in Seq(Queries) /\ sent # <<>> /\ sent' = Tail(sent)
  BY DEF SettingsInv, SettingTypes, HandleQuery
<1>2. q \in Queries /\ sent' \in Seq(Queries)
  BY <1>1, HeadTailProperties
<1>3. UNCHANGED <<stored, objects, route, networkType>>
  BY DEF HandleQuery
<1>4. SettingTypes'
  <2>1. serverHas' \in Settings
    <3>1. CASE q \in NetworkQueries
      BY <3>1, QueriesApart DEF HandleQuery, SettingsInv, SettingTypes
    <3>2. CASE \E t \in Types : q \in SettingQueries(t)
      BY <3>2, QueriesApart DEF HandleQuery, SettingsInv, SettingTypes, Settings
    <3> QED
      BY <1>2, <3>1, <3>2 DEF Queries
  <2> QED
    BY <1>2, <1>3, <2>1 DEF SettingsInv, SettingTypes
<1>5. NetworkIsTold'
  <2> SUFFICES ASSUME step \in {"running", "open"} PROVE NetworkIsTold'
    BY DEF NetworkIsTold
  <2> DEFINE W == {[type |-> "network", is |-> networkType]}
  <2>1. LastWord(sent, NetworkQueries, W) /\ networkType = NetworkOf(route)
    BY DEF SettingsInv, NetworkIsTold
  <2>2. /\ LastWord(sent', NetworkQueries, W)
        /\ Silent(sent', NetworkQueries) =>
             Silent(sent, NetworkQueries) \/ (q \in NetworkQueries /\ q \in W)
    BY <1>1, <2>1, AfterTail
  <2>3. Silent(sent, NetworkQueries) => q \notin NetworkQueries
    BY <1>1, EmptySeq, HeadTailProperties DEF Silent
  <2>4. q \notin NetworkQueries => tdNetwork' = tdNetwork
    BY <1>2, QueriesApart DEF HandleQuery, Queries
  <2>5. q \in NetworkQueries /\ q \in W => tdNetwork' = networkType
    BY QueriesApart DEF HandleQuery
  <2>6. Silent(sent', NetworkQueries) => tdNetwork' = networkType
    BY <2>2, <2>3, <2>4, <2>5 DEF SettingsInv, NetworkIsTold
  <2> QED
    BY <1>3, <2>1, <2>2, <2>6 DEF NetworkIsTold
<1>6. ASSUME authorized, NEW t \in Types
      PROVE  SettingIsTold(t)'
  <2> DEFINE W == {SettingQuery(t, stored[t])}
  <2>1. LastWord(sent, SettingQueries(t), W) /\ serverHas \in Settings
    BY <1>6 DEF SettingsInv, SettingsAreTold, SettingIsTold, SettingTypes
  <2>2. /\ LastWord(sent', SettingQueries(t), W)
        /\ Silent(sent', SettingQueries(t)) =>
             Silent(sent, SettingQueries(t)) \/ (q \in SettingQueries(t) /\ q \in W)
    BY <1>1, <2>1, AfterTail
  <2>3. Silent(sent, SettingQueries(t)) => q \notin SettingQueries(t)
    BY <1>1, EmptySeq, HeadTailProperties DEF Silent
  <2>4. q \notin SettingQueries(t) => serverHas'[t] = serverHas[t]
    <3>1. CASE q \in NetworkQueries
      BY <3>1, QueriesApart DEF HandleQuery
    <3>2. CASE \E u \in Types : q \in SettingQueries(u)
      BY <2>1, <3>2, QueriesApart DEF HandleQuery, Settings
    <3> QED
      BY <1>2, <3>1, <3>2 DEF Queries
  <2>5. q \in SettingQueries(t) /\ q \in W => serverHas'[t] = stored[t]
    <3> SUFFICES ASSUME q \in SettingQueries(t), q \in W PROVE serverHas'[t] = stored[t]
      OBVIOUS
    <3>1. q.type = "settings" /\ q.of = t /\ q.on = stored[t]
      BY DEF SettingQuery
    <3> QED
      BY <2>1, <3>1 DEF HandleQuery, Settings
  <2>6. Silent(sent', SettingQueries(t)) => serverHas'[t] = stored[t]
    BY <1>6, <2>2, <2>3, <2>4, <2>5 DEF SettingsInv, SettingsAreTold, SettingIsTold
  <2> QED
    BY <1>3, <2>2, <2>6 DEF SettingIsTold
<1>7. SettingsAreTold'
  BY <1>3, <1>6 DEF SettingsInv, SettingsAreTold
<1> QED
  BY <1>4, <1>5, <1>7 DEF SettingsInv

LEMMA SettingsKept ==
  LoggedIn /\ SettingsInv /\ [Next]_vars => SettingsInv'
<1> SUFFICES ASSUME LoggedIn, SettingsInv, [Next]_vars PROVE SettingsInv'
  OBVIOUS
<1>1. CASE Start \/ LookAfterData \/ OpenTdlib
  <2>1. UNCHANGED <<settingsVars, authorized>>
    BY <1>1 DEF Start, LookAfterData, OpenTdlib
  <2>2. step' \in {"running", "open"} => step \in {"running", "open"}
    BY <1>1 DEF Start, LookAfterData, OpenTdlib, MoveLegacy, StoreLegacyMove, NoLegacy, MoveData,
                SendTdlibParameters, Proceed
  <2> QED
    BY <2>1, <2>2, SettingsUntouched
<1>2. CASE InitCore
  <2>1. UNCHANGED <<stored, objects, serverHas, authorized>> /\ route' = route /\ SetNetworkType(route)
    BY <1>2 DEF InitCore
  <2> QED
    BY <2>1, NetworkTypeTold DEF SettingsInv, SettingTypes
<1>3. CASE AuthorizationStateReady
  BY <1>3, LoadedAndTold DEF AuthorizationStateReady, dirVars
<1>4. CASE Crash \/ \E p \in Paths : MoveFilesDialog(p)
  <2>1. End
    BY <1>4 DEF Crash, MoveFilesDialog
  <2>2. /\ step' = "off" /\ ~authorized' /\ sent' = <<>> /\ objects' = Unloaded
        /\ UNCHANGED <<stored, route, serverHas>>
    BY <2>1 DEF End, LoseQueries
  <2> QED
    BY <2>2, EmptySeq DEF SettingsInv, SettingTypes, NetworkIsTold, SettingsAreTold, Settings, Unloaded
<1>5. CASE Downloads \/ OtherProgram \/ UNCHANGED vars
  BY <1>5, SettingsUntouched DEF Downloads, OtherProgram, MakeDirectory, vars, dirVars
<1>6. CASE ChangeSetting
  BY <1>6, SettingTold DEF ChangeSetting, dirVars
<1>7. CASE ChangeRoute
  <2>1. PICK r \in Routes : DefaultRouteChanged(r)
    BY <1>7 DEF ChangeRoute
  <2> QED
    BY <1>7, <2>1, NetworkTypeTold DEF ChangeRoute, DefaultRouteChanged, SettingsInv
<1>8. CASE Travel
  <2>1. step = "off" /\ step' = step /\ ~authorized /\ ~authorized' /\ route' \in Routes
        /\ UNCHANGED <<stored, objects, serverHas, sent>>
    BY <1>8 DEF Travel, LoggedIn, dirVars
  <2> QED
    BY <2>1 DEF SettingsInv, SettingTypes, NetworkIsTold, SettingsAreTold
<1>9. CASE TdlibHandlesQuery
  BY <1>9, QueryHandled DEF TdlibHandlesQuery, dirVars
<1> QED
  BY <1>1, <1>2, <1>3, <1>4, <1>5, <1>6, <1>7, <1>8, <1>9 DEF Next, StartUp

(***************************************************************************)
(* While the user is logged in and TDLib has handled what was sent, the    *)
(* server has the settings that the user sees and that the next start will *)
(* load, and TDLib works with the network type of the program, however     *)
(* setters, changes of the route, travels and crashes followed each other. *)
(***************************************************************************)
THEOREM SettingsReachTdlib == Spec => []SettingsAreInForce
<1>1. Init => SettingsInv
  <2> SUFFICES ASSUME Init PROVE SettingsInv
    OBVIOUS
  <2>1. step = "off" /\ ~authorized /\ sent = <<>> /\ sent \in Seq(Queries)
    BY EmptySeq DEF Init, DirInit, SettingsInit
  <2> QED
    BY <2>1 DEF Init, SettingsInit, SettingsInv, SettingTypes, NetworkIsTold, SettingsAreTold,
                Settings, Unloaded
<1>2. LoggedIn /\ SettingsInv => SettingsAreInForce
  <2> SUFFICES ASSUME LoggedIn, SettingsInv, authorized, sent = <<>>
               PROVE  /\ objects = stored /\ serverHas = stored
                      /\ tdNetwork = networkType /\ networkType = NetworkOf(route)
    BY DEF SettingsAreInForce, SettingsInForce
  <2>1. \A Q : Silent(sent, Q)
    BY EmptySeq DEF Silent
  <2>2. \A t \in Types : serverHas[t] = stored[t]
    BY <2>1 DEF SettingsInv, SettingsAreTold, SettingIsTold
  <2> QED
    BY <2>1, <2>2 DEF LoggedIn, SettingsInv, SettingTypes, SettingsAreTold, NetworkIsTold, Settings
<1> QED
  BY <1>1, <1>2, DataInvariant, SettingsKept, PTL DEF Spec
=============================================================================
