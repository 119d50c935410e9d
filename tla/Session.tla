------------------------------ MODULE Session ------------------------------
(***************************************************************************)
(* The program from one start to the next: Core looks after the data       *)
(* directory, connects its objects and starts TDLib; Authorization waits   *)
(* for the login; then files are downloaded within the settings until the  *)
(* program quits or crashes, when everything is lost but the disk, the     *)
(* stored settings and what the server has.                                *)
(***************************************************************************)
EXTENDS Files, DataDirectory, DownloadSettings

CONSTANT
    MaxActs       \* bound: acts of the user, of the device and of other programs, and crashes

VARIABLES
    acts,         \* how many acts there have been
    authorized    \* Authorization::_isAuthorized

vars == <<filesVars, dirVars, settingsVars, acts, authorized>>

Act == acts < MaxActs /\ acts' = acts + 1

(***************************************************************************)
(* The start: Core::Core runs the two functions of the data directory and  *)
(* Core::init tells TDLib the network; then TDLib asks for its parameters  *)
(* and, when it is logged in, the settings are loaded and sent.            *)
(***************************************************************************)
Start ==
    /\ Proceed("off", "unset")
    /\ UNCHANGED <<filesVars, holds, filesDir, newDir, cutOff, refused, settingsVars, acts, authorized>>

LookAfterData ==
    /\ MoveLegacy \/ StoreLegacyMove \/ NoLegacy \/ MoveData
    /\ UNCHANGED <<filesVars, settingsVars, acts, authorized>>

InitCore ==
    /\ NoMove \/ MoveRefused \/ StoreMove
    /\ SetNetworkType(route)
    /\ tdNetwork' = "other"
    /\ UNCHANGED <<filesVars, stored, objects, route, serverHas, acts, authorized>>

\* Files that are not under the path TDLib is told are not on its disk.
OpenTdlib ==
    /\ SendTdlibParameters
    /\ tdFiles' = IF holds[filesDir] = "data" THEN tdFiles ELSE [f \in File |-> "idle"]
    /\ UNCHANGED <<queue, files, asked, incidents, failed, settingsVars, acts, authorized>>

AuthorizationStateReady ==
    /\ step = "open" /\ ~authorized
    /\ authorized' = TRUE
    /\ LoadSettings
    /\ UNCHANGED <<filesVars, dirVars, acts>>

(***************************************************************************)
(* The end, ordered or not.  TDLib halts its downloads.                    *)
(***************************************************************************)
End ==
    /\ step' = "off"
    /\ authorized' = FALSE
    /\ LoseQueries
    /\ queue' = <<>>
    /\ files' = [f \in File |-> "unknown"]
    /\ tdFiles' = [f \in File |-> IF IsDownloading(tdFiles[f]) THEN Halted(tdFiles[f]) ELSE tdFiles[f]]
    /\ asked' = [f \in File |-> <<>>]
    /\ UNCHANGED <<incidents, failed>>

Crash ==
    /\ step # "off" /\ Act
    /\ CutOff
    /\ End
    /\ UNCHANGED <<holds, filesDir, newDir, refused>>

MoveFilesDialog(p) ==
    /\ authorized /\ Act
    /\ CommitNewPath(p)
    /\ End

(***************************************************************************)
(* While the program runs: files, settings, the network, the disk.         *)
(***************************************************************************)
Permitted == IF ActiveSetting THEN Limited ELSE {}

ShowPhoto(f) ==
    /\ authorized
    /\ ~Known(f) /\ f \in Limited
    /\ Post([type |-> "photo", copies |-> CopyOf({f})])
    /\ UNCHANGED <<files, tdFiles, asked, incidents, failed>>

OnPhoto ==
    /\ Received("photo")
    /\ AppendFiles(Head(queue).copies, Permitted)
    /\ UNCHANGED <<tdFiles, incidents, failed>>

OnFileUpdated ==
    /\ Received("file")
    /\ LET copies == Head(queue).copies
           f == CHOOSE g \in DOMAIN copies : TRUE
       IN  IF Known(f) THEN UpdateFile(f, copies[f], Permitted) ELSE UNCHANGED <<files, asked>>
    /\ UNCHANGED <<tdFiles, incidents, failed>>

UserFiles == \E f \in File : Download(f) \/ CancelDownload(f) \/ AutoDownload(f, Permitted)

TdlibFiles ==
    \E f \in File :
        \/ HandleRequest(f) \/ ShowProgress(f) \/ Complete(f) \/ FailDownload(f) \/ RemoveFile(f)
        \/ ShowPhoto(f)

Downloads ==
    /\ authorized
    /\ \/ UserFiles /\ Act
       \/ (TdlibFiles \/ OnPhoto \/ OnFileUpdated) /\ UNCHANGED acts
    /\ UNCHANGED <<dirVars, settingsVars, authorized>>

ChangeSetting ==
    /\ authorized /\ Act
    /\ \E t \in Types, on \in BOOLEAN : objects[t] # on /\ SaveSettings(t, on)
    /\ UNCHANGED <<filesVars, dirVars, authorized>>

ChangeRoute ==
    /\ step \in {"running", "open"} /\ Act
    /\ \E r \in Routes : DefaultRouteChanged(r)
    /\ UNCHANGED <<filesVars, dirVars, authorized>>

Travel ==
    /\ step = "off" /\ Act
    /\ route' \in Routes \ {route}
    /\ UNCHANGED <<filesVars, dirVars, stored, objects, networkType, sent, serverHas, tdNetwork, authorized>>

TdlibHandlesQuery ==
    /\ step = "open"
    /\ HandleQuery
    /\ UNCHANGED <<filesVars, dirVars, acts, authorized>>

OtherProgram ==
    /\ Act
    /\ \E p \in Paths : MakeDirectory(p)
    /\ UNCHANGED <<filesVars, settingsVars, authorized>>

Init ==
    /\ FilesInit
    /\ DirInit
    /\ SettingsInit
    /\ acts = 0
    /\ authorized = FALSE

StartUp == Start \/ LookAfterData \/ InitCore \/ OpenTdlib \/ AuthorizationStateReady

Next ==
    \/ StartUp
    \/ Crash
    \/ \E p \in Paths : MoveFilesDialog(p)
    \/ Downloads
    \/ ChangeSetting
    \/ ChangeRoute
    \/ Travel
    \/ TdlibHandlesQuery
    \/ OtherProgram

(***************************************************************************)
(* A start that has begun goes on, and the user starts the program again.  *)
(***************************************************************************)
Spec == Init /\ [][Next]_vars /\ WF_vars(StartUp)

\* DownloadSettings!SettingsInForce, once the user is logged in.
SettingsAreInForce == SettingsInForce(authorized)

(***************************************************************************)
(* A move that the user has ordered is carried out or given up by a later  *)
(* start, however often the program crashes in between.                    *)
(***************************************************************************)
MovesAreSettled == newDir # Unset ~> newDir = Unset
=============================================================================
