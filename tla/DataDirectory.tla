--------------------------- MODULE DataDirectory ---------------------------
(***************************************************************************)
(* Where the program keeps its files: Core::moveDataIfUnset and            *)
(* moveDataIfNeeded (core.cpp), which the constructor of Core runs at      *)
(* every start, and DataManager (datamanager.cpp), through which the user  *)
(* orders a move for the next start.  A start may be cut off between the   *)
(* rename and the writing of the settings, which QSettings does when the   *)
(* function returns.  Session composes this with what runs afterwards.     *)
(***************************************************************************)
EXTENDS TLC

CONSTANTS
    Legacy,       \* Downloads/Yottagram, which old versions used
    Default,      \* ~/.local/share/Yottagram/data
    Elsewhere     \* other paths the user can name

VARIABLES
    holds,        \* external: what is on the disk at each path
    filesDir,     \* QSettings: files_directory
    newDir,       \* QSettings: new_files_directory
    step,         \* how far the start has come
    cutOff,       \* history: a start ended between the rename and the settings
    refused       \* history: the rename of the old default has failed

dirVars == <<holds, filesDir, newDir, step, cutOff, refused>>

Paths == {Legacy, Default} \cup Elsewhere
Unset == "unset"

ASSUME PathsAssumption == Unset \notin Paths

(***************************************************************************)
(* "data" is what the program has stored so far.  Another directory, or a  *)
(* file, at a path is in the way of a rename.                              *)
(***************************************************************************)
Exists(p) == holds[p] # "nothing"

Move(from, to) == holds' = [holds EXCEPT ![from] = "nothing", ![to] = holds[from]]

Proceed(from, to) == step = from /\ step' = to

(***************************************************************************)
(* moveDataIfUnset.  QFile::remove takes away a file, and not a directory; *)
(* QFile::rename refuses a target that exists, and may fail otherwise.     *)
(* Its result is not looked at.                                            *)
(***************************************************************************)
MoveLegacy ==
    /\ Proceed("unset", "legacyMoved")
    /\ filesDir = Unset /\ Exists(Legacy)
    /\ \/ /\ holds[Default] # "data" /\ holds[Default] # "directory"
          /\ Move(Legacy, Default)
          /\ UNCHANGED refused
       \/ /\ holds' = IF holds[Default] = "file" THEN [holds EXCEPT ![Default] = "nothing"] ELSE holds
          /\ refused' = (refused \/ holds[Legacy] = "data")
    /\ UNCHANGED <<filesDir, newDir, cutOff>>

StoreLegacyMove ==
    /\ Proceed("legacyMoved", "needed")
    /\ filesDir' = Default
    /\ UNCHANGED <<holds, newDir, cutOff, refused>>

NoLegacy ==
    /\ Proceed("unset", "needed")
    /\ filesDir # Unset \/ ~Exists(Legacy)
    /\ filesDir' = IF filesDir = Unset THEN Default ELSE filesDir
    /\ UNCHANGED <<holds, newDir, cutOff, refused>>

(***************************************************************************)
(* moveDataIfNeeded.                                                       *)
(***************************************************************************)
MoveOrdered == newDir # Unset /\ newDir # filesDir

NoMove ==
    /\ Proceed("needed", "running")
    /\ ~MoveOrdered
    /\ UNCHANGED <<holds, filesDir, newDir, cutOff, refused>>

MoveData ==
    /\ Proceed("needed", "moved")
    /\ MoveOrdered /\ Exists(filesDir) /\ ~Exists(newDir)
    /\ Move(filesDir, newDir)
    /\ UNCHANGED <<filesDir, newDir, cutOff, refused>>

\* Mutant of MoveRefused: the result of the rename is not looked at.
MoveRefusedUnseen ==
    /\ Proceed("needed", "running")
    /\ MoveOrdered
    /\ filesDir' = newDir /\ newDir' = Unset
    /\ UNCHANGED <<holds, cutOff, refused>>

\* Mutant of MoveRefused: the order stays.
MoveRefusedKept ==
    /\ Proceed("needed", "running")
    /\ MoveOrdered
    /\ UNCHANGED <<holds, filesDir, newDir, cutOff, refused>>

MoveRefused ==
    /\ Proceed("needed", "running")
    /\ MoveOrdered
    /\ newDir' = Unset
    /\ UNCHANGED <<holds, filesDir, cutOff, refused>>

StoreMove ==
    /\ Proceed("moved", "running")
    /\ filesDir' = newDir
    /\ newDir' = Unset
    /\ UNCHANGED <<holds, cutOff, refused>>

(***************************************************************************)
(* authorizationStateWaitTdlibParameters: TDLib is told the path, and      *)
(* makes a directory when there is none.  At a first start that is where   *)
(* the data will be.                                                       *)
(***************************************************************************)
FirstData == \A p \in Paths : holds[p] # "data"

SendTdlibParameters ==
    /\ Proceed("running", "open")
    /\ holds' = IF FirstData THEN [holds EXCEPT ![filesDir] = "data"]
                ELSE IF Exists(filesDir) THEN holds ELSE [holds EXCEPT ![filesDir] = "directory"]
    /\ UNCHANGED <<filesDir, newDir, cutOff, refused>>

\* MoveFilesDialog: DataManager::commitNewPath of a path that does not exist,
\* and the program quits.
CommitNewPath(p) ==
    /\ ~Exists(p)
    /\ newDir' = p
    /\ UNCHANGED <<holds, filesDir, cutOff, refused>>

\* Another program makes a directory.
MakeDirectory(p) ==
    /\ ~Exists(p)
    /\ holds' = [holds EXCEPT ![p] = "directory"]
    /\ UNCHANGED <<filesDir, newDir, step, cutOff, refused>>

\* The program ends, at any step of the start or later.
CutOff == cutOff' = (cutOff \/ step = "moved")

(***************************************************************************)
(* A first start; the first start of a user of an old version, whose new   *)
(* path may be taken; and a start with a stored setting.                   *)
(***************************************************************************)
Nothing == [p \in Paths |-> "nothing"]

DirInit ==
    /\ newDir = Unset /\ step = "off" /\ cutOff = FALSE /\ refused = FALSE
    /\ \/ filesDir = Unset /\ holds = Nothing
       \/ filesDir = Unset /\ \E h \in {"nothing", "directory", "file"} :
             holds = [Nothing EXCEPT ![Legacy] = "data", ![Default] = h]
       \/ filesDir = Default /\ holds = [Nothing EXCEPT ![Default] = "data"]

(***************************************************************************)
(* Once the program runs, the stored setting names the data.  Excepted are *)
(* a start that was cut off between the rename of moveDataIfNeeded and its *)
(* settings (core.cpp:161), and a rename of the old default that failed    *)
(* (core.cpp:139); a cut in moveDataIfUnset is made good by the next start.*)
(***************************************************************************)
SettingNamesTheData ==
    step = "open" => holds[filesDir] = "data" \/ cutOff \/ refused
=============================================================================
