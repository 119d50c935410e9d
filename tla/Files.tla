------------------------------- MODULE Files -------------------------------
(***************************************************************************)
(* The classes Files and File (files/files.cpp, files/file.cpp): what the  *)
(* program knows of the files TDLib keeps, and when it asks TDLib to       *)
(* download one by itself.                                                 *)
(*                                                                         *)
(* TDLib announces each change of a file by updateFile, and every object   *)
(* that holds a file holds a copy of its state.  Both come through one     *)
(* FIFO, so copies are late but never out of order.  Files has no          *)
(* specification of its own: EmojiText composes its operations with the    *)
(* messages that show the files, Session with the settings.                *)
(***************************************************************************)
EXTENDS Updates, SequencesExt

CONSTANTS
    Fetched,      \* stickers, thumbnails and avatars: downloaded when they become known
    Limited,      \* photos, videos and documents: downloaded within the settings
    MaxIncidents  \* bound: removed files, failures, and what other modules count

VARIABLES
    files,        \* Files::_files: the program's copy of each file, or "unknown"
    tdFiles,      \* external: TDLib's state of each file
    asked,        \* external: downloadFile and cancelDownloadFile that TDLib has not handled
    incidents,    \* how many such incidents there have been
    failed        \* history: has a download or a query failed

fileState == <<queue, files, tdFiles, asked, failed>>
filesVars == <<fileState, incidents>>

File == Fetched \cup Limited

(***************************************************************************)
(* A state stands for the fields of td_api::localFile that the program     *)
(* reads, path_, is_downloading_active_ and is_downloading_completed_: not *)
(* on the disk, active, active with a part on the disk, halted with a part *)
(* on the disk, and complete.                                              *)
(***************************************************************************)
States == {"idle", "active", "partial", "stopped", "done"}

LocalPath(st) ==
    CASE st \in {"partial", "stopped"} -> "part"
      [] st = "done"                   -> "whole"
      [] OTHER                         -> ""
IsDownloading(st) == st \in {"active", "partial"}
IsDownloaded(st) == st = "done"
Known(f) == files[f] # "unknown"

\* A second request in a row of the same kind has no effect.
Ask(requests, r) == IF requests # <<>> /\ Last(requests) = r THEN requests ELSE Append(requests, r)

(***************************************************************************)
(* considerAutoDownloading.  permitted are the limited files that the      *)
(* active settings let download.                                           *)
(***************************************************************************)
ConsiderAutoDownloading(f, downloading, downloaded, permitted) ==
    /\ ~downloading
    /\ ~downloaded
    /\ f \in Fetched \cup permitted

(***************************************************************************)
(* updateFile tells isDownloadedChanged before it assigns                  *)
(* is_downloading_active_, so onFileDownloadedChanged decides with the new *)
(* completion and the old activity.                                        *)
(***************************************************************************)
OnFileDownloadedChanged(f, old, new, permitted) ==
    /\ IsDownloaded(old)
    /\ ConsiderAutoDownloading(f, IsDownloading(old), IsDownloaded(new), permitted)

\* Mutant of UpdateFile: only a change of the completion is copied.
UpdateFileOnCompletion(f, new, permitted) ==
    /\ files' = IF IsDownloaded(new) # IsDownloaded(files[f]) THEN [files EXCEPT ![f] = new] ELSE files
    /\ asked' = IF OnFileDownloadedChanged(f, files[f], new, permitted)
                THEN [asked EXCEPT ![f] = Ask(@, "download")] ELSE asked

UpdateFile(f, new, permitted) ==
    /\ files' = [files EXCEPT ![f] = new]
    /\ asked' = IF OnFileDownloadedChanged(f, files[f], new, permitted)
                THEN [asked EXCEPT ![f] = Ask(@, "download")] ELSE asked

(***************************************************************************)
(* appendFile for each file of copies, a function from files to states: a  *)
(* known file is updated, a new one is stored; files that are always       *)
(* fetched are then considered for a download.                             *)
(***************************************************************************)
AppendFiles(copies, permitted) ==
    /\ files' = [f \in File |-> IF f \in DOMAIN copies THEN copies[f] ELSE files[f]]
    /\ asked' = [f \in File |->
            IF /\ f \in DOMAIN copies
               /\ \/ Known(f) /\ OnFileDownloadedChanged(f, files[f], copies[f], permitted)
                  \/ f \in Fetched /\ ConsiderAutoDownloading(f, IsDownloading(copies[f]), IsDownloaded(copies[f]), {})
            THEN Ask(asked[f], "download") ELSE asked[f]]

\* The known files of copies whose localPathChanged is emitted.
PathChanges(copies) == {f \in DOMAIN copies : Known(f) /\ LocalPath(files[f]) # LocalPath(copies[f])}

(***************************************************************************)
(* Requests of the user interface: File::download and cancelDownload, and  *)
(* ChatList::autoDownload for a message that comes on the screen.          *)
(***************************************************************************)
Request(f, r) ==
    /\ Known(f)
    /\ asked' = [asked EXCEPT ![f] = Ask(@, r)]
    /\ UNCHANGED <<queue, files, tdFiles, incidents, failed>>

Download(f) == Request(f, "download")
CancelDownload(f) == IsDownloading(files[f]) /\ Request(f, "cancel")
AutoDownload(f, permitted) ==
    /\ ConsiderAutoDownloading(f, IsDownloading(files[f]), IsDownloaded(files[f]), permitted)
    /\ Request(f, "download")

(***************************************************************************)
(* TDLib.                                                                  *)
(***************************************************************************)
CopyOf(fs) == [f \in fs |-> tdFiles[f]]

MoveFile(f, st) ==
    /\ tdFiles' = [tdFiles EXCEPT ![f] = st]
    /\ Post([type |-> "file", copies |-> [g \in {f} |-> st]])
    /\ UNCHANGED files

Incident == incidents < MaxIncidents /\ incidents' = incidents + 1

Started(st) == IF st = "stopped" THEN "partial" ELSE "active"
Halted(st) == IF st = "partial" THEN "stopped" ELSE "idle"

HandleRequest(f) ==
    /\ asked[f] # <<>>
    /\ asked' = [asked EXCEPT ![f] = Tail(@)]
    /\ CASE Head(asked[f]) = "download" /\ tdFiles[f] \in {"idle", "stopped"} -> MoveFile(f, Started(tdFiles[f]))
         [] Head(asked[f]) = "cancel" /\ IsDownloading(tdFiles[f])            -> MoveFile(f, Halted(tdFiles[f]))
         [] OTHER                                                             -> UNCHANGED <<queue, files, tdFiles>>
    /\ UNCHANGED <<incidents, failed>>

ShowProgress(f) ==
    /\ tdFiles[f] = "active"
    /\ MoveFile(f, "partial")
    /\ UNCHANGED <<asked, incidents, failed>>

Complete(f) ==
    /\ IsDownloading(tdFiles[f])
    /\ MoveFile(f, "done")
    /\ UNCHANGED <<asked, incidents, failed>>

FailDownload(f) ==
    /\ Incident /\ failed' = TRUE
    /\ IsDownloading(tdFiles[f])
    /\ MoveFile(f, Halted(tdFiles[f]))
    /\ UNCHANGED asked

\* The storage optimiser, or the user, removes a file from the disk.
RemoveFile(f) ==
    /\ Incident
    /\ tdFiles[f] = "done"
    /\ MoveFile(f, "idle")
    /\ UNCHANGED <<asked, failed>>

FilesInit ==
    /\ queue = <<>>
    /\ files = [f \in File |-> "unknown"]
    /\ tdFiles \in [File -> {"idle", "done"}]
    /\ asked = [f \in File |-> <<>>]
    /\ incidents = 0
    /\ failed = FALSE

(***************************************************************************)
(* What the program knows of a file is what TDLib has, or an object that   *)
(* brings the rest is on its way (File::updateFile, Files::appendFile).    *)
(***************************************************************************)
CopyIsComing(f) == \E event \in OnTheirWay : "copies" \in DOMAIN event /\ f \in DOMAIN event.copies

FilesAgree == \A f \in File : Known(f) => files[f] = tdFiles[f] \/ CopyIsComing(f)
=============================================================================
