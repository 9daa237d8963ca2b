----------------------------- MODULE FileCommands -----------------------------
(***************************************************************************)
(* The `files` commands of the CLI, each a process of its own: local       *)
(* checks, at most one look at the server, one request per id, the audit   *)
(* trail.  Several commands, a mount or an upload may be at work on the    *)
(* same account at once; each request may be refused, lost or repeated,    *)
(* and a command may be killed anywhere.                                   *)
(*                                                                         *)
(* A command is a set of invocations: what its flags and its local checks  *)
(* let through.  An invocation says which request is sent for each id,     *)
(* what is read before, how a download reaches the disk, and whether a     *)
(* failed id ends the command.                                             *)
(***************************************************************************)
EXTENDS FilesApi

CONSTANTS
  Cli,            \* command processes
  Lists,          \* lists of ids a user may pass
  Into,           \* folders a user may name
  NewNames        \* names a user may give

(* Each takes at least one id (cobra.MinimumNArgs).                        *)
ASSUME ListsAssumption == Lists \subseteq Seq(Id) \ {<< >>}
ASSUME UserAssumption  == Into \subseteq Id /\ NewNames \subseteq Name

VARIABLES
  proc,           \* proc[c]: the command the process runs, and how far it is
  disk,           \* disk[p]: the local file at a path below --out
  trail           \* trail[c]: what the audit log says of the process
commandVars == <<proc, disk, trail>>

Unlisted == <<"id">>     \* the name of a download that the listing has not
Path     == {Unlisted} \cup UNION {[1 .. n -> Name] : n \in 1 .. Cardinality(Id) + 1}
Blank    == [row |-> NoFile, files |-> {}, folders |-> {}, paths |-> [i \in Id |-> Unlisted]]

(* A command that sends one request per id and stops at the first that     *)
(* fails; most log an event of their own before they return.               *)
Command(request) ==
  [request |-> request, ids |-> <<1>>, look |-> "none", into |-> Root,
   name |-> AName, saves |-> "no", goesOn |-> FALSE, skips |-> FALSE, bulk |-> FALSE,
   event |-> TRUE]
Each(request)   == {[Command(request) EXCEPT !.ids = l] : l \in Lists}
ToEach(request) == {[v EXCEPT !.into = f] : v \in Each(request),
                                            f \in Into \cup {Root}}
One(request)    == {[v EXCEPT !.name = n] : v \in {w \in Each(request) : Len(w.ids) = 1},
                                             n \in NewNames}
OnePlace(request) == {[v EXCEPT !.into = f] : v \in One(request), f \in Into \cup {Root}}
Listing == {[Command("read") EXCEPT !.event = FALSE]}

-----------------------------------------------------------------------------
(* Commands that list.                                                     *)
Ls            == Listing
TrashLs       == Listing
VersionsLs    == Listing
LabelsLs      == Listing
Search        == Listing
Stats         == Listing
Activity      == Listing
ShareLs       == Listing
ShareFolderLs == Listing
UploadLinkLs  == Listing
SharedLs      == Listing
SharedBrowse  == Listing
Keys          == Listing

(* Files and folders.  rename and mv read the row of each id first and     *)
(* send its version; folders have no version check.                        *)
Rm            == Each("DeleteFile")
Mkdir         == {[Command("CreateFolder") EXCEPT !.into = f, !.event = FALSE]
                    : f \in Into \cup {Root}}
Rename        == {[v EXCEPT !.look = "row"] : v \in One("Rename")}
Mv            == {[v EXCEPT !.look = "row"] : v \in ToEach("Move")}
Copy          == OnePlace("CopyFile")
FolderRename  == One("RenameFolder")
FolderMv      == OnePlace("MoveFolder")
FolderRm      == Each("DeleteFolder") \cup Each("ForceDeleteFolder")
FolderRestore == Each("RestoreFolder")

(* trash restore and trash rm read the trash once and take an id for a     *)
(* file before they take it for a folder.                                  *)
TrashRestore  == {[v EXCEPT !.look = "trash"] : v \in Each("Restore")}
TrashRm       == {[v EXCEPT !.look = "trash"] : v \in Each("Purge")}
TrashEmpty    == {Command("EmptyFilesTrash")}

VersionsRestore == One("RestoreFileVersion")
LabelsCreate    == {Command("CreateLabel")}
LabelsRm        == Each("DeleteLabel")
LabelsSet       == One("SetFileLabels")

(* Links and shares.  `share update` takes the version of the link from    *)
(* the list of links.                                                      *)
ShareCreate       == {Command("CreateFileShare")}
ShareUpdate       == {[v EXCEPT !.look = "link"] : v \in One("UpdateFileShare")}
ShareRm           == Each("DeleteFileShare")
ShareFolderAdd    == {Command("CreateFolderShare")}
ShareFolderRole   == One("UpdateFolderShareMember")
ShareFolderRemove == One("RemoveFolderShareMember")
ShareFolderRm     == Each("DeleteFolderShare")
UploadLinkCreate  == {Command("CreateUploadLink")}
UploadLinkRm      == Each("DeleteUploadLink")
SharedUpload      == {[v EXCEPT !.goesOn = TRUE] : v \in Each("SharedWithMeUpload")}
SharedRename      == One("SharedWithMeRename")
SharedRm          == Each("SharedWithMeDelete")

(* Archives and encryption: the server stores the result as a new file.    *)
ArchiveCreate  == OnePlace("CreateArchive")
ArchiveExtract == OnePlace("ExtractArchive")
Encrypt        == One("EncryptFile") \cup One("EncryptFolder")
Decrypt        == One("DecryptFile")

(* Downloads.  `download` reads the tree, writes each body to a temporary  *)
(* file and renames it, and goes on after a failure; with --all it keeps   *)
(* the remote folders and passes over what exists.  The others write the   *)
(* named file itself; zip removes it when the export fails.  All but       *)
(* `versions download` look at what Close says.                            *)
Downloading == [Command("Download") EXCEPT !.event = FALSE, !.goesOn = TRUE,
                                           !.look = "tree", !.saves = "renamed"]
Download ==
  {[Downloading EXCEPT !.ids = l] : l \in Lists}
    \cup {[Downloading EXCEPT !.ids = << >>, !.skips = TRUE]}
VersionsDownload ==
  {[v EXCEPT !.saves = "unchecked", !.event = FALSE] : v \in One("Download")}
SharedDownload ==
  {[v EXCEPT !.saves = "plain", !.look = "names"] : v \in Each("Download")}
Zip == {[v EXCEPT !.saves = "zip"] : v \in One("Download")}

(* gallery: rm sends one request, also for several ids; download names the *)
(* file itself when the listing lacks the id, and passes over, with --all, *)
(* what exists.                                                            *)
GalleryLs       == Listing
GalleryRm       == {[v EXCEPT !.bulk = TRUE] : v \in Each("DeletePhotos")}
PhotoDownload   == [Downloading EXCEPT !.request = "DownloadPhoto", !.look = "photos"]
GalleryDownload ==
  {[PhotoDownload EXCEPT !.ids = l] : l \in Lists}
    \cup {[PhotoDownload EXCEPT !.ids = << >>, !.skips = TRUE]}

Commands ==
  UNION {GalleryLs, GalleryRm, GalleryDownload, Ls, TrashLs, VersionsLs, LabelsLs,
         Search, Stats, Activity, ShareLs, ShareFolderLs, UploadLinkLs, SharedLs,
         SharedBrowse, Keys, Rm, Mkdir, Rename, Mv, Copy, FolderRename, FolderMv,
         FolderRm, FolderRestore, TrashRestore, TrashRm, TrashEmpty, VersionsRestore,
         LabelsCreate, LabelsRm, LabelsSet, ShareCreate, ShareUpdate, ShareRm,
         ShareFolderAdd, ShareFolderRole, ShareFolderRemove, ShareFolderRm,
         UploadLinkCreate, UploadLinkRm, SharedUpload, SharedRename, SharedRm,
         ArchiveCreate, ArchiveExtract, Encrypt, Decrypt, Download, VersionsDownload,
         SharedDownload, Zip}

-----------------------------------------------------------------------------
(* A process: the command as invoked, the id it is at, the attempts of the *)
(* request under way, what it has seen, and which of its requests the      *)
(* server carried out.                                                     *)
Free == [phase |-> "free"]
CommandsInit ==
  /\ proc = [c \in Cli |-> Free]
  /\ disk = << >>
  /\ trail = [c \in Cli |-> [count |-> 0, outcome |-> "none"]]

Drop(f, p)    == [q \in DOMAIN f \ {p} |-> f[q]]
(* What may be at a path and is no body: a file not written to its end,    *)
(* and one that was, whose last bytes Close could not store.               *)
Torn          == "torn"
Unclosed      == "unclosed"
ASSUME TornAssumption == {Torn, Unclosed} \cap Data = {}
Current(p)    == p.inv.ids[p.at]
Target(p)     == IF p.inv.look \in {"tree", "names", "photos"} THEN p.seen.paths[Current(p)]
                 ELSE <<p.inv.name>>

(* Where a command goes next: to the lookup of an id, to os.Create, to its *)
(* request, or to its end.  The variant loses the error on its way out.    *)
Direct        == {"plain", "zip", "unchecked"}
Ready(v)      == IF v.saves \in Direct THEN "open" ELSE "call"
First(v)      == IF v.look = "none" THEN Ready(v) ELSE "look"
NextId(p)     ==
  IF p.at < Len(p.inv.ids) /\ ~p.inv.bulk
  THEN [p EXCEPT !.at = @ + 1, !.tries = 1,
                 !.phase = IF p.inv.look = "row" THEN "look" ELSE Ready(p.inv)]
  ELSE [p EXCEPT !.phase = "end"]
Overlook(p)   == [p EXCEPT !.phase = "end"]
Stop(p)       == [p EXCEPT !.failed = @ + 1, !.phase = "end"]
Fails(p)      == IF p.inv.goesOn THEN NextId([p EXCEPT !.failed = @ + 1]) ELSE Stop(p)

Started(v) == [phase |-> First(v), inv |-> v, at |-> 1, tries |-> 1, seen |-> Blank,
               did |-> {}, failed |-> 0]
Start(c) ==
  /\ proc[c].phase = "free"
  /\ \E v \in Commands : proc' = [proc EXCEPT ![c] = Started(v)]
  /\ UNCHANGED <<server, lost, disk, trail>>

(* What a lookup brings: the row of the id, the version of the link, the   *)
(* trash, or the names under which the files are saved; --all takes every  *)
(* file, of the photos the images.  Photos have any names.  (The code goes *)
(* through the files by path, which only decides which of two of one path  *)
(* is passed over.)                                                        *)
ShownRow(p)   == [p EXCEPT !.seen.row = File(Current(p))]
ShownLink(p)  == [p EXCEPT !.seen.row.ver = Row("link", Current(p)).ver]
ShownTrash(p) == [p EXCEPT !.seen.files = FilesTrash.files,
                           !.seen.folders = FilesTrash.folders]
BaseName(i)   == <<File(i).name>>
InOrder(ids)  == CHOOSE q \in [1 .. Cardinality(ids) -> ids] :
                   \A m, n \in DOMAIN q : m < n => q[m] < q[n]
ShownTree(p) ==
  LET path == [i \in Id |-> IF i \notin Listed THEN Unlisted
                             ELSE IF p.inv.skips THEN RelPath(i) ELSE BaseName(i)]
  IN  [p EXCEPT !.seen.paths = path, !.inv.ids = IF p.inv.skips THEN InOrder(Listed) ELSE @]
ShownPhotos(p, names, images) ==
  [p EXCEPT !.seen.paths = [i \in Id |-> IF i \in Photos THEN <<names[i]>> ELSE Unlisted],
            !.inv.ids = IF p.inv.skips THEN InOrder(images) ELSE @]

Found(p) ==
  CASE p.inv.look = "row"   -> Live(Current(p))
    [] p.inv.look = "link"  -> Row("link", Current(p)).at = "live"
    [] OTHER -> TRUE
Shown(p) ==
  CASE p.inv.look = "row"    -> {ShownRow(p)}
    [] p.inv.look = "link"   -> {ShownLink(p)}
    [] p.inv.look = "trash"  -> {ShownTrash(p)}
    [] p.inv.look \in {"tree", "names"} -> {ShownTree(p)}
    [] p.inv.look = "photos" -> {ShownPhotos(p, names, images)
                                   : names \in [Photos -> Name], images \in SUBSET Photos}
AfterLook(p) ==
  IF p.inv.ids = << >> THEN [p EXCEPT !.phase = "end"]
  ELSE [p EXCEPT !.phase = Ready(p.inv), !.tries = 1]

(* The lookup fails the command, but not the one that only wants names.    *)
Look(c) ==
  LET p == proc[c] IN
  /\ p.phase = "look"
  /\ \E a \in Answered(Reading) \cup Unanswered(Reading) :
       /\ Attempt(Reading, a)
       /\ IF ~Retries(a, p.tries) /\ a.answer = "ok" /\ Found(p)
          THEN \E q \in Shown(p) : proc' = [proc EXCEPT ![c] = AfterLook(q)]
          ELSE proc' = [proc EXCEPT ![c] =
                 IF Retries(a, p.tries) THEN [p EXCEPT !.tries = @ + 1]
                 ELSE IF p.inv.look = "names" THEN AfterLook(p) ELSE Stop(p)]
  /\ UNCHANGED <<disk, trail>>

-----------------------------------------------------------------------------
(* The request for an id.  The version sent is the one the lookup showed.  *)
(* The variants send whatever version is current, and take every id that   *)
(* the trash showed for a file.                                            *)
SentCurrent(p) == File(Current(p)).ver
SentVersion(p) == p.seen.row.ver
InTrash(p, i)  == i \in p.seen.files \cup p.seen.folders
OnAny(p, i)    == InTrash(p, i)
OnFile(p, i)   == i \in p.seen.files
Purge(p, i)    == IF OnFile(p, i) THEN ForceDeleteFile(i) ELSE ForceDeleteFolder(i)
Restore(p, i)  == IF OnFile(p, i) THEN RestoreFile(i) ELSE RestoreFolder(i)
Outcomes(p) ==
  LET v == p.inv  i == Current(p)  r == v.request  some == CHOOSE d \in Data : TRUE IN
  CASE r = "read"              -> Reading
    [] r = "DeleteFile"        -> DeleteFile(i)
    [] r = "CreateFolder"      -> CreateFolder(v.name, v.into)
    [] r = "Rename"            -> UpdateFile(i, v.name, File(i).folder, SentVersion(p))
    [] r = "Move"              -> UpdateFile(i, File(i).name, v.into, SentVersion(p))
    [] r = "CopyFile"          -> CopyFile(i, v.name, v.into)
    [] r = "RenameFolder"      -> RenameFolder(i, v.name)
    [] r = "MoveFolder"        -> MoveFolder(i, v.into)
    [] r = "DeleteFolder"      -> DeleteFolder(i)
    [] r = "ForceDeleteFolder" -> ForceDeleteFolder(i)
    [] r = "RestoreFolder"     -> RestoreFolder(i)
    [] r = "Restore"           -> Restore(p, i)
    [] r = "Purge"             -> Purge(p, i)
    [] r = "EmptyFilesTrash"   -> EmptyFilesTrash
    [] r = "RestoreFileVersion" -> UNION {RestoreFileVersion(i, d) : d \in Data}
    [] r = "CreateLabel"       -> CreateLabel
    [] r = "DeleteLabel"       -> DeleteLabel(i)
    [] r = "SetFileLabels"     -> SetFileLabels(i)
    [] r = "CreateFileShare"   -> CreateFileShare
    [] r = "UpdateFileShare"   -> UpdateFileShare(i, SentVersion(p))
    [] r = "DeleteFileShare"   -> DeleteFileShare(i)
    [] r = "CreateFolderShare" -> CreateFolderShare
    [] r = "UpdateFolderShareMember" -> UpdateFolderShareMember(i)
    [] r = "RemoveFolderShareMember" -> RemoveFolderShareMember(i)
    [] r = "DeleteFolderShare" -> DeleteFolderShare(i)
    [] r = "CreateUploadLink"  -> CreateUploadLink
    [] r = "DeleteUploadLink"  -> DeleteUploadLink(i)
    [] r = "SharedWithMeUpload" -> SharedWithMeUpload
    [] r = "SharedWithMeRename" -> SharedWithMeRename(i)
    [] r = "SharedWithMeDelete" -> SharedWithMeDelete(i)
    [] r = "CreateArchive"     -> CreateArchive(v.name, v.into, some)
    [] r = "ExtractArchive"    -> ExtractArchive(i, v.name, v.into)
    [] r = "EncryptFile"       -> EncryptFile(i, v.name, some)
    [] r = "EncryptFolder"     -> EncryptFolder(i, v.name, some)
    [] r = "DecryptFile"       -> DecryptFile(i, v.name, some)
    [] r = "Download"          -> May(Live(i), server)
    [] r = "DownloadPhoto"     -> May(i \in Photos, server)
    [] r = "DeletePhotos"      -> DeletePhotos({v.ids[n] : n \in DOMAIN v.ids})

(* os.Create truncates the named file before the request is sent.          *)
OpenLocal(c) ==
  LET p == proc[c] IN
  /\ p.phase = "open"
  /\ disk' = Put(disk, Target(p), Torn)
  /\ proc' = [proc EXCEPT ![c].phase = "call"]
  /\ UNCHANGED <<server, lost, trail>>

(* download --all passes over a path that exists.                          *)
Exists(p) == p.inv.skips /\ Target(p) \in DOMAIN disk
PassBy(c) ==
  LET p == proc[c] IN
  /\ p.phase = "call" /\ Exists(p)
  /\ proc' = [proc EXCEPT ![c] = NextId(p)]
  /\ UNCHANGED <<server, lost, disk, trail>>

(* An id the trash did not show ends the command before any request.       *)
Unknown(p) == p.inv.look = "trash" /\ ~InTrash(p, Current(p))
NotInTrash(c) ==
  LET p == proc[c] IN
  /\ p.phase = "call" /\ Unknown(p)
  /\ proc' = [proc EXCEPT ![c] = Stop(p)]
  /\ UNCHANGED <<server, lost, disk, trail>>

(* What is on the disk after a download, whole or cut short: a whole       *)
(* temporary file is renamed, zip removes a failed export.  The variant    *)
(* leaves it.                                                              *)
Body(p)    == IF p.inv.request = "DownloadPhoto" THEN CHOOSE d \in Data : TRUE
              ELSE File(Current(p)).data
Saved(p)   == Put(disk, Target(p), Body(p))
Left(p)    == disk
Unsaved(p) == IF p.inv.saves = "zip" THEN Drop(disk, Target(p)) ELSE disk

(* One attempt of the request for the current id, or for all of a bulk.  A *)
(* body that breaks off is not asked for again.                            *)
Carried(p) == [p EXCEPT !.did = @ \cup (IF p.inv.bulk THEN DOMAIN p.inv.ids ELSE {p.at})]
Call(c) ==
  LET p == proc[c] IN
  /\ p.phase = "call" /\ ~Exists(p) /\ ~Unknown(p)
  /\ \E a \in Answered(Outcomes(p)) \cup Unanswered(Outcomes(p)) :
       LET q == IF a.done THEN Carried(p) ELSE p IN
       /\ Attempt(Outcomes(p), a)
       /\ IF Retries(a, p.tries)
          THEN proc' = [proc EXCEPT ![c] = [q EXCEPT !.tries = @ + 1]] /\ UNCHANGED disk
          ELSE IF a.answer = "ok"
          THEN /\ proc' = [proc EXCEPT ![c] = NextId(q)]
               /\ disk' = IF p.inv.saves = "no" THEN disk ELSE Saved(p)
          ELSE proc' = [proc EXCEPT ![c] = Fails(q)] /\ disk' = Unsaved(p)
  /\ UNCHANGED trail

Served(p) == IF p.inv.request = "DownloadPhoto" THEN Current(p) \in Photos
             ELSE Live(Current(p))
BreaksOff(c) ==
  LET p == proc[c] IN
  /\ p.phase = "call" /\ ~Exists(p) /\ p.inv.saves # "no"
  /\ Served(p) /\ lost < MaxLost
  /\ lost' = lost + 1
  /\ proc' = [proc EXCEPT ![c] = Fails(p)]
  /\ disk' = Unsaved(p)
  /\ UNCHANGED <<server, trail>>

(* The body came whole and Close fails: the temporary file is removed, the *)
(* named file stays (zip removes it for a failed export only).  `versions  *)
(* download` does not see the error and says that it has downloaded.       *)
CloseFails(c) ==
  LET p == proc[c]  q == Carried(p) IN
  /\ p.phase = "call" /\ ~Exists(p) /\ p.inv.saves # "no"
  /\ Served(p) /\ lost < MaxLost
  /\ lost' = lost + 1
  /\ proc' = [proc EXCEPT ![c] = IF p.inv.saves = "unchecked" THEN NextId(q) ELSE Fails(q)]
  /\ disk' = IF p.inv.saves = "renamed" THEN disk ELSE Put(disk, Target(p), Unclosed)
  /\ UNCHANGED <<server, trail>>

(* The command returns: its own event unless an error ended it first, then *)
(* the line of the root command with the outcome.                          *)
Logged(p) == IF p.inv.event /\ (p.failed = 0 \/ p.inv.goesOn)
             THEN Len(p.inv.ids) - p.failed ELSE 0
End(c) ==
  LET p == proc[c] IN
  /\ p.phase = "end"
  /\ trail' = [trail EXCEPT ![c] =
       [count |-> Logged(p), outcome |-> IF p.failed = 0 THEN "ok" ELSE "error"]]
  /\ proc' = [proc EXCEPT ![c].phase = "over", ![c].seen = Blank, ![c].tries = 1]
  /\ UNCHANGED <<server, lost, disk>>

Kill(c) ==
  /\ proc[c].phase \in {"look", "open", "call", "end"}
  /\ proc' = [proc EXCEPT ![c].phase = "killed", ![c].seen = Blank, ![c].tries = 1]
  /\ UNCHANGED <<server, lost, disk, trail>>

CommandStep(c) == \/ Start(c) \/ Look(c) \/ OpenLocal(c) \/ PassBy(c) \/ NotInTrash(c)
                  \/ Call(c) \/ BreaksOff(c) \/ CloseFails(c) \/ End(c) \/ Kill(c)
CommandsNext == \E c \in Cli : CommandStep(c)

(* The commands by themselves: other clients may change the server.        *)
CommandsSpec == CommandsInit /\ [][CommandsNext]_commandVars

-----------------------------------------------------------------------------
(* Types.                                                                  *)
Busy1(c) == proc[c].phase # "free"
CommandsTypeOK ==
  /\ FilesTypeOK
  /\ \A c \in Cli : Busy1(c) =>
       /\ proc[c].phase \in {"look", "open", "call", "end", "over", "killed"}
       /\ proc[c].at \in 1 .. Len(proc[c].inv.ids) + 1
       /\ proc[c].tries \in 1 .. MaxTries
       /\ proc[c].did \subseteq DOMAIN proc[c].inv.ids
       /\ proc[c].failed \in 0 .. Len(proc[c].inv.ids) + 1
  /\ DOMAIN disk \subseteq Path
  /\ \A p \in DOMAIN disk : disk[p] \in Data \cup {Torn, Unclosed}

(* Audit: "every operation is recorded" with its outcome and count.  What  *)
(* the trail calls done was done: the server carried out a request for     *)
(* each of the ids an event counts, however many attempts it took, and a   *)
(* command recorded as ok left none of its ids out.                        *)
Requested(p) == {n \in DOMAIN p.inv.ids : ~p.inv.skips}
AuditIsTrue ==
  \A c \in Cli : trail[c].outcome # "none" =>
    /\ Cardinality(proc[c].did) >= trail[c].count
    /\ trail[c].outcome = "ok" => Requested(proc[c]) \subseteq proc[c].did

(* rename, mv and share update: "read the current version": a row is only  *)
(* changed by a command that has seen it as it is, so that no command      *)
(* undoes what another one, or the mount, did after its lookup.            *)
SeesWhatItChanges ==
  [][\A c \in Cli : proc[c].phase = "call" /\ proc'[c] # proc[c] /\ server' # server
       /\ proc[c].inv.request \in {"Rename", "Move"}
       => File(Current(proc[c])) = proc[c].seen.row]_<<server, commandVars>>

(* trash rm is irreversible: what it purges was in the trash when the      *)
(* command read it, and the id was one the user passed; a live item that   *)
(* shares its id with a trashed one is never hit.                          *)
PurgesOnlyTrash ==
  [][\A c \in Cli : proc[c].phase = "call" /\ proc'[c] # proc[c] /\ proc[c].inv.request = "Purge"
       => /\ \A i \in DOMAIN server.files : server'.files[i] # File(i) =>
                 i \in proc[c].seen.files \/ File(i).at = "trash"
          /\ \A f \in DOMAIN server.folders : server'.folders[f] # Folder(f) => Folder(f).at = "trash"
     ]_<<server, commandVars>>

(* zip: "the caller never mistakes it for a usable archive", and download  *)
(* writes through a temporary file: a torn local file is one that a        *)
(* command still writes, one that a killed command left, or one that a     *)
(* failed download wrote in place, never a failed export's.  A file that   *)
(* Close did not finish is not so well kept: the archive stays, beside the *)
(* error, and so does the file of `shared download`; `versions download`   *)
(* leaves it and reports success.  No other command leaves one.            *)
TornIsExplained ==
  \A q \in DOMAIN disk :
    /\ disk[q] = Torn => \E c \in Cli :
         \/ proc[c].phase \in {"call", "killed"} /\ proc[c].inv.saves \in Direct
         \/ Busy1(c) /\ proc[c].failed > 0 /\ proc[c].inv.saves \in {"plain", "unchecked"}
    /\ disk[q] = Unclosed => \E c \in Cli :
         /\ Busy1(c)
         /\ \/ proc[c].inv.saves = "unchecked"
            \/ proc[c].failed > 0 /\ proc[c].inv.saves \in {"plain", "zip"}
=============================================================================
