------------------------------- MODULE FilesApi -------------------------------
(***************************************************************************)
(* internal/api as its callers see it: what each request asks the server   *)
(* to do, and how a request travels.  The server is not part of the        *)
(* repository: a request's effect is what the client's code and comments   *)
(* say of the endpoint, and the server may refuse any request.             *)
(*                                                                         *)
(* An operator for a request yields the set of its outcomes, each with the *)
(* server it leaves behind.  Files and folders are numbered apart, so that *)
(* a file and a folder may have the same id.                               *)
(***************************************************************************)
EXTENDS Integers, FiniteSets, Sequences

CONSTANTS
  Id,                \* ids, of files, of folders and of each kind of object
  Kind,              \* labels, links, grants and so on: one row store for all
  Name, Data,        \* names of files and folders, contents of files
  MaxTries,          \* attempts of one request: 1 + maxRetries
  MaxLost            \* bound: attempts that fail on the way

ASSUME IdAssumption    == Id \subseteq Nat \ {0} /\ IsFiniteSet(Id)
ASSUME TriesAssumption == MaxTries \in Nat \ {0} /\ MaxLost \in Nat
ASSUME KindAssumption  == {"label", "link", "grant", "inbound", "theirs", "photo"} \subseteq Kind
ASSUME NameAssumption  == Name # {} /\ Data # {}

VARIABLES
  server,            \* what the server holds: files, folders, objects
  lost               \* attempts lost so far

Root   == 0
Place  == {"live", "trash", "purged"}
FileRow   == [at : Place, folder : Id \cup {Root}, name : Name,
              data : Data, old : SUBSET Data, ver : Nat]
FolderRow == [at : Place, parent : Id \cup {Root}, name : Name]
Object    == [at : Place, ver : Nat]

AName     == CHOOSE n \in Name : TRUE
NoFile    == [at |-> "none", folder |-> Root, name |-> AName,
              data |-> CHOOSE d \in Data : TRUE, old |-> {}, ver |-> 0]
NoFolder  == [at |-> "none", parent |-> Root, name |-> AName]
RowAt(rows, i, no) == IF i \in DOMAIN rows THEN rows[i] ELSE no
File(i)   == RowAt(server.files, i, NoFile)
Folder(i) == RowAt(server.folders, i, NoFolder)
Live(i)   == File(i).at = "live"
Here(f)   == f = Root \/ Folder(f).at = "live"

-----------------------------------------------------------------------------
(* Outcomes.                                                               *)
Done(s)  == [ok |-> TRUE, server |-> s]
Refused  == [ok |-> FALSE, server |-> server]
May(can, s) == {Refused} \cup IF can THEN {Done(s)} ELSE {}

Put(f, k, v) == [q \in DOMAIN f \cup {k} |-> IF q = k THEN v ELSE f[q]]
WithFile(i, row)   == [server EXCEPT !.files = Put(@, i, row)]
WithFolder(i, row) == [server EXCEPT !.folders = Put(@, i, row)]
FreshFiles   == {i \in Id : File(i).at = "none"}
FreshFolders == {i \in Id : Folder(i).at = "none"}
Least(ids)   == CHOOSE i \in ids : \A j \in ids : i <= j

(* The folders in the subtree of a folder, and the files in them.          *)
Subtree(f) ==
  LET Grown[n \in 0 .. Cardinality(Id)] ==
        IF n = 0 THEN {f}
        ELSE Grown[n - 1] \cup {g \in Id : Folder(g).parent \in Grown[n - 1]}
  IN  Grown[Cardinality(Id)]
Moved(f, from, to) ==
  LET sub == Subtree(f) IN
  [server EXCEPT
     !.folders = [g \in DOMAIN @ |-> IF g \in sub /\ Folder(g).at = from
                                     THEN [Folder(g) EXCEPT !.at = to] ELSE Folder(g)],
     !.files = [i \in DOMAIN @ |-> IF File(i).folder \in sub /\ File(i).at = from
                                 THEN [File(i) EXCEPT !.at = to] ELSE File(i)]]

-----------------------------------------------------------------------------
(* Files.  A new row: an upload, a copy, an archive, an encrypted or       *)
(* decrypted file.                                                         *)
NewFile(name, folder, data) ==
  May(Here(folder) /\ FreshFiles # {},
      WithFile(Least(FreshFiles), [at |-> "live", folder |-> folder, name |-> name,
                                   data |-> data, old |-> {}, ver |-> 1]))
UploadFile(name, folder, data) == NewFile(name, folder, data)

(* The replaced bytes are archived as a version.                           *)
ReplaceFileContent(i, data) ==
  May(Live(i), WithFile(i, [File(i) EXCEPT !.data = data, !.ver = @ + 1,
                                           !.old = @ \cup {File(i).data}]))
RestoreFileVersion(i, data) ==
  May(Live(i) /\ data \in File(i).old,
      WithFile(i, [File(i) EXCEPT !.data = data, !.ver = @ + 1,
                                  !.old = @ \cup {File(i).data}]))

(* Optimistic concurrency: refused unless the version is the row's own.    *)
UpdateFile(i, name, folder, ver) ==
  May(Live(i) /\ File(i).ver = ver /\ Here(folder),
      WithFile(i, [File(i) EXCEPT !.name = name, !.folder = folder, !.ver = @ + 1]))

CopyFile(i, name, folder)      == IF Live(i) THEN NewFile(name, folder, File(i).data)
                                  ELSE {Refused}
EncryptFile(i, name, data)     == IF Live(i) THEN NewFile(name, File(i).folder, data)
                                  ELSE {Refused}
DecryptFile(i, name, data)     == EncryptFile(i, name, data)
EncryptFolder(f, name, data)   == IF Here(f) THEN NewFile(name, Folder(f).parent, data)
                                  ELSE {Refused}
CreateArchive(name, into, data) == NewFile(name, into, data)
SetFileLabels(i)               == May(Live(i), server)

(* Trash.  The server may purge or restore only what it has in the trash;  *)
(* of a file it is not said whether a live one is refused.                 *)
DeleteFile(i)      == May(Live(i), WithFile(i, [File(i) EXCEPT !.at = "trash"]))
RestoreFile(i)     == May(File(i).at = "trash", WithFile(i, [File(i) EXCEPT !.at = "live"]))
ForceDeleteFile(i) == May(File(i).at \in {"live", "trash"},
                          WithFile(i, [File(i) EXCEPT !.at = "purged"]))
EmptyFilesTrash ==
  LET Purge(row) == IF row.at = "trash" THEN [row EXCEPT !.at = "purged"] ELSE row
  IN  May(TRUE, [server EXCEPT !.files = [i \in DOMAIN @ |-> Purge(@[i])],
                               !.folders = [f \in DOMAIN @ |-> Purge(@[f])]])

(* Folders.  A move that would create a cycle is rejected.                 *)
CreateFolder(name, parent) ==
  May(Here(parent) /\ FreshFolders # {},
      WithFolder(Least(FreshFolders), [at |-> "live", parent |-> parent, name |-> name]))
RenameFolder(f, name) ==
  May(Folder(f).at = "live", WithFolder(f, [Folder(f) EXCEPT !.name = name]))
MoveFolder(f, parent) ==
  May(Folder(f).at = "live" /\ Here(parent) /\ parent \notin Subtree(f),
      WithFolder(f, [Folder(f) EXCEPT !.parent = parent]))
DeleteFolder(f)      == May(Folder(f).at = "live", Moved(f, "live", "trash"))
RestoreFolder(f)     == May(Folder(f).at = "trash", Moved(f, "trash", "live"))
ForceDeleteFolder(f) == May(Folder(f).at = "trash", Moved(f, "trash", "purged"))
ExtractArchive(i, name, into) == IF Live(i) THEN CreateFolder(name, into) ELSE {Refused}

(* Labels, public links, internal shares and their members, upload links,  *)
(* files inside another account's share: rows with a version.  Only a      *)
(* public link is updated under a version check.                           *)
Row(k, i)  == RowAt(server.objects, <<k, i>>, [at |-> "none", ver |-> 0])
WithRow(k, i, row) == [server EXCEPT !.objects = Put(@, <<k, i>>, row)]
FreshRows(k) == {i \in Id : Row(k, i).at = "none"}
CreateRow(k) ==
  May(FreshRows(k) # {}, WithRow(k, Least(FreshRows(k)), [at |-> "live", ver |-> 1]))
ChangeRow(k, i) ==
  May(Row(k, i).at = "live", WithRow(k, i, [Row(k, i) EXCEPT !.ver = @ + 1]))
DeleteRow(k, i) ==
  May(Row(k, i).at = "live", WithRow(k, i, [Row(k, i) EXCEPT !.at = "purged"]))

CreateLabel                   == CreateRow("label")
DeleteLabel(i)                == DeleteRow("label", i)
CreateFileShare               == CreateRow("link")
UpdateFileShare(i, ver)       == IF Row("link", i).ver = ver THEN ChangeRow("link", i)
                                 ELSE {Refused}
DeleteFileShare(i)            == DeleteRow("link", i)
CreateFolderShare             == CreateRow("grant")
UpdateFolderShareMember(i)    == ChangeRow("grant", i)
RemoveFolderShareMember(i)    == ChangeRow("grant", i)
DeleteFolderShare(i)          == DeleteRow("grant", i)
CreateUploadLink              == CreateRow("inbound")
DeleteUploadLink(i)           == DeleteRow("inbound", i)
SharedWithMeUpload            == CreateRow("theirs")
SharedWithMeRename(i)         == ChangeRow("theirs", i)
SharedWithMeDelete(i)         == DeleteRow("theirs", i)

(* Photos: rows of the same kind; a bulk delete takes what it finds.       *)
Photos == {i \in Id : Row("photo", i).at = "live"}
UploadPhoto == CreateRow("photo") \cup May(Photos # {}, server)
DeletePhotos(ids) ==
  LET hit == ids \cap Photos IN
  May(hit # {}, [server EXCEPT !.objects =
    [o \in DOMAIN @ |-> IF o[1] = "photo" /\ o[2] \in hit
                           THEN [@[o] EXCEPT !.at = "trash"] ELSE @[o]]])

(* Requests that only read, and what the listing shows: the path of a file *)
(* is put together from its folders.                                       *)
Reading == {Done(server), Refused}
Listed  == {i \in Id : Live(i)}
FolderParts(f) ==
  LET Up[n \in 0 .. Cardinality(Id)] ==
        [g \in Id \cup {Root} |->
           IF n = 0 \/ g = Root \/ ~Here(g) THEN << >>
           ELSE Append(Up[n - 1][Folder(g).parent], Folder(g).name)]
  IN  Up[Cardinality(Id)][f]
RelPath(i) == Append(FolderParts(File(i).folder), File(i).name)
FilesTrash == [files   |-> {i \in Id : File(i).at = "trash"},
               folders |-> {f \in Id : Folder(f).at = "trash"}]

-----------------------------------------------------------------------------
(* One attempt of retriableDo: the server carries the request out or       *)
(* refuses it and the answer arrives, or the attempt is lost, a timeout, a *)
(* reset or a gateway's 502, before or after the server had it.            *)
Answered(out) ==
  {[server |-> o.server, done |-> o.ok, answer |-> IF o.ok THEN "ok" ELSE "refused"]
     : o \in out}
Unanswered(out) ==
  {[server |-> o.server, done |-> o.ok, answer |-> "lost"] : o \in out \cup {Refused}}

Attempt(out, a) ==
  /\ \/ a \in Answered(out) /\ UNCHANGED lost
     \/ lost < MaxLost /\ a \in Unanswered(out) /\ lost' = lost + 1
  /\ server' = a.server

(* The loop of retriableDo goes on after a lost attempt until maxRetries.  *)
(* The variant counts one too many.                                        *)
RetriesOneMore(a, tries) == a.answer = "lost" /\ tries <= MaxTries
Retries(a, tries) == a.answer = "lost" /\ tries < MaxTries

Table(rows, ids, R) == DOMAIN rows \subseteq ids /\ \A i \in DOMAIN rows : rows[i] \in R
FilesTypeOK ==
  /\ DOMAIN server = {"files", "folders", "objects"}
  /\ Table(server.files, Id, FileRow)
  /\ Table(server.folders, Id, FolderRow)
  /\ Table(server.objects, Kind \X Id, Object)
  /\ lost \in 0 .. MaxLost
=============================================================================
