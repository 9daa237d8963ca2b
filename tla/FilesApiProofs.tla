---------------------------- MODULE FilesApiProofs ----------------------------
(***************************************************************************)
(* The account, for any ids, names and contents: what every request of     *)
(* internal/api leaves behind is an account again, and it only ever moves  *)
(* rows on; and what a folder's path is, and that it stays while clients   *)
(* only add.  The proofs of the commands, of the drive and of Explorer's   *)
(* menu rest on this.                                                      *)
(***************************************************************************)
EXTENDS FilesApi, TLAPS, WellFoundedInduction, FiniteSetTheorems

(* What the server holds is what its interface says; and a later row of a  *)
(* file has a higher version, or is the same but for where it lies: in the *)
(* folders, in the trash or nowhere.                                       *)
Rows(s) ==
  /\ DOMAIN s = {"files", "folders", "objects"}
  /\ Table(s.files, Id, FileRow) /\ Table(s.folders, Id, FolderRow)
  /\ Table(s.objects, Kind \X Id, Object)
Later(row, new) == new.ver > row.ver \/ new = [row EXCEPT !.at = new.at]
Forward(s) == \A i \in DOMAIN server.files :
                i \in DOMAIN s.files /\ Later(server.files[i], s.files[i])
RowsMoveOn == [][Forward(server')]_server

(* The outcomes of a request leave an account, and have moved on.          *)
Sound(out) == \A o \in out : Rows(o.server) /\ Forward(o.server)

LEMMA TypesAreRows == FilesTypeOK => Rows(server)
BY DEF FilesTypeOK, Rows

LEMMA RowsAre ==
  ASSUME Rows(server), NEW i
  PROVE  /\ File(i).at # "none" => /\ i \in DOMAIN server.files /\ i \in Id
                                   /\ File(i) = server.files[i] /\ File(i) \in FileRow
         /\ i \in DOMAIN server.files => File(i).at \in Place /\ File(i) = server.files[i]
         /\ Folder(i).at # "none" => /\ i \in DOMAIN server.folders /\ i \in Id
                                     /\ Folder(i) = server.folders[i] /\ Folder(i) \in FolderRow
         /\ i \in DOMAIN server.folders => Folder(i).at \in Place /\ Folder(i) = server.folders[i]
BY DEF Rows, Table, File, Folder, RowAt, NoFile, NoFolder, FileRow, FolderRow, Place

(* A file that is live is a row of the server.                             *)
LEMMA LiveIsRow ==
  ASSUME FilesTypeOK, NEW i, Live(i)
  PROVE  i \in DOMAIN server.files /\ File(i) = server.files[i] /\ File(i) \in FileRow
BY DEF FilesTypeOK, Table, Live, File, RowAt, NoFile

LEMMA ObjectsAre ==
  ASSUME Rows(server), NEW k, NEW i, Row(k, i).at # "none"
  PROVE  /\ <<k, i>> \in DOMAIN server.objects /\ k \in Kind /\ i \in Id
         /\ Row(k, i) = server.objects[<<k, i>>] /\ Row(k, i) \in Object
BY DEF Rows, Table, Row, RowAt

LEMMA StandsStill == ASSUME Rows(server) PROVE Rows(server) /\ Forward(server)
<1> SUFFICES ASSUME NEW i \in DOMAIN server.files
             PROVE  server.files[i] = [server.files[i] EXCEPT !.at = server.files[i].at]
  BY DEF Forward, Later
<1>1. server.files[i] \in FileRow BY DEF Rows, Table
<1> QED BY <1>1 DEF FileRow

LEMMA MayBeSound ==
  ASSUME Rows(server), NEW can, NEW s, can => Rows(s) /\ Forward(s)
  PROVE  Sound(May(can, s))
<1>1. ASSUME NEW o \in May(can, s) PROVE Rows(o.server) /\ Forward(o.server)
  <2>1. o = Refused \/ (can /\ o = Done(s)) BY DEF May
  <2>2. CASE o = Refused BY <2>2, StandsStill DEF Refused
  <2>3. CASE can /\ o = Done(s) BY <2>3 DEF Done
  <2> QED BY <2>1, <2>2, <2>3
<1> QED BY <1>1 DEF Sound

LEMMA MayIs ==
  ASSUME NEW can, NEW s, NEW o \in May(can, s)
  PROVE  o.server = server \/ (can /\ o.server = s)
BY DEF May, Refused, Done

LEMMA RefusedIsSound == ASSUME Rows(server) PROVE Sound({Refused})
BY StandsStill DEF Sound, Refused

(* The three tables of the account, changed in one row.                    *)
LEMMA FilePut ==
  ASSUME Rows(server), NEW i \in Id, NEW row \in FileRow,
         i \in DOMAIN server.files => Later(server.files[i], row)
  PROVE  Rows(WithFile(i, row)) /\ Forward(WithFile(i, row))
<1> DEFINE s == WithFile(i, row)
<1>1. /\ DOMAIN s = DOMAIN server /\ s.folders = server.folders /\ s.objects = server.objects
      /\ s.files = Put(server.files, i, row)
  BY DEF Rows, WithFile
<1> HIDE DEF s
<1>2. DOMAIN s.files = DOMAIN server.files \cup {i} /\ s.files[i] = row
      /\ \A j \in DOMAIN server.files \ {i} : s.files[j] = server.files[j]
  BY <1>1 DEF Put
<1>3. Rows(s) BY <1>1, <1>2 DEF Rows, Table
<1>4. ASSUME NEW j \in DOMAIN server.files \ {i} PROVE Later(server.files[j], s.files[j])
  BY <1>2, StandsStill DEF Forward
<1>5. Forward(s) BY <1>2, <1>4 DEF Forward
<1> QED BY <1>3, <1>5 DEF s

LEMMA FolderPut ==
  ASSUME Rows(server), NEW i \in Id, NEW row \in FolderRow
  PROVE  Rows(WithFolder(i, row)) /\ Forward(WithFolder(i, row))
<1> DEFINE s == WithFolder(i, row)
<1>1. /\ DOMAIN s = DOMAIN server /\ s.files = server.files /\ s.objects = server.objects
      /\ s.folders = Put(server.folders, i, row)
  BY DEF Rows, WithFolder
<1> HIDE DEF s
<1>2. Rows(s) BY <1>1 DEF Rows, Table, Put
<1>3. Forward(s) BY <1>1, StandsStill DEF Forward
<1> QED BY <1>2, <1>3 DEF s

LEMMA RowPut ==
  ASSUME Rows(server), NEW k \in Kind, NEW i \in Id, NEW row \in Object
  PROVE  Rows(WithRow(k, i, row)) /\ Forward(WithRow(k, i, row))
<1> DEFINE s == WithRow(k, i, row)
<1>1. /\ DOMAIN s = DOMAIN server /\ s.files = server.files /\ s.folders = server.folders
      /\ s.objects = Put(server.objects, <<k, i>>, row)
  BY DEF Rows, WithRow
<1> HIDE DEF s
<1>2. Rows(s) BY <1>1 DEF Rows, Table, Put
<1>3. Forward(s) BY <1>1, StandsStill DEF Forward
<1> QED BY <1>2, <1>3 DEF s

LEMMA LeastIsLeast ==
  ASSUME NEW ids, ids \subseteq Nat, ids # {}
  PROVE  Least(ids) \in ids /\ \A j \in ids : Least(ids) <= j
<1> DEFINE below == OpToRel(<, Nat)
<1>1. IsWellFoundedOn(below, Nat) /\ \A i, j \in Nat : j < i => <<j, i>> \in below
  BY NatLessThanWellFounded DEF OpToRel
<1> HIDE DEF below
<1>2. PICK i \in ids : \A j \in ids : <<j, i>> \notin below BY <1>1, WFMin
<1>3. ASSUME NEW j \in ids PROVE i <= j
  <2>1. i \in Nat /\ j \in Nat /\ ~(j < i) BY <1>1, <1>2
  <2> QED BY <2>1
<1> DEFINE least(k) == \A j \in ids : k <= j
<1>4. Least(ids) = CHOOSE k \in ids : least(k) BY DEF Least
<1>5. \E k \in ids : least(k) BY <1>3
<1> HIDE DEF least
<1>6. Least(ids) \in ids /\ least(Least(ids)) BY <1>4, <1>5
<1> QED BY <1>6 DEF least
LEMMA LeastOfIds == ASSUME NEW ids, ids \subseteq Nat, ids # {} PROVE Least(ids) \in ids
BY LeastIsLeast

-----------------------------------------------------------------------------
(* The requests.                                                           *)
LEMMA NewFileIsSound ==
  ASSUME Rows(server), NEW name \in Name, NEW folder, NEW data \in Data
  PROVE  Sound(NewFile(name, folder, data))
<1> DEFINE i   == Least(FreshFiles)
           row == [at |-> "live", folder |-> folder, name |-> name,
                   data |-> data, old |-> {}, ver |-> 1]
<1>1. ASSUME Here(folder), FreshFiles # {}
      PROVE  Rows(WithFile(i, row)) /\ Forward(WithFile(i, row))
  <2>1. FreshFiles \subseteq Id /\ FreshFiles \subseteq Nat BY IdAssumption DEF FreshFiles
  <2>2. i \in FreshFiles BY <1>1, <2>1, LeastOfIds
  <2> HIDE DEF i
  <2>3. i \in Id /\ i \notin DOMAIN server.files BY <2>2, RowsAre DEF FreshFiles, Place
  <2>4. folder \in Id \cup {Root} BY <1>1, RowsAre DEF Here
  <2>5. row \in FileRow BY <2>4 DEF FileRow, Place
  <2> QED BY <2>3, <2>5, FilePut
<1>2. Sound(May(Here(folder) /\ FreshFiles # {}, WithFile(i, row)))
  <2> HIDE DEF i, row
  <2> QED BY <1>1, MayBeSound
<1> QED BY <1>2 DEF NewFile

(* A live file gets a row of its own with a higher version, or lies        *)
(* elsewhere.                                                              *)
LEMMA RowChangeIsSound ==
  ASSUME Rows(server), NEW i, NEW can, NEW row,
         can => File(i).at # "none",
         can => row \in FileRow /\ Later(File(i), row)
  PROVE  Sound(May(can, WithFile(i, row)))
BY RowsAre, FilePut, MayBeSound

LEMMA UpdateIsSound ==
  ASSUME Rows(server), NEW i, NEW n, NEW folder, NEW ver, Live(i) => n \in Name
  PROVE  Sound(UpdateFile(i, n, folder, ver))
<1>1. ASSUME Live(i), Here(folder)
      PROVE  LET row == [File(i) EXCEPT !.name = n, !.folder = folder, !.ver = @ + 1]
             IN  row \in FileRow /\ Later(File(i), row)
  <2>1. File(i) \in FileRow /\ folder \in Id \cup {Root} BY <1>1, RowsAre DEF Here, Live
  <2>2. PICK r : r = File(i) OBVIOUS
  <2>3. r.ver \in Nat /\ r.ver + 1 > r.ver BY <2>1, <2>2 DEF FileRow
  <2>4. r \in FileRow BY <2>1, <2>2
  <2>5. [r EXCEPT !.name = n, !.folder = folder, !.ver = @ + 1] \in FileRow
    <3>1. PICK v \in Nat : v = r.ver + 1 BY <2>3
    <3>2. [r EXCEPT !.name = n] \in FileRow BY <1>1, <2>4 DEF FileRow
    <3>3. [[r EXCEPT !.name = n] EXCEPT !.folder = folder] \in FileRow
      BY <2>1, <3>2 DEF FileRow
    <3>4. [[[r EXCEPT !.name = n] EXCEPT !.folder = folder] EXCEPT !.ver = v] \in FileRow
      BY <3>1, <3>3 DEF FileRow
    <3> QED BY <2>4, <3>1, <3>4 DEF FileRow
  <2>6. [r EXCEPT !.name = n, !.folder = folder, !.ver = @ + 1].ver = r.ver + 1
    BY <2>4 DEF FileRow
  <2> QED BY <2>2, <2>3, <2>5, <2>6 DEF Later
<1> QED BY <1>1, RowChangeIsSound DEF UpdateFile, Live

LEMMA FileRequestsAreSound ==
  ASSUME Rows(server), NEW i, NEW name \in Name, NEW folder, NEW data \in Data, NEW ver
  PROVE  /\ Sound(ReplaceFileContent(i, data)) /\ Sound(RestoreFileVersion(i, data))
         /\ Sound(UpdateFile(i, name, folder, ver))
         /\ Sound(UpdateFile(i, name, File(i).folder, ver))
         /\ Sound(UpdateFile(i, File(i).name, folder, ver))
         /\ Sound(DeleteFile(i)) /\ Sound(RestoreFile(i)) /\ Sound(ForceDeleteFile(i))
         /\ Sound(SetFileLabels(i)) /\ Sound(CopyFile(i, name, folder))
         /\ Sound(EncryptFile(i, name, data)) /\ Sound(EncryptFolder(i, name, data))
<1>1. ASSUME NEW n, NEW f, Live(i) => n \in Name PROVE Sound(UpdateFile(i, n, f, ver))
  BY <1>1, UpdateIsSound
<1>2. Live(i) => File(i).name \in Name BY RowsAre DEF Live, FileRow
<1>3. ASSUME File(i).at # "none", NEW to \in Place
      PROVE  LET row == [File(i) EXCEPT !.at = to] IN row \in FileRow /\ Later(File(i), row)
  <2>1. File(i) \in FileRow BY <1>3, RowsAre
  <2> QED BY <2>1 DEF FileRow, Later
<1>4. Sound(DeleteFile(i)) BY <1>3, RowChangeIsSound DEF DeleteFile, Live, Place
<1>5. Sound(RestoreFile(i)) BY <1>3, RowChangeIsSound DEF RestoreFile, Place
<1>6. Sound(ForceDeleteFile(i)) BY <1>3, RowChangeIsSound DEF ForceDeleteFile, Place
<1>7. Sound(ReplaceFileContent(i, data)) /\ Sound(RestoreFileVersion(i, data))
  <2>1. ASSUME Live(i) PROVE
          LET row == [File(i) EXCEPT !.data = data, !.ver = @ + 1, !.old = @ \cup {File(i).data}]
          IN  row \in FileRow /\ Later(File(i), row)
    <3>1. PICK r \in FileRow : r = File(i) BY <2>1, RowsAre DEF Live
    <3>2. r.ver \in Nat /\ r.ver + 1 > r.ver BY DEF FileRow
    <3>3. [r EXCEPT !.data = data, !.ver = @ + 1, !.old = @ \cup {r.data}] \in FileRow
      <4>1. PICK v \in Nat : v = r.ver + 1 BY <3>2
      <4>2. PICK o \in SUBSET Data : o = r.old \cup {r.data} BY DEF FileRow
      <4>3. [r EXCEPT !.data = data] \in FileRow BY DEF FileRow
      <4>4. [[r EXCEPT !.data = data] EXCEPT !.ver = v] \in FileRow
        BY <4>1, <4>3 DEF FileRow
      <4>5. [[[r EXCEPT !.data = data] EXCEPT !.ver = v] EXCEPT !.old = o] \in FileRow
        BY <4>2, <4>4 DEF FileRow
      <4> QED BY <4>1, <4>2, <4>5 DEF FileRow
    <3>4. [r EXCEPT !.data = data, !.ver = @ + 1, !.old = @ \cup {r.data}].ver = r.ver + 1
      BY DEF FileRow
    <3> QED BY <3>1, <3>2, <3>3, <3>4 DEF Later
  <2> QED BY <2>1, RowChangeIsSound DEF ReplaceFileContent, RestoreFileVersion, Live
<1>8. Sound(SetFileLabels(i)) BY MayBeSound, StandsStill DEF SetFileLabels
<1>9. ASSUME Live(i) PROVE File(i).data \in Data BY <1>9, RowsAre DEF Live, FileRow
<1>10. Sound(CopyFile(i, name, folder))
  BY <1>9, NewFileIsSound, RefusedIsSound DEF CopyFile
<1>11. Sound(EncryptFile(i, name, data)) BY NewFileIsSound, RefusedIsSound DEF EncryptFile
<1>12. Sound(EncryptFolder(i, name, data))
  BY NewFileIsSound, RefusedIsSound DEF EncryptFolder
<1> QED BY <1>1, <1>2, <1>4, <1>5, <1>6, <1>7, <1>8, <1>10, <1>11, <1>12

(* Folders, with everything below them.                                    *)
LEMMA MovedIsSound ==
  ASSUME Rows(server), NEW f, NEW from, NEW to \in Place
  PROVE  Rows(Moved(f, from, to)) /\ Forward(Moved(f, from, to))
<1> DEFINE s == Moved(f, from, to)
<1>1. PICK sub : sub = Subtree(f) OBVIOUS
<1>2. /\ DOMAIN s = DOMAIN server /\ s.objects = server.objects
      /\ s.folders = [g \in DOMAIN server.folders |->
           IF g \in sub /\ Folder(g).at = from THEN [Folder(g) EXCEPT !.at = to] ELSE Folder(g)]
      /\ s.files = [i \in DOMAIN server.files |->
           IF File(i).folder \in sub /\ File(i).at = from THEN [File(i) EXCEPT !.at = to]
           ELSE File(i)]
  BY <1>1 DEF Rows, Moved
<1> HIDE DEF s
<1>3. ASSUME NEW i \in DOMAIN server.files
      PROVE  s.files[i] \in FileRow /\ Later(server.files[i], s.files[i])
  <2>1. File(i) = server.files[i] /\ server.files[i] \in FileRow
    BY RowsAre DEF Rows, Table
  <2>2. s.files[i] \in {File(i), [File(i) EXCEPT !.at = to]} BY <1>2
  <2>3. s.files[i] \in FileRow BY <2>1, <2>2 DEF FileRow
  <2>4. s.files[i] = [server.files[i] EXCEPT !.at = s.files[i].at]
    BY <2>1, <2>2 DEF FileRow
  <2> QED BY <2>3, <2>4 DEF Later
<1>4. ASSUME NEW g \in DOMAIN server.folders PROVE s.folders[g] \in FolderRow
  <2>1. Folder(g) \in FolderRow BY RowsAre DEF Rows, Table
  <2>2. s.folders[g] \in {Folder(g), [Folder(g) EXCEPT !.at = to]} BY <1>2
  <2> QED BY <2>1, <2>2 DEF FolderRow
<1>5. /\ DOMAIN s.files = DOMAIN server.files /\ DOMAIN s.folders = DOMAIN server.folders
  BY <1>2
<1>6. Rows(s) BY <1>2, <1>3, <1>4, <1>5 DEF Rows, Table
<1>7. Forward(s) BY <1>3, <1>5 DEF Forward
<1> QED BY <1>6, <1>7 DEF s

LEMMA FolderRequestsAreSound ==
  ASSUME Rows(server), NEW f, NEW name \in Name, NEW into
  PROVE  /\ Sound(CreateFolder(name, into)) /\ Sound(RenameFolder(f, name))
         /\ Sound(MoveFolder(f, into)) /\ Sound(DeleteFolder(f))
         /\ Sound(RestoreFolder(f)) /\ Sound(ForceDeleteFolder(f))
         /\ Sound(ExtractArchive(f, name, into))
<1>1. Sound(CreateFolder(name, into))
  <2> DEFINE g   == Least(FreshFolders)
             row == [at |-> "live", parent |-> into, name |-> name]
  <2>1. ASSUME Here(into), FreshFolders # {}
        PROVE  Rows(WithFolder(g, row)) /\ Forward(WithFolder(g, row))
    <3>1. FreshFolders \subseteq Id /\ FreshFolders \subseteq Nat
      BY IdAssumption DEF FreshFolders
    <3>2. g \in Id BY <2>1, <3>1, LeastOfIds
    <3>3. into \in Id \cup {Root} BY <2>1, RowsAre DEF Here
    <3>4. row \in FolderRow BY <3>3 DEF FolderRow, Place
    <3> HIDE DEF g, row
    <3> QED BY <3>2, <3>4, FolderPut
  <2>2. Sound(May(Here(into) /\ FreshFolders # {}, WithFolder(g, row)))
    <3> HIDE DEF g, row
    <3> QED BY <2>1, MayBeSound
  <2> QED BY <2>2 DEF CreateFolder
<1>2. ASSUME Folder(f).at = "live" PROVE f \in Id /\ Folder(f) \in FolderRow
  BY <1>2, RowsAre
<1>3. Sound(RenameFolder(f, name))
  <2>1. ASSUME Folder(f).at = "live" PROVE [Folder(f) EXCEPT !.name = name] \in FolderRow
    BY <1>2, <2>1 DEF FolderRow
  <2> QED BY <1>2, <2>1, FolderPut, MayBeSound DEF RenameFolder
<1>4. Sound(MoveFolder(f, into))
  <2>1. ASSUME Folder(f).at = "live", Here(into)
        PROVE  [Folder(f) EXCEPT !.parent = into] \in FolderRow
    <3>1. into \in Id \cup {Root} BY <2>1, RowsAre DEF Here
    <3> QED BY <1>2, <2>1, <3>1 DEF FolderRow
  <2>2. ASSUME Folder(f).at = "live", Here(into)
        PROVE  LET s == WithFolder(f, [Folder(f) EXCEPT !.parent = into])
               IN  Rows(s) /\ Forward(s)
    BY <1>2, <2>1, <2>2, FolderPut
  <2> QED BY <2>2, MayBeSound DEF MoveFolder
<1>5. Sound(DeleteFolder(f)) BY MovedIsSound, MayBeSound DEF DeleteFolder, Place
<1>6. Sound(RestoreFolder(f)) BY MovedIsSound, MayBeSound DEF RestoreFolder, Place
<1>7. Sound(ForceDeleteFolder(f)) BY MovedIsSound, MayBeSound DEF ForceDeleteFolder, Place
<1>8. Sound(ExtractArchive(f, name, into)) BY <1>1, RefusedIsSound DEF ExtractArchive
<1> QED BY <1>1, <1>3, <1>4, <1>5, <1>6, <1>7, <1>8

LEMMA EmptyTrashIsSound == ASSUME Rows(server) PROVE Sound(EmptyFilesTrash)
<1> DEFINE Purged(row) == IF row.at = "trash" THEN [row EXCEPT !.at = "purged"] ELSE row
           s == [server EXCEPT !.files = [i \in DOMAIN @ |-> Purged(@[i])],
                               !.folders = [f \in DOMAIN @ |-> Purged(@[f])]]
<1>1. /\ DOMAIN s = DOMAIN server /\ s.objects = server.objects
      /\ s.folders = [f \in DOMAIN server.folders |-> Purged(server.folders[f])]
      /\ s.files = [i \in DOMAIN server.files |-> Purged(server.files[i])]
  BY DEF Rows
<1>2. EmptyFilesTrash = May(TRUE, s) BY DEF EmptyFilesTrash
<1> HIDE DEF s
<1>3. ASSUME NEW i \in DOMAIN server.files
      PROVE  s.files[i] \in FileRow /\ Later(server.files[i], s.files[i])
  <2>1. server.files[i] \in FileRow BY DEF Rows, Table
  <2>2. s.files[i] \in {server.files[i], [server.files[i] EXCEPT !.at = "purged"]} BY <1>1
  <2>3. s.files[i] \in FileRow BY <2>1, <2>2 DEF FileRow, Place
  <2>4. s.files[i] = [server.files[i] EXCEPT !.at = s.files[i].at] BY <2>1, <2>2 DEF FileRow
  <2> QED BY <2>3, <2>4 DEF Later
<1>4. ASSUME NEW g \in DOMAIN server.folders PROVE s.folders[g] \in FolderRow
  <2>1. server.folders[g] \in FolderRow BY DEF Rows, Table
  <2>2. s.folders[g] \in {server.folders[g], [server.folders[g] EXCEPT !.at = "purged"]}
    BY <1>1
  <2> QED BY <2>1, <2>2 DEF FolderRow, Place
<1>5. DOMAIN s.files = DOMAIN server.files /\ DOMAIN s.folders = DOMAIN server.folders BY <1>1
<1>6. Rows(s) BY <1>1, <1>3, <1>4, <1>5 DEF Rows, Table
<1>7. Forward(s) BY <1>3, <1>5 DEF Forward
<1> QED BY <1>2, <1>6, <1>7, MayBeSound

(* Objects.                                                                *)
LEMMA ObjectRequestsAreSound ==
  ASSUME Rows(server), NEW k \in Kind, NEW i
  PROVE  Sound(CreateRow(k)) /\ Sound(ChangeRow(k, i)) /\ Sound(DeleteRow(k, i))
<1>1. ASSUME FreshRows(k) # {}
      PROVE  LET s == WithRow(k, Least(FreshRows(k)), [at |-> "live", ver |-> 1])
             IN  Rows(s) /\ Forward(s)
  <2>1. FreshRows(k) \subseteq Id /\ FreshRows(k) \subseteq Nat BY IdAssumption DEF FreshRows
  <2>2. Least(FreshRows(k)) \in Id BY <1>1, <2>1, LeastOfIds
  <2>3. [at |-> "live", ver |-> 1] \in Object BY DEF Object, Place
  <2> QED BY <2>2, <2>3, RowPut
<1>2. ASSUME Row(k, i).at = "live"
      PROVE  /\ LET s == WithRow(k, i, [Row(k, i) EXCEPT !.ver = @ + 1])
                IN  Rows(s) /\ Forward(s)
             /\ LET s == WithRow(k, i, [Row(k, i) EXCEPT !.at = "purged"])
                IN  Rows(s) /\ Forward(s)
  <2>1. i \in Id /\ Row(k, i) \in Object BY <1>2, ObjectsAre
  <2>2. PICK r \in Object : r = Row(k, i) BY <2>1
  <2>3. [r EXCEPT !.ver = @ + 1] \in Object /\ [r EXCEPT !.at = "purged"] \in Object
    BY DEF Object, Place
  <2> QED BY <2>1, <2>2, <2>3, RowPut
<1>3. Sound(CreateRow(k)) BY <1>1, MayBeSound DEF CreateRow
<1>4. Sound(ChangeRow(k, i)) BY <1>2, MayBeSound DEF ChangeRow
<1>5. Sound(DeleteRow(k, i)) BY <1>2, MayBeSound DEF DeleteRow
<1> QED BY <1>3, <1>4, <1>5

LEMMA PhotosAreSound == ASSUME Rows(server), NEW ids PROVE Sound(DeletePhotos(ids))
<1> DEFINE hit == ids \cap Photos
           s == [server EXCEPT !.objects =
                  [o \in DOMAIN @ |-> IF o[1] = "photo" /\ o[2] \in hit
                                      THEN [@[o] EXCEPT !.at = "trash"] ELSE @[o]]]
<1>1. DeletePhotos(ids) = May(hit # {}, s) BY DEF DeletePhotos
<1> HIDE DEF hit
<1>2. /\ DOMAIN s = DOMAIN server /\ s.files = server.files /\ s.folders = server.folders
      /\ s.objects = [o \in DOMAIN server.objects |->
           IF o[1] = "photo" /\ o[2] \in hit THEN [server.objects[o] EXCEPT !.at = "trash"]
           ELSE server.objects[o]]
  BY DEF Rows
<1> HIDE DEF s
<1>3. ASSUME NEW o \in DOMAIN server.objects PROVE s.objects[o] \in Object
  <2>1. server.objects[o] \in Object BY DEF Rows, Table
  <2>2. s.objects[o] \in {server.objects[o], [server.objects[o] EXCEPT !.at = "trash"]}
    BY <1>2
  <2> QED BY <2>1, <2>2 DEF Object, Place
<1>4. Rows(s) BY <1>2, <1>3 DEF Rows, Table
<1>5. Forward(s) BY <1>2, StandsStill DEF Forward
<1> QED BY <1>1, <1>4, <1>5, MayBeSound

-----------------------------------------------------------------------------
(* What an answer says of the server.                                      *)
LEMMA AttemptIs ==
  ASSUME NEW out, NEW a \in Answered(out) \cup Unanswered(out), Attempt(out, a)
  PROVE  /\ server' = server \/ \E o \in out : server' = o.server
         /\ a.answer = "ok" => \E o \in out : o.ok
<1>1. ASSUME NEW o \in out \cup {Refused}, server' = o.server
      PROVE  server' = server \/ \E u \in out : server' = u.server
  BY <1>1 DEF Refused
<1>2. CASE a \in Answered(out)
  <2>1. PICK o \in out : a = [server |-> o.server, done |-> o.ok,
                              answer |-> IF o.ok THEN "ok" ELSE "refused"]
    BY <1>2 DEF Answered
  <2> QED BY <1>1, <2>1 DEF Attempt
<1>3. CASE a \in Unanswered(out)
  <2>1. PICK o \in out \cup {Refused} : a = [server |-> o.server, done |-> o.ok,
                                             answer |-> "lost"]
    BY <1>3 DEF Unanswered
  <2> QED BY <1>1, <2>1 DEF Attempt
<1> QED BY <1>2, <1>3
-----------------------------------------------------------------------------
(* A set of numbers that holds 0, and with each number below N the next    *)
(* one, holds all up to N.                                                 *)
LEMMA UpToLast ==
  ASSUME NEW N \in Nat, NEW good, 0 \in good,
         \A n \in 1 .. N : n - 1 \in good => n \in good
  PROVE  \A n \in 0 .. N : n \in good
<1> DEFINE bad   == {n \in 0 .. N : n \notin good}
           below == OpToRel(<, Nat)
<1>1. IsWellFoundedOn(below, Nat) /\ \A i, j \in Nat : j < i => <<j, i>> \in below
  BY NatLessThanWellFounded DEF OpToRel
<1>2. bad \subseteq Nat OBVIOUS
<1>3. \A n \in bad : n \in 1 .. N /\ n - 1 \in bad OBVIOUS
<1> HIDE DEF below, bad
<1>4. ASSUME bad # {} PROVE FALSE
  <2>1. PICK n \in bad : \A k \in bad : <<k, n>> \notin below BY <1>1, <1>2, <1>4, WFMin
  <2>2. n - 1 \in bad /\ n \in Nat /\ n - 1 \in Nat /\ n - 1 < n BY <1>2, <1>3, <2>1
  <2>3. <<n - 1, n>> \in below BY <1>1, <2>2
  <2> QED BY <2>1, <2>2, <2>3
<1> QED BY <1>4 DEF bad

(* The paths of folders, n steps up: where a climb stops, the path is      *)
(* empty, and elsewhere it is the parent's with one name more.             *)
Climbing(up, C, S, stop, parent, name, N) ==
  /\ up \in [0 .. C -> [S -> Seq(N)]]
  /\ \A n \in 0 .. C, g \in S :
       up[n][g] = IF n = 0 \/ g \in stop THEN << >>
                  ELSE Append(up[n - 1][parent[g]], name[g])
FolderIds == Id \cup {Root}
Stops     == {g \in FolderIds : g = Root \/ ~Here(g)}

LEMMA ClimbsExist ==
  ASSUME NEW C \in Nat, NEW S, NEW stop, NEW parent, NEW name, NEW N,
         \A g \in S \ stop : parent[g] \in S /\ name[g] \in N
  PROVE  \E up : Climbing(up, C, S, stop, parent, name, N)
<1> DEFINE step(up, n, g) == IF n = 0 \/ g \in stop THEN << >>
                             ELSE Append(up[n - 1][parent[g]], name[g])
           climbs(up, n) == /\ up \in [0 .. n -> [S -> Seq(N)]]
                            /\ \A k \in 0 .. n, g \in S : up[k][g] = step(up, k, g)
           good == {n \in 0 .. C : \E up : climbs(up, n)}
<1>1. 0 \in good
  <2>1. climbs([n \in 0 .. 0 |-> [g \in S |-> << >>]], 0) OBVIOUS
  <2> HIDE DEF climbs
  <2> QED BY <2>1
<1>2. ASSUME NEW n \in 1 .. C, n - 1 \in good PROVE n \in good
  <2>1. PICK up : climbs(up, n - 1) BY <1>2
  <2>2. up \in [0 .. n - 1 -> [S -> Seq(N)]] /\ n - 1 \in 0 .. n - 1 BY <2>1
  <2> DEFINE last == [g \in S |-> step(up, n, g)]
             next == [k \in 0 .. n |-> IF k < n THEN up[k] ELSE last]
  <2>3. last \in [S -> Seq(N)]
    <3>1. ASSUME NEW g \in S PROVE step(up, n, g) \in Seq(N)
      <4>1. CASE g \in stop BY <4>1
      <4>2. CASE g \notin stop
        <5>1. up[n - 1][parent[g]] \in Seq(N) /\ name[g] \in N BY <2>2, <4>2
        <5> QED BY <4>2, <5>1
      <4> QED BY <4>1, <4>2
    <3> HIDE DEF step
    <3> QED BY <3>1
  <2>4. /\ next \in [0 .. n -> [S -> Seq(N)]] /\ next[n] = last
        /\ \A k \in 0 .. n - 1 : next[k] = up[k]
    <3> HIDE DEF last
    <3> QED BY <2>2, <2>3
  <2> HIDE DEF next
  <2>5. ASSUME NEW k \in 0 .. n, NEW g \in S PROVE next[k][g] = step(next, k, g)
    <3>1. CASE k = n BY <2>2, <2>4, <3>1
    <3>2. CASE k < n
      <4>1. k \in 0 .. n - 1 /\ (k # 0 => k - 1 \in 0 .. n - 1) BY <3>2
      <4>2. next[k] = up[k] /\ (k # 0 => next[k - 1] = up[k - 1]) BY <2>4, <4>1
      <4>3. up[k][g] = step(up, k, g)
        <5> HIDE DEF step
        <5> QED BY <2>1, <4>1
      <4> QED BY <4>2, <4>3
    <3> QED BY <3>1, <3>2
  <2>6. climbs(next, n) BY <2>4, <2>5
  <2> HIDE DEF climbs
  <2> QED BY <2>6
<1>3. C \in good
  <2> HIDE DEF good
  <2>1. \A n \in 1 .. C : n - 1 \in good => n \in good BY <1>2
  <2>2. \A n \in 0 .. C : n \in good BY <1>1, <2>1, UpToLast
  <2> QED BY <2>2
<1>4. PICK up : climbs(up, C) BY <1>3
<1> QED BY <1>4 DEF Climbing

Climb(up) ==
  /\ up \in [0 .. Cardinality(Id) -> [FolderIds -> Seq(Name)]]
  /\ \A n \in 0 .. Cardinality(Id), g \in FolderIds :
       up[n][g] = IF n = 0 \/ g \in Stops THEN << >>
                  ELSE Append(up[n - 1][Folder(g).parent], Folder(g).name)
FolderPaths == \E up : Climb(up) /\ \A f \in FolderIds : FolderParts(f) = up[Cardinality(Id)][f]

(* FolderParts is well defined, and it is this climb.                      *)
LEMMA FoldersHavePaths == Rows(server) => FolderPaths
<1> SUFFICES ASSUME Rows(server) PROVE FolderPaths OBVIOUS
<1> DEFINE C == Cardinality(Id)
<1>0. C \in Nat BY IdAssumption, FS_CardinalityType
<1>1. ASSUME NEW g \in FolderIds, g \notin Stops
      PROVE  Folder(g).parent \in FolderIds /\ Folder(g).name \in Name
  <2>1. Folder(g).at = "live" BY <1>1 DEF Stops, Here
  <2>2. Folder(g) \in FolderRow BY <2>1, RowsAre
  <2> QED BY <2>2 DEF FolderRow, FolderIds
<1> DEFINE parent == [g \in FolderIds |-> Folder(g).parent]
           name   == [g \in FolderIds |-> Folder(g).name]
<1>2. PICK up : Climbing(up, C, FolderIds, Stops, parent, name, Name)
  <2>1. \A g \in FolderIds \ Stops : parent[g] \in FolderIds /\ name[g] \in Name BY <1>1
  <2> HIDE DEF parent, name
  <2> HIDE DEF C
  <2> QED BY <1>0, <2>1, ClimbsExist
<1> DEFINE solves(u) ==
      u = [n \in 0 .. Cardinality(Id) |->
             [g \in Id \cup {Root} |->
                IF n = 0 \/ g = Root \/ ~Here(g) THEN << >>
                ELSE Append(u[n - 1][Folder(g).parent], Folder(g).name)]]
<1>3. solves(up)
  <2>1. \A n \in 0 .. C, g \in FolderIds :
          up[n][g] = IF n = 0 \/ g = Root \/ ~Here(g) THEN << >>
                     ELSE Append(up[n - 1][Folder(g).parent], Folder(g).name)
    BY <1>2 DEF Stops, Climbing
  <2>2. \A n \in 0 .. C : up[n] = [g \in FolderIds |-> up[n][g]] BY <1>2 DEF Climbing
  <2> QED BY <1>2, <2>1, <2>2 DEF FolderIds, Climbing
<1> DEFINE u == CHOOSE u : solves(u)
<1>4. solves(u) BY <1>3
<1>5. \A f : FolderParts(f) = u[C][f] BY DEF FolderParts
<1> HIDE DEF u
<1> DEFINE step(n, g) == IF n = 0 \/ g = Root \/ ~Here(g) THEN << >>
                         ELSE Append(u[n - 1][Folder(g).parent], Folder(g).name)
<1>6. \A n \in 0 .. C, g \in FolderIds :
        u[n][g] = IF n = 0 \/ g \in Stops THEN << >>
                  ELSE Append(u[n - 1][Folder(g).parent], Folder(g).name)
  <2>1. u = [n \in 0 .. C |-> [g \in FolderIds |-> step(n, g)]] BY <1>4 DEF FolderIds
  <2>2. \A n \in 0 .. C, g \in FolderIds : u[n][g] = step(n, g)
    <3> HIDE DEF step
    <3> QED BY <2>1
  <2> QED BY <2>2 DEF Stops
<1> HIDE DEF step
<1>7. u \in [0 .. C -> [FolderIds -> Seq(Name)]]
  <2> DEFINE typed == {n \in 0 .. C : u[n] \in [FolderIds -> Seq(Name)]}
  <2>1. \A n \in 0 .. C : u[n] = [g \in FolderIds |-> u[n][g]] BY <1>4 DEF FolderIds
  <2>2. ASSUME NEW n \in 0 .. C, \A g \in FolderIds : u[n][g] \in Seq(Name) PROVE n \in typed
    BY <2>1, <2>2
  <2>3. 0 \in typed
    <3>1. 0 \in 0 .. C BY <1>0
    <3>2. \A g \in FolderIds : u[0][g] = << >> BY <1>6, <3>1
    <3>3. << >> \in Seq(Name) OBVIOUS
    <3> QED BY <2>2, <3>1, <3>2, <3>3
  <2>4. ASSUME NEW n \in 1 .. C, n - 1 \in typed PROVE n \in typed
    <3>1. n \in 0 .. C /\ n # 0 BY <1>0
    <3>2. ASSUME NEW g \in FolderIds PROVE u[n][g] \in Seq(Name)
      <4>1. CASE g \in Stops 
        <5>1. u[n][g] = << >> BY <1>6, <3>1, <4>1
        <5> QED BY <5>1
      <4>2. CASE g \notin Stops
        <5>1. Folder(g).parent \in FolderIds /\ Folder(g).name \in Name BY <1>1, <4>2
        <5>2. u[n - 1][Folder(g).parent] \in Seq(Name) BY <2>4, <5>1
        <5>3. u[n][g] = Append(u[n - 1][Folder(g).parent], Folder(g).name)
          BY <1>6, <3>1, <4>2
        <5> QED BY <5>1, <5>2, <5>3
      <4> QED BY <4>1, <4>2
    <3> QED BY <2>2, <3>1, <3>2
  <2> HIDE DEF typed
  <2>5. \A n \in 1 .. C : n - 1 \in typed => n \in typed BY <2>4
  <2>6. \A n \in 0 .. C : n \in typed BY <1>0, <2>3, <2>5, UpToLast
  <2> QED BY <1>4, <2>6 DEF typed
<1> QED BY <1>5, <1>6, <1>7 DEF FolderPaths, Climb

LEMMA FoldersWillHavePaths == Rows(server)' => FolderPaths'
  BY FoldersHavePaths, PTL

-----------------------------------------------------------------------------
(* The tree.  A live folder lies in one that is known, and no folder lies  *)
(* below itself: there is a depth that grows on the way down, no larger    *)
(* than there are folders.                                                 *)
Extant  == {f \in Id : Folder(f).at # "none"}
Depths(depth) ==
  /\ depth \in [FolderIds -> 0 .. Cardinality(Extant)]
  /\ \A f \in Extant : Folder(f).at = "live" =>
       Folder(f).parent \in Extant \cup {Root} /\ depth[Folder(f).parent] < depth[f]
Rooted == \E depth : Depths(depth)

LEMMA ExtantIsFinite ==
  IsFiniteSet(Extant) /\ Cardinality(Extant) \in Nat /\ Cardinality(Extant) <= Cardinality(Id)
  /\ Cardinality(Id) \in Nat
<1>1. Extant \subseteq Id BY DEF Extant
<1> QED BY <1>1, IdAssumption, FS_Subset, FS_CardinalityType

(* The path of a folder is its parent's with its name: n steps up are      *)
(* enough for what lies at most n deep.                                    *)
LEMMA PathsGrow ==
  ASSUME Rows(server), Rooted, NEW f \in Id, Folder(f).at = "live"
  PROVE  /\ Folder(f).parent \in FolderIds
         /\ FolderParts(f) = Append(FolderParts(Folder(f).parent), Folder(f).name)
<1> DEFINE C == Cardinality(Id)
<1>0. C \in Nat /\ Cardinality(Extant) <= C /\ Cardinality(Extant) \in Nat BY ExtantIsFinite
<1>1. PICK up : Climb(up) /\ \A g \in FolderIds : FolderParts(g) = up[C][g]
  BY FoldersHavePaths DEF FolderPaths
<1>2. PICK depth : Depths(depth) BY DEF Rooted
<1>3. \A g \in FolderIds : depth[g] \in Nat /\ depth[g] <= C
  <2>1. ASSUME NEW g \in FolderIds PROVE depth[g] \in Nat /\ depth[g] <= C
    <3>1. depth[g] \in 0 .. Cardinality(Extant) BY <1>2 DEF Depths
    <3> QED BY <1>0, <3>1
  <2> QED BY <2>1
<1>4. ASSUME NEW g \in FolderIds \ Stops
      PROVE  /\ g \in Extant /\ Folder(g).parent \in FolderIds
             /\ depth[Folder(g).parent] < depth[g]
  <2>1. g \in Id /\ Folder(g).at = "live" BY DEF Stops, Here, FolderIds
  <2> QED BY <1>2, <2>1 DEF Extant, Depths, FolderIds
<1> DEFINE enough == {n \in 0 .. C : n < C =>
                        \A g \in FolderIds : depth[g] <= n => up[n + 1][g] = up[n][g]}
<1>5. \A n \in 0 .. C : n \in enough
  <2>1. ASSUME NEW n \in 0 .. C, n < C, NEW g \in FolderIds, g \in Stops
        PROVE  up[n + 1][g] = up[n][g]
    <3>1. n + 1 \in 0 .. C BY <1>0, <2>1
    <3>2. up[n + 1][g] = << >> BY <1>1, <2>1, <3>1 DEF Climb
    <3>3. up[n][g] = << >> BY <1>1, <2>1 DEF Climb
    <3> QED BY <3>2, <3>3
  <2>2. 0 \in enough
    <3>1. ASSUME 0 < C, NEW g \in FolderIds, depth[g] <= 0 PROVE up[0 + 1][g] = up[0][g]
      <4>1. g \in Stops
        <5>1. ASSUME g \notin Stops PROVE FALSE
          <6>1. depth[Folder(g).parent] < depth[g] /\ Folder(g).parent \in FolderIds
            BY <1>4, <5>1
          <6>2. depth[Folder(g).parent] \in Nat /\ depth[g] \in Nat BY <1>3, <6>1
          <6> QED BY <3>1, <6>1, <6>2
        <5> QED BY <5>1
      <4> QED BY <1>0, <2>1, <3>1, <4>1
    <3> QED BY <1>0, <3>1
  <2>3. ASSUME NEW n \in 1 .. C, n - 1 \in enough PROVE n \in enough
    <3>1. ASSUME n < C, NEW g \in FolderIds, depth[g] <= n PROVE up[n + 1][g] = up[n][g]
      <4>1. CASE g \in Stops BY <2>1, <3>1, <4>1
      <4>2. CASE g \notin Stops
        <5>1. PICK h \in FolderIds : h = Folder(g).parent /\ depth[h] < depth[g]
          BY <1>4, <4>2
        <5>2. depth[h] <= n - 1 /\ n - 1 \in 0 .. C /\ n - 1 < C /\ (n - 1) + 1 = n
          <6>1. depth[h] \in Nat /\ depth[g] \in Nat BY <1>3
          <6> QED BY <1>0, <3>1, <5>1, <6>1
        <5>3. up[n][h] = up[n - 1][h] BY <2>3, <5>2
        <5>4. n + 1 \in 0 .. C /\ n + 1 # 0 /\ (n + 1) - 1 = n BY <1>0, <3>1
        <5>5. up[n + 1][g] = Append(up[n][h], Folder(g).name)
          <6>1. PICK m \in 0 .. C : m = n + 1 /\ m # 0 /\ m - 1 = n BY <5>4
          <6>2. up[m][g] = Append(up[m - 1][Folder(g).parent], Folder(g).name)
            BY <1>1, <4>2, <6>1 DEF Climb
          <6> QED BY <5>1, <6>1, <6>2
        <5>6. up[n][g] = Append(up[n - 1][h], Folder(g).name)
          <6>1. n \in 0 .. C /\ n # 0 BY <1>0
          <6> QED BY <1>1, <4>2, <5>1, <6>1 DEF Climb
        <5> QED BY <5>3, <5>5, <5>6
      <4> QED BY <4>1, <4>2
    <3>2. n \in 0 .. C BY <1>0
    <3> QED BY <3>1, <3>2
  <2> HIDE DEF enough
  <2>4. \A n \in 1 .. C : n - 1 \in enough => n \in enough BY <2>3
  <2> QED BY <1>0, <2>2, <2>4, UpToLast
<1>6. f \in FolderIds /\ f \notin Stops
  <2>1. f # Root BY IdAssumption DEF Root
  <2> QED BY <2>1 DEF Stops, Here, FolderIds
<1>7. PICK h \in FolderIds : h = Folder(f).parent /\ depth[h] < depth[f] BY <1>4, <1>6
<1>8. C # 0 /\ C - 1 \in 0 .. C /\ C - 1 < C /\ (C - 1) + 1 = C /\ depth[h] <= C - 1
  <2>1. depth[h] \in Nat /\ depth[f] \in Nat /\ depth[f] <= C BY <1>3, <1>6
  <2> QED BY <1>0, <1>7, <2>1
<1>9. C - 1 \in enough BY <1>5, <1>8
<1>10. up[C][h] = up[C - 1][h] BY <1>8, <1>9
<1>11. up[C][f] = Append(up[C - 1][h], Folder(f).name)
  <2>1. C \in 0 .. C BY <1>0
  <2> QED BY <1>1, <1>6, <1>7, <1>8, <2>1 DEF Climb
<1>12. FolderParts(f) = up[C][f] /\ FolderParts(h) = up[C][h] BY <1>1, <1>6
<1> QED BY <1>7, <1>10, <1>11, <1>12

LEMMA PathsWillGrow ==
  \A f \in Id : (Rows(server) /\ Rooted /\ Folder(f).at = "live")' =>
       /\ (Folder(f).parent \in FolderIds)'
       /\ (FolderParts(f) = Append(FolderParts(Folder(f).parent), Folder(f).name))'
<1> DEFINE grows == \A f \in Id : Rows(server) /\ Rooted /\ Folder(f).at = "live" =>
       /\ Folder(f).parent \in FolderIds
       /\ FolderParts(f) = Append(FolderParts(Folder(f).parent), Folder(f).name)
<1>1. grows BY PathsGrow
<1> HIDE DEF grows
<1>2. grows' BY <1>1, PTL
<1> QED BY <1>2 DEF grows

(* What a client that only adds leaves alone: known folders and live       *)
(* files.  Paths stay, then.                                               *)
Undisturbed ==
  /\ \A f \in Extant : Folder(f)' = Folder(f)
  /\ \A i \in Id : Live(i) => File(i)' = File(i)
LEMMA PathsStay ==
  ASSUME Rows(server), Rows(server)', Rooted, Undisturbed, NEW f \in FolderIds, Here(f)
  PROVE  Here(f)' /\ FolderParts(f)' = FolderParts(f)
<1> DEFINE C == Cardinality(Id)
           settled == Extant \cup {Root}
<1>0. C \in Nat BY ExtantIsFinite
<1>1. PICK up : Climb(up) /\ \A g \in FolderIds : FolderParts(g) = up[C][g]
  BY FoldersHavePaths DEF FolderPaths
<1>2. PICK new : Climb(new)' /\ \A g \in FolderIds : FolderParts(g)' = new[C][g]
  <2>1. FolderPaths' BY FoldersWillHavePaths
  <2> QED BY <2>1 DEF FolderPaths, FolderIds
<1>3. \A g \in settled : g \in FolderIds /\ (g \in Stops <=> (g \in Stops)')
  <2>1. ASSUME NEW g \in Extant PROVE g \in FolderIds /\ (g \in Stops <=> (g \in Stops)')
    <3>1. Folder(g)' = Folder(g) BY DEF Undisturbed
    <3> QED BY <3>1 DEF Stops, Here, FolderIds, Extant
  <2>2. Root \in FolderIds /\ Root \in Stops /\ (Root \in Stops)' BY DEF Stops, FolderIds
  <2> QED BY <2>1, <2>2
<1>4. ASSUME NEW g \in settled, g \notin Stops
      PROVE  /\ Folder(g).parent \in settled /\ Folder(g)' = Folder(g)
  <2>1. g \in Extant /\ Folder(g).at = "live" BY <1>4 DEF Stops, Here, FolderIds, Extant
  <2>2. Folder(g).parent \in settled BY <2>1 DEF Rooted, Depths
  <2> QED BY <2>1, <2>2 DEF Undisturbed
<1> DEFINE same == {n \in 0 .. C : \A g \in settled : new[n][g] = up[n][g]}
<1>5. \A n \in 0 .. C : n \in same
  <2>1. 0 \in same
    <3>1. 0 \in 0 .. C BY <1>0
    <3>2. \A g \in settled : up[0][g] = << >> BY <1>1, <1>3, <3>1 DEF Climb
    <3>3. \A g \in settled : new[0][g] = << >> BY <1>2, <1>3, <3>1 DEF Climb, FolderIds
    <3> QED BY <3>1, <3>2, <3>3
  <2>2. ASSUME NEW n \in 1 .. C, n - 1 \in same PROVE n \in same
    <3>1. n \in 0 .. C /\ n # 0 BY <1>0
    <3>2. ASSUME NEW g \in settled PROVE new[n][g] = up[n][g]
      <4>1. CASE g \in Stops
        <5>1. up[n][g] = << >> BY <1>1, <1>3, <3>1, <4>1 DEF Climb
        <5>2. g \in FolderIds /\ (g \in Stops)' BY <1>3, <4>1
        <5>3. new[n][g] = << >> BY <1>2, <3>1, <5>2 DEF Climb, FolderIds
        <5> QED BY <5>1, <5>3
      <4>2. CASE g \notin Stops
        <5>1. up[n][g] = Append(up[n - 1][Folder(g).parent], Folder(g).name)
          BY <1>1, <1>3, <3>1, <4>2 DEF Climb
        <5>2. g \in FolderIds /\ ~(g \in Stops)' BY <1>3, <4>2
        <5>3. new[n][g] = Append(new[n - 1][Folder(g).parent], Folder(g).name)
          <6>1. new[n][g] = Append(new[n - 1][Folder(g)'.parent], Folder(g)'.name)
            BY <1>2, <3>1, <5>2 DEF Climb, FolderIds
          <6> QED BY <1>4, <4>2, <6>1
        <5>4. new[n - 1][Folder(g).parent] = up[n - 1][Folder(g).parent]
          BY <1>4, <2>2, <4>2
        <5> QED BY <5>1, <5>3, <5>4
      <4> QED BY <4>1, <4>2
    <3> QED BY <3>1, <3>2
  <2> HIDE DEF same
  <2>3. \A n \in 1 .. C : n - 1 \in same => n \in same BY <2>2
  <2> QED BY <1>0, <2>1, <2>3, UpToLast
<1>6. f \in settled BY DEF Here, Extant, FolderIds
<1>7. C \in same
  <2>1. C \in 0 .. C BY <1>0
  <2> QED BY <1>5, <2>1
<1>8. new[C][f] = up[C][f] BY <1>6, <1>7
<1>9. Here(f)'
  <2>1. CASE f = Root BY <2>1 DEF Here
  <2>2. CASE f # Root
    <3>1. f \in Extant /\ Folder(f).at = "live" BY <2>2 DEF Here, Extant, FolderIds
    <3>2. Folder(f)' = Folder(f) BY <3>1 DEF Undisturbed
    <3> QED BY <3>1, <3>2 DEF Here
  <2> QED BY <2>1, <2>2
<1> QED BY <1>1, <1>2, <1>8, <1>9

(* A request that only adds: a new file, a new folder, a new object.  The  *)
(* tree stays a tree.                                                      *)
Grown(s) ==
  /\ Rows(s)
  /\ \/ s.folders = server.folders
     \/ \E f \in FreshFolders, row \in FolderRow :
          s.folders = Put(server.folders, f, row) /\ row.at = "live" /\ Here(row.parent)
  /\ \/ s.files = server.files
     \/ \E i \in FreshFiles, row \in FileRow : s.files = Put(server.files, i, row)
LEMMA GrownKeeps ==
  ASSUME Rows(server), Rooted, Grown(server')
  PROVE  Rows(server)' /\ Rooted' /\ Undisturbed
<1>1. Rows(server)' BY DEF Grown, Rows
<1>2. \A g \in DOMAIN server.folders : g \in Id /\ Folder(g) = server.folders[g]
  BY DEF Rows, Table, Folder, RowAt
<1>3. Extant = DOMAIN server.folders
  <2>1. \A g \in DOMAIN server.folders : Folder(g).at # "none" BY RowsAre DEF Place
  <2>2. \A g \in Id : Folder(g).at # "none" => g \in DOMAIN server.folders BY RowsAre
  <2> QED BY <1>2, <2>1, <2>2 DEF Extant
<1>4. \A i \in Id : Live(i) => File(i)' = File(i)
  <2>1. ASSUME NEW i \in Id, Live(i) PROVE File(i)' = File(i)
    <3>1. i \in DOMAIN server.files /\ File(i) = server.files[i] BY <2>1, RowsAre DEF Live
    <3>2. i \notin FreshFiles BY <2>1 DEF FreshFiles, Live
    <3>3. i \in DOMAIN server'.files /\ server'.files[i] = server.files[i]
      BY <3>1, <3>2 DEF Grown, Put
    <3> QED BY <3>1, <3>3 DEF File, RowAt
  <2> QED BY <2>1
<1>5. PICK depth : Depths(depth) BY DEF Rooted
<1>6. CASE server'.folders = server.folders
  <2>1. \A g : Folder(g)' = Folder(g) BY <1>6 DEF Folder, RowAt
  <2>2. Extant' = Extant BY <2>1 DEF Extant
  <2>3. Depths(depth)' BY <1>5, <2>1, <2>2 DEF Depths, FolderIds
  <2> QED BY <1>1, <1>4, <2>1, <2>3 DEF Rooted, Undisturbed
<1>7. ASSUME NEW f \in FreshFolders, NEW row \in FolderRow,
             server'.folders = Put(server.folders, f, row), row.at = "live", Here(row.parent)
      PROVE  Rooted' /\ Undisturbed
  <2>1. f \in Id /\ f \notin Extant /\ f # Root
    BY IdAssumption DEF FreshFolders, Extant, Root
  <2>2. f \notin DOMAIN server.folders BY <1>3, <2>1
  <2>3. DOMAIN server'.folders = DOMAIN server.folders \cup {f} /\ server'.folders[f] = row
        /\ \A g \in DOMAIN server.folders : server'.folders[g] = server.folders[g]
    BY <1>7, <2>2 DEF Put
  <2>4. Folder(f)' = row BY <2>3 DEF Folder, RowAt
  <2>5. \A g \in Extant : Folder(g)' = Folder(g) BY <1>2, <1>3, <2>3 DEF Folder, RowAt
  <2>6. \A g \in Id \ (Extant \cup {f}) : Folder(g)' = NoFolder
    BY <1>3, <2>3 DEF Folder, RowAt
  <2>7. Extant' = Extant \cup {f}
    <3>1. \A g \in Id : g \in Extant' <=> g \in Extant \cup {f}
      <4>1. ASSUME NEW g \in Id PROVE g \in Extant' <=> g \in Extant \cup {f}
        <5>1. CASE g = f BY <1>7, <2>4, <5>1 DEF Extant
        <5>2. CASE g \in Extant BY <2>5, <5>2 DEF Extant
        <5>3. CASE g \notin Extant \cup {f} BY <2>6, <5>3 DEF Extant, NoFolder
        <5> QED BY <5>1, <5>2, <5>3
      <4> QED BY <4>1
    <3> QED BY <2>1, <3>1 DEF Extant
  <2>8. Cardinality(Extant') = Cardinality(Extant) + 1 /\ Cardinality(Extant) \in Nat
    BY <2>1, <2>7, ExtantIsFinite, FS_AddElement
  <2>9. row.parent \in Extant \cup {Root} /\ row.parent # f
    <3>1. row.parent \in FolderIds BY DEF FolderRow, FolderIds
    <3> QED BY <1>7, <2>1, <3>1 DEF Here, Extant, FolderIds
  <2> DEFINE K == Cardinality(Extant)
             deep == [g \in FolderIds |-> IF g = f THEN depth[row.parent] + 1 ELSE depth[g]]
  <2>10. \A g \in FolderIds : depth[g] \in Nat /\ depth[g] <= K BY <1>5, <2>8 DEF Depths
  <2>11. f \in FolderIds /\ row.parent \in FolderIds /\ Extant \subseteq FolderIds
    BY <2>1, <2>9 DEF FolderIds, Extant
  <2>12. /\ deep[f] = depth[row.parent] + 1
         /\ \A g \in FolderIds \ {f} : deep[g] = depth[g]
         /\ deep \in [FolderIds -> 0 .. K + 1]
    <3>1. \A g \in FolderIds : (IF g = f THEN depth[row.parent] + 1 ELSE depth[g]) \in 0 .. K + 1
      BY <2>8, <2>10, <2>11
    <3> QED BY <2>11, <3>1
  <2> HIDE DEF deep
  <2>13. ASSUME NEW g \in Extant, Folder(g)'.at = "live"
         PROVE  Folder(g)'.parent \in Extant \cup {Root} /\ deep[Folder(g)'.parent] < deep[g]
    <3>1. Folder(g)' = Folder(g) /\ g # f /\ g \in FolderIds BY <2>1, <2>5, <2>11
    <3>2. Folder(g).parent \in Extant \cup {Root} /\ depth[Folder(g).parent] < depth[g]
      BY <1>5, <2>13, <3>1 DEF Depths
    <3>3. Folder(g).parent \in FolderIds \ {f} BY <2>1, <2>11, <3>2 DEF FolderIds
    <3> QED BY <2>12, <3>1, <3>2, <3>3
  <2>14. deep[row.parent] < deep[f]
    <3>1. deep[row.parent] = depth[row.parent] /\ depth[row.parent] \in Nat
      BY <2>9, <2>10, <2>11, <2>12
    <3> QED BY <2>12, <3>1
  <2>15. \A g \in Extant' : Folder(g)'.at = "live" =>
           Folder(g)'.parent \in Extant' \cup {Root} /\ deep[Folder(g)'.parent] < deep[g]
    BY <2>4, <2>7, <2>9, <2>13, <2>14
  <2>16. Depths(deep)'
    <3>1. deep \in [FolderIds -> 0 .. Cardinality(Extant')] BY <2>8, <2>12
    <3> QED BY <2>15, <3>1 DEF Depths, FolderIds
  <2>17. Rooted' BY <2>16 DEF Rooted
  <2> QED BY <1>4, <2>5, <2>17 DEF Undisturbed
<1> QED BY <1>1, <1>6, <1>7 DEF Grown

LEMMA NewFilesGrow ==
  ASSUME Rows(server), NEW name \in Name, NEW folder, NEW data \in Data,
         NEW o \in NewFile(name, folder, data)
  PROVE  /\ Grown(o.server)
         /\ o.ok => /\ Here(folder)
                    /\ \E i \in FreshFiles :
                         /\ o.server.folders = server.folders
                         /\ i \in DOMAIN o.server.files
                         /\ o.server.files[i] = [at |-> "live", folder |-> folder, name |-> name,
                                                 data |-> data, old |-> {}, ver |-> 1]
<1> DEFINE i   == Least(FreshFiles)
           row == [at |-> "live", folder |-> folder, name |-> name,
                   data |-> data, old |-> {}, ver |-> 1]
           s == WithFile(i, row)
<1>1. Rows(o.server) BY NewFileIsSound DEF Sound
<1>2. o = Refused \/ (o = Done(s) /\ Here(folder) /\ FreshFiles # {})
  BY DEF NewFile, May
<1>3. CASE o = Refused BY <1>1, <1>3 DEF Refused, Grown
<1>4. CASE o = Done(s) /\ Here(folder) /\ FreshFiles # {}
  <2>1. FreshFiles \subseteq Id /\ FreshFiles \subseteq Nat BY IdAssumption DEF FreshFiles
  <2>2. i \in FreshFiles BY <1>4, <2>1, LeastOfIds
  <2> HIDE DEF i
  <2>3. folder \in Id \cup {Root} BY <1>4, RowsAre DEF Here
  <2>4. row \in FileRow BY <2>3 DEF FileRow, Place
  <2>5. s.folders = server.folders /\ s.files = Put(server.files, i, row)
    BY DEF Rows, WithFile
  <2>6. i \in DOMAIN s.files /\ s.files[i] = row BY <2>5 DEF Put
  <2>7. o.server = s BY <1>4 DEF Done
  <2>8. Grown(s)
    <3> HIDE DEF s, row
    <3> QED BY <1>1, <2>2, <2>4, <2>5, <2>7 DEF Grown
  <2> QED BY <1>4, <2>2, <2>5, <2>6, <2>7, <2>8
<1> QED BY <1>2, <1>3, <1>4

LEMMA NewFoldersGrow ==
  ASSUME Rows(server), NEW name \in Name, NEW parent, NEW o \in CreateFolder(name, parent)
  PROVE  /\ Grown(o.server)
         /\ o.ok => /\ Here(parent)
                    /\ \E f \in FreshFolders :
                         o.server.folders = Put(server.folders, f,
                            [at |-> "live", parent |-> parent, name |-> name])
<1> DEFINE f   == Least(FreshFolders)
           row == [at |-> "live", parent |-> parent, name |-> name]
           s   == WithFolder(f, row)
<1>2. o = Refused \/ (o = Done(s) /\ Here(parent) /\ FreshFolders # {})
  BY DEF CreateFolder, May
<1>3. CASE o = Refused BY <1>3 DEF Refused, Grown
<1>4. CASE o = Done(s) /\ Here(parent) /\ FreshFolders # {}
  <2>1. FreshFolders \subseteq Id /\ FreshFolders \subseteq Nat BY IdAssumption DEF FreshFolders
  <2>2. f \in FreshFolders BY <1>4, <2>1, LeastOfIds
  <2> HIDE DEF f
  <2>3. parent \in Id \cup {Root} BY <1>4, RowsAre DEF Here
  <2>4. row \in FolderRow /\ row.at = "live" /\ row.parent = parent BY <2>3 DEF FolderRow, Place
  <2>5. s.files = server.files /\ s.folders = Put(server.folders, f, row)
    BY DEF Rows, WithFolder
  <2>6. Rows(s)
    <3> HIDE DEF row
    <3> QED BY <2>1, <2>2, <2>4, FolderPut
  <2>7. o.server = s BY <1>4 DEF Done
  <2>8. Grown(s)
    <3> HIDE DEF s, row
    <3> QED BY <1>4, <2>2, <2>4, <2>5, <2>6 DEF Grown
  <2> QED BY <1>4, <2>2, <2>5, <2>7, <2>8
<1> QED BY <1>2, <1>3, <1>4

LEMMA NewRowsGrow ==
  ASSUME Rows(server), NEW k \in Kind, NEW o \in CreateRow(k)
  PROVE  Grown(o.server)
<1>1. Rows(o.server)
  <2>1. Sound(CreateRow(k)) BY ObjectRequestsAreSound
  <2> QED BY <2>1 DEF Sound
<1>2. o.server.folders = server.folders /\ o.server.files = server.files
  BY DEF CreateRow, May, Done, Refused, WithRow, Rows
<1> QED BY <1>1, <1>2 DEF Grown
=============================================================================
