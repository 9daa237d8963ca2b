------------------------- MODULE FileCommandsProofs -------------------------
(***************************************************************************)
(* The commands, for any lists of ids, any answers, lost attempts and      *)
(* kills, and whatever other clients of the account do meanwhile.  First,  *)
(* that the audit trail tells the truth.  Then, over a server whose rows   *)
(* are what its interface says: that a torn local file is explained, that  *)
(* only the trash is purged, and that a row is changed only as it was      *)
(* read.  Then, that the commands themselves keep what is assumed of the   *)
(* other clients, and the types of a command at work.  Last, the window of *)
(* Explorer's menu: what it says has landed lies where it lay.             *)
(***************************************************************************)
EXTENDS FileCommands, ContextVerbs, FilesApiProofs, FiniteSetTheorems, SequenceTheorems

(* What the argument needs of an invocation.                               *)
Flags == {"goesOn", "skips", "bulk", "event"}
Before == {"none", "row", "link", "trash", "tree", "names", "photos"}
InvOK(v) ==
  /\ Flags \cup {"ids", "look", "request", "into", "name", "saves"} \subseteq DOMAIN v
  /\ \A f \in Flags : v[f] \in BOOLEAN
  /\ v.look \in Before
  /\ v.skips => ~v.event
  /\ v.goesOn /\ v.event => v.look = "none"
  /\ v.bulk => ~v.goesOn /\ ~v.skips
  /\ ~v.skips => Len(v.ids) \in Nat /\ DOMAIN v.ids = 1 .. Len(v.ids)

(* Of the first n ids of a command, those the server has done nothing for: *)
(* no more than the failures the command counted.                          *)
Missed(p, n)  == {i \in 1 .. Len(p.inv.ids) : i <= n /\ i \notin p.did}
Balance(p, n) == ~p.inv.skips => Cardinality(Missed(p, n)) <= p.failed
Going == {"look", "open", "call"}
Shape(p) ==
  /\ {"phase", "inv", "at", "tries", "seen", "did", "failed"} \subseteq DOMAIN p
  /\ InvOK(p.inv) /\ p.at \in Nat \ {0} /\ p.failed \in Nat /\ IsFiniteSet(p.did)
ProcOK(p) ==
  /\ Shape(p) /\ p.phase \in Going \cup {"end", "over"}
  /\ p.phase = "look" => p.inv.look # "none"
  /\ p.phase \in Going => Balance(p, p.at - 1)
  /\ p.phase \in {"end", "over"} /\ (p.failed = 0 \/ (p.inv.goesOn /\ p.inv.event))
       => Balance(p, Len(p.inv.ids))

(* What the trail says of a process.                                       *)
TrailOK(c) ==
  trail[c].outcome # "none" =>
    /\ proc[c].phase = "over" /\ trail[c].count = Logged(proc[c])
    /\ trail[c].outcome = "ok" => proc[c].failed = 0
CommandsInv ==
  /\ DOMAIN proc = Cli /\ DOMAIN trail = Cli
  /\ \A c \in Cli : /\ proc[c].phase \notin {"free", "killed"} => ProcOK(proc[c])
                    /\ TrailOK(c)

-----------------------------------------------------------------------------
(* The invocations.                                                        *)
LEMMA CommandIs ==
  ASSUME NEW request
  PROVE  /\ InvOK(Command(request)) /\ Command(request).event /\ ~Command(request).goesOn
         /\ ~Command(request).skips /\ ~Command(request).bulk
         /\ Command(request).look = "none"
<1>1. Len(<<1>>) \in Nat /\ DOMAIN <<1>> = 1 .. Len(<<1>>) OBVIOUS
<1> QED BY <1>1 DEF Command, InvOK, Flags, Before

(* An invocation with other ids, names and folders, or with a look or a    *)
(* way to save of its own, that neither goes on nor passes anything over.  *)
Plain(v) == InvOK(v) /\ v.event /\ ~v.goesOn /\ ~v.skips /\ ~v.bulk
LEMMA VariantsArePlain ==
  ASSUME NEW v, Plain(v), NEW x
  PROVE  /\ x \in Lists => Plain([v EXCEPT !.ids = x])
         /\ Plain([v EXCEPT !.into = x]) /\ Plain([v EXCEPT !.name = x])
         /\ x \in Before => Plain([v EXCEPT !.look = x])
         /\ Plain([v EXCEPT !.saves = x])
<1>1. InvOK(v) /\ v.event /\ ~v.goesOn /\ ~v.skips /\ ~v.bulk BY DEF Plain
<1>2. ASSUME x \in Lists PROVE Plain([v EXCEPT !.ids = x])
  <2>1. Len(x) \in Nat /\ DOMAIN x = 1 .. Len(x) BY <1>2, ListsAssumption
  <2> QED BY <1>1, <2>1 DEF Plain, InvOK, Flags
<1>3. Plain([v EXCEPT !.into = x]) BY <1>1 DEF Plain, InvOK, Flags
<1>4. Plain([v EXCEPT !.name = x]) BY <1>1 DEF Plain, InvOK, Flags
<1>5. x \in Before => Plain([v EXCEPT !.look = x]) BY <1>1 DEF Plain, InvOK, Flags
<1>6. Plain([v EXCEPT !.saves = x]) BY <1>1 DEF Plain, InvOK, Flags
<1> QED BY <1>2, <1>3, <1>4, <1>5, <1>6

LEMMA FamiliesArePlain ==
  ASSUME NEW request
  PROVE  /\ Plain(Command(request))
         /\ \A v \in Each(request) \cup ToEach(request) \cup One(request)
                       \cup OnePlace(request) : Plain(v)
<1>1. Plain(Command(request)) BY CommandIs DEF Plain
<1>2. ASSUME NEW v \in Each(request) PROVE Plain(v)
  <2>1. PICK l \in Lists : v = [Command(request) EXCEPT !.ids = l] BY DEF Each
  <2> QED BY <1>1, <2>1, VariantsArePlain
<1>3. ASSUME NEW v \in ToEach(request) PROVE Plain(v)
  <2>1. \E u \in Each(request), f \in Into \cup {Root} : v = [u EXCEPT !.into = f]
    BY DEF ToEach
  <2>2. PICK u \in Each(request), f \in Into \cup {Root} : v = [u EXCEPT !.into = f] BY <2>1
  <2> QED BY <1>2, <2>2, VariantsArePlain
<1>4. ASSUME NEW v \in One(request) PROVE Plain(v)
  <2>1. \E u \in {w \in Each(request) : Len(w.ids) = 1}, n \in NewNames :
          v = [u EXCEPT !.name = n]
    BY DEF One
  <2>2. PICK u \in Each(request), n \in NewNames : v = [u EXCEPT !.name = n] BY <2>1
  <2> QED BY <1>2, <2>2, VariantsArePlain
<1>5. ASSUME NEW v \in OnePlace(request) PROVE Plain(v)
  <2>1. \E u \in One(request), f \in Into \cup {Root} : v = [u EXCEPT !.into = f]
    BY DEF OnePlace
  <2>2. PICK u \in One(request), f \in Into \cup {Root} : v = [u EXCEPT !.into = f] BY <2>1
  <2> QED BY <1>4, <2>2, VariantsArePlain
<1> QED BY <1>1, <1>2, <1>3, <1>4, <1>5

LEMMA OddOnesAreFine ==
  /\ \A v \in Listing \cup Mkdir : InvOK(v)
  /\ \A v \in Download \cup GalleryDownload : InvOK(v)
<1>1. ASSUME NEW v \in Listing PROVE InvOK(v)
  <2>1. v = [Command("read") EXCEPT !.event = FALSE] BY DEF Listing
  <2> QED BY <2>1 DEF Command, InvOK, Flags, Before
<1>2. ASSUME NEW v \in Mkdir PROVE InvOK(v)
  <2>1. PICK f : v = [Command("CreateFolder") EXCEPT !.into = f, !.event = FALSE]
    BY DEF Mkdir
  <2> QED BY <2>1 DEF Command, InvOK, Flags, Before
<1>3. ASSUME NEW d, InvOK(d), ~d.event, ~d.bulk, NEW v,
             \/ \E l \in Lists : v = [d EXCEPT !.ids = l]
             \/ v = [d EXCEPT !.ids = << >>, !.skips = TRUE]
      PROVE  InvOK(v)
  <2>1. ASSUME NEW l \in Lists, v = [d EXCEPT !.ids = l] PROVE InvOK(v)
    <3>1. Len(l) \in Nat /\ DOMAIN l = 1 .. Len(l) BY ListsAssumption
    <3> QED BY <1>3, <2>1, <3>1 DEF InvOK, Flags
  <2>2. CASE v = [d EXCEPT !.ids = << >>, !.skips = TRUE]
    BY <1>3, <2>2 DEF InvOK, Flags
  <2> QED BY <1>3, <2>1, <2>2
<1>4. InvOK(Downloading) /\ ~Downloading.event /\ ~Downloading.bulk
  <2> DEFINE c == [Command("Download") EXCEPT !.event = FALSE, !.goesOn = TRUE]
  <2>1. InvOK(c) /\ ~c.event /\ ~c.bulk BY CommandIs DEF InvOK, Flags
  <2>2. Downloading = [c EXCEPT !.look = "tree", !.saves = "renamed"] BY DEF Downloading
  <2> HIDE DEF c
  <2> QED BY <2>1, <2>2 DEF InvOK, Flags, Before
<1>5. InvOK(PhotoDownload) /\ ~PhotoDownload.event /\ ~PhotoDownload.bulk
  BY <1>4 DEF PhotoDownload, InvOK, Flags, Before
<1>6. ASSUME NEW v \in Download PROVE InvOK(v)
  <2>1. \/ \E l \in Lists : v = [Downloading EXCEPT !.ids = l]
        \/ v = [Downloading EXCEPT !.ids = << >>, !.skips = TRUE]
    BY DEF Download
  <2> QED BY <1>3, <1>4, <2>1
<1>7. ASSUME NEW v \in GalleryDownload PROVE InvOK(v)
  <2>1. \/ \E l \in Lists : v = [PhotoDownload EXCEPT !.ids = l]
        \/ v = [PhotoDownload EXCEPT !.ids = << >>, !.skips = TRUE]
    BY DEF GalleryDownload
  <2> QED BY <1>3, <1>5, <2>1
<1> QED BY <1>1, <1>2, <1>6, <1>7

LEMMA LooksAreFine ==
  \A v \in UNION {Rename, Mv, TrashRestore, TrashRm, ShareUpdate, SharedUpload,
                  VersionsDownload, SharedDownload, Zip, GalleryRm} : InvOK(v)
<1>1. ASSUME NEW v, NEW u, Plain(u),
             \/ \E x \in Before : v = [u EXCEPT !.look = x]
             \/ \E x : v = [u EXCEPT !.saves = x]
             \/ \E x : \E y \in Before : v = [u EXCEPT !.saves = x, !.look = y]
             \/ v = [u EXCEPT !.saves = "unchecked", !.event = FALSE]
             \/ v = [u EXCEPT !.bulk = TRUE]
             \/ v = [u EXCEPT !.goesOn = TRUE] /\ u.look = "none"
      PROVE  InvOK(v)
  <2>1. ASSUME NEW x, \/ x \in Before /\ v = [u EXCEPT !.look = x]
                      \/ v = [u EXCEPT !.saves = x]
        PROVE  InvOK(v)
    <3>1. CASE x \in Before /\ v = [u EXCEPT !.look = x]
      BY <1>1, <3>1, VariantsArePlain DEF Plain
    <3>2. CASE v = [u EXCEPT !.saves = x]
      <4>1. Plain([u EXCEPT !.saves = x]) BY <1>1, VariantsArePlain
      <4> QED BY <3>2, <4>1 DEF Plain
    <3> QED BY <2>1, <3>1, <3>2
  <2>2. ASSUME NEW x, NEW y \in Before, v = [u EXCEPT !.saves = x, !.look = y]
        PROVE  InvOK(v)
    <3> DEFINE w == [u EXCEPT !.saves = x]
    <3>1. Plain(w) /\ v = [w EXCEPT !.look = y] BY <1>1, <2>2, VariantsArePlain
    <3> HIDE DEF w
    <3> QED BY <3>1, VariantsArePlain DEF Plain
  <2>3. CASE v = [u EXCEPT !.saves = "unchecked", !.event = FALSE]
    BY <1>1, <2>3 DEF Plain, InvOK, Flags
  <2>4. CASE v = [u EXCEPT !.bulk = TRUE] BY <1>1, <2>4 DEF Plain, InvOK, Flags
  <2>5. CASE v = [u EXCEPT !.goesOn = TRUE] /\ u.look = "none"
    BY <1>1, <2>5 DEF Plain, InvOK, Flags
  <2> QED BY <1>1, <2>1, <2>2, <2>3, <2>4, <2>5
<1>2. ASSUME NEW v \in Rename \cup Mv \cup TrashRestore \cup TrashRm \cup ShareUpdate
      PROVE  InvOK(v)
  <2>1. \E u : \E x \in Before : Plain(u) /\ v = [u EXCEPT !.look = x]
    BY FamiliesArePlain DEF Before, Rename, Mv, TrashRestore, TrashRm, ShareUpdate
  <2> QED BY <1>1, <2>1
<1>3. ASSUME NEW v \in SharedUpload PROVE InvOK(v)
  <2>1. PICK u \in Each("SharedWithMeUpload") : v = [u EXCEPT !.goesOn = TRUE]
    BY DEF SharedUpload
  <2>2. PICK l : u = [Command("SharedWithMeUpload") EXCEPT !.ids = l] BY DEF Each
  <2>3. u.look = "none" BY <2>2 DEF Command
  <2> QED BY <1>1, <2>1, <2>3, FamiliesArePlain
<1>4. ASSUME NEW v \in VersionsDownload PROVE InvOK(v)
  <2>1. PICK u \in One("Download") : v = [u EXCEPT !.saves = "unchecked", !.event = FALSE]
    BY DEF VersionsDownload
  <2> QED BY <1>1, <2>1, FamiliesArePlain
<1>5. ASSUME NEW v \in SharedDownload PROVE InvOK(v)
  <2>1. PICK u \in Each("Download") : v = [u EXCEPT !.saves = "plain", !.look = "names"]
    BY DEF SharedDownload
  <2> QED BY <1>1, <2>1, FamiliesArePlain DEF Before
<1>6. ASSUME NEW v \in Zip PROVE InvOK(v)
  <2>1. PICK u \in One("Download") : v = [u EXCEPT !.saves = "zip"] BY DEF Zip
  <2> QED BY <1>1, <2>1, FamiliesArePlain
<1>7. ASSUME NEW v \in GalleryRm PROVE InvOK(v)
  <2>1. PICK u \in Each("DeletePhotos") : v = [u EXCEPT !.bulk = TRUE] BY DEF GalleryRm
  <2> QED BY <1>1, <2>1, FamiliesArePlain
<1> QED BY <1>2, <1>3, <1>4, <1>5, <1>6, <1>7

(* The commands, by what their invocations are made of.                    *)
Versioned == {"Rename", "Move"}
Others    == {"read", "DeleteFile", "CreateFolder", "CopyFile", "RenameFolder", "MoveFolder",
              "DeleteFolder", "ForceDeleteFolder", "RestoreFolder", "Restore", "Purge",
              "EmptyFilesTrash", "RestoreFileVersion", "CreateLabel", "DeleteLabel",
              "SetFileLabels", "CreateFileShare", "UpdateFileShare", "DeleteFileShare",
              "CreateFolderShare", "UpdateFolderShareMember", "RemoveFolderShareMember",
              "DeleteFolderShare", "CreateUploadLink", "DeleteUploadLink",
              "SharedWithMeUpload", "SharedWithMeRename", "SharedWithMeDelete",
              "CreateArchive", "ExtractArchive", "EncryptFile", "EncryptFolder",
              "DecryptFile", "DeletePhotos"}
Simple(v, request) ==
  v \in {Command(request)} \cup Each(request) \cup One(request) \cup OnePlace(request)
LEMMA CommandsCome ==
  ASSUME NEW v \in Commands
  PROVE  \/ v \in Listing \cup (Rename \cup Mv)
         \/ v \in UNION {Download, GalleryDownload, VersionsDownload, SharedDownload, Zip}
         \/ v \in UNION {TrashRestore, TrashRm, ShareUpdate, SharedUpload, GalleryRm, Mkdir}
         \/ \E request \in Others : Simple(v, request)
<1>1. PICK s \in
        {GalleryLs, GalleryRm, GalleryDownload, Ls, TrashLs, VersionsLs, LabelsLs,
         Search, Stats, Activity, ShareLs, ShareFolderLs, UploadLinkLs, SharedLs,
         SharedBrowse, Keys, Rm, Mkdir, Rename, Mv, Copy, FolderRename, FolderMv,
         FolderRm, FolderRestore, TrashRestore, TrashRm, TrashEmpty, VersionsRestore,
         LabelsCreate, LabelsRm, LabelsSet, ShareCreate, ShareUpdate, ShareRm,
         ShareFolderAdd, ShareFolderRole, ShareFolderRemove, ShareFolderRm,
         UploadLinkCreate, UploadLinkRm, SharedUpload, SharedRename, SharedRm,
         ArchiveCreate, ArchiveExtract, Encrypt, Decrypt, Download, VersionsDownload,
         SharedDownload, Zip} : v \in s
  BY DEF Commands
<1>2. CASE s \in {GalleryLs, Ls, TrashLs, VersionsLs, LabelsLs, Search, Stats, Activity,
                  ShareLs, ShareFolderLs, UploadLinkLs, SharedLs, SharedBrowse, Keys}
  BY <1>1, <1>2 DEF GalleryLs, Ls, TrashLs, VersionsLs, LabelsLs, Search, Stats,
     Activity, ShareLs, ShareFolderLs, UploadLinkLs, SharedLs, SharedBrowse, Keys
<1>3. CASE s \in {Rename, Mv, Mkdir, Download, GalleryDownload, TrashRestore, TrashRm,
                  ShareUpdate, SharedUpload, VersionsDownload, SharedDownload, Zip, GalleryRm}
  BY <1>1, <1>3
<1>4. CASE s \in {Rm, Copy, FolderRename, FolderMv, FolderRm, FolderRestore, TrashEmpty,
                  VersionsRestore, LabelsCreate, LabelsRm, LabelsSet, ShareCreate, ShareRm,
                  ShareFolderAdd, ShareFolderRole, ShareFolderRemove, ShareFolderRm,
                  UploadLinkCreate, UploadLinkRm, SharedRename, SharedRm,
                  ArchiveCreate, ArchiveExtract, Encrypt, Decrypt}
  <2>1. \E request \in Others : Simple(v, request)
    BY <1>1, <1>4 DEF Rm, Copy, FolderRename, FolderMv, FolderRm, FolderRestore,
       TrashEmpty, VersionsRestore, LabelsCreate, LabelsRm, LabelsSet, ShareCreate, ShareRm,
       ShareFolderAdd, ShareFolderRole, ShareFolderRemove, ShareFolderRm,
       UploadLinkCreate, UploadLinkRm, SharedRename, SharedRm, ArchiveCreate,
       ArchiveExtract, Encrypt, Decrypt, Others, Simple
  <2> QED BY <2>1
<1> QED BY <1>1, <1>2, <1>3, <1>4

LEMMA CommandsAreFine == ASSUME NEW v \in Commands PROVE InvOK(v)
<1>1. (\E request \in Others : Simple(v, request)) => InvOK(v)
  BY FamiliesArePlain DEF Plain, Simple
<1> QED BY <1>1, CommandsCome, OddOnesAreFine, LooksAreFine

-----------------------------------------------------------------------------
(* How the ids that were missed grow in number.                            *)
LEMMA MissedGrows ==
  ASSUME NEW p, NEW q, q.inv.ids = p.inv.ids, Len(p.inv.ids) \in Nat, NEW n \in Nat,
         p.did \subseteq q.did
  PROVE  /\ Cardinality(Missed(p, n)) \in Nat /\ Cardinality(Missed(q, n)) \in Nat
         /\ Cardinality(Missed(q, n + 1)) \in Nat
         /\ Cardinality(Missed(q, n)) <= Cardinality(Missed(p, n))
         /\ Cardinality(Missed(q, n + 1)) <= Cardinality(Missed(p, n)) + 1
         /\ n + 1 \in q.did => Cardinality(Missed(q, n + 1)) <= Cardinality(Missed(p, n))
<1> DEFINE all == 1 .. Len(p.inv.ids)
<1>1. IsFiniteSet(all) BY FS_Interval
<1>2. /\ Missed(p, n) \subseteq all /\ Missed(q, n) \subseteq all
      /\ Missed(q, n + 1) \subseteq all
  BY DEF Missed
<1>3. /\ IsFiniteSet(Missed(p, n)) /\ IsFiniteSet(Missed(q, n))
      /\ IsFiniteSet(Missed(q, n + 1))
  BY <1>1, <1>2, FS_Subset
<1>4. Missed(q, n) \subseteq Missed(p, n) BY DEF Missed
<1>5. Missed(q, n + 1) \subseteq Missed(p, n) \cup {n + 1} BY DEF Missed
<1>6. n + 1 \in q.did => Missed(q, n + 1) \subseteq Missed(p, n) BY DEF Missed
<1>7. /\ IsFiniteSet(Missed(p, n) \cup {n + 1})
      /\ Cardinality(Missed(p, n) \cup {n + 1}) \in
           {Cardinality(Missed(p, n)), Cardinality(Missed(p, n)) + 1}
  BY <1>3, FS_AddElement
<1>8. /\ Cardinality(Missed(p, n)) \in Nat /\ Cardinality(Missed(q, n)) \in Nat
      /\ Cardinality(Missed(q, n + 1)) \in Nat
  BY <1>3, FS_CardinalityType
<1>9. /\ Cardinality(Missed(q, n)) <= Cardinality(Missed(p, n))
      /\ Cardinality(Missed(q, n + 1)) <= Cardinality(Missed(p, n) \cup {n + 1})
      /\ n + 1 \in q.did => Cardinality(Missed(q, n + 1)) <= Cardinality(Missed(p, n))
  BY <1>3, <1>4, <1>5, <1>6, <1>7, FS_Subset
<1> QED BY <1>7, <1>8, <1>9

(* A process that goes on to another phase of the same id.                 *)
LEMMA GoingOn ==
  ASSUME NEW p, ProcOK(p), p.phase \in Going, NEW q, DOMAIN q = DOMAIN p,
         InvOK(q.inv), q.inv.skips = p.inv.skips,
         ~p.inv.skips => q.inv.ids = p.inv.ids, q.at = p.at, q.failed = p.failed,
         q.phase \in {"open", "call"} \/ (q.phase = p.phase /\ q.inv.look = p.inv.look),
         p.did \subseteq q.did, IsFiniteSet(q.did)
  PROVE  ProcOK(q)
<1>1. Shape(q) BY DEF Shape, ProcOK
<1>2. Balance(p, p.at - 1) BY DEF ProcOK
<1>3. Balance(q, q.at - 1)
  <2> SUFFICES ASSUME ~p.inv.skips
               PROVE  Cardinality(Missed(q, p.at - 1)) <= p.failed
    BY DEF Balance
  <2> DEFINE n == p.at - 1
  <2>1. n \in Nat /\ Len(p.inv.ids) \in Nat /\ p.failed \in Nat
    BY DEF ProcOK, Shape, InvOK
  <2>2. Cardinality(Missed(p, n)) <= p.failed BY <1>2 DEF Balance
  <2> HIDE DEF n
  <2>3. /\ Cardinality(Missed(q, n)) <= Cardinality(Missed(p, n))
        /\ Cardinality(Missed(q, n)) \in Nat /\ Cardinality(Missed(p, n)) \in Nat
    BY <2>1, MissedGrows
  <2>4. Cardinality(Missed(q, n)) <= p.failed BY <2>1, <2>2, <2>3
  <2> QED BY <2>4 DEF n
<1> QED BY <1>1, <1>3 DEF ProcOK, Going

(* A process that is done with an id: with a success or a counted failure. *)
LEMMA NextKeeps ==
  ASSUME NEW p, Shape(p), Balance(p, p.at), p.inv.bulk => Balance(p, Len(p.inv.ids))
  PROVE  ProcOK(NextId(p))
<1>1. CASE p.at < Len(p.inv.ids) /\ ~p.inv.bulk
  <2> DEFINE f == IF p.inv.look = "row" THEN "look" ELSE Ready(p.inv)
             q == [p EXCEPT !.at = @ + 1, !.tries = 1, !.phase = f]
  <2>1. NextId(p) = q BY <1>1 DEF NextId
  <2>2. f \in Going /\ (f = "look" => p.inv.look # "none") BY DEF Ready, Going
  <2>3. /\ DOMAIN q = DOMAIN p /\ q.at = p.at + 1 /\ q.phase = f /\ q.inv = p.inv
        /\ q.failed = p.failed /\ q.did = p.did
    BY DEF Shape
  <2> HIDE DEF q, f
  <2>4. Shape(q) BY <2>3 DEF Shape
  <2>5. q.at - 1 = p.at BY <2>3 DEF Shape
  <2>6. Balance(q, q.at - 1) BY <2>3, <2>5 DEF Balance, Missed
  <2>7. ProcOK(q) BY <2>2, <2>3, <2>4, <2>6 DEF ProcOK, Going
  <2> QED BY <2>1, <2>7
<1>2. CASE ~(p.at < Len(p.inv.ids) /\ ~p.inv.bulk)
  <2> DEFINE q == [p EXCEPT !.phase = "end"]
  <2>1. NextId(p) = q BY <1>2 DEF NextId
  <2>2. /\ DOMAIN q = DOMAIN p /\ q.at = p.at /\ q.phase = "end" /\ q.inv = p.inv
        /\ q.failed = p.failed /\ q.did = p.did
    BY DEF Shape
  <2> HIDE DEF q
  <2>3. Shape(q) BY <2>2 DEF Shape
  <2>4. Balance(p, Len(p.inv.ids))
    <3>1. CASE p.inv.bulk BY <3>1
    <3>2. CASE ~p.inv.bulk
      <4> SUFFICES ASSUME ~p.inv.skips
                   PROVE  Cardinality(Missed(p, Len(p.inv.ids))) <= p.failed
        BY DEF Balance
      <4>1. Len(p.inv.ids) \in Nat /\ p.at \in Nat /\ p.at >= Len(p.inv.ids)
        BY <1>2, <3>2 DEF Shape, InvOK
      <4>2. Missed(p, Len(p.inv.ids)) = Missed(p, p.at) BY <4>1 DEF Missed
      <4> QED BY <4>2 DEF Balance
    <3> QED BY <3>1, <3>2
  <2>5. Balance(q, Len(q.inv.ids)) BY <2>2, <2>4 DEF Balance, Missed
  <2>6. ProcOK(q) BY <2>2, <2>3, <2>5 DEF ProcOK, Going
  <2> QED BY <2>1, <2>6
<1> QED BY <1>1, <1>2

LEMMA StopKeeps ==
  ASSUME NEW p, Shape(p), ~(p.inv.goesOn /\ p.inv.event)
  PROVE  ProcOK(Stop(p))
<1> DEFINE q == Stop(p)
<1>1. /\ DOMAIN q = DOMAIN p /\ q.at = p.at /\ q.phase = "end" /\ q.inv = p.inv
      /\ q.failed = p.failed + 1 /\ q.did = p.did
  BY DEF Stop, Shape
<1> HIDE DEF q
<1>2. Shape(q) /\ q.failed # 0 BY <1>1 DEF Shape
<1> QED BY <1>1, <1>2 DEF ProcOK, Going, q

LEMMA FailsKeeps ==
  ASSUME NEW p, ProcOK(p), p.phase \in Going
  PROVE  ProcOK(Fails(p))
<1>1. CASE ~p.inv.goesOn BY <1>1, StopKeeps DEF Fails, ProcOK
<1>2. CASE p.inv.goesOn
  <2> DEFINE q == [p EXCEPT !.failed = @ + 1]
  <2>1. Fails(p) = NextId(q) BY <1>2 DEF Fails
  <2>2. /\ DOMAIN q = DOMAIN p /\ q.at = p.at /\ q.phase = p.phase /\ q.inv = p.inv
        /\ q.failed = p.failed + 1 /\ q.did = p.did
    BY DEF ProcOK, Shape
  <2> HIDE DEF q
  <2>3. Shape(q) BY <2>2 DEF ProcOK, Shape
  <2>4. ~q.inv.bulk BY <1>2, <2>2 DEF ProcOK, Shape, InvOK
  <2>5. Balance(q, q.at)
    <3> SUFFICES ASSUME ~p.inv.skips
                 PROVE  Cardinality(Missed(q, p.at)) <= p.failed + 1
      BY <2>2 DEF Balance
    <3>1. /\ p.at \in Nat /\ p.at - 1 \in Nat /\ Len(p.inv.ids) \in Nat
          /\ p.failed \in Nat
      BY DEF ProcOK, Shape, InvOK
    <3>2. Cardinality(Missed(p, p.at - 1)) <= p.failed BY DEF Balance, ProcOK
    <3> DEFINE n == p.at - 1
    <3>3. n \in Nat /\ n + 1 = p.at BY <3>1
    <3> HIDE DEF n
    <3>4. /\ Cardinality(Missed(q, n + 1)) <= Cardinality(Missed(p, n)) + 1
          /\ Cardinality(Missed(q, n + 1)) \in Nat /\ Cardinality(Missed(p, n)) \in Nat
      BY <2>2, <3>1, <3>3, MissedGrows
    <3> QED BY <3>1, <3>2, <3>3, <3>4 DEF n
  <2> QED BY <2>1, <2>3, <2>4, <2>5, NextKeeps
<1> QED BY <1>1, <1>2

(* The request for the current id, or for all of a bulk, was carried out.  *)
LEMMA DoneKeeps ==
  ASSUME NEW p, ProcOK(p), p.phase \in Going, NEW q, DOMAIN q = DOMAIN p,
         q.inv = p.inv, q.at = p.at, q.failed = p.failed,
         q.did = p.did \cup (IF p.inv.bulk THEN DOMAIN p.inv.ids ELSE {p.at}),
         IsFiniteSet(q.did)
  PROVE  ProcOK(NextId(q))
<1>1. Shape(q) BY DEF Shape, ProcOK
<1>2. ASSUME ~p.inv.skips
      PROVE  /\ p.at \in Nat /\ p.at - 1 \in Nat /\ Len(p.inv.ids) \in Nat
             /\ p.failed \in Nat /\ DOMAIN p.inv.ids = 1 .. Len(p.inv.ids)
             /\ Cardinality(Missed(p, p.at - 1)) <= p.failed
  BY <1>2 DEF ProcOK, Shape, InvOK, Balance
<1>3. ASSUME p.inv.bulk, NEW n PROVE Balance(q, n)
  <2> SUFFICES ASSUME ~p.inv.skips PROVE Cardinality(Missed(q, n)) <= p.failed
    BY DEF Balance
  <2>1. Missed(q, n) = {} BY <1>2, <1>3 DEF Missed
  <2> QED BY <1>2, <2>1, FS_EmptySet
<1>4. Balance(q, q.at)
  <2>1. CASE p.inv.bulk BY <1>3, <2>1
  <2>2. CASE ~p.inv.bulk
    <3> SUFFICES ASSUME ~p.inv.skips PROVE Cardinality(Missed(q, p.at)) <= p.failed
      BY DEF Balance
    <3> DEFINE n == p.at - 1
    <3>1. n \in Nat /\ n + 1 = p.at /\ p.at \in q.did BY <1>2, <2>2
    <3>2. Cardinality(Missed(p, n)) <= p.failed /\ p.failed \in Nat BY <1>2
    <3> HIDE DEF n
    <3>3. /\ Cardinality(Missed(q, n + 1)) <= Cardinality(Missed(p, n))
          /\ Cardinality(Missed(q, n + 1)) \in Nat /\ Cardinality(Missed(p, n)) \in Nat
      BY <1>2, <3>1, MissedGrows
    <3> QED BY <3>1, <3>2, <3>3
  <2> QED BY <2>1, <2>2
<1> QED BY <1>1, <1>3, <1>4, NextKeeps

-----------------------------------------------------------------------------
(* The steps of a process.                                                 *)
LEMMA CommandMoves ==
  ASSUME CommandsInv, NEW c \in Cli, NEW q, proc' = [proc EXCEPT ![c] = q], ProcOK(q),
         proc[c].phase # "over", UNCHANGED trail
  PROVE  CommandsInv'
<1>1. /\ DOMAIN proc' = Cli /\ proc'[c] = q /\ \A d \in Cli \ {c} : proc'[d] = proc[d]
  BY DEF CommandsInv
<1>2. trail[c].outcome = "none" BY DEF CommandsInv, TrailOK
<1>3. ASSUME NEW d \in Cli PROVE TrailOK(d)'
  <2>1. CASE d = c BY <1>2, <2>1 DEF TrailOK
  <2>2. CASE d # c
    <3>1. proc'[d] = proc[d] /\ TrailOK(d) BY <1>1, <2>2 DEF CommandsInv
    <3> QED BY <3>1 DEF TrailOK, Logged
  <2> QED BY <2>1, <2>2
<1>4. ASSUME NEW d \in Cli, proc'[d].phase \notin {"free", "killed"}
      PROVE  ProcOK(proc'[d])
  <2>1. CASE d = c BY <1>1, <2>1
  <2>2. CASE d # c BY <1>1, <1>4, <2>2 DEF CommandsInv
  <2> QED BY <2>1, <2>2
<1> QED BY <1>1, <1>3, <1>4 DEF CommandsInv

LEMMA StartKeeps ==
  ASSUME CommandsInv, NEW c \in Cli, Start(c)
  PROVE  CommandsInv'
<1>1. PICK v \in Commands : proc' = [proc EXCEPT ![c] = Started(v)] BY DEF Start
<1> DEFINE q == Started(v)
<1>2. InvOK(v) BY CommandsAreFine
<1>3. /\ q.phase = First(v) /\ q.inv = v /\ q.at = 1 /\ q.did = {} /\ q.failed = 0
      /\ {"phase", "inv", "at", "tries", "seen", "did", "failed"} \subseteq DOMAIN q
  BY DEF Started
<1> HIDE DEF q
<1>4. First(v) \in Going /\ (First(v) = "look" => v.look # "none")
  BY DEF First, Ready, Going
<1>5. Shape(q) BY <1>2, <1>3, FS_EmptySet DEF Shape
<1>6. Missed(q, 0) = {} BY DEF Missed
<1>7. Balance(q, q.at - 1) BY <1>3, <1>6, FS_EmptySet DEF Balance
<1>8. ProcOK(q) BY <1>3, <1>4, <1>5, <1>7 DEF ProcOK, Going
<1> QED BY <1>1, <1>8, CommandMoves DEF Start, q

(* What a lookup shows does not change what has been done.                 *)
LEMMA ShownIs ==
  ASSUME NEW p, Shape(p), p.inv.look # "none", NEW q \in Shown(p)
  PROVE  /\ DOMAIN q = DOMAIN p /\ q.at = p.at /\ q.did = p.did /\ q.failed = p.failed
         /\ InvOK(q.inv) /\ q.inv.skips = p.inv.skips
         /\ ~p.inv.skips => q.inv.ids = p.inv.ids
<1>1. InvOK(p.inv) /\ p.inv.look \in Before BY DEF Shape, InvOK
<1>2. ASSUME NEW s, q = [p EXCEPT !.seen = s] PROVE /\ DOMAIN q = DOMAIN p /\ q.at = p.at
         /\ q.did = p.did /\ q.failed = p.failed /\ q.inv = p.inv
  BY <1>2 DEF Shape
<1>3. ASSUME NEW s, NEW ids,
             q = [p EXCEPT !.seen = s, !.inv.ids = IF p.inv.skips THEN ids ELSE @]
      PROVE  /\ DOMAIN q = DOMAIN p /\ q.at = p.at /\ q.did = p.did /\ q.failed = p.failed
             /\ InvOK(q.inv) /\ q.inv.skips = p.inv.skips
             /\ ~p.inv.skips => q.inv.ids = p.inv.ids
  <2> DEFINE v == [p.inv EXCEPT !.ids = IF p.inv.skips THEN ids ELSE @]
  <2>1. q.inv = v BY <1>3 DEF Shape
  <2>2. DOMAIN q = DOMAIN p /\ q.at = p.at /\ q.did = p.did /\ q.failed = p.failed
    BY <1>3 DEF Shape
  <2>3. InvOK(v) /\ v.skips = p.inv.skips /\ (~p.inv.skips => v.ids = p.inv.ids)
    BY <1>1 DEF InvOK, Flags
  <2> QED BY <2>1, <2>2, <2>3
<1>4. \/ \E s : q = [p EXCEPT !.seen = s]
      \/ q = ShownTrash(p)
      \/ \E s, ids : q = [p EXCEPT !.seen = s, !.inv.ids = IF p.inv.skips THEN ids ELSE @]
  <2>1. CASE p.inv.look = "row"
    <3>1. q = [p EXCEPT !.seen = [p.seen EXCEPT !.row = File(Current(p))]]
      BY <2>1 DEF Shown, ShownRow, Shape
    <3> QED BY <3>1
  <2>2. CASE p.inv.look = "link"
    <3>1. q = [p EXCEPT !.seen = [p.seen EXCEPT !.row.ver = Row("link", Current(p)).ver]]
      BY <2>2 DEF Shown, ShownLink, Shape
    <3> QED BY <3>1
  <2>3. CASE p.inv.look = "trash"
    <3>1. q = ShownTrash(p) BY <2>3 DEF Shown
    <3> QED BY <3>1
  <2>4. CASE p.inv.look \in {"tree", "names"}
    <3>1. q = ShownTree(p) BY <2>4 DEF Shown
    <3>2. PICK paths, ids : q = [p EXCEPT !.seen.paths = paths,
                                          !.inv.ids = IF p.inv.skips THEN ids ELSE @]
      BY <3>1 DEF ShownTree
    <3> QED BY <3>2 DEF Shape
  <2>5. CASE p.inv.look = "photos"
    <3>1. PICK names, images : q = ShownPhotos(p, names, images) BY <2>5 DEF Shown
    <3>2. PICK paths, ids : q = [p EXCEPT !.seen.paths = paths,
                                          !.inv.ids = IF p.inv.skips THEN ids ELSE @]
      BY <3>1 DEF ShownPhotos
    <3> QED BY <3>2 DEF Shape
  <2> QED BY <1>1, <2>1, <2>2, <2>3, <2>4, <2>5 DEF Before
<1>5. CASE q = ShownTrash(p)
  <2>1. /\ DOMAIN q = DOMAIN p /\ q.at = p.at /\ q.did = p.did /\ q.failed = p.failed
        /\ q.inv = p.inv
    BY <1>5 DEF ShownTrash, Shape
  <2> QED BY <1>1, <2>1
<1> QED BY <1>1, <1>2, <1>3, <1>4, <1>5

LEMMA AfterLookKeeps ==
  ASSUME NEW p, ProcOK(p), p.phase = "look", NEW q, DOMAIN q = DOMAIN p, q.at = p.at,
         q.did = p.did, q.failed = p.failed, InvOK(q.inv), q.inv.skips = p.inv.skips,
         ~p.inv.skips => q.inv.ids = p.inv.ids
  PROVE  ProcOK(AfterLook(q))
<1>1. Shape(p) BY DEF ProcOK
<1>2. CASE q.inv.ids = << >>
  <2> DEFINE r == [q EXCEPT !.phase = "end"]
  <2>1. AfterLook(q) = r BY <1>2 DEF AfterLook
  <2>2. /\ DOMAIN r = DOMAIN p /\ r.phase = "end" /\ r.at = p.at /\ r.did = p.did
        /\ r.failed = p.failed /\ r.inv = q.inv
    BY <1>1 DEF Shape
  <2> HIDE DEF r
  <2>3. Shape(r) BY <1>1, <2>2 DEF Shape
  <2>4. Missed(r, Len(r.inv.ids)) = {} BY <1>2, <2>2 DEF Missed
  <2>5. Balance(r, Len(r.inv.ids)) BY <2>3, <2>4, FS_EmptySet DEF Balance, Shape
  <2> QED BY <2>1, <2>2, <2>3, <2>5 DEF ProcOK, Going
<1>3. CASE q.inv.ids # << >>
  <2> DEFINE r == [q EXCEPT !.phase = Ready(q.inv), !.tries = 1]
  <2>1. AfterLook(q) = r BY <1>3 DEF AfterLook
  <2>2. /\ DOMAIN r = DOMAIN p /\ r.phase = Ready(q.inv) /\ r.at = p.at /\ r.did = p.did
        /\ r.failed = p.failed /\ r.inv = q.inv
    BY <1>1 DEF Shape
  <2> HIDE DEF r
  <2>3. r.phase \in {"open", "call"} BY <2>2 DEF Ready
  <2>4. p.phase \in Going /\ IsFiniteSet(r.did) /\ p.did \subseteq r.did
    BY <1>1, <2>2 DEF Going, Shape
  <2>5. ProcOK(r) BY <2>2, <2>3, <2>4, GoingOn
  <2> QED BY <2>1, <2>5
<1> QED BY <1>2, <1>3

LEMMA LookKeeps ==
  ASSUME CommandsInv, NEW c \in Cli, Look(c)
  PROVE  CommandsInv'
<1> DEFINE p == proc[c]
<1>1. p.phase = "look" /\ UNCHANGED trail BY DEF Look
<1>2. ProcOK(p) /\ Shape(p) /\ p.inv.look # "none" BY <1>1 DEF CommandsInv, ProcOK
<1>3. PICK q : /\ proc' = [proc EXCEPT ![c] = q]
               /\ \/ \E s \in Shown(p) : q = AfterLook(s)
                  \/ q = [p EXCEPT !.tries = @ + 1]
                  \/ q = AfterLook(p)
                  \/ q = Stop(p)
  BY DEF Look
<1> HIDE DEF p
<1>4. ASSUME NEW s \in Shown(p), q = AfterLook(s) PROVE ProcOK(q)
  BY <1>1, <1>2, <1>4, ShownIs, AfterLookKeeps
<1>5. ASSUME q = AfterLook(p) PROVE ProcOK(q) BY <1>1, <1>2, <1>5, AfterLookKeeps DEF Shape
<1>6. ASSUME q = Stop(p) PROVE ProcOK(q)
  <2>1. ~(p.inv.goesOn /\ p.inv.event) BY <1>2 DEF Shape, InvOK
  <2> QED BY <1>2, <1>6, <2>1, StopKeeps
<1>7. ASSUME q = [p EXCEPT !.tries = @ + 1] PROVE ProcOK(q)
  <2>1. /\ DOMAIN q = DOMAIN p /\ q.inv = p.inv /\ q.at = p.at /\ q.failed = p.failed
        /\ q.phase = p.phase /\ q.did = p.did
    BY <1>2, <1>7 DEF Shape
  <2> QED BY <1>1, <1>2, <2>1, GoingOn DEF Going, Shape
<1>8. ProcOK(q) BY <1>3, <1>4, <1>5, <1>6, <1>7
<1> QED BY <1>1, <1>3, <1>8, CommandMoves DEF p

LEMMA LocalKeeps ==
  ASSUME CommandsInv, NEW c \in Cli,
         OpenLocal(c) \/ PassBy(c) \/ NotInTrash(c) \/ BreaksOff(c)
  PROVE  CommandsInv'
<1> DEFINE p == proc[c]
<1>1. p.phase \in {"open", "call"} /\ UNCHANGED trail
  BY DEF OpenLocal, PassBy, NotInTrash, BreaksOff
<1>2. ProcOK(p) /\ Shape(p) BY <1>1 DEF CommandsInv, ProcOK
<1>3. ASSUME NEW q, proc' = [proc EXCEPT ![c] = q], ProcOK(q) PROVE CommandsInv'
  BY <1>1, <1>3, CommandMoves
<1>4. CASE OpenLocal(c)
  <2> DEFINE q == [p EXCEPT !.phase = "call"]
  <2>1. proc' = [proc EXCEPT ![c] = q] BY <1>4 DEF OpenLocal
  <2>2. /\ DOMAIN q = DOMAIN p /\ q.inv = p.inv /\ q.at = p.at /\ q.failed = p.failed
        /\ q.phase = "call" /\ q.did = p.did
    BY <1>2 DEF Shape
  <2> HIDE DEF q
  <2>3. ProcOK(q) BY <1>1, <1>2, <2>2, GoingOn DEF Going, Shape
  <2> QED BY <1>3, <2>1, <2>3
<1>5. CASE PassBy(c)
  <2>1. p.inv.skips /\ proc' = [proc EXCEPT ![c] = NextId(p)] BY <1>5 DEF PassBy, Exists
  <2>2. ProcOK(NextId(p)) BY <1>2, <2>1, NextKeeps DEF Balance
  <2> QED BY <1>3, <2>1, <2>2
<1>6. CASE NotInTrash(c)
  <2>1. p.inv.look = "trash" /\ proc' = [proc EXCEPT ![c] = Stop(p)]
    BY <1>6 DEF NotInTrash, Unknown
  <2>2. ~(p.inv.goesOn /\ p.inv.event) BY <1>2, <2>1 DEF Shape, InvOK
  <2> QED BY <1>2, <1>3, <2>1, <2>2, StopKeeps
<1>7. CASE BreaksOff(c)
  <2>1. proc' = [proc EXCEPT ![c] = Fails(p)] BY <1>7 DEF BreaksOff
  <2> QED BY <1>1, <1>2, <1>3, <2>1, FailsKeeps DEF Going
<1> QED BY <1>4, <1>5, <1>6, <1>7

(* An answer that says ok says what was done.                              *)
LEMMA OkIsDone ==
  ASSUME NEW out, NEW a \in Answered(out) \cup Unanswered(out), a.answer = "ok"
  PROVE  a.done
<1>1. ASSUME a \in Answered(out) PROVE a.done
  <2>1. PICK o \in out : a = [server |-> o.server, done |-> o.ok,
                              answer |-> IF o.ok THEN "ok" ELSE "refused"]
    BY <1>1 DEF Answered
  <2> QED BY <2>1
<1>2. ASSUME a \in Unanswered(out) PROVE FALSE
  <2>1. PICK o : a = [server |-> o.server, done |-> o.ok, answer |-> "lost"]
    BY <1>2 DEF Unanswered
  <2> QED BY <2>1
<1> QED BY <1>1, <1>2

(* What the requests of a process carried out is finite.                   *)
LEMMA CarriedIs ==
  ASSUME NEW p, Shape(p)
  PROVE  LET did == IF p.inv.bulk THEN DOMAIN p.inv.ids ELSE {p.at}
             q == Carried(p) IN
         /\ IsFiniteSet(p.did \cup did)
         /\ DOMAIN q = DOMAIN p /\ q.inv = p.inv /\ q.at = p.at /\ q.failed = p.failed
         /\ q.phase = p.phase /\ q.did = p.did \cup did
<1> DEFINE did == IF p.inv.bulk THEN DOMAIN p.inv.ids ELSE {p.at}
<1>1. CASE p.inv.bulk
  <2>1. CASE p.inv.skips BY <1>1, <2>1 DEF Shape, InvOK
  <2>2. CASE ~p.inv.skips
    <3>1. IsFiniteSet(DOMAIN p.inv.ids) BY <2>2, FS_Interval DEF Shape, InvOK
    <3>2. IsFiniteSet(p.did \cup did) BY <1>1, <3>1, FS_Union DEF Shape
    <3> QED BY <3>2 DEF Carried, Shape
  <2> QED BY <2>1, <2>2
<1>2. CASE ~p.inv.bulk
  <2>1. did = {p.at} /\ IsFiniteSet(p.did) BY <1>2 DEF Shape
  <2>2. IsFiniteSet(p.did \cup {p.at}) BY <2>1, FS_AddElement
  <2> QED BY <2>1, <2>2 DEF Carried, Shape
<1> QED BY <1>1, <1>2

LEMMA CallKeeps ==
  ASSUME CommandsInv, NEW c \in Cli, Call(c)
  PROVE  CommandsInv'
<1> DEFINE p == proc[c]
           did == IF p.inv.bulk THEN DOMAIN p.inv.ids ELSE {p.at}
<1>1. p.phase = "call" /\ UNCHANGED trail BY DEF Call
<1>2. ProcOK(p) /\ Shape(p) BY <1>1 DEF CommandsInv, ProcOK
<1>3. PICK a \in Answered(Outcomes(p)) \cup Unanswered(Outcomes(p)) :
        LET q == IF a.done THEN [p EXCEPT !.did = @ \cup did] ELSE p IN
        IF Retries(a, p.tries) THEN proc' = [proc EXCEPT ![c] = [q EXCEPT !.tries = @ + 1]]
        ELSE IF a.answer = "ok" THEN proc' = [proc EXCEPT ![c] = NextId(q)]
        ELSE proc' = [proc EXCEPT ![c] = Fails(q)]
  BY DEF Call, Carried
<1> DEFINE q == IF a.done THEN [p EXCEPT !.did = @ \cup did] ELSE p
<1>4. /\ DOMAIN q = DOMAIN p /\ q.inv = p.inv /\ q.at = p.at /\ q.failed = p.failed
      /\ q.phase = p.phase /\ q.did \in {p.did, p.did \cup did}
      /\ a.done => q.did = p.did \cup did
  BY <1>2 DEF Shape
<1> HIDE DEF q
<1>5. IsFiniteSet(p.did \cup did) BY <1>2, CarriedIs
<1>6. ASSUME NEW r, proc' = [proc EXCEPT ![c] = r], ProcOK(r) PROVE CommandsInv'
  BY <1>1, <1>6, CommandMoves
<1>7. ProcOK(q)
  <2>1. IsFiniteSet(q.did) /\ p.did \subseteq q.did BY <1>2, <1>4, <1>5 DEF Shape
  <2> QED BY <1>1, <1>2, <1>4, <2>1, GoingOn DEF Going, Shape
<1>8. CASE Retries(a, p.tries)
  <2> DEFINE r == [q EXCEPT !.tries = @ + 1]
  <2>1. proc' = [proc EXCEPT ![c] = r] BY <1>3, <1>8 DEF q
  <2>2. Shape(q) BY <1>7 DEF ProcOK
  <2>3. /\ DOMAIN r = DOMAIN q /\ r.inv = q.inv /\ r.at = q.at /\ r.failed = q.failed
        /\ r.phase = q.phase /\ r.did = q.did
    BY <2>2 DEF Shape
  <2> HIDE DEF r
  <2>4. ProcOK(r) BY <1>1, <1>4, <1>7, <2>2, <2>3, GoingOn DEF Going, Shape
  <2> QED BY <1>6, <2>1, <2>4
<1>9. CASE ~Retries(a, p.tries) /\ a.answer = "ok"
  <2>1. proc' = [proc EXCEPT ![c] = NextId(q)] BY <1>3, <1>9 DEF q
  <2>2. q.did = p.did \cup did BY <1>4, <1>9, OkIsDone
  <2>3. ProcOK(NextId(q)) BY <1>1, <1>2, <1>4, <1>5, <2>2, DoneKeeps DEF Going
  <2> QED BY <1>6, <2>1, <2>3
<1>10. CASE ~Retries(a, p.tries) /\ a.answer # "ok"
  <2>1. proc' = [proc EXCEPT ![c] = Fails(q)] BY <1>3, <1>10 DEF q
  <2>2. ProcOK(Fails(q)) BY <1>1, <1>4, <1>7, FailsKeeps DEF Going
  <2> QED BY <1>6, <2>1, <2>2
<1> QED BY <1>8, <1>9, <1>10

(* A download whose file could not be closed.                              *)
LEMMA CloseKeeps ==
  ASSUME CommandsInv, NEW c \in Cli, CloseFails(c)
  PROVE  CommandsInv'
<1>1. PICK p : p = proc[c] OBVIOUS
<1>2. PICK q : q = Carried(p) OBVIOUS
<1>3. /\ p.phase = "call" /\ UNCHANGED trail
      /\ \/ proc' = [proc EXCEPT ![c] = NextId(q)]
         \/ proc' = [proc EXCEPT ![c] = Fails(q)]
  BY <1>1, <1>2 DEF CloseFails
<1>4. ProcOK(p) /\ Shape(p) BY <1>1, <1>3 DEF CommandsInv, ProcOK
<1>5. /\ DOMAIN q = DOMAIN p /\ q.inv = p.inv /\ q.at = p.at /\ q.failed = p.failed
      /\ q.phase = p.phase /\ IsFiniteSet(q.did) /\ p.did \subseteq q.did
      /\ q.did = p.did \cup (IF p.inv.bulk THEN DOMAIN p.inv.ids ELSE {p.at})
  BY <1>2, <1>4, CarriedIs
<1>6. ProcOK(NextId(q)) BY <1>3, <1>4, <1>5, DoneKeeps DEF Going
<1>7. ProcOK(q) BY <1>3, <1>4, <1>5, GoingOn DEF Going, Shape
<1>8. ProcOK(Fails(q)) BY <1>3, <1>5, <1>7, FailsKeeps DEF Going
<1> QED BY <1>1, <1>3, <1>6, <1>8, CommandMoves

(* The command writes its lines in the audit log, or is killed before.     *)
LEMMA EndKeeps ==
  ASSUME CommandsInv, NEW c \in Cli, End(c)
  PROVE  CommandsInv'
<1> DEFINE p == proc[c]
           q == [p EXCEPT !.phase = "over", !.seen = Blank, !.tries = 1]
           t == [count |-> Logged(p), outcome |-> IF p.failed = 0 THEN "ok" ELSE "error"]
<1>1. /\ p.phase = "end" /\ proc' = [proc EXCEPT ![c] = q]
      /\ trail' = [trail EXCEPT ![c] = t]
  BY DEF End
<1>2. ProcOK(p) /\ Shape(p) BY <1>1 DEF CommandsInv, ProcOK
<1>3. /\ DOMAIN q = DOMAIN p /\ q.inv = p.inv /\ q.at = p.at /\ q.failed = p.failed
      /\ q.phase = "over" /\ q.did = p.did
  BY <1>2 DEF Shape
<1>4. t.count = Logged(p) /\ (t.outcome = "ok" => p.failed = 0) OBVIOUS
<1> HIDE DEF q, t
<1>5. ProcOK(q)
  <2>1. Shape(q) BY <1>2, <1>3 DEF Shape
  <2>2. p.failed = 0 \/ (p.inv.goesOn /\ p.inv.event) => Balance(p, Len(p.inv.ids))
    BY <1>1, <1>2 DEF ProcOK
  <2>3. Balance(p, Len(p.inv.ids)) => Balance(q, Len(q.inv.ids))
    BY <1>3 DEF Balance, Missed
  <2> QED BY <1>3, <2>1, <2>2, <2>3 DEF ProcOK, Going
<1>6. Logged(q) = Logged(p) BY <1>3 DEF Logged
<1>7. /\ DOMAIN proc' = Cli /\ DOMAIN trail' = Cli /\ proc'[c] = q /\ trail'[c] = t
      /\ \A d \in Cli \ {c} : proc'[d] = proc[d] /\ trail'[d] = trail[d]
  BY <1>1 DEF CommandsInv
<1>8. ASSUME NEW d \in Cli
      PROVE  (proc'[d].phase \notin {"free", "killed"} => ProcOK(proc'[d])) /\ TrailOK(d)'
  <2>1. CASE d = c BY <1>3, <1>4, <1>5, <1>6, <1>7, <2>1 DEF TrailOK
  <2>2. CASE d # c
    <3>1. proc'[d] = proc[d] /\ trail'[d] = trail[d] /\ TrailOK(d)
      BY <1>7, <2>2 DEF CommandsInv
    <3>2. TrailOK(d)' BY <3>1 DEF TrailOK, Logged
    <3> QED BY <3>1, <3>2 DEF CommandsInv
  <2> QED BY <2>1, <2>2
<1> QED BY <1>7, <1>8 DEF CommandsInv

LEMMA KillKeeps ==
  ASSUME CommandsInv, NEW c \in Cli, Kill(c)
  PROVE  CommandsInv'
<1> DEFINE q == [proc[c] EXCEPT !.phase = "killed", !.seen = Blank, !.tries = 1]
<1>1. /\ proc[c].phase \in Going \cup {"end"} /\ UNCHANGED trail
      /\ proc' = [proc EXCEPT ![c] = q]
  BY DEF Kill, Going
<1>2. Shape(proc[c]) BY <1>1 DEF CommandsInv, ProcOK, Going
<1>3. q.phase = "killed" BY <1>2 DEF Shape
<1> HIDE DEF q
<1>4. /\ DOMAIN proc' = Cli /\ proc'[c] = q /\ \A d \in Cli \ {c} : proc'[d] = proc[d]
  BY <1>1 DEF CommandsInv
<1>5. trail[c].outcome = "none" BY <1>1 DEF CommandsInv, TrailOK, Going
<1>6. ASSUME NEW d \in Cli
      PROVE  (proc'[d].phase \notin {"free", "killed"} => ProcOK(proc'[d])) /\ TrailOK(d)'
  <2>1. CASE d = c BY <1>1, <1>3, <1>4, <1>5, <2>1 DEF TrailOK
  <2>2. CASE d # c
    <3>1. proc'[d] = proc[d] /\ TrailOK(d) BY <1>4, <2>2 DEF CommandsInv
    <3>2. TrailOK(d)' BY <1>1, <3>1 DEF TrailOK, Logged
    <3> QED BY <3>1, <3>2 DEF CommandsInv
  <2> QED BY <2>1, <2>2
<1> QED BY <1>1, <1>4, <1>6 DEF CommandsInv

-----------------------------------------------------------------------------
LEMMA CommandsStart == CommandsInit => CommandsInv
<1> SUFFICES ASSUME CommandsInit PROVE CommandsInv OBVIOUS
<1>1. \A c \in Cli : proc[c] = Free /\ trail[c].outcome = "none" BY DEF CommandsInit
<1> QED BY <1>1 DEF CommandsInit, CommandsInv, TrailOK, Free

LEMMA CommandsKeep ==
  ASSUME CommandsInv, [CommandsNext]_commandVars
  PROVE  CommandsInv'
<1>1. CASE UNCHANGED commandVars
  BY <1>1 DEF commandVars, CommandsInv, TrailOK, Logged
<1>2. ASSUME NEW c \in Cli, CommandStep(c) PROVE CommandsInv'
  <2>1. CASE Start(c) BY <2>1, StartKeeps
  <2>2. CASE Look(c) BY <2>2, LookKeeps
  <2>3. CASE OpenLocal(c) \/ PassBy(c) \/ NotInTrash(c) \/ BreaksOff(c)
    BY <2>3, LocalKeeps
  <2>4. CASE Call(c) BY <2>4, CallKeeps
  <2>5. CASE CloseFails(c) BY <2>5, CloseKeeps
  <2>6. CASE End(c) BY <2>6, EndKeeps
  <2>7. CASE Kill(c) BY <2>7, KillKeeps
  <2> QED BY <1>2, <2>1, <2>2, <2>3, <2>4, <2>5, <2>6, <2>7 DEF CommandStep
<1> QED BY <1>1, <1>2 DEF CommandsNext

(* What a command that has ended says in the audit log is so.              *)
LEMMA TrailIsTrue == CommandsInv => AuditIsTrue
<1> SUFFICES ASSUME CommandsInv, NEW c \in Cli, trail[c].outcome # "none"
             PROVE  /\ Cardinality(proc[c].did) >= trail[c].count
                    /\ trail[c].outcome = "ok" => Requested(proc[c]) \subseteq proc[c].did
  BY DEF AuditIsTrue
<1> DEFINE p == proc[c]
           all == 1 .. Len(p.inv.ids)
           missed == Missed(p, Len(p.inv.ids))
<1>1. /\ p.phase = "over" /\ trail[c].count = Logged(p)
      /\ trail[c].outcome = "ok" => p.failed = 0
  BY DEF CommandsInv, TrailOK
<1>2. /\ Shape(p) /\ InvOK(p.inv) /\ p.failed \in Nat /\ IsFiniteSet(p.did)
      /\ p.failed = 0 \/ (p.inv.goesOn /\ p.inv.event) => Balance(p, Len(p.inv.ids))
  BY <1>1 DEF CommandsInv, ProcOK, Shape
<1>3. Cardinality(p.did) \in Nat BY <1>2, FS_CardinalityType
<1>4. ASSUME ~p.inv.skips, Balance(p, Len(p.inv.ids))
      PROVE  /\ Cardinality(p.did) >= Len(p.inv.ids) - p.failed
             /\ p.failed = 0 => DOMAIN p.inv.ids \subseteq p.did
  <2>1. Len(p.inv.ids) \in Nat /\ DOMAIN p.inv.ids = all BY <1>2, <1>4 DEF InvOK
  <2>2. IsFiniteSet(all) /\ Cardinality(all) = Len(p.inv.ids)
    BY <2>1, FS_Interval
  <2>3. missed \subseteq all /\ all \subseteq p.did \cup missed BY <2>1 DEF Missed
  <2>4. IsFiniteSet(missed) /\ Cardinality(missed) <= p.failed
    BY <1>4, <2>2, <2>3, FS_Subset DEF Balance
  <2>5. /\ IsFiniteSet(p.did \cup missed)
        /\ Cardinality(p.did \cup missed)
             = Cardinality(p.did) + Cardinality(missed) - Cardinality(p.did \cap missed)
    BY <1>2, <2>4, FS_Union
  <2>6. /\ Cardinality(missed) \in Nat /\ Cardinality(p.did \cup missed) \in Nat
        /\ Cardinality(p.did \cap missed) \in Nat
    BY <1>2, <2>4, <2>5, FS_Intersection, FS_CardinalityType
  <2>7. Cardinality(all) <= Cardinality(p.did \cup missed)
    BY <2>3, <2>5, FS_Subset
  <2> DEFINE a == Cardinality(p.did)
             b == Cardinality(missed)
             d == Cardinality(p.did \cap missed)
             e == Cardinality(p.did \cup missed)
             n == Len(p.inv.ids)
             f == p.failed
  <2>8. a >= n - f
    <3>1. /\ a \in Nat /\ b \in Nat /\ d \in Nat /\ e \in Nat /\ n \in Nat /\ f \in Nat
          /\ b <= f /\ e = a + b - d /\ n <= e
      BY <1>2, <1>3, <2>1, <2>2, <2>4, <2>5, <2>6, <2>7
    <3> HIDE DEF a, b, d, e, n, f
    <3> QED BY <3>1
  <2>9. p.failed = 0 => missed = {}
    BY <2>4, <2>6, FS_EmptySet
  <2> QED BY <2>1, <2>3, <2>8, <2>9
<1>5. Cardinality(p.did) >= Logged(p)
  <2>1. CASE p.inv.event /\ (p.failed = 0 \/ p.inv.goesOn)
    <3>1. Logged(p) = Len(p.inv.ids) - p.failed BY <2>1 DEF Logged
    <3>2. ~p.inv.skips /\ Balance(p, Len(p.inv.ids)) BY <1>2, <2>1 DEF InvOK
    <3> QED BY <1>4, <3>1, <3>2
  <2>2. CASE ~(p.inv.event /\ (p.failed = 0 \/ p.inv.goesOn))
    <3>1. Logged(p) = 0 BY <2>2 DEF Logged
    <3> QED BY <1>3, <3>1
  <2> QED BY <2>1, <2>2
<1>6. ASSUME trail[c].outcome = "ok" PROVE Requested(p) \subseteq p.did
  <2>1. CASE p.inv.skips BY <2>1 DEF Requested
  <2>2. CASE ~p.inv.skips
    <3>1. p.failed = 0 /\ Balance(p, Len(p.inv.ids)) BY <1>1, <1>2, <1>6
    <3>2. DOMAIN p.inv.ids \subseteq p.did BY <1>4, <2>2, <3>1
    <3> QED BY <3>2 DEF Requested
  <2> QED BY <2>1, <2>2
<1> QED BY <1>1, <1>5, <1>6

(* The audit log counts only ids for which the server carried out the      *)
(* request, and a command it records as ok left none of its ids out: for   *)
(* every command, also one that goes on after a failure, that sends all    *)
(* its ids at once, or whose requests were answered only when repeated.    *)
THEOREM TheTrailIsTrue == CommandsSpec => []AuditIsTrue
BY CommandsStart, CommandsKeep, TrailIsTrue, PTL DEF CommandsSpec
-----------------------------------------------------------------------------
(* What else an invocation says: rename and mv read the row of an id       *)
(* before they send its version; only downloads touch the disk, and those  *)
(* that write the named file itself take their ids as given.               *)
InvFields == {"request", "ids", "look", "into", "name", "saves", "goesOn", "skips",
              "bulk", "event"}
Sensible(v) ==
  /\ InvFields \subseteq DOMAIN v /\ v.name \in Name
  /\ v.saves \in Direct \cup {"no", "renamed"}
  /\ v.request \in Others \cup Versioned \cup {"Download", "DownloadPhoto"}
  /\ v.request \in Versioned => v.look = "row" /\ v.saves = "no"
  /\ v.saves # "no" => v.request \in {"Download", "DownloadPhoto"}
  /\ v.saves \in Direct => ~v.skips /\ v.look \in {"none", "names"}

Sends(v, request) ==
  /\ InvFields \subseteq DOMAIN v /\ v.name \in Name /\ v.request = request
  /\ v.look = "none" /\ v.saves = "no" /\ ~v.skips
LEMMA FamiliesSend ==
  ASSUME NEW request
  PROVE  /\ Sends(Command(request), request)
         /\ \A v \in Each(request) \cup ToEach(request) \cup One(request)
                       \cup OnePlace(request) : Sends(v, request)
<1>1. AName \in Name BY NameAssumption DEF AName
<1>2. Sends(Command(request), request) BY <1>1 DEF Sends, Command, InvFields
<1>3. ASSUME NEW v, Sends(v, request), NEW x
      PROVE  /\ Sends([v EXCEPT !.ids = x], request) /\ Sends([v EXCEPT !.into = x], request)
             /\ x \in Name => Sends([v EXCEPT !.name = x], request)
  BY <1>3 DEF Sends, InvFields
<1>4. ASSUME NEW v \in Each(request) PROVE Sends(v, request)
  <2>1. PICK l \in Lists : v = [Command(request) EXCEPT !.ids = l] BY DEF Each
  <2> QED BY <1>2, <1>3, <2>1
<1>5. ASSUME NEW v \in ToEach(request) PROVE Sends(v, request)
  <2>1. \E u \in Each(request), f \in Into \cup {Root} : v = [u EXCEPT !.into = f]
    BY DEF ToEach
  <2> QED BY <1>3, <1>4, <2>1
<1>6. ASSUME NEW v \in One(request) PROVE Sends(v, request)
  <2>1. \E u \in {w \in Each(request) : Len(w.ids) = 1}, n \in NewNames :
          v = [u EXCEPT !.name = n]
    BY DEF One
  <2>2. PICK u \in Each(request), n \in NewNames : v = [u EXCEPT !.name = n] BY <2>1
  <2> QED BY <1>3, <1>4, <2>2, UserAssumption
<1>7. ASSUME NEW v \in OnePlace(request) PROVE Sends(v, request)
  <2>1. \E u \in One(request), f \in Into \cup {Root} : v = [u EXCEPT !.into = f]
    BY DEF OnePlace
  <2> QED BY <1>3, <1>6, <2>1
<1> QED BY <1>2, <1>4, <1>5, <1>6, <1>7

LEMMA DownloadsAreSensible ==
  ASSUME NEW v \in UNION {Download, GalleryDownload, VersionsDownload, SharedDownload, Zip}
  PROVE  Sensible(v)
<1>1. AName \in Name BY NameAssumption DEF AName
<1> DEFINE Tame(u) == /\ Sensible(u) /\ u.saves = "renamed"
                      /\ u.request \in {"Download", "DownloadPhoto"}
<1>2. Tame(Downloading)
  <2>1. /\ DOMAIN Downloading = InvFields /\ Downloading.name = AName
        /\ Downloading.request = "Download" /\ Downloading.saves = "renamed"
    BY DEF Downloading, Command, InvFields
  <2> QED BY <1>1, <2>1 DEF Sensible, Direct, Versioned
<1>3. Tame(PhotoDownload)
  <2>1. /\ DOMAIN PhotoDownload = InvFields /\ PhotoDownload.name = AName
        /\ PhotoDownload.request = "DownloadPhoto" /\ PhotoDownload.saves = "renamed"
    BY DEF PhotoDownload, Downloading, Command, InvFields
  <2> QED BY <1>1, <2>1 DEF Sensible, Direct, Versioned
<1>4. ASSUME NEW u, Tame(u), NEW x, v = [u EXCEPT !.ids = x] \/
                                    v = [u EXCEPT !.ids = << >>, !.skips = TRUE]
      PROVE  Sensible(v)
  BY <1>4 DEF Sensible, InvFields, Direct, Versioned
<1> HIDE DEF Tame
<1>5. ASSUME v \in Download \cup GalleryDownload PROVE Sensible(v)
  <2>1. PICK u \in {Downloading, PhotoDownload} :
          \/ \E l \in Lists : v = [u EXCEPT !.ids = l]
          \/ v = [u EXCEPT !.ids = << >>, !.skips = TRUE]
    BY <1>5 DEF Download, GalleryDownload
  <2> QED BY <1>2, <1>3, <1>4, <2>1
<1>6. ASSUME NEW u, Sends(u, "Download"),
             \/ v = [u EXCEPT !.saves = "unchecked", !.event = FALSE]
             \/ v = [u EXCEPT !.saves = "plain", !.look = "names"]
             \/ v = [u EXCEPT !.saves = "zip"]
      PROVE  Sensible(v)
  BY <1>6 DEF Sends, Sensible, InvFields, Direct, Versioned
<1>7. ASSUME v \in VersionsDownload \cup SharedDownload \cup Zip PROVE Sensible(v)
  <2>1. PICK u \in One("Download") \cup Each("Download") :
             \/ v = [u EXCEPT !.saves = "unchecked", !.event = FALSE]
             \/ v = [u EXCEPT !.saves = "plain", !.look = "names"]
             \/ v = [u EXCEPT !.saves = "zip"]
    BY <1>7 DEF VersionsDownload, SharedDownload, Zip
  <2> QED BY <1>6, <2>1, FamiliesSend
<1> QED BY <1>5, <1>7

LEMMA CommandsAreSensible == ASSUME NEW v \in Commands PROVE Sensible(v)
<1>1. ASSUME NEW u, NEW request \in Others, Sends(u, request),
             \/ v = u
             \/ v = [u EXCEPT !.event = FALSE]
             \/ \E f : v = [u EXCEPT !.into = f, !.event = FALSE]
             \/ \E look : v = [u EXCEPT !.look = look]
             \/ v = [u EXCEPT !.goesOn = TRUE] \/ v = [u EXCEPT !.bulk = TRUE]
      PROVE  Sensible(v)
  BY <1>1 DEF Sends, Sensible, InvFields, Direct, Versioned, Others
<1>2. CASE v \in Listing
  <2>1. v = [Command("read") EXCEPT !.event = FALSE] BY <1>2 DEF Listing
  <2> QED BY <1>1, <2>1, FamiliesSend DEF Others
<1>3. CASE v \in UNION {Download, GalleryDownload, VersionsDownload, SharedDownload, Zip}
  BY <1>3, DownloadsAreSensible
<1>4. CASE v \in Rename \cup Mv
  <2>1. PICK request \in Versioned : \E u \in One(request) \cup ToEach(request) :
          v = [u EXCEPT !.look = "row"]
    BY <1>4 DEF Rename, Mv, Versioned
  <2>2. PICK u : Sends(u, request) /\ v = [u EXCEPT !.look = "row"] BY <2>1, FamiliesSend
  <2> QED BY <2>1, <2>2 DEF Sends, Sensible, InvFields, Direct, Versioned
<1>5. CASE v \in UNION {TrashRestore, TrashRm, ShareUpdate, SharedUpload, GalleryRm, Mkdir}
  <2>1. \E request \in Others : \E u :
          /\ u \in {Command(request)} \cup Each(request) \cup One(request)
          /\ \/ \E f : v = [u EXCEPT !.into = f, !.event = FALSE]
             \/ \E look : v = [u EXCEPT !.look = look]
             \/ v = [u EXCEPT !.goesOn = TRUE] \/ v = [u EXCEPT !.bulk = TRUE]
    <3>1. CASE v \in TrashRestore BY <3>1 DEF TrashRestore, Others
    <3>2. CASE v \in TrashRm BY <3>2 DEF TrashRm, Others
    <3>3. CASE v \in ShareUpdate BY <3>3 DEF ShareUpdate, Others
    <3>4. CASE v \in SharedUpload BY <3>4 DEF SharedUpload, Others
    <3>5. CASE v \in GalleryRm BY <3>5 DEF GalleryRm, Others
    <3>6. CASE v \in Mkdir BY <3>6 DEF Mkdir, Others
    <3> QED BY <1>5, <3>1, <3>2, <3>3, <3>4, <3>5, <3>6
  <2> QED BY <1>1, <2>1, FamiliesSend
<1>6. CASE \E request \in Others : Simple(v, request)
  BY <1>1, <1>6, FamiliesSend DEF Simple
<1> QED BY <1>2, <1>3, <1>4, <1>5, <1>6, CommandsCome

-----------------------------------------------------------------------------
(* A process, for the arguments about what it has read and what it writes. *)
ProcFields == {"phase", "inv", "at", "tries", "seen", "did", "failed"}
Sane(p) ==
  /\ ProcFields \subseteq DOMAIN p /\ Sensible(p.inv)
  /\ {"row", "files", "folders", "paths"} \subseteq DOMAIN p.seen
  /\ p.phase \in Going \cup {"end", "over", "killed"}
  /\ p.failed \in Nat
  /\ p.phase = "open" => p.inv.saves \in Direct

(* What may become of a process in a step after its lookup: it goes on to  *)
(* another id or ends, and asks with what it has seen for the current one. *)
Follows(p, q) ==
  /\ Sane(q) /\ q.inv = p.inv /\ q.failed >= p.failed
  /\ q.phase = "call" => \/ p.inv.look # "row" \/ p.inv.saves # "no"
                         \/ p.phase = "call" /\ q.at = p.at /\ q.seen = p.seen
AllSane ==
  DOMAIN proc = Cli /\ \A c \in Cli : proc[c].phase # "free" => Sane(proc[c])

LEMMA StopFollows ==
  ASSUME NEW p, Sane(p) PROVE Follows(p, Stop(p)) /\ Stop(p).failed > 0
<1> DEFINE q == Stop(p)
<1>1. /\ DOMAIN q = DOMAIN p /\ q.inv = p.inv /\ q.seen = p.seen /\ q.failed = p.failed + 1
      /\ q.phase = "end"
  BY DEF Stop, Sane, ProcFields
<1> HIDE DEF q
<1>2. p.failed \in Nat /\ q.failed \in Nat /\ q.failed > 0 /\ q.failed >= p.failed
  BY <1>1 DEF Sane
<1> QED BY <1>1, <1>2 DEF Sane, Follows, Going, q

LEMMA NextFollows ==
  ASSUME NEW p, Sane(p) PROVE Follows(p, NextId(p)) /\ NextId(p).failed = p.failed
<1>1. CASE p.at < Len(p.inv.ids) /\ ~p.inv.bulk
  <2> DEFINE f == IF p.inv.look = "row" THEN "look" ELSE Ready(p.inv)
             q == [p EXCEPT !.at = @ + 1, !.tries = 1, !.phase = f]
  <2>1. NextId(p) = q BY <1>1 DEF NextId
  <2>2. /\ f \in Going /\ (f = "open" => p.inv.saves \in Direct)
        /\ f = "call" => p.inv.look # "row"
    BY DEF Ready, Going, Direct
  <2>3. /\ DOMAIN q = DOMAIN p /\ q.phase = f /\ q.inv = p.inv /\ q.seen = p.seen
        /\ q.failed = p.failed
    BY DEF Sane, ProcFields
  <2> HIDE DEF q, f
  <2>4. q.failed >= p.failed BY <2>3 DEF Sane
  <2> QED BY <2>1, <2>2, <2>3, <2>4 DEF Sane, Follows
<1>2. CASE ~(p.at < Len(p.inv.ids) /\ ~p.inv.bulk)
  <2> DEFINE q == [p EXCEPT !.phase = "end"]
  <2>1. NextId(p) = q BY <1>2 DEF NextId
  <2>2. /\ DOMAIN q = DOMAIN p /\ q.phase = "end" /\ q.inv = p.inv /\ q.seen = p.seen
        /\ q.failed = p.failed
    BY DEF Sane, ProcFields
  <2> HIDE DEF q
  <2>3. q.failed >= p.failed BY <2>2 DEF Sane
  <2> QED BY <2>1, <2>2, <2>3 DEF Sane, Follows
<1> QED BY <1>1, <1>2

LEMMA FailsFollow ==
  ASSUME NEW p, Sane(p) PROVE Follows(p, Fails(p)) /\ Fails(p).failed > 0
<1>1. CASE ~p.inv.goesOn BY <1>1, StopFollows DEF Fails
<1>2. CASE p.inv.goesOn
  <2> DEFINE q == [p EXCEPT !.failed = @ + 1]
  <2>1. Fails(p) = NextId(q) BY <1>2 DEF Fails
  <2>2. /\ DOMAIN q = DOMAIN p /\ q.phase = p.phase /\ q.inv = p.inv /\ q.seen = p.seen
        /\ q.failed = p.failed + 1 /\ q.at = p.at
    BY DEF Sane, ProcFields
  <2> HIDE DEF q
  <2>3. p.failed \in Nat /\ q.failed \in Nat BY <2>2 DEF Sane
  <2>4. Sane(q) BY <2>2, <2>3 DEF Sane
  <2>5. Follows(q, NextId(q)) /\ NextId(q).failed = q.failed BY <2>4, NextFollows
  <2>6. NextId(q).failed > 0 /\ NextId(q).failed >= p.failed BY <2>2, <2>3, <2>5
  <2> QED BY <2>1, <2>2, <2>5, <2>6 DEF Follows
<1> QED BY <1>1, <1>2

(* The steps, by what becomes of the process that takes them.              *)
LookStep(c, q) ==
  /\ proc[c].phase = "look" /\ proc' = [proc EXCEPT ![c] = q] /\ UNCHANGED disk
  /\ Sane(q) /\ q.inv.saves = proc[c].inv.saves /\ q.failed >= proc[c].failed
  /\ q.inv.request = proc[c].inv.request
  /\ q.phase = "call" /\ q.inv.request \in Versioned =>
       /\ q.seen.row = File(Current(q)) /\ Live(Current(q)) /\ server' = server

LEMMA ShownIsSane ==
  ASSUME NEW p, Sane(p), p.inv.look \in Before \ {"none"}, NEW s \in Shown(p)
  PROVE  /\ Sane(s) /\ s.inv.saves = p.inv.saves /\ s.inv.request = p.inv.request
         /\ s.failed = p.failed /\ s.inv.look = p.inv.look
         /\ p.inv.look = "row" => s.inv = p.inv /\ s.at = p.at /\ s.seen.row = File(Current(p))
<1>1. ASSUME NEW row, s = [p EXCEPT !.seen.row = row]
      PROVE  /\ DOMAIN s = DOMAIN p /\ s.inv = p.inv /\ s.at = p.at /\ s.failed = p.failed
             /\ s.phase = p.phase /\ s.seen = [p.seen EXCEPT !.row = row]
  BY <1>1 DEF Sane, ProcFields
<1>2. ASSUME NEW seen, NEW ids, {"row", "files", "folders", "paths"} \subseteq DOMAIN seen,
             s = [p EXCEPT !.seen = seen, !.inv.ids = IF p.inv.skips THEN ids ELSE @]
      PROVE  /\ Sane(s) /\ s.inv.saves = p.inv.saves /\ s.inv.request = p.inv.request
             /\ s.failed = p.failed /\ s.inv.look = p.inv.look
  <2> DEFINE v == [p.inv EXCEPT !.ids = IF p.inv.skips THEN ids ELSE @]
  <2>1. /\ DOMAIN s = DOMAIN p /\ s.inv = v /\ s.seen = seen /\ s.failed = p.failed
        /\ s.phase = p.phase
    BY <1>2 DEF Sane, ProcFields
  <2>2. Sensible(v) /\ v.saves = p.inv.saves /\ v.request = p.inv.request
        /\ v.look = p.inv.look
    BY DEF Sane, Sensible, InvFields
  <2> HIDE DEF v
  <2> QED BY <1>2, <2>1, <2>2 DEF Sane
<1>3. CASE p.inv.look = "row"
  <2>1. s = [p EXCEPT !.seen.row = File(Current(p))] BY <1>3 DEF Shown, ShownRow
  <2>2. s.seen = [p.seen EXCEPT !.row = File(Current(p))] BY <1>1, <2>1
  <2>3. s.seen.row = File(Current(p)) /\ DOMAIN s.seen = DOMAIN p.seen
    BY <2>2 DEF Sane
  <2> QED BY <1>1, <2>1, <2>3 DEF Sane
<1>4. CASE p.inv.look = "link"
  <2>1. s = [p EXCEPT !.seen.row.ver = Row("link", Current(p)).ver]
    BY <1>4 DEF Shown, ShownLink
  <2>2. \E row : s = [p EXCEPT !.seen.row = row] BY <2>1 DEF Sane, ProcFields
  <2> QED BY <1>1, <1>4, <2>2 DEF Sane
<1>5. CASE p.inv.look = "trash"
  <2>1. s = [p EXCEPT !.seen.files = FilesTrash.files, !.seen.folders = FilesTrash.folders]
    BY <1>5 DEF Shown, ShownTrash
  <2>2. /\ DOMAIN s = DOMAIN p /\ s.inv = p.inv /\ s.failed = p.failed /\ s.phase = p.phase
        /\ DOMAIN s.seen = DOMAIN p.seen
    BY <2>1 DEF Sane, ProcFields
  <2> QED BY <1>5, <2>2 DEF Sane
<1>6. CASE p.inv.look \in {"tree", "names", "photos"}
  <2>1. \E paths, ids : s = [p EXCEPT !.seen.paths = paths,
                                      !.inv.ids = IF p.inv.skips THEN ids ELSE @]
    <3>1. CASE p.inv.look \in {"tree", "names"}
      <4>1. s = ShownTree(p) BY <3>1 DEF Shown
      <4> QED BY <4>1 DEF ShownTree
    <3>2. CASE p.inv.look = "photos"
      <4>1. PICK names, images : s = ShownPhotos(p, names, images) BY <3>2 DEF Shown
      <4> QED BY <4>1 DEF ShownPhotos
    <3> QED BY <1>6, <3>1, <3>2
  <2>2. PICK paths, ids : s = [p EXCEPT !.seen.paths = paths,
                                      !.inv.ids = IF p.inv.skips THEN ids ELSE @]
    BY <2>1
  <2> DEFINE seen == [p.seen EXCEPT !.paths = paths]
  <2>3. s = [p EXCEPT !.seen = seen, !.inv.ids = IF p.inv.skips THEN ids ELSE @]
    BY <2>2 DEF Sane, ProcFields
  <2>4. {"row", "files", "folders", "paths"} \subseteq DOMAIN seen BY DEF Sane
  <2> HIDE DEF seen
  <2> QED BY <1>2, <1>6, <2>3, <2>4
<1> QED BY <1>3, <1>4, <1>5, <1>6 DEF Before

LEMMA LookBecomes ==
  ASSUME CommandsInv, AllSane, NEW c \in Cli, Look(c)
  PROVE  \E q : LookStep(c, q)
<1> DEFINE p == proc[c]
<1>1. p.phase = "look" /\ UNCHANGED disk BY DEF Look
<1>2. Sane(p) /\ p.inv.look \in Before \ {"none"}
  BY <1>1 DEF AllSane, CommandsInv, ProcOK, Shape, InvOK
<1>3. p.failed \in Nat BY <1>2 DEF Sane
<1>4. PICK q : /\ proc' = [proc EXCEPT ![c] = q]
               /\ \/ \E s \in Shown(p) : q = AfterLook(s) /\ Found(p) /\ server' = server
                  \/ q = [p EXCEPT !.tries = @ + 1]
                  \/ q = AfterLook(p) /\ p.inv.look = "names"
                  \/ q = Stop(p)
  <2>1. PICK a \in Answered(Reading) \cup Unanswered(Reading) :
       /\ Attempt(Reading, a)
       /\ IF ~Retries(a, p.tries) /\ a.answer = "ok" /\ Found(p)
          THEN \E q \in Shown(p) : proc' = [proc EXCEPT ![c] = AfterLook(q)]
          ELSE proc' = [proc EXCEPT ![c] =
                 IF Retries(a, p.tries) THEN [p EXCEPT !.tries = @ + 1]
                 ELSE IF p.inv.look = "names" THEN AfterLook(p) ELSE Stop(p)]
    BY DEF Look
  <2>2. server' = server
    <3>1. \A o \in Reading \cup {Refused} : o.server = server BY DEF Reading, Done, Refused
    <3>2. a.server = server BY <3>1 DEF Answered, Unanswered
    <3> QED BY <2>1, <3>2 DEF Attempt
  <2> QED BY <2>1, <2>2
<1>5. ASSUME NEW s, Sane(s), s.inv.saves = p.inv.saves, s.inv.request = p.inv.request,
             s.failed = p.failed
      PROVE  LET r == AfterLook(s) IN
             /\ Sane(r) /\ r.inv = s.inv /\ r.failed = p.failed /\ r.seen = s.seen
             /\ r.at = s.at
  <2>1. PICK f \in {"end", Ready(s.inv)} :
          \/ AfterLook(s) = [s EXCEPT !.phase = f]
          \/ AfterLook(s) = [s EXCEPT !.phase = f, !.tries = 1]
    BY DEF AfterLook
  <2>2. f \in Going \cup {"end"} /\ (f = "open" => s.inv.saves \in Direct)
    BY DEF Ready, Going, Direct
  <2>3. PICK r : r = AfterLook(s) OBVIOUS
  <2>4. /\ DOMAIN r = DOMAIN s /\ r.inv = s.inv /\ r.failed = s.failed /\ r.seen = s.seen
        /\ r.at = s.at /\ r.phase = f
    BY <1>5, <2>1, <2>3 DEF Sane, ProcFields
  <2> QED BY <1>5, <2>2, <2>3, <2>4 DEF Sane
<1> HIDE DEF p
<1>6. CASE \E s \in Shown(p) : q = AfterLook(s) /\ Found(p) /\ server' = server
  <2>1. PICK s \in Shown(p) : q = AfterLook(s) /\ Found(p) /\ server' = server BY <1>6
  <2>2. /\ Sane(s) /\ s.inv.saves = p.inv.saves /\ s.inv.request = p.inv.request
        /\ s.failed = p.failed /\ s.inv.look = p.inv.look
        /\ p.inv.look = "row" => s.inv = p.inv /\ s.at = p.at /\ s.seen.row = File(Current(p))
    BY <1>2, ShownIsSane
  <2>3. Sane(q) /\ q.inv = s.inv /\ q.failed = p.failed /\ q.seen = s.seen /\ q.at = s.at
    BY <1>5, <2>1, <2>2
  <2>4. q.inv.request \in Versioned => p.inv.look = "row" BY <2>2, <2>3 DEF Sane, Sensible
  <2>5. p.inv.look = "row" => Live(Current(p)) BY <2>1 DEF Found
  <2>6. p.inv.look = "row" => Current(q) = Current(p) BY <2>2, <2>3 DEF Current
  <2>7. q.failed >= p.failed BY <1>3, <2>3
  <2> QED BY <1>1, <1>4, <2>1, <2>2, <2>3, <2>4, <2>5, <2>6, <2>7 DEF LookStep, p
<1>7. CASE q = [p EXCEPT !.tries = @ + 1]
  <2>1. /\ DOMAIN q = DOMAIN p /\ q.inv = p.inv /\ q.failed = p.failed /\ q.seen = p.seen
        /\ q.phase = "look"
    BY <1>1, <1>2, <1>7 DEF Sane, ProcFields, p
  <2>2. Sane(q) /\ q.failed >= p.failed BY <1>2, <1>3, <2>1 DEF Sane, Going
  <2> QED BY <1>1, <1>4, <2>1, <2>2 DEF LookStep, p
<1>8. CASE q = AfterLook(p) /\ p.inv.look = "names"
  <2>1. Sane(q) /\ q.inv = p.inv /\ q.failed = p.failed BY <1>2, <1>5, <1>8
  <2>2. q.inv.request \notin Versioned BY <1>2, <1>8, <2>1 DEF Sane, Sensible
  <2>3. q.failed >= p.failed BY <1>3, <2>1
  <2> QED BY <1>1, <1>4, <2>1, <2>2, <2>3 DEF LookStep, p
<1>9. CASE q = Stop(p)
  <2>1. Follows(p, q) BY <1>2, <1>9, StopFollows
  <2>2. q.phase # "call" BY <1>2, <1>9 DEF Stop, Sane, ProcFields
  <2> QED BY <1>1, <1>4, <2>1, <2>2 DEF LookStep, Follows, p
<1> QED BY <1>4, <1>6, <1>7, <1>8, <1>9

(* Whose file Close may have left unfinished.                              *)
Blames(p) ==
  /\ p.phase # "free"
  /\ \/ p.inv.saves = "unchecked"
     \/ p.failed > 0 /\ p.inv.saves \in {"plain", "zip"}

(* What a step does to the local files: a torn file stays excused by the   *)
(* process that opened it, or is made whole, or is removed, or could not   *)
(* be closed.                                                              *)
DiskFollows(p, q) ==
  /\ q.inv.saves = p.inv.saves /\ q.failed >= p.failed /\ q.phase # "free"
  /\ \/ /\ disk' = disk
        /\ p.phase = "call" /\ p.inv.saves \in Direct =>
             q.phase = "killed" \/ (q.phase = "call" /\ Target(q) = Target(p))
     \/ /\ disk' = Put(disk, Target(p), Torn) /\ q.phase = "call" /\ Target(q) = Target(p)
        /\ p.phase = "open" /\ p.inv.saves \in Direct
     \/ disk' = Saved(p) /\ Body(p) \in Data
     \/ disk' = disk /\ p.inv.saves \in {"plain", "unchecked"} /\ q.failed > 0
     \/ disk' = Drop(disk, Target(p)) /\ p.inv.saves = "zip"
     \/ disk' = Put(disk, Target(p), Unclosed) /\ Blames(q)
Excuses(p, path) ==
  \/ p.phase = "call" /\ p.inv.saves \in Direct /\ Target(p) = path
  \/ p.phase = "killed" /\ p.inv.saves \in Direct
  \/ p.phase # "free" /\ p.failed > 0 /\ p.inv.saves \in {"plain", "unchecked"}
TornInv == \A path \in DOMAIN disk : disk[path] = Torn => \E c \in Cli : Excuses(proc[c], path)
UnclosedInv == \A path \in DOMAIN disk : disk[path] = Unclosed => \E c \in Cli : Blames(proc[c])

LEMMA WritesKeep ==
  ASSUME AllSane, TornInv, NEW c \in Cli, NEW q, proc' = [proc EXCEPT ![c] = q],
         proc[c].phase \in Going \cup {"end"}, DiskFollows(proc[c], q), q.failed \in Nat
  PROVE  TornInv'
<1> DEFINE p == proc[c]
<1>1. Sane(p) /\ p.failed \in Nat BY DEF AllSane, Sane, Going
<1>2. /\ DOMAIN proc' = Cli /\ proc'[c] = q /\ \A d \in Cli \ {c} : proc'[d] = proc[d]
  BY DEF AllSane
<1>3. PICK target : target = Target(p) OBVIOUS
<1>4. ASSUME NEW path \in DOMAIN disk, disk[path] = Torn,
             p.phase = "call" /\ p.inv.saves \in Direct /\ path = target => Excuses(q, path)
      PROVE  \E d \in Cli : Excuses(proc'[d], path)
  <2>1. PICK d \in Cli : Excuses(proc[d], path) BY <1>4 DEF TornInv
  <2>2. CASE d = c
    <3>1. p.failed > 0 /\ p.inv.saves \in {"plain", "unchecked"} => Excuses(q, path)
      <4> SUFFICES ASSUME p.failed > 0, p.inv.saves \in {"plain", "unchecked"}
                   PROVE  Excuses(q, path)
        OBVIOUS
      <4>1. q.failed >= p.failed => q.failed > 0
        <5>1. PICK m, n \in Nat : m = p.failed /\ n = q.failed BY <1>1
        <5> QED BY <5>1
      <4> QED BY <4>1 DEF DiskFollows, Excuses
    <3>2. p.phase # "killed" BY DEF Going
    <3>3. Excuses(q, path) BY <1>3, <1>4, <2>1, <2>2, <3>1, <3>2 DEF Excuses
    <3> QED BY <1>2, <3>3
  <2>3. CASE d # c BY <1>2, <2>1, <2>3
  <2> QED BY <2>2, <2>3
<1> SUFFICES ASSUME NEW path \in DOMAIN disk', disk'[path] = Torn
             PROVE  \E d \in Cli : Excuses(proc'[d], path)
  <2>1. ASSUME NEW d \in Cli, NEW path, Excuses(proc'[d], path)
        PROVE  Excuses(proc[d], path)'
    BY <2>1 DEF Excuses, Target, Current
  <2> QED BY <2>1 DEF TornInv
<1>5. CASE /\ disk' = disk
           /\ p.phase = "call" /\ p.inv.saves \in Direct =>
                q.phase = "killed" \/ (q.phase = "call" /\ Target(q) = Target(p))
  <2>1. p.phase = "call" /\ p.inv.saves \in Direct /\ path = target => Excuses(q, path)
    BY <1>3, <1>5 DEF Excuses, DiskFollows
  <2> QED BY <1>4, <1>5, <2>1
<1>6. CASE /\ disk' = Put(disk, Target(p), Torn) /\ q.phase = "call" /\ Target(q) = Target(p)
           /\ p.phase = "open" /\ p.inv.saves \in Direct
  <2>1. CASE path = target
    <3>1. Excuses(q, path) BY <1>3, <1>6, <2>1 DEF Excuses, DiskFollows
    <3> QED BY <1>2, <3>1
  <2>2. CASE path # target
    <3>1. path \in DOMAIN disk /\ disk[path] = Torn BY <1>3, <1>6, <2>2 DEF Put
    <3> QED BY <1>4, <2>2, <3>1
  <2> QED BY <2>1, <2>2
<1>7. CASE disk' = Saved(p) /\ Body(p) \in Data
  <2>1. path # target /\ path \in DOMAIN disk /\ disk[path] = Torn
    BY <1>3, <1>7, TornAssumption DEF Saved, Put
  <2> QED BY <1>4, <2>1
<1>8. CASE p.inv.saves \in {"plain", "unchecked"} /\ q.failed > 0
  <2>1. Excuses(q, path) BY <1>8 DEF Excuses, DiskFollows
  <2> QED BY <1>2, <2>1
<1>9. CASE disk' = Drop(disk, Target(p)) /\ p.inv.saves = "zip"
  <2>1. path # target /\ path \in DOMAIN disk /\ disk[path] = Torn
    BY <1>3, <1>9 DEF Drop
  <2> QED BY <1>4, <2>1
<1>10. CASE disk' = Put(disk, Target(p), Unclosed)
  <2>1. path # target /\ path \in DOMAIN disk /\ disk[path] = Torn
    BY <1>3, <1>10 DEF Put, Torn, Unclosed
  <2> QED BY <1>4, <2>1
<1> QED BY <1>5, <1>6, <1>7, <1>8, <1>9, <1>10 DEF DiskFollows

LEMMA ClosesKeep ==
  ASSUME AllSane, UnclosedInv, NEW c \in Cli, NEW q, proc' = [proc EXCEPT ![c] = q],
         proc[c].phase \in Going \cup {"end"}, DiskFollows(proc[c], q), q.failed \in Nat
  PROVE  UnclosedInv'
<1>1. PICK p : p = proc[c] OBVIOUS
<1>2. Sane(p) /\ p.failed \in Nat BY <1>1 DEF AllSane, Sane, Going
<1>3. proc'[c] = q /\ \A d \in Cli \ {c} : proc'[d] = proc[d] BY DEF AllSane
<1>4. /\ q.inv.saves = p.inv.saves /\ q.failed >= p.failed /\ q.phase # "free"
  BY <1>1 DEF DiskFollows
<1>5. ASSUME NEW d \in Cli, Blames(proc[d]) PROVE Blames(proc'[d])
  <2>1. CASE d = c
    <3>1. p.failed > 0 => q.failed > 0
      <4>1. PICK m, n \in Nat : m = p.failed /\ n = q.failed BY <1>2
      <4> QED BY <1>4, <4>1
    <3> QED BY <1>1, <1>3, <1>4, <1>5, <2>1, <3>1 DEF Blames
  <2>2. CASE d # c BY <1>3, <1>5, <2>2
  <2> QED BY <2>1, <2>2
<1> SUFFICES ASSUME NEW path \in DOMAIN disk', disk'[path] = Unclosed
             PROVE  \E d \in Cli : Blames(proc'[d])
  BY DEF UnclosedInv, Blames
<1>6. CASE path \in DOMAIN disk /\ disk[path] = Unclosed BY <1>5, <1>6 DEF UnclosedInv
<1>7. CASE Blames(q) BY <1>3, <1>7
<1>8. Unclosed # Torn BY DEF Torn, Unclosed
<1>9. Body(p) \in Data => Body(p) # Unclosed BY TornAssumption
<1>10. \/ disk' = disk
       \/ disk' = Put(disk, Target(p), Torn)
       \/ disk' = Put(disk, Target(p), Body(p)) /\ Body(p) # Unclosed
       \/ disk' = Drop(disk, Target(p))
       \/ Blames(q)
  BY <1>1, <1>9 DEF DiskFollows, Saved
<1> QED BY <1>6, <1>7, <1>8, <1>10 DEF Put, Drop

(* A download that was answered brings a content.                          *)
LEMMA BodyIsData ==
  ASSUME Rows(server), NEW p, Sensible(p.inv), p.inv.saves # "no",
         NEW o \in Outcomes(p), o.ok
  PROVE  Body(p) \in Data
<1>1. CASE p.inv.request = "DownloadPhoto" BY <1>1, NameAssumption DEF Body
<1>2. CASE p.inv.request = "Download"
  <2>1. Outcomes(p) = May(Live(Current(p)), server) BY <1>2 DEF Outcomes
  <2>2. Live(Current(p)) BY <2>1 DEF May, Refused
  <2>3. File(Current(p)) \in FileRow BY <2>2, RowsAre DEF Live
  <2> QED BY <1>2, <2>3 DEF Body, FileRow
<1> QED BY <1>1, <1>2 DEF Sensible

(* A request: it is repeated, answered or given up.                        *)
Acts(c, q) ==
  LET p == proc[c] IN
  /\ p.phase \in Going \cup {"end"} /\ proc' = [proc EXCEPT ![c] = q]
  /\ Follows(p, q) /\ DiskFollows(p, q)

LEMMA CallBecomes ==
  ASSUME Rows(server), AllSane, NEW c \in Cli, Call(c)
  PROVE  /\ \E q : Acts(c, q)
         /\ server' = server \/ \E o \in Outcomes(proc[c]) : server' = o.server
<1> DEFINE p == proc[c]
           did == IF p.inv.bulk THEN DOMAIN p.inv.ids ELSE {p.at}
<1>1. p.phase = "call" /\ Sane(p) BY DEF AllSane, Call
<1>2. PICK a \in Answered(Outcomes(p)) \cup Unanswered(Outcomes(p)) :
        LET q == IF a.done THEN [p EXCEPT !.did = @ \cup did] ELSE p IN
        /\ Attempt(Outcomes(p), a)
        /\ IF Retries(a, p.tries)
           THEN proc' = [proc EXCEPT ![c] = [q EXCEPT !.tries = @ + 1]] /\ UNCHANGED disk
           ELSE IF a.answer = "ok"
           THEN /\ proc' = [proc EXCEPT ![c] = NextId(q)]
                /\ disk' = IF p.inv.saves = "no" THEN disk ELSE Saved(p)
           ELSE proc' = [proc EXCEPT ![c] = Fails(q)] /\ disk' = Unsaved(p)
  BY DEF Call, Carried
<1> DEFINE q == IF a.done THEN [p EXCEPT !.did = @ \cup did] ELSE p
<1>3. /\ DOMAIN q = DOMAIN p /\ q.inv = p.inv /\ q.at = p.at /\ q.failed = p.failed
      /\ q.phase = p.phase /\ q.seen = p.seen /\ q.tries = p.tries
  BY <1>1 DEF Sane, ProcFields
<1>4. server' = server \/ \E o \in Outcomes(p) : server' = o.server
  BY <1>2, AttemptIs
<1>5. a.answer = "ok" => \E o \in Outcomes(p) : o.ok BY <1>2, AttemptIs
<1>6. CASE Retries(a, p.tries)
  <2> DEFINE r == [q EXCEPT !.tries = @ + 1]
  <2>1. proc' = [proc EXCEPT ![c] = r] /\ disk' = disk BY <1>2, <1>6
  <2>2. /\ DOMAIN r = DOMAIN p /\ r.inv = p.inv /\ r.at = p.at /\ r.failed = p.failed
        /\ r.phase = p.phase /\ r.seen = p.seen
    BY <1>1, <1>3 DEF Sane, ProcFields
  <2> HIDE DEF r, q
  <2>3. r.failed >= p.failed BY <1>1, <2>2 DEF Sane
  <2>4. Follows(p, r) BY <1>1, <2>2, <2>3 DEF Follows, Sane
  <2>5. Target(r) = Target(p) BY <2>2 DEF Target, Current
  <2>6. DiskFollows(p, r) BY <1>1, <2>1, <2>2, <2>3, <2>5 DEF DiskFollows
  <2> QED BY <1>1, <1>4, <2>1, <2>4, <2>6 DEF Acts, Going
<1> HIDE DEF q
<1>7. Sane(q) BY <1>1, <1>3 DEF Sane
<1>8. CASE ~Retries(a, p.tries) /\ a.answer = "ok"
  <2>1. /\ proc' = [proc EXCEPT ![c] = NextId(q)]
        /\ disk' = IF p.inv.saves = "no" THEN disk ELSE Saved(p)
    BY <1>2, <1>8 DEF q
  <2>2. Follows(q, NextId(q)) /\ NextId(q).failed = q.failed BY <1>7, NextFollows
  <2>3. Follows(p, NextId(q)) BY <1>3, <2>2 DEF Follows
  <2>4. p.inv.saves # "no" => Body(p) \in Data BY <1>1, <1>5, <1>8, BodyIsData DEF Sane
  <2>5. NextId(q).phase # "free" BY <2>2 DEF Follows, Sane, Going
  <2>6. DiskFollows(p, NextId(q)) BY <2>1, <2>3, <2>4, <2>5 DEF DiskFollows, Follows, Direct
  <2> QED BY <1>1, <1>4, <2>1, <2>3, <2>6 DEF Acts, Going
<1>9. CASE ~Retries(a, p.tries) /\ a.answer # "ok"
  <2>1. proc' = [proc EXCEPT ![c] = Fails(q)] /\ disk' = Unsaved(p) BY <1>2, <1>9 DEF q
  <2>2. Follows(q, Fails(q)) /\ Fails(q).failed > 0 BY <1>7, FailsFollow
  <2>3. Follows(p, Fails(q)) BY <1>3, <2>2 DEF Follows
  <2>4. Fails(q).phase # "free" BY <2>2 DEF Follows, Sane, Going
  <2>5. DiskFollows(p, Fails(q))
    BY <2>1, <2>2, <2>3, <2>4 DEF DiskFollows, Follows, Direct, Unsaved
  <2> QED BY <1>1, <1>4, <2>1, <2>3, <2>5 DEF Acts, Going
<1> QED BY <1>6, <1>8, <1>9

LEMMA LocalBecomes ==
  ASSUME AllSane, NEW c \in Cli,
         \/ OpenLocal(c) \/ PassBy(c) \/ NotInTrash(c) \/ BreaksOff(c)
         \/ CloseFails(c) \/ End(c) \/ Kill(c)
  PROVE  (\E q : Acts(c, q)) /\ server' = server
<1> DEFINE p == proc[c]
<1>1. p.phase \in Going \cup {"end"}
  BY DEF OpenLocal, PassBy, NotInTrash, BreaksOff, CloseFails, End, Kill, Going
<1>2. Sane(p) /\ p.failed \in Nat BY <1>1 DEF AllSane, Sane, Going
<1>3. server' = server BY DEF OpenLocal, PassBy, NotInTrash, BreaksOff, CloseFails, End, Kill
<1>4. CASE OpenLocal(c)
  <2> DEFINE q == [p EXCEPT !.phase = "call"]
  <2>1. /\ proc' = [proc EXCEPT ![c] = q] /\ disk' = Put(disk, Target(p), Torn)
        /\ p.phase = "open"
    BY <1>4 DEF OpenLocal
  <2>2. /\ DOMAIN q = DOMAIN p /\ q.inv = p.inv /\ q.at = p.at /\ q.failed = p.failed
        /\ q.phase = "call" /\ q.seen = p.seen
    BY <1>2 DEF Sane, ProcFields
  <2> HIDE DEF q
  <2>3. p.inv.saves \in Direct /\ p.inv.saves # "no" BY <1>2, <2>1 DEF Sane, Direct
  <2>4. q.failed >= p.failed BY <1>2, <2>2
  <2>5. Follows(p, q) BY <1>2, <2>2, <2>3, <2>4 DEF Follows, Sane, Going
  <2>6. Target(q) = Target(p) BY <2>2 DEF Target, Current
  <2>7. DiskFollows(p, q) BY <2>1, <2>2, <2>3, <2>4, <2>6 DEF DiskFollows
  <2> QED BY <1>1, <1>3, <2>1, <2>5, <2>7 DEF Acts
<1>5. CASE PassBy(c)
  <2>1. p.inv.skips /\ proc' = [proc EXCEPT ![c] = NextId(p)] /\ disk' = disk
    BY <1>5 DEF PassBy, Exists
  <2>2. p.inv.saves \notin Direct BY <1>2, <2>1 DEF Sane, Sensible
  <2>3. Follows(p, NextId(p)) BY <1>2, NextFollows
  <2>4. DiskFollows(p, NextId(p)) BY <2>1, <2>2, <2>3 DEF DiskFollows, Follows, Sane, Going
  <2> QED BY <1>1, <1>3, <2>1, <2>3, <2>4 DEF Acts
<1>6. CASE NotInTrash(c)
  <2>1. p.inv.look = "trash" /\ proc' = [proc EXCEPT ![c] = Stop(p)] /\ disk' = disk
    BY <1>6 DEF NotInTrash, Unknown
  <2>2. p.inv.saves \notin Direct BY <1>2, <2>1 DEF Sane, Sensible
  <2>3. Follows(p, Stop(p)) BY <1>2, StopFollows
  <2>4. DiskFollows(p, Stop(p)) BY <2>1, <2>2, <2>3 DEF DiskFollows, Follows, Sane, Going
  <2> QED BY <1>1, <1>3, <2>1, <2>3, <2>4 DEF Acts
<1>7. CASE BreaksOff(c)
  <2>1. proc' = [proc EXCEPT ![c] = Fails(p)] /\ disk' = Unsaved(p)
    BY <1>7 DEF BreaksOff
  <2>2. Follows(p, Fails(p)) /\ Fails(p).failed > 0 BY <1>2, FailsFollow
  <2>3. DiskFollows(p, Fails(p))
    BY <2>1, <2>2 DEF DiskFollows, Follows, Sane, Going, Direct, Unsaved
  <2> QED BY <1>1, <1>3, <2>1, <2>2, <2>3 DEF Acts
<1>8. CASE CloseFails(c)
  <2>1. PICK q : q = Carried(p) OBVIOUS
  <2>2. /\ proc' = [proc EXCEPT ![c] = IF p.inv.saves = "unchecked" THEN NextId(q) ELSE Fails(q)]
        /\ disk' = IF p.inv.saves = "renamed" THEN disk ELSE Put(disk, Target(p), Unclosed)
        /\ p.inv.saves # "no"
    BY <1>8, <2>1 DEF CloseFails
  <2>3. /\ DOMAIN q = DOMAIN p /\ q.inv = p.inv /\ q.at = p.at /\ q.failed = p.failed
        /\ q.phase = p.phase /\ q.seen = p.seen /\ q.tries = p.tries
    BY <1>2, <2>1 DEF Carried, Sane, ProcFields
  <2>4. Sane(q) BY <1>2, <2>3 DEF Sane
  <2>5. CASE p.inv.saves = "unchecked"
    <3>1. Follows(q, NextId(q)) BY <2>4, NextFollows
    <3>2. Follows(p, NextId(q)) BY <2>3, <3>1 DEF Follows
    <3>3. NextId(q).phase # "free" BY <3>1 DEF Follows, Sane, Going
    <3>4. Blames(NextId(q)) BY <2>5, <3>2, <3>3 DEF Blames, Follows
    <3>5. DiskFollows(p, NextId(q))
      BY <2>2, <2>5, <3>2, <3>3, <3>4 DEF DiskFollows, Follows
    <3> QED BY <1>1, <1>3, <2>2, <2>5, <3>2, <3>5 DEF Acts
  <2>6. CASE p.inv.saves # "unchecked"
    <3>1. Follows(q, Fails(q)) /\ Fails(q).failed > 0 BY <2>4, FailsFollow
    <3>2. Follows(p, Fails(q)) BY <2>3, <3>1 DEF Follows
    <3>3. Fails(q).phase # "free" BY <3>1 DEF Follows, Sane, Going
    <3>4. p.inv.saves \in {"renamed", "plain", "zip"} BY <1>2, <2>2, <2>6 DEF Sane, Sensible, Direct
    <3>5. p.inv.saves # "renamed" => Blames(Fails(q))
      BY <3>1, <3>2, <3>3, <3>4 DEF Blames, Follows
    <3>6. DiskFollows(p, Fails(q))
      BY <2>2, <3>2, <3>3, <3>4, <3>5 DEF DiskFollows, Follows, Direct
    <3> QED BY <1>1, <1>3, <2>2, <2>6, <3>2, <3>6 DEF Acts
  <2> QED BY <2>5, <2>6
<1>9. CASE End(c) \/ Kill(c)
  <2>1. PICK f \in {"over", "killed"} :
          /\ proc' = [proc EXCEPT ![c] = [p EXCEPT !.phase = f, !.seen = Blank, !.tries = 1]]
          /\ disk' = disk /\ (f = "over" => p.phase = "end")
    BY <1>9 DEF End, Kill
  <2> DEFINE q == [p EXCEPT !.phase = f, !.seen = Blank, !.tries = 1]
  <2>2. /\ DOMAIN q = DOMAIN p /\ q.inv = p.inv /\ q.failed = p.failed
        /\ q.phase = f /\ q.seen = Blank
    BY <1>2 DEF Sane, ProcFields
  <2>3. proc' = [proc EXCEPT ![c] = q] BY <2>1
  <2> HIDE DEF q
  <2>4. {"row", "files", "folders", "paths"} \subseteq DOMAIN Blank BY DEF Blank
  <2>5. q.failed >= p.failed BY <1>2, <2>2
  <2>6. Follows(p, q) BY <1>2, <2>2, <2>4, <2>5 DEF Follows, Sane
  <2>7. DiskFollows(p, q) BY <2>1, <2>2, <2>5 DEF DiskFollows
  <2> QED BY <1>1, <1>3, <2>3, <2>6, <2>7 DEF Acts
<1> QED BY <1>3, <1>4, <1>5, <1>6, <1>7, <1>8, <1>9

-----------------------------------------------------------------------------
(* The row a command has read for the id it is at: it was a live row of    *)
(* the file, and the row of the file has only moved on since.              *)
RowIsRead(p) ==
  p.phase = "call" /\ p.inv.request \in Versioned =>
    /\ p.seen.row \in FileRow /\ p.seen.row.at = "live"
    /\ Current(p) \in DOMAIN server.files
    /\ Later(p.seen.row, server.files[Current(p)])
ReadInv == \A c \in Cli : proc[c].phase # "free" => RowIsRead(proc[c])
LookInv == AllSane /\ TornInv /\ UnclosedInv

LEMMA LaterIsTransitive ==
  ASSUME NEW r \in FileRow, NEW s \in FileRow, NEW t \in FileRow, Later(r, s), Later(s, t)
  PROVE  Later(r, t)
<1>1. r.ver \in Nat /\ s.ver \in Nat /\ t.ver \in Nat BY DEF FileRow
<1>2. CASE s.ver > r.ver /\ t.ver > s.ver BY <1>1, <1>2 DEF Later
<1>3. CASE s.ver > r.ver /\ t = [s EXCEPT !.at = t.at]
  <2>1. t.ver = s.ver BY <1>3 DEF FileRow
  <2> QED BY <1>3, <2>1 DEF Later
<1>4. CASE s = [r EXCEPT !.at = s.at] /\ t.ver > s.ver
  <2>1. s.ver = r.ver BY <1>4 DEF FileRow
  <2> QED BY <1>4, <2>1 DEF Later
<1>5. CASE s = [r EXCEPT !.at = s.at] /\ t = [s EXCEPT !.at = t.at]
  <2>1. t = [r EXCEPT !.at = t.at] BY <1>5 DEF FileRow
  <2> QED BY <2>1 DEF Later
<1> QED BY <1>2, <1>3, <1>4, <1>5 DEF Later

(* Whoever changes the account: what was read stays behind what is there.  *)
Onward == Rows(server) /\ Rows(server') /\ Forward(server')
LEMMA ReadStays ==
  ASSUME Onward, NEW p, RowIsRead(p)
  PROVE  RowIsRead(p)'
<1> SUFFICES ASSUME p.phase = "call", p.inv.request \in Versioned
             PROVE  /\ p.seen.row \in FileRow /\ p.seen.row.at = "live"
                    /\ Current(p) \in DOMAIN server'.files
                    /\ Later(p.seen.row, server'.files[Current(p)])
  BY DEF RowIsRead, Current, Later
<1> DEFINE i == Current(p)
<1>1. /\ p.seen.row \in FileRow /\ p.seen.row.at = "live" /\ i \in DOMAIN server.files
      /\ Later(p.seen.row, server.files[i])
  BY DEF RowIsRead
<1>2. i \in DOMAIN server'.files /\ Later(server.files[i], server'.files[i])
  BY <1>1 DEF Forward, Onward
<1>3. server.files[i] \in FileRow /\ server'.files[i] \in FileRow
  BY <1>1, <1>2 DEF Rows, Table, Onward
<1> HIDE DEF i
<1> QED BY <1>1, <1>2, <1>3, LaterIsTransitive DEF i

LEMMA OneProcessMoves ==
  ASSUME LookInv, NEW c \in Cli, NEW q, proc' = [proc EXCEPT ![c] = q], Sane(q),
         TornInv', UnclosedInv'
  PROVE  LookInv' /\ (Onward /\ ReadInv /\ RowIsRead(q)' => ReadInv')
<1>1. /\ DOMAIN proc' = Cli /\ proc'[c] = q /\ \A d \in Cli \ {c} : proc'[d] = proc[d]
  BY DEF LookInv, AllSane
<1>2. ASSUME NEW d \in Cli, proc'[d].phase # "free" PROVE Sane(proc'[d])
  BY <1>1, <1>2 DEF LookInv, AllSane
<1>3. AllSane' BY <1>1, <1>2 DEF AllSane, Sane, ProcFields, Sensible, InvFields, Going
<1>4. ASSUME Onward, ReadInv, RowIsRead(q)', NEW d \in Cli, proc'[d].phase # "free"
      PROVE  RowIsRead(proc[d])'
  <2>1. PICK p : p = proc'[d] OBVIOUS
  <2>2. RowIsRead(p)'
    <3>1. CASE d = c BY <1>1, <1>4, <2>1, <3>1
    <3>2. CASE d # c
      <4>1. p = proc[d] /\ RowIsRead(p) BY <1>1, <1>4, <2>1, <3>2 DEF ReadInv
      <4> QED BY <1>4, <4>1, ReadStays
    <3> QED BY <3>1, <3>2
  <2> QED BY <2>1, <2>2 DEF RowIsRead, Current
<1> QED BY <1>3, <1>4 DEF LookInv, ReadInv

LEMMA MovesKeep ==
  ASSUME LookInv, NEW c \in Cli, NEW q, Acts(c, q)
  PROVE  LookInv' /\ (Onward /\ ReadInv => ReadInv')
<1>1. PICK p : p = proc[c] OBVIOUS
<1>2. /\ p.phase \in Going \cup {"end"} /\ proc' = [proc EXCEPT ![c] = q]
      /\ Follows(p, q) /\ DiskFollows(p, q)
  BY <1>1 DEF Acts
<1>3. Sane(q) /\ Sane(p) /\ q.failed \in Nat
  BY <1>1, <1>2 DEF Follows, Sane, LookInv, AllSane, Going
<1>4. TornInv' /\ UnclosedInv' BY <1>1, <1>2, <1>3, WritesKeep, ClosesKeep DEF LookInv
<1>5. ASSUME Onward, ReadInv PROVE RowIsRead(q)'
  <2> SUFFICES ASSUME q.phase = "call", q.inv.request \in Versioned
               PROVE  RowIsRead(q)'
    BY DEF RowIsRead
  <2>1. p.phase = "call" /\ q.at = p.at /\ q.seen = p.seen /\ q.inv = p.inv
    BY <1>2, <1>3 DEF Follows, Sane, Sensible
  <2>2. RowIsRead(p) BY <1>1, <1>2, <1>5 DEF ReadInv, Going
  <2>3. RowIsRead(p)' BY <1>5, <2>2, ReadStays
  <2> QED BY <2>1, <2>3 DEF RowIsRead, Current
<1> QED BY <1>2, <1>3, <1>4, <1>5, OneProcessMoves

LEMMA LookKeepsRead ==
  ASSUME CommandsInv, LookInv, NEW c \in Cli, Look(c)
  PROVE  LookInv' /\ (Onward /\ ReadInv => ReadInv')
<1>1. PICK q : LookStep(c, q) BY LookBecomes DEF LookInv
<1>2. /\ proc[c].phase = "look" /\ proc' = [proc EXCEPT ![c] = q] /\ disk' = disk
      /\ Sane(q) /\ q.inv.saves = proc[c].inv.saves /\ q.failed >= proc[c].failed
      /\ q.phase = "call" /\ q.inv.request \in Versioned =>
           /\ q.seen.row = File(Current(q)) /\ Live(Current(q)) /\ server' = server
  BY <1>1 DEF LookStep
<1>3. q.failed \in Nat /\ q.phase # "free" BY <1>2 DEF Sane, Going
<1>4. DiskFollows(proc[c], q) BY <1>2, <1>3 DEF DiskFollows
<1>5. TornInv' /\ UnclosedInv'
  BY <1>2, <1>3, <1>4, WritesKeep, ClosesKeep DEF LookInv, Going
<1>6. ASSUME Onward PROVE RowIsRead(q)'
  <2> SUFFICES ASSUME q.phase = "call", q.inv.request \in Versioned
               PROVE  RowIsRead(q)'
    BY DEF RowIsRead
  <2>1. PICK i : i = Current(q) OBVIOUS
  <2>2. /\ i \in DOMAIN server.files /\ q.seen.row = server.files[i]
        /\ q.seen.row \in FileRow /\ q.seen.row.at = "live" /\ server' = server
    BY <1>2, <1>6, <2>1, RowsAre DEF Live, Onward
  <2>3. Later(q.seen.row, server.files[i]) BY <2>2 DEF Later, FileRow
  <2> QED BY <2>1, <2>2, <2>3 DEF RowIsRead, Current, Later
<1> QED BY <1>2, <1>5, <1>6, OneProcessMoves

LEMMA StartKeepsRead ==
  ASSUME LookInv, NEW c \in Cli, Start(c)
  PROVE  LookInv' /\ (Onward /\ ReadInv => ReadInv')
<1>1. PICK v \in Commands : proc' = [proc EXCEPT ![c] = Started(v)] BY DEF Start
<1>2. proc[c].phase = "free" /\ disk' = disk BY DEF Start
<1>3. Sensible(v) /\ InvOK(v) BY CommandsAreSensible, CommandsAreFine
<1>4. PICK q : q = Started(v) OBVIOUS
<1>5. /\ DOMAIN q = ProcFields /\ q.phase = First(v) /\ q.inv = v /\ q.at = 1
      /\ q.seen = Blank /\ q.failed = 0
  BY <1>4 DEF Started, ProcFields
<1>6. /\ First(v) \in Going /\ (First(v) = "open" => v.saves \in Direct)
      /\ First(v) = "call" => v.look = "none"
  BY DEF First, Ready, Going, Direct
<1>7. {"row", "files", "folders", "paths"} \subseteq DOMAIN Blank BY DEF Blank
<1>8. Sane(q) BY <1>3, <1>5, <1>6, <1>7 DEF Sane
<1>9. RowIsRead(q)' BY <1>3, <1>5, <1>6 DEF RowIsRead, Sensible
<1>10. TornInv'
  <2> SUFFICES ASSUME NEW path \in DOMAIN disk, disk[path] = Torn
               PROVE  \E d \in Cli : Excuses(proc[d], path)'
    BY <1>2 DEF TornInv
  <2>1. PICK d \in Cli : Excuses(proc[d], path) BY DEF LookInv, TornInv
  <2>2. d # c BY <1>2, <2>1 DEF Excuses
  <2>3. proc'[d] = proc[d] BY <1>1, <2>2 DEF LookInv, AllSane
  <2> QED BY <2>1, <2>3 DEF Excuses, Target, Current
<1>11. UnclosedInv'
  <2>1. ASSUME NEW d \in Cli, Blames(proc[d]) PROVE Blames(proc'[d])
    <3>1. d # c BY <1>2, <2>1 DEF Blames
    <3> QED BY <1>1, <2>1, <3>1 DEF LookInv, AllSane
  <2> QED BY <1>2, <2>1 DEF LookInv, UnclosedInv, Blames
<1> QED BY <1>1, <1>4, <1>8, <1>9, <1>10, <1>11, OneProcessMoves

LEMMA LookInvStarts == CommandsInit => LookInv /\ ReadInv
<1> SUFFICES ASSUME CommandsInit PROVE LookInv /\ ReadInv OBVIOUS
<1>1. DOMAIN proc = Cli /\ \A c \in Cli : proc[c].phase = "free"
  BY DEF CommandsInit, Free
<1>2. DOMAIN disk = {} BY DEF CommandsInit
<1> QED BY <1>1, <1>2 DEF LookInv, AllSane, TornInv, UnclosedInv, ReadInv

LEMMA LookInvKeeps ==
  ASSUME CommandsInv, LookInv, Rows(server), [CommandsNext]_commandVars
  PROVE  LookInv' /\ (Onward /\ ReadInv => ReadInv')
<1>1. CASE UNCHANGED commandVars
  <2>1. proc' = proc /\ disk' = disk BY <1>1 DEF commandVars
  <2>2. AllSane' /\ TornInv' /\ UnclosedInv'
    BY <2>1 DEF LookInv, AllSane, TornInv, UnclosedInv, Blames, Excuses, Target, Current, Sane, ProcFields,
       Sensible, InvFields, Going
  <2>3. ASSUME Onward, ReadInv, NEW c \in Cli, proc[c].phase # "free"
        PROVE  RowIsRead(proc[c])'
    <3>1. PICK p : p = proc[c] /\ RowIsRead(p) BY <2>3 DEF ReadInv
    <3>2. RowIsRead(p)' BY <2>3, <3>1, ReadStays
    <3> QED BY <2>1, <3>1, <3>2 DEF RowIsRead, Current
  <2> QED BY <2>1, <2>2, <2>3 DEF LookInv, ReadInv
<1>2. ASSUME NEW c \in Cli, CommandStep(c)
      PROVE  LookInv' /\ (Onward /\ ReadInv => ReadInv')
  <2>1. CASE Start(c) BY <2>1, StartKeepsRead
  <2>2. CASE Look(c) BY <2>2, LookKeepsRead
  <2>3. CASE Call(c)
    <3>1. \E q : Acts(c, q) BY <2>3, CallBecomes DEF LookInv
    <3> QED BY <3>1, MovesKeep
  <2>4. CASE \/ OpenLocal(c) \/ PassBy(c) \/ NotInTrash(c)
             \/ BreaksOff(c) \/ CloseFails(c) \/ End(c) \/ Kill(c)
    <3>1. \E q : Acts(c, q) BY <2>4, LocalBecomes DEF LookInv
    <3> QED BY <3>1, MovesKeep
  <2> QED BY <1>2, <2>1, <2>2, <2>3, <2>4 DEF CommandStep
<1> QED BY <1>1, <1>2 DEF CommandsNext

-----------------------------------------------------------------------------
(* Whatever a command asks for, the account stays one and moves on.        *)
LEMMA RequestsAreSound ==
  ASSUME Rows(server), NEW p, Sensible(p.inv)
  PROVE  Sound(Outcomes(p))
<1> DEFINE i    == Current(p)
           r    == p.inv.request
           some == CHOOSE d \in Data : TRUE
<1>1. /\ p.inv.name \in Name /\ some \in Data
      /\ r \in Others \cup Versioned \cup {"Download", "DownloadPhoto"}
  BY NameAssumption DEF Sensible
<1>2. PICK n \in Name : n = p.inv.name BY <1>1
<1> DEFINE into == p.inv.into
           v    == SentVersion(p)
<1>3. CASE r \in {"DeleteFile", "Rename", "Move", "CopyFile", "SetFileLabels", "EncryptFile",
                  "EncryptFolder", "DecryptFile"}
  <2>1. /\ r = "DeleteFile"    => Outcomes(p) = DeleteFile(i)
        /\ r = "Rename"        => Outcomes(p) = UpdateFile(i, n, File(i).folder, v)
        /\ r = "Move"          => Outcomes(p) = UpdateFile(i, File(i).name, into, v)
        /\ r = "CopyFile"      => Outcomes(p) = CopyFile(i, n, into)
        /\ r = "SetFileLabels" => Outcomes(p) = SetFileLabels(i)
        /\ r = "EncryptFile"   => Outcomes(p) = EncryptFile(i, n, some)
        /\ r = "EncryptFolder" => Outcomes(p) = EncryptFolder(i, n, some)
        /\ r = "DecryptFile"   => Outcomes(p) = EncryptFile(i, n, some)
    BY <1>2, <1>3 DEF Outcomes, DecryptFile
  <2> HIDE DEF i, some
  <2> QED BY <1>1, <1>3, <2>1, FileRequestsAreSound
<1>4. CASE r \in {"CreateFolder", "RenameFolder", "MoveFolder", "DeleteFolder",
                  "ForceDeleteFolder", "RestoreFolder", "ExtractArchive"}
  <2>1. /\ r = "CreateFolder"      => Outcomes(p) = CreateFolder(n, into)
        /\ r = "RenameFolder"      => Outcomes(p) = RenameFolder(i, n)
        /\ r = "MoveFolder"        => Outcomes(p) = MoveFolder(i, into)
        /\ r = "DeleteFolder"      => Outcomes(p) = DeleteFolder(i)
        /\ r = "ForceDeleteFolder" => Outcomes(p) = ForceDeleteFolder(i)
        /\ r = "RestoreFolder"     => Outcomes(p) = RestoreFolder(i)
        /\ r = "ExtractArchive"    => Outcomes(p) = ExtractArchive(i, n, into)
    BY <1>2, <1>4 DEF Outcomes
  <2> HIDE DEF i
  <2> QED BY <1>4, <2>1, FolderRequestsAreSound
<1>5. CASE r \in {"Restore", "Purge"}
  <2>1. Outcomes(p) \in {ForceDeleteFile(i), ForceDeleteFolder(i), RestoreFile(i),
                         RestoreFolder(i)}
    BY <1>5 DEF Outcomes, Restore, Purge
  <2> HIDE DEF i
  <2> QED BY <1>1, <1>2, <2>1, FileRequestsAreSound, FolderRequestsAreSound
<1>6. CASE r \in {"EmptyFilesTrash", "RestoreFileVersion", "CreateArchive", "DeletePhotos"}
  <2>1. CASE r = "EmptyFilesTrash"
    <3>1. Outcomes(p) = EmptyFilesTrash BY <2>1 DEF Outcomes
    <3> QED BY <3>1, EmptyTrashIsSound
  <2>2. CASE r = "RestoreFileVersion"
    <3>1. Outcomes(p) = UNION {RestoreFileVersion(i, d) : d \in Data} BY <2>2 DEF Outcomes
    <3>2. ASSUME NEW d \in Data PROVE Sound(RestoreFileVersion(i, d))
      <4> HIDE DEF i
      <4> QED BY <1>2, FileRequestsAreSound
    <3> QED BY <3>1, <3>2 DEF Sound
  <2>3. CASE r = "CreateArchive"
    <3>1. Outcomes(p) = NewFile(n, into, some) BY <1>2, <2>3 DEF Outcomes, CreateArchive
    <3> HIDE DEF some
    <3> QED BY <1>1, <3>1, NewFileIsSound
  <2>4. CASE r = "DeletePhotos"
    <3>1. Outcomes(p) = DeletePhotos({p.inv.ids[m] : m \in DOMAIN p.inv.ids})
      BY <2>4 DEF Outcomes
    <3> QED BY <3>1, PhotosAreSound
  <2> QED BY <1>6, <2>1, <2>2, <2>3, <2>4
<1>7. CASE r \in {"read", "Download", "DownloadPhoto"}
  <2>1. \E can : Outcomes(p) \in {May(can, server), Reading}
    BY <1>7 DEF Outcomes
  <2>2. Sound(Reading) BY StandsStill DEF Sound, Reading, Done, Refused
  <2> QED BY <2>1, <2>2, MayBeSound, StandsStill
<1>8. CASE r \in {"CreateLabel", "CreateFileShare", "CreateFolderShare", "CreateUploadLink",
                  "SharedWithMeUpload"}
  <2>1. \E k \in Kind : Outcomes(p) = CreateRow(k)
    BY <1>8, KindAssumption DEF Outcomes, CreateLabel, CreateFileShare, CreateFolderShare,
       CreateUploadLink, SharedWithMeUpload
  <2> QED BY <2>1, ObjectRequestsAreSound
<1>9. CASE r \in {"DeleteLabel", "DeleteFileShare", "DeleteFolderShare", "DeleteUploadLink",
                  "SharedWithMeDelete"}
  <2>1. \E k \in Kind : Outcomes(p) = DeleteRow(k, i)
    BY <1>9, KindAssumption DEF Outcomes, DeleteLabel, DeleteFileShare, DeleteFolderShare,
       DeleteUploadLink, SharedWithMeDelete
  <2> QED BY <2>1, ObjectRequestsAreSound
<1>10. CASE r \in {"UpdateFileShare", "UpdateFolderShareMember", "RemoveFolderShareMember",
                   "SharedWithMeRename"}
  <2>1. \E k \in Kind : Outcomes(p) \in {ChangeRow(k, i), {Refused}}
    BY <1>10, KindAssumption DEF Outcomes, UpdateFileShare, UpdateFolderShareMember,
       RemoveFolderShareMember, SharedWithMeRename
  <2> QED BY <2>1, ObjectRequestsAreSound, RefusedIsSound
<1> QED BY <1>1, <1>3, <1>4, <1>5, <1>6, <1>7, <1>8, <1>9, <1>10 DEF Others, Versioned

LEMMA CommandsMoveOn ==
  ASSUME CommandsInv, LookInv, Rows(server), CommandsNext
  PROVE  Rows(server') /\ Forward(server')
<1>1. PICK c \in Cli : CommandStep(c) BY DEF CommandsNext
<1>2. CASE server' = server BY <1>2, StandsStill
<1>3. CASE Call(c)
  <2>1. server' = server \/ \E o \in Outcomes(proc[c]) : server' = o.server
    BY <1>3, CallBecomes DEF LookInv
  <2>2. Sensible(proc[c].inv) BY <1>3 DEF LookInv, AllSane, Call, Sane
  <2>3. Sound(Outcomes(proc[c])) BY <2>2, RequestsAreSound
  <2> QED BY <2>1, <2>3, StandsStill DEF Sound
<1>4. CASE Look(c)
  <2>1. PICK a \in Answered(Reading) \cup Unanswered(Reading) : Attempt(Reading, a)
    BY <1>4 DEF Look
  <2>2. server' = server \/ \E o \in Reading : server' = o.server BY <2>1, AttemptIs
  <2>3. server' = server BY <2>2 DEF Reading, Done, Refused
  <2> QED BY <2>3, StandsStill
<1>5. CASE ~(Call(c) \/ Look(c))
  <2>1. server' = server
    BY <1>1, <1>5, LocalBecomes DEF CommandStep, Start, LookInv
  <2> QED BY <2>1, StandsStill
<1> QED BY <1>3, <1>4, <1>5

(* Who is at work on a request, and what became of the account.            *)
LEMMA CallerIs ==
  ASSUME LookInv, Rows(server), [CommandsNext]_commandVars, NEW c \in Cli,
         proc[c].phase = "call", proc'[c] # proc[c]
  PROVE  server' = server \/ \E o \in Outcomes(proc[c]) : server' = o.server
<1>1. CommandsNext BY DEF commandVars
<1>2. PICK d \in Cli : CommandStep(d) BY <1>1 DEF CommandsNext
<1>3. \E q : proc' = [proc EXCEPT ![d] = q]
  <2>1. CASE Look(d) BY <2>1 DEF Look
  <2>2. CASE Start(d) BY <2>2 DEF Start
  <2>3. CASE ~(Look(d) \/ Start(d))
    <3>1. \E q : Acts(d, q) BY <1>2, <2>3, CallBecomes, LocalBecomes DEF CommandStep, LookInv
    <3> QED BY <3>1 DEF Acts
  <2> QED BY <2>1, <2>2, <2>3
<1>4. d = c BY <1>3 DEF LookInv, AllSane
<1>5. ~Look(d) /\ ~Start(d) BY <1>4 DEF Look, Start
<1> QED BY <1>2, <1>4, <1>5, CallBecomes, LocalBecomes DEF CommandStep, LookInv

LEMMA ChangesWhatItSaw ==
  ASSUME LookInv, ReadInv, Rows(server), [CommandsNext]_commandVars, NEW c \in Cli,
         proc[c].phase = "call", proc'[c] # proc[c], server' # server,
         proc[c].inv.request \in {"Rename", "Move"}
  PROVE  File(Current(proc[c])) = proc[c].seen.row
<1>1. PICK p : p = proc[c] OBVIOUS
<1>2. RowIsRead(p) BY <1>1 DEF ReadInv
<1>3. PICK i : i = Current(p) OBVIOUS
<1>4. PICK row : row = p.seen.row OBVIOUS
<1>5. /\ row \in FileRow /\ row.at = "live" /\ i \in DOMAIN server.files
      /\ Later(row, server.files[i])
  BY <1>1, <1>2, <1>3, <1>4 DEF RowIsRead, Versioned
<1>6. PICK o \in Outcomes(p) : server' = o.server BY <1>1, CallerIs
<1>7. \E n, f : Outcomes(p) = UpdateFile(i, n, f, row.ver)
  BY <1>1, <1>3, <1>4 DEF Outcomes, SentVersion
<1>8. Live(i) /\ File(i).ver = row.ver
  BY <1>6, <1>7 DEF UpdateFile, May, Refused
<1>9. File(i) = server.files[i] /\ File(i) \in FileRow BY <1>8, RowsAre DEF Live
<1>10. ~(File(i).ver > row.ver)
  <2>1. row.ver \in Nat BY <1>5 DEF FileRow
  <2> QED BY <1>8, <2>1
<1>11. File(i) = [row EXCEPT !.at = File(i).at] BY <1>5, <1>9, <1>10 DEF Later
<1>12. File(i) = row BY <1>5, <1>8, <1>11 DEF Live, FileRow
<1> QED BY <1>1, <1>3, <1>4, <1>12

LEMMA PurgesTheTrash ==
  ASSUME LookInv, Rows(server), [CommandsNext]_commandVars, NEW c \in Cli,
         proc[c].phase = "call", proc'[c] # proc[c], proc[c].inv.request = "Purge"
  PROVE  /\ \A i \in DOMAIN server.files : server'.files[i] # File(i) =>
              i \in proc[c].seen.files \/ File(i).at = "trash"
         /\ \A f \in DOMAIN server.folders :
              server'.folders[f] # Folder(f) => Folder(f).at = "trash"
<1>1. PICK p : p = proc[c] OBVIOUS
<1>2. PICK n : n = Current(p) OBVIOUS
<1>3. Outcomes(p) = Purge(p, n) BY <1>1, <1>2 DEF Outcomes
<1>4. /\ \A i \in DOMAIN server.files : File(i) = server.files[i]
      /\ \A f \in DOMAIN server.folders : Folder(f) = server.folders[f]
  BY RowsAre
<1>5. CASE server' = server BY <1>4, <1>5
<1>6. CASE n \in p.seen.files /\ server' = WithFile(n, [File(n) EXCEPT !.at = "purged"])
  <2>1. PICK row : row = [File(n) EXCEPT !.at = "purged"] OBVIOUS
  <2>2. server' = WithFile(n, row) BY <1>6, <2>1
  <2>3. server'.folders = server.folders /\ server'.files = Put(server.files, n, row)
    BY <2>2 DEF WithFile, Rows
  <2>4. \A i \in DOMAIN server.files \ {n} : server'.files[i] = server.files[i]
    BY <2>3 DEF Put
  <2> QED BY <1>1, <1>4, <1>6, <2>3, <2>4
<1>7. CASE server' = Moved(n, "trash", "purged")
  <2>1. PICK sub : sub = Subtree(n) OBVIOUS
  <2>2. /\ server'.folders = [g \in DOMAIN server.folders |->
             IF g \in sub /\ Folder(g).at = "trash"
             THEN [Folder(g) EXCEPT !.at = "purged"] ELSE Folder(g)]
        /\ server'.files = [i \in DOMAIN server.files |->
             IF File(i).folder \in sub /\ File(i).at = "trash"
             THEN [File(i) EXCEPT !.at = "purged"] ELSE File(i)]
    BY <1>7, <2>1 DEF Rows, Moved
  <2>3. \A i \in DOMAIN server.files : File(i).at # "trash" => server'.files[i] = File(i)
    BY <2>2
  <2>4. \A f \in DOMAIN server.folders : Folder(f).at # "trash" => server'.folders[f] = Folder(f)
    BY <2>2
  <2> QED BY <2>3, <2>4
<1>8. \/ server' = server
      \/ n \in p.seen.files /\ server' = WithFile(n, [File(n) EXCEPT !.at = "purged"])
      \/ server' = Moved(n, "trash", "purged")
  <2>1. server' = server \/ \E o \in Purge(p, n) : server' = o.server
    BY <1>1, <1>3, CallerIs
  <2>2. ASSUME NEW o \in Purge(p, n)
        PROVE  \/ o.server = server
               \/ n \in p.seen.files /\ o.server = WithFile(n, [File(n) EXCEPT !.at = "purged"])
               \/ o.server = Moved(n, "trash", "purged")
    BY <2>2 DEF Purge, OnFile, ForceDeleteFile, ForceDeleteFolder, May, Refused, Done
  <2> QED BY <2>1, <2>2
<1> QED BY <1>5, <1>6, <1>7, <1>8

-----------------------------------------------------------------------------
LEMMA CommandsHold == CommandsSpec /\ []FilesTypeOK => [](CommandsInv /\ LookInv)
<1>1. CommandsInv /\ LookInv /\ FilesTypeOK /\ [CommandsNext]_commandVars
      => (CommandsInv /\ LookInv)'
  BY CommandsKeep, LookInvKeeps, TypesAreRows
<1> QED BY <1>1, CommandsStart, LookInvStarts, PTL DEF CommandsSpec

(* A torn file on the disk is always one that a command is writing, that a *)
(* killed command left, or that a download which wrote in place and        *)
(* reported a failure left, whichever files several commands write at the  *)
(* same paths; and one that could not be closed comes from `versions       *)
(* download`, or from an in-place command that reported a failure.         *)
THEOREM TornFilesAreExplained == CommandsSpec /\ []FilesTypeOK => []TornIsExplained
<1>1. LookInv => TornIsExplained
  <2> SUFFICES ASSUME LookInv, NEW q \in DOMAIN disk
               PROVE  /\ disk[q] = Torn => \E c \in Cli : Excuses(proc[c], q)
                      /\ disk[q] = Unclosed => \E c \in Cli : Blames(proc[c])
    BY DEF TornIsExplained, Excuses, Blames, Busy1
  <2> QED BY DEF LookInv, TornInv, UnclosedInv
<1> QED BY <1>1, CommandsHold, PTL

(* Purging takes nothing out of the account but what the trash showed the  *)
(* command as a file or what lies in the trash: no live folder, and no     *)
(* live file because it has the id of a folder.                            *)
THEOREM OnlyTheTrashIsPurged == CommandsSpec /\ []FilesTypeOK => PurgesOnlyTrash
<1>1. LookInv /\ FilesTypeOK /\ [CommandsNext]_commandVars
      => [\A c \in Cli : proc[c].phase = "call" /\ proc'[c] # proc[c]
                         /\ proc[c].inv.request = "Purge"
            => /\ \A i \in DOMAIN server.files : server'.files[i] # File(i) =>
                      i \in proc[c].seen.files \/ File(i).at = "trash"
               /\ \A f \in DOMAIN server.folders :
                    server'.folders[f] # Folder(f)
                    => Folder(f).at = "trash"]_<<server, commandVars>>
  BY PurgesTheTrash, TypesAreRows
<1> QED BY <1>1, CommandsHold, PTL DEF CommandsSpec, PurgesOnlyTrash

(* rename and mv change a row only as they have read it, however many      *)
(* commands, mounts and uploads are at work on the account: provided that  *)
(* whoever changes a row raises its version, as the server's optimistic    *)
(* concurrency promises.                                                   *)
THEOREM RowsAreChangedAsSeen ==
  CommandsSpec /\ []FilesTypeOK /\ RowsMoveOn => SeesWhatItChanges
<1>1. CommandsInv /\ LookInv /\ ReadInv /\ FilesTypeOK /\ FilesTypeOK'
      /\ [Forward(server')]_server /\ [CommandsNext]_commandVars => ReadInv'
  <2> SUFFICES ASSUME CommandsInv, LookInv, ReadInv, FilesTypeOK, FilesTypeOK',
                      [Forward(server')]_server, [CommandsNext]_commandVars
               PROVE  ReadInv'
    OBVIOUS
  <2>1. Rows(server) /\ Rows(server') BY DEF FilesTypeOK, Rows
  <2>2. Forward(server')
    <3>1. CASE server' = server BY <2>1, <3>1, StandsStill
    <3> QED BY <3>1
  <2> QED BY <2>1, <2>2, LookInvKeeps DEF Onward
<1>2. LookInv /\ ReadInv /\ FilesTypeOK /\ [CommandsNext]_commandVars
      => [\A c \in Cli : proc[c].phase = "call" /\ proc'[c] # proc[c] /\ server' # server
                         /\ proc[c].inv.request \in {"Rename", "Move"}
            => File(Current(proc[c])) = proc[c].seen.row]_<<server, commandVars>>
  BY ChangesWhatItSaw, TypesAreRows
<1>3. CommandsInit => ReadInv BY LookInvStarts
<1> QED BY <1>1, <1>2, <1>3, CommandsHold, PTL
        DEF CommandsSpec, SeesWhatItChanges, RowsMoveOn

(* The commands by themselves keep both promises of the account: its rows  *)
(* stay what the server's interface says, and move on.                     *)
CommandsAlone ==
  CommandsInit /\ FilesTypeOK /\ [][CommandsNext]_<<server, lost, commandVars>>
THEOREM CommandsKeepTheAccount == CommandsAlone => []FilesTypeOK /\ RowsMoveOn
<1>1. CommandsInv /\ LookInv /\ FilesTypeOK /\ [CommandsNext]_<<server, lost, commandVars>>
      => /\ FilesTypeOK' /\ CommandsInv' /\ LookInv' /\ [Forward(server')]_server
  <2> SUFFICES ASSUME CommandsInv, LookInv, FilesTypeOK,
                      [CommandsNext]_<<server, lost, commandVars>>
               PROVE  FilesTypeOK' /\ CommandsInv' /\ LookInv' /\ [Forward(server')]_server
    OBVIOUS
  <2>1. [CommandsNext]_commandVars OBVIOUS
  <2>2. CommandsInv' /\ LookInv' BY <2>1, CommandsKeep, LookInvKeeps, TypesAreRows
  <2>3. CASE UNCHANGED <<server, lost, commandVars>> BY <2>2, <2>3 DEF FilesTypeOK
  <2>4. CASE CommandsNext
    <3>1. Rows(server') /\ Forward(server') BY <2>4, CommandsMoveOn, TypesAreRows
    <3>2. lost' = lost \/ (lost < MaxLost /\ lost' = lost + 1)
      BY <2>4 DEF CommandsNext, CommandStep, Start, Look, OpenLocal, PassBy, NotInTrash,
         Call, BreaksOff, CloseFails, End, Kill, Attempt
    <3>3. lost' \in 0 .. MaxLost BY <3>2, TriesAssumption DEF FilesTypeOK
    <3>4. FilesTypeOK' BY <3>1, <3>3 DEF FilesTypeOK, Rows
    <3> QED BY <2>2, <3>1, <3>4
  <2> QED BY <2>3, <2>4
<1> QED BY <1>1, CommandsStart, LookInvStarts, PTL DEF CommandsAlone, RowsMoveOn

(* So commands that are alone on the account never undo one another's      *)
(* changes, with nothing assumed of anybody.                               *)
THEOREM CommandsChangeWhatTheySee == CommandsAlone => SeesWhatItChanges
<1>1. [CommandsNext]_<<server, lost, commandVars>> => [CommandsNext]_commandVars OBVIOUS
<1>2. CommandsAlone => CommandsSpec BY <1>1, PTL DEF CommandsAlone, CommandsSpec
<1> QED BY <1>2, CommandsKeepTheAccount, RowsAreChangedAsSeen, PTL

-----------------------------------------------------------------------------
(* Types.  The paths a download writes below --out: a folder's path is not *)
(* longer than there are folders, so that a file's is one of Path.         *)
LEMMA PathsAreShort ==
  ASSUME Rows(server), NEW f \in FolderIds
  PROVE  FolderParts(f) \in Seq(Name) /\ Len(FolderParts(f)) <= Cardinality(Id)
<1> DEFINE C == Cardinality(Id)
<1>0. C \in Nat BY IdAssumption, FS_CardinalityType
<1>1. PICK up : Climb(up) /\ \A g \in FolderIds : FolderParts(g) = up[C][g]
  BY FoldersHavePaths DEF FolderPaths
<1>2. \A n \in 0 .. C, g \in FolderIds : up[n][g] \in Seq(Name) BY <1>1 DEF Climb
<1> DEFINE short == {n \in 0 .. C : \A g \in FolderIds : Len(up[n][g]) <= n}
<1>3. \A n \in 0 .. C : n \in short
  <2>1. 0 \in short
    <3>1. \A g \in FolderIds : up[0][g] = << >> BY <1>0, <1>1 DEF Climb
    <3> QED BY <1>0, <3>1
  <2>2. ASSUME NEW n \in 1 .. C, n - 1 \in short PROVE n \in short
    <3>1. n \in 0 .. C /\ n - 1 \in 0 .. C /\ n # 0 BY <1>0
    <3>2. ASSUME NEW g \in FolderIds PROVE Len(up[n][g]) <= n
      <4>1. CASE g \in Stops
        <5>1. up[n][g] = << >> BY <1>1, <3>1, <4>1 DEF Climb
        <5> QED BY <5>1
      <4>2. CASE g \notin Stops
        <5>1. up[n][g] = Append(up[n - 1][Folder(g).parent], Folder(g).name)
          BY <1>1, <3>1, <4>2 DEF Climb
        <5>2. Folder(g).at = "live" BY <4>2 DEF Stops, Here
        <5>3. Folder(g).parent \in FolderIds /\ Folder(g).name \in Name
          BY <5>2, RowsAre DEF FolderRow, FolderIds
        <5>4. PICK s \in Seq(Name) : s = up[n - 1][Folder(g).parent] BY <1>2, <3>1, <5>3
        <5>5. Len(s) <= n - 1 BY <2>2, <5>3, <5>4
        <5> QED BY <5>1, <5>3, <5>4, <5>5
      <4> QED BY <4>1, <4>2
    <3> QED BY <3>1, <3>2
  <2> HIDE DEF short
  <2>3. \A n \in 1 .. C : n - 1 \in short => n \in short BY <2>2
  <2> QED BY <1>0, <2>1, <2>3, UpToLast
<1>4. Len(up[C][f]) <= C
  <2>1. C \in 0 .. C BY <1>0
  <2> QED BY <1>3, <2>1
<1>5. up[C][f] \in Seq(Name) BY <1>0, <1>2
<1>6. FolderParts(f) = up[C][f] BY <1>1
<1> QED BY <1>4, <1>5, <1>6

LEMMA SequencesArePaths ==
  ASSUME NEW s \in Seq(Name), Len(s) \in 1 .. Cardinality(Id) + 1
  PROVE  s \in Path
<1>1. s \in [1 .. Len(s) -> Name] OBVIOUS
<1> QED BY <1>1 DEF Path

LEMMA OneNameIsAPath == ASSUME NEW n \in Name PROVE <<n>> \in Path
<1>1. Cardinality(Id) \in Nat BY IdAssumption, FS_CardinalityType
<1>2. <<n>> \in Seq(Name) /\ Len(<<n>>) \in 1 .. Cardinality(Id) + 1 BY <1>1
<1> QED BY <1>2, SequencesArePaths

LEMMA RelPathsArePaths == ASSUME Rows(server), NEW i, Live(i) PROVE RelPath(i) \in Path
<1>1. File(i) \in FileRow BY RowsAre DEF Live
<1>2. File(i).folder \in FolderIds /\ File(i).name \in Name BY <1>1 DEF FileRow, FolderIds
<1>3. PICK s : s = FolderParts(File(i).folder) OBVIOUS
<1>4. s \in Seq(Name) /\ Len(s) <= Cardinality(Id) BY <1>2, <1>3, PathsAreShort
<1>5. Cardinality(Id) \in Nat BY IdAssumption, FS_CardinalityType
<1>6. RelPath(i) = Append(s, File(i).name) BY <1>3 DEF RelPath
<1>7. RelPath(i) \in Seq(Name) /\ Len(RelPath(i)) = Len(s) + 1 BY <1>2, <1>4, <1>6
<1>8. Len(RelPath(i)) \in 1 .. Cardinality(Id) + 1 BY <1>4, <1>5, <1>7
<1> QED BY <1>7, <1>8, SequencesArePaths

(* Ids can be put in order: the least first, then the others.              *)
Ordered(ids, q) == /\ q \in [1 .. Cardinality(ids) -> ids]
                   /\ \A m, n \in DOMAIN q : m < n => q[m] < q[n]
LEMMA OrderedOneMore ==
  ASSUME NEW ids, ids \subseteq Nat, IsFiniteSet(ids), ids # {},
         NEW q, Ordered(ids \ {Least(ids)}, q)
  PROVE  \E r : Ordered(ids, r)
<1> DEFINE least == Least(ids)
           C == Cardinality(ids)
           r == [n \in 1 .. C |-> IF n = 1 THEN least ELSE q[n - 1]]
<1>1. least \in ids BY LeastOfIds
<1>2. \A j \in ids : least <= j
  BY LeastIsLeast
<1>3. Cardinality(ids \ {least}) = C - 1 /\ C \in Nat \ {0}
  BY <1>1, FS_RemoveElement, FS_CardinalityType, FS_EmptySet
<1> HIDE DEF least, C
<1>4. q \in [1 .. C - 1 -> ids \ {least}] BY <1>3 DEF Ordered, least
<1>5. \A m, n \in 1 .. C - 1 : m < n => q[m] < q[n] BY <1>4 DEF Ordered
<1>6. \A n \in 1 .. C : n # 1 => /\ n - 1 \in 1 .. C - 1 /\ r[n] = q[n - 1] /\ r[n] \in ids
                                 /\ r[n] # least
  <2> TAKE n \in 1 .. C
  <2> HAVE n # 1
  <2>1. n - 1 \in 1 .. C - 1 BY <1>3
  <2> QED BY <1>4, <2>1
<1>7. 1 \in 1 .. C /\ r[1] = least BY <1>3
<1>8. DOMAIN r = 1 .. C /\ r \in [1 .. C -> ids] BY <1>1, <1>6, <1>7
<1> HIDE DEF r
<1>9. ASSUME NEW m \in 1 .. C, NEW n \in 1 .. C, m < n PROVE r[m] < r[n]
  <2>1. n # 1 BY <1>3, <1>9
  <2>2. CASE m = 1
    <3>1. r[n] \in Nat /\ least \in Nat /\ least <= r[n] /\ r[n] # least
      BY <1>1, <1>2, <1>6, <2>1
    <3> QED BY <1>7, <2>2, <3>1
  <2>3. CASE m # 1
    <3>1. m - 1 < n - 1 BY <1>9, <1>3
    <3>2. q[m - 1] < q[n - 1] BY <1>5, <1>6, <2>1, <2>3, <3>1
    <3> QED BY <1>6, <2>1, <2>3, <3>2
  <2> QED BY <2>2, <2>3
<1> QED BY <1>8, <1>9 DEF Ordered, C

LEMMA InOrderIs == ASSUME NEW ids, ids \subseteq Id PROVE InOrder(ids) \in Seq(Id)
<1> DEFINE C == Cardinality(ids)
           good == {n \in 0 .. C : \A s \in SUBSET ids :
                                     Cardinality(s) = n => \E q : Ordered(s, q)}
<1>1. IsFiniteSet(ids) /\ C \in Nat /\ ids \subseteq Nat
  BY IdAssumption, FS_Subset, FS_CardinalityType
<1>2. \A s \in SUBSET ids : IsFiniteSet(s) BY <1>1, FS_Subset
<1>3. 0 \in good
  <2>1. ASSUME NEW s \in SUBSET ids, Cardinality(s) = 0 PROVE Ordered(s, << >>)
    <3>1. s = {} BY <1>2, <2>1, FS_EmptySet
    <3> QED BY <2>1, <3>1 DEF Ordered
  <2> QED BY <1>1, <2>1
<1>4. ASSUME NEW n \in 1 .. C, n - 1 \in good PROVE n \in good
  <2>1. ASSUME NEW s \in SUBSET ids, Cardinality(s) = n PROVE \E q : Ordered(s, q)
    <3>1. s # {} BY <2>1, FS_EmptySet
    <3>2. s \subseteq Nat /\ IsFiniteSet(s) BY <1>1, <1>2
    <3>3. Least(s) \in s BY <3>1, <3>2, LeastOfIds
    <3>4. Cardinality(s \ {Least(s)}) = n - 1 BY <2>1, <3>2, <3>3, FS_RemoveElement
    <3>5. PICK q : Ordered(s \ {Least(s)}, q) BY <1>4, <3>4
    <3> QED BY <3>1, <3>2, <3>5, OrderedOneMore
  <2> QED BY <1>1, <2>1
<1>5. \E q : Ordered(ids, q)
  <2>1. C \in good
    <3> HIDE DEF good
    <3>1. \A n \in 1 .. C : n - 1 \in good => n \in good BY <1>4
    <3>2. \A n \in 0 .. C : n \in good BY <1>1, <1>3, <3>1, UpToLast
    <3> QED BY <1>1, <3>2
  <2> QED BY <2>1
<1>6. Ordered(ids, InOrder(ids)) BY <1>5 DEF InOrder, Ordered
<1>7. InOrder(ids) \in [1 .. C -> Id] BY <1>6 DEF Ordered
<1> QED BY <1>1, <1>7

(* Which ids a command goes through: those the user gives, at least one;   *)
(* none, for which one request stands; or, with --all, those it will find. *)
Given(v)  == InvFields \subseteq DOMAIN v /\ v.ids \in Seq(Id) \ {<< >>} /\ ~v.skips
Single(v) == v.ids = <<1>> /\ v.saves = "no" /\ ~v.skips
Every(v)  == v.ids = << >> /\ v.skips /\ v.look \in {"tree", "photos"}

LEMMA FamiliesAreGiven ==
  ASSUME NEW request
  PROVE  /\ InvFields \subseteq DOMAIN Command(request) /\ Single(Command(request))
         /\ \A v \in Each(request) \cup ToEach(request) \cup One(request)
                       \cup OnePlace(request) : Given(v)
<1>1. /\ InvFields \subseteq DOMAIN Command(request) /\ Single(Command(request))
  BY DEF Single, Command, InvFields
<1>2. ASSUME NEW v, Given(v), NEW x
      PROVE  Given([v EXCEPT !.into = x]) /\ Given([v EXCEPT !.name = x])
  BY <1>2 DEF Given, InvFields
<1>3. ASSUME NEW v \in Each(request) PROVE Given(v)
  <2>1. PICK l \in Lists : v = [Command(request) EXCEPT !.ids = l] BY DEF Each
  <2>2. l \in Seq(Id) \ {<< >>} BY ListsAssumption
  <2>3. DOMAIN v = DOMAIN Command(request) /\ v.ids = l /\ v.skips = Command(request).skips
    BY <1>1, <2>1 DEF InvFields
  <2> QED BY <1>1, <2>2, <2>3 DEF Given, Single
<1>4. ASSUME NEW v \in ToEach(request) PROVE Given(v)
  <2>1. \E u \in Each(request), f \in Into \cup {Root} : v = [u EXCEPT !.into = f]
    BY DEF ToEach
  <2> QED BY <1>2, <1>3, <2>1
<1>5. ASSUME NEW v \in One(request) PROVE Given(v)
  <2>1. \E u \in {w \in Each(request) : Len(w.ids) = 1}, n \in NewNames :
          v = [u EXCEPT !.name = n]
    BY DEF One
  <2>2. PICK u \in Each(request), n \in NewNames : v = [u EXCEPT !.name = n] BY <2>1
  <2> QED BY <1>2, <1>3, <2>2
<1>6. ASSUME NEW v \in OnePlace(request) PROVE Given(v)
  <2>1. \E u \in One(request), f \in Into \cup {Root} : v = [u EXCEPT !.into = f]
    BY DEF OnePlace
  <2> QED BY <1>2, <1>5, <2>1
<1> QED BY <1>1, <1>3, <1>4, <1>5, <1>6

LEMMA DownloadsAreChosen ==
  ASSUME NEW v \in UNION {Download, GalleryDownload, VersionsDownload, SharedDownload, Zip}
  PROVE  Given(v) \/ Every(v)
<1>1. ASSUME NEW u, Given(u),
             \/ v = [u EXCEPT !.saves = "unchecked", !.event = FALSE]
             \/ v = [u EXCEPT !.saves = "plain", !.look = "names"]
             \/ v = [u EXCEPT !.saves = "zip"]
      PROVE  Given(v)
  BY <1>1 DEF Given, InvFields
<1>2. CASE v \in VersionsDownload \cup SharedDownload \cup Zip
  <2>1. PICK u \in One("Download") \cup Each("Download") :
             \/ v = [u EXCEPT !.saves = "unchecked", !.event = FALSE]
             \/ v = [u EXCEPT !.saves = "plain", !.look = "names"]
             \/ v = [u EXCEPT !.saves = "zip"]
    BY <1>2 DEF VersionsDownload, SharedDownload, Zip
  <2> QED BY <1>1, <2>1, FamiliesAreGiven
<1>3. CASE v \in Download \cup GalleryDownload
  <2>1. PICK u \in {Downloading, PhotoDownload} :
          \/ \E l \in Lists : v = [u EXCEPT !.ids = l]
          \/ v = [u EXCEPT !.ids = << >>, !.skips = TRUE]
    BY <1>3 DEF Download, GalleryDownload
  <2>2. /\ InvFields \subseteq DOMAIN Downloading /\ Downloading.look = "tree"
        /\ ~Downloading.skips
    BY DEF Downloading, Command, InvFields
  <2>3. /\ InvFields \subseteq DOMAIN PhotoDownload /\ PhotoDownload.look = "photos"
        /\ ~PhotoDownload.skips
    BY DEF PhotoDownload, Downloading, Command, InvFields
  <2>4. InvFields \subseteq DOMAIN u /\ u.look \in {"tree", "photos"} /\ ~u.skips
    BY <2>2, <2>3
  <2>5. CASE v = [u EXCEPT !.ids = << >>, !.skips = TRUE]
    BY <2>4, <2>5 DEF Every, InvFields
  <2>6. ASSUME NEW l \in Lists, v = [u EXCEPT !.ids = l] PROVE Given(v)
    <3>1. l \in Seq(Id) \ {<< >>} BY ListsAssumption
    <3>2. DOMAIN v = DOMAIN u /\ v.ids = l /\ v.skips = u.skips BY <2>4, <2>6 DEF InvFields
    <3> QED BY <2>4, <3>1, <3>2 DEF Given
  <2> QED BY <2>1, <2>5, <2>6
<1> QED BY <1>2, <1>3

LEMMA IdsAreChosen == ASSUME NEW v \in Commands PROVE Given(v) \/ Single(v) \/ Every(v)
<1>1. ASSUME NEW u, InvFields \subseteq DOMAIN u, Given(u) \/ Single(u),
             \/ v = u
             \/ v = [u EXCEPT !.event = FALSE]
             \/ \E f : v = [u EXCEPT !.into = f, !.event = FALSE]
             \/ \E look : v = [u EXCEPT !.look = look]
             \/ v = [u EXCEPT !.goesOn = TRUE] \/ v = [u EXCEPT !.bulk = TRUE]
      PROVE  Given(v) \/ Single(v)
  BY <1>1 DEF Given, Single, InvFields
<1>2. CASE v \in Listing
  <2>1. v = [Command("read") EXCEPT !.event = FALSE] BY <1>2 DEF Listing
  <2> QED BY <1>1, <2>1, FamiliesAreGiven
<1>3. CASE v \in UNION {Download, GalleryDownload, VersionsDownload, SharedDownload, Zip}
  BY <1>3, DownloadsAreChosen
<1>4. ASSUME NEW request, NEW u \in {Command(request)} \cup Each(request) \cup ToEach(request)
                                      \cup One(request) \cup OnePlace(request)
      PROVE  InvFields \subseteq DOMAIN u /\ (Given(u) \/ Single(u))
  BY FamiliesAreGiven DEF Given
<1>5. CASE v \in Rename \cup Mv
  <2>1. PICK request \in Versioned : \E u \in One(request) \cup ToEach(request) :
          v = [u EXCEPT !.look = "row"]
    BY <1>5 DEF Rename, Mv, Versioned
  <2> QED BY <1>1, <1>4, <2>1
<1>6. CASE v \in UNION {TrashRestore, TrashRm, ShareUpdate, SharedUpload, GalleryRm, Mkdir}
  <2>1. \E request : \E u \in {Command(request)} \cup Each(request) \cup One(request) :
          \/ \E f : v = [u EXCEPT !.into = f, !.event = FALSE]
          \/ \E look : v = [u EXCEPT !.look = look]
          \/ v = [u EXCEPT !.goesOn = TRUE] \/ v = [u EXCEPT !.bulk = TRUE]
    <3>1. CASE v \in TrashRestore BY <3>1 DEF TrashRestore
    <3>2. CASE v \in TrashRm BY <3>2 DEF TrashRm
    <3>3. CASE v \in ShareUpdate BY <3>3 DEF ShareUpdate
    <3>4. CASE v \in SharedUpload BY <3>4 DEF SharedUpload
    <3>5. CASE v \in GalleryRm BY <3>5 DEF GalleryRm
    <3>6. CASE v \in Mkdir BY <3>6 DEF Mkdir
    <3> QED BY <1>6, <3>1, <3>2, <3>3, <3>4, <3>5, <3>6
  <2> QED BY <1>1, <1>4, <2>1
<1>7. CASE \E request \in Others : Simple(v, request)
  <2>1. PICK request : Simple(v, request) BY <1>7
  <2>2. v \in {Command(request)} \cup Each(request) \cup ToEach(request)
                \cup One(request) \cup OnePlace(request)
    BY <2>1 DEF Simple
  <2> QED BY <1>4, <2>2
<1> QED BY <1>2, <1>3, <1>5, <1>6, <1>7, CommandsCome

(* How far a process is.  It counts a failure for an id it has tried, and  *)
(* asks only for ids it has; a process that looks for its ids has not      *)
(* begun.                                                                  *)
Core(p) ==
  /\ p.inv.ids \in Seq(Id) \/ (p.inv.ids = <<1>> /\ p.inv.saves = "no")
  /\ p.inv.skips => p.inv.look \in {"tree", "photos"}
  /\ \A i \in Id : p.seen.paths[i] \in Path
  /\ p.at \in 1 .. Len(p.inv.ids) + 1 /\ p.tries \in 1 .. MaxTries
  /\ p.did \subseteq DOMAIN p.inv.ids /\ p.failed \in 0 .. p.at
Counted(p) ==
  /\ Core(p)
  /\ p.phase \in Going => p.failed < p.at
  /\ p.phase \in {"open", "call"} => p.at <= Len(p.inv.ids)
  /\ p.phase = "look" => IF p.inv.skips THEN p.at = 1 /\ p.did = {} ELSE p.at <= Len(p.inv.ids)

LEMMA IdsHaveLength ==
  ASSUME NEW p, Core(p)
  PROVE  /\ Len(p.inv.ids) \in Nat /\ DOMAIN p.inv.ids = 1 .. Len(p.inv.ids)
         /\ p.at \in Nat \ {0} /\ p.failed \in Nat
<1>1. Len(<<1>>) = 1 /\ DOMAIN <<1>> = 1 .. 1 OBVIOUS
<1>2. PICK ids : ids = p.inv.ids OBVIOUS
<1>3. Len(ids) \in Nat /\ DOMAIN ids = 1 .. Len(ids)
  <2>1. CASE ids \in Seq(Id) BY <2>1
  <2>2. CASE ids = <<1>> BY <1>1, <2>2
  <2> QED BY <1>2, <2>1, <2>2 DEF Core
<1>4. p.at \in Nat \ {0} /\ p.failed \in Nat BY <1>2, <1>3 DEF Core
<1> QED BY <1>2, <1>3, <1>4

LEMMA BlankIsTyped == \A i \in Id : Blank.paths[i] \in Path
BY DEF Blank, Path

LEMMA StartedIsCounted == ASSUME NEW v \in Commands PROVE Counted(Started(v))
<1>1. PICK p : p = Started(v) OBVIOUS
<1>2. /\ p.inv = v /\ p.at = 1 /\ p.tries = 1 /\ p.did = {} /\ p.failed = 0 /\ p.seen = Blank
      /\ p.phase = First(v)
  BY <1>1 DEF Started
<1>3. Given(v) \/ Single(v) \/ Every(v) BY IdsAreChosen
<1>4. v.ids \in Seq(Id) \/ (v.ids = <<1>> /\ v.saves = "no")
  <2>1. << >> \in Seq(Id) OBVIOUS
  <2> QED BY <1>3, <2>1 DEF Given, Single, Every
<1>5. v.skips => v.look \in {"tree", "photos"} BY <1>3 DEF Given, Single, Every
<1>6. Len(v.ids) \in Nat /\ (~v.skips => 1 <= Len(v.ids))
  <2>1. PICK ids : ids = v.ids OBVIOUS
  <2>2. CASE ids \in Seq(Id) /\ ids # << >>
    <3>1. Len(ids) \in Nat /\ 1 <= Len(ids) BY <2>2
    <3> QED BY <2>1, <3>1
  <2>3. CASE ids = <<1>>
    <3>1. Len(ids) = 1 BY <2>3
    <3> QED BY <2>1, <3>1
  <2>4. CASE ids = << >> /\ v.skips
    <3>1. Len(ids) = 0 BY <2>4
    <3> QED BY <2>1, <2>4, <3>1
  <2> QED BY <1>3, <2>1, <2>2, <2>3, <2>4 DEF Given, Single, Every
<1>7. 1 \in 1 .. Len(v.ids) + 1 /\ 1 \in 1 .. MaxTries /\ 0 \in 0 .. 1
  BY <1>6, TriesAssumption
<1>8. Core(p) BY <1>2, <1>4, <1>5, <1>7, BlankIsTyped DEF Core
<1>9. p.phase = "look" \/ ~v.skips BY <1>2, <1>5 DEF First
<1> QED BY <1>1, <1>2, <1>6, <1>8, <1>9 DEF Counted

LEMMA NextIsCounted ==
  ASSUME NEW p, ProcFields \subseteq DOMAIN p, Core(p), p.at <= Len(p.inv.ids)
  PROVE  Counted(NextId(p))
<1>1. /\ Len(p.inv.ids) \in Nat /\ p.at \in Nat \ {0} /\ p.failed \in 0 .. p.at
      /\ 1 \in 1 .. MaxTries
  BY IdsHaveLength, TriesAssumption DEF Core
<1>2. CASE p.at < Len(p.inv.ids) /\ ~p.inv.bulk
  <2> DEFINE f == IF p.inv.look = "row" THEN "look" ELSE Ready(p.inv)
  <2>1. PICK q : q = [p EXCEPT !.at = @ + 1, !.tries = 1, !.phase = f] OBVIOUS
  <2>2. NextId(p) = q BY <1>2, <2>1 DEF NextId
  <2>3. f = "look" => ~p.inv.skips BY DEF Core, Ready
  <2> HIDE DEF f
  <2>4. /\ q.inv = p.inv /\ q.seen = p.seen /\ q.failed = p.failed /\ q.did = p.did
        /\ q.at = p.at + 1 /\ q.tries = 1 /\ q.phase = f
    BY <2>1 DEF ProcFields
  <2>5. /\ q.at \in 1 .. Len(q.inv.ids) + 1 /\ q.at <= Len(q.inv.ids)
        /\ q.failed \in 0 .. q.at /\ q.failed < q.at
    BY <1>1, <1>2, <2>4
  <2>6. Core(q) BY <1>1, <2>4, <2>5 DEF Core
  <2> QED BY <2>2, <2>3, <2>4, <2>5, <2>6 DEF Counted
<1>3. CASE ~(p.at < Len(p.inv.ids) /\ ~p.inv.bulk)
  <2>1. PICK q : q = [p EXCEPT !.phase = "end"] OBVIOUS
  <2>2. NextId(p) = q BY <1>3, <2>1 DEF NextId
  <2>3. /\ q.inv = p.inv /\ q.seen = p.seen /\ q.failed = p.failed /\ q.did = p.did
        /\ q.at = p.at /\ q.tries = p.tries /\ q.phase = "end"
    BY <2>1 DEF ProcFields
  <2> QED BY <2>2, <2>3 DEF Core, Counted, Going
<1> QED BY <1>2, <1>3

LEMMA StopIsCounted ==
  ASSUME NEW p, ProcFields \subseteq DOMAIN p, Core(p), p.failed < p.at
  PROVE  Counted(Stop(p))
<1>1. PICK q : q = Stop(p) OBVIOUS
<1>2. /\ q.inv = p.inv /\ q.seen = p.seen /\ q.failed = p.failed + 1 /\ q.did = p.did
      /\ q.at = p.at /\ q.tries = p.tries /\ q.phase = "end"
  BY <1>1 DEF ProcFields, Stop
<1>3. q.failed \in 0 .. q.at BY <1>2, IdsHaveLength
<1> QED BY <1>1, <1>2, <1>3 DEF Core, Counted, Going

LEMMA FailsAreCounted ==
  ASSUME NEW p, ProcFields \subseteq DOMAIN p, Core(p), p.failed < p.at, p.at <= Len(p.inv.ids)
  PROVE  Counted(Fails(p))
<1>1. CASE ~p.inv.goesOn BY <1>1, StopIsCounted DEF Fails
<1>2. CASE p.inv.goesOn
  <2>1. PICK q : q = [p EXCEPT !.failed = @ + 1] OBVIOUS
  <2>2. /\ q.inv = p.inv /\ q.seen = p.seen /\ q.failed = p.failed + 1 /\ q.did = p.did
        /\ q.at = p.at /\ q.tries = p.tries /\ DOMAIN q = DOMAIN p
    BY <2>1 DEF ProcFields
  <2>3. q.failed \in 0 .. q.at BY <2>2, IdsHaveLength
  <2>4. Core(q) BY <2>2, <2>3 DEF Core
  <2>5. Counted(NextId(q)) BY <2>2, <2>4, NextIsCounted
  <2> QED BY <1>2, <2>1, <2>5 DEF Fails
<1> QED BY <1>1, <1>2

(* A lookup brings the ids and their paths.                                *)
Brings(p, s) ==
  /\ DOMAIN s = DOMAIN p /\ s.at = p.at /\ s.did = p.did /\ s.failed = p.failed
  /\ s.tries = p.tries /\ s.phase = p.phase /\ \A i \in Id : s.seen.paths[i] \in Path
  /\ s.inv.skips = p.inv.skips /\ s.inv.look = p.inv.look /\ s.inv.saves = p.inv.saves
  /\ IF p.inv.skips THEN s.inv.ids \in Seq(Id) ELSE s.inv.ids = p.inv.ids
LEMMA ShownBrings ==
  ASSUME Rows(server), NEW p, Sane(p), Counted(p), p.inv.look \in Before \ {"none"},
         NEW s \in Shown(p)
  PROVE  Brings(p, s)
<1>1. \A i \in Id : p.seen.paths[i] \in Path BY DEF Counted, Core
<1>2. ASSUME NEW seen, s = [p EXCEPT !.seen = seen], ~p.inv.skips,
             \A i \in Id : seen.paths[i] \in Path
      PROVE  Brings(p, s)
  <2>1. /\ DOMAIN s = DOMAIN p /\ s.inv = p.inv /\ s.at = p.at /\ s.failed = p.failed
        /\ s.phase = p.phase /\ s.did = p.did /\ s.tries = p.tries /\ s.seen = seen
    BY <1>2 DEF Sane, ProcFields
  <2> QED BY <1>2, <2>1 DEF Brings
<1>3. ASSUME NEW paths, NEW ids, \A i \in Id : paths[i] \in Path,
             p.inv.skips => ids \in Seq(Id),
             s = [p EXCEPT !.seen.paths = paths,
                           !.inv.ids = IF p.inv.skips THEN ids ELSE @]
      PROVE  Brings(p, s)
  <2> DEFINE seen == [p.seen EXCEPT !.paths = paths]
             inv  == [p.inv EXCEPT !.ids = IF p.inv.skips THEN ids ELSE @]
  <2>1. s = [p EXCEPT !.seen = seen, !.inv = inv] BY <1>3 DEF Sane, ProcFields
  <2>2. seen.paths = paths BY DEF Sane
  <2>3. /\ inv.skips = p.inv.skips /\ inv.look = p.inv.look /\ inv.saves = p.inv.saves
        /\ inv.ids = IF p.inv.skips THEN ids ELSE p.inv.ids
    BY DEF Sane, Sensible, InvFields
  <2> HIDE DEF seen, inv
  <2>4. /\ DOMAIN s = DOMAIN p /\ s.inv = inv /\ s.at = p.at /\ s.failed = p.failed
        /\ s.phase = p.phase /\ s.did = p.did /\ s.tries = p.tries /\ s.seen = seen
    BY <2>1 DEF Sane, ProcFields
  <2> QED BY <1>3, <2>2, <2>3, <2>4 DEF Brings
<1>4. p.inv.skips => p.inv.look \in {"tree", "photos"} BY DEF Counted, Core
<1>5. CASE p.inv.look \in {"row", "link", "trash"}
  <2>1. \E row : s = [p EXCEPT !.seen.row = row] \/ s = ShownTrash(p)
    <3>1. CASE p.inv.look = "row" BY <3>1 DEF Shown, ShownRow
    <3>2. CASE p.inv.look = "link"
      <4>1. s = [p EXCEPT !.seen.row.ver = Row("link", Current(p)).ver]
        BY <3>2 DEF Shown, ShownLink
      <4> QED BY <4>1 DEF Sane, ProcFields
    <3>3. CASE p.inv.look = "trash" BY <3>3 DEF Shown
    <3> QED BY <1>5, <3>1, <3>2, <3>3
  <2>2. PICK row : s = [p EXCEPT !.seen.row = row] \/ s = ShownTrash(p) BY <2>1
  <2> DEFINE one == [p.seen EXCEPT !.row = row]
             two == [p.seen EXCEPT !.files = FilesTrash.files, !.folders = FilesTrash.folders]
  <2>3. s = [p EXCEPT !.seen = one] \/ s = [p EXCEPT !.seen = two]
    BY <2>2 DEF Sane, ProcFields, ShownTrash
  <2>4. one.paths = p.seen.paths /\ two.paths = p.seen.paths BY DEF Sane
  <2> HIDE DEF one, two
  <2> QED BY <1>1, <1>2, <1>4, <1>5, <2>3, <2>4
<1>6. CASE p.inv.look \in {"tree", "names"}
  <2> DEFINE path == [i \in Id |-> IF i \notin Listed THEN Unlisted
                                   ELSE IF p.inv.skips THEN RelPath(i) ELSE BaseName(i)]
  <2>1. s = [p EXCEPT !.seen.paths = path,
                      !.inv.ids = IF p.inv.skips THEN InOrder(Listed) ELSE @]
    <3>1. s = ShownTree(p) BY <1>6 DEF Shown
    <3> QED BY <3>1 DEF ShownTree
  <2>2. ASSUME NEW i \in Id PROVE path[i] \in Path
    <3>1. CASE i \notin Listed BY <3>1 DEF Path
    <3>2. CASE i \in Listed /\ p.inv.skips
      <4>1. RelPath(i) \in Path BY <3>2, RelPathsArePaths DEF Listed
      <4> QED BY <3>2, <4>1
    <3>3. CASE i \in Listed /\ ~p.inv.skips
      <4>1. File(i).name \in Name BY <3>3, RowsAre DEF Listed, Live, FileRow
      <4>2. BaseName(i) \in Path BY <4>1, OneNameIsAPath DEF BaseName
      <4> QED BY <3>3, <4>2
    <3> QED BY <3>1, <3>2, <3>3
  <2>3. InOrder(Listed) \in Seq(Id) BY InOrderIs DEF Listed
  <2> HIDE DEF path
  <2> QED BY <1>3, <2>1, <2>2, <2>3
<1>7. CASE p.inv.look = "photos"
  <2>1. PICK names \in [Photos -> Name], images \in SUBSET Photos :
          s = ShownPhotos(p, names, images)
    BY <1>7 DEF Shown
  <2> DEFINE path == [i \in Id |-> IF i \in Photos THEN <<names[i]>> ELSE Unlisted]
  <2>2. s = [p EXCEPT !.seen.paths = path,
                      !.inv.ids = IF p.inv.skips THEN InOrder(images) ELSE @]
    BY <2>1 DEF ShownPhotos
  <2>3. ASSUME NEW i \in Id PROVE path[i] \in Path
    <3>1. CASE i \notin Photos BY <3>1 DEF Path
    <3>2. CASE i \in Photos BY <3>2, OneNameIsAPath
    <3> QED BY <3>1, <3>2
  <2>4. InOrder(images) \in Seq(Id) BY InOrderIs DEF Photos
  <2> HIDE DEF path
  <2> QED BY <1>3, <2>2, <2>3, <2>4
<1> QED BY <1>5, <1>6, <1>7 DEF Before

LEMMA AfterLookIsCounted ==
  ASSUME NEW p, Sane(p), Counted(p), p.phase = "look", NEW s, Brings(p, s)
  PROVE  Counted(AfterLook(s))
<1>1. Core(p) /\ p.failed < p.at BY DEF Counted, Going
<1>2. Core(s)
  <2>1. CASE p.inv.skips
    <3>1. p.at = 1 /\ p.did = {} BY <2>1 DEF Counted
    <3>2. Len(s.inv.ids) \in Nat
      <4>1. PICK ids \in Seq(Id) : ids = s.inv.ids BY <2>1 DEF Brings
      <4> QED BY <4>1
    <3>3. s.at \in 1 .. Len(s.inv.ids) + 1 BY <3>1, <3>2 DEF Brings
    <3> QED BY <1>1, <2>1, <3>1, <3>3 DEF Brings, Core
  <2>2. CASE ~p.inv.skips BY <1>1, <2>2 DEF Brings, Core
  <2> QED BY <2>1, <2>2
<1>3. ProcFields \subseteq DOMAIN s BY DEF Sane, Brings
<1>4. CASE s.inv.ids = << >>
  <2>1. PICK q : q = [s EXCEPT !.phase = "end"] OBVIOUS
  <2>2. AfterLook(s) = q BY <1>4, <2>1 DEF AfterLook
  <2>3. /\ q.inv = s.inv /\ q.seen = s.seen /\ q.failed = s.failed /\ q.did = s.did
        /\ q.at = s.at /\ q.tries = s.tries /\ q.phase = "end"
    BY <1>3, <2>1 DEF ProcFields
  <2> QED BY <1>2, <2>2, <2>3 DEF Core, Counted, Going
<1>5. CASE s.inv.ids # << >>
  <2>1. PICK q : q = [s EXCEPT !.phase = Ready(s.inv), !.tries = 1] OBVIOUS
  <2>2. AfterLook(s) = q BY <1>5, <2>1 DEF AfterLook
  <2>3. /\ q.inv = s.inv /\ q.seen = s.seen /\ q.failed = s.failed /\ q.did = s.did
        /\ q.at = s.at /\ q.tries = 1 /\ q.phase \in {"open", "call"}
    BY <1>3, <2>1 DEF ProcFields, Ready
  <2>4. Core(q) BY <1>2, <2>3, TriesAssumption DEF Core
  <2>5. q.at <= Len(q.inv.ids)
    <3>1. CASE p.inv.skips
      <4>1. PICK ids \in Seq(Id) : ids = s.inv.ids BY <3>1 DEF Brings
      <4>2. 1 <= Len(ids) BY <1>5, <4>1
      <4>3. p.at = 1 BY <3>1 DEF Counted
      <4> QED BY <2>3, <4>1, <4>2, <4>3 DEF Brings
    <3>2. CASE ~p.inv.skips BY <2>3, <3>2 DEF Counted, Brings
    <3> QED BY <3>1, <3>2
  <2>6. q.failed < q.at BY <1>1, <2>3 DEF Brings
  <2> QED BY <2>2, <2>3, <2>4, <2>5, <2>6 DEF Counted
<1> QED BY <1>4, <1>5

(* The local files: paths, and contents or what is none.                   *)
DiskTyped ==
  DOMAIN disk \subseteq Path /\ \A p \in DOMAIN disk : disk[p] \in Data \cup {Torn, Unclosed}
CountInv  == DiskTyped /\ \A c \in Cli : proc[c].phase # "free" => Counted(proc[c])

LEMMA TargetsArePaths ==
  ASSUME NEW p, Sane(p), Core(p), p.at <= Len(p.inv.ids), p.inv.saves # "no"
  PROVE  Target(p) \in Path /\ Current(p) \in Id
<1>1. p.inv.ids \in Seq(Id) BY DEF Core
<1>2. p.at \in 1 .. Len(p.inv.ids) BY IdsHaveLength
<1>3. Current(p) \in Id BY <1>1, <1>2 DEF Current
<1>4. p.inv.name \in Name BY DEF Sane, Sensible
<1>5. CASE p.inv.look \in {"tree", "names", "photos"} BY <1>3, <1>5 DEF Core, Target
<1>6. CASE p.inv.look \notin {"tree", "names", "photos"}
  BY <1>3, <1>4, <1>6, OneNameIsAPath DEF Target
<1> QED BY <1>3, <1>5, <1>6

(* A step of one process: it stays counted, and what it writes is typed.   *)
Becomes(c, q) ==
  LET p == proc[c] IN
  /\ proc' = [proc EXCEPT ![c] = q] /\ Counted(q)
  /\ \/ disk' = disk
     \/ disk' = Drop(disk, Target(p))
     \/ \E d \in Data \cup {Torn, Unclosed} :
          disk' = Put(disk, Target(p), d) /\ Target(p) \in Path
LEMMA WritesCount ==
  ASSUME DOMAIN proc = Cli, CountInv, NEW c \in Cli, NEW q, Becomes(c, q)
  PROVE  CountInv'
<1>1. proc'[c] = q /\ \A d \in Cli \ {c} : proc'[d] = proc[d] BY DEF Becomes
<1>2. ASSUME NEW d \in Cli, proc'[d].phase # "free" PROVE Counted(proc'[d])
  <2>1. CASE d = c BY <1>1, <2>1 DEF Becomes
  <2>2. CASE d # c
    <3>1. proc'[d] = proc[d] BY <1>1, <2>2
    <3>2. proc[d].phase # "free" BY <1>2, <3>1
    <3>3. Counted(proc[d]) BY <3>2 DEF CountInv
    <3> QED BY <3>1, <3>3
  <2> QED BY <2>1, <2>2
<1>3. ASSUME NEW p, Counted(p) PROVE Counted(p)' BY <1>3 DEF Counted, Core
<1>4. DiskTyped'
  <2>1. PICK path : path = Target(proc[c]) OBVIOUS
  <2>2. CASE disk' = disk BY <2>2 DEF CountInv, DiskTyped
  <2>3. CASE disk' = Drop(disk, path) BY <2>3 DEF CountInv, DiskTyped, Drop
  <2>4. ASSUME NEW d \in Data \cup {Torn, Unclosed}, disk' = Put(disk, path, d),
               path \in Path
        PROVE  DiskTyped'
    BY <2>4 DEF CountInv, DiskTyped, Put
  <2> QED BY <2>1, <2>2, <2>3, <2>4 DEF Becomes
<1>5. ASSUME NEW d \in Cli, proc'[d].phase # "free" PROVE Counted(proc[d])'
  BY <1>2, <1>5 DEF Counted, Core
<1> QED BY <1>4, <1>5 DEF CountInv

LEMMA StartCounts ==
  ASSUME DOMAIN proc = Cli, CountInv, NEW c \in Cli, Start(c)
  PROVE  CountInv'
<1>1. PICK v \in Commands : proc' = [proc EXCEPT ![c] = Started(v)] BY DEF Start
<1>2. Becomes(c, Started(v)) BY <1>1, StartedIsCounted DEF Start, Becomes
<1> QED BY <1>2, WritesCount

LEMMA LookCounts ==
  ASSUME Rows(server), CommandsInv, AllSane, CountInv, NEW c \in Cli, Look(c)
  PROVE  CountInv'
<1>1. PICK p : p = proc[c] OBVIOUS
<1>2. p.phase = "look" /\ UNCHANGED disk BY <1>1 DEF Look
<1>3. Sane(p) /\ Counted(p) /\ p.inv.look \in Before \ {"none"}
  BY <1>1, <1>2 DEF AllSane, CountInv, CommandsInv, ProcOK, Shape, InvOK
<1>4. PICK q : /\ proc' = [proc EXCEPT ![c] = q]
               /\ \/ \E s \in Shown(p) : q = AfterLook(s)
                  \/ q = [p EXCEPT !.tries = @ + 1] /\ p.tries < MaxTries
                  \/ q = AfterLook(p) /\ p.inv.look = "names"
                  \/ q = Stop(p)
  BY <1>1 DEF Look, Retries
<1>5. Core(p) /\ p.failed < p.at /\ ProcFields \subseteq DOMAIN p
  BY <1>2, <1>3 DEF Counted, Going, Sane
<1>6. CASE \E s \in Shown(p) : q = AfterLook(s)
  <2>1. PICK s \in Shown(p) : q = AfterLook(s) BY <1>6
  <2>2. Brings(p, s) BY <1>3, ShownBrings
  <2>3. Counted(q) BY <1>2, <1>3, <2>1, <2>2, AfterLookIsCounted
  <2> QED BY <1>1, <1>2, <1>4, <2>3, WritesCount DEF Becomes, AllSane
<1>7. CASE q = [p EXCEPT !.tries = @ + 1] /\ p.tries < MaxTries
  <2>1. /\ q.inv = p.inv /\ q.seen = p.seen /\ q.failed = p.failed /\ q.did = p.did
        /\ q.at = p.at /\ q.tries = p.tries + 1 /\ q.phase = p.phase
    BY <1>5, <1>7 DEF ProcFields
  <2>2. q.tries \in 1 .. MaxTries BY <1>5, <1>7, <2>1, TriesAssumption DEF Core
  <2>3. Counted(q) BY <1>3, <2>1, <2>2 DEF Counted, Core
  <2> QED BY <1>1, <1>2, <1>4, <2>3, WritesCount DEF Becomes, AllSane
<1>8. CASE q = AfterLook(p) /\ p.inv.look = "names"
  <2>1. ~p.inv.skips /\ \A i \in Id : p.seen.paths[i] \in Path BY <1>5, <1>8 DEF Core
  <2>2. Brings(p, p) BY <2>1 DEF Brings
  <2>3. Counted(q) BY <1>2, <1>3, <1>8, <2>2, AfterLookIsCounted
  <2> QED BY <1>1, <1>2, <1>4, <2>3, WritesCount DEF Becomes, AllSane
<1>9. CASE q = Stop(p)
  <2>1. Counted(q) BY <1>5, <1>9, StopIsCounted
  <2> QED BY <1>1, <1>2, <1>4, <2>1, WritesCount DEF Becomes, AllSane
<1> QED BY <1>4, <1>6, <1>7, <1>8, <1>9

LEMMA CallCounts ==
  ASSUME Rows(server), AllSane, CountInv, NEW c \in Cli, Call(c)
  PROVE  CountInv'
<1> DEFINE p == proc[c]
           did == IF p.inv.bulk THEN DOMAIN p.inv.ids ELSE {p.at}
<1>1. /\ p.phase = "call" /\ Sane(p) /\ Counted(p) /\ Core(p) /\ ProcFields \subseteq DOMAIN p
      /\ p.failed < p.at /\ p.at <= Len(p.inv.ids)
  BY DEF AllSane, Call, CountInv, Counted, Going, Sane
<1>2. PICK a \in Answered(Outcomes(p)) \cup Unanswered(Outcomes(p)) :
        LET q == IF a.done THEN [p EXCEPT !.did = @ \cup did] ELSE p IN
        /\ Attempt(Outcomes(p), a)
        /\ IF Retries(a, p.tries)
           THEN proc' = [proc EXCEPT ![c] = [q EXCEPT !.tries = @ + 1]] /\ UNCHANGED disk
           ELSE IF a.answer = "ok"
           THEN /\ proc' = [proc EXCEPT ![c] = NextId(q)]
                /\ disk' = IF p.inv.saves = "no" THEN disk ELSE Saved(p)
           ELSE proc' = [proc EXCEPT ![c] = Fails(q)] /\ disk' = Unsaved(p)
  BY DEF Call, Carried
<1> DEFINE q == IF a.done THEN [p EXCEPT !.did = @ \cup did] ELSE p
<1>3. did \subseteq DOMAIN p.inv.ids
  <2>1. p.at \in DOMAIN p.inv.ids BY <1>1, IdsHaveLength
  <2> QED BY <2>1
<1>4. /\ DOMAIN q = DOMAIN p /\ q.inv = p.inv /\ q.at = p.at /\ q.failed = p.failed
      /\ q.phase = p.phase /\ q.seen = p.seen /\ q.tries = p.tries
      /\ q.did \in {p.did, p.did \cup did}
  BY <1>1 DEF Sane, ProcFields
<1>5. a.answer = "ok" => \E o \in Outcomes(p) : o.ok BY <1>2, AttemptIs
<1>6. Core(q)
  <2> HIDE DEF q, did
  <2>1. q.did \subseteq DOMAIN q.inv.ids BY <1>1, <1>3, <1>4 DEF Core
  <2> QED BY <1>1, <1>4, <2>1 DEF Core
<1>7. p.inv.saves # "no" => Target(p) \in Path BY <1>1, TargetsArePaths
<1>8. CASE Retries(a, p.tries)
  <2>1. PICK r : r = [q EXCEPT !.tries = @ + 1] OBVIOUS
  <2>2. proc' = [proc EXCEPT ![c] = r] /\ disk' = disk BY <1>2, <1>8, <2>1
  <2> HIDE DEF q
  <2>3. /\ r.inv = q.inv /\ r.at = q.at /\ r.failed = q.failed /\ r.did = q.did
        /\ r.phase = q.phase /\ r.seen = q.seen /\ r.tries = q.tries + 1
    BY <1>1, <1>4, <2>1 DEF ProcFields
  <2>4. r.tries \in 1 .. MaxTries
    <3>1. p.tries \in 1 .. MaxTries /\ p.tries < MaxTries BY <1>1, <1>8 DEF Core, Retries
    <3> QED BY <1>4, <2>3, <3>1, TriesAssumption
  <2>5. Core(r) BY <1>6, <2>3, <2>4 DEF Core
  <2>6. Counted(r) BY <1>1, <1>4, <2>3, <2>5 DEF Counted
  <2> QED BY <2>2, <2>6, WritesCount DEF Becomes, AllSane
<1>9. CASE ~Retries(a, p.tries) /\ a.answer = "ok"
  <2>1. /\ proc' = [proc EXCEPT ![c] = NextId(q)]
        /\ disk' = IF p.inv.saves = "no" THEN disk ELSE Saved(p)
    BY <1>2, <1>9
  <2> HIDE DEF q
  <2>2. Counted(NextId(q)) BY <1>1, <1>4, <1>6, NextIsCounted
  <2>3. p.inv.saves # "no" => Body(p) \in Data BY <1>1, <1>5, <1>9, BodyIsData DEF Sane
  <2>4. Becomes(c, NextId(q)) BY <1>7, <2>1, <2>2, <2>3 DEF Becomes, Saved
  <2> QED BY <2>4, WritesCount DEF AllSane
<1>10. CASE ~Retries(a, p.tries) /\ a.answer # "ok"
  <2>1. proc' = [proc EXCEPT ![c] = Fails(q)] /\ disk' = Unsaved(p) BY <1>2, <1>10
  <2> HIDE DEF q
  <2>2. Counted(Fails(q)) BY <1>1, <1>4, <1>6, FailsAreCounted
  <2>3. Becomes(c, Fails(q)) BY <2>1, <2>2 DEF Becomes, Unsaved
  <2> QED BY <2>3, WritesCount DEF AllSane
<1> QED BY <1>8, <1>9, <1>10

LEMMA LocalCounts ==
  ASSUME AllSane, CountInv, NEW c \in Cli,
         \/ OpenLocal(c) \/ PassBy(c) \/ NotInTrash(c) \/ BreaksOff(c)
         \/ CloseFails(c) \/ End(c) \/ Kill(c)
  PROVE  CountInv'
<1> DEFINE p == proc[c]
<1>1. p.phase \in Going \cup {"end"}
  BY DEF OpenLocal, PassBy, NotInTrash, BreaksOff, CloseFails, End, Kill, Going
<1>2. /\ Sane(p) /\ Counted(p) /\ Core(p) /\ ProcFields \subseteq DOMAIN p
  BY <1>1 DEF AllSane, CountInv, Counted, Going, Sane
<1>3. p.phase \in {"open", "call"} => p.failed < p.at /\ p.at <= Len(p.inv.ids)
  BY <1>2 DEF Counted, Going
<1>4. CASE OpenLocal(c)
  <2>1. PICK q : q = [p EXCEPT !.phase = "call"] OBVIOUS
  <2>2. /\ proc' = [proc EXCEPT ![c] = q] /\ disk' = Put(disk, Target(p), Torn)
        /\ p.phase = "open"
    BY <1>4, <2>1 DEF OpenLocal
  <2>3. /\ q.inv = p.inv /\ q.seen = p.seen /\ q.failed = p.failed /\ q.did = p.did
        /\ q.at = p.at /\ q.tries = p.tries /\ q.phase = "call"
    BY <1>2, <2>1 DEF ProcFields
  <2>4. Counted(q) BY <1>2, <1>3, <2>2, <2>3 DEF Counted, Core
  <2>5. Target(p) \in Path BY <1>2, <1>3, <2>2, TargetsArePaths DEF Sane, Direct
  <2> QED BY <2>2, <2>4, <2>5, WritesCount DEF Becomes, AllSane
<1>5. CASE PassBy(c)
  <2>1. proc' = [proc EXCEPT ![c] = NextId(p)] /\ disk' = disk /\ p.phase = "call"
    BY <1>5 DEF PassBy
  <2>2. Counted(NextId(p)) BY <1>2, <1>3, <2>1, NextIsCounted
  <2> QED BY <2>1, <2>2, WritesCount DEF Becomes, AllSane
<1>6. CASE NotInTrash(c)
  <2>1. proc' = [proc EXCEPT ![c] = Stop(p)] /\ disk' = disk /\ p.phase = "call"
    BY <1>6 DEF NotInTrash
  <2>2. Counted(Stop(p)) BY <1>2, <1>3, <2>1, StopIsCounted
  <2> QED BY <2>1, <2>2, WritesCount DEF Becomes, AllSane
<1>7. CASE BreaksOff(c)
  <2>1. proc' = [proc EXCEPT ![c] = Fails(p)] /\ disk' = Unsaved(p) /\ p.phase = "call"
    BY <1>7 DEF BreaksOff
  <2>2. Counted(Fails(p)) BY <1>2, <1>3, <2>1, FailsAreCounted
  <2> QED BY <2>1, <2>2, WritesCount DEF Becomes, AllSane, Unsaved
<1>8. CASE CloseFails(c)
  <2>1. PICK q : q = Carried(p) OBVIOUS
  <2>2. /\ proc' = [proc EXCEPT ![c] = IF p.inv.saves = "unchecked" THEN NextId(q) ELSE Fails(q)]
        /\ disk' = IF p.inv.saves = "renamed" THEN disk ELSE Put(disk, Target(p), Unclosed)
        /\ p.inv.saves # "no" /\ p.phase = "call"
    BY <1>8, <2>1 DEF CloseFails
  <2> DEFINE did == IF p.inv.bulk THEN DOMAIN p.inv.ids ELSE {p.at}
  <2>3. /\ DOMAIN q = DOMAIN p /\ q.inv = p.inv /\ q.at = p.at /\ q.failed = p.failed
        /\ q.phase = p.phase /\ q.seen = p.seen /\ q.tries = p.tries
        /\ q.did = p.did \cup did
    BY <1>2, <2>1 DEF Carried, ProcFields
  <2>4. did \subseteq DOMAIN p.inv.ids
    <3>1. p.at \in DOMAIN p.inv.ids BY <1>2, <1>3, <2>2, IdsHaveLength
    <3> QED BY <3>1
  <2>5. Core(q)
    <3> HIDE DEF did
    <3>1. q.did \subseteq DOMAIN q.inv.ids BY <1>2, <2>3, <2>4 DEF Core
    <3> QED BY <1>2, <2>3, <3>1 DEF Core
  <2>6. q.failed < q.at /\ q.at <= Len(q.inv.ids) /\ ProcFields \subseteq DOMAIN q
    BY <1>2, <1>3, <2>2, <2>3
  <2>7. Counted(NextId(q)) /\ Counted(Fails(q))
    BY <2>5, <2>6, NextIsCounted, FailsAreCounted
  <2>8. Target(p) \in Path BY <1>2, <1>3, <2>2, TargetsArePaths
  <2>9. PICK t : /\ proc' = [proc EXCEPT ![c] = t] /\ Counted(t)
    BY <2>2, <2>7
  <2>10. Becomes(c, t) BY <2>2, <2>8, <2>9 DEF Becomes
  <2> QED BY <2>10, WritesCount DEF AllSane
<1>9. CASE End(c) \/ Kill(c)
  <2>1. PICK f \in {"over", "killed"} :
          /\ proc' = [proc EXCEPT ![c] = [p EXCEPT !.phase = f, !.seen = Blank, !.tries = 1]]
          /\ disk' = disk
    BY <1>9 DEF End, Kill
  <2>2. PICK q : q = [p EXCEPT !.phase = f, !.seen = Blank, !.tries = 1] OBVIOUS
  <2>3. /\ q.inv = p.inv /\ q.seen = Blank /\ q.failed = p.failed /\ q.did = p.did
        /\ q.at = p.at /\ q.tries = 1 /\ q.phase = f
    BY <1>2, <2>2 DEF ProcFields
  <2>4. Core(q) BY <1>2, <2>3, BlankIsTyped, TriesAssumption DEF Core
  <2>5. Counted(q) BY <2>3, <2>4 DEF Counted, Going
  <2> QED BY <2>1, <2>2, <2>5, WritesCount DEF Becomes, AllSane
<1> QED BY <1>4, <1>5, <1>6, <1>7, <1>8, <1>9

LEMMA CommandsAreCounted ==
  ASSUME CommandsInv, LookInv, CountInv, Rows(server), [CommandsNext]_commandVars
  PROVE  CountInv'
<1>1. CASE UNCHANGED commandVars
  BY <1>1 DEF commandVars, CountInv, DiskTyped, Counted, Core
<1>2. ASSUME NEW c \in Cli, CommandStep(c) PROVE CountInv'
  <2>1. AllSane /\ DOMAIN proc = Cli BY DEF LookInv, AllSane
  <2>2. CASE Start(c) BY <2>1, <2>2, StartCounts
  <2>3. CASE Look(c) BY <2>1, <2>3, LookCounts
  <2>4. CASE Call(c) BY <2>1, <2>4, CallCounts
  <2> QED BY <1>2, <2>1, <2>2, <2>3, <2>4, LocalCounts DEF CommandStep
<1> QED BY <1>1, <1>2 DEF CommandsNext

LEMMA CountedIsTyped ==
  ASSUME FilesTypeOK, AllSane, CountInv
  PROVE  CommandsTypeOK
<1>1. ASSUME NEW c \in Cli, Busy1(c)
      PROVE  /\ proc[c].phase \in {"look", "open", "call", "end", "over", "killed"}
             /\ proc[c].at \in 1 .. Len(proc[c].inv.ids) + 1
             /\ proc[c].tries \in 1 .. MaxTries
             /\ proc[c].did \subseteq DOMAIN proc[c].inv.ids
             /\ proc[c].failed \in 0 .. Len(proc[c].inv.ids) + 1
  <2>1. PICK p : p = proc[c] OBVIOUS
  <2>2. Sane(p) /\ Core(p) BY <1>1, <2>1 DEF Busy1, AllSane, CountInv, Counted
  <2>3. p.phase \in {"look", "open", "call", "end", "over", "killed"}
    BY <2>2 DEF Sane, Going
  <2>4. p.failed \in 0 .. Len(p.inv.ids) + 1 BY <2>2, IdsHaveLength DEF Core
  <2> QED BY <2>1, <2>2, <2>3, <2>4 DEF Core
<1> QED BY <1>1 DEF CommandsTypeOK, CountInv, DiskTyped

(* On an account of well-typed rows a command stays at one of its ids or   *)
(* past them, tries a request no more than MaxTries times, has its work    *)
(* done for none but its own ids, and writes files whose paths are no      *)
(* longer than the tree is deep; whatever others do to the account.        *)
THEOREM CommandsAreTyped == CommandsSpec /\ []FilesTypeOK => []CommandsTypeOK
<1>1. CommandsInit => CountInv
  BY DEF CommandsInit, CountInv, DiskTyped, Free
<1>2. CommandsInv /\ LookInv /\ CountInv /\ FilesTypeOK /\ [CommandsNext]_commandVars
        => CountInv'
  BY CommandsAreCounted, TypesAreRows
<1>3. FilesTypeOK /\ LookInv /\ CountInv => CommandsTypeOK BY CountedIsTyped DEF LookInv
<1> QED BY <1>1, <1>2, <1>3, CommandsHold, PTL DEF CommandsSpec

-----------------------------------------------------------------------------
(* Paths.                                                                  *)
LEMMA PathsSplit ==
  ASSUME NEW p \in Seq(Name), p # << >>
  PROVE  /\ Dir(p) \in Seq(Name) /\ Last1(p) \in Name /\ p = Append(Dir(p), Last1(p))
         /\ \A n \in 1 .. Len(p) - 1 : Dir(p)[n] = p[n]
         /\ Len(Dir(p)) = Len(p) - 1
<1>1. Len(p) \in Nat \ {0} BY EmptySeq
<1>2. Dir(p) \in Seq(Name) /\ Len(Dir(p)) = Len(p) - 1
  <2> DEFINE last == Len(p) - 1
  <2>1. 1 \in Int /\ last \in Int /\ \A i \in 1 .. last : p[i] \in Name
    BY <1>1, ElementOfSeq
  <2>2. /\ SubSeq(p, 1, last) \in Seq(Name)
        /\ Len(SubSeq(p, 1, last)) = IF 1 <= last THEN last - 1 + 1 ELSE 0
    <3> HIDE DEF last
    <3> QED BY <2>1, SubSeqProperties
  <2>3. \A k \in Nat \ {0} : (IF 1 <= k - 1 THEN (k - 1) - 1 + 1 ELSE 0) = k - 1 OBVIOUS
  <2>4. (IF 1 <= last THEN last - 1 + 1 ELSE 0) = last BY <1>1, <2>3
  <2> QED BY <2>2, <2>4 DEF Dir
<1>3. \A n \in 1 .. Len(p) - 1 : Dir(p)[n] = p[n]
  BY <1>1, SubSeqProperties DEF Dir
<1>4. Last1(p) \in Name BY <1>1, ElementOfSeq DEF Last1
<1>5. PICK q \in Seq(Name) : q = Dir(p) BY <1>2
<1>6. Append(q, Last1(p)) \in Seq(Name) /\ Len(Append(q, Last1(p))) = Len(p)
      /\ Append(q, Last1(p))[Len(p)] = p[Len(p)]
      /\ \A n \in 1 .. Len(p) - 1 : Append(q, Last1(p))[n] = p[n]
  BY <1>1, <1>2, <1>3, <1>4, <1>5 DEF Last1
<1>7. \A n \in 1 .. Len(p) : Append(q, Last1(p))[n] = p[n]
  <2>1. \A n \in 1 .. Len(p) : n = Len(p) \/ n \in 1 .. Len(p) - 1 BY <1>1
  <2> QED BY <1>6, <2>1
<1>8. p = Append(q, Last1(p)) BY <1>6, <1>7, SeqEqual
<1> QED BY <1>2, <1>3, <1>4, <1>5, <1>8

LEMMA PathsJoin ==
  ASSUME NEW s \in Seq(Name), NEW t \in Seq(Name), NEW x \in Name
  PROVE  Append(s \o t, x) = s \o Append(t, x) /\ s \o << >> = s
<1>1. s \o t \in Seq(Name) /\ <<x>> \in Seq(Name) OBVIOUS
<1>2. Append(s \o t, x) = (s \o t) \o <<x>> BY <1>1, AppendIsConcat
<1>3. Append(t, x) = t \o <<x>> BY AppendIsConcat
<1>4. (s \o t) \o <<x>> = s \o (t \o <<x>>) BY <1>1, ConcatAssociative
<1>5. s \o << >> = s BY ConcatEmptySeq
<1> QED BY <1>2, <1>3, <1>4, <1>5

(* What is clicked, and the walk through it.                               *)
Entry0 == [path : Seq(Name), dir : BOOLEAN, data : Data]
LEMMA WalksAre ==
  ASSUME verb.click \in Clicks
  PROVE  /\ Walk \in Seq(Entry0) /\ Len(Walk) \in Nat \ {0} /\ 1 \in DOMAIN Walk
         /\ \A m \in DOMAIN Walk : /\ Walk[m] \in Entry0 /\ m \in Nat
                                   /\ ~Walk[m].dir => Walk[m].path # << >>
<1>1. verb.click.walk \in Seq(Entry0) /\ verb.click.walk # << >>
  BY ClicksAssumption DEF Entry0
<1>2. PICK w \in Seq(Entry0) : w = Walk /\ w # << >> BY <1>1 DEF Walk
<1>3. Len(w) \in Nat \ {0} /\ DOMAIN w = 1 .. Len(w) BY <1>2, EmptySeq
<1>4. \A m \in DOMAIN w : w[m] \in Entry0 BY <1>3, ElementOfSeq
<1>5. ASSUME NEW m \in DOMAIN w, ~w[m].dir PROVE w[m].path # << >>
  <2>1. /\ w[1].path = << >> => w[1].dir /\ \A n \in DOMAIN w \ {1} : w[n].path # << >>
        /\ w[1].path # << >> => Len(w) = 1
    BY <1>2, ClicksAssumption DEF Walk
  <2> QED BY <1>3, <1>5, <2>1
<1> QED BY <1>2, <1>3, <1>4, <1>5

(* Before what is in a folder that is not left out comes the folder.       *)
LEMMA FoldersComeFirst ==
  ASSUME verb.click \in Clicks, NEW m \in DOMAIN Walk, Walk[m].path # << >>,
         ~Leaves(Walk[m]), verb.kind = "upload", Dir(Walk[m].path) # << >>
  PROVE  \E n \in 1 .. m - 1 : Walk[n].dir /\ Walk[n].path = Dir(Walk[m].path) /\ ~Leaves(Walk[n])
<1> DEFINE p == Walk[m].path
<1>1. p \in Seq(Name) /\ Len(p) \in Nat \ {0} /\ m \in Nat /\ DOMAIN Walk = 1 .. Len(Walk)
      /\ Len(Walk) \in Nat \ {0}
  <2>1. p \in Seq(Name) /\ m \in Nat BY WalksAre DEF Entry0
  <2>2. DOMAIN Walk = 1 .. Len(Walk) /\ Len(Walk) \in Nat \ {0} BY WalksAre
  <2> QED BY <2>1, <2>2, EmptySeq
<1>2. Dir(p) \in Seq(Name) /\ Len(Dir(p)) = Len(p) - 1
      /\ \A n \in 1 .. Len(p) - 1 : Dir(p)[n] = p[n]
  BY <1>1, PathsSplit
<1>3. Len(Dir(p)) # 0 BY <1>2, EmptySeq
<1>4. Walk[1].path = << >> /\ m # 1
  <2>1. Walk[1].path # << >> => Len(Walk) = 1 /\ Len(Walk[1].path) = 1
    BY ClicksAssumption DEF Walk
  <2>2. Walk[1].path # << >> => m = 1 BY <1>1, <2>1
  <2> QED BY <1>2, <1>3, <2>1, <2>2
<1>5. PICK n \in 1 .. m - 1 : Walk[n].dir /\ Walk[n].path = Dir(p)
  BY <1>4, ClicksAssumption DEF Walk
<1>6. ASSUME Leaves(Walk[n]) PROVE FALSE
  <2>1. PICK k \in DOMAIN FromTop(Dir(p)) : IsFolder /\ FromTop(Dir(p))[k] \in Excluded
    BY <1>5, <1>6 DEF Leaves
  <2>2. PICK x : x = Last1(Clicked) OBVIOUS
  <2>3. FromTop(Dir(p)) = <<x>> \o Dir(p) /\ FromTop(p) = <<x>> \o p BY <2>2 DEF FromTop
  <2>4. PICK q \in Seq(Name) : q = Dir(p) /\ Len(q) = Len(p) - 1
                               /\ \A j \in 1 .. Len(p) - 1 : q[j] = p[j]
    BY <1>2
  <2>5. PICK r \in Seq(Name) : r = p BY <1>1
  <2> HIDE DEF p
  <2>6. k \in DOMAIN (<<x>> \o r) /\ (<<x>> \o r)[k] = (<<x>> \o q)[k]
    <3>1. DOMAIN (<<x>> \o q) = 1 .. Len(q) + 1 /\ DOMAIN (<<x>> \o r) = 1 .. Len(r) + 1
      OBVIOUS
    <3>2. k \in 1 .. Len(q) + 1 /\ Len(r) = Len(q) + 1 /\ Len(q) \in Nat
      BY <1>1, <2>1, <2>3, <2>4, <2>5, <3>1
    <3>3. k \in 1 .. Len(r) + 1 BY <3>2
    <3>4. CASE k = 1 BY <3>1, <3>3, <3>4
    <3>5. CASE k # 1
      <4>1. k - 1 \in 1 .. Len(q) /\ k - 1 \in 1 .. Len(r) BY <3>2, <3>5
      <4>2. (<<x>> \o q)[k] = q[k - 1] BY <3>2, <3>5, <4>1
      <4>3. (<<x>> \o r)[k] = r[k - 1] BY <3>3, <3>5, <4>1
      <4>4. q[k - 1] = r[k - 1] BY <2>4, <2>5, <3>2, <4>1
      <4> QED BY <3>1, <3>3, <4>2, <4>3, <4>4
    <3> QED BY <3>4, <3>5
  <2>7. Leaves(Walk[m]) BY <2>1, <2>3, <2>4, <2>5, <2>6 DEF Leaves, p
  <2> QED BY <2>7
<1> QED BY <1>5, <1>6

(* What the window knows: the folders it has made lie where they should,   *)
(* with one for each entry passed, and what it has counted has landed.     *)
VerbKinds  == {"share", "encrypt", "decrypt", "createFolder", "upload"}
VerbFields == {"click", "left", "kind", "phase", "remote", "top", "id", "at", "tries",
               "created", "count", "skipped"}
MadeAt(f, p) ==
  f \in Id /\ Folder(f).at = "live" /\ FolderParts(f) = FolderParts(verb.top) \o p
LandedFile(e) ==
  \E i \in Id : /\ Live(i) /\ Here(File(i).folder) /\ File(i).data = e.data
                /\ RelPath(i) = FolderParts(verb.top) \o e.path
ToMake(n) == {m \in 1 .. n : Walk[m].dir /\ Walk[m].path # << >> /\ ~Leaves(Walk[m])}
Uploading ==
  /\ verb.top \in FolderIds /\ Here(verb.top)
  /\ Cardinality(Sent(verb.at - 1)) = verb.count
  /\ \A m \in Sent(verb.at - 1) : LandedFile(Walk[m])
  /\ \A p \in DOMAIN verb.created : p \in Seq(Name) /\ MadeAt(verb.created[p], p)
  /\ \A m \in ToMake(verb.at - 1) : Walk[m].path \in DOMAIN verb.created
VerbTyped ==
  /\ VerbFields \subseteq DOMAIN verb /\ verb.click \in Clicks /\ verb.at \in 1 .. Len(Walk) + 1
  /\ verb.phase \in {"resolve", "act"} => verb.kind \in VerbKinds
  /\ verb.phase = "act" => verb.kind # "upload"
  /\ verb.phase = "walk" => verb.kind \in {"upload", "gallery"}
VerbInv ==
  /\ VerbTyped
  /\ verb.phase = "resolve" => verb.at = 1 /\ verb.count = 0 /\ verb.created = << >>
  /\ verb.kind = "upload" => Uploading
LEMMA InvIsTyped == VerbInv => VerbTyped BY DEF VerbInv
LEMMA InvWillBeTyped == VerbInv' => VerbTyped' BY DEF VerbInv

(* What has landed, and what has been made, stays where it is while the    *)
(* account only grows.                                                     *)
Same(f) == verb'[f] = verb[f]
Onto ==
  /\ Rows(server) /\ Rows(server)' /\ Rooted /\ Undisturbed
  /\ verb.top \in FolderIds /\ Here(verb.top)
LEMMA LandedStays ==
  ASSUME Onto, Same("top")
  PROVE  /\ Here(verb.top)'
         /\ \A e : LandedFile(e) => LandedFile(e)'
         /\ \A f, p : MadeAt(f, p) => MadeAt(f, p)'
<1>1. Here(verb.top)' /\ FolderParts(verb.top)' = FolderParts(verb.top)
  <2>2. PICK t \in FolderIds : t = verb.top BY DEF Onto
  <2>3. Here(t)' /\ FolderParts(t)' = FolderParts(t) BY <2>2, PathsStay DEF Onto
  <2>4. verb'.top = t BY <2>2 DEF Same
  <2>5. Here(verb.top)'
    BY <2>3, <2>4 DEF Here
  <2>6. FolderParts(verb.top)' = FolderParts(t)'
    BY <2>4 DEF FolderParts
  <2> QED BY <2>2, <2>3, <2>5, <2>6
<1>2. ASSUME NEW e, LandedFile(e) PROVE LandedFile(e)'
  <2>1. PICK i \in Id : /\ Live(i) /\ Here(File(i).folder) /\ File(i).data = e.data
                        /\ RelPath(i) = FolderParts(verb.top) \o e.path
    BY <1>2 DEF LandedFile
  <2>2. File(i)' = File(i) BY <2>1 DEF Onto, Undisturbed
  <2>3. PICK g \in FolderIds : g = File(i).folder
    BY <2>1, RowsAre DEF Onto, Live, FileRow, FolderIds
  <2>4. Here(g)' /\ FolderParts(g)' = FolderParts(g) BY <2>1, <2>3, PathsStay DEF Onto
  <2>5. Live(i)' /\ File(i)'.folder = g /\ File(i)'.data = e.data /\ File(i)'.name = File(i).name
    BY <2>1, <2>2, <2>3 DEF Live
  <2>6. RelPath(i)' = Append(FolderParts(g)', File(i).name)
    BY <2>5 DEF RelPath, FolderParts
  <2>7. RelPath(i) = Append(FolderParts(g), File(i).name) BY <2>3 DEF RelPath
  <2>8. RelPath(i)' = (FolderParts(verb.top) \o e.path)'
    BY <1>1, <2>1, <2>4, <2>6, <2>7
  <2>9. Here(File(i).folder)' BY <2>4, <2>5 DEF Here
  <2> QED BY <2>5, <2>8, <2>9 DEF LandedFile
<1>3. ASSUME NEW f, NEW p, MadeAt(f, p) PROVE MadeAt(f, p)'
  <2>1. f \in Extant /\ f \in FolderIds /\ Here(f) BY <1>3 DEF MadeAt, Extant, FolderIds, Here
  <2>2. Folder(f)' = Folder(f) BY <2>1 DEF Onto, Undisturbed
  <2>3. FolderParts(f)' = FolderParts(f) BY <2>1, PathsStay DEF Onto
  <2> QED BY <1>1, <1>3, <2>2, <2>3 DEF MadeAt
<1> QED BY <1>1, <1>2, <1>3

(* The walk and what is left out of it are the click's and the verb's.     *)
LEMMA WalkStays ==
  ASSUME Same("click"), Same("kind")
  PROVE  /\ Walk' = Walk /\ IsFolder' = IsFolder /\ \A e : Leaves(e)' = Leaves(e)
         /\ \A n : Sent(n)' = Sent(n) /\ ToMake(n)' = ToMake(n)
<1>1. verb'.click = verb.click /\ verb'.kind = verb.kind BY DEF Same
<1>2. Walk' = Walk /\ Clicked' = Clicked BY <1>1 DEF Walk, Clicked
<1>3. IsFolder' = IsFolder BY <1>2 DEF IsFolder
<1>4. \A e : Leaves(e)' = Leaves(e)
  BY <1>1, <1>2, <1>3 DEF Leaves, FromTop
<1> QED BY <1>2, <1>3, <1>4 DEF Sent, ToMake

(* A window that keeps what it knows, on an account that at most grows.    *)
Adds(out) == \A o \in out : Grown(o.server)
LEMMA NothingIsGrowth == ASSUME Rows(server) PROVE Grown(server)
BY DEF Grown

LEMMA AttemptsGrow ==
  ASSUME Rows(server), NEW out, Adds(out), NEW a \in Answered(out) \cup Unanswered(out),
         Attempt(out, a)
  PROVE  Grown(server')
<1>1. server' = server \/ \E o \in out : server' = o.server BY AttemptIs
<1> QED BY <1>1, NothingIsGrowth DEF Adds

LEMMA AnswersAre ==
  ASSUME NEW out, NEW a \in Answered(out) \cup Unanswered(out), Attempt(out, a), a.answer = "ok"
  PROVE  \E o \in out : o.ok /\ a.server = o.server /\ server' = o.server
<1>1. CASE a \in Answered(out)
  <2>1. PICK o \in out : a = [server |-> o.server, done |-> o.ok,
                              answer |-> IF o.ok THEN "ok" ELSE "refused"]
    BY <1>1 DEF Answered
  <2> QED BY <2>1 DEF Attempt
<1>2. CASE a \in Unanswered(out) BY <1>2 DEF Unanswered
<1> QED BY <1>1, <1>2

Keeps == /\ VerbFields \subseteq DOMAIN verb'
         /\ Same("click") /\ Same("kind") /\ Same("top") /\ Same("at") /\ Same("count")
         /\ Same("created")
LEMMA WindowStays ==
  ASSUME Rows(server), Rooted, VerbInv, Grown(server'), Keeps,
         verb'.phase \in {verb.phase, "failed", "shown"}
  PROVE  VerbInv'
<1>1. Rows(server)' /\ Rooted' /\ Undisturbed BY GrownKeeps
<1>2. /\ Walk' = Walk /\ \A e : Leaves(e)' = Leaves(e)
      /\ \A n : Sent(n)' = Sent(n) /\ ToMake(n)' = ToMake(n)
  BY WalkStays DEF Keeps
<1>3. /\ verb'.click = verb.click /\ verb'.kind = verb.kind /\ verb'.top = verb.top
      /\ verb'.at = verb.at /\ verb'.count = verb.count /\ verb'.created = verb.created
  BY DEF Keeps, Same
<1>4. ASSUME verb.kind = "upload", Uploading PROVE Uploading'
  <2>1. Onto BY <1>1, <1>4 DEF Onto, Uploading
  <2>2. /\ Here(verb.top)'
        /\ \A e : LandedFile(e) => LandedFile(e)'
        /\ \A f, p : MadeAt(f, p) => MadeAt(f, p)'
    BY <2>1, LandedStays DEF Keeps
  <2>3. Sent(verb.at - 1)' = Sent(verb.at - 1) /\ ToMake(verb.at - 1)' = ToMake(verb.at - 1)
    <3>1. PICK n : n = verb.at - 1 OBVIOUS
    <3>2. Sent(n)' = Sent(n) /\ ToMake(n)' = ToMake(n) BY <1>2
    <3>3. Sent(verb.at - 1)' = Sent(n)' BY <1>3, <3>1 DEF Sent
    <3>4. ToMake(verb.at - 1)' = ToMake(n)' BY <1>3, <3>1 DEF ToMake
    <3> QED BY <3>1, <3>2, <3>3, <3>4
  <2>4. \A m \in Sent(verb.at - 1) : LandedFile(Walk[m])'
    <3>1. ASSUME NEW m \in Sent(verb.at - 1) PROVE LandedFile(Walk[m])'
      <4>1. PICK e : e = Walk[m] OBVIOUS
      <4>2. LandedFile(e) BY <1>4, <4>1 DEF Uploading
      <4>3. LandedFile(e)' BY <2>2, <4>2
      <4> QED BY <1>2, <4>1, <4>3 DEF LandedFile
    <3> QED BY <3>1
  <2>5. \A p \in DOMAIN verb.created : p \in Seq(Name) /\ MadeAt(verb.created[p], p)'
    <3>1. ASSUME NEW p \in DOMAIN verb.created
          PROVE  p \in Seq(Name) /\ MadeAt(verb.created[p], p)'
      <4>1. PICK f : f = verb.created[p] OBVIOUS
      <4>2. p \in Seq(Name) /\ MadeAt(f, p) BY <1>4, <4>1 DEF Uploading
      <4>3. MadeAt(f, p)' BY <2>2, <4>2
      <4> QED BY <1>3, <4>1, <4>2, <4>3 DEF MadeAt
    <3> QED BY <3>1
  <2>6. verb'.top \in FolderIds /\ Cardinality(Sent(verb.at - 1)) = verb.count
        /\ \A m \in ToMake(verb.at - 1) : Walk[m].path \in DOMAIN verb.created
    BY <1>3, <1>4 DEF Uploading
  <2>7. (\A p \in DOMAIN verb.created : p \in Seq(Name) /\ MadeAt(verb.created[p], p))'
    BY <1>3, <2>5
  <2> QED BY <1>2, <1>3, <2>2, <2>3, <2>4, <2>6, <2>7 DEF Uploading, FolderIds
<1>5. verb'.kind = "upload" => Uploading' BY <1>3, <1>4 DEF VerbInv, VerbTyped
<1> QED BY <1>2, <1>3, <1>5 DEF VerbInv, VerbTyped, Keeps

(* A window before its walk.                                               *)
LEMMA WindowOpens ==
  ASSUME VerbTyped, VerbFields \subseteq DOMAIN verb', Same("click"),
         verb'.at = 1, verb'.count = 0, verb'.created = << >>,
         verb'.kind = "upload" => verb'.top \in FolderIds /\ Here(verb.top)',
         verb'.phase = "act" => verb'.kind \in VerbKinds \ {"upload"},
         verb'.phase = "walk" => verb'.kind \in {"upload", "gallery"},
         verb'.phase = "resolve" => verb'.kind \in VerbKinds
  PROVE  VerbInv'
<1>1. verb'.click \in Clicks /\ Walk' = Walk BY DEF VerbInv, VerbTyped, Same, Walk
<1>2. Len(Walk) \in Nat BY WalksAre DEF VerbInv, VerbTyped
<1>3. verb'.at \in 1 .. Len(Walk) + 1 BY <1>2
<1>4. Sent(verb.at - 1)' = {} /\ ToMake(verb.at - 1)' = {} BY DEF Sent, ToMake
<1>5. Cardinality({}) = 0 BY FS_EmptySet
<1>6. DOMAIN verb'.created = {} OBVIOUS
<1>7. verb'.kind = "upload" => Uploading'
  BY <1>4, <1>5, <1>6 DEF Uploading, FolderIds
<1> QED BY <1>1, <1>3, <1>7 DEF VerbInv, VerbTyped

LEMMA RunKeeps == ASSUME VerbTyped, Run PROVE VerbInv'
<1>1. PICK k \in AboutCounterpart \cup Elsewhere, to \in {<< >>} \cup {<<n>> : n \in Name} :
       LET remote == IF k \in AboutCounterpart THEN RemoteForLocal(Clicked) ELSE to
           v == [NoVerb(verb.click, verb.left - 1) EXCEPT !.kind = k, !.remote = remote] IN
       Shows(CASE remote = Unsynced -> Failed1(v)
               [] k = "openweb" /\ remote # Unsynced -> Succeeds(v)
               [] k = "sync" /\ (~IsFolder \/ RemoteForLocal(Clicked) # Unsynced) -> Failed1(v)
               [] k = "sync" /\ IsFolder /\ RemoteForLocal(Clicked) = Unsynced ->
                    [v EXCEPT !.phase = "add"]
               [] k = "gallery" -> [v EXCEPT !.phase = "walk"]
               [] OTHER -> [v EXCEPT !.phase = "resolve"])
  BY DEF Run
<1>2. PICK remote : remote = IF k \in AboutCounterpart THEN RemoteForLocal(Clicked) ELSE to
  OBVIOUS
<1>3. PICK left, c : left = verb.left - 1 /\ c = verb.click OBVIOUS
<1>4. PICK w : w = [NoVerb(c, left) EXCEPT !.kind = k, !.remote = remote] OBVIOUS
<1>5. /\ VerbFields \subseteq DOMAIN w /\ w.click = c /\ w.kind = k /\ w.phase = "idle"
      /\ w.at = 1 /\ w.count = 0 /\ w.created = << >> /\ w.top = Root
  BY <1>4 DEF NoVerb, VerbFields
<1> DEFINE opens(ph) == verb' = [w EXCEPT !.phase = ph]
<1>6. \/ opens("failed") \/ opens("shown") \/ opens("add")
      \/ k = "gallery" /\ opens("walk")
      \/ k \notin {"openweb", "sync", "gallery"} /\ opens("resolve")
  <2> DEFINE synced == RemoteForLocal(Clicked) # Unsynced
  <2>1. verb' = CASE remote = Unsynced -> Failed1(w)
                  [] k = "openweb" /\ remote # Unsynced -> Succeeds(w)
                  [] k = "sync" /\ (~IsFolder \/ synced) -> Failed1(w)
                  [] k = "sync" /\ IsFolder /\ ~synced -> [w EXCEPT !.phase = "add"]
                  [] k = "gallery" -> [w EXCEPT !.phase = "walk"]
                  [] OTHER -> [w EXCEPT !.phase = "resolve"]
    BY <1>1, <1>2, <1>3, <1>4 DEF Shows
  <2> HIDE DEF synced
  <2>2. CASE k = "openweb" BY <2>1, <2>2 DEF Failed1, Succeeds
  <2>3. CASE k = "sync" BY <2>1, <2>3 DEF Failed1, Succeeds
  <2>4. CASE k = "gallery" BY <2>1, <2>4 DEF Failed1, Succeeds
  <2>5. CASE k \notin {"openweb", "sync", "gallery"} BY <2>1, <2>5 DEF Failed1, Succeeds
  <2> QED BY <2>2, <2>3, <2>4, <2>5
<1>7. k \notin {"openweb", "sync", "gallery"} => k \in VerbKinds
  BY DEF AboutCounterpart, Elsewhere, VerbKinds
<1>8. PICK ph : /\ opens(ph) /\ ph # "act"
                /\ ph = "walk" => k = "gallery"
                /\ ph = "resolve" => k \in VerbKinds
  <2> HIDE DEF opens
  <2>1. CASE opens("failed") BY <2>1
  <2>2. CASE opens("shown") BY <2>2
  <2>3. CASE opens("add") BY <2>3
  <2>4. CASE k = "gallery" /\ opens("walk") BY <2>4
  <2>5. CASE k \notin {"openweb", "sync", "gallery"} /\ opens("resolve") BY <1>7, <2>5
  <2> QED BY <1>6, <2>1, <2>2, <2>3, <2>4, <2>5
<1>9. /\ VerbFields \subseteq DOMAIN verb' /\ verb'.click = c /\ verb'.kind = k
      /\ verb'.phase = ph /\ verb'.at = 1 /\ verb'.count = 0 /\ verb'.created = << >>
      /\ verb'.top = Root
  BY <1>5, <1>8 DEF VerbFields
<1>10. Here(verb.top)' /\ Same("click") BY <1>3, <1>9 DEF Here, Same
<1>11. verb'.top \in FolderIds BY <1>9 DEF FolderIds
<1> QED BY <1>8, <1>9, <1>10, <1>11, WindowOpens

LEMMA ResolveKeeps ==
  ASSUME Rows(server), Rooted, VerbInv, Resolve PROVE Grown(server') /\ VerbInv'
<1>1. verb.phase = "resolve" /\ VerbFields \subseteq DOMAIN verb BY DEF Resolve, VerbInv, VerbTyped
<1>2. server' = server
  <2>1. ASSUME NEW a \in Answered(Reading) \cup Unanswered(Reading), Attempt(Reading, a)
        PROVE  server' = server
    <3>1. server' = server \/ \E o \in Reading : server' = o.server BY <2>1, AttemptIs
    <3> QED BY <3>1 DEF Reading, Done, Refused
  <2> QED BY <2>1 DEF Resolve
<1>3. Grown(server') BY <1>2, NothingIsGrowth
<1>4. PICK w : w = verb OBVIOUS
<1>5. ASSUME NEW i, i = Root \/ Folder(i).at = "live", verb' = With(i) PROVE VerbInv'
  <2>1. i \in FolderIds BY <1>5, RowsAre DEF FolderIds
  <2>2. Here(i)' BY <1>2, <1>5 DEF Here, Folder
  <2>3. /\ w.at = 1 /\ w.count = 0 /\ w.created = << >> /\ w.kind \in VerbKinds
        /\ VerbFields \subseteq DOMAIN w
    BY <1>1, <1>4 DEF VerbInv, VerbTyped
  <2>4. CASE w.kind = "upload"
    <3>1. verb' = [w EXCEPT !.phase = "walk", !.tries = 1, !.top = i]
      BY <1>4, <1>5, <2>4 DEF With
    <3>2. /\ VerbFields \subseteq DOMAIN verb' /\ verb'.click = w.click /\ verb'.kind = w.kind
          /\ verb'.phase = "walk" /\ verb'.at = 1 /\ verb'.count = 0 /\ verb'.created = << >>
          /\ verb'.top = i
      BY <2>3, <3>1 DEF VerbFields
    <3>3. Here(verb.top)' BY <2>2, <3>2 DEF Here
    <3>4. Same("click") BY <1>4, <3>2 DEF Same
    <3> QED BY <2>1, <2>4, <3>2, <3>3, <3>4, WindowOpens, InvIsTyped
  <2>5. CASE w.kind # "upload"
    <3>1. verb' = [w EXCEPT !.phase = "act", !.tries = 1, !.id = i]
      BY <1>4, <1>5, <2>5 DEF With
    <3>2. /\ VerbFields \subseteq DOMAIN verb' /\ verb'.click = w.click /\ verb'.kind = w.kind
          /\ verb'.phase = "act" /\ verb'.at = 1 /\ verb'.count = 0 /\ verb'.created = << >>
      BY <2>3, <3>1 DEF VerbFields
    <3>3. Same("click") BY <1>4, <3>2 DEF Same
    <3> QED BY <2>3, <2>5, <3>2, <3>3, WindowOpens, InvIsTyped
  <2> QED BY <2>4, <2>5
<1>6. ASSUME NEW i, verb' = With(i), ~WantsFolder PROVE VerbInv'
  <2>1. /\ w.at = 1 /\ w.count = 0 /\ w.created = << >> /\ w.kind \in VerbKinds \ {"upload"}
        /\ VerbFields \subseteq DOMAIN w
    BY <1>1, <1>4, <1>6 DEF VerbInv, VerbTyped, WantsFolder
  <2>2. verb' = [w EXCEPT !.phase = "act", !.tries = 1, !.id = i]
    BY <1>4, <1>6, <2>1 DEF With
  <2>3. /\ VerbFields \subseteq DOMAIN verb' /\ verb'.click = w.click /\ verb'.kind = w.kind
        /\ verb'.phase = "act" /\ verb'.at = 1 /\ verb'.count = 0 /\ verb'.created = << >>
    BY <2>1, <2>2 DEF VerbFields
  <2>4. Same("click") BY <1>4, <2>3 DEF Same
  <2> QED BY <2>1, <2>3, <2>4, WindowOpens, InvIsTyped
<1>7. ASSUME Shows(Failed1(verb)) \/ Shows([verb EXCEPT !.tries = @ + 1]) PROVE VerbInv'
  <2>1. Keeps /\ verb'.phase \in {verb.phase, "failed", "shown"}
    BY <1>1, <1>7 DEF Shows, Failed1, Keeps, Same, VerbFields
  <2> QED BY <1>3, <2>1, WindowStays
<1>8. CASE WantsFolder /\ verb.remote = << >>
  <2>1. Shows(Failed1(verb)) \/ verb' = With(Root) BY <1>8 DEF Resolve, Shows
  <2> QED BY <1>3, <1>5, <1>7, <2>1
<1>9. CASE ~(WantsFolder /\ verb.remote = << >>)
  <2>1. \/ Shows(Failed1(verb)) \/ Shows([verb EXCEPT !.tries = @ + 1])
        \/ \E v \in Resolved : verb' = v
    BY <1>9 DEF Resolve, Shows
  <2>2. ASSUME NEW v \in Resolved, verb' = v PROVE VerbInv'
    <3>1. PICK i \in IF WantsFolder THEN FoldersNamed(verb.remote)
                     ELSE FilesNamed(verb.remote) : verb' = With(i)
      BY <2>2 DEF Resolved
    <3>2. WantsFolder => Folder(i).at = "live" BY <3>1 DEF FoldersNamed
    <3> QED BY <1>5, <1>6, <3>1, <3>2
  <2> QED BY <1>3, <1>7, <2>1, <2>2
<1> QED BY <1>3, <1>8, <1>9

LEMMA ActsGrow ==
  ASSUME Rows(server), VerbTyped, verb.phase = "act" PROVE Adds(VerbOutcomes)
<1>1. verb.kind \in {"share", "encrypt", "decrypt", "createFolder"}
  BY DEF VerbTyped, VerbKinds
<1>2. Adds({Refused}) BY NothingIsGrowth DEF Adds, Refused
<1>3. ASSUME NEW name \in Name, NEW folder, NEW data \in Data
      PROVE  Adds(NewFile(name, folder, data)) /\ Adds(CreateFolder(name, folder))
  BY <1>3, NewFilesGrow, NewFoldersGrow DEF Adds
<1>4. PICK some \in Data : some = CHOOSE d \in Data : TRUE BY NameAssumption
<1>5. PICK name \in Name : name = CHOOSE n \in Name : TRUE BY NameAssumption
<1>6. CASE verb.kind = "share"
  <2>1. VerbOutcomes = {Refused} \/ VerbOutcomes = CreateRow("link")
    BY <1>6 DEF VerbOutcomes, CreateFileShare
  <2>2. Adds(CreateRow("link")) BY NewRowsGrow, KindAssumption DEF Adds
  <2> QED BY <1>2, <2>1, <2>2
<1>7. ASSUME NEW x PROVE Adds(EncryptFolder(x, name, some)) /\ Adds(EncryptFile(x, name, some))
  BY <1>2, <1>3 DEF EncryptFolder, EncryptFile
<1>8. CASE verb.kind = "encrypt"
  <2>1. VerbOutcomes = EncryptFolder(verb.id, name, some)
        \/ VerbOutcomes = EncryptFile(verb.id, name, some)
    BY <1>4, <1>5, <1>8 DEF VerbOutcomes
  <2> QED BY <1>7, <2>1
<1>9. CASE verb.kind = "decrypt"
  <2>1. VerbOutcomes = EncryptFile(verb.id, name, some)
    BY <1>4, <1>5, <1>9 DEF VerbOutcomes, DecryptFile
  <2> QED BY <1>7, <2>1
<1>10. CASE verb.kind = "createFolder"
  <2>1. VerbOutcomes = CreateFolder(name, verb.id)
    BY <1>4, <1>5, <1>10 DEF VerbOutcomes
  <2> QED BY <1>3, <2>1
<1> QED BY <1>1, <1>6, <1>8, <1>9, <1>10

LEMMA ActKeeps ==
  ASSUME Rows(server), Rooted, VerbInv, Act PROVE Grown(server') /\ VerbInv'
<1>1. verb.phase = "act" /\ VerbFields \subseteq DOMAIN verb BY DEF Act, VerbInv, VerbTyped
<1>2. PICK a \in Answered(VerbOutcomes) \cup Unanswered(VerbOutcomes) :
       /\ Attempt(VerbOutcomes, a)
       /\ Shows(IF Retries(a, verb.tries) THEN [verb EXCEPT !.tries = @ + 1]
                ELSE IF a.answer = "ok" THEN Succeeds(verb) ELSE Failed1(verb))
  BY DEF Act
<1>3. Grown(server') BY <1>1, <1>2, ActsGrow, AttemptsGrow, InvIsTyped
<1>4. \/ verb' = [verb EXCEPT !.tries = @ + 1]
      \/ verb' = [verb EXCEPT !.phase = "shown"] \/ verb' = [verb EXCEPT !.phase = "failed"]
  BY <1>2 DEF Shows, Succeeds, Failed1
<1>5. Keeps /\ verb'.phase \in {verb.phase, "failed", "shown"}
  BY <1>1, <1>4 DEF Keeps, Same, VerbFields
<1> QED BY <1>3, <1>5, WindowStays

LEMMA PairsAndEndsKeep ==
  ASSUME Rows(server), Rooted, VerbInv, AddPair \/ WalkEnds PROVE Grown(server') /\ VerbInv'
<1>1. server' = server /\ VerbFields \subseteq DOMAIN verb
  BY DEF AddPair, WalkEnds, VerbInv, VerbTyped
<1>2. verb' = [verb EXCEPT !.phase = "shown"] \/ verb' = [verb EXCEPT !.phase = "failed"]
  BY DEF AddPair, WalkEnds, Shows, Succeeds, Failed1
<1>3. Keeps /\ verb'.phase \in {verb.phase, "failed", "shown"}
  BY <1>1, <1>2 DEF Keeps, Same, VerbFields
<1>4. Grown(server') BY <1>1, NothingIsGrowth
<1> QED BY <1>3, <1>4, WindowStays

(* The next entry of the walk.                                             *)
LEMMA NextEntry ==
  ASSUME VerbTyped, verb.at <= Len(Walk)
  PROVE  /\ verb.at \in DOMAIN Walk /\ verb.at \in Nat /\ verb.at + 1 \in 1 .. Len(Walk) + 1
         /\ Entry1 \in Entry0 /\ Entry1 = Walk[verb.at]
         /\ ~Entry1.dir => Entry1.path # << >>
         /\ 1 .. verb.at = 1 .. (verb.at - 1) \cup {verb.at}
         /\ verb.at \notin 1 .. (verb.at - 1)
<1>1. verb.click \in Clicks /\ verb.at \in 1 .. Len(Walk) + 1 BY DEF VerbInv, VerbTyped
<1>2. Walk \in Seq(Entry0) /\ Len(Walk) \in Nat BY <1>1, WalksAre
<1>3. DOMAIN Walk = 1 .. Len(Walk) BY <1>2
<1>4. verb.at \in 1 .. Len(Walk) /\ verb.at \in Nat BY <1>1, <1>2
<1>5. Walk[verb.at] \in Entry0 /\ (~Walk[verb.at].dir => Walk[verb.at].path # << >>)
  BY <1>1, <1>3, <1>4, WalksAre
<1>6. \A n \in Nat \ {0} : 1 .. n = 1 .. (n - 1) \cup {n} /\ n \notin 1 .. (n - 1) OBVIOUS
<1> QED BY <1>2, <1>3, <1>4, <1>5, <1>6 DEF Entry1

LEMMA CountsAre == ASSUME VerbInv, verb.kind = "upload" PROVE verb.count \in Nat
<1>1. verb.click \in Clicks /\ verb.at \in 1 .. Len(Walk) + 1 BY DEF VerbInv, VerbTyped
<1>2. Len(Walk) \in Nat BY <1>1, WalksAre
<1>3. verb.at - 1 \in Nat BY <1>1, <1>2
<1>4. IsFiniteSet(1 .. (verb.at - 1)) BY <1>3, FS_Interval
<1>5. Sent(verb.at - 1) \subseteq 1 .. (verb.at - 1) BY DEF Sent
<1>6. Cardinality(Sent(verb.at - 1)) \in Nat BY <1>4, <1>5, FS_Subset, FS_CardinalityType
<1> QED BY <1>6 DEF VerbInv, VerbTyped, Uploading

(* An upload that passes an entry or has sent it.                          *)
Passes ==
  /\ VerbFields \subseteq DOMAIN verb' /\ Same("click") /\ Same("kind") /\ Same("top")
  /\ verb'.at = verb.at + 1 /\ verb'.phase = verb.phase
LEMMA UploadMoves ==
  ASSUME Rows(server), Rooted, VerbInv, verb.kind = "upload", verb.phase = "walk",
         verb.at <= Len(Walk), Grown(server'), Passes, NEW e, e = Entry1,
         verb'.count = verb.count + (IF verb.at \in Sent(verb.at) THEN 1 ELSE 0),
         verb.at \in Sent(verb.at) => LandedFile(e)',
         verb.at \in ToMake(verb.at) => e.path \in DOMAIN verb'.created,
         DOMAIN verb.created \subseteq DOMAIN verb'.created,
         \A p \in DOMAIN verb'.created :
           \/ p \in DOMAIN verb.created /\ verb'.created[p] = verb.created[p]
           \/ p \in Seq(Name) /\ MadeAt(verb.created[p], p)'
  PROVE  VerbInv'
<1>1. Rows(server)' /\ Rooted' /\ Undisturbed BY GrownKeeps
<1>2. /\ Walk' = Walk /\ \A x : Leaves(x)' = Leaves(x)
      /\ \A n : Sent(n)' = Sent(n) /\ ToMake(n)' = ToMake(n)
  BY WalkStays DEF Passes
<1>3. /\ verb'.click = verb.click /\ verb'.kind = verb.kind /\ verb'.top = verb.top
      /\ verb'.at = verb.at + 1 /\ verb'.phase = "walk"
  BY DEF Passes, Same
<1>4. Uploading BY DEF VerbInv, VerbTyped
<1>5. Onto BY <1>1, <1>4 DEF Onto, Uploading
<1>6. /\ Here(verb.top)'
      /\ \A x : LandedFile(x) => LandedFile(x)'
      /\ \A f, p : MadeAt(f, p) => MadeAt(f, p)'
  BY <1>5, LandedStays DEF Passes
<1> DEFINE k == verb.at
<1>7. k \in DOMAIN Walk /\ k \in Nat /\ Entry1 = Walk[k] /\ 1 .. k = 1 .. (k - 1) \cup {k}
      /\ k \notin 1 .. (k - 1) /\ k + 1 \in 1 .. Len(Walk) + 1
  BY NextEntry, InvIsTyped
<1>8. Sent(verb.at - 1)' = Sent(k) /\ ToMake(verb.at - 1)' = ToMake(k)
  <2>1. PICK n : n = k OBVIOUS
  <2>2. Sent(n)' = Sent(n) /\ ToMake(n)' = ToMake(n) BY <1>2
  <2>3. verb'.at - 1 = n BY <1>3, <1>7, <2>1
  <2>4. Sent(verb.at - 1)' = Sent(n)' BY <2>3 DEF Sent
  <2>5. ToMake(verb.at - 1)' = ToMake(n)' BY <2>3 DEF ToMake
  <2> QED BY <2>1, <2>2, <2>4, <2>5
<1>9. Sent(k) = Sent(k - 1) \cup (IF k \in Sent(k) THEN {k} ELSE {}) BY <1>7 DEF Sent
<1>10. ToMake(k) = ToMake(k - 1) \cup (IF k \in ToMake(k) THEN {k} ELSE {})
  BY <1>7 DEF ToMake
<1>11. Cardinality(Sent(k)) = verb'.count
  <2>1. IsFiniteSet(Sent(k - 1)) /\ Cardinality(Sent(k - 1)) \in Nat
    <3>1. IsFiniteSet(1 .. (k - 1)) BY <1>7, FS_Interval
    <3>2. Sent(k - 1) \subseteq 1 .. (k - 1) BY DEF Sent
    <3> QED BY <3>1, <3>2, FS_Subset, FS_CardinalityType
  <2>2. k \notin Sent(k - 1) BY <1>7 DEF Sent
  <2>3. Cardinality(Sent(k - 1)) = verb.count BY <1>4 DEF Uploading
  <2>4. CASE k \in Sent(k)
    <3>1. Sent(k) = Sent(k - 1) \cup {k} BY <1>9, <2>4
    <3>2. Cardinality(Sent(k - 1) \cup {k}) = Cardinality(Sent(k - 1)) + 1
      BY <2>1, <2>2, FS_AddElement
    <3> QED BY <2>3, <2>4, <3>1, <3>2
  <2>5. CASE k \notin Sent(k)
    <3>1. Sent(k) = Sent(k - 1) BY <1>9, <2>5
    <3> QED BY <2>1, <2>3, <2>5, <3>1
  <2> QED BY <2>4, <2>5
<1>12. \A m \in Sent(k) : LandedFile(Walk[m])'
  <2>1. ASSUME NEW m \in Sent(k) PROVE LandedFile(Walk[m])'
    <3>1. CASE m \in Sent(k - 1)
      <4>1. PICK x : x = Walk[m] OBVIOUS
      <4>2. LandedFile(x) BY <1>4, <3>1, <4>1 DEF Uploading
      <4>3. LandedFile(x)' BY <1>6, <4>2
      <4> QED BY <1>2, <4>1, <4>3 DEF LandedFile
    <3>2. CASE m = k /\ k \in Sent(k)
      <4>1. e = Walk[m] BY <1>7, <3>2
      <4>2. LandedFile(e)' BY <3>2
      <4> QED BY <1>2, <4>1, <4>2 DEF LandedFile
    <3> QED BY <1>9, <2>1, <3>1, <3>2
  <2> QED BY <2>1
<1>13. \A m \in ToMake(k) : Walk[m].path \in DOMAIN verb'.created
  <2>1. ASSUME NEW m \in ToMake(k) PROVE Walk[m].path \in DOMAIN verb'.created
    <3>1. CASE m \in ToMake(k - 1)
      <4>1. Walk[m].path \in DOMAIN verb.created BY <1>4, <3>1 DEF Uploading
      <4> QED BY <4>1
    <3>2. CASE m = k /\ k \in ToMake(k) BY <1>7, <3>2
    <3> QED BY <1>10, <2>1, <3>1, <3>2
  <2> QED BY <2>1
<1>14. (\A p \in DOMAIN verb.created : p \in Seq(Name) /\ MadeAt(verb.created[p], p))'
  <2>1. ASSUME NEW p \in DOMAIN verb'.created
        PROVE  p \in Seq(Name) /\ MadeAt(verb.created[p], p)'
    <3>1. CASE p \in DOMAIN verb.created /\ verb'.created[p] = verb.created[p]
      <4>1. PICK f : f = verb.created[p] OBVIOUS
      <4>2. p \in Seq(Name) /\ MadeAt(f, p) BY <1>4, <3>1, <4>1 DEF Uploading
      <4>3. MadeAt(f, p)' BY <1>6, <4>2
      <4>4. f = verb'.created[p] BY <3>1, <4>1
      <4> QED BY <4>2, <4>3, <4>4 DEF MadeAt
    <3> QED BY <2>1, <3>1
  <2> QED BY <2>1
<1>15. verb.top \in FolderIds BY <1>4 DEF Uploading
<1>16. Uploading'
  BY <1>2, <1>3, <1>6, <1>8, <1>11, <1>12, <1>13, <1>14, <1>15 DEF Uploading, FolderIds
<1> QED BY <1>2, <1>3, <1>7, <1>16 DEF VerbInv, VerbTyped, Passes

(* Outside an upload the window keeps no such account.                     *)
LEMMA OthersMove ==
  ASSUME VerbInv, verb.kind # "upload", verb.phase = "walk", verb.at <= Len(Walk),
         VerbFields \subseteq DOMAIN verb', Same("click"), Same("kind"), Same("phase"),
         verb'.at = verb.at + 1
  PROVE  VerbInv'
<1>1. Walk' = Walk BY DEF Same, Walk
<1>2. verb'.at \in 1 .. Len(Walk) + 1 BY NextEntry, InvIsTyped
<1>3. verb.kind = "gallery" BY DEF VerbInv, VerbTyped
<1> QED BY <1>1, <1>2, <1>3 DEF VerbInv, VerbTyped, Same

LEMMA WalkPastKeeps ==
  ASSUME Rows(server), Rooted, VerbInv, WalkPast PROVE Grown(server') /\ VerbInv'
<1>1. /\ server' = server /\ verb.phase = "walk" /\ verb.at <= Len(Walk) /\ ~IsSent(Entry1)
      /\ VerbFields \subseteq DOMAIN verb
  BY DEF WalkPast, VerbInv, VerbTyped
<1>2. Grown(server') BY <1>1, NothingIsGrowth
<1>3. \/ PassedOver(Entry1) /\ verb' = [verb EXCEPT !.at = @ + 1]
      \/ ~PassedOver(Entry1) /\ verb' = [verb EXCEPT !.at = @ + 1, !.skipped = @ + 1]
      \/ verb' = [verb EXCEPT !.phase = "failed"]
  BY DEF WalkPast, Shows, Failed1
<1>4. CASE verb' = [verb EXCEPT !.phase = "failed"]
  <2>1. Keeps /\ verb'.phase \in {verb.phase, "failed", "shown"}
    BY <1>1, <1>4 DEF Keeps, Same, VerbFields
  <2> QED BY <1>2, <2>1, WindowStays
<1>5. CASE verb' # [verb EXCEPT !.phase = "failed"]
  <2>1. /\ VerbFields \subseteq DOMAIN verb' /\ Same("click") /\ Same("kind") /\ Same("top")
        /\ Same("phase") /\ Same("count") /\ Same("created") /\ verb'.at = verb.at + 1
    BY <1>1, <1>3, <1>5 DEF Same, VerbFields
  <2>2. CASE verb.kind # "upload" BY <1>1, <1>2, <2>1, <2>2, OthersMove
  <2>3. CASE verb.kind = "upload"
    <3>1. Entry1.path = << >> \/ Leaves(Entry1)
      BY <1>1, <2>3 DEF IsSent, NotMedia, PassedOver
    <3>2. verb.at \notin Sent(verb.at) /\ verb.at \notin ToMake(verb.at)
      BY <1>1, <3>1, NextEntry, InvIsTyped DEF Sent, ToMake
    <3>3. Passes BY <2>1 DEF Passes, Same
    <3>4. verb.count \in Nat BY <2>3, CountsAre
    <3>5. verb'.count = verb.count + (IF verb.at \in Sent(verb.at) THEN 1 ELSE 0)
      BY <2>1, <3>2, <3>4 DEF Same
    <3>6. PICK e : e = Entry1 OBVIOUS
    <3>7. verb'.created = verb.created BY <2>1 DEF Same
    <3> QED BY <1>1, <1>2, <2>3, <3>2, <3>3, <3>5, <3>6, <3>7, UploadMoves
  <2> QED BY <2>2, <2>3
<1> QED BY <1>2, <1>4, <1>5

(* The folder an entry is put into lies where the entry lay.               *)
LEMMA IntoItsPlace ==
  ASSUME Rows(server), VerbInv, verb.kind = "upload", verb.at <= Len(Walk), IsSent(Entry1),
         NEW d, d = Dir(Entry1.path)
  PROVE  /\ Into1(d) \in FolderIds /\ Here(Into1(d)) /\ d \in Seq(Name)
         /\ FolderParts(Into1(d)) = FolderParts(verb.top) \o d
         /\ FolderParts(verb.top) \in Seq(Name) /\ verb.top \in FolderIds /\ Here(verb.top)
<1>1. Uploading BY DEF VerbInv, VerbTyped
<1>2. FolderParts(verb.top) \in Seq(Name) /\ verb.top \in FolderIds /\ Here(verb.top)
  BY <1>1, PathsAreShort DEF Uploading
<1>3. Entry1.path # << >> /\ ~Leaves(Entry1) BY DEF IsSent, PassedOver
<1>4. Entry1.path \in Seq(Name) BY NextEntry, InvIsTyped DEF Entry0
<1>5. d \in Seq(Name) BY <1>3, <1>4, PathsSplit
<1>6. CASE d = << >>
  <2>1. Into1(d) = verb.top BY <1>6 DEF Into1
  <2>2. PICK s \in Seq(Name) : s = FolderParts(verb.top) BY <1>2
  <2>3. s \o << >> = s BY <2>2, ConcatEmptySeq
  <2> QED BY <1>2, <1>5, <1>6, <2>1, <2>2, <2>3
<1>7. CASE d # << >>
  <2>1. PICK n \in 1 .. verb.at - 1 : Walk[n].dir /\ Walk[n].path = d /\ ~Leaves(Walk[n])
    <3>1. verb.at \in DOMAIN Walk /\ Entry1 = Walk[verb.at] BY NextEntry, InvIsTyped
    <3>2. verb.click \in Clicks BY DEF VerbInv, VerbTyped
    <3>3. PICK m \in DOMAIN Walk : m = verb.at BY <3>1
    <3>4. \E n \in 1 .. m - 1 : /\ Walk[n].dir /\ Walk[n].path = Dir(Walk[m].path)
                                /\ ~Leaves(Walk[n])
      BY <1>3, <1>7, <3>1, <3>2, <3>3, FoldersComeFirst
    <3> QED BY <3>1, <3>3, <3>4
  <2>2. n \in ToMake(verb.at - 1) BY <1>7, <2>1 DEF ToMake
  <2>3. d \in DOMAIN verb.created BY <1>1, <2>1, <2>2 DEF Uploading
  <2>4. MadeAt(verb.created[d], d) BY <1>1, <2>3 DEF Uploading
  <2>5. Into1(d) = verb.created[d] BY <1>7, <2>3 DEF Into1
  <2> QED BY <1>2, <1>5, <2>4, <2>5 DEF MadeAt, FolderIds, Here
<1> QED BY <1>6, <1>7

(* Where a new folder and a new file lie.                                  *)
LEMMA FoldersLand ==
  ASSUME Rows(server), Rooted, Grown(server'), NEW g \in FolderIds, Here(g), NEW name \in Name,
         NEW f \in FreshFolders,
         server'.folders = Put(server.folders, f, [at |-> "live", parent |-> g, name |-> name])
  PROVE  /\ NewFolder(server') = f /\ f \in Id /\ Folder(f)'.at = "live"
         /\ FolderParts(f)' = Append(FolderParts(g), name)
<1>1. Rows(server)' /\ Rooted' /\ Undisturbed BY GrownKeeps
<1>2. Here(g)' /\ FolderParts(g)' = FolderParts(g) BY <1>1, PathsStay
<1>3. f \in Id BY DEF FreshFolders
<1>4. DOMAIN server'.folders = DOMAIN server.folders \cup {f}
      /\ server'.folders[f] = [at |-> "live", parent |-> g, name |-> name]
  BY DEF Put
<1>5. Folder(f)'.at = "live" /\ Folder(f)'.parent = g /\ Folder(f)'.name = name
  BY <1>4 DEF Folder, RowAt
<1>6. \A h \in DOMAIN server.folders : h \notin FreshFolders
  BY RowsAre DEF Place, FreshFolders
<1>7. \A h \in DOMAIN server'.folders : h \in FreshFolders <=> h = f BY <1>4, <1>6
<1>8. NewFolder(server') = f
  <2>1. f \in DOMAIN server'.folders BY <1>4
  <2> QED BY <1>7, <2>1 DEF NewFolder
<1>9. FolderParts(f)' = Append(FolderParts(g), name)
  <2>1. (Rows(server) /\ Rooted /\ Folder(f).at = "live")' BY <1>1, <1>5
  <2>2. (FolderParts(f) = Append(FolderParts(Folder(f).parent), Folder(f).name))'
    BY <1>3, <2>1, PathsWillGrow
  <2>3. FolderParts(Folder(f).parent)' = FolderParts(g)' BY <1>5 DEF FolderParts
  <2> QED BY <1>2, <1>5, <2>2, <2>3
<1> QED BY <1>3, <1>5, <1>8, <1>9

LEMMA FilesLand ==
  ASSUME Rows(server), Rooted, Grown(server'), NEW g \in FolderIds, Here(g), NEW name \in Name,
         NEW data \in Data, NEW i \in FreshFiles, i \in DOMAIN server'.files,
         server'.files[i] = [at |-> "live", folder |-> g, name |-> name,
                             data |-> data, old |-> {}, ver |-> 1]
  PROVE  /\ i \in Id /\ Live(i)' /\ Here(File(i).folder)' /\ File(i)'.data = data
         /\ RelPath(i)' = Append(FolderParts(g), name)
<1>1. Rows(server)' /\ Rooted' /\ Undisturbed BY GrownKeeps
<1>2. Here(g)' /\ FolderParts(g)' = FolderParts(g) BY <1>1, PathsStay
<1>3. i \in Id BY DEF FreshFiles
<1>4. /\ File(i)'.at = "live" /\ File(i)'.folder = g /\ File(i)'.name = name
      /\ File(i)'.data = data
  BY DEF File, RowAt
<1>5. Here(File(i).folder)' BY <1>2, <1>4 DEF Here
<1>6. FolderParts(File(i).folder)' = FolderParts(g)' BY <1>4 DEF FolderParts
<1>7. RelPath(i)' = Append(FolderParts(g), name) BY <1>2, <1>4, <1>6 DEF RelPath
<1> QED BY <1>3, <1>4, <1>5, <1>7 DEF Live

(* An entry that is sent is an upload's file or folder, or a photo.        *)
LEMMA EntriesGrow ==
  ASSUME Rows(server), VerbTyped, verb.phase = "walk", verb.at <= Len(Walk), IsSent(Entry1)
  PROVE  Adds(EntryOutcomes)
<1>1. Entry1 \in Entry0 /\ Entry1.path # << >> BY NextEntry DEF IsSent, PassedOver
<1>2. Entry1.path \in Seq(Name) /\ Entry1.data \in Data BY <1>1 DEF Entry0
<1>3. Last1(Entry1.path) \in Name BY <1>1, <1>2, PathsSplit
<1>4. PICK name \in Name, data \in Data : name = Last1(Entry1.path) /\ data = Entry1.data
  BY <1>2, <1>3
<1> DEFINE into == Into1(Dir(Entry1.path))
<1>5. \/ EntryOutcomes = UploadPhoto \/ EntryOutcomes = CreateFolder(name, into)
      \/ EntryOutcomes = NewFile(name, into, data)
  BY <1>4 DEF EntryOutcomes, UploadFile
<1>6. Adds(UploadPhoto)
  <2>1. Adds(CreateRow("photo")) BY NewRowsGrow, KindAssumption DEF Adds
  <2>2. ASSUME NEW o \in May(Photos # {}, server) PROVE Grown(o.server)
    <3>1. o.server = server BY <2>2, MayIs
    <3> QED BY <3>1, NothingIsGrowth
  <2> QED BY <2>1, <2>2 DEF Adds, UploadPhoto
<1>7. Adds(CreateFolder(name, into)) /\ Adds(NewFile(name, into, data))
  BY NewFilesGrow, NewFoldersGrow DEF Adds
<1> QED BY <1>5, <1>6, <1>7

LEMMA UploadLands ==
  ASSUME Rows(server), Rooted, VerbInv, verb.kind = "upload", verb.phase = "walk",
         verb.at <= Len(Walk), IsSent(Entry1), Grown(server'),
         NEW o \in EntryOutcomes, o.ok, server' = o.server, verb' = Landed(server')
  PROVE  VerbInv'
<1> DEFINE d == Dir(Entry1.path)
           g == Into1(d)
           x == Last1(Entry1.path)
<1>1. Entry1.path # << >> /\ ~Leaves(Entry1) BY DEF IsSent, PassedOver
<1>2. Entry1.path \in Seq(Name) /\ Entry1.data \in Data BY NextEntry, InvIsTyped DEF Entry0
<1>3. x \in Name /\ Entry1.path = Append(d, x) BY <1>1, <1>2, PathsSplit
<1>4. /\ g \in FolderIds /\ Here(g) /\ d \in Seq(Name)
      /\ FolderParts(g) = FolderParts(verb.top) \o d
      /\ FolderParts(verb.top) \in Seq(Name) /\ verb.top \in FolderIds /\ Here(verb.top)
  BY IntoItsPlace
<1>5. Append(FolderParts(g), x) = FolderParts(verb.top) \o Entry1.path
  <2>1. PICK s \in Seq(Name), t \in Seq(Name), n \in Name :
          s = FolderParts(verb.top) /\ t = d /\ n = x
    BY <1>3, <1>4
  <2>2. Append(s \o t, n) = s \o Append(t, n) BY <2>1, PathsJoin
  <2> QED BY <1>3, <1>4, <2>1, <2>2
<1>6. Rows(server)' /\ Rooted' /\ Undisturbed BY GrownKeeps
<1>7. VerbFields \subseteq DOMAIN verb BY DEF VerbInv, VerbTyped
<1>8. verb.at \in Nat /\ verb.at \in DOMAIN Walk /\ Entry1 = Walk[verb.at] BY NextEntry, InvIsTyped
<1>9. PICK e : e = Entry1 OBVIOUS
<1>10. Onto /\ FolderParts(verb.top)' = FolderParts(verb.top) /\ Here(verb.top)'
  <2>1. PICK t \in FolderIds : t = verb.top BY <1>4
  <2>2. FolderParts(t)' = FolderParts(t) /\ Here(t)' BY <1>4, <1>6, <2>1, PathsStay
  <2>3. verb'.top = t BY <1>7, <2>1 DEF Landed, VerbFields
  <2>4. FolderParts(verb.top)' = FolderParts(t)' BY <2>3 DEF FolderParts
  <2>5. Here(verb.top)' BY <2>2, <2>3 DEF Here
  <2> QED BY <1>4, <1>6, <2>1, <2>2, <2>4, <2>5 DEF Onto
<1>11. CASE Entry1.dir
  <2>1. verb' = [verb EXCEPT !.at = @ + 1, !.tries = 1, !.created = Created(server')]
    BY <1>11 DEF Landed
  <2>2. /\ Passes /\ verb'.count = verb.count /\ verb'.created = Created(server')
        /\ verb'.top = verb.top
    BY <1>7, <2>1 DEF Passes, Same, VerbFields
  <2>3. o \in CreateFolder(x, g) BY <1>11 DEF EntryOutcomes
  <2>4. PICK f \in FreshFolders :
          server'.folders = Put(server.folders, f, [at |-> "live", parent |-> g, name |-> x])
    BY <1>3, <2>3, NewFoldersGrow
  <2>5. /\ NewFolder(server') = f /\ f \in Id /\ Folder(f)'.at = "live"
        /\ FolderParts(f)' = Append(FolderParts(g), x)
    BY <1>3, <1>4, <2>4, FoldersLand
  <2>6. MadeAt(f, e.path)' BY <1>5, <1>9, <1>10, <2>5 DEF MadeAt
  <2>7. verb'.created = [p \in DOMAIN verb.created \cup {e.path} |->
                           IF p = e.path THEN f ELSE verb.created[p]]
    BY <1>9, <2>2, <2>5 DEF Created
  <2>8. verb.at \notin Sent(verb.at) BY <1>8, <1>11 DEF Sent
  <2>9. verb'.count = verb.count + (IF verb.at \in Sent(verb.at) THEN 1 ELSE 0)
    BY <2>2, <2>8, CountsAre
  <2>10. /\ DOMAIN verb.created \subseteq DOMAIN verb'.created
         /\ e.path \in DOMAIN verb'.created
    BY <2>7
  <2>11. ASSUME NEW p \in DOMAIN verb'.created
         PROVE  \/ p \in DOMAIN verb.created /\ verb'.created[p] = verb.created[p]
                \/ p \in Seq(Name) /\ MadeAt(verb.created[p], p)'
    <3>1. CASE p = e.path
      <4>1. verb'.created[p] = f BY <2>7, <3>1
      <4>2. MadeAt(f, p)' BY <2>6, <3>1
      <4>3. MadeAt(verb.created[p], p)' BY <4>1, <4>2 DEF MadeAt
      <4> QED BY <1>2, <1>9, <3>1, <4>3
    <3>2. CASE p # e.path BY <2>7, <2>11, <3>2
    <3> QED BY <3>1, <3>2
  <2> QED BY <1>9, <2>2, <2>8, <2>9, <2>10, <2>11, UploadMoves
<1>12. CASE ~Entry1.dir
  <2>1. verb' = [verb EXCEPT !.at = @ + 1, !.tries = 1, !.count = @ + 1]
    BY <1>12 DEF Landed
  <2>2. /\ Passes /\ verb'.count = verb.count + 1 /\ verb'.created = verb.created
        /\ verb'.top = verb.top
    BY <1>7, <2>1 DEF Passes, Same, VerbFields
  <2>3. PICK data \in Data : data = e.data BY <1>2, <1>9
  <2>4. o \in NewFile(x, g, data) BY <1>9, <1>12, <2>3 DEF EntryOutcomes, UploadFile
  <2>5. PICK i \in FreshFiles :
          /\ i \in DOMAIN server'.files
          /\ server'.files[i] = [at |-> "live", folder |-> g, name |-> x,
                                 data |-> data, old |-> {}, ver |-> 1]
    BY <1>3, <2>3, <2>4, NewFilesGrow
  <2>6. /\ i \in Id /\ Live(i)' /\ Here(File(i).folder)' /\ File(i)'.data = data
        /\ RelPath(i)' = Append(FolderParts(g), x)
    BY <1>3, <1>4, <2>5, FilesLand
  <2>7. LandedFile(e)' BY <1>5, <1>9, <1>10, <2>3, <2>6 DEF LandedFile
  <2>8. verb.at \in Nat \ {0}
    <3>1. verb.at \in 1 .. Len(Walk) + 1 BY DEF VerbInv, VerbTyped
    <3> QED BY <1>8, <3>1
  <2>9. verb.at \in Sent(verb.at) /\ verb.at \notin ToMake(verb.at)
    <3>1. verb.at \in 1 .. verb.at BY <2>8
    <3> QED BY <1>1, <1>8, <1>12, <3>1 DEF Sent, ToMake
  <2>10. verb'.count = verb.count + (IF verb.at \in Sent(verb.at) THEN 1 ELSE 0)
    BY <2>2, <2>9
  <2> QED BY <1>9, <2>2, <2>7, <2>9, <2>10, UploadMoves
<1> QED BY <1>11, <1>12

LEMMA WalkSendsKeeps ==
  ASSUME Rows(server), Rooted, VerbInv, WalkSends PROVE Grown(server') /\ VerbInv'
<1>1. verb.phase = "walk" /\ verb.at <= Len(Walk) /\ IsSent(Entry1)
      /\ VerbFields \subseteq DOMAIN verb
  BY DEF WalkSends, VerbInv, VerbTyped
<1>2. PICK a \in Answered(EntryOutcomes) \cup Unanswered(EntryOutcomes) :
       /\ Attempt(EntryOutcomes, a)
       /\ Shows(IF Retries(a, verb.tries) THEN [verb EXCEPT !.tries = @ + 1]
                ELSE IF a.answer = "ok" THEN Landed(a.server) ELSE Failed1(verb))
  BY DEF WalkSends
<1>3. Grown(server') BY <1>1, <1>2, EntriesGrow, InvIsTyped, AttemptsGrow
<1>4. \/ verb' = [verb EXCEPT !.tries = @ + 1] \/ verb' = [verb EXCEPT !.phase = "failed"]
      \/ a.answer = "ok" /\ verb' = Landed(a.server)
  BY <1>2 DEF Shows, Failed1
<1>5. CASE verb' = [verb EXCEPT !.tries = @ + 1] \/ verb' = [verb EXCEPT !.phase = "failed"]
  <2>1. Keeps /\ verb'.phase \in {verb.phase, "failed", "shown"}
    BY <1>1, <1>5 DEF Keeps, Same, VerbFields
  <2> QED BY <1>3, <2>1, WindowStays
<1>6. CASE a.answer = "ok" /\ verb' = Landed(a.server)
  <2>1. PICK o \in EntryOutcomes : o.ok /\ a.server = o.server /\ server' = o.server
    BY <1>2, <1>6, AnswersAre
  <2>2. CASE verb.kind = "upload" BY <1>1, <1>3, <1>6, <2>1, <2>2, UploadLands
  <2>3. CASE verb.kind # "upload"
    <3>1. \/ verb' = [verb EXCEPT !.at = @ + 1, !.tries = 1, !.created = Created(a.server)]
          \/ verb' = [verb EXCEPT !.at = @ + 1, !.tries = 1, !.count = @ + 1]
      BY <1>6 DEF Landed
    <3>2. /\ VerbFields \subseteq DOMAIN verb' /\ Same("click") /\ Same("kind") /\ Same("phase")
          /\ verb'.at = verb.at + 1
      BY <1>1, <3>1 DEF Same, VerbFields
    <3> QED BY <1>1, <1>3, <2>3, <3>2, OthersMove
  <2> QED BY <2>2, <2>3
<1> QED BY <1>3, <1>4, <1>5, <1>6

(* The window alone on an account whose folders are a tree, as the walk    *)
(* that looks for one in a listing takes them to be.                       *)
VerbsAlone ==
  /\ FilesTypeOK /\ Rooted /\ VerbInit
  /\ [][VerbNext]_<<server, lost, verbVars>>
AccountOfVerb == Rows(server) /\ Rooted /\ VerbInv
LEMMA WindowsStart == FilesTypeOK /\ Rooted /\ VerbInit => AccountOfVerb
<1> SUFFICES ASSUME FilesTypeOK, Rooted, VerbInit PROVE AccountOfVerb OBVIOUS
<1>1. PICK c \in Clicks : verb = NoVerb(c, MaxVerbs) BY DEF VerbInit
<1>2. /\ VerbFields \subseteq DOMAIN verb /\ verb.click = c /\ verb.kind = "none"
      /\ verb.phase = "idle" /\ verb.at = 1
  BY <1>1 DEF NoVerb, VerbFields
<1>3. Len(Walk) \in Nat BY <1>2, WalksAre
<1>4. verb.at \in 1 .. Len(Walk) + 1 BY <1>2, <1>3
<1>5. VerbInv BY <1>2, <1>4 DEF VerbInv, VerbTyped
<1> QED BY <1>5, TypesAreRows DEF AccountOfVerb

LEMMA WindowsGoOn ==
  AccountOfVerb /\ [VerbNext]_<<server, lost, verbVars>> => AccountOfVerb'
<1> SUFFICES ASSUME AccountOfVerb, [VerbNext]_<<server, lost, verbVars>> PROVE AccountOfVerb'
  OBVIOUS
<1>1. Rows(server) /\ Rooted /\ VerbInv BY DEF AccountOfVerb
<1>2. ASSUME Grown(server'), VerbInv' PROVE AccountOfVerb'
  BY <1>1, <1>2, GrownKeeps DEF AccountOfVerb
<1>3. CASE Run
  <2>1. server' = server BY <1>3 DEF Run
  <2> QED BY <1>1, <1>2, <1>3, <2>1, NothingIsGrowth, RunKeeps, InvIsTyped
<1>4. CASE AddPair \/ WalkEnds BY <1>1, <1>2, <1>4, PairsAndEndsKeep
<1>5. CASE Resolve BY <1>1, <1>2, <1>5, ResolveKeeps
<1>6. CASE Act BY <1>1, <1>2, <1>6, ActKeeps
<1>7. CASE WalkPast BY <1>1, <1>2, <1>7, WalkPastKeeps
<1>8. CASE WalkSends BY <1>1, <1>2, <1>8, WalkSendsKeeps
<1>9. CASE UNCHANGED <<server, lost, verbVars>>
  <2>1. server' = server /\ verb' = verb BY <1>9 DEF verbVars
  <2>2. Keeps /\ verb'.phase \in {verb.phase, "failed", "shown"}
    BY <1>1, <2>1 DEF Keeps, Same, VerbInv, VerbTyped
  <2> QED BY <1>1, <1>2, <2>1, <2>2, NothingIsGrowth, WindowStays
<1> QED BY <1>3, <1>4, <1>5, <1>6, <1>7, <1>8, <1>9 DEF VerbNext

LEMMA LandedAsCounted == AccountOfVerb => LandedWhereItLay
<1> SUFFICES ASSUME AccountOfVerb, verb.kind = "upload"
             PROVE  /\ Cardinality(Sent(verb.at - 1)) = verb.count
                    /\ \A m \in Sent(verb.at - 1) : \E i \in Listed :
                         /\ RelPath(i) = FolderParts(verb.top) \o Walk[m].path
                         /\ File(i).data = Walk[m].data
  BY DEF LandedWhereItLay
<1>1. Uploading BY DEF AccountOfVerb, VerbInv, VerbTyped
<1>2. ASSUME NEW m \in Sent(verb.at - 1)
      PROVE  \E i \in Listed : /\ RelPath(i) = FolderParts(verb.top) \o Walk[m].path
                               /\ File(i).data = Walk[m].data
  <2>1. LandedFile(Walk[m]) BY <1>1, <1>2 DEF Uploading
  <2> QED BY <2>1 DEF LandedFile, Listed
<1> QED BY <1>1, <1>2 DEF Uploading

(* uploadTree "reports how many files landed before any failure": in an    *)
(* account that only this window changes, the files counted are those of   *)
(* the walk, each in the folder it lay in below the chosen one, whatever   *)
(* was repeated after a lost answer and whatever that tree held before.    *)
THEOREM UploadsLandWhereTheyLay == VerbsAlone => []LandedWhereItLay
BY WindowsStart, WindowsGoOn, LandedAsCounted, PTL DEF VerbsAlone
-----------------------------------------------------------------------------
(* Beside other clients the window still only adds to the account, and     *)
(* what it knows of itself stays typed.                                    *)
LEMMA GrowthIsForward == ASSUME Rows(server), NEW s, Grown(s) PROVE Rows(s) /\ Forward(s)
<1>1. ASSUME NEW i \in DOMAIN server.files
      PROVE  i \in DOMAIN s.files /\ s.files[i] = server.files[i]
  <2>1. i \notin FreshFiles BY RowsAre DEF FreshFiles, Place
  <2> QED BY <2>1 DEF Grown, Put
<1>2. \A i \in DOMAIN server.files : Later(server.files[i], server.files[i])
  BY StandsStill DEF Forward
<1> QED BY <1>1, <1>2 DEF Forward, Grown

LEMMA VerbsGrow ==
  ASSUME Rows(server), VerbTyped, VerbNext
  PROVE  Grown(server') /\ VerbTyped' /\ (lost' = lost \/ (lost < MaxLost /\ lost' = lost + 1))
<1>1. VerbFields \subseteq DOMAIN verb BY DEF VerbTyped
<1>2. ASSUME NEW ph, verb'.phase = ph, VerbFields \subseteq DOMAIN verb', Same("click"),
             Same("kind"),
             Same("at") \/ (verb.at <= Len(Walk) /\ verb'.at = verb.at + 1),
             \/ ph \in {verb.phase, "failed", "shown"}
             \/ verb.phase = "resolve" /\ ph = "walk" /\ verb.kind = "upload"
             \/ verb.phase = "resolve" /\ ph = "act" /\ verb.kind # "upload"
      PROVE  VerbTyped'
  <2>1. Walk' = Walk BY <1>2 DEF Same, Walk
  <2>2. verb'.at \in 1 .. Len(Walk) + 1 BY <1>2, NextEntry DEF Same, VerbTyped
  <2> QED BY <1>2, <2>1, <2>2 DEF Same, VerbTyped
<1>3. ASSUME NEW out, NEW a \in Answered(out) \cup Unanswered(out), Attempt(out, a)
      PROVE  lost' = lost \/ (lost < MaxLost /\ lost' = lost + 1)
  BY <1>3 DEF Attempt
<1>4. CASE Run
  <2>1. server' = server /\ lost' = lost BY <1>4 DEF Run
  <2> QED BY <1>4, <2>1, NothingIsGrowth, RunKeeps, InvWillBeTyped
<1>5. CASE AddPair \/ WalkEnds
  <2>1. server' = server /\ lost' = lost BY <1>5 DEF AddPair, WalkEnds
  <2>2. verb' = [verb EXCEPT !.phase = "shown"] \/ verb' = [verb EXCEPT !.phase = "failed"]
    BY <1>5 DEF AddPair, WalkEnds, Shows, Succeeds, Failed1
  <2>3. /\ VerbFields \subseteq DOMAIN verb' /\ Same("click") /\ Same("kind") /\ Same("at")
        /\ verb'.phase \in {"failed", "shown"}
    BY <1>1, <2>2 DEF Same, VerbFields
  <2> QED BY <1>2, <2>1, <2>3, NothingIsGrowth
<1>6. CASE Resolve
  <2>1. server' = server /\ (lost' = lost \/ (lost < MaxLost /\ lost' = lost + 1))
    <3>1. ASSUME NEW a \in Answered(Reading) \cup Unanswered(Reading), Attempt(Reading, a)
          PROVE  server' = server
      <4>1. server' = server \/ \E o \in Reading : server' = o.server BY <3>1, AttemptIs
      <4> QED BY <4>1 DEF Reading, Done, Refused
    <3> QED BY <1>3, <1>6, <3>1 DEF Resolve
  <2>2. \/ verb' = [verb EXCEPT !.phase = "failed"] \/ verb' = [verb EXCEPT !.tries = @ + 1]
        \/ \E i : verb' = With(i)
    BY <1>6 DEF Resolve, Shows, Failed1, Resolved
  <2>3. verb.phase = "resolve" BY <1>6 DEF Resolve
  <2>4. /\ VerbFields \subseteq DOMAIN verb' /\ Same("click") /\ Same("kind") /\ Same("at")
        /\ \/ verb'.phase \in {verb.phase, "failed"}
           \/ verb'.phase = "walk" /\ verb.kind = "upload"
           \/ verb'.phase = "act" /\ verb.kind # "upload"
    BY <1>1, <2>2 DEF Same, VerbFields, With
  <2> QED BY <1>2, <2>1, <2>3, <2>4, NothingIsGrowth
<1>7. CASE Act
  <2>1. PICK a \in Answered(VerbOutcomes) \cup Unanswered(VerbOutcomes) :
         /\ Attempt(VerbOutcomes, a)
         /\ Shows(IF Retries(a, verb.tries) THEN [verb EXCEPT !.tries = @ + 1]
                  ELSE IF a.answer = "ok" THEN Succeeds(verb) ELSE Failed1(verb))
    BY <1>7 DEF Act
  <2>2. \/ verb' = [verb EXCEPT !.tries = @ + 1]
        \/ verb' = [verb EXCEPT !.phase = "shown"] \/ verb' = [verb EXCEPT !.phase = "failed"]
    BY <2>1 DEF Shows, Succeeds, Failed1
  <2>3. /\ VerbFields \subseteq DOMAIN verb' /\ Same("click") /\ Same("kind") /\ Same("at")
        /\ verb'.phase \in {verb.phase, "failed", "shown"}
    BY <1>1, <2>2 DEF Same, VerbFields
  <2>4. verb.phase = "act" BY <1>7 DEF Act
  <2> QED BY <1>2, <1>3, <2>1, <2>3, <2>4, ActsGrow, AttemptsGrow
<1>8. CASE WalkPast
  <2>1. server' = server /\ lost' = lost /\ verb.at <= Len(Walk) BY <1>8 DEF WalkPast
  <2>2. \/ verb' = [verb EXCEPT !.at = @ + 1] \/ verb' = [verb EXCEPT !.phase = "failed"]
        \/ verb' = [verb EXCEPT !.at = @ + 1, !.skipped = @ + 1]
    BY <1>8 DEF WalkPast, Shows, Failed1
  <2>3. /\ VerbFields \subseteq DOMAIN verb' /\ Same("click") /\ Same("kind")
        /\ Same("at") \/ verb'.at = verb.at + 1
        /\ verb'.phase \in {verb.phase, "failed"}
    BY <1>1, <2>2 DEF Same, VerbFields
  <2> QED BY <1>2, <2>1, <2>3, NothingIsGrowth
<1>9. CASE WalkSends
  <2>1. PICK a \in Answered(EntryOutcomes) \cup Unanswered(EntryOutcomes) :
         /\ Attempt(EntryOutcomes, a)
         /\ Shows(IF Retries(a, verb.tries) THEN [verb EXCEPT !.tries = @ + 1]
                  ELSE IF a.answer = "ok" THEN Landed(a.server) ELSE Failed1(verb))
    BY <1>9 DEF WalkSends
  <2>2. \/ verb' = [verb EXCEPT !.tries = @ + 1] \/ verb' = [verb EXCEPT !.phase = "failed"]
        \/ verb' = [verb EXCEPT !.at = @ + 1, !.tries = 1, !.created = Created(a.server)]
        \/ verb' = [verb EXCEPT !.at = @ + 1, !.tries = 1, !.count = @ + 1]
    BY <2>1 DEF Shows, Failed1, Landed
  <2>3. /\ VerbFields \subseteq DOMAIN verb' /\ Same("click") /\ Same("kind")
        /\ Same("at") \/ verb'.at = verb.at + 1
        /\ verb'.phase \in {verb.phase, "failed"}
    BY <1>1, <2>2 DEF Same, VerbFields
  <2>4. verb.phase = "walk" /\ verb.at <= Len(Walk) /\ IsSent(Entry1) BY <1>9 DEF WalkSends
  <2> QED BY <1>2, <1>3, <2>1, <2>3, <2>4, EntriesGrow, AttemptsGrow
<1> QED BY <1>4, <1>5, <1>6, <1>7, <1>8, <1>9 DEF VerbNext
LEMMA TypedStays == ASSUME VerbTyped, UNCHANGED verbVars PROVE VerbTyped'
<1>1. verb' = verb BY DEF verbVars
<1>2. Walk' = Walk BY <1>1 DEF Walk
<1> QED BY <1>1, <1>2 DEF VerbTyped

LEMMA WindowsAreTyped == VerbInit => VerbTyped
<1> SUFFICES ASSUME VerbInit PROVE VerbTyped OBVIOUS
<1>1. PICK c \in Clicks : verb = NoVerb(c, MaxVerbs) BY DEF VerbInit
<1>2. /\ VerbFields \subseteq DOMAIN verb /\ verb.click = c /\ verb.phase = "idle" /\ verb.at = 1
  BY <1>1 DEF NoVerb, VerbFields
<1>3. Len(Walk) \in Nat BY <1>2, WalksAre
<1>4. verb.at \in 1 .. Len(Walk) + 1 BY <1>2, <1>3
<1> QED BY <1>2, <1>4 DEF VerbTyped
=============================================================================
