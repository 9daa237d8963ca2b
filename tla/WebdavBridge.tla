----------------------------- MODULE WebdavBridge -----------------------------
(***************************************************************************)
(* `files webdav`: the remote files as a drive the operating system        *)
(* mounts.  internal/webdavfs maps paths to ids through one snapshot of    *)
(* the tree that all requests share; cmd/files_webdav.go serves it until   *)
(* it is interrupted.                                                      *)
(*                                                                         *)
(* Requests run concurrently, each on a handler of the HTTP server.  What  *)
(* golang.org/x/net/webdav does with a request, which methods of the file  *)
(* system it calls in which order and which paths it locks, is external.   *)
(* The mutex of the snapshot is held across the request that refreshes it; *)
(* between two methods of a request, and between the snapshot and the      *)
(* lookups of one method, it is free.  The lookups of one method are one   *)
(* step, and the snapshot is read again before or after them; invalidated  *)
(* it may also be before Rename's last, the one that does not just fail.   *)
(***************************************************************************)
EXTENDS FilesApi

CONSTANTS
  Handler,         \* requests the HTTP server works on at once
  Asks,            \* requests a client of the drive may send: kind, path, to
  Cut,             \* what is left of a body that breaks off
  MaxRequests      \* bound: requests a client sends

Kinds == {"PROPFIND", "GET", "MKCOL", "DELETE", "PUT", "MOVE"}
ASSUME CutAssumption  == Cut \in Data
(* A MOVE onto itself is refused before a method is called.                *)
ASSUME AsksAssumption ==
  /\ Asks \subseteq [kind : Kinds, path : Seq(Name), to : Seq(Name)]
  /\ \A r \in Asks : r.kind = "MOVE" => r.path # r.to
ASSUME RequestsAssumption == MaxRequests \in Nat

VARIABLES
  tree,      \* the snapshot: rows as listed, the maps from paths to rows,
             \* whether folders # nil, whether it is younger than the TTL
  mu,        \* the handler that holds FS.mu across a refresh, or Nobody
  req,       \* req[h]: the request a handler works on
  mount,     \* the server process: its phase, its flag, requests to come
  made       \* history: changes made through the mount, the last one reported
bridgeVars == <<tree, mu, req, mount, made>>

Nobody  == "nobody"
ASSUME NobodyAssumption == Nobody \notin Handler
Parent(p)   == SubSeq(p, 1, Len(p) - 1)
BaseOf(p)   == p[Len(p)]

-----------------------------------------------------------------------------
(* The snapshot.  refresh leaves out what is in the trash, a folder with   *)
(* no chain of folders from the root down to it, and the files in one.     *)
LiveOf(rows) == [i \in {j \in DOMAIN rows : rows[j].at = "live"} |-> rows[i]]
Chains ==
  {c \in UNION {[1 .. n -> DOMAIN tree.folders] : n \in 1 .. Cardinality(Id)} :
     \A k \in DOMAIN c : tree.folders[c[k]].parent = IF k = 1 THEN Root ELSE c[k - 1]}
Reached == {c[Len(c)] : c \in Chains}
FolderPath(f) ==
  LET c == CHOOSE c \in Chains : c[Len(c)] = f
  IN  [k \in DOMAIN c |-> tree.folders[c[k]].name]
FilePath(i) ==
  LET f == tree.files[i].folder
  IN  Append(IF f = Root THEN << >> ELSE FolderPath(f), tree.files[i].name)

(* The maps from paths to rows.  Of several rows with one path a map keeps *)
(* one, any as far as the client knows how the server orders them.         *)
Maps(pathOf) ==
  LET paths == {pathOf[i] : i \in DOMAIN pathOf}
  IN  {m \in [paths -> DOMAIN pathOf] : \A p \in paths : pathOf[m[p]] = p}
Placeable  == {i \in DOMAIN tree.files : tree.files[i].folder \in Reached \cup {Root}}
FileMaps   == Maps([i \in Placeable |-> FilePath(i)])
FolderMaps == Maps([f \in Reached |-> FolderPath(f)])

(* lookupFolder and folderIDFor: nothing but the root is found while       *)
(* folders is nil.  lookupFile: invalidate leaves the files alone.         *)
HasFolder(p)    == p = << >> \/ (tree.set /\ p \in DOMAIN tree.folderAt)
FolderId(p)     == IF p = << >> THEN Root ELSE tree.folderAt[p]
HasFile(p)      == p \in DOMAIN tree.fileAt
FileId(p)       == tree.fileAt[p]
Usable          == tree.set /\ tree.fresh

-----------------------------------------------------------------------------
(* A request and the methods it calls.  PUT opens with O_CREATE|O_TRUNC    *)
(* and closes even a body that broke off; MOVE removes what is at its      *)
(* destination first.                                                      *)
Methods(kind) ==
  CASE kind = "PROPFIND" -> <<"Stat">>
    [] kind = "GET"      -> <<"OpenFile", "Read", "Close">>
    [] kind = "MKCOL"    -> <<"Mkdir">>
    [] kind = "DELETE"   -> <<"Stat", "RemoveAll">>
    [] kind = "PUT"      -> <<"OpenFile", "Write", "Close">>
    [] kind = "MOVE"     -> <<"Stat", "RemoveAll", "Rename">>
Locks(r) == IF r.kind \in {"PROPFIND", "GET"} THEN {}
            ELSE {r.path} \cup IF r.kind = "MOVE" THEN {r.to} ELSE {}

Idle == [phase |-> "idle"]
Received(r) ==
  [phase |-> "snapshot", ask |-> r, since |-> made.told, at |-> 1, api |-> "none",
   id |-> Root, ver |-> 0, into |-> Root, name |-> "none", moves |-> FALSE,
   renames |-> FALSE, exists |-> FALSE, body |-> Cut, tries |-> 1, calm |-> TRUE,
   did |-> 0, done |-> "none", code |-> "none"]
BridgeInit ==
  /\ tree = [set |-> FALSE, fresh |-> FALSE, seq |-> 0,
             files |-> << >>, folders |-> << >>, fileAt |-> << >>, folderAt |-> << >>]
  /\ mu = Nobody
  /\ req = [h \in Handler |-> Idle]
  /\ mount \in [phase : {"off"}, readOnly : BOOLEAN, left : 0 .. MaxRequests]
  /\ made = [count |-> 0, told |-> 0]

Method(q)    == Methods(q.ask.kind)[q.at]
Goes(h, q)   == req' = [req EXCEPT ![h] = q]
Fail(q)      == [q EXCEPT !.phase = "answer", !.code = "error"]
Begins == [Write |-> "write", Read |-> "call", Close |-> "close", Stat |-> "snapshot",
           Mkdir |-> "snapshot", RemoveAll |-> "snapshot", Rename |-> "snapshot"]
NextMethod(q) ==
  IF q.at = Len(Methods(q.ask.kind)) THEN [q EXCEPT !.phase = "answer", !.code = "ok"]
  ELSE [q EXCEPT !.at = @ + 1, !.api = "none", !.done = "none",
                 !.phase = Begins[Methods(q.ask.kind)[q.at + 1]]]
Wants(q, api) == [q EXCEPT !.phase = "call", !.api = api, !.tries = 1]

Serve ==
  /\ mount.phase = "off"
  /\ mount' = [mount EXCEPT !.phase = "up"]
  /\ UNCHANGED <<server, lost, tree, mu, req, made>>

Receive(h) ==
  /\ mount.phase = "up" /\ req[h].phase = "idle" /\ mount.left > 0
  /\ \E r \in Asks :
       /\ \A g \in Handler : req[g].phase # "idle" => Locks(r) \cap Locks(req[g].ask) = {}
       /\ Goes(h, Received(r))
  /\ mount' = [mount EXCEPT !.left = @ - 1]
  /\ UNCHANGED <<server, lost, tree, mu, made>>

(* snapshot: a usable one is served, otherwise the tree is read again with *)
(* the mutex held.  The mutating methods refuse a read-only mount before;  *)
(* the variant forgets Rename.                                             *)
WritesOrRemoves(q) == Method(q) \in {"Mkdir", "RemoveAll"}
Writes(q) == Method(q) \in {"Mkdir", "RemoveAll", "Rename"}
Snapshot(h) ==
  LET q == req[h] IN
  /\ q.phase = "snapshot"
  /\ IF mount.readOnly /\ Writes(q) THEN Goes(h, Fail(q)) /\ UNCHANGED mu
     ELSE /\ mu = Nobody
          /\ IF Usable THEN Goes(h, [q EXCEPT !.phase = "look"]) /\ UNCHANGED mu
             ELSE Goes(h, [q EXCEPT !.phase = "fetch", !.tries = 1]) /\ mu' = h
  /\ UNCHANGED <<server, lost, tree, mount, made>>

(* refresh: the listing is as of the moment the server answers, and is in  *)
(* force when the maps are built; a failure leaves the maps as they were.  *)
(* The variant returns with the mutex held.                                *)
FailsLocked(h) == Goes(h, Fail(req[h])) /\ UNCHANGED mu
FetchFails(h)  == Goes(h, Fail(req[h])) /\ mu' = Nobody
Fetch(h) ==
  LET q == req[h] IN
  /\ q.phase = "fetch"
  /\ \E a \in Answered(Reading) \cup Unanswered(Reading) :
       /\ Attempt(Reading, a)
       /\ IF Retries(a, q.tries)
          THEN Goes(h, [q EXCEPT !.tries = @ + 1]) /\ UNCHANGED <<tree, mu>>
          ELSE IF a.answer = "ok"
          THEN /\ tree' = [tree EXCEPT !.files = LiveOf(server.files),
                                       !.folders = LiveOf(server.folders),
                                       !.seq = made.count]
               /\ Goes(h, [q EXCEPT !.phase = "install"]) /\ UNCHANGED mu
          ELSE FetchFails(h) /\ UNCHANGED tree
  /\ UNCHANGED <<mount, made>>
Install(h) ==
  /\ req[h].phase = "install"
  /\ \E files \in FileMaps, folders \in FolderMaps :
       tree' = [tree EXCEPT !.set = TRUE, !.fresh = TRUE,
                            !.fileAt = files, !.folderAt = folders]
  /\ mu' = Nobody
  /\ Goes(h, [req[h] EXCEPT !.phase = "look"])
  /\ UNCHANGED <<server, lost, mount, made>>

(* The snapshot outlives its TTL.                                          *)
Expire ==
  /\ Usable
  /\ tree' = [tree EXCEPT !.fresh = FALSE]
  /\ UNCHANGED <<server, lost, mu, req, mount, made>>

-----------------------------------------------------------------------------
(* The lookups of a method.                                                *)
StatAt(q) ==
  LET there == HasFolder(IF q.ask.kind = "MOVE" THEN q.ask.to ELSE q.ask.path)
               \/ HasFile(IF q.ask.kind = "MOVE" THEN q.ask.to ELSE q.ask.path)
  IN  CASE there -> NextMethod(q)
        [] ~there /\ q.ask.kind = "MOVE" -> [q EXCEPT !.at = 3, !.phase = "snapshot"]
        [] OTHER -> Fail(q)
MkdirAt(q) ==
  IF HasFolder(q.ask.path) \/ ~HasFolder(Parent(q.ask.path)) THEN Fail(q)
  ELSE [Wants(q, "CreateFolder") EXCEPT !.into = FolderId(Parent(q.ask.path)),
                                       !.name = BaseOf(q.ask.path)]
RemoveAt(q) ==
  LET p == IF q.ask.kind = "MOVE" THEN q.ask.to ELSE q.ask.path IN
  CASE HasFile(p) -> [Wants(q, "DeleteFile") EXCEPT !.id = FileId(p)]
    [] ~HasFile(p) /\ HasFolder(p) /\ p # << >> ->
         [Wants(q, "DeleteFolder") EXCEPT !.id = FolderId(p)]
    [] OTHER -> Fail(q)

(* Rename: a rename, a move, or both.  The outcome of the lookup of the    *)
(* old parent is not looked at: one that is not found, be it that another  *)
(* request invalidated the snapshot just before it, counts as the root.  A *)
(* file that stays where it is needs no request, a folder neither, but the *)
(* folder's path goes on to invalidate.                                    *)
OldParent(p, late) == IF HasFolder(p) /\ ~late THEN FolderId(p) ELSE Root
Placed(q, late) ==
  [q EXCEPT !.into = FolderId(Parent(q.ask.to)), !.name = BaseOf(q.ask.to),
            !.moves = OldParent(Parent(q.ask.path), late) # FolderId(Parent(q.ask.to)),
            !.renames = BaseOf(q.ask.path) # BaseOf(q.ask.to)]
RenameAt(q, late) ==
  LET from == q.ask.path
      r == Placed(q, late)
      goes == << >> \notin {from, q.ask.to} /\ HasFolder(Parent(q.ask.to))
      file == goes /\ HasFile(from)
      folder == goes /\ ~HasFile(from) /\ HasFolder(from)
      Asked(api, id) == [Wants(r, api) EXCEPT !.id = id]
  IN
  CASE file /\ (r.moves \/ r.renames) ->
         [Asked("UpdateFile", FileId(from)) EXCEPT !.ver = tree.files[FileId(from)].ver]
    [] file /\ ~r.moves /\ ~r.renames   -> [r EXCEPT !.phase = "answer", !.code = "ok"]
    [] folder /\ r.moves                -> Asked("MoveFolder", FolderId(from))
    [] folder /\ ~r.moves /\ r.renames  -> Asked("RenameFolder", FolderId(from))
    [] folder /\ ~r.moves /\ ~r.renames -> [r EXCEPT !.phase = "invalidate"]
    [] OTHER -> Fail(q)

(* OpenFile, openFile: a handle with a temporary file, which starts empty  *)
(* for a PUT and is filled by the first read of a GET.                     *)
Handle(q, there) ==
  [NextMethod(q) EXCEPT !.exists = there, !.tries = 1, !.api = "Download",
                        !.id = IF there THEN FileId(q.ask.path) ELSE Root]
OpenAt(q) ==
  LET writing == q.ask.kind = "PUT"  p == q.ask.path IN
  CASE writing /\ mount.readOnly -> Fail(q)
    [] HasFolder(p) -> Fail(q)
    [] ~HasFolder(p) /\ ~HasFile(p) /\ (~writing \/ ~HasFolder(Parent(p))) -> Fail(q)
    [] OTHER -> Handle(q, HasFile(p))

Lookup(h) ==
  /\ req[h].phase = "look" /\ mu = Nobody
  /\ \E late \in BOOLEAN :
       LET q == [req[h] EXCEPT !.calm = @ /\ tree.set /\ ~late] IN
       /\ late => /\ tree.set /\ Method(req[h]) = "Rename"
                  /\ \E g \in Handler \ {h} : req[g].phase = "invalidate"
       /\ Goes(h, CASE Method(q) = "Stat"      -> StatAt(q)
                    [] Method(q) = "Mkdir"     -> MkdirAt(q)
                    [] Method(q) = "RemoveAll" -> RemoveAt(q)
                    [] Method(q) = "Rename"    -> RenameAt(q, late)
                    [] Method(q) = "OpenFile"  -> OpenAt(q))
  /\ UNCHANGED <<server, lost, tree, mu, mount, made>>

(* The body of a PUT arrives in the temporary file, or breaks off.         *)
WriteBody(h) ==
  /\ req[h].phase = "write"
  /\ \E d \in Data :
       Goes(h, [NextMethod(req[h]) EXCEPT !.body = d,
                                          !.code = IF d = Cut THEN "error" ELSE "none"])
  /\ UNCHANGED <<server, lost, tree, mu, mount, made>>

(* Close of a written handle: the parent of a new file is looked up again. *)
CloseHandle(h) ==
  LET q == req[h]  dir == Parent(q.ask.path) IN
  /\ q.phase = "close" /\ mu = Nobody
  /\ Goes(h, CASE q.ask.kind = "GET" -> NextMethod(q)
               [] q.ask.kind = "PUT" /\ q.exists -> Wants(q, "ReplaceFileContent")
               [] q.ask.kind = "PUT" /\ ~q.exists /\ ~HasFolder(dir) -> Fail(q)
               [] OTHER -> [Wants(q, "UploadFile") EXCEPT !.into = FolderId(dir),
                                                         !.name = BaseOf(q.ask.path)])
  /\ UNCHANGED <<server, lost, tree, mu, mount, made>>

-----------------------------------------------------------------------------
(* The request to the server.  RemoveAll never purges; the variant does.   *)
(* An absent name or folder of an update is left as the server has it.     *)
PurgeFile(i) == ForceDeleteFile(i)
TrashFile(i) == DeleteFile(i)
BridgeOutcomes(q) ==
  CASE q.api = "CreateFolder" -> CreateFolder(q.name, q.into)
    [] q.api = "DeleteFile"   -> TrashFile(q.id)
    [] q.api = "DeleteFolder" -> DeleteFolder(q.id)
    [] q.api = "MoveFolder"   -> MoveFolder(q.id, q.into)
    [] q.api = "RenameFolder" -> RenameFolder(q.id, q.name)
    [] q.api = "UpdateFile"   ->
         UpdateFile(q.id, IF q.renames THEN q.name ELSE File(q.id).name,
                    IF q.moves THEN q.into ELSE File(q.id).folder, q.ver)
    [] q.api = "ReplaceFileContent" -> ReplaceFileContent(q.id, q.body)
    [] q.api = "UploadFile"   -> UploadFile(q.name, q.into, q.body)
    [] q.api = "Download"     -> May(Live(q.id), server)

(* A folder is moved first and renamed by a second request; a failure of   *)
(* the second returns without invalidating.  The variant only moves.       *)
AfterMove(q) ==
  IF q.api = "Download" THEN NextMethod(q) ELSE [q EXCEPT !.phase = "invalidate"]
AfterCall(q) ==
  CASE q.api = "Download" -> NextMethod(q)
    [] q.api = "MoveFolder" /\ q.renames -> Wants(q, "RenameFolder")
    [] OTHER -> [q EXCEPT !.phase = "invalidate"]

SendRequest(h) ==
  LET q == req[h]  outs == BridgeOutcomes(q) IN
  /\ q.phase = "call"
  /\ \E a \in Answered(outs) \cup Unanswered(outs) :
       LET changed == a.done /\ q.api # "Download"
           n == made.count + 1
           r == IF changed THEN [q EXCEPT !.did = n, !.done = q.api] ELSE q
       IN  /\ Attempt(outs, a)
           /\ made' = IF changed THEN [made EXCEPT !.count = n] ELSE made
           /\ Goes(h, IF Retries(a, q.tries) THEN [r EXCEPT !.tries = @ + 1]
                      ELSE IF a.answer = "ok" THEN AfterCall(r) ELSE Fail(r))
  /\ UNCHANGED <<tree, mu, mount>>

(* invalidate waits for the mutex; the variant does not.                   *)
InvalidateAnyway(h) ==
  /\ req[h].phase = "invalidate"
  /\ tree' = [tree EXCEPT !.set = FALSE, !.fresh = FALSE]
  /\ Goes(h, IF req[h].code = "error" THEN [req[h] EXCEPT !.phase = "answer"]
             ELSE NextMethod(req[h]))
  /\ UNCHANGED <<server, lost, mu, mount, made>>
Invalidate(h) ==
  LET q == req[h] IN
  /\ q.phase = "invalidate" /\ mu = Nobody
  /\ tree' = [tree EXCEPT !.set = FALSE, !.fresh = FALSE]
  /\ Goes(h, IF q.code = "error" THEN [q EXCEPT !.phase = "answer"] ELSE NextMethod(q))
  /\ UNCHANGED <<server, lost, mu, mount, made>>

(* The handler answers; the handle is closed and its temporary file gone.  *)
Told(q) == IF q.code = "ok" /\ q.did > made.told THEN q.did ELSE made.told
Answer(h) ==
  /\ req[h].phase = "answer"
  /\ made' = [made EXCEPT !.told = Told(req[h])]
  /\ Goes(h, Idle)
  /\ UNCHANGED <<server, lost, tree, mu, mount>>

(* Ctrl-C: no new request; the process ends when the handlers are idle, or *)
(* when the grace is over, whatever they are doing.                        *)
Interrupt ==
  /\ mount.phase = "up"
  /\ mount' = [mount EXCEPT !.phase = "stopping"]
  /\ UNCHANGED <<server, lost, tree, mu, req, made>>
Quiet == \A h \in Handler : req[h].phase = "idle"
Exit(graceOver) ==
  /\ mount.phase = "stopping" /\ (Quiet \/ graceOver)
  /\ mount' = [mount EXCEPT !.phase = "down"]
  /\ req' = [h \in Handler |-> Idle]
  /\ mu' = Nobody
  /\ UNCHANGED <<server, lost, tree, made>>

HandlerStep(h) == \/ Snapshot(h) \/ Fetch(h) \/ Install(h) \/ Lookup(h) \/ WriteBody(h)
                  \/ CloseHandle(h) \/ SendRequest(h) \/ Invalidate(h) \/ Answer(h)
BridgeNext == \/ Serve \/ Expire \/ Interrupt \/ Exit(FALSE) \/ Exit(TRUE)
              \/ \E h \in Handler : Receive(h) \/ HandlerStep(h)

(* The drive by itself: a step that leaves its variables alone may change  *)
(* the server in any way, as other clients of the account do.              *)
BridgeSpec == BridgeInit /\ [][BridgeNext]_bridgeVars

-----------------------------------------------------------------------------
BridgeTypeOK ==
  /\ mu \in Handler \cup {Nobody}
  /\ made.told \in 0 .. made.count
  /\ tree.seq \in 0 .. made.count
  /\ mount.left \in 0 .. MaxRequests
  /\ \A h \in Handler : req[h].phase # "idle" =>
       /\ req[h].at \in 1 .. Len(Methods(req[h].ask.kind))
       /\ req[h].tries \in 1 .. MaxTries
       /\ req[h].since \in 0 .. made.told
       /\ req[h].id \in Id \cup {Root} /\ req[h].into \in Id \cup {Root}

(* invalidate: "called after every mutation so a client's follow-up        *)
(* PROPFIND sees its own write": the lookups of a request are made on a    *)
(* tree that was listed after every change that had been reported when the *)
(* request was sent, also when another request was refreshing the snapshot *)
(* while the change was made.                                              *)
OwnWritesSeen ==
  [][\A h \in Handler : req[h].phase = "look" /\ req'[h].phase # "look"
                       /\ mount'.phase # "down"
       => tree.seq >= req[h].since]_<<tree, req>>

(* A change that is answered as made was made: the server carried out the  *)
(* last request of it, of a folder that is moved and renamed the renaming, *)
(* of a PUT with its whole body.  A MOVE keeps this promise unless another *)
(* request invalidates the snapshot under it.                              *)
Promises == {"MKCOL", "DELETE", "PUT", "MOVE"}
Kept(q) == /\ q.done # "none" /\ q.done = q.api
           /\ q.ask.kind = "PUT" => q.body # Cut
           /\ q.done = "MoveFolder" => ~q.renames
ReportedIsDone ==
  \A h \in Handler : req[h].phase = "answer" /\ req[h].code = "ok"
                    /\ req[h].ask.kind \in Promises /\ req[h].calm
    => Kept(req[h])

(* The same with no condition: what Rename's comment promises.             *)
MovesHappen ==
  \A h \in Handler : req[h].phase = "answer" /\ req[h].code = "ok"
                    /\ req[h].ask.kind = "MOVE"
    => Kept(req[h])

(* "nothing is force-deleted from a mount, so a client's stray delete      *)
(* stays recoverable": no request of the drive, overwriting or removing,   *)
(* broken off or repeated, makes the server forget a body.                 *)
HeldBodies(s) == UNION {{s.files[i].data} \cup s.files[i].old
                     : i \in {j \in DOMAIN s.files : s.files[j].at \in {"live", "trash"}}}
MountLosesNothing ==
  [][req' # req => HeldBodies(server) \subseteq HeldBodies(server')]_<<server, req>>

(* --read-only: "refuse every write through the mount".                    *)
ReadOnlyHolds == mount.readOnly => made.count = 0

(* The mutex is held across a request to the server and freed on each     *)
(* path out of a refresh: who holds it is still reading the tree, so that  *)
(* a failed listing never blocks the other requests of the drive.          *)
MutexIsFreed ==
  /\ mu # Nobody => req[mu].phase \in {"fetch", "install"}
  /\ \A h \in Handler : req[h].phase \in {"fetch", "install"} => mu = h
=============================================================================
