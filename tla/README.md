# TLA+ models of ledgerline-cli

ledgerline-cli is a command-line client, and a Windows tray program, for a
Ledgerline server: files, a photo gallery, sync of local folders, a WebDAV
drive.  This directory models its two halves: **folder sync**, where passes,
users, other clients, list edits and timers interleave, and **the client**, the
commands, the drive, the upload pools, the camera import, the Explorer menu and
the session, which share an account or a credential while requests are refused,
lost or repeated.  The server is not part of the repository; it is modelled from
how the client uses it.  Paths below are relative to the repository.

Contents: [inventory](#inventory) · [modules](#modules-and-the-code) ·
[runs](#runs) · [bounds](#bounds) · [fairness](#fairness) · [proofs](#proofs) ·
[findings](#findings) · [limits](#what-is-not-modelled) · [plan](#plan)

## Inventory

State, operations and what makes each component correct.  Components marked *
are modelled, at least in part.

| component | state | operations | correct when |
|---|---|---|---|
| file-sync engine* `internal/files/sync.go` | none of its own; a pass holds a listing and a scan while users, other clients and other passes change both sides | `Sync`: list, scan, push loop, `resolveConflict`, pull loop | it never deletes, respects direction and conflict policy, leaves both sides equal after a clean pass, lets devices converge |
| sync service of one directory* `internal/files/watch.go` | watcher, debounce channel, ticker | `RunService` | a local change leads to a pass |
| pair list* `internal/syncconfig` | `sync.json`, read and rewritten by the CLI and the tray | `Add`, `Remove`, `Update`, `RecordRun`, `Get`, `Load` | no operation undoes another, the file always parses, ids are unique |
| sync commands* `cmd/sync.go` | none | `add`, `ls`, `rm`, `set`, `run`, `service` | as the pair list and the runner |
| background runner* `internal/syncrunner` | `watched`, `timers`, `running`, the fsnotify watches | `Run`, `rearm`, `runDue`, `onEvent`, `schedule`, `runPair` | one run per pair at a time, watches match the list, every change is carried |
| tray glue* `cmd/ledgerline-gui/syncengine_windows.go` | the badge set `running` | `syncPairs`, `OnStart`, `OnResult`, `syncHold` | the badge tells the truth |
| settings window* `cmd/ledgerline-gui/settings_windows.go` | none | `savePair`, `removePair`, `togglePair`, `runPairs` | as the pair list |
| API client* `internal/api/client.go` | token, server address | `request`, `retriableDo`, `uploadMultipart`, `getStream` | a repeated request does no harm; a failure is reported |
| file API calls* `internal/api/files*.go` | none; the account is on the server | upload, replace, update, delete, folders, trash, versions, labels, shares, links | a call's answer says what happened to the account |
| file commands* `cmd/files*.go` | one process each: ids left, ids failed, target file | look, one request per id, write, audit | acts on what it saw, purges only trash, explains torn files |
| audit trail* `internal/audit`, `cmd/root.go` | one line per command | `Execute`, `auditEvent` | what it calls done was done |
| chunked upload* `internal/api/files_chunked.go` | an upload session | `UploadFileChunked` | what is assembled is the whole file |
| gallery pool and ledger* `cmd/files.go`, `cmd/gallery.go`, `internal/uploadledger` | set of uploaded hashes, dirty count, checkpoints, counters | goroutines under a semaphore, `Has`, `Add`, `MaybeCheckpoint`, `Save` | the ledger never names what the server lacks, nothing is sent twice, counts add up |
| WebDAV drive* `internal/webdavfs`, `cmd/files_webdav.go` | cached listing under a mutex, open handles | `snapshot`, `invalidate`, `Stat`, `OpenFile`, `Mkdir`, `RemoveAll`, `Rename`, `Close` | a request sees every change reported before it, a reported change was made, nothing is lost, the mutex is freed |
| session and sign-in* `internal/session`, `internal/authflow`, `cmd/auth*.go`, `cmd/client.go` | keyring entries and `config.json` | `Save`, `Load`, `Clear`, `WipeLocal`, password and pairing sign-in, check, logout | only verified credentials are stored, only rejected ones cleared |
| camera import* `cmd/ledgerline-gui/camera_windows.go` | sizes seen, paths done | `settled`, `pass`, `removeUploaded` | no half video, no photo deleted or given up unsent |
| Explorer menu and windows* `cmd/ledgerline-gui/context*_windows.go` | the verb of a window | share, encrypt, decrypt, upload, gallery, sync | what is reported as landed is at its place |
| certificate pins, preferences, log files | one file each | trust on first use, `Update`, rotation | no update lost |
| command frame*, desktop integration | none that matters here | | |

How they interact.  The runner, the settings window and the commands read and
rewrite the pair list through `syncconfig`, which is guarded by a mutex inside a
process and by nothing between processes.  The runner copies pairs out of the
list and calls `files.Sync` with them, from its loop and from goroutines of
debounce timers; the window's "Sync now" and `sync run` call `files.Sync`
directly.  `files.Sync` talks to the server through the API client and changes
the directory that the runner's watcher watches.  Outcomes go back into the
pair list (`RecordRun`) and to the tray's badge (`OnStart`, `OnResult`).

The commands, the drive, the pools, the camera and the menu all reach the account
through `internal/api`, each in a process or goroutine of its own, with no lock
between them: what one has looked up, another may change before it acts.  They
share the session (one keyring, one file) with the tray.  Commands record their
outcome in the audit trail.

What is hard: a pass decides from a listing and a scan that are stale when it
acts; the engine's own transfers change the times that later conflicts are
decided by; a download truncates its target before the first byte arrives; list
edits race between goroutines and processes; an event can meet a run of its
pair; a request is repeated when only its answer was lost; a listing is shared by
requests that invalidate it under each other; two halves of a session are written
one after the other; a photo is still growing.  PROJECT.json lists each hazard at
its line, with the properties that would catch it.

## Modules and the code

**SyncEngine** (`internal/files/sync.go`, and what `internal/api` does for it).
`local[d][p]` is a directory, `rows` the server's file rows.  Each syncer `s`
(the runner, "Sync now", `files sync`, on any device) runs passes: `ListRemote`
takes the listing and the options of the pass, `ScanLocal` the scan; the push
loop is `LeaveAlone`, `PushNew`, `ReplaceRemote`, `SkipConflict`, `PullNewer`,
`KeepBoth`, `PushLoopEnds`; the pull loop is `PullMissing`, `PassOver`,
`PullLoopEnds`.  One request is one step, and a download is two: `OpenTarget`
(the `os.Create` that truncates) and `FetchDone` or `FetchFails`.  `Sends` reads
the file when the request runs, as `open` does, and may fail before or after the
server stored the body.  Between any two of these steps users write and delete
(`UserWrites`, `UserDeletes`) and other clients change the tree (`RemoteAdds`,
`RemoteEdits`, `RemoteTrashes`).  `Cancel` ends a pass's context: the loops go
on, as in the code, and every later request fails.  `Killed` ends the process.

A file's bytes are named by the time a user wrote them; `-v` is a fragment of
`v`.  One clock stamps both sides, so the clock skew of a real pair of machines
is left out: with it "newer" means nothing.  Paths are numbered in the order in
which `sort.Strings` puts them, because the loops walk them in that order.
Hidden and excluded names are `Hidden`; `Alt[p]` is the name keep-both uses.
`quiet` and `alone` are history variables: properties read them, no action does.

**PairStore** is the abstract specification of the pair list: each operation is
one step, given as the set of lists it can make of a list (`Adds`, `Removes`,
`Sets` for `sync set` and Pause, `Forms` for the settings form, `Records` for
`RecordRun`).  **SyncConfig** is what `internal/syncconfig` does with
`sync.json`: take the mutex, load and change (`Begin`), truncate the temporary
file (`OpenTmp`), write it (`WriteTmp`), rename it (`Rename`), with inodes,
several processes and `Crash`.  Within one process it implements PairStore
(`ImplementsStore`, refinement mapping `pairs <- body[main].list`).  SyncRunner
uses PairStore's operations on its list.

**SyncRunner** (`internal/syncrunner`, with the tray glue).  `watched`,
`running` and `timers` are the runner's fields (`timers` only the ids whose
timer is still running), `armed` and `pending` the fsnotify watcher's watches
and events, `marked` the tray's badge set.  `watcher` says whether `NewWatcher`
succeeded; `Rearm` marks its roots watched first, as the code, and may then be
refused any of the watches it asks for (an unreadable subtree, a failing `Add`),
or all of them without a watcher; it never asks again.  `missed` is a history
variable: what was refused and has not been watched since.  Jobs are the loop,
goroutines of fired timers, and "Sync now" requests; `todo[j]` holds the copies of
pairs a job still has to do.  `Rearm`, `RunDue` and `OnEvent` are the branches of
`Run`'s select; `TimerFires` is the function given to `time.AfterFunc`;
`runPair` is `Enter`, `AlreadyRunning`, `StandDown`, `OnStart`, `SyncScans`,
`RecordRun`, `OnResult`, `Leave`, and a request is `Request`, `MarkRunning`,
`SyncScans`, `ManualDone`, `ManualRecord`.  A sync is seen only at the moment it
scans and at its end: `unsynced` holds the changes that no scan has seen or
whose transfer failed.  A failed sync may be recorded as a success, since
failures of single files are not an error of `files.Sync`.  `held` stands for
the policy and for being signed out.

**FilesApi** (`internal/api`).  The account (`server`: files with their
versions, folders, and one row store for labels, links, grants, inbound
uploads, received shares and photos) and one operator for each call, which yields
the set of its outcomes: refused, or done, with the account it leaves.  `Attempt`
is `retriableDo`: an attempt may be lost before or after the server carried it
out, and is repeated up to `MaxTries`; a refusal is not.  The modules of the
client that change the account extend it.

**FileCommands** (`cmd/files*.go`, parts of `cmd/gallery.go`, `cmd/root.go`).
A command is the set of invocations its flags and local checks let through: which
request goes out for each id, what is read before (`look`), how a download
reaches the disk (`saves`), whether a failed id ends the command (`goesOn`),
whether one request carries all ids (`bulk`).  One interpreter runs them: `Start`,
`Look`, `OpenLocal`, `PassBy`, `NotInTrash`, `Call`, `BreaksOff`, `CloseFails`,
`End`, `Kill`.  `CloseFails` is a download whose body came whole and whose file
cannot be closed: the temporary file of `download` is removed, `zip` and `shared
download` keep the file and report the error, and `versions download`, which
closes in a `defer`, keeps it and reports success.  `trail` is the audit line of
each process.

**WebdavBridge** (`internal/webdavfs`, `cmd/files_webdav.go`).  A request of the
drive is the list of methods `golang.org/x/net/webdav` calls for it, under that
library's path locks (external).  A method is `Snapshot` (the mutex), `Fetch` (the
request made with the mutex held), `Install`, `Lookup`, then `WriteBody` and
`CloseHandle` or one or two `SendRequest`s, `Invalidate`, `Answer`.  `Expire` is the TTL,
`Interrupt` and `Exit` the shutdown with its grace.  The lookups of one method are
one step: another request's `Invalidate` comes before or after them, and one that
comes before them (after the `Snapshot`) leaves them only the root and the files.
`Rename`'s last lookup, of the old parent, is apart: its failure is not looked at,
so `Lookup` has an `Invalidate` come just before it, too (`late`).  Any other
lookup that meets one between only fails, as it does when it comes before.

**UploadPool** (`cmd/files.go`, `cmd/gallery.go`, `internal/uploadledger`,
`files_chunked.go`).  `Begin`, `Spawn` (the semaphore), and each goroutine's
`Hash`, `Check`, `Send` or `ChunkInit`, `ChunkPart`, `ChunkComplete`, then
`Record`; `Finish`, `KillPool`, `Edit`.  A body is a sequence of pieces the size
of a part; the chunked upload reads the size once and each part when it is sent.
The ledger file outlives the command; checkpoints are part of `Record`.  The two
commands have a ledger each (`uploads-files.json`, `uploads-gallery.json`) and store
into different collections, so that a history is the runs of one of them, chosen
in `PoolInit`: a body that one of them has sent, the other sends again.

**CameraUpload** (`camera_windows.go`, the Photos tab).  `Tick` and `LatePass`
(a tick that waited behind a pass, which Go's ticker buffers), `SendPhotos` of the
tab, and for either upload `ReadBody`, the failures, `UploadSucceeds`,
`RemoveUploaded`.  `Shoot` and `Grow` are the programs that write the folder.

**Session** (`internal/session`, `internal/authflow`, `cmd/auth*.go`,
`cmd/client.go`, the tray's reload and logout).  `file` and `ring` are the two
halves; `token` is what the servers know.  Sign-in is `StartSignIn`, `ClaimPair`,
`Mint`, `Verify`, `SaveToken`, `WriteState`, `RollBack`; a check is `LoadState`,
`LoadToken`, `Me`, then `ClearToken` and `ClearState`, and for a wipe `WipeLocal`
after both.  Whether it is a wipe is decided once, from the answer of `/me`.  The
keyring may refuse to store and to delete, the file to be removed and the directory
to be removed as a whole; `Clear` does not look at a refused delete, `WipeLocal` not
at a file that stays either, and `RollBack` may be refused as well.  `past.left`
remembers the servers whose keyring entry was left behind.  Anyone may `Die` between
two steps.

**ContextVerbs** (`context_windows.go`).  One window runs a verb: `Run`,
`AddPair`, `Resolve`, `Act`, and for a folder the walk of `uploadTree` entry by
entry (`WalkPast`, `WalkSends`, `WalkEnds`).  `uploadOne` sends a file above 8 MiB
in parts; here that transfer is the one request of its entry.

**MCClient** composes these: `part` chooses at the start which of them a
behaviour is about, alone or two that share an account, so that one run answers
for the client and each part still has its own state space.

| part | who is at work | faults and bounds |
|---|---|---|
| `alone` | one command process, every command, killed anywhere | 2 lost attempts |
| `commands` | two processes, one of which runs a rival (`DeleteFile`, `Rename`, `Move`, `Restore`, `Purge`, `UpdateFileShare`) when both are busy | none lost, none killed |
| `both` | a rival command beside one request of the drive | none lost |
| `mount` | two handlers, read-only or not | 2 requests and 1 loss, or 1 request and 2 losses |
| `deep` | two handlers, 3 requests, of those that look, make, delete and move to one path | none lost |
| `uploads` | three files, two goroutines, `files upload` and `gallery upload`, a checkpoint at each entry, and chunks | 2 runs of one command, kills, 1 failure; or 1 run with a file changed under it |
| `camera` | two photos, watcher and tab | 2 ticks |
| `shutter` | one photo, replaced | 4 ticks |
| `session` | two actors on one server and account: password sign-in, check, tray logout | 1 fault |
| `servers` | two actors, two servers, two accounts, every kind | no fault |
| `explorer` | every verb, run twice, on a folder or a file, synced or not | 2 lost attempts |

**MC\*** modules give the constants their values.  **\*Proofs** modules hold the
theorems.  In the specifications, operators introduced by "Variant" are wrong on
purpose: each property is known to fail when one of them takes the place of the
definition it stands next to, and no action uses them.

## Runs

| run | question | result |
|---|---|---|
| `engine_passes` | one device, every direction and policy in every pass, a server that may omit hashes and times | `TypeOK`, `CleanPassSyncs`, `NeverDeletes`, `DirectionRespected`, `SkipLeavesBothAlone` hold |
| `engine_history` | does an older version ever replace a newer one under "newest"? | `NewestKeepsNewerAlone` holds for passes that see whole files |
| `engine_converges` | do two devices settle? | `Converges` holds |
| `engine_cancelled` | the same of every pass, also after an interrupted download | `NewestKeepsNewer` is violated (a finding) |
| `engine_skip_race` | is "leave both untouched" true while people write? | `SkipLeavesBothUntouched` is violated (a finding) |
| `config_one_process` | is `sync.json` an atomic list for the goroutines of one process that may die? | `IdsStayUnique`, `NeverHalfWritten`, `ImplementsStore` hold |
| `config_two_lost` | and for two processes? | `NoLostUpdate` is violated (a finding) |
| `runner_jobs` | exclusion, running set, watches and badge under edits, changes, refused watches, restarts | `OneRunPerPair`, `RunningIsExact`, `WatchedAreArmed`, `BadgeTells` hold |
| `runner_carries` | is every change carried when there is an interval? | `ChangesAreCarried` holds |
| `runner_dropped` | and when there is none? | `DetectedAreCarried` is violated (a finding) |
| `client_parts` | do the client's parts keep what their comments and messages promise, beside each other and under lost, repeated and refused requests, kills and deaths? | the 23 properties below hold |
| `mount_moved` | does a move over the drive happen when it is answered as made? | `MovesHappen` is violated (a finding) |

The properties of `client_parts` (1,001,180 distinct states, depth 45):

| module | properties | what they say |
|---|---|---|
| FileCommands | `AuditIsTrue` | the trail never counts more than the server carried out, and "ok" leaves no id out |
| | `TornIsExplained` | a torn local file is being written, or a killed command or a plain download left it; only `versions download` calls a file done that it could not close |
| | `SeesWhatItChanges` | `rename` and `mv` change a row only as they saw it |
| | `PurgesOnlyTrash` | `trash rm` purges only what was in the trash |
| WebdavBridge | `ReportedIsDone` | a change that is answered as made was made |
| | `OwnWritesSeen` | lookups use a listing younger than every change reported before the request |
| | `MountLosesNothing` | no request of the drive makes the server forget a body |
| | `ReadOnlyHolds` | a read-only drive changes nothing |
| | `MutexIsFreed` | only a handler that reads the listing holds the mutex |
| UploadPool | `LedgerIsTrue`, `SentOnce` | the ledger names only what the server has; without failures a body travels once with each command |
| | `AssembledIsWhole` | no accepted body has a hole |
| | `CountsAddUp` | every argument ends up in one count |
| CameraUpload | `RemovedIsKept`, `DoneWasSent` | nothing is deleted, or given up, before the server has it |
| | `HalvesStayHere` | the settle test keeps half a video here |
| Session | `StoredIsVerified` | what is stored was accepted, and the halves fit |
| | `ClearsOnlyRejected` | a check clears only a credential the server rejects |
| | `WipeLeavesNothing` | after a remote wipe no keyring entry holds the token |
| ContextVerbs | `LandedWhereItLay` | as many files as an upload of a folder reports are on the server at their place, with their contents |

The last three are the type invariants `CommandsTypeOK` (with FilesApi's),
`BridgeTypeOK` and `PoolTypeOK`.

Conditions in the properties, and why they are there.

- `CleanPassSyncs` and `SkipLeavesBothAlone` speak of a pass nobody disturbs
  (`quiet`), since a pass decides from what it read at its start.  The first is
  about the final state whatever happened in earlier passes: fragments, rows
  without a hash, two rows of one path.
- `NewestKeepsNewerAlone` is limited to one device, because an upload stamps
  the row with the time of the upload: of two devices the one that uploads last
  wins.  It excepts hidden names (pulled over on every pass) and the suffixed
  names of keep-both (overwritten by design), and passes that meet a fragment,
  which is what `engine_cancelled` shows.
- `WatchedAreArmed` says that a directory of a watched root has its watch or was
  refused it: `rearm` marks a root watched whatever comes of its watches and does
  not try again, so that such a directory waits for the interval (which
  `ChangesAreCarried` covers, refusals included).  It is limited to roots that share
  no directory: `rearm` removes the watch of a nested root although its parent
  still needs it.
- `TornIsExplained` excepts what the code leaves: a plain download that failed, a
  file whose `Close` failed beside an error, and the one `versions download`
  reports as done.
- `BadgeTells` is checked without requests: `running` is a set, not a count, and
  a request that ends clears the badge of a runner's sync that goes on.

- `ReportedIsDone` excepts a MOVE whose snapshot another request invalidated
  (`calm`): `mount_moved` is that case.
- `LedgerIsTrue` and `AssembledIsWhole` except files that change while a command
  reads them.  `files upload` hashes a file and then sends it, so a change in
  between puts a hash into the ledger that was never sent.
- `SentOnce` is about runs of one command, without failures and with arguments of
  distinct contents: two goroutines may both ask before either has sent.
- `HalvesStayHere` excepts a tick that waited behind a pass, a writer that stalls
  for an interval, and a name used again: in each the code does send a half.
- `RemovedIsKept` excepts a file written between its upload and its removal.
- `ClearsOnlyRejected`, `WipeLeavesNothing` and the second half of
  `StoredIsVerified` except a sign-in that stores at the same time, and faults
  between the two halves.  Nothing locks the session, and no comment says it does.
  `WipeLeavesNothing` also excepts a server whose entry was left once (`past.left`):
  the keyring refused to delete it, which nobody hears of, or a sign-in wrote it
  between the two halves of a clearing; once `config.json` is gone nothing names it.

`CHECK_DEADLOCK FALSE` is given where the bounds end all behaviour: no pass
starts after `MaxClock`, and the runner that finds no pair and has used up its
edits has nothing left to do, and the client's parts end when their requests,
runs, ticks, tokens or verbs are used up.

## Bounds

| constant | value | why it is enough |
|---|---|---|
| `NumPaths` | 1 to 3 | the engine treats paths one by one; they meet only where keep-both writes one path's content under another name, earlier or later in the order, and where a name is hidden: 3 paths give each case |
| `MaxEdits` | 2 or 3 | an edit on each side, and one more after a transfer has given its copy a new time |
| `MaxFaults` | 1 | each kind of fault occurs at every step; several faults act through the fragment or stale row that one leaves |
| `MaxClock` | 5, 6 | two to three passes that write, after the edits; 100 where nothing is cut |
| two devices | `engine_converges` | with one path, so that the passes overlap at every step |
| `Inode` | 3 | names and handles refer to at most main, temporary and one more |
| `MaxPairs` | 2 | two pairs share a directory, reuse an id, or race |
| `MaxCrashes`, `MaxRestarts` | 1 | at every step |
| `Timer` | 1 or 2 | a timer's goroutine beside the loop; two for two changes of one pair |
| `MaxChanges`, `MaxHolds`, `MaxFails` | 0 to 2 | a change before and one during the sync, one change of policy, one failure |
| `MaxRefusals` | 0 or 1 | one `rearm` that is refused any set of its watches; a runner without a watcher is refused all, and is in every run |
| `Id` | 3 | one live and one trashed row, of files and of folders, under one number, and one fresh id; on the drive a file in a folder with a subfolder |
| `MaxTries` | 2 | an attempt and its repetition; the code's nine repeat what the second does |
| `MaxLost` | 2 | both attempts of one request, or one attempt of each of two |
| `Handler`, `Cli`, `Actor` | 2 | every race here is between two |
| `MaxRequests` | 1 to 3 | a request that changes, one that invalidates under it, one that looks |
| `Args`, `Jobs`, `Batch` | 3, 2, 1 | a goroutine waits for a slot while two share the ledger; two equal files; a save at each entry |
| `Large` | 1 | a file of one piece goes in one request, one of two pieces in parts: a part behind a part |
| `MaxRuns`, `MaxEdits`, `MaxFailures` | 2, 1, 1 | a killed run and the next; one change; one failed request |
| `Full`, `MaxShots`, `MaxTicks` | 2, 2, 4 | a half and a whole; a photo and its replacement; two settle tests of each |
| `MaxToken`, `MaxFaults` | 2, 1 | an old and a new credential; one loss, refusal or death at every step |
| `MaxVerbs` | 2 | a verb, and the same verb after a failure |

`client_parts` uses symmetry: the names `n1`, `n2` stand for commands, for
handlers and for actors, `w1`, `w2` for servers, accounts and photos.  No action
and no property compares a name of one role with a name of another, and none
singles out a name, so that permuting all roles at once loses no state up to
isomorphism.  Where a part does restrict a name (`session` uses one server,
`shutter` one photo, `both` one command process) it reaches only one
representative of each class, which is what the reduction needs.  The properties
of the run are invariants and action properties, no liveness.

## Fairness

The client's modules state no fairness: their properties are safety, and nothing in
them must happen that a user could not prevent by closing the program.

`SyncEngine!Fairness`: weak fairness of each syncer's own steps.  The service
and the runner start a pass whenever their interval has elapsed, loops of a pass
go on, and requests end, since both clients and contexts have timeouts.  Users,
other clients, faults, cancellation and death are not fair: they need not happen.

`SyncRunner!Fairness`: the interval elapses, both tickers tick (`Rearm`,
`RunDue`), Go's select picks a ready channel in the end, a timer that runs fires,
goroutines and syncs go on.  Each runner job is fair by itself, so that an unfair
choice between jobs is not excluded by joint fairness.  List edits, file changes,
requests, holds and restarts are not fair.  Weak fairness is enough because a
step, once enabled, stays enabled until it or a competing step of the same loop
is taken; with `Tick` and `Reload` tickers this is the least that a scheduler
that runs every goroutine gives.

## Proofs

Checked by TLAPS for every value of the constants that the modules' named
assumptions admit.  They say that ids are positive numbers, sets are
finite, bounds natural numbers, names of one kind no names of another; TLC
evaluates them on its runs.

- `SyncEngineProofs!TypesAreKept`, `NothingIsDeleted`, `DirectionGates`.
  `TypeOK` is not inductive alone: nothing in it says that a download in
  progress belongs to a pass that may pull, so a push-only pass could end one.
  The inductive invariant `EngineInv` adds `FetchOK(s)`: a download exists only
  inside a loop, for a path and a row that exist, in a direction that pulls.
  The two action properties follow from it step by step: `NothingIsDeleted`
  because every step either appends to `rows`, keeps `gone`, or replaces a file
  by a file (its time is a later clock, so it is not `NoFile`);
  `DirectionGates` because each writing action has the gate as a guard, or
  inherits it from the download it continues.
- `ACleanPassHasSynced`, `SkipLeavesBoth` (same module).  Both speak of a pass
  nobody disturbs, and say something only at its end or deep inside its loops.
  Their invariant `ViewInv` adds to `EngineInv` the view of each pass (`View`):
  what the directory and the rows hold at every visible path, told from the
  listing, the scan and how far the two loops have come.  A path the pass has not
  reached is as it was seen; one it has passed is in agreement, or skipped, or was
  counted as failed.  It holds of every policy and direction, since keep-both
  writes a second path: `Sure` names the paths that only the pass's own turn at
  them changes.
- `NewestNeverGoesBack` (same module).  The step compares versions, the code
  compares times, and every transfer gives its copy a new time.  `HistInv` is what
  makes the one follow from the other while no write has met a pass: the versions
  and times of a path's file and row are bounded by the clock (`FileHist`,
  `RowHist`), one live row stands for a path, no pass under way has been disturbed
  (`Uncrossed`), and of a whole file and a whole, dated row the one the code takes
  for newer is so, or they are the same (`Fair`).
  TLC checked it on `engine_history`'s instance, and beyond with two syncers of one
  directory, before it was proved.
- `SyncRunnerProofs!RunsAreExclusive`, `RunningIsTheJobs`.  `RunInv` says that
  `OneRunPerPair` and `RunningIsExact` hold together with `JobsOK` (phases are
  phases, and `todo` is a function of the jobs).  Neither half is inductive without
  the other: `Enter` is safe because the set is exact, and the set stays exact when
  a job leaves because no other job has its id.
- `BadgeIsTrue`, assuming there are no "Sync now" requests: the same argument
  for the badge set, on top of `RunInv`.
- `WatchesAreKept`: the watch set, `armed` and `missed` change together in `Rearm`
  and `Restart` only.  What a rearm asks for is granted or passed over, and what it
  was refused stays in `missed` as long as a root above it is watched; for a root
  apart from all others the removal of one root's watch cannot touch it.
- `SyncConfigProofs!IdsAreUnique`, of the abstract store (`Store!Spec`): types and
  unique ids are inductive together, since `Remove` and `Update` need the ids of the
  rest of the list.
- `FilesAreTyped`, `IdsStayUniqueOnDisk` (same module), for any number of
  processes: each list on the disk or in a client comes from a list of which the
  same is true, by one of PairStore's operations, which keep it.
- `SavesAreAtomic`, `OneProcessImplementsStore` (same module), assuming
  `OneProcess`, which is what separates them from the finding `config_two_lost`.
  `Serial` says that the mutex lets one client at a time be between load and
  rename, that its copy is still an operation away from the file, and that the
  temporary file is no one else's.  The rename is then the abstract operation, and
  every other step, deaths included, a stutter.
- `UploadProofs!NothingIsGivenUp`, `NothingIsLost`.  `CameraInv` says of an
  upload in hand that its body is what the file holds while nobody has written the
  file (`calm`), and that nothing is about to be removed whose body is not in the
  gallery.  The removal is then safe although the other upload may remove the same
  file first.
- `HalvesAreNotSent` (same module).  The settle test compares two polls; the
  invariant `HalvesWait` says that a seen size is the present one only if nobody
  wrote the photo since the last tick, and that a photo waiting in the queue is
  whole, stalled, or not the first of its name, until its turn comes.
- `LedgerNeverLies`, `NoHoles` (same module).  `PoolInv` holds as long as no file
  was changed under the command: what is known or in the ledger is on the server,
  what is on the server is a file, and the parts a goroutine has sent are the first
  pieces of its file, as many as it counted.  A completed session is then the whole
  file because it has as many parts as the size read at the start.
- `SlotsAndTypes`, `EveryFileIsCounted` (same module).  They count: `Tally` says
  that the three counts and the running goroutines add up to the arguments begun,
  and that those not begun have no goroutine yet.  Cardinalities of the sets of
  goroutines carry the argument.
- `NothingIsSentTwice` (same module).  `OnceInv` says of a history without faults
  that what was sent is in the ledger or about to be recorded by its goroutine, that
  between two runs it is in the ledger's file, and that a body some goroutine has
  decided to send has not been sent.
- `SessionProofs!WhatIsStoredWasVerified`.  `SessionInv` relates every actor to the
  token it holds: an actor past `Verify` holds one that `/me` accepted, of the
  account and server it will write; and while no sign-in is between its two halves
  and none died there, the file and the keyring belong together.  The first half of
  the property needs only the first part; the second needs all of it, because a
  `Clear` takes the token away and then the file.
- `OnlyTheRejectedIsCleared`, `AWipeIsComplete` (same module).  `ClearInv` adds what
  a check knows while no sign-in has written since it began to load (`calm`): the
  file is the one it loaded or gone, the keyring entry holds its token or none, and
  the token it is about to clear was rejected; a rejected token stays rejected,
  and one that is not stored yet belongs to a single sign-in (`Fresh`).  For the wipe
  it says that a check which has passed `ClearToken` finds the entry of its server
  empty unless it was left (`past.left`), and nobody but a sign-in fills one; that the
  file could not be removed on the way changes nothing of this.
- `WebdavProofs!NobodyKeepsTheMutex`, `ReadOnlyChangesNothing`.  `BridgeInv` gives
  each request its shape (which phases go with which methods), says that a handler
  is in a phase that reads the listing exactly when it holds the mutex, and that no
  request of a read-only drive gets past the check of a method that changes
  something.  `BridgeSpec` is open: steps of others may change the account in any
  way, so the theorems hold beside any other client.
- `MountReportsTheTruth`, `ClientsSeeTheirWrites`, `BridgeIsTyped`,
  `NothingIsLostByTheDrive` (same module), on an account of well-typed rows
  (`BridgeSpec /\ []FilesTypeOK`): whoever else changes it, what is listed are rows.
  `MountInv` says what a request may claim in each phase (`Honest`: one that only
  has to invalidate has had its last change carried out, and a PUT whose body broke
  off can only end in an error), that a tree in force was listed after every
  change reported, while a change it has not seen is still to invalidate it
  (`Seen`), and that the maps lead to rows that were listed and with a folder to its
  parent: a folder that was found but whose parent was not is then a sign that
  another request dropped the snapshot (`SameChain`: a folder has one chain up to the
  root; `PathGoesOverParent`).  For the loss of bodies
  the outcomes of every call are gone through: the replacing upload takes a live body
  away and archives it, a removal puts it into the trash.  A MOVE onto itself is
  outside (`AsksAssumption`): the library refuses it without calling `Rename`.
- `FileCommandsProofs!TheTrailIsTrue`.  The conclusion compares the trail with the
  ids carried out; inductive is the balance kept meanwhile: of the ids tried, those
  not carried out are at most the failures the command has counted, and a command
  that does not go on after a failure has counted none while it runs.  `CommandsSpec`
  is open in the same way as `BridgeSpec`.
- `TornFilesAreExplained`, `OnlyTheTrashIsPurged`, `RowsAreChangedAsSeen` (same
  module), on an account of well-typed rows.  `LookInv` says what a command knows of
  the rows it looked at and of the file it writes, and for a file torn or unclosed
  which command left it.  For the last, `ReadInv` says
  that a row whose version is still the one the command read is the row it read;
  it needs that whoever changes a row raises its version (`RowsMoveOn`), which is
  the server's side of the version `UpdateFile` sends ("under optimistic
  concurrency", `files.go:121`) and not in the repository.
- `CommandsKeepTheAccount` and `WebdavProofs!BridgeKeepsTheAccount` discharge these
  hypotheses for the repository's own clients: the commands alone (`CommandsAlone`:
  no step but theirs) and the drive alone (`BridgeAlone`) keep the rows typed and
  move them on.  `FilesApiProofs` takes the operators of FilesApi in turn and shows
  each outcome `Sound`; of the drive it remains that what a request brings is
  content and names (`Carries`: the path a name is taken from is not the root's).
  `CommandsChangeWhatTheySee` and `TheDriveAlone` are the theorems above without
  hypotheses.
- `SyncRunnerProofs!RunnerIsTyped`.  A job that is not idle has a pair to work on:
  a fired timer's is one of the list, the loop's are those `Picked` takes out of
  it.  `Picked` is a recursive function over the list's places; that it is defined
  at each, and yields a sequence of the list's pairs, is shown by the least place
  at which that would fail.
- `FileCommandsProofs!CommandsAreTyped`, on an account of well-typed rows.
  `CountInv` counts: a command's place is within its ids or one past them, its
  failures are no more than the places behind it, the ids done for are its own.
  `ListsAssumption` says that a command is given at least one id, which is
  `cobra.MinimumNArgs(1)`.  Two of the facts it rests on are about data: that the
  ids of a listing can be put in order (`InOrderIs`), and that the path of a folder
  is no longer than there are folders (`FolderParts`).
- `UploadsLandWhereTheyLay` (same module), of a window of Explorer's menu.  Two
  hypotheses are more than types.  The folders are a tree when it starts: there is a
  depth that is smaller in the parent (`Rooted`); of folders in a cycle the code has
  no path.  And only this window changes the account (`VerbsAlone`): another
  client may rename what has just landed, and then it does not lie where it lay.
  `Uploading` says of every entry behind the walk that a file sent is found at its
  place below the chosen folder and a folder that was made leads there, so that the
  parents of the next entry are known; `WalkDir` comes to a folder before its
  contents (`ClicksAssumption`).  A lost answer makes a folder or a file twice, so
  there may be two at that place.  The lemmas say that an account that only gains
  rows keeps the paths it has (`PathsStay`), stays a tree (`GrownKeeps`), and that a
  path is its parent's with one name more (`PathsGrow`).
- `WebdavProofs!TogetherTheyKeepTheAccount`, `TogetherTheyKeepTheirPromises`.  In
  `Together` the commands, the requests of the drive and the windows of Explorer's
  menu interleave on one account.  Its invariant `AllInv` is the conjunction of
  theirs: a step of one is a step of somebody else to the others, whose invariants
  hold beside anybody who keeps the rows typed; and as all three hold, each step
  does keep them typed and moves them on.  So the theorems above that assume
  `[]FilesTypeOK` or `RowsMoveOn` hold of the three together with nothing assumed.
  For clients that are not modelled (the web app, another device) these two stay
  assumptions about the server.

Every safety invariant and action property of a passing run is stated by one of
these theorems.  Recursive definitions are recursive functions here (`Picked`,
`FolderParts`); what is needed of them for every input is shown by a least
counterexample, since the library's induction rules take an operator as a
parameter.  Model-checked only:

- Liveness (`Converges`, `ChangesAreCarried`), which is out of the prover's reach.

In WebdavBridge a path is read off the chain of folders from the root down
(`Chains`), which says the same as `FolderParts` of every folder the code resolves,
and nothing of those in a cycle, as the code.

## Findings

Five places where the code does something else than its comments say; each is a
run that expects the violation.

1. `sync.go:22` "keep whichever side is newer": a download cut short leaves a
   fragment with a fresh time, and the next pass uploads it over the intact
   newer remote file (`engine_cancelled`).  Writing to a temporary name and
   renaming would avoid it.
2. `sync.go:24` "leave both untouched": the pull loop overwrites a file created
   after the scan (`engine_skip_race`).
3. `syncconfig.go:129` "serialises read-modify-write across the CLI and the
   tray": the mutex is per process (`config_two_lost`).
4. `syncrunner.go:325` "the next tick or the next change will pick it up": a
   pair without an interval has no next tick (`runner_dropped`).

5. `webdavfs.go:271` "a move between directories": `Rename` drops the answer that
   the old parent is not there (`webdavfs.go:294`).  When another request's
   `invalidate` comes between its `snapshot` and that lookup, the old parent is
   taken for the root: a move to the root is then no move, and is answered as done
   (`mount_moved`).  Looking everything up in one snapshot would avoid it.

Met while modelling and not a run of their own:

- Sync.  The settings form moves a pair without the duplicate check `Add` makes;
  keep-both overwrites a file that already has the suffixed name; hidden remote
  names are downloaded on every pass; `README.md` names the directions of `files
  sync` `up` and `down` (line 297) where the flag takes `push` and `pull`; `sync
  set` stores an invalid direction before it complains about it.
- Drive.  A PUT whose body breaks off is uploaded as far as it came (the archived
  version keeps the old one); `Close` of a new file in a folder fails when the
  listing was just invalidated.
- Commands.  `Execute`'s comment (`cmd/root.go`) promises a start line, which is not
  written; `trash restore` and `trash rm` take an id that names a trashed file and a
  trashed folder for the file; `zip` removes a good file of the same name when it
  fails, and keeps an archive it could not close; the downloads of versions and of
  received shares leave torn files; `versions download` reports a file as downloaded
  whose `Close` failed (`files_versions.go:86`); two ids
  of one base name overwrite each other.
- Uploads.  A file that shrinks to a part boundary while it is sent gets zeros
  behind its end (`files_chunked.go:101` takes `io.EOF` for success).
- Camera.  A tick that waited behind a pass follows it at once, so that two settle
  tests see no time pass (the comment at `camera_windows.go:21-30` promises an
  interval between them); a name used again is not uploaded; a file replaced
  between its upload and its removal is removed unsent.
- Runner.  `rearm` "makes the watch set match" the list (`syncrunner.go:249`), but
  marks a root watched before it asks for the watches and drops every error: a root
  that was missing or unreadable when it came on the list is never watched later.
- Session.  A late 401 clears the session a new sign-in has just stored; a wipe
  keeps the keyring entries of other servers, although it "erases all local state"
  (`session.go:172`); an overlapping wipe or sign-in leaves an entry nothing will
  delete, and so does a keyring that refuses (`session.go:163`), while the command says
  "all local data was erased"; a failed save deletes the previous session's token; a lost poll answer
  leaves a live token that nobody holds, a repeated login request a second one.
- Preferences.  `deskprefs.go:183` "so two windows cannot lose each other's edit":
  `Update` loads before `Save` takes the mutex.  `main_windows.go:157` "no menu item
  is written from two places at once": the reload and the callbacks both write.

## What is not modelled

Sync: remote folders (`ensureFolder`, `scopeTo`); paths stand for them, so two
devices that create the same folder twice are not seen.  Clock skew.  Users'
programs that save by renaming during a download.  Watching directories created
later, roots nested in roots (the model contains them, no property covers them),
and `RunService`'s own watcher.  Preemption within one request.  In the engine an
upload is sent once, so a duplicate row comes only from two devices.  In
SyncConfig, failures of the file system; a failed write leaves what a crash leaves.

Client: what the server decides (quotas, permissions, name clashes beyond what the
client shows) is the choice to refuse.  Backoff, rate limits, decoding, encryption
metadata.  Byte ranges, LOCK and PROPPATCH of the drive, which the library answers
from memory; between the lookups of one method the snapshot does not change but
before `Rename`'s last;
of two folders of one path the map keeps any; the grace of
the shutdown is one choice, so that an upload it cuts leaves nothing.  `config.json`
is written atomically in the model: two processes share its temporary name as they
do that of `sync.json`, which SyncConfig shows.  Two-factor prompts, the
installation id, the device list.  Listings are taken to show live rows only.
The list of recent uploads that the Photos tab shows, which two goroutines write
without a lock, is not modelled.

Left out as components: certificate pins and preferences (a load, a change and a
save of one file, the shape of SyncConfig); log rotation; `tree.go`; desktop
integration (registry entries and calls of the operating system); rendering of
pages, menus and icons; argument parsing, output, wording and progress bars.

## Plan

The order in which the project was built; a change of the code is followed up in
the module named.

1. SyncEngine; PairStore as the abstract list and SyncConfig as the file that
   implements it; SyncRunner; their theorems.
2. FilesApi with the transport's at-least-once delivery; FileCommands, WebdavBridge
   and ContextVerbs on top of it; UploadPool, CameraUpload, Session; MCClient.
3. Theorems of the client: removal and marks of photos, stored credentials, ledger
   and assembled bodies, mutex and read-only drive, audit trail.
4. Theorems about whole passes, the refinement of the pair list, counts and single
   journeys of uploads, what the drive and the commands report and change.

Left for whoever continues: the two properties listed above as model-checked only,
`Converges` and `ChangesAreCarried`, for a prover with liveness; `RunService`'s
watcher; nested roots in SyncRunner.
