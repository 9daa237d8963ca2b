------------------------------ MODULE SyncEngine ------------------------------
(***************************************************************************)
(* The file-sync engine of internal/files/sync.go: passes of files.Sync    *)
(* that reconcile local directories with the remote file tree.             *)
(*                                                                         *)
(* Any number of syncers (the `files sync` command, `sync run`, the tray's *)
(* runner, its "Sync now" button, the same programs on another machine)    *)
(* run passes over their directory.  A pass lists the remote tree, scans   *)
(* the directory, then walks the scanned paths and finally the paths that  *)
(* only the listing had.  Each call that leaves the process or touches the *)
(* disk is a step of its own, so users, other devices and other syncers    *)
(* interleave with a pass anywhere between two of them.                    *)
(*                                                                         *)
(* Data.  A file's bytes are the version a user wrote, named by the time   *)
(* of the write; -v is a fragment of v (a body that was cut short, down to *)
(* the empty file).  Paths are numbered in the order sort.Strings gives    *)
(* them.  One clock stamps every write on both sides: mtimes and the       *)
(* server's updated_at never disagree about the order of two writes.       *)
(***************************************************************************)
EXTENDS Integers, Sequences

CONSTANTS
  NumPaths,         \* number of slash paths below the sync root
  Hidden,           \* paths scanLocal leaves out: dot names and excluded names
  Alt,              \* Alt[p]: the path suffixName(p, "remote") gives, 0 if untracked
  Dir,              \* local directories (one per device)
  Syncer,           \* processes that run passes
  DirOf,            \* the directory of each syncer
  Options,          \* Options[s]: the SyncOptions its calls of files.Sync may give
  ServerOmits,      \* may a row lack sha256 or updated_at (both are nullable)?
  MaxEdits,         \* bound: writes and deletions by users and other clients
  MaxFaults,        \* bound: failed transfers, failed scans, cancellations, kills
  MaxClock          \* bound: no pass starts after this many writes

Path       == 1 .. NumPaths
Directions == {"both", "push", "pull"}
Policies   == {"newest", "keep-both", "skip"}
Option     == [direction : Directions, conflict : Policies]

ASSUME PathAssumption ==
  /\ NumPaths \in Nat
  /\ Hidden \subseteq Path
  /\ Alt \in [Path -> 0 .. NumPaths]
ASSUME SyncerAssumption ==
  /\ DirOf \in [Syncer -> Dir]
  /\ Options \in [Syncer -> SUBSET Option]
ASSUME BoundAssumption ==
  /\ ServerOmits \in BOOLEAN
  /\ MaxEdits \in Nat
  /\ MaxFaults \in Nat
  /\ MaxClock \in Nat

VARIABLES
  local,      \* local[d][p]: the file on disk
  rows,       \* the server's file rows; a row's id is its index
  clock,      \* time of the last write
  edits,      \* writes and deletions by users and other clients so far
  faults,     \* faults so far
  pc,         \* pc[s]: where the syncer's pass is
  opts,       \* opts[s]: the direction and the conflict policy of the pass
  cur,        \* cur[s]: the path the running loop has reached
  listed,     \* listed[s][p]: rm.fileByPath, the listing the pass works from
  scanned,    \* scanned[s][p]: the localEntry the scan saw
  fetch,      \* fetch[s]: the download in progress (pullTo), id 0 for none
  cancelled,  \* cancelled[s]: the pass's context is done
  res,        \* res[s]: the SyncResult counters
  quiet,      \* quiet[s]: nobody but s wrote since its pass began (history only)
  alone       \* no write by anyone else has ever met a pass (history only)

vars == <<local, rows, clock, edits, faults, pc, opts, cur, listed, scanned, fetch,
          cancelled, res, quiet, alone>>

Bytes     == Int
NoBytes   == 0
Cut(b)    == IF b > 0 THEN -b ELSE b       \* a body that ended early
Whole(b)  == b > 0

File    == [data : Bytes, mtime : Nat]
NoFile  == [data |-> NoBytes, mtime |-> 0]

NoStamp == 0                               \* updated_at absent or not parseable
Row     == [path : Path, data : Bytes, ts : Nat, sha : BOOLEAN, gone : BOOLEAN]
Entry   == [id : Nat, data : Bytes, ts : Nat, sha : BOOLEAN]
NoEntry == [id |-> 0, data |-> NoBytes, ts |-> NoStamp, sha |-> FALSE]

NoFetch == [id |-> 0, to |-> 0, data |-> NoBytes]
Counter == {"pushed", "pulled", "conflicts", "skipped", "failed"}
NoCount == [c \in Counter |-> 0]

(* Variant: pulling left out of the two-way direction.                     *)
PullOKOneWay(s) == opts[s].direction = "pull"
PushOK(s) == opts[s].direction \in {"both", "push"}
PullOK(s) == opts[s].direction \in {"both", "pull"}

-----------------------------------------------------------------------------
(* The server, from the calls the client makes on it: UploadFile adds a    *)
(* row, ReplaceFileContent rewrites one, DeleteFile trashes one.           *)

NewRow(p, b, t) ==
  [path |-> p, data |-> b, ts |-> t, sha |-> TRUE, gone |-> FALSE]

Uploaded(p, b, t) == Append(rows, NewRow(p, b, t))
Replaced(i, b, t) == [rows EXCEPT ![i].data = b, ![i].ts = t, ![i].sha = TRUE]

LiveRows(p) == {i \in DOMAIN rows : rows[i].path = p /\ ~rows[i].gone}

(* The row the model keeps for a path: of two rows with one path, the last *)
(* one listed replaces the other in the map.  Rows are listed by id.       *)
KeptFor(p, i) ==
  IF LiveRows(p) = {} THEN i = 0
  ELSE i \in LiveRows(p) /\ \A j \in LiveRows(p) : j <= i

EntryOf(i) ==
  IF i = 0 THEN NoEntry
  ELSE [id |-> i, data |-> rows[i].data, ts |-> rows[i].ts, sha |-> rows[i].sha]

-----------------------------------------------------------------------------
Init ==
  /\ local = [d \in Dir |-> [p \in Path |-> NoFile]]
  /\ rows = << >>
  /\ clock = 0 /\ edits = 0 /\ faults = 0
  /\ pc = [s \in Syncer |-> "idle"]
  /\ opts = [s \in Syncer |-> [direction |-> "both", conflict |-> "newest"]]
  /\ cur = [s \in Syncer |-> 1]
  /\ listed = [s \in Syncer |-> [p \in Path |-> NoEntry]]
  /\ scanned = [s \in Syncer |-> [p \in Path |-> NoFile]]
  /\ fetch = [s \in Syncer |-> NoFetch]
  /\ cancelled = [s \in Syncer |-> FALSE]
  /\ res = [s \in Syncer |-> NoCount]
  /\ quiet = [s \in Syncer |-> FALSE]
  /\ alone = TRUE

passVars == <<pc, opts, cur, listed, scanned, fetch, cancelled, res>>
InPass(s) == pc[s] \in {"listed", "push", "pull"}

-----------------------------------------------------------------------------
(* Users and other clients.                                                *)

MayEdit ==
  /\ edits < MaxEdits
  /\ edits' = edits + 1
  /\ clock' = clock + 1
  /\ quiet' = [s \in Syncer |-> FALSE]
  /\ alone' = (alone /\ \A s \in Syncer : ~InPass(s))
  /\ UNCHANGED <<faults, passVars>>

UserWrites(d, p) ==
  /\ MayEdit
  /\ local' = [local EXCEPT ![d][p] = [data |-> clock + 1, mtime |-> clock + 1]]
  /\ UNCHANGED rows

UserDeletes(d, p) ==
  /\ MayEdit
  /\ local[d][p] # NoFile
  /\ local' = [local EXCEPT ![d][p] = NoFile]
  /\ UNCHANGED rows

RemoteAdds(p) ==
  /\ MayEdit
  /\ LiveRows(p) = {}
  /\ \E sha \in {TRUE, ~ServerOmits},
        t \in {clock + 1} \cup (IF ServerOmits THEN {NoStamp} ELSE {}) :
       rows' = Append(rows, [NewRow(p, clock + 1, t) EXCEPT !.sha = sha])
  /\ UNCHANGED local

RemoteEdits(i) ==
  /\ MayEdit
  /\ ~rows[i].gone
  /\ rows' = Replaced(i, clock + 1, clock + 1)
  /\ UNCHANGED local

RemoteTrashes(i) ==
  /\ MayEdit
  /\ ~rows[i].gone
  /\ rows' = [rows EXCEPT ![i].gone = TRUE]
  /\ UNCHANGED local

-----------------------------------------------------------------------------
(* A pass: list, scan, push loop, pull loop.                               *)

Fault == faults < MaxFaults /\ faults' = faults + 1

Wrote(s) ==
  /\ quiet' = [t \in Syncer |-> quiet[t] /\ t = s]
  /\ alone' = (alone /\ \A t \in Syncer : t # s => ~InPass(t))
NoWrite  == UNCHANGED <<local, rows, clock, quiet, alone>>
Counts(s, c) == res' = [res EXCEPT ![s] = [k \in Counter |-> IF k \in c THEN @[k] + 1 ELSE @[k]]]
NextPath(s)  == cur' = [cur EXCEPT ![s] = @ + 1]

ListRemote(s) ==
  /\ pc[s] \in {"idle", "done"}
  /\ clock <= MaxClock
  /\ \E keep \in [Path -> 0 .. Len(rows)] :
       /\ \A p \in Path : KeptFor(p, keep[p])
       /\ listed' = [listed EXCEPT ![s] = [p \in Path |-> EntryOf(keep[p])]]
  /\ \E o \in Options[s] : opts' = [opts EXCEPT ![s] = o]
  /\ pc' = [pc EXCEPT ![s] = "listed"]
  /\ res' = [res EXCEPT ![s] = NoCount]
  /\ quiet' = [quiet EXCEPT ![s] = TRUE]
  /\ UNCHANGED <<local, rows, clock, edits, faults, cur, scanned, fetch, cancelled, alone>>

ScanLocal(s) ==
  /\ pc[s] = "listed"
  /\ scanned' = [scanned EXCEPT ![s] =
       [p \in Path |-> IF p \in Hidden THEN NoFile ELSE local[DirOf[s]][p]]]
  /\ pc' = [pc EXCEPT ![s] = "push"]
  /\ NoWrite
  /\ UNCHANGED <<edits, faults, cur, opts, listed, fetch, cancelled, res>>

(* The pass returns: its listing and scan go out of scope.                 *)
Return(s, at) ==
  /\ pc' = [pc EXCEPT ![s] = at]
  /\ cur' = [cur EXCEPT ![s] = 1]
  /\ listed' = [listed EXCEPT ![s] = [p \in Path |-> NoEntry]]
  /\ scanned' = [scanned EXCEPT ![s] = [p \in Path |-> NoFile]]
  /\ fetch' = [fetch EXCEPT ![s] = NoFetch]
  /\ cancelled' = [cancelled EXCEPT ![s] = FALSE]
  /\ UNCHANGED <<opts, res>>

At(s, loop) == pc[s] = loop /\ cur[s] \in Path /\ fetch[s] = NoFetch
Known(s)    == scanned[s][cur[s]] # NoFile
OnRemote(s) == listed[s][cur[s]].id # 0

(* Variants: an unknown remote sha256 taken for equal; mtime and           *)
(* updated_at compared the wrong way round.                                *)
SameIfUnknown(le, re) == re.sha => re.data = le.data
LocalOlder(le, re)    == re.ts = NoStamp \/ le.mtime < re.ts

SameContent(le, re) == re.sha /\ re.data = le.data
LocalNewer(le, re)  == re.ts = NoStamp \/ le.mtime > re.ts

(* The default branch of resolveConflict's switch; in the variant it also  *)
(* takes the skip policy.                                                  *)
NewestOrSkip(s) == opts[s].conflict # "keep-both"
Newest(s)       == opts[s].conflict = "newest"

Differs(s) ==
  /\ Known(s) /\ OnRemote(s)
  /\ ~SameContent(scanned[s][cur[s]], listed[s][cur[s]])

(* A path the push loop leaves alone: not scanned, identical on both       *)
(* sides, or new here while pushing is off.                                *)
LeaveAlone(s) ==
  /\ At(s, "push")
  /\ ~Differs(s)
  /\ Known(s) => OnRemote(s) \/ ~PushOK(s)
  /\ NextPath(s)
  /\ NoWrite
  /\ UNCHANGED <<edits, faults, pc, opts, listed, scanned, fetch, cancelled, res>>

(* An upload opens the file when it runs, not when it was scanned.  It may *)
(* fail before or after the server stored the body (the answer is lost).   *)
OnDisk(s) == local[DirOf[s]][cur[s]]
Sends(s, stored, counts) ==
  /\ \/ /\ ~cancelled[s] /\ OnDisk(s) # NoFile
        /\ rows' = stored
        /\ clock' = clock + 1
        /\ Wrote(s)
        /\ UNCHANGED local
        /\ \/ Counts(s, counts \cup {"pushed"}) /\ UNCHANGED faults
           \/ Fault /\ Counts(s, counts \cup {"failed"})
     \/ /\ \/ (cancelled[s] \/ OnDisk(s) = NoFile) /\ UNCHANGED faults
           \/ Fault
        /\ Counts(s, counts \cup {"failed"})
        /\ NoWrite
  /\ NextPath(s)
  /\ UNCHANGED <<edits, pc, opts, listed, scanned, fetch, cancelled>>

PushNew(s) ==
  /\ At(s, "push")
  /\ Known(s) /\ ~OnRemote(s) /\ PushOK(s)
  /\ Sends(s, Uploaded(cur[s], OnDisk(s).data, clock + 1), {})

(* resolveConflict, one action per policy and outcome.                     *)
ReplaceRemote(s) ==
  LET re == listed[s][cur[s]] IN
  /\ At(s, "push")
  /\ Differs(s) /\ Newest(s)
  /\ LocalNewer(scanned[s][cur[s]], re)
  /\ PushOK(s)
  /\ IF rows[re.id].gone
     THEN /\ Counts(s, {"conflicts", "failed"})
          /\ NextPath(s)
          /\ NoWrite
          /\ UNCHANGED <<edits, faults, pc, opts, listed, scanned, fetch, cancelled>>
     ELSE Sends(s, Replaced(re.id, OnDisk(s).data, clock + 1), {"conflicts"})

SkipConflict(s) ==
  LET newer == LocalNewer(scanned[s][cur[s]], listed[s][cur[s]]) IN
  /\ At(s, "push")
  /\ Differs(s)
  /\ \/ opts[s].conflict = "skip"
     \/ opts[s].conflict = "keep-both" /\ ~PullOK(s)
     \/ Newest(s) /\ newer /\ ~PushOK(s)
     \/ Newest(s) /\ ~newer /\ ~PullOK(s)
  /\ Counts(s, {"conflicts", "skipped"})
  /\ NextPath(s)
  /\ NoWrite
  /\ UNCHANGED <<edits, faults, pc, opts, listed, scanned, fetch, cancelled>>

(* pullTo, first half: os.Create truncates whatever is at the target, or   *)
(* the directory or the file cannot be created.                            *)
OpenTarget(s, to, counts) ==
  LET id == listed[s][cur[s]].id IN
  \/ /\ fetch' = [fetch EXCEPT ![s] = [id |-> id, to |-> to, data |-> rows[id].data]]
     /\ clock' = clock + 1
     /\ Wrote(s)
     /\ local' = IF to = 0 THEN local
                 ELSE [local EXCEPT ![DirOf[s]][to] =
                        [data |-> Cut(rows[id].data), mtime |-> clock + 1]]
     /\ Counts(s, counts)
     /\ UNCHANGED <<rows, edits, faults, pc, cur, opts, listed, scanned, cancelled>>
  \/ /\ Fault
     /\ Counts(s, counts \cup {"failed"})
     /\ NextPath(s)
     /\ NoWrite
     /\ UNCHANGED <<edits, pc, opts, listed, scanned, fetch, cancelled>>

(* Variant: a newer remote file pulled whatever the direction.             *)
PullNewerUngated(s) ==
  /\ At(s, "push")
  /\ Differs(s) /\ Newest(s)
  /\ ~LocalNewer(scanned[s][cur[s]], listed[s][cur[s]])
  /\ OpenTarget(s, cur[s], {"conflicts"})

PullNewer(s) ==
  /\ At(s, "push")
  /\ Differs(s) /\ Newest(s)
  /\ ~LocalNewer(scanned[s][cur[s]], listed[s][cur[s]])
  /\ PullOK(s)
  /\ OpenTarget(s, cur[s], {"conflicts"})

KeepBoth(s) ==
  /\ At(s, "push")
  /\ Differs(s) /\ opts[s].conflict = "keep-both"
  /\ PullOK(s)
  /\ OpenTarget(s, Alt[cur[s]], {"conflicts"})

RemoteOnly(s) == At(s, "pull") /\ ~Known(s) /\ OnRemote(s)

PullMissing(s) ==
  /\ RemoteOnly(s)
  /\ OpenTarget(s, cur[s], {})

(* Variant: the loop running one path too far.                             *)
PassOverBeyond(s) ==
  /\ pc[s] = "pull" /\ fetch[s] = NoFetch /\ ~RemoteOnly(s)
  /\ NextPath(s)
  /\ NoWrite
  /\ UNCHANGED <<edits, faults, pc, opts, listed, scanned, fetch, cancelled, res>>

PassOver(s) ==
  /\ At(s, "pull") /\ ~RemoteOnly(s)
  /\ NextPath(s)
  /\ NoWrite
  /\ UNCHANGED <<edits, faults, pc, opts, listed, scanned, fetch, cancelled, res>>

(* pullTo, second half: the body arrives, as it was when the request was   *)
(* answered, or the file stays as it is.  A file deleted meanwhile is      *)
(* written without a name and stays deleted.                               *)
FetchDone(s) ==
  LET f == fetch[s]
      d == DirOf[s] IN
  /\ f # NoFetch
  /\ ~cancelled[s] /\ ~rows[f.id].gone
  /\ \E body \in {f.data, rows[f.id].data} :
       local' = IF f.to = 0 \/ local[d][f.to] = NoFile THEN local
                ELSE [local EXCEPT ![d][f.to] =
                       [data |-> body, mtime |-> clock + 1]]
  /\ clock' = clock + 1
  /\ Wrote(s)
  /\ Counts(s, IF f.to = cur[s] THEN {"pulled"} ELSE {})
  /\ fetch' = [fetch EXCEPT ![s] = NoFetch]
  /\ NextPath(s)
  /\ UNCHANGED <<rows, edits, faults, pc, opts, listed, scanned, cancelled>>

(* Variant: a failed download removed from disk, whatever was there.       *)
FetchFailsRemoves(s) ==
  /\ fetch[s] # NoFetch /\ fetch[s].to # 0
  /\ cancelled[s] \/ rows[fetch[s].id].gone
  /\ local' = [local EXCEPT ![DirOf[s]][fetch[s].to] = NoFile]
  /\ Counts(s, {"failed"})
  /\ fetch' = [fetch EXCEPT ![s] = NoFetch]
  /\ NextPath(s)
  /\ UNCHANGED <<rows, clock, quiet, alone, edits, faults, pc, opts, listed, scanned, cancelled>>

FetchFails(s) ==
  /\ fetch[s] # NoFetch
  /\ \/ (cancelled[s] \/ rows[fetch[s].id].gone) /\ UNCHANGED faults
     \/ Fault
  /\ Counts(s, {"failed"})
  /\ fetch' = [fetch EXCEPT ![s] = NoFetch]
  /\ NextPath(s)
  /\ NoWrite
  /\ UNCHANGED <<edits, pc, opts, listed, scanned, cancelled>>

PushLoopEnds(s) ==
  /\ pc[s] = "push" /\ cur[s] = NumPaths + 1
  /\ IF PullOK(s)
     THEN /\ pc' = [pc EXCEPT ![s] = "pull"]
          /\ cur' = [cur EXCEPT ![s] = 1]
          /\ UNCHANGED <<opts, listed, scanned, fetch, cancelled, res>>
     ELSE Return(s, "done")
  /\ NoWrite
  /\ UNCHANGED <<edits, faults>>

PullLoopEnds(s) ==
  /\ pc[s] = "pull" /\ cur[s] = NumPaths + 1
  /\ Return(s, "done")
  /\ NoWrite
  /\ UNCHANGED <<edits, faults>>

(* A file vanishes or cannot be read during the walk: scanLocal returns    *)
(* the error and the pass ends without having changed anything.            *)
ScanFails(s) ==
  /\ pc[s] = "listed"
  /\ Fault
  /\ Return(s, "idle")
  /\ NoWrite
  /\ UNCHANGED edits

(* The context ends (Ctrl-C, quitting, the tray's 30-minute limit).  The   *)
(* loops do not look at it: they go on, and every later call fails.        *)
Cancel(s) ==
  /\ pc[s] \in {"push", "pull"} /\ ~cancelled[s]
  /\ Fault
  /\ cancelled' = [cancelled EXCEPT ![s] = TRUE]
  /\ NoWrite
  /\ UNCHANGED <<edits, pc, cur, opts, listed, scanned, fetch, res>>

(* The process dies; a download in progress stays cut short.               *)
Killed(s) ==
  /\ InPass(s)
  /\ Fault
  /\ Return(s, "idle")
  /\ NoWrite
  /\ UNCHANGED edits

-----------------------------------------------------------------------------
Edit ==
  \/ \E d \in Dir, p \in Path : UserWrites(d, p) \/ UserDeletes(d, p)
  \/ \E p \in Path : RemoteAdds(p)
  \/ \E i \in DOMAIN rows : RemoteEdits(i) \/ RemoteTrashes(i)

Work(s) ==
  \/ ListRemote(s) \/ ScanLocal(s)
  \/ LeaveAlone(s) \/ PushNew(s) \/ ReplaceRemote(s) \/ SkipConflict(s)
  \/ PullNewer(s) \/ KeepBoth(s) \/ PushLoopEnds(s)
  \/ PassOver(s) \/ PullMissing(s) \/ PullLoopEnds(s)
  \/ FetchDone(s) \/ FetchFails(s)

Mishap(s) == ScanFails(s) \/ Cancel(s) \/ Killed(s)

Next == Edit \/ \E s \in Syncer : Work(s) \/ Mishap(s)

(* The interval tick of RunService and of the runner starts another pass,  *)
(* and a pass that is running goes on.  Nothing makes users write, or      *)
(* transfers fail.                                                         *)
Fairness == \A s \in Syncer : WF_vars(Work(s))

Spec     == Init /\ [][Next]_vars
FairSpec == Spec /\ Fairness

-----------------------------------------------------------------------------
(* Properties.                                                             *)

(* Types: every variable stays in the set its Go counterpart ranges over,  *)
(* and every row id a pass holds names a row the server has.               *)
RowIds == 1 .. Len(rows)
PassTypeOK(s) ==
  /\ listed[s] \in [Path -> Entry]
  /\ \A p \in Path : listed[s][p].id \in {0} \cup RowIds
  /\ scanned[s] \in [Path -> File]
  /\ fetch[s] \in [id : {0} \cup RowIds, to : 0 .. NumPaths, data : Bytes]
TypeOK ==
  /\ local \in [Dir -> [Path -> File]]
  /\ rows \in Seq(Row)
  /\ clock \in Nat /\ edits \in 0 .. MaxEdits /\ faults \in 0 .. MaxFaults
  /\ pc \in [Syncer -> {"idle", "listed", "push", "pull", "done"}]
  /\ opts \in [Syncer -> Option]
  /\ cur \in [Syncer -> 1 .. NumPaths + 1]
  /\ DOMAIN listed = Syncer /\ DOMAIN scanned = Syncer /\ DOMAIN fetch = Syncer
  /\ \A s \in Syncer : PassTypeOK(s)
  /\ cancelled \in [Syncer -> BOOLEAN]
  /\ res \in [Syncer -> [Counter -> Nat]]
  /\ quiet \in [Syncer -> BOOLEAN] /\ alone \in BOOLEAN

(* A step of syncer s, as opposed to one of a user, a client or another    *)
(* syncer.                                                                 *)
StepOf(s) ==
  /\ edits' = edits
  /\ <<pc[s], cur[s], fetch[s]>>' # <<pc[s], cur[s], fetch[s]>>

(* "It never deletes on either side" (Sync's comment): no step of a pass,  *)
(* whatever fails or interleaves, makes a local path or a row disappear.   *)
NeverDeletes ==
  [][\A s \in Syncer : StepOf(s) =>
       /\ \A d \in Dir, p \in Path : local[d][p] # NoFile => local'[d][p] # NoFile
       /\ \A i \in DOMAIN rows :
            i \in DOMAIN rows' /\ (rows'[i].gone => rows[i].gone)]_vars

(* "Direction gates which half of the sync runs": a push-only pass writes  *)
(* no local file, a pull-only pass changes nothing on the server, through  *)
(* the two loops and through every outcome of resolveConflict.             *)
DirectionRespected ==
  [][\A s \in Syncer : StepOf(s) =>
       /\ opts[s].direction = "push" => local' = local
       /\ opts[s].direction = "pull" => rows' = rows]_vars

(* What conflict policies promise.  A pass may change neither side under   *)
(* "skip" ...                                                              *)
SkipsStep(s, p) ==
  opts[s].conflict = "skip" =>
    /\ LET was == local[DirOf[s]][p].data IN
       Whole(was) => local'[DirOf[s]][p].data = was
    /\ \A i \in DOMAIN rows : rows[i].path = p => rows'[i].data = rows[i].data

(* ... and under "newest" it writes over a file or a row only with         *)
(* something a user wrote later.                                           *)
Age(b) == IF b < 0 THEN -b ELSE b
NewestStep(s, p) ==
  opts[s].conflict = "newest" =>
    /\ LET was == local[DirOf[s]][p].data
           is  == local'[DirOf[s]][p].data IN
       Whole(was) /\ is # was => Age(is) > was
    /\ \A i \in DOMAIN rows :
         rows[i].path = p /\ Whole(rows[i].data) /\ rows'[i].data # rows[i].data
           => rows'[i].data > rows[i].data

(* ConflictNewest, "keep whichever side is newer", over any sequence of    *)
(* edits, faults and passes of any options, for a visible path that is not *)
(* another one's suffixed name, as long as one device syncs and no pass    *)
(* has met a write of another: a pass that saw whole files and stamped     *)
(* rows replaces nothing by an older version, although every transfer      *)
(* gives its copy a new time.  (Of two devices the one that uploads last   *)
(* counts as newer, whenever its user wrote.)                              *)
Suffixed  == {Alt[p] : p \in Path}
OneDevice == \A s, t \in Syncer : DirOf[s] = DirOf[t]
SawWhole(s, p) ==
  /\ scanned[s][p].data >= 0 /\ listed[s][p].data >= 0
  /\ listed[s][p].id # 0 => listed[s][p].ts # NoStamp
NewestKeepsNewerAlone ==
  [][OneDevice /\ alone => \A s \in Syncer, p \in Path \ (Hidden \cup Suffixed) :
       StepOf(s) /\ SawWhole(s, p) => NewestStep(s, p)]_vars

(* The same of every pass, also of one that meets what a failed download   *)
(* left behind.                                                            *)
NewestKeepsNewer ==
  [][OneDevice /\ alone => \A s \in Syncer, p \in Path \ (Hidden \cup Suffixed) :
       StepOf(s) => NewestStep(s, p)]_vars

(* "leave both untouched", taken at its word.                              *)
SkipLeavesBothUntouched ==
  [][\A s \in Syncer, p \in Path : StepOf(s) => SkipsStep(s, p)]_vars

(* ConflictSkip, "leave both untouched", on visible paths for a pass that  *)
(* nobody disturbs, whatever fails in it or before it.                     *)
SkipLeavesBothAlone ==
  [][\A s \in Syncer, p \in Path \ Hidden :
       StepOf(s) /\ quiet[s] => SkipsStep(s, p)]_vars

(* What a directory and the remote tree agree on: every visible path holds *)
(* the bytes of the row that stands for it, and is absent when none does.  *)
AgreeOn(d, p) ==
  \A i \in 0 .. Len(rows) : KeptFor(p, i) =>
    /\ i # 0 => local[d][p].data = rows[i].data
    /\ i = 0 /\ p \notin Hidden => local[d][p] = NoFile
InSync(d) == \A p \in Path : AgreeOn(d, p)

(* A two-way pass under the newest policy that reports no failure, and     *)
(* that nobody disturbed, has reconciled the directory completely.         *)
CleanPassSyncs ==
  \A s \in Syncer :
    /\ pc[s] = "done" /\ quiet[s] /\ res[s].failed = 0
    /\ opts[s].direction = "both" /\ opts[s].conflict = "newest"
    => InSync(DirOf[s])

(* Once people stop writing, transfers stop failing and every directory    *)
(* keeps being synced, all directories and the server become and stay      *)
(* identical: the passes of different devices do not undo one another.     *)
Converges == <>[](\A d \in Dir : InSync(d))
=============================================================================
