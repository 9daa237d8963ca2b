------------------------------ MODULE UploadPool ------------------------------
(***************************************************************************)
(* `files upload` and `gallery upload`: a pool of goroutines that hash,    *)
(* skip or send the files named on the command line, the ledger of what    *)
(* was sent before, and the chunked upload of a large file.  The ledger    *)
(* outlives the process; the pool may be killed and run again, answers may *)
(* be lost, and the files may change while they are read.                  *)
(*                                                                         *)
(* Each of the two commands has a ledger of its own (uploads-files.json,   *)
(* uploads-gallery.json) and stores into a collection of its own: they     *)
(* share nothing but the files, so a history is the runs of one of them,   *)
(* chosen at the start.                                                    *)
(*                                                                         *)
(* A body is a sequence of pieces, each as long as a part of a chunked     *)
(* upload; a hash is the body itself; a file that is gone is empty.        *)
(***************************************************************************)
EXTENDS Integers, FiniteSets, Sequences

CONSTANTS
  Args,            \* the files named on the command line, in order
  Bodies,          \* what they may contain
  Jobs, Batch,     \* --jobs and --batch
  Large,           \* chunkedUploadThreshold, in pieces
  MaxRuns, MaxEdits, MaxFailures   \* bounds: runs, edits, requests that fail

(* A path that is named twice stands for two files with the same contents. *)
ASSUME ArgsAssumption   == /\ Args \in Seq({Args[n] : n \in DOMAIN Args})
                           /\ \A m, n \in DOMAIN Args : Args[m] = Args[n] => m = n
ASSUME JobsAssumption   == Jobs \in Nat \ {0} /\ Batch \in Nat
ASSUME BodiesAssumption == \A b \in Bodies : b \in Seq({b[n] : n \in DOMAIN b})

VARIABLES
  local,           \* local[p]: the contents of the file p
  pool,            \* the command: its flags, what it knows, what it counted
  worker,          \* worker[p]: the goroutine of the file p
  ledger,          \* the set in memory, its dirty counter, the file
  store,           \* the server: bodies it accepted, parts of a chunk session
  luck             \* bounds: runs, edits and failures to come; history: whether
                   \* a file was edited, whether all went well, requests per body
poolVars == <<local, pool, worker, ledger, store, luck>>

Files   == {Args[n] : n \in DOMAIN Args}
Gone    == << >>
Zeros   == "zeros"
Fresh   == [phase |-> "none", sha |-> Gone, parts |-> 0, size |-> 0, out |-> "none"]
PoolInit ==
  /\ local \in [Files -> Bodies]
  /\ \E gallery \in BOOLEAN :
       pool = [phase |-> "off", gallery |-> gallery, force |-> FALSE, known |-> {},
               next |-> 1, ok |-> 0, skipped |-> 0, failed |-> 0]
  /\ worker = [p \in Files |-> Fresh]
  /\ ledger = [seen |-> {}, dirty |-> 0, disk |-> {}]
  /\ store = [bodies |-> {}, parts |-> [p \in Files |-> << >>]]
  /\ luck \in [runs : 0 .. MaxRuns, edits : 0 .. MaxEdits, failures : 0 .. MaxFailures,
               edited : {FALSE}, clean : {TRUE}, sent : {[b \in Bodies |-> 0]}]

Done1        == [Fresh EXCEPT !.phase = "over"]
Steps(p, w)  == worker' = [worker EXCEPT ![p] = w]
Counted(k)   == pool' = [pool EXCEPT ![k] = @ + 1]
Running      == {p \in Files : worker[p].phase \notin {"none", "over"}}
Failure      == luck.failures > 0
Failed(l)    == [l EXCEPT !.failures = IF @ > 0 THEN @ - 1 ELSE 0, !.clean = FALSE]

-----------------------------------------------------------------------------
(* The ledger.  Open reads the file unless it is another server's; Save    *)
(* writes it whole through a temporary file.                               *)
Opened(same)    == [ledger EXCEPT !.seen = IF same THEN ledger.disk ELSE {}, !.dirty = 0]
Has(sha)        == sha \in ledger.seen
Added(sha)      == [ledger EXCEPT !.seen = @ \cup {sha},
                                  !.dirty = @ + (IF Has(sha) THEN 0 ELSE 1)]
Saved1(l)       == [l EXCEPT !.disk = l.seen, !.dirty = 0]
Checkpointed(l) == IF Batch > 0 /\ l.dirty >= Batch THEN Saved1(l) ELSE l

(* A run begins: the ledger of the command is opened; `files upload` lists *)
(* the account unless --force, and goes on without when that fails.        *)
Begin(force, same) ==
  /\ pool.phase \in {"off", "over", "killed"} /\ luck.runs > 0
  /\ \E known \in {{}, store.bodies} :
       /\ (pool.gallery \/ force) => known = {}
       /\ pool' = [pool EXCEPT !.phase = "run", !.force = force, !.known = known,
                               !.next = 1, !.ok = 0, !.skipped = 0, !.failed = 0]
  /\ ledger' = Opened(same)
  /\ worker' = [p \in Files |-> Fresh]
  /\ luck' = [luck EXCEPT !.runs = @ - 1, !.clean = @ /\ ~force /\ same]
  /\ UNCHANGED <<local, store>>

(* A slot of the semaphore is free; the variant hands out one too many.    *)
OneMoreSlot == Cardinality(Running) <= Jobs
FreeSlot    == Cardinality(Running) < Jobs

(* The next file: `files upload` counts one that is gone as failed; a      *)
(* goroutine starts when one of the slots is free.                         *)
Spawn ==
  /\ pool.phase = "run" /\ pool.next <= Len(Args)
  /\ LET p == Args[pool.next]  missing == local[p] = Gone /\ ~pool.gallery IN
       /\ missing \/ FreeSlot
       /\ pool' = [pool EXCEPT !.next = @ + 1, !.failed = @ + (IF missing THEN 1 ELSE 0)]
       /\ Steps(p, [Fresh EXCEPT !.phase = IF missing THEN "over" ELSE "hash"])
  /\ UNCHANGED <<local, ledger, store, luck>>

Hash(p) ==
  /\ pool.phase = "run" /\ worker[p].phase = "hash"
  /\ Steps(p, [worker[p] EXCEPT !.phase = "check", !.sha = local[p]])
  /\ UNCHANGED <<local, pool, ledger, store, luck>>

(* A body the server or the ledger has is skipped.  The variant does not   *)
(* ask the ledger.                                                         *)
SkipsKnown(sha) == ~pool.force /\ sha # Gone /\ sha \in pool.known
Skips(sha) == ~pool.force /\ sha # Gone /\ (sha \in pool.known \/ Has(sha))
Check(p) ==
  LET w == worker[p] IN
  /\ pool.phase = "run" /\ w.phase = "check"
  /\ IF Skips(w.sha)
     THEN /\ Counted("skipped")
          /\ ledger' = IF pool.gallery THEN ledger ELSE Added(w.sha)
          /\ Steps(p, Done1)
     ELSE /\ Steps(p, [w EXCEPT !.phase =
                IF ~pool.gallery /\ Len(local[p]) > Large THEN "init" ELSE "send"])
          /\ UNCHANGED <<pool, ledger>>
  /\ UNCHANGED <<local, store, luck>>

-----------------------------------------------------------------------------
(* One multipart request with the body as it is now.  A request that fails *)
(* may have been carried out; one that is answered has been.               *)
Took(p, body) == [store EXCEPT !.bodies = @ \cup {body}, !.parts[p] = << >>]
Sent1(l, b)   == IF b \in Bodies THEN [l EXCEPT !.sent[b] = @ + 1] ELSE l
Upload(p, body, from) ==
  /\ pool.phase = "run" /\ worker[p].phase = from
  /\ \E ok, done \in BOOLEAN :
       /\ ok => done
       /\ ok \/ Failure \/ body = Gone
       /\ done => body # Gone
       /\ store' = IF done THEN Took(p, body) ELSE store
       /\ luck' = LET l == IF done THEN Sent1(luck, body) ELSE luck
                  IN  IF ok THEN l ELSE IF body = Gone THEN l ELSE Failed(l)
       /\ Steps(p, [worker[p] EXCEPT !.phase = "record", !.out = IF ok THEN "ok" ELSE "failed",
                                  !.parts = 0, !.size = 0])
  /\ UNCHANGED <<local, pool, ledger>>
Send(p) == Upload(p, local[p], "send")

(* UploadFileChunked: the size is read once; the parts go in order.  A     *)
(* part behind the end of a file that has shrunk is sent as zeros when the *)
(* read finds nothing there.  The variant goes on after a failed part.     *)
ChunkInit(p) ==
  LET w == worker[p] IN
  /\ pool.phase = "run" /\ w.phase = "init"
  /\ \/ /\ local[p] # Gone
        /\ Steps(p, [w EXCEPT !.phase = "part", !.size = Len(local[p]), !.parts = 0])
        /\ store' = [store EXCEPT !.parts[p] = << >>] /\ UNCHANGED luck
     \/ /\ Failure \/ local[p] = Gone
        /\ Steps(p, [w EXCEPT !.phase = "record", !.out = "failed"])
        /\ luck' = Failed(luck) /\ UNCHANGED store
  /\ UNCHANGED <<local, pool, ledger>>

Piece(p, n)   == IF n <= Len(local[p]) THEN local[p][n] ELSE Zeros
AfterPart(w)  == [w EXCEPT !.parts = @ + 1,
                           !.phase = IF w.parts + 1 = w.size THEN "complete" ELSE "part"]
PassesOn(w)   == AfterPart(w)
GivesUp(w)    == [w EXCEPT !.phase = "record", !.out = "failed"]
ChunkPart(p) ==
  LET w == worker[p]  n == w.parts + 1 IN
  /\ pool.phase = "run" /\ w.phase = "part"
  /\ \/ /\ store' = [store EXCEPT !.parts[p] = Append(@, Piece(p, n))]
        /\ Steps(p, AfterPart(w)) /\ UNCHANGED luck
     \/ /\ Failure
        /\ Steps(p, GivesUp(w))
        /\ store' = [store EXCEPT !.parts[p] = << >>]
        /\ luck' = Failed(luck)
  /\ UNCHANGED <<local, pool, ledger>>
ChunkComplete(p) == Upload(p, store.parts[p], "complete")

-----------------------------------------------------------------------------
(* The result, under the mutex of the pool.  The variant adds what failed. *)
RecordAny(p) ==
  LET w == worker[p] IN
  /\ pool.phase = "run" /\ w.phase = "record"
  /\ Counted(IF w.out = "ok" THEN "ok" ELSE "failed")
  /\ ledger' = IF w.sha # Gone THEN Checkpointed(Added(w.sha)) ELSE ledger
  /\ Steps(p, Done1)
  /\ UNCHANGED <<local, store, luck>>
Record(p) ==
  LET w == worker[p] IN
  /\ pool.phase = "run" /\ w.phase = "record"
  /\ Counted(IF w.out = "ok" THEN "ok" ELSE "failed")
  /\ ledger' = IF w.out = "ok" /\ w.sha # Gone THEN Checkpointed(Added(w.sha)) ELSE ledger
  /\ Steps(p, Done1)
  /\ UNCHANGED <<local, store, luck>>

(* All goroutines are done: the ledger is saved, or a warning is printed.  *)
(* The variant does not wait for them.                                     *)
AllStarted == pool.next > Len(Args)
AllDone    == pool.next > Len(Args) /\ Running = {}
Finish ==
  /\ pool.phase = "run" /\ AllDone
  /\ pool' = [pool EXCEPT !.phase = "over"]
  /\ \/ ledger' = Saved1(ledger) /\ UNCHANGED luck
     \/ Failure /\ luck' = Failed(luck) /\ UNCHANGED ledger
  /\ UNCHANGED <<local, worker, store>>

KillPool ==
  /\ pool.phase = "run"
  /\ pool' = [pool EXCEPT !.phase = "killed"]
  /\ worker' = [p \in Files |-> Fresh]
  /\ luck' = [luck EXCEPT !.clean = FALSE]
  /\ UNCHANGED <<local, ledger, store>>

(* Somebody writes, truncates or removes a file.                           *)
Edit(p) ==
  /\ luck.edits > 0
  /\ \E b \in Bodies \cup {Gone} : b # local[p] /\ local' = [local EXCEPT ![p] = b]
  /\ luck' = [luck EXCEPT !.edits = @ - 1, !.edited = TRUE, !.clean = FALSE]
  /\ UNCHANGED <<pool, worker, ledger, store>>

PoolNext ==
  \/ \E force, same \in BOOLEAN : Begin(force, same)
  \/ Spawn \/ Finish \/ KillPool
  \/ \E p \in Files : \/ Hash(p) \/ Check(p) \/ Send(p) \/ ChunkInit(p) \/ ChunkPart(p)
                      \/ ChunkComplete(p) \/ Record(p) \/ Edit(p)
PoolSpec == PoolInit /\ [][PoolNext]_poolVars

-----------------------------------------------------------------------------
PoolTypeOK ==
  /\ local \in [Files -> Bodies \cup {Gone}]
  /\ pool.next \in 1 .. Len(Args) + 1
  /\ ledger.seen \subseteq Bodies /\ ledger.disk \subseteq Bodies
  /\ ledger.dirty \in 0 .. Cardinality(ledger.seen)
  /\ \A p \in Files : worker[p].parts \in 0 .. worker[p].size
  /\ Cardinality(Running) <= Jobs

(* "Has reports whether sha was already uploaded": while no file is        *)
(* changed under the command, what the ledger holds, in memory and on the  *)
(* disk, the server has accepted, after failures, lost answers, kills and  *)
(* new runs too; a body in the ledger is never sent again.                 *)
LedgerIsTrue ==
  ~luck.edited => ledger.seen \cup ledger.disk \subseteq store.bodies

(* "so nothing is sent twice": without --force, a lost answer, a kill, a   *)
(* failed save, a change, or two equal files among the arguments, a body   *)
(* travels once with each of the two commands, however the goroutines      *)
(* interleave and in however many runs.  (Once as a file does not keep it  *)
(* from travelling as a photo.)                                            *)
Distinct  == \A p, q \in Files : p # q => local[p] # local[q]
SentOnce  == luck.clean /\ Distinct => \A b \in Bodies : luck.sent[b] <= 1

(* A body the server accepted, in one request or assembled from parts, is  *)
(* one of the files: a failed part never leaves a hole in a completed one, *)
(* nor does a part of an earlier session stay in it.                       *)
AssembledIsWhole ==
  ~luck.edited => store.bodies \subseteq {local[p] : p \in Files}

(* Every argument ends up in exactly one of the three counts.              *)
CountsAddUp ==
  pool.phase = "over" => pool.ok + pool.skipped + pool.failed = Len(Args)
=============================================================================
