------------------------------ MODULE SyncRunner ------------------------------
(***************************************************************************)
(* internal/syncrunner: the loop of the tray and of `sync service` that    *)
(* syncs the configured pairs on their interval and when a watched         *)
(* directory changes, together with the "Sync now" requests of the         *)
(* settings window, which bypass it.                                       *)
(*                                                                         *)
(* The loop's goroutine runs the pairs that are due one after the other; a *)
(* debounce timer that fires runs its pair on a goroutine of its own; a    *)
(* request runs on the window's.  Each of them is a job: it works through  *)
(* copies of pairs it read from the list, which is edited meanwhile.       *)
(*                                                                         *)
(* A sync itself is two moments: it scans the directory, and it ends.      *)
(***************************************************************************)
EXTENDS Integers, Sequences

CONSTANTS
  Local, Remote, MaxPairs,    \* as in PairStore; a local root is a directory
  Inside,       \* Inside[d]: the directories in the tree below d, d included
  Timer,        \* goroutines of fired debounce timers
  Manual,       \* "Sync now" requests
  Configured,   \* the lists the runner may find when it first starts
  MaxEdits,     \* bound: edits of the pair list
  MaxChanges,   \* bound: changes of local files
  MaxHolds,     \* bound: times the policy or the session changes
  MaxFails,     \* bound: syncs that fail, as a whole or on some files
  MaxRefusals,  \* bound: times a working watcher refuses watches
  MaxRestarts   \* bound: times the process ends and is started again

VARIABLES
  pairs,      \* the list in sync.json
  watcher,    \* there is an fsnotify watcher: creating it did not fail
  watched,    \* r.watched: the id a watched root belongs to, 0 if not watched
  armed,      \* directories the fsnotify watcher has a watch on
  missed,     \* history: directories of watched roots that rearm got no watch for
  pending,    \* directories with an event in the watcher's channel
  timers,     \* ids whose debounce timer is running
  running,    \* r.running
  loop,       \* where Run is: before rearm, before the first runDue, in select
  at,         \* at[j]: where the job is
  todo,       \* todo[j]: the pair copies it still has, the current one first
  marked,     \* the tray's own set of running pairs
  held,       \* the policy says no, or nobody is signed in
  unsynced,   \* <<local, remote>>: changed locally, not yet scanned for remote
  edits, changes, holds, fails, refusals, restarts

vars == <<pairs, watcher, watched, armed, missed, pending, timers, running, loop,
          at, todo, marked, held, unsynced, edits, changes, holds, fails, refusals,
          restarts>>

counts    == <<edits, changes, holds, fails, refusals, restarts>>
armVars   == <<watcher, watched, armed, missed>>
watchVars == <<armVars, pending>>
jobVars   == <<running, at, todo, marked>>

Store == INSTANCE PairStore

Loop   == "loop"
Runner == {Loop} \cup Timer
Job    == Runner \cup Manual
Phase  == {"idle", "ready", "entered", "marked", "syncing", "recorded", "reported"}
Ids    == 1 .. MaxPairs

ASSUME TreeAssumption ==
  /\ Inside \in [Local -> SUBSET Local]
  /\ \A d \in Local : d \in Inside[d]
ASSUME JobAssumption == Loop \notin Timer /\ Manual \cap Runner = {}
ASSUME ListAssumption ==
  /\ MaxPairs \in Nat
  /\ \A f \in Configured : f \in Seq(Store!Pair) /\ Store!UsedIds(f) \subseteq Ids

Id(j)    == Head(todo[j]).id
Where(p) == <<p.local, p.remote>>

(* What a pass over the list picks out: copies of the pairs at these       *)
(* places, in the list's order.                                            *)
Picked(places) ==
  LET upTo[n \in 0 .. Len(pairs)] ==
        IF n = 0 THEN << >>
        ELSE IF n \in places THEN Append(upTo[n - 1], pairs[n]) ELSE upTo[n - 1]
  IN  upTo[Len(pairs)]

-----------------------------------------------------------------------------
Unwatched == [d \in Local |-> 0]
AllIdle   == [j \in Job |-> "idle"]
NoWork    == [j \in Job |-> << >>]

(* Run's NewWatcher may fail: it is logged, and the runner lives on its    *)
(* intervals.  A process starts with no watches and no history of them.    *)
Init ==
  /\ pairs \in Configured
  /\ watcher \in BOOLEAN
  /\ watched = Unwatched /\ armed = {} /\ missed = {} /\ pending = {} /\ timers = {}
  /\ loop = "start"
  /\ running = {} /\ marked = {} /\ at = AllIdle /\ todo = NoWork
  /\ held \in BOOLEAN
  /\ unsynced = {}
  /\ edits = 0 /\ changes = 0 /\ holds = 0 /\ fails = 0 /\ refusals = 0 /\ restarts = 0

-----------------------------------------------------------------------------
(* The surroundings.                                                       *)

EditPairs ==
  /\ edits < MaxEdits /\ edits' = edits + 1
  /\ pairs' \in Store!Adds(pairs) \cup Store!Removes(pairs) \cup Store!Sets(pairs)
                \cup Store!Forms(pairs)
  /\ pairs' # pairs
  /\ UNCHANGED <<watchVars, timers, loop, jobVars, held, unsynced, changes, holds,
                 fails, refusals, restarts>>

(* Somebody changes a file in directory d: every root above d has a change *)
(* to carry, and the watcher reports it if it watches d.                   *)
LocalChange(d) ==
  /\ changes < MaxChanges /\ changes' = changes + 1
  /\ unsynced' = unsynced \cup {l \in Local : d \in Inside[l]} \X Remote
  /\ pending' = IF d \in armed THEN pending \cup {d} ELSE pending
  /\ UNCHANGED <<pairs, armVars, timers, loop, jobVars, held, edits, holds, fails,
                 refusals, restarts>>

(* Pause, battery, metered connection, signing out, and back.              *)
HoldChanges ==
  /\ holds < MaxHolds /\ holds' = holds + 1
  /\ held' = ~held
  /\ UNCHANGED <<pairs, watchVars, timers, loop, jobVars, unsynced, edits, changes,
                 fails, refusals, restarts>>

IntervalElapses(i) ==
  /\ pairs[i].last = "recent"
  /\ pairs' = [pairs EXCEPT ![i].last = "overdue"]
  /\ UNCHANGED <<watchVars, timers, loop, jobVars, held, unsynced, counts>>

(* The process ends, by quitting or dying, and is started again.           *)
Restart ==
  /\ restarts < MaxRestarts /\ restarts' = restarts + 1
  /\ loop # "start"
  /\ watcher' \in BOOLEAN
  /\ watched' = Unwatched /\ armed' = {} /\ missed' = {} /\ pending' = {}
  /\ timers' = {}
  /\ loop' = "start"
  /\ running' = {} /\ marked' = {} /\ at' = AllIdle /\ todo' = NoWork
  /\ UNCHANGED <<pairs, held, unsynced, edits, changes, holds, fails, refusals>>

-----------------------------------------------------------------------------
(* The loop.                                                               *)

(* Run is at one of these places, and not inside a runPair.                *)
RunIsAt(places) == at[Loop] = "idle" /\ loop \in places

(* rearm's wanted map: a root of two pairs goes to the last one listed.    *)
Watches(i, d) == pairs[i].enabled /\ pairs[i].watch /\ pairs[i].local = d
WantedId(d, id) ==
  \/ id = 0 /\ ~\E i \in DOMAIN pairs : Watches(i, d)
  \/ \E i \in DOMAIN pairs :
       /\ Watches(i, d) /\ pairs[i].id = id
       /\ \A k \in i + 1 .. Len(pairs) : ~Watches(k, d)

(* addTree walks a new root's tree and asks for a watch on each directory; *)
(* what it cannot read, or is refused, it passes over without a word.      *)
(* Without a watcher every directory is passed over.                       *)
Removed(want) == {d \in Local : watched[d] # 0 /\ want[d] = 0}
Below(want)   == UNION {Inside[d] : d \in {d \in Local : want[d] # 0}}
Added(want)   == UNION {Inside[d] : d \in {d \in Local : want[d] # 0 /\ watched[d] = 0}}
PassedOver(want, refused) ==
  IF watcher THEN /\ refused \subseteq Added(want)
                  /\ refusals' = IF refused = {} THEN refusals ELSE refusals + 1
                  /\ refusals' <= MaxRefusals
             ELSE refused = Added(want) /\ refusals' = refusals

(* Only the root of a tree is removed.  The variant forgets to arm.        *)
ArmedForgotten(want, refused) == armed \ Removed(want)
ArmedAfter(want, refused) == (armed \ Removed(want)) \cup (Added(want) \ refused)

(* The roots are marked watched first, whatever becomes of their watches:  *)
(* the next rearm finds nothing new and does not try again.                *)
Rearm ==
  /\ RunIsAt({"start", "select"})
  /\ \E want \in [Local -> 0 .. MaxPairs], refused \in SUBSET Local :
       /\ \A d \in Local : WantedId(d, want[d])
       /\ PassedOver(want, refused)
       /\ watched' = want
       /\ armed' = ArmedAfter(want, refused)
       /\ missed' = Below(want) \cap ((missed \cup refused) \ armed')
  /\ loop' = IF loop = "start" THEN "first" ELSE loop
  /\ UNCHANGED <<pairs, watcher, pending, timers, jobVars, held, unsynced, edits,
                 changes, holds, fails, restarts>>

(* runDue, up to its loop: which pairs are due is settled here.            *)
Due(p) == Store!Due(p)
RunDue ==
  /\ RunIsAt({"first", "select"})
  /\ loop' = "select"
  /\ LET due == Picked({i \in DOMAIN pairs : Due(pairs[i])}) IN
       /\ todo' = [todo EXCEPT ![Loop] = due]
       /\ at' = [at EXCEPT ![Loop] = IF due = << >> THEN "idle" ELSE "ready"]
  /\ UNCHANGED <<pairs, watchVars, timers, running, marked, held, unsynced, counts>>

(* onEvent with pairFor: the longest watched root that holds d is the one  *)
(* inside all the others.                                                  *)
Holds(r, d)  == watched[r] # 0 /\ d \in Inside[r]
PairFor(d)   == {watched[r] : r \in {r \in Local :
                   Holds(r, d) /\ \A q \in Local : Holds(q, d) => r \in Inside[q]}}
OnEvent(d) ==
  /\ RunIsAt({"select"})
  /\ d \in pending
  /\ pending' = pending \ {d}
  /\ timers' = timers \cup PairFor(d)
  /\ UNCHANGED <<pairs, armVars, loop, jobVars, held, unsynced, counts>>

-----------------------------------------------------------------------------
(* Jobs.                                                                   *)

JobAt(j, phase)  == at' = [at EXCEPT ![j] = phase]

(* The next pair of the job's list; the variant goes one too far.          *)
NextPairTooFar(j) ==
  /\ todo' = [todo EXCEPT ![j] = Tail(@)]
  /\ JobAt(j, "ready")
NextPair(j) ==
  /\ todo' = [todo EXCEPT ![j] = Tail(@)]
  /\ JobAt(j, IF Len(todo[j]) > 1 THEN "ready" ELSE "idle")

(* The timer's function: nothing happens when the pair is gone, disabled   *)
(* or held, and nobody remembers that there was a change.                  *)
Starts(id) == {k \in Store!Found(pairs) : pairs[k].id = id /\ pairs[k].enabled /\ ~held}
TimerFires(j, id) ==
  /\ id \in timers
  /\ timers' = timers \ {id}
  /\ at[j] = "idle"
  /\ \/ \E k \in Starts(id) :
          /\ todo' = [todo EXCEPT ![j] = <<pairs[k]>>]
          /\ JobAt(j, "ready")
     \/ Starts(id) = {} /\ UNCHANGED <<at, todo>>
  /\ UNCHANGED <<pairs, watchVars, running, loop, marked, held, unsynced, counts>>

(* runPair.  Variants: the running set is filled but not looked at; the    *)
(* tray is told about a run that client and policy have not allowed yet.   *)
EnterAnyway(j) ==
  /\ at[j] = "ready"
  /\ running' = running \cup {Id(j)}
  /\ JobAt(j, "entered")
  /\ UNCHANGED <<pairs, watchVars, timers, loop, todo, marked, held, unsynced, counts>>
EnterMarking(j) ==
  /\ at[j] = "ready" /\ Id(j) \notin running
  /\ running' = running \cup {Id(j)}
  /\ marked' = marked \cup {Id(j)}
  /\ JobAt(j, "entered")
  /\ UNCHANGED <<pairs, watchVars, timers, loop, todo, held, unsynced, counts>>
Enter(j) ==
  /\ at[j] = "ready" /\ Id(j) \notin running
  /\ running' = running \cup {Id(j)}
  /\ JobAt(j, "entered")
  /\ UNCHANGED <<pairs, watchVars, timers, loop, todo, marked, held, unsynced, counts>>

AlreadyRunning(j) ==
  /\ at[j] = "ready" /\ Id(j) \in running
  /\ NextPair(j)
  /\ UNCHANGED <<pairs, watchVars, timers, loop, running, marked, held, unsynced, counts>>

StandDown(j) ==
  /\ at[j] = "entered" /\ held
  /\ JobAt(j, "reported")
  /\ UNCHANGED <<pairs, watchVars, timers, loop, running, todo, marked, held, unsynced, counts>>

OnStart(j) ==
  /\ at[j] = "entered" /\ ~held
  /\ marked' = marked \cup {Id(j)}
  /\ JobAt(j, "marked")
  /\ UNCHANGED <<pairs, watchVars, timers, loop, running, todo, held, unsynced, counts>>

SyncScans(j) ==
  /\ at[j] = "marked"
  /\ unsynced' = unsynced \ {Where(Head(todo[j]))}
  /\ JobAt(j, "syncing")
  /\ UNCHANGED <<pairs, watchVars, timers, loop, running, todo, marked, held, counts>>

(* RecordRun for the id the job's copy has.  A sync that ends in an error, *)
(* or that failed on single files, which is no error, has not carried what *)
(* it scanned.                                                             *)
Recorded(j, failed) ==
  \/ \E k \in Store!Found(pairs) :
       pairs[k].id = Id(j) /\ pairs' = Store!RecordRun(pairs, k, failed)
  \/ Id(j) \notin Store!UsedIds(pairs) /\ UNCHANGED pairs
SyncEnds(j) ==
  /\ \/ Recorded(j, FALSE) /\ UNCHANGED <<unsynced, fails>>
     \/ /\ fails < MaxFails /\ fails' = fails + 1
        /\ \E failed \in BOOLEAN : Recorded(j, failed)
        /\ unsynced' = unsynced \cup {Where(Head(todo[j]))}
  /\ UNCHANGED <<watchVars, timers, loop, running, held, edits, changes, holds, refusals,
                 restarts>>

RecordRun(j) ==
  /\ at[j] = "syncing"
  /\ SyncEnds(j)
  /\ JobAt(j, "recorded")
  /\ UNCHANGED <<todo, marked>>

OnResult(j) ==
  /\ at[j] = "recorded"
  /\ marked' = marked \ {Id(j)}
  /\ JobAt(j, "reported")
  /\ UNCHANGED <<pairs, watchVars, timers, loop, running, todo, held, unsynced, counts>>

(* The deferred delete.  Variant: forgotten.                               *)
LeaveRunning(j) ==
  /\ at[j] = "reported"
  /\ NextPair(j)
  /\ UNCHANGED <<pairs, watchVars, timers, loop, running, marked, held, unsynced, counts>>
Leave(j) ==
  /\ at[j] = "reported"
  /\ running' = running \ {Id(j)}
  /\ NextPair(j)
  /\ UNCHANGED <<pairs, watchVars, timers, loop, marked, held, unsynced, counts>>

(* "Sync now": every enabled pair, or one pair, enabled or not; syncPairs  *)
(* asks neither the running set nor the policy.                            *)
Enabled == {i \in DOMAIN pairs : pairs[i].enabled}
Request(m) ==
  /\ at[m] = "idle"
  /\ \E list \in {Picked(Enabled)} \cup {<<pairs[k]>> : k \in DOMAIN pairs} :
       /\ list # << >>
       /\ todo' = [todo EXCEPT ![m] = list]
  /\ JobAt(m, "ready")
  /\ UNCHANGED <<pairs, watchVars, timers, loop, running, marked, held, unsynced, counts>>

MarkRunning(m) ==
  /\ at[m] = "ready"
  /\ marked' = marked \cup {Id(m)}
  /\ JobAt(m, "marked")
  /\ UNCHANGED <<pairs, watchVars, timers, loop, running, todo, held, unsynced, counts>>

ManualDone(m) ==
  /\ at[m] = "syncing"
  /\ marked' = marked \ {Id(m)}
  /\ JobAt(m, "recorded")
  /\ UNCHANGED <<pairs, watchVars, timers, loop, running, todo, held, unsynced, counts>>

ManualRecord(m) ==
  /\ at[m] = "recorded"
  /\ SyncEnds(m)
  /\ NextPair(m)
  /\ UNCHANGED marked

-----------------------------------------------------------------------------
Surroundings ==
  \/ EditPairs \/ HoldChanges \/ Restart
  \/ \E d \in Local : LocalChange(d)
  \/ \E i \in DOMAIN pairs : IntervalElapses(i)

LoopStep == Rearm \/ RunDue \/ \E d \in Local : OnEvent(d)

RunPair(j) ==
  \/ Enter(j) \/ AlreadyRunning(j) \/ StandDown(j) \/ OnStart(j)
  \/ SyncScans(j) \/ RecordRun(j) \/ OnResult(j) \/ Leave(j)

RunRequest(m) == MarkRunning(m) \/ SyncScans(m) \/ ManualDone(m) \/ ManualRecord(m)

Next ==
  \/ Surroundings
  \/ LoopStep
  \/ \E j \in Timer, id \in Ids : TimerFires(j, id)
  \/ \E j \in Runner : RunPair(j)
  \/ \E m \in Manual : Request(m) \/ RunRequest(m)

(* Time passes and every ticker ticks, select serves every channel that    *)
(* stays ready, goroutines and transfers go on.  Nobody needs to edit,     *)
(* change a file, press a button or restart anything.                      *)
Fairness ==
  /\ \A i \in Ids : WF_vars(i \in DOMAIN pairs /\ IntervalElapses(i))
  /\ WF_vars(Rearm) /\ WF_vars(RunDue)
  /\ \A d \in Local : WF_vars(OnEvent(d))
  /\ \A id \in Ids : WF_vars(\E j \in Timer : TimerFires(j, id))
  /\ \A j \in Runner : WF_vars(RunPair(j))
  /\ \A m \in Manual : WF_vars(RunRequest(m))

Spec     == Init /\ [][Next]_vars
FairSpec == Spec /\ Fairness

-----------------------------------------------------------------------------
(* Properties.                                                             *)

(* Types: every variable stays in the set its Go counterpart ranges over,  *)
(* and a job that is under way has a pair to work on.                      *)
TypeOK ==
  /\ pairs \in Seq(Store!Pair)
  /\ watcher \in BOOLEAN
  /\ watched \in [Local -> 0 .. MaxPairs]
  /\ armed \subseteq Local /\ missed \subseteq Local /\ pending \subseteq Local
  /\ timers \subseteq Ids /\ running \subseteq Ids /\ marked \subseteq Ids
  /\ loop \in {"start", "first", "select"}
  /\ at \in [Job -> Phase]
  /\ todo \in [Job -> Seq(Store!Pair)]
  /\ \A j \in Job : at[j] = "idle" <=> todo[j] = << >>
  /\ held \in BOOLEAN
  /\ unsynced \subseteq Local \X Remote

Busy(j) == at[j] \in {"entered", "marked", "syncing", "recorded", "reported"}

(* runPair, "a pair already running is skipped": the loop and the timers'  *)
(* goroutines are never inside runPair for one pair at the same time,      *)
(* however timers, ticks, edits and restarts interleave.                   *)
OneRunPerPair ==
  \A j, k \in Runner : Busy(j) /\ Busy(k) /\ Id(j) = Id(k) => j = k

(* r.running holds the pairs inside runPair and no other: a leftover would *)
(* make every later run of that pair a no-op.                              *)
RunningIsExact == running = {Id(j) : j \in {j \in Runner : Busy(j)}}

(* isRunning, "reports whether a pair is syncing right now": the tray's    *)
(* badge is on for exactly the pairs between OnStart and OnResult.         *)
Showing(j) == at[j] = "marked" \/ at[j] = "syncing" \/ (at[j] = "recorded" /\ j \in Runner)
BadgeTells == marked = {Id(j) : j \in {j \in Job : Showing(j)}}

(* rearm "makes the watch set match" the list, but marks a root watched    *)
(* before it asks for the watches and never asks again.  So a directory    *)
(* below a watched root is without its watch only if rearm was refused it, *)
(* and no coming, going, moving or pausing of pairs takes one away that    *)
(* was given.  It is said of roots that share no directory: unwatching a   *)
(* nested root would disarm its parent's.  What a refusal costs is a wait: *)
(* see ChangesAreCarried.                                                  *)
Apart(d) == \A e \in Local : Inside[e] \cap Inside[d] # {} => e = d
WatchedAreArmed ==
  \A d \in Local : watched[d] # 0 /\ Apart(d) => Inside[d] \subseteq armed \cup missed

(* The interval is the safety net: with the runner allowed to sync, a      *)
(* local change below an enabled pair with an interval is carried in the   *)
(* end, whatever became of its event, its timer and the runs around it.    *)
Scheduled(w) == \E i \in DOMAIN pairs :
                  pairs[i].enabled /\ pairs[i].every /\ Where(pairs[i]) = w
ChangesAreCarried ==
  \A w \in Local \X Remote :
    <>[](~held /\ Scheduled(w)) => []<>(w \notin unsynced)

(* runPair, "the next tick or the next change will pick it up": a change   *)
(* that started a pair's debounce timer is carried in the end, also when   *)
(* the pair has no interval.                                               *)
Detected(w) == \E i \in DOMAIN pairs :
                 pairs[i].enabled /\ pairs[i].id \in timers /\ Where(pairs[i]) = w
DetectedAreCarried ==
  \A w \in Local \X Remote :
    <>[]~held => (Detected(w) ~> w \notin unsynced)
=============================================================================
