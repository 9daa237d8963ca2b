--------------------------- MODULE SyncRunnerProofs ---------------------------
(***************************************************************************)
(* What the runner's running set, its watches and the tray's badge         *)
(* guarantee, for any number of pairs, timer goroutines, edits, failures   *)
(* and restarts; and that everything keeps its type.                       *)
(***************************************************************************)
EXTENDS SyncRunner, SequenceTheorems, NaturalsInduction, WellFoundedInduction, TLAPS

(* The two variables that say what a job does are functions on the jobs.   *)
JobsOK ==
  /\ at \in [Job -> Phase]
  /\ todo = [j \in Job |-> todo[j]]

(* Neither property is inductive alone.  That one run is under way per     *)
(* pair follows from what runPair checks, which is the running set; that   *)
(* the set is exact after one run has left it follows from there having    *)
(* been no second run of the same pair.                                    *)
RunInv == JobsOK /\ RunningIsExact /\ OneRunPerPair

(* A step that leaves alone which runs are under way preserves both.       *)
LEMMA SameRuns ==
  ASSUME RunInv, JobsOK', running' = running,
         \A j \in Runner : Busy(j)' <=> Busy(j),
         \A j \in Runner : Busy(j) => todo'[j] = todo[j]
  PROVE  RunInv'
<1>1. \A j \in Runner : Busy(j) => Id(j)' = Id(j)
  BY DEF Id
<1>2. {Id(j) : j \in {j \in Runner : Busy(j)}}' = {Id(j) : j \in {j \in Runner : Busy(j)}}
  BY <1>1
<1>3. RunningIsExact'
  BY <1>2 DEF RunInv, RunningIsExact
<1>4. OneRunPerPair'
  BY <1>1 DEF RunInv, OneRunPerPair
<1> QED
  BY <1>3, <1>4 DEF RunInv

LEMMA RunInvInit == Init => RunInv
<1> SUFFICES ASSUME Init PROVE RunInv
  OBVIOUS
<1>1. JobsOK
  BY DEF Init, JobsOK, AllIdle, NoWork, Phase
<1>2. \A j \in Runner : ~Busy(j)
  BY DEF Init, AllIdle, Busy, Job, Runner
<1>3. running = {}
  BY DEF Init
<1> QED
  BY <1>1, <1>2, <1>3 DEF RunInv, RunningIsExact, OneRunPerPair

(* A job's steps that change only where the job is.                        *)
LEMMA SamePlan ==
  ASSUME RunInv, NEW j \in Job, NEW p \in Phase, JobAt(j, p),
         UNCHANGED <<running, todo>>,
         j \in Runner => (Busy(j) <=> Busy(j)')
  PROVE  RunInv'
<1>1. JobsOK
  BY DEF RunInv
<1>2. JobsOK' /\ \A k \in Job \ {j} : at'[k] = at[k]
  BY <1>1 DEF JobsOK, JobAt
<1>3. \A k \in Runner : Busy(k)' <=> Busy(k)
  BY <1>2 DEF Busy, Job
<1> QED
  BY <1>2, <1>3, SameRuns

(* A job that is outside runPair takes up other work.                      *)
LEMMA NewPlan ==
  ASSUME RunInv, NEW j \in Job, NEW p \in {"idle", "ready"}, NEW t, JobAt(j, p),
         todo' = [todo EXCEPT ![j] = t], running' = running,
         j \in Runner => ~Busy(j)
  PROVE  RunInv'
<1>1. JobsOK
  BY DEF RunInv
<1>2. JobsOK' /\ at'[j] = p /\ \A k \in Job \ {j} : at'[k] = at[k] /\ todo'[k] = todo[k]
  BY <1>1 DEF JobsOK, JobAt, Phase
<1>3. \A k \in Runner : Busy(k)' <=> Busy(k)
  BY <1>2 DEF Busy, Job
<1>4. \A k \in Runner : Busy(k) => todo'[k] = todo[k]
  BY <1>2 DEF Job
<1> QED
  BY <1>2, <1>3, <1>4, SameRuns

(* The check of the running set lets in no second run of a pair.           *)
LEMMA EnterStep == ASSUME RunInv, NEW j \in Runner, Enter(j) PROVE RunInv'
<1>1. JobsOK /\ RunningIsExact /\ OneRunPerPair
  BY DEF RunInv
<1>2. /\ JobsOK' /\ todo' = todo /\ at'[j] = "entered" /\ at[j] = "ready"
      /\ \A k \in Job \ {j} : at'[k] = at[k]
  BY <1>1 DEF Enter, JobAt, JobsOK, Phase, Job
<1>3. \A k \in Runner : Busy(k)' <=> Busy(k) \/ k = j
  BY <1>2 DEF Busy, Job
<1>4. \A k \in Runner : Id(k)' = Id(k)
  BY <1>2 DEF Id
<1>5. \A k \in Runner : Busy(k) => Id(k) # Id(j)
  BY <1>1 DEF Enter, RunningIsExact
<1>6. RunningIsExact'
  BY <1>1, <1>3, <1>4 DEF Enter, RunningIsExact
<1>7. OneRunPerPair'
  BY <1>1, <1>3, <1>4, <1>5 DEF OneRunPerPair
<1> QED
  BY <1>2, <1>6, <1>7 DEF RunInv

(* Deleting the id takes no other run of the runner out of the set.        *)
LEMMA LeaveStep == ASSUME RunInv, NEW j \in Runner, Leave(j) PROVE RunInv'
<1>1. JobsOK /\ RunningIsExact /\ OneRunPerPair
  BY DEF RunInv
<1>2. /\ JobsOK' /\ at'[j] \in {"idle", "ready"} /\ at[j] = "reported"
      /\ \A k \in Job \ {j} : at'[k] = at[k] /\ todo'[k] = todo[k]
  BY <1>1 DEF Leave, NextPair, JobAt, JobsOK, Phase, Job
<1>3. \A k \in Runner : Busy(k)' <=> Busy(k) /\ k # j
  BY <1>2 DEF Busy, Job
<1>4. \A k \in Runner \ {j} : Id(k)' = Id(k)
  BY <1>2 DEF Id, Job
<1>5. \A k \in Runner \ {j} : Busy(k) => Id(k) # Id(j)
  BY <1>1, <1>2 DEF OneRunPerPair, Busy
<1>6. RunningIsExact'
  BY <1>1, <1>3, <1>4, <1>5 DEF Leave, RunningIsExact
<1>7. OneRunPerPair'
  BY <1>1, <1>3, <1>4 DEF OneRunPerPair
<1> QED
  BY <1>2, <1>6, <1>7 DEF RunInv

LEMMA RunPairStep == ASSUME RunInv, NEW j \in Runner, RunPair(j) PROVE RunInv'
<1>1. j \in Job
  BY DEF Job
<1>2. CASE Enter(j)
  BY <1>2, EnterStep
<1>3. CASE AlreadyRunning(j)
  BY <1>1, <1>3, NewPlan DEF AlreadyRunning, NextPair, Busy
<1>4. CASE StandDown(j)
  <2>1. Busy(j) /\ Busy(j)'
    BY <1>1, <1>4 DEF StandDown, JobAt, Busy, RunInv, JobsOK
  <2> QED
    BY <1>1, <1>4, <2>1, SamePlan DEF StandDown, Phase
<1>5. CASE OnStart(j)
  <2>1. Busy(j) /\ Busy(j)'
    BY <1>1, <1>5 DEF OnStart, JobAt, Busy, RunInv, JobsOK
  <2> QED
    BY <1>1, <1>5, <2>1, SamePlan DEF OnStart, Phase
<1>6. CASE SyncScans(j)
  <2>1. Busy(j) /\ Busy(j)'
    BY <1>1, <1>6 DEF SyncScans, JobAt, Busy, RunInv, JobsOK
  <2> QED
    BY <1>1, <1>6, <2>1, SamePlan DEF SyncScans, Phase
<1>7. CASE RecordRun(j)
  <2>1. Busy(j) /\ Busy(j)'
    BY <1>1, <1>7 DEF RecordRun, JobAt, Busy, RunInv, JobsOK
  <2> QED
    BY <1>1, <1>7, <2>1, SamePlan DEF RecordRun, SyncEnds, Phase
<1>8. CASE OnResult(j)
  <2>1. Busy(j) /\ Busy(j)'
    BY <1>1, <1>8 DEF OnResult, JobAt, Busy, RunInv, JobsOK
  <2> QED
    BY <1>1, <1>8, <2>1, SamePlan DEF OnResult, Phase
<1>9. CASE Leave(j)
  BY <1>9, LeaveStep
<1> QED
  BY <1>2, <1>3, <1>4, <1>5, <1>6, <1>7, <1>8, <1>9 DEF RunPair

(* "Sync now" touches neither the running set nor a job of the runner.     *)
LEMMA ManualStep ==
  ASSUME RunInv, NEW m \in Manual, Request(m) \/ RunRequest(m) PROVE RunInv'
<1>1. m \in Job /\ m \notin Runner
  BY JobAssumption DEF Job
<1>2. CASE Request(m)
  BY <1>1, <1>2, NewPlan DEF Request
<1>3. CASE MarkRunning(m)
  BY <1>1, <1>3, SamePlan DEF MarkRunning, Phase
<1>4. CASE SyncScans(m)
  BY <1>1, <1>4, SamePlan DEF SyncScans, Phase
<1>5. CASE ManualDone(m)
  BY <1>1, <1>5, SamePlan DEF ManualDone, Phase
<1>6. CASE ManualRecord(m)
  BY <1>1, <1>6, NewPlan DEF ManualRecord, SyncEnds, NextPair
<1> QED
  BY <1>2, <1>3, <1>4, <1>5, <1>6 DEF RunRequest

LEMMA RunInvStep == RunInv /\ [Next]_vars => RunInv'
<1> SUFFICES ASSUME RunInv, [Next]_vars PROVE RunInv'
  OBVIOUS
<1>1. CASE UNCHANGED <<running, at, todo>>
  <2>1. JobsOK'
    BY <1>1 DEF RunInv, JobsOK
  <2>2. \A j \in Runner : Busy(j)' <=> Busy(j)
    BY <1>1 DEF Busy
  <2> QED
    BY <1>1, <2>1, <2>2, SameRuns
<1>2. CASE Restart
  <2>1. JobsOK'
    BY <1>2 DEF Restart, JobsOK, AllIdle, NoWork, Phase
  <2>2. \A j \in Runner : ~Busy(j)'
    BY <1>2 DEF Restart, AllIdle, Busy, Job
  <2>3. running' = {}
    BY <1>2 DEF Restart
  <2> QED
    BY <2>1, <2>2, <2>3 DEF RunInv, RunningIsExact, OneRunPerPair
<1>3. CASE RunDue
  <2>1. Loop \in Job /\ ~Busy(Loop)
    BY <1>3 DEF RunDue, RunIsAt, Busy, Job, Runner
  <2> QED
    BY <1>3, <2>1, NewPlan DEF RunDue, JobAt
<1>4. ASSUME NEW j \in Timer, NEW id \in Ids, TimerFires(j, id) PROVE RunInv'
  <2>1. j \in Job /\ ~Busy(j) /\ running' = running
    BY <1>4 DEF TimerFires, Busy, Job, Runner
  <2>2. CASE UNCHANGED <<at, todo>>
    BY <1>1, <2>1, <2>2
  <2>3. ASSUME NEW k, todo' = [todo EXCEPT ![j] = <<pairs[k]>>], JobAt(j, "ready")
        PROVE  RunInv'
    BY <2>1, <2>3, NewPlan
  <2> QED
    BY <1>4, <2>2, <2>3 DEF TimerFires
<1>5. ASSUME NEW j \in Runner, RunPair(j) PROVE RunInv'
  BY <1>5, RunPairStep
<1>6. ASSUME NEW m \in Manual, Request(m) \/ RunRequest(m) PROVE RunInv'
  BY <1>6, ManualStep
<1>7. CASE EditPairs \/ HoldChanges
  BY <1>1, <1>7 DEF EditPairs, HoldChanges, jobVars
<1>8. CASE \E d \in Local : LocalChange(d) \/ OnEvent(d)
  BY <1>1, <1>8 DEF LocalChange, OnEvent, jobVars
<1>9. CASE \E i \in DOMAIN pairs : IntervalElapses(i)
  BY <1>1, <1>9 DEF IntervalElapses, jobVars
<1>10. CASE Rearm
  BY <1>1, <1>10 DEF Rearm, jobVars
<1>11. CASE UNCHANGED vars
  BY <1>1, <1>11 DEF vars
<1> QED
  BY <1>2, <1>3, <1>4, <1>5, <1>6, <1>7, <1>8, <1>9, <1>10, <1>11
  DEF Next, Surroundings, LoopStep

(* The loop, the timers and the watch handlers never run one pair twice at *)
(* the same time: every job that works on a pair is in the running set,    *)
(* and a job takes a pair only after it has found it free under the mutex. *)
THEOREM RunsAreExclusive == Spec => []OneRunPerPair
<1>1. RunInv => OneRunPerPair
  BY DEF RunInv
<1> QED
  BY <1>1, RunInvInit, RunInvStep, PTL DEF Spec

(* The running set never keeps a pair that nobody is running: so no pair   *)
(* is ever passed over for good because an earlier run was recorded and    *)
(* not taken off again.                                                    *)
THEOREM RunningIsTheJobs == Spec => []RunningIsExact
<1>1. RunInv => RunningIsExact
  BY DEF RunInv
<1> QED
  BY <1>1, RunInvInit, RunInvStep, PTL DEF Spec

-----------------------------------------------------------------------------
(* The badge.  A pair shows as running between OnStart and OnResult, and a *)
(* job in between is inside runPair: so the id that OnResult takes off is  *)
(* no other job's, as long as nothing but the runner marks pairs.          *)
BadgeInv == RunInv /\ BadgeTells

ShownIds == {Id(j) : j \in {j \in Job : Showing(j)}}

(* What is shown changes only with the jobs that show something.           *)
LEMMA SameBadge ==
  ASSUME BadgeTells, marked' = marked,
         \A j \in Job : Showing(j)' <=> Showing(j),
         \A j \in Job : Showing(j) => todo'[j] = todo[j]
  PROVE  BadgeTells'
<1>1. \A j \in Job : Showing(j) => Id(j)' = Id(j)
  BY DEF Id
<1>2. ShownIds' = ShownIds
  BY <1>1 DEF ShownIds
<1> QED
  BY <1>2 DEF BadgeTells, ShownIds

(* A step of job j that neither shows nor hides its pair, or that gives a  *)
(* job which shows nothing other work.                                     *)
LEMMA OneJobMoves ==
  ASSUME BadgeTells, JobsOK, NEW j \in Job, NEW p \in Phase, NEW t, JobAt(j, p),
         marked' = marked,
         todo' = [todo EXCEPT ![j] = t] \/ todo' = todo,
         Showing(j)' <=> Showing(j),
         Showing(j) => todo' = todo
  PROVE  BadgeTells'
<1>1. \A k \in Job \ {j} : at'[k] = at[k] /\ todo'[k] = todo[k]
  BY DEF JobsOK, JobAt
<1>2. \A k \in Job : Showing(k)' <=> Showing(k)
  BY <1>1 DEF Showing
<1> QED
  BY <1>1, <1>2, SameBadge

LEMMA RunPairBadge ==
  ASSUME Manual = {}, BadgeInv, NEW j \in Runner, RunPair(j)
  PROVE  BadgeTells'
<1>0. j \in Job /\ Job = Runner /\ JobsOK /\ BadgeTells /\ OneRunPerPair
  BY DEF Job, BadgeInv, RunInv
<1>1. CASE Enter(j)
  <2>1. Showing(j)' <=> Showing(j)
    BY <1>0, <1>1 DEF Enter, JobAt, Showing, JobsOK
  <2> QED
    BY <1>0, <1>1, <2>1, OneJobMoves DEF Enter, Phase
<1>2. CASE AlreadyRunning(j) \/ Leave(j)
  <2>1. PICK p \in {"idle", "ready"} : JobAt(j, p)
    BY <1>2 DEF AlreadyRunning, Leave, NextPair
  <2>2. ~Showing(j) /\ ~Showing(j)'
    BY <1>0, <1>2, <2>1 DEF AlreadyRunning, Leave, JobAt, Showing, JobsOK
  <2> QED
    BY <1>0, <1>2, <2>1, <2>2, OneJobMoves DEF AlreadyRunning, Leave, NextPair, Phase
<1>3. CASE StandDown(j)
  <2>1. Showing(j)' <=> Showing(j)
    BY <1>0, <1>3 DEF StandDown, JobAt, Showing, JobsOK
  <2> QED
    BY <1>0, <1>3, <2>1, OneJobMoves DEF StandDown, Phase
<1>4. CASE SyncScans(j)
  <2>1. Showing(j)' <=> Showing(j)
    BY <1>0, <1>4 DEF SyncScans, JobAt, Showing, JobsOK
  <2> QED
    BY <1>0, <1>4, <2>1, OneJobMoves DEF SyncScans, Phase
<1>5. CASE RecordRun(j)
  <2>1. Showing(j)' <=> Showing(j)
    BY <1>0, <1>5 DEF RecordRun, JobAt, Showing, JobsOK
  <2> QED
    BY <1>0, <1>5, <2>1, OneJobMoves DEF RecordRun, Phase
<1>6. CASE OnStart(j)
  <2>1. /\ \A k \in Job : Id(k)' = Id(k)
        /\ \A k \in Job : Showing(k)' <=> Showing(k) \/ k = j
    BY <1>0, <1>6 DEF OnStart, JobAt, Showing, JobsOK, Id
  <2> QED
    BY <1>0, <1>6, <2>1 DEF OnStart, BadgeTells
<1>7. CASE OnResult(j)
  <2>1. /\ \A k \in Job : Id(k)' = Id(k)
        /\ \A k \in Job : Showing(k)' <=> Showing(k) /\ k # j
    BY <1>0, <1>7 DEF OnResult, JobAt, Showing, JobsOK, Id
  <2>2. \A k \in Job \ {j} : Showing(k) => Id(k) # Id(j)
    BY <1>0, <1>7 DEF OnResult, OneRunPerPair, Busy, Showing
  <2> QED
    BY <1>0, <1>7, <2>1, <2>2 DEF OnResult, BadgeTells
<1> QED
  BY <1>1, <1>2, <1>3, <1>4, <1>5, <1>6, <1>7 DEF RunPair

LEMMA BadgeStep == Manual = {} => (BadgeInv /\ [Next]_vars => BadgeTells')
<1> SUFFICES ASSUME Manual = {}, BadgeInv, [Next]_vars PROVE BadgeTells'
  OBVIOUS
<1>0. JobsOK /\ BadgeTells
  BY DEF BadgeInv, RunInv
<1>1. CASE UNCHANGED <<marked, at, todo>>
  <2>1. \A j \in Job : Showing(j)' <=> Showing(j)
    BY <1>1 DEF Showing
  <2> QED
    BY <1>0, <1>1, <2>1, SameBadge
<1>2. CASE Restart
  <2>1. \A j \in Job : ~Showing(j)'
    BY <1>2 DEF Restart, AllIdle, Showing
  <2> QED
    BY <1>2, <2>1 DEF Restart, BadgeTells
<1>3. CASE RunDue
  <2> DEFINE due == Picked({i \in DOMAIN pairs : Due(pairs[i])})
             p   == IF due = << >> THEN "idle" ELSE "ready"
  <2>1. /\ JobAt(Loop, p) /\ todo' = [todo EXCEPT ![Loop] = due]
        /\ at[Loop] = "idle" /\ marked' = marked
    BY <1>3 DEF RunDue, RunIsAt, JobAt
  <2>2. p \in {"idle", "ready"}
    OBVIOUS
  <2> HIDE DEF p, due
  <2>3. Loop \in Job /\ ~Showing(Loop) /\ ~Showing(Loop)'
    BY <1>0, <2>1, <2>2 DEF Showing, Job, Runner, JobAt, JobsOK
  <2> QED
    BY <1>0, <2>1, <2>2, <2>3, OneJobMoves DEF Phase
<1>4. ASSUME NEW j \in Timer, NEW id \in Ids, TimerFires(j, id) PROVE BadgeTells'
  <2>1. j \in Job /\ at[j] = "idle" /\ marked' = marked
    BY <1>4 DEF TimerFires, Job, Runner
  <2>2. CASE UNCHANGED <<at, todo>>
    BY <1>1, <2>1, <2>2
  <2>3. ASSUME NEW k, todo' = [todo EXCEPT ![j] = <<pairs[k]>>], JobAt(j, "ready")
        PROVE  BadgeTells'
    <3>1. ~Showing(j) /\ ~Showing(j)'
      BY <1>0, <2>1, <2>3 DEF Showing, JobAt, JobsOK
    <3> QED
      BY <1>0, <2>1, <2>3, <3>1, OneJobMoves DEF Phase
  <2> QED
    BY <1>4, <2>2, <2>3 DEF TimerFires
<1>5. ASSUME NEW j \in Runner, RunPair(j) PROVE BadgeTells'
  BY <1>5, RunPairBadge
<1>6. CASE EditPairs \/ HoldChanges
  BY <1>1, <1>6 DEF EditPairs, HoldChanges, jobVars
<1>7. CASE \E d \in Local : LocalChange(d) \/ OnEvent(d)
  BY <1>1, <1>7 DEF LocalChange, OnEvent, jobVars
<1>8. CASE \E i \in DOMAIN pairs : IntervalElapses(i)
  BY <1>1, <1>8 DEF IntervalElapses, jobVars
<1>9. CASE Rearm
  BY <1>1, <1>9 DEF Rearm, jobVars
<1>10. CASE UNCHANGED vars
  BY <1>1, <1>10 DEF vars
<1> QED
  BY <1>2, <1>3, <1>4, <1>5, <1>6, <1>7, <1>8, <1>9, <1>10
  DEF Next, Surroundings, LoopStep

LEMMA BadgeInit == Init => BadgeTells
  BY DEF Init, AllIdle, BadgeTells, Showing

(* While "Sync now" is not used, the tray's badge is on for exactly the    *)
(* pairs that are being synced.                                            *)
THEOREM BadgeIsTrue == ASSUME Manual = {} PROVE Spec => []BadgeTells
<1>1. BadgeInv /\ [Next]_vars => BadgeInv'
  BY BadgeStep, RunInvStep DEF BadgeInv
<1>2. Init => BadgeInv
  BY BadgeInit, RunInvInit DEF BadgeInv
<1>3. BadgeInv => BadgeTells
  BY DEF BadgeInv
<1> QED
  BY <1>1, <1>2, <1>3, PTL DEF Spec

-----------------------------------------------------------------------------
(* Only rearm and a restart touch the watches.                             *)
LEMMA WatchStep == WatchedAreArmed /\ [Next]_vars => WatchedAreArmed'
<1> SUFFICES ASSUME WatchedAreArmed, [Next]_vars PROVE WatchedAreArmed'
  OBVIOUS
<1>1. CASE UNCHANGED <<watched, armed, missed>>
  BY <1>1 DEF WatchedAreArmed
<1>2. CASE Restart
  BY <1>2 DEF Restart, Unwatched, WatchedAreArmed
<1>3. CASE Rearm
  <2>1. PICK want \in [Local -> 0 .. MaxPairs], refused \in SUBSET Local :
          /\ watched' = want /\ armed' = ArmedAfter(want, refused)
          /\ missed' = Below(want) \cap ((missed \cup refused) \ armed')
    BY <1>3 DEF Rearm
  <2>2. ASSUME NEW d \in Local, want[d] # 0, Apart(d)
        PROVE  Inside[d] \subseteq ArmedAfter(want, refused) \cup missed'
    <3>1. Inside[d] \subseteq Below(want)
      BY <2>2 DEF Below
    <3>2. Inside[d] \cap Removed(want) = {}
      BY <2>2, TreeAssumption DEF Apart, Removed
    <3>3. Inside[d] \subseteq armed \cup missed \cup Added(want)
      BY <2>2 DEF WatchedAreArmed, Added
    <3> QED
      BY <2>1, <3>1, <3>2, <3>3 DEF ArmedAfter
  <2> QED
    BY <2>1, <2>2 DEF WatchedAreArmed, Apart
<1>4. CASE EditPairs \/ HoldChanges \/ RunDue
  BY <1>1, <1>4 DEF EditPairs, HoldChanges, RunDue, watchVars, armVars
<1>5. CASE \E d \in Local : LocalChange(d) \/ OnEvent(d)
  BY <1>1, <1>5 DEF LocalChange, OnEvent, armVars
<1>6. CASE \E i \in DOMAIN pairs : IntervalElapses(i)
  BY <1>1, <1>6 DEF IntervalElapses, watchVars, armVars
<1>7. CASE \E j \in Timer, id \in Ids : TimerFires(j, id)
  BY <1>1, <1>7 DEF TimerFires, watchVars, armVars
<1>8. CASE \E j \in Runner : RunPair(j)
  BY <1>1, <1>8 DEF RunPair, Enter, AlreadyRunning, StandDown, OnStart, SyncScans, RecordRun,
                    SyncEnds, OnResult, Leave, watchVars, armVars
<1>9. CASE \E m \in Manual : Request(m) \/ RunRequest(m)
  BY <1>1, <1>9 DEF Request, RunRequest, MarkRunning, SyncScans, ManualDone, ManualRecord,
                    SyncEnds, watchVars, armVars
<1>10. CASE UNCHANGED vars
  BY <1>1, <1>10 DEF vars
<1> QED
  BY <1>2, <1>3, <1>4, <1>5, <1>6, <1>7, <1>8, <1>9, <1>10
  DEF Next, Surroundings, LoopStep

(* Whatever becomes of the pair list, a watched root that shares no        *)
(* directory with another has the watches of its whole tree but for those  *)
(* that rearm was refused: the runner itself forgets none and takes none   *)
(* away, however many pairs come and go and however often watches fail.    *)
THEOREM WatchesAreKept == Spec => []WatchedAreArmed
<1>1. Init => WatchedAreArmed
  BY DEF Init, Unwatched, WatchedAreArmed
<1> QED
  BY <1>1, WatchStep, PTL DEF Spec
-----------------------------------------------------------------------------
(* Types.  What makes ids of the copies that jobs carry, of timers and of  *)
(* recorded runs is that the list's own ids are in bounds: so the list and *)
(* every job's copies are said to be of such pairs.                        *)
InBounds == {p \in Store!Pair : p.id \in Ids}

ListTyped == pairs \in Seq(InBounds)
JobsTyped ==
  /\ at \in [Job -> Phase]
  /\ todo \in [Job -> Seq(InBounds)]
  /\ \A j \in Job : at[j] = "idle" <=> todo[j] = << >>
RestTyped ==
  /\ watcher \in BOOLEAN
  /\ watched \in [Local -> 0 .. MaxPairs]
  /\ armed \subseteq Local /\ missed \subseteq Local /\ pending \subseteq Local
  /\ timers \subseteq Ids /\ running \subseteq Ids /\ marked \subseteq Ids
  /\ loop \in {"start", "first", "select"}
  /\ held \in BOOLEAN
  /\ unsynced \subseteq Local \X Remote

TypeInv == ListTyped /\ JobsTyped /\ RestTyped

(* A set of numbers that holds 0, and with each number below N the next    *)
(* one, holds all up to N.                                                 *)
LEMMA UpToLast ==
  ASSUME NEW N \in Nat, NEW good, 0 \in good,
         \A n \in 1 .. N : n - 1 \in good => n \in good
  PROVE  \A n \in 0 .. N : n \in good
<1> DEFINE bad   == {n \in 0 .. N : n \notin good}
           below == OpToRel(<, Nat)
<1>1. IsWellFoundedOn(below, Nat) /\ \A i, j \in Nat : j < i => <<j, i>> \in below
  BY NatLessThanWellFounded DEF OpToRel
<1>2. bad \subseteq Nat
  OBVIOUS
<1>3. \A n \in bad : n \in 1 .. N /\ n - 1 \in bad
  OBVIOUS
<1> HIDE DEF below, bad
<1>4. ASSUME bad # {} PROVE FALSE
  <2>1. PICK n \in bad : \A k \in bad : <<k, n>> \notin below
    BY <1>1, <1>2, <1>4, WFMin
  <2>2. n - 1 \in bad /\ n \in Nat /\ n - 1 \in Nat /\ n - 1 < n
    BY <1>2, <1>3, <2>1
  <2>3. <<n - 1, n>> \in below
    BY <1>1, <2>2
  <2> QED
    BY <2>1, <2>2, <2>3
<1> QED
  BY <1>4 DEF bad

(* The pass over the list is well defined, and picks out pairs of it.      *)
LEMMA PickedType ==
  ASSUME NEW S, pairs \in Seq(S), NEW places
  PROVE  Picked(places) \in Seq(S)
<1> DEFINE N == Len(pairs)
           step(g, n) == IF n = 0 THEN << >>
                         ELSE IF n \in places THEN Append(g[n - 1], pairs[n]) ELSE g[n - 1]
           solves(g, n) == g \in [0 .. n -> Seq(S)] /\ \A k \in 0 .. n : g[k] = step(g, k)
           good == {n \in 0 .. N : \E g : solves(g, n)}
<1>0. N \in Nat /\ \A n \in 1 .. N : pairs[n] \in S
  OBVIOUS
<1>1. 0 \in good
  <2>1. solves([k \in 0 .. 0 |-> << >>], 0)
    OBVIOUS
  <2> HIDE DEF solves
  <2> QED
    BY <1>0, <2>1
<1>2. ASSUME NEW n \in 1 .. N, n - 1 \in good PROVE n \in good
  <2>1. PICK g : solves(g, n - 1)
    BY <1>2
  <2>2. g \in [0 .. n - 1 -> Seq(S)] /\ n - 1 \in 0 .. n - 1
    BY <1>0, <2>1
  <2>3. step(g, n) \in Seq(S)
    BY <1>0, <2>2
  <2> DEFINE last == step(g, n)
             h == [k \in 0 .. n |-> IF k < n THEN g[k] ELSE last]
  <2>4. h \in [0 .. n -> Seq(S)]
    <3> HIDE DEF last
    <3> QED
      BY <1>0, <2>2, <2>3 DEF last
  <2>5. ASSUME NEW k \in 0 .. n PROVE h[k] = step(h, k)
    <3>1. CASE k = 0
      BY <2>1, <3>1
    <3>2. CASE k # 0 /\ k < n
      <4>1. k \in 1 .. n - 1 /\ k - 1 \in 0 .. n - 1 /\ k - 1 \in 0 .. n /\ k - 1 < n
        BY <1>0, <3>2
      <4>2. h[k] = g[k] /\ h[k - 1] = g[k - 1]
        BY <3>2, <4>1
      <4>3. g[k] = step(g, k)
        <5>1. k \in 0 .. n - 1
          BY <4>1
        <5> HIDE DEF step
        <5> QED
          BY <2>1, <5>1
      <4> HIDE DEF h
      <4> QED
        BY <3>2, <4>2, <4>3
    <3>3. CASE k = n
      <4>1. h[n] = last /\ h[n - 1] = g[n - 1]
        <5> HIDE DEF last
        <5> QED
          BY <1>0, <3>3
      <4> HIDE DEF h
      <4> QED
        BY <3>3, <4>1
    <3> QED
      BY <1>0, <3>1, <3>2, <3>3
  <2> HIDE DEF h
  <2>6. solves(h, n)
    BY <2>4, <2>5
  <2> HIDE DEF solves
  <2> QED
    BY <1>0, <2>6
<1>3. N \in good
  <2> HIDE DEF good
  <2>1. \A n \in 1 .. N : n - 1 \in good => n \in good
    BY <1>2
  <2>2. \A n \in 0 .. N : n \in good
    BY <1>0, <1>1, <2>1, UpToLast
  <2> QED
    BY <1>0, <2>2
<1>4. PICK g : solves(g, N)
  BY <1>3
<1>5. g = [k \in 0 .. N |-> step(g, k)]
  BY <1>4
<1> DEFINE f == CHOOSE f : f = [k \in 0 .. N |-> step(f, k)]
<1>6. f = [k \in 0 .. N |-> step(f, k)]
  BY <1>5
<1>7. Picked(places) = f[N]
  BY DEF Picked
<1> HIDE DEF f
<1>8. \A n \in 0 .. N : f[n] = step(f, n)
  <2> HIDE DEF step
  <2> QED
    BY <1>6
<1> DEFINE typed == {n \in 0 .. N : f[n] \in Seq(S)}
<1>9. 0 \in typed
  <2>1. f[0] = step(f, 0) /\ 0 \in 0 .. N
    <3> HIDE DEF step
    <3> QED
      BY <1>0, <1>8
  <2>2. f[0] = << >>
    BY <2>1
  <2>3. f[0] \in Seq(S)
    BY <2>2
  <2> QED
    BY <2>1, <2>3
<1>10. ASSUME NEW n \in 1 .. N, n - 1 \in typed PROVE n \in typed
  <2>1. f[n] = step(f, n) /\ n \in 0 .. N /\ n # 0 /\ f[n - 1] \in Seq(S)
    <3> HIDE DEF step
    <3> QED
      BY <1>0, <1>10, <1>8
  <2>2. f[n] \in Seq(S)
    BY <1>0, <2>1
  <2> QED
    BY <2>1, <2>2
<1>11. N \in typed
  <2> HIDE DEF typed
  <2>1. \A n \in 1 .. N : n - 1 \in typed => n \in typed
    BY <1>10
  <2>2. \A n \in 0 .. N : n \in typed
    BY <1>0, <1>9, <2>1, UpToLast
  <2> QED
    BY <1>0, <2>2
<1> QED
  BY <1>7, <1>11

LEMMA TypeInvIsType == TypeInv => TypeOK
<1>1. InBounds \subseteq Store!Pair
  BY DEF InBounds
<1>2. Seq(InBounds) \subseteq Seq(Store!Pair)
  BY <1>1
<1>3. ASSUME todo \in [Job -> Seq(InBounds)] PROVE todo \in [Job -> Seq(Store!Pair)]
  BY <1>2, <1>3
<1> QED
  BY <1>2, <1>3 DEF TypeInv, ListTyped, JobsTyped, RestTyped, TypeOK

(* The list's operations number pairs within the bound and keep numbers.   *)
LEMMA AddsInBounds ==
  ASSUME NEW f \in Seq(InBounds), NEW g \in Store!Adds(f) PROVE g \in Seq(InBounds)
<1>1. PICK p \in Store!Drafts, n \in 1 .. Len(f) + 1 :
        g = Append(f, [p EXCEPT !.id = n]) /\ Len(f) < MaxPairs
  BY DEF Store!Adds
<1>2. [p EXCEPT !.id = n] \in InBounds
  <2>1. n \in Nat \ {0} /\ n \in Ids
    BY <1>1, ListAssumption DEF Ids
  <2>2. [p EXCEPT !.id = n] \in Store!Pair /\ [p EXCEPT !.id = n].id = n
    BY <2>1 DEF Store!Drafts, Store!Pair, Store!Runs
  <2> QED
    BY <2>1, <2>2 DEF InBounds
<1> QED
  BY <1>1, <1>2

LEMMA RemovesInBounds ==
  ASSUME NEW f \in Seq(InBounds), NEW g \in Store!Removes(f) PROVE g \in Seq(InBounds)
<1>1. PICK i \in DOMAIN f : g = Store!Seqs!RemoveAt(f, i)
  BY DEF Store!Removes, Store!Found
<1>2. SubSeq(f, 1, i - 1) \in Seq(InBounds) /\ SubSeq(f, i + 1, Len(f)) \in Seq(InBounds)
  BY SubSeqProperties
<1> QED
  BY <1>1, <1>2, ConcatProperties DEF Store!Seqs!RemoveAt

LEMMA UpdateInBounds ==
  ASSUME NEW f \in Seq(InBounds), NEW i \in DOMAIN f, NEW p \in Store!Pair, p.id = f[i].id
  PROVE  [f EXCEPT ![i] = p] \in Seq(InBounds)
<1>1. p \in InBounds
  BY DEF InBounds
<1> QED
  BY <1>1

LEMMA EditsInBounds ==
  ASSUME NEW f \in Seq(InBounds),
         NEW g \in Store!Sets(f) \cup Store!Forms(f) \cup Store!Records(f)
  PROVE  g \in Seq(InBounds)
<1>1. \A i \in Store!Found(f) : i \in DOMAIN f /\ f[i] \in Store!Pair
  BY DEF InBounds, Store!Found
<1>2. CASE g \in Store!Sets(f)
  <2>1. PICK i \in Store!Found(f), on \in BOOLEAN, m \in Store!Mode : g = Store!Set(f, i, on, m)
    BY <1>2 DEF Store!Sets
  <2> DEFINE p == [f[i] EXCEPT !.enabled = on, !.watch = m.watch, !.every = m.every]
  <2>2. g = [f EXCEPT ![i] = p]
    BY <1>1, <2>1 DEF Store!Set
  <2>3. p \in Store!Pair /\ p.id = f[i].id
    BY <1>1 DEF Store!Pair, Store!Mode
  <2> QED
    BY <1>1, <2>2, <2>3, UpdateInBounds
<1>3. CASE g \in Store!Forms(f)
  <2>1. PICK i \in Store!Found(f), r \in Remote, m \in Store!Mode : g = Store!Form(f, i, r, m)
    BY <1>3 DEF Store!Forms
  <2> DEFINE p == [f[i] EXCEPT !.remote = r, !.watch = m.watch, !.every = m.every]
  <2>2. g = [f EXCEPT ![i] = p]
    BY <1>1, <2>1 DEF Store!Form
  <2>3. p \in Store!Pair /\ p.id = f[i].id
    BY <1>1 DEF Store!Pair, Store!Mode
  <2> QED
    BY <1>1, <2>2, <2>3, UpdateInBounds
<1>4. CASE g \in Store!Records(f)
  <2>1. PICK i \in Store!Found(f), x \in BOOLEAN :
          g = [f EXCEPT ![i].last = "recent", ![i].failed = x]
    BY <1>4 DEF Store!Records, Store!RecordRun
  <2> DEFINE p == [f[i] EXCEPT !.last = "recent", !.failed = x]
  <2>2. g = [f EXCEPT ![i] = p]
    BY <1>1, <2>1
  <2>3. p \in Store!Pair /\ p.id = f[i].id
    BY <1>1 DEF Store!Pair, Store!Runs
  <2> QED
    BY <1>1, <2>2, <2>3, UpdateInBounds
<1> QED
  BY <1>2, <1>3, <1>4

LEMMA ElapsedInBounds ==
  ASSUME NEW f \in Seq(InBounds), NEW i \in DOMAIN f
  PROVE  [f EXCEPT ![i].last = "overdue"] \in Seq(InBounds)
<1> DEFINE p == [f[i] EXCEPT !.last = "overdue"]
<1>1. f[i] \in Store!Pair
  BY DEF InBounds
<1>2. p \in Store!Pair /\ p.id = f[i].id
  BY <1>1 DEF Store!Pair, Store!Runs
<1> HIDE DEF p
<1>3. [f EXCEPT ![i] = p] \in Seq(InBounds)
  BY <1>2, UpdateInBounds
<1> QED
  BY <1>3 DEF p

(* A job under way has a pair in hand, with an id in bounds.               *)
LEMMA InHand ==
  ASSUME JobsTyped, NEW j \in Job, at[j] # "idle"
  PROVE  /\ todo[j] # << >> /\ Len(todo[j]) \in Nat \ {0}
         /\ Head(todo[j]) \in InBounds /\ Tail(todo[j]) \in Seq(InBounds)
         /\ Id(j) \in Ids /\ Where(Head(todo[j])) \in Local \X Remote
<1>1. todo[j] \in Seq(InBounds) /\ todo[j] # << >>
  BY DEF JobsTyped
<1>2. Head(todo[j]) \in InBounds /\ Tail(todo[j]) \in Seq(InBounds) /\ Len(todo[j]) \in Nat \ {0}
  BY <1>1
<1>3. Head(todo[j]).id \in Ids /\ Head(todo[j]).local \in Local /\ Head(todo[j]).remote \in Remote
  BY <1>2 DEF InBounds, Store!Pair
<1> QED
  BY <1>1, <1>2, <1>3 DEF Id, Where

LEMMA PhaseTyped ==
  ASSUME JobsTyped, NEW j \in Job, at[j] # "idle", NEW p \in Phase \ {"idle"}, JobAt(j, p),
         UNCHANGED todo
  PROVE  JobsTyped'
  BY DEF JobsTyped, JobAt

LEMMA WorkTyped ==
  ASSUME JobsTyped, NEW j \in Job, NEW t \in Seq(InBounds),
         NEW p \in {"idle", "ready"}, p = "idle" <=> t = << >>, JobAt(j, p),
         todo' = [todo EXCEPT ![j] = t]
  PROVE  JobsTyped'
  BY DEF JobsTyped, JobAt, Phase

LEMMA NextPairTyped ==
  ASSUME JobsTyped, NEW j \in Job, at[j] # "idle", NextPair(j) PROVE JobsTyped'
<1> DEFINE t == Tail(todo[j])
           p == IF Len(todo[j]) > 1 THEN "ready" ELSE "idle"
<1>1. /\ todo[j] \in Seq(InBounds) /\ todo[j] # << >> /\ t \in Seq(InBounds)
      /\ Len(todo[j]) \in Nat \ {0}
  BY InHand DEF JobsTyped
<1>2. p = "idle" <=> t = << >>
  <2>1. Len(t) = Len(todo[j]) - 1 /\ Len(todo[j]) \in Nat
    BY <1>1
  <2>2. t = << >> <=> Len(t) = 0
    <3> HIDE DEF t
    <3> QED
      BY <1>1, EmptySeq
  <2>3. p = "idle" <=> Len(todo[j]) = 1
    <3>1. \A n \in Nat \ {0} : (IF n > 1 THEN "ready" ELSE "idle") = "idle" <=> n = 1
      OBVIOUS
    <3> QED
      BY <1>1, <3>1, Zenon
  <2> HIDE DEF p, t
  <2> QED
    BY <2>1, <2>2, <2>3
<1>3. JobAt(j, p) /\ todo' = [todo EXCEPT ![j] = t] /\ p \in {"idle", "ready"}
  BY DEF NextPair
<1> HIDE DEF t, p
<1> QED
  BY <1>1, <1>2, <1>3, WorkTyped

LEMMA SyncEndsTyped ==
  ASSUME TypeInv, NEW j \in Job, at[j] # "idle", SyncEnds(j)
  PROVE  ListTyped' /\ unsynced' \subseteq Local \X Remote
<1>1. pairs \in Seq(InBounds) /\ unsynced \subseteq Local \X Remote
  BY DEF TypeInv, ListTyped, RestTyped
<1>2. Where(Head(todo[j])) \in Local \X Remote
  BY InHand DEF TypeInv
<1>3. ASSUME NEW failed \in BOOLEAN, Recorded(j, failed) PROVE pairs' \in Seq(InBounds)
  <2>1. CASE UNCHANGED pairs
    BY <1>1, <2>1
  <2>2. CASE \E k \in Store!Found(pairs) : pairs' = Store!RecordRun(pairs, k, failed)
    <3>1. pairs' \in Store!Records(pairs)
      BY <2>2 DEF Store!Records
    <3> QED
      BY <1>1, <3>1, EditsInBounds
  <2> QED
    BY <1>3, <2>1, <2>2 DEF Recorded
<1> QED
  BY <1>1, <1>2, <1>3 DEF SyncEnds, ListTyped

LEMMA TypeInvInit == Init => TypeInv
<1> SUFFICES ASSUME Init PROVE TypeInv
  OBVIOUS
<1>1. ListTyped
  <2>1. pairs \in Seq(Store!Pair) /\ \A i \in DOMAIN pairs : pairs[i].id \in Ids
    BY ListAssumption DEF Init, Store!UsedIds
  <2>2. \A i \in 1 .. Len(pairs) : pairs[i] \in InBounds
    BY <2>1 DEF InBounds
  <2> QED
    BY <2>1, <2>2 DEF ListTyped
<1>2. JobsTyped
  BY DEF Init, JobsTyped, AllIdle, NoWork, Phase
<1>3. RestTyped
  BY ListAssumption DEF Init, RestTyped, Unwatched
<1> QED
  BY <1>1, <1>2, <1>3 DEF TypeInv

LEMMA RunPairTyped ==
  ASSUME TypeInv, NEW j \in Runner, RunPair(j) PROVE TypeInv'
<1>0. j \in Job /\ ListTyped /\ JobsTyped /\ RestTyped
  BY DEF Job, TypeInv
<1>1. at[j] # "idle"
  BY DEF RunPair, Enter, AlreadyRunning, StandDown, OnStart, SyncScans, RecordRun, OnResult, Leave
<1>2. Id(j) \in Ids
  BY <1>0, <1>1, InHand
<1>3. JobsTyped'
  <2>1. CASE AlreadyRunning(j) \/ Leave(j)
    BY <1>0, <1>1, <2>1, NextPairTyped DEF AlreadyRunning, Leave
  <2>2. CASE Enter(j) \/ StandDown(j) \/ OnStart(j) \/ SyncScans(j) \/ RecordRun(j) \/ OnResult(j)
    <3>1. \E p \in Phase \ {"idle"} : JobAt(j, p) /\ UNCHANGED todo
      BY <2>2 DEF Enter, StandDown, OnStart, SyncScans, RecordRun, OnResult, SyncEnds, Phase
    <3> QED
      BY <1>0, <1>1, <3>1, PhaseTyped
  <2> QED
    BY <2>1, <2>2 DEF RunPair
<1>4. CASE RecordRun(j)
  <2>1. ListTyped' /\ unsynced' \subseteq Local \X Remote
    BY <1>0, <1>1, <1>4, SyncEndsTyped DEF RecordRun
  <2> QED
    BY <1>0, <1>3, <1>4, <2>1 DEF TypeInv, RestTyped, RecordRun, SyncEnds, watchVars, armVars
<1>5. CASE ~RecordRun(j)
  <2>1. ListTyped'
    BY <1>0, <1>5 DEF RunPair, Enter, AlreadyRunning, StandDown, OnStart, SyncScans, OnResult,
                      Leave, ListTyped
  <2>2. RestTyped'
    BY <1>0, <1>2, <1>5 DEF RunPair, Enter, AlreadyRunning, StandDown, OnStart, SyncScans,
                            OnResult, Leave, RestTyped, watchVars, armVars
  <2> QED
    BY <1>3, <2>1, <2>2 DEF TypeInv
<1> QED
  BY <1>4, <1>5

LEMMA ManualTyped ==
  ASSUME TypeInv, NEW m \in Manual, Request(m) \/ RunRequest(m) PROVE TypeInv'
<1>0. m \in Job /\ ListTyped /\ JobsTyped /\ RestTyped /\ pairs \in Seq(InBounds)
  BY DEF Job, TypeInv, ListTyped
<1>1. CASE Request(m)
  <2>1. PICK list \in {Picked(Enabled)} \cup {<<pairs[k]>> : k \in DOMAIN pairs} :
          list # << >> /\ todo' = [todo EXCEPT ![m] = list]
    BY <1>1 DEF Request
  <2>2. list \in Seq(InBounds)
    <3>1. Picked(Enabled) \in Seq(InBounds)
      BY <1>0, PickedType
    <3>2. \A k \in DOMAIN pairs : <<pairs[k]>> \in Seq(InBounds)
      BY <1>0
    <3> QED
      BY <3>1, <3>2
  <2>3. JobAt(m, "ready")
    BY <1>1 DEF Request
  <2>4. JobsTyped'
    BY <1>0, <2>1, <2>2, <2>3, WorkTyped
  <2> QED
    BY <1>0, <1>1, <2>4 DEF Request, TypeInv, ListTyped, RestTyped, watchVars, armVars
<1>2. CASE RunRequest(m)
  <2>1. at[m] # "idle"
    BY <1>2 DEF RunRequest, MarkRunning, SyncScans, ManualDone, ManualRecord
  <2>2. Id(m) \in Ids
    BY <1>0, <2>1, InHand
  <2>3. CASE ManualRecord(m)
    <3>1. ListTyped' /\ unsynced' \subseteq Local \X Remote
      BY <1>0, <2>1, <2>3, SyncEndsTyped DEF ManualRecord
    <3>2. JobsTyped'
      BY <1>0, <2>1, <2>3, NextPairTyped DEF ManualRecord
    <3> QED
      BY <1>0, <2>3, <3>1, <3>2 DEF TypeInv, RestTyped, ManualRecord, SyncEnds, watchVars, armVars
  <2>4. CASE MarkRunning(m) \/ SyncScans(m) \/ ManualDone(m)
    <3>1. \E p \in Phase \ {"idle"} : JobAt(m, p) /\ UNCHANGED todo
      BY <2>4 DEF MarkRunning, SyncScans, ManualDone, Phase
    <3>2. JobsTyped'
      BY <1>0, <2>1, <3>1, PhaseTyped
    <3>3. ListTyped'
      BY <1>0, <2>4 DEF MarkRunning, SyncScans, ManualDone, ListTyped
    <3>4. RestTyped'
      BY <1>0, <2>2, <2>4 DEF MarkRunning, SyncScans, ManualDone, RestTyped, watchVars, armVars
    <3> QED
      BY <3>2, <3>3, <3>4 DEF TypeInv
  <2> QED
    BY <1>2, <2>3, <2>4 DEF RunRequest
<1> QED
  BY <1>1, <1>2

LEMMA SurroundingsTyped == ASSUME TypeInv, Surroundings PROVE TypeInv'
<1>0. ListTyped /\ JobsTyped /\ RestTyped /\ pairs \in Seq(InBounds)
  BY DEF TypeInv, ListTyped
<1>1. CASE EditPairs
  <2>1. pairs' \in Seq(InBounds)
    BY <1>0, <1>1, AddsInBounds, RemovesInBounds, EditsInBounds DEF EditPairs
  <2> QED
    BY <1>0, <1>1, <2>1
    DEF EditPairs, TypeInv, ListTyped, JobsTyped, RestTyped, watchVars, armVars, jobVars
<1>2. CASE HoldChanges
  BY <1>0, <1>2
  DEF HoldChanges, TypeInv, ListTyped, JobsTyped, RestTyped, watchVars, armVars, jobVars
<1>3. CASE Restart
  <2>1. JobsTyped'
    BY <1>3 DEF Restart, JobsTyped, AllIdle, NoWork, Phase
  <2>2. RestTyped'
    BY <1>0, <1>3, ListAssumption DEF Restart, RestTyped, Unwatched
  <2> QED
    BY <1>0, <1>3, <2>1, <2>2 DEF Restart, TypeInv, ListTyped
<1>4. ASSUME NEW d \in Local, LocalChange(d) PROVE TypeInv'
  <2>1. unsynced' \subseteq Local \X Remote /\ pending' \subseteq Local
    BY <1>0, <1>4 DEF LocalChange, RestTyped, armVars
  <2> QED
    BY <1>0, <1>4, <2>1 DEF LocalChange, TypeInv, ListTyped, JobsTyped, RestTyped, jobVars, armVars
<1>5. ASSUME NEW i \in DOMAIN pairs, IntervalElapses(i) PROVE TypeInv'
  <2>1. pairs' \in Seq(InBounds)
    BY <1>0, <1>5, ElapsedInBounds DEF IntervalElapses
  <2> QED
    BY <1>0, <1>5, <2>1
    DEF IntervalElapses, TypeInv, ListTyped, JobsTyped, RestTyped, watchVars, armVars, jobVars
<1> QED
  BY <1>1, <1>2, <1>3, <1>4, <1>5 DEF Surroundings

LEMMA LoopTyped == ASSUME TypeInv, LoopStep PROVE TypeInv'
<1>0. ListTyped /\ JobsTyped /\ RestTyped /\ pairs \in Seq(InBounds)
  BY DEF TypeInv, ListTyped
<1>1. CASE Rearm
  <2>1. PICK want \in [Local -> 0 .. MaxPairs], refused \in SUBSET Local :
          /\ watched' = want /\ armed' = ArmedAfter(want, refused)
          /\ missed' = Below(want) \cap ((missed \cup refused) \ armed')
    BY <1>1 DEF Rearm
  <2>2. armed' \subseteq Local /\ missed' \subseteq Local
    BY <1>0, <2>1, TreeAssumption DEF ArmedAfter, Added, RestTyped
  <2> QED
    BY <1>0, <1>1, <2>1, <2>2 DEF Rearm, TypeInv, ListTyped, JobsTyped, RestTyped, jobVars
<1>2. CASE RunDue
  <2> DEFINE due == Picked({i \in DOMAIN pairs : Due(pairs[i])})
             p   == IF due = << >> THEN "idle" ELSE "ready"
  <2>1. due \in Seq(InBounds)
    BY <1>0, PickedType
  <2>2. JobAt(Loop, p) /\ todo' = [todo EXCEPT ![Loop] = due]
    BY <1>2 DEF RunDue, JobAt
  <2>3. p \in {"idle", "ready"} /\ (p = "idle" <=> due = << >>) /\ Loop \in Job
    BY DEF Job, Runner
  <2> HIDE DEF p, due
  <2>4. JobsTyped'
    BY <1>0, <2>1, <2>2, <2>3, WorkTyped
  <2> QED
    BY <1>0, <1>2, <2>4 DEF RunDue, TypeInv, ListTyped, RestTyped, watchVars, armVars
<1>3. ASSUME NEW d \in Local, OnEvent(d) PROVE TypeInv'
  <2>1. pending' \subseteq Local
    BY <1>0, <1>3 DEF OnEvent, RestTyped, armVars
  <2>2. PairFor(d) \subseteq Ids
    <3>1. \A r \in Local : watched[r] # 0 => watched[r] \in Ids
      BY <1>0, ListAssumption DEF RestTyped, Ids
    <3> QED
      BY <3>1 DEF PairFor, Holds
  <2>3. timers' \subseteq Ids
    BY <1>0, <1>3, <2>2 DEF OnEvent, RestTyped, armVars
  <2> QED
    BY <1>0, <1>3, <2>1, <2>3 DEF OnEvent, TypeInv, ListTyped, JobsTyped, RestTyped, jobVars,
        armVars
<1> QED
  BY <1>1, <1>2, <1>3 DEF LoopStep

LEMMA TimerTyped ==
  ASSUME TypeInv, NEW j \in Timer, NEW id \in Ids, TimerFires(j, id) PROVE TypeInv'
<1>0. j \in Job /\ ListTyped /\ JobsTyped /\ RestTyped /\ pairs \in Seq(InBounds)
  BY DEF Job, Runner, TypeInv, ListTyped
<1>1. JobsTyped'
  <2>1. CASE UNCHANGED <<at, todo>>
    BY <1>0, <2>1 DEF JobsTyped
  <2>2. ASSUME NEW k \in Starts(id), todo' = [todo EXCEPT ![j] = <<pairs[k]>>], JobAt(j, "ready")
        PROVE  JobsTyped'
    <3>1. <<pairs[k]>> \in Seq(InBounds) /\ <<pairs[k]>> # << >>
      BY <1>0, <2>2 DEF Starts, Store!Found
    <3> QED
      BY <1>0, <2>2, <3>1, WorkTyped
  <2> QED
    BY <2>1, <2>2 DEF TimerFires
<1> QED
  BY <1>0, <1>1 DEF TimerFires, TypeInv, ListTyped, RestTyped, watchVars, armVars

LEMMA TypeInvStep == TypeInv /\ [Next]_vars => TypeInv'
<1> SUFFICES ASSUME TypeInv, [Next]_vars PROVE TypeInv'
  OBVIOUS
<1>1. CASE UNCHANGED vars
  BY <1>1 DEF vars, TypeInv, ListTyped, JobsTyped, RestTyped
<1>2. CASE Next
  BY <1>2, SurroundingsTyped, LoopTyped, TimerTyped, RunPairTyped, ManualTyped DEF Next
<1> QED
  BY <1>1, <1>2

(* A job under way always has a pair to work on, and the ids of running    *)
(* sets, timers and watches are ids the list can have: for any number of   *)
(* pairs, timers, requests and edits, whatever is stale in a job's copies. *)
THEOREM RunnerIsTyped == Spec => []TypeOK
  BY TypeInvInit, TypeInvStep, TypeInvIsType, PTL DEF Spec
=============================================================================
