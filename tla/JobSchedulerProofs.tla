------------------------- MODULE JobSchedulerProofs -------------------------
(***************************************************************************)
(* Theorems about the gateway's job scheduler, for any jobs, intervals,    *)
(* numbers of threads, workers and launches, and any faults.               *)
(***************************************************************************)
EXTENDS JobScheduler, FiniteSetTheorems, TLAPS

RunType == [job : Job \cup {Trader}, stage : Stages, row : Status, slot : Int,
            life : 0..MaxLives, marked : BOOLEAN]

USE SchedulerAssumption DEF dictionaries, trader

-----------------------------------------------------------------------------
(* Types. *)

LEMMA SlotIsInt == \A j \in Job, t \in Int : SlotOf(j, t) \in Int
BY DEF SlotOf

LEMMA NewRunType ==
  ASSUME SchedulerTypeOK, NEW j \in Job
  PROVE  [NoRun EXCEPT !.job = j, !.stage = "queued",
                       !.slot = IF HasSlot(j) THEN SlotNow(j) ELSE at \div 2,
                       !.life = lives] \in RunType
<1>1. at \in Int /\ lives \in 0..MaxLives
  BY DEF SchedulerTypeOK
<1>2. (IF HasSlot(j) THEN SlotNow(j) ELSE at \div 2) \in Int
  BY <1>1, SlotIsInt DEF SlotNow
<1>3. NoRun \in RunType
  BY DEF NoRun, RunType, Stages, Status, Never
<1>4. QED
  BY <1>1, <1>2, <1>3 DEF RunType, NoRun, Stages

LEMMA TypeInit == SchedulerInit => SchedulerTypeOK
<1>1. NoRun \in RunType
  BY DEF NoRun, RunType, Stages, Status, Never
<1>2. QED
  BY <1>1 DEF SchedulerInit, SchedulerTypeOK, RunType, Never

(* A launch names a job of the schedule; at most one launch waits to be written
   down, by a tick that has its job still on its list and nothing running. *)
JobsKnown == \A r \in Run : run[r].stage # "unused" => run[r].job \in Job

FreshLaunch ==
  fresh = {} \/ \E r \in Run : /\ fresh = {r} /\ worker = "launch"
                               /\ run[r].stage # "unused"
                               /\ run[r].job \in todo
                               /\ running[run[r].job] = 0

LEMMA EditType ==
  ASSUME NEW x \in RunType
  PROVE  /\ \A v \in Stages : [x EXCEPT !.stage = v] \in RunType
         /\ \A v \in Status : [x EXCEPT !.row = v] \in RunType
         /\ \A v \in Stages, w \in Status : [x EXCEPT !.stage = v, !.row = w] \in RunType
         /\ [x EXCEPT !.marked = TRUE] \in RunType
BY DEF RunType

LEMMA RunsType == SchedulerTypeOK <=> SchedulerTypeOK /\ run \in [Run -> RunType]
BY DEF SchedulerTypeOK, RunType

LEMMA WorkerStepType ==
  ASSUME SchedulerTypeOK, FreshLaunch, WorkerStep
  PROVE  SchedulerTypeOK'
<1>0. run \in [Run -> RunType]
  BY RunsType
<1>1. CASE Start
  BY <1>1 DEF Start, SchedulerTypeOK
<1>2. CASE RecoverJobs \/ RecoverStaleRuns
  <2>1. \A st \in {"failed", "interrupted"} :
          [r \in Run |-> IF run[r].row = "running" THEN [run[r] EXCEPT !.row = st] ELSE run[r]]
            \in [Run -> RunType]
    BY <1>0, EditType DEF Status
  <2>2. run' \in [Run -> RunType]
    BY <1>2, <2>1 DEF RecoverJobs, RecoverStaleRuns, CloseRows
  <2>3. QED
    BY <1>2, <2>2 DEF RecoverJobs, RecoverStaleRuns, SchedulerTypeOK, RunType
<1>3. CASE Baseline
  BY <1>3 DEF Baseline, SchedulerTypeOK
<1>4. CASE BeginTick
  <2>1. \A j \in Job : LastSlot(j) \in Int
    BY SlotIsInt DEF LastSlot, SchedulerTypeOK
  <2>2. /\ running' \in [Job -> Run \cup {0}]
        /\ retrySlot' \in [Job -> Int] /\ retryAt' \in [Job -> Int]
    BY <1>4, <2>1 DEF BeginTick, SchedulerTypeOK
  <2>3. QED
    BY <1>4, <2>2 DEF BeginTick, SchedulerTypeOK
<1>5. CASE EndTick \/ Drained
  BY <1>5 DEF EndTick, Drained, SchedulerTypeOK
<1>6. ASSUME NEW j \in Job, SkipJob(j) PROVE SchedulerTypeOK'
  BY <1>6 DEF SkipJob, SchedulerTypeOK
<1>7. ASSUME NEW j \in Job, LaunchRetry(j) \/ LaunchDue(j) PROVE SchedulerTypeOK'
  <2>1. run' \in [Run -> RunType] /\ fresh' \subseteq Run
    <3>1. LaunchRun(j)
      BY <1>7 DEF LaunchRetry, LaunchDue
    <3>2. PICK r \in Run : /\ run' = [run EXCEPT ![r] =
                                [NoRun EXCEPT !.job = j, !.stage = "queued",
                                   !.slot = IF HasSlot(j) THEN SlotNow(j) ELSE at \div 2,
                                   !.life = lives]]
                           /\ fresh' = {r}
      BY <3>1 DEF LaunchRun
    <3>3. QED
      BY <1>0, <3>2, NewRunType
  <2>2. retrySlot' \in [Job -> Int] /\ retriedSlot' \in [Job -> Int]
    <3>1. SlotNow(j) \in Int /\ Never \in Int
      BY SlotIsInt DEF SlotNow, SchedulerTypeOK, Never
    <3>2. QED
      BY <1>7, <3>1 DEF LaunchRetry, LaunchDue, SchedulerTypeOK
  <2>3. QED
    BY <1>7, <2>1, <2>2 DEF LaunchRetry, LaunchDue, SchedulerTypeOK, RunType
<1>8. ASSUME NEW r \in Run, WriteDown(r) PROVE SchedulerTypeOK'
  <2>1. run' \in [Run -> RunType]
    BY <1>0, <1>8, EditType DEF WriteDown
  <2>2. last' \in [Job -> -1..MaxTime] /\ running' \in [Job -> Run \cup {0}]
    <3>1. run[r].job \in Job /\ at \in -1..MaxTime
      BY <1>8 DEF WriteDown, FreshLaunch, SchedulerTypeOK
    <3>2. QED
      BY <1>8, <3>1 DEF WriteDown, SchedulerTypeOK
  <2>3. QED
    BY <1>8, <2>1, <2>2 DEF WriteDown, SchedulerTypeOK, RunType
<1>9. QED
  BY <1>1, <1>2, <1>3, <1>4, <1>5, <1>6, <1>7, <1>8 DEF WorkerStep

LEMMA RunStepType ==
  ASSUME SchedulerTypeOK, JobsKnown, NEW r \in Run, RunStep(r)
  PROVE  SchedulerTypeOK'
<1>0. run \in [Run -> RunType]
  BY RunsType
<1>1. ASSUME NEW st \in Stages, NEW row \in Status, FinishAs(r, st, row) PROVE SchedulerTypeOK'
  <2>1. run' \in [Run -> RunType]
    BY <1>0, <1>1, EditType DEF FinishAs
  <2>2. QED
    BY <1>1, <2>1 DEF FinishAs, SchedulerTypeOK, RunType
<1>2. CASE BeginRun(r)
  <2>1. run' \in [Run -> RunType]
    <3>1. CASE run' = [run EXCEPT ![r].stage = "working", ![r].row = "running"]
      BY <1>0, <3>1, EditType DEF Stages, Status
    <3>2. CASE run' = [run EXCEPT ![r].stage = "failed"]
      BY <1>0, <3>2, EditType DEF Stages
    <3>3. QED
      BY <1>2, <3>1, <3>2 DEF BeginRun
  <2>2. QED
    BY <1>2, <2>1 DEF BeginRun, SchedulerTypeOK, RunType
<1>3. CASE EnterCycle(r)
  <2>1. Trader \in Job
    BY <1>3 DEF EnterCycle, Alive, JobsKnown
  <2>2. slotFile' \in [slot : Int, start : Int]
    BY <1>3, <2>1, SlotIsInt DEF EnterCycle, TraderSlot, SchedulerTypeOK
  <2>3. QED
    BY <1>3, <2>2 DEF EnterCycle, SchedulerTypeOK
<1>4. CASE OrphanEnds(r)
  <2>1. run' \in [Run -> RunType]
    BY <1>0, <1>4, EditType DEF OrphanEnds, Stages
  <2>2. QED
    BY <1>4, <2>1 DEF OrphanEnds, SchedulerTypeOK, RunType
<1>5. QED
  BY <1>1, <1>2, <1>3, <1>4
     DEF RunStep, RunFails, RunEnds, RunUnrecorded, SkipCycle, Stages, Status

LEMMA OutsideType ==
  ASSUME SchedulerTypeOK, Clock \/ Stop \/ Kill
  PROVE  SchedulerTypeOK'
<1>0. run \in [Run -> RunType]
  BY RunsType
<1>1. CASE Clock
  BY <1>1 DEF Clock, SchedulerTypeOK
<1>2. CASE Stop
  BY <1>2 DEF Stop, Forget, SchedulerTypeOK, Never
<1>3. CASE Kill
  <2>1. run' \in [Run -> RunType]
    <3>1. \A x \in Run : [run[x] EXCEPT !.stage = "orphan"] \in RunType
                         /\ [run[x] EXCEPT !.stage = "gone"] \in RunType
      BY <1>0, EditType DEF Stages
    <3>2. PICK left \in SUBSET Run :
            run' = [x \in Run |->
                      CASE x \in left -> [run[x] EXCEPT !.stage = "orphan"]
                        [] run[x].stage \in {"queued", "working"} /\ x \notin left ->
                             [run[x] EXCEPT !.stage = "gone"]
                        [] OTHER -> run[x]]
      BY <1>3, Zenon DEF Kill
    <3>3. \A x \in Run : run'[x] \in RunType
      BY <1>0, <3>1, <3>2
    <3>4. QED
      BY <3>2, <3>3
  <2>2. cycle' \in Run \cup {0}
    BY <1>3 DEF Kill, SchedulerTypeOK
  <2>3. worker' = "down" /\ Forget /\ UNCHANGED <<now, last, lives, at, slotFile, traded>>
    BY <1>3, Zenon DEF Kill
  <2>4. QED
    BY <2>1, <2>2, <2>3 DEF Forget, SchedulerTypeOK, RunType, Never
<1>4. QED
  BY <1>1, <1>2, <1>3

-----------------------------------------------------------------------------
(* NoOverlap is not inductive: the scheduler looks at its dictionary `running`
   and not at the runs.  The invariant says that the dictionary (or the launch
   just about to be written into it) names every unfinished run, and that a
   worker that starts finds none. *)

StartsClean ==
  worker \in {"down", "recover", "adopt", "baseline"} => \A r \in Run : ~Unfinished(r)

Remembered ==
  worker \in {"loop", "launch"} =>
    \A r \in Run : Unfinished(r) => r \in fresh \/ running[run[r].job] = r

OverlapInv ==
  /\ SchedulerTypeOK /\ JobsKnown /\ FreshLaunch
  /\ StartsClean /\ Remembered /\ NoOverlap

LEMMA OverlapInvInit == SchedulerInit => OverlapInv
BY TypeInit DEF SchedulerInit, OverlapInv, JobsKnown, FreshLaunch, StartsClean, Remembered,
                NoOverlap, Unfinished, NoRun

(* A step that starts no run and keeps the dictionaries. *)
LEMMA QuietRuns ==
  ASSUME OverlapInv, SchedulerTypeOK',
         \A r \in Run : /\ run'[r].job = run[r].job
                        /\ Unfinished(r)' => Unfinished(r)
                        /\ run[r].stage = "unused" => run'[r].stage = "unused"
                        /\ run[r].stage # "unused" => run'[r].stage # "unused",
         \/ UNCHANGED <<running, fresh, todo, worker>>
         \/ /\ fresh' = {} /\ worker' = "draining"
         \/ /\ fresh' = {} /\ worker' = "down" /\ \A r \in Run : ~Unfinished(r)'
         \/ /\ fresh' = {} /\ worker' \in {"recover", "adopt", "baseline"}
            /\ worker \in {"down", "recover", "adopt"}
  PROVE  OverlapInv'
<1>1. JobsKnown'
  BY DEF OverlapInv, JobsKnown
<1>2. NoOverlap'
  BY DEF OverlapInv, NoOverlap
<1>3. FreshLaunch' /\ StartsClean' /\ Remembered'
  BY DEF OverlapInv, FreshLaunch, StartsClean, Remembered
<1>4. QED
  BY <1>1, <1>2, <1>3 DEF OverlapInv

LEMMA OutsideKeepsOverlap ==
  ASSUME OverlapInv, Clock \/ Stop \/ Kill
  PROVE  OverlapInv'
<1>1. SchedulerTypeOK'
  BY OutsideType DEF OverlapInv
<1>2. CASE Clock
  BY <1>1, <1>2, QuietRuns DEF Clock, Unfinished
<1>3. CASE Stop
  BY <1>1, <1>3, QuietRuns DEF Stop, Forget, Unfinished
<1>4. CASE Kill
  <2>1. \A r \in Run : run[r] \in RunType
    BY RunsType DEF OverlapInv
  <2>2. PICK left \in SUBSET Run :
          run' = [x \in Run |->
                    CASE x \in left -> [run[x] EXCEPT !.stage = "orphan"]
                      [] run[x].stage \in {"queued", "working"} /\ x \notin left ->
                           [run[x] EXCEPT !.stage = "gone"]
                      [] OTHER -> run[x]]
          /\ \A x \in left : run[x].stage = "working"
    BY <1>4, Zenon DEF Kill
  <2>3. \A r \in Run : /\ run'[r].job = run[r].job
                       /\ ~Unfinished(r)'
                       /\ (run[r].stage = "unused" <=> run'[r].stage = "unused")
    BY <2>1, <2>2 DEF Unfinished, RunType
  <2>4. fresh' = {} /\ worker' = "down"
    BY <1>4, Zenon DEF Kill, Forget
  <2>5. QED
    BY <1>1, <2>3, <2>4, QuietRuns
<1>5. QED
  BY <1>2, <1>3, <1>4

(* A run in its thread moves on from where it is and touches nothing else. *)
LEMMA RunStepShape ==
  ASSUME OverlapInv, NEW r \in Run, RunStep(r)
  PROVE  /\ UNCHANGED <<now, last, worker, lives, at, todo, fresh, dictionaries>>
         /\ \A x \in Run : /\ run'[x].job = run[x].job
                           /\ run'[x].slot = run[x].slot /\ run'[x].marked = run[x].marked
                           /\ Unfinished(x)' => Unfinished(x)
                           /\ run[x].stage = "unused" <=> run'[x].stage = "unused"
                           /\ run[x].stage = "failed" => run'[x].stage = "failed"
<1>2. \A x \in Run : run[x] \in RunType
  BY RunsType DEF OverlapInv
<1>3. UNCHANGED <<now, last, worker, lives, at, todo, fresh, dictionaries>>
  BY DEF RunStep, FinishAs, BeginRun, RunFails, RunEnds, RunUnrecorded, EnterCycle, SkipCycle,
         OrphanEnds
<1>4. \/ UNCHANGED run
      \/ \E st \in {"working", "failed", "ok", "gone"}, row \in Status :
           /\ run[r].stage \in {"queued", "working", "orphan"}
           /\ run' = [run EXCEPT ![r].stage = st, ![r].row = row]
           /\ st = "working" => run[r].stage = "queued"
  <2>1. CASE BeginRun(r)
    <3>1. [run EXCEPT ![r].stage = "failed"]
            = [run EXCEPT ![r].stage = "failed", ![r].row = run[r].row]
      BY <1>2 DEF OverlapInv, SchedulerTypeOK
    <3>2. run[r].row \in Status
      BY <1>2 DEF RunType
    <3>3. QED
      BY <2>1, <3>1, <3>2 DEF BeginRun, Status
  <2>2. CASE OrphanEnds(r)
    <3>1. [run EXCEPT ![r].stage = "gone"]
            = [run EXCEPT ![r].stage = "gone", ![r].row = run[r].row]
      BY <1>2 DEF OverlapInv, SchedulerTypeOK
    <3>2. run[r].row \in Status
      BY <1>2 DEF RunType
    <3>3. QED
      BY <2>2, <3>1, <3>2 DEF OrphanEnds
  <2>3. CASE EnterCycle(r)
    BY <2>3 DEF EnterCycle
  <2>4. CASE RunFails(r) \/ RunEnds(r) \/ RunUnrecorded(r) \/ SkipCycle(r)
    BY <2>4 DEF RunFails, RunEnds, RunUnrecorded, SkipCycle, FinishAs, Status
  <2>5. QED
    BY <2>1, <2>2, <2>3, <2>4 DEF RunStep
<1>5. \A x \in Run : /\ run'[x].job = run[x].job
                     /\ run'[x].slot = run[x].slot /\ run'[x].marked = run[x].marked
                     /\ Unfinished(x)' => Unfinished(x)
                     /\ run[x].stage = "unused" <=> run'[x].stage = "unused"
                     /\ run[x].stage = "failed" => run'[x].stage = "failed"
  <2>1. CASE UNCHANGED run
    BY <2>1 DEF Unfinished
  <2>2. ASSUME NEW st \in {"working", "failed", "ok", "gone"}, NEW row \in Status,
               run[r].stage \in {"queued", "working", "orphan"},
               run' = [run EXCEPT ![r].stage = st, ![r].row = row],
               st = "working" => run[r].stage = "queued",
               NEW x \in Run
        PROVE  /\ run'[x].job = run[x].job
               /\ run'[x].slot = run[x].slot /\ run'[x].marked = run[x].marked
               /\ Unfinished(x)' => Unfinished(x)
               /\ run[x].stage = "unused" <=> run'[x].stage = "unused"
               /\ run[x].stage = "failed" => run'[x].stage = "failed"
    <3>1. run \in [Run -> RunType]
      BY RunsType DEF OverlapInv
    <3>2. x # r => run'[x] = run[x]
      BY <2>2, <3>1
    <3>3. run'[r] = [run[r] EXCEPT !.stage = st, !.row = row]
      BY <2>2, <3>1
    <3>4. /\ run'[r].job = run[r].job /\ run'[r].stage = st
          /\ run'[r].slot = run[r].slot /\ run'[r].marked = run[r].marked
      BY <1>2, <3>3 DEF RunType
    <3>5. QED
      BY <2>2, <3>2, <3>4 DEF Unfinished
  <2>3. QED
    BY <1>4, <2>1, <2>2
<1>6. QED
  BY <1>3, <1>5

LEMMA RunStepKeepsOverlap ==
  ASSUME OverlapInv, NEW r \in Run, RunStep(r)
  PROVE  OverlapInv'
<1>1. SchedulerTypeOK'
  BY RunStepType DEF OverlapInv
<1>2. QED
  BY <1>1, RunStepShape, QuietRuns

LEMMA WorkerStepKeepsOverlap ==
  ASSUME OverlapInv, WorkerStep
  PROVE  OverlapInv'
<1>1. SchedulerTypeOK'
  BY WorkerStepType DEF OverlapInv
<1>2. run \in [Run -> RunType] /\ \A x \in Run : run[x] \in RunType
  BY RunsType DEF OverlapInv
<1>3. CASE Start \/ Drained
  BY <1>1, <1>3, QuietRuns DEF Start, Drained, Unfinished, OverlapInv, FreshLaunch
<1>4. CASE RecoverJobs \/ RecoverStaleRuns
  <2>1. PICK status \in {"failed", "interrupted"} : CloseRows(status)
    BY <1>4 DEF RecoverJobs, RecoverStaleRuns
  <2>2. \A r \in Run : run'[r].job = run[r].job /\ run'[r].stage = run[r].stage
    BY <1>2, <2>1 DEF CloseRows, RunType
  <2>3. fresh = {}
    BY <1>4 DEF RecoverJobs, RecoverStaleRuns, OverlapInv, FreshLaunch
  <2>4. QED
    BY <1>1, <1>4, <2>2, <2>3, QuietRuns DEF RecoverJobs, RecoverStaleRuns, Unfinished
<1>5. CASE Baseline
  BY <1>1, <1>5 DEF Baseline, OverlapInv, JobsKnown, FreshLaunch, StartsClean, Remembered,
                    NoOverlap, Unfinished
<1>6. CASE BeginTick
  <2>1. fresh = {} /\ fresh' = {} /\ UNCHANGED run
    BY <1>6 DEF BeginTick, OverlapInv, FreshLaunch
  <2>2. \A r \in Run : Unfinished(r) => running'[run[r].job] = r
    BY <1>6, <2>1 DEF BeginTick, OverlapInv, Remembered, JobsKnown, Unfinished, Done
  <2>3. QED
    BY <1>1, <1>6, <2>1, <2>2
       DEF BeginTick, OverlapInv, JobsKnown, FreshLaunch, StartsClean, Remembered, NoOverlap,
           Unfinished
<1>7. CASE EndTick
  BY <1>1, <1>7 DEF EndTick, OverlapInv, JobsKnown, FreshLaunch, StartsClean, Remembered,
                    NoOverlap, Unfinished
<1>8. ASSUME NEW j \in Job, SkipJob(j) PROVE OverlapInv'
  BY <1>1, <1>8 DEF SkipJob, OverlapInv, JobsKnown, FreshLaunch, StartsClean, Remembered,
                    NoOverlap, Unfinished
<1>9. ASSUME NEW j \in Job, LaunchRetry(j) \/ LaunchDue(j) PROVE OverlapInv'
  <2>1. /\ LaunchRun(j) /\ fresh = {} /\ worker = "launch" /\ j \in todo /\ running[j] = 0
        /\ UNCHANGED <<running, todo, worker>>
    BY <1>9 DEF LaunchRetry, LaunchDue
  <2>2. PICK r \in Run : /\ run[r].stage = "unused" /\ fresh' = {r}
                         /\ run' = [run EXCEPT ![r] =
                              [NoRun EXCEPT !.job = j, !.stage = "queued",
                                 !.slot = IF HasSlot(j) THEN SlotNow(j) ELSE at \div 2,
                                 !.life = lives]]
    BY <2>1 DEF LaunchRun
  <2>3. run'[r].job = j /\ run'[r].stage = "queued"
    BY <1>2, <2>2 DEF NoRun
  <2>4. \A x \in Run : x # r => run'[x] = run[x]
    BY <1>2, <2>2
  <2>5. \A x \in Run : x # r /\ Unfinished(x) => running[run[x].job] = x /\ run[x].job # j
    BY <2>1 DEF OverlapInv, Remembered
  <2>6. JobsKnown' /\ FreshLaunch' /\ StartsClean'
    BY <2>1, <2>2, <2>3, <2>4 DEF OverlapInv, JobsKnown, FreshLaunch, StartsClean
  <2>7. Remembered' /\ NoOverlap'
    BY <2>1, <2>2, <2>3, <2>4, <2>5 DEF OverlapInv, Remembered, NoOverlap, Unfinished
  <2>8. QED
    BY <1>1, <2>6, <2>7 DEF OverlapInv
<1>10. ASSUME NEW r \in Run, WriteDown(r) PROVE OverlapInv'
  <2>1. /\ fresh = {r} /\ worker = "launch" /\ run[r].stage # "unused"
        /\ run[r].job \in Job /\ running[run[r].job] = 0
    BY <1>10 DEF WriteDown, OverlapInv, FreshLaunch, SchedulerTypeOK
  <2>2. \A x \in Run : run'[x].job = run[x].job /\ run'[x].stage = run[x].stage
    BY <1>2, <1>10 DEF WriteDown, RunType
  <2>3. fresh' = {} /\ worker' = worker /\ running' = [running EXCEPT ![run[r].job] = r]
    BY <1>10 DEF WriteDown
  <2>4. \A x \in Run : Unfinished(x) => running'[run[x].job] = x
    BY <2>1, <2>3 DEF OverlapInv, Remembered, JobsKnown, Unfinished, SchedulerTypeOK
  <2>5. QED
    BY <1>1, <2>1, <2>2, <2>3, <2>4
       DEF OverlapInv, JobsKnown, FreshLaunch, StartsClean, Remembered, NoOverlap, Unfinished
<1>11. QED
  BY <1>3, <1>4, <1>5, <1>6, <1>7, <1>8, <1>9, <1>10 DEF WorkerStep

(* The invariant holds in every reachable state. *)
THEOREM OverlapInvCorrect == SchedulerSpec => []OverlapInv
<1>1. OverlapInv /\ [SchedulerNext]_schedulerVars => OverlapInv'
  <2> SUFFICES ASSUME OverlapInv, [SchedulerNext]_schedulerVars PROVE OverlapInv'
    OBVIOUS
  <2>1. CASE UNCHANGED schedulerVars
    BY <2>1 DEF schedulerVars, OverlapInv, SchedulerTypeOK, JobsKnown, FreshLaunch, StartsClean,
                Remembered, NoOverlap, Unfinished
  <2>2. QED
    BY <2>1, OutsideKeepsOverlap, RunStepKeepsOverlap, WorkerStepKeepsOverlap DEF SchedulerNext
<1>2. QED
  BY <1>1, OverlapInvInit, PTL DEF SchedulerSpec

(* The scheduler's memory, the rows and the trader's files have their types. *)
THEOREM SchedulerTypeCorrect == SchedulerSpec => []SchedulerTypeOK
BY OverlapInvCorrect, PTL DEF OverlapInv

(* A worker never has two runs of one job queued or at work: tick() asks the
   dictionary `running` only, whatever was retried, restarted or left behind,
   and however long a run takes against its interval. *)
THEOREM NoOverlapCorrect == SchedulerSpec => []NoOverlap
BY OverlapInvCorrect, PTL DEF OverlapInv

-----------------------------------------------------------------------------
(* RetriedOnce and OnlyFailuresRepeated.  What the code knows of earlier
   launches is `last`, a time, and the retry dictionaries, which a restart
   empties.  The invariant says what they mean for the launches written down:
   all of them lie in the slot of `last` or before it, and a slot that may be
   retried has one of them, a failed one. *)

(* The slot of a launch now, and of the last one: a minute, for a daily job. *)
SlotAt(j) == IF HasSlot(j) THEN SlotNow(j) ELSE at \div 2
LastMark(j) == IF HasSlot(j) THEN LastSlot(j) ELSE last[j] \div 2
MarkedIn(r, j, s) == run[r].marked /\ run[r].job = j /\ run[r].slot = s

TimesKnown ==
  /\ \A j \in Job : last[j] <= now
  /\ worker = "launch" => at = now
  /\ worker \in {"loop", "launch"} => \A j \in Job : last[j] >= 0

MarksArePast ==
  \A r \in Run : run[r].marked =>
    /\ run[r].job \in Job /\ last[run[r].job] >= 0
    /\ run[r].slot <= LastMark(run[r].job)
    /\ Launched(r)

RunsInOrder == \A r, s \in Run : Launched(s) /\ r < s => Launched(r)

(* A launch not written down yet is the newest and lies in the current slot; what
   has been launched there before is one run, and the slot counts as retried. *)
FreshIsNewest ==
  \A r \in fresh :
    /\ ~run[r].marked
    /\ \A s \in Run : Launched(s) => s <= r
    /\ run[r].slot = SlotAt(run[r].job) /\ run[r].slot # retrySlot[run[r].job]
    /\ \A a, b \in Run :
         MarkedIn(a, run[r].job, run[r].slot) /\ MarkedIn(b, run[r].job, run[r].slot) =>
           a = b /\ HasSlot(run[r].job) /\ retriedSlot[run[r].job] = run[r].slot

AwaitingRetry ==
  \A j \in Job : retrySlot[j] # Never =>
    /\ HasSlot(j) /\ last[j] >= 0 /\ retrySlot[j] <= LastSlot(j)
    /\ \A a, b \in Run : MarkedIn(a, j, retrySlot[j]) /\ MarkedIn(b, j, retrySlot[j]) =>
         a = b /\ run[a].stage = "failed"

RunningIsLast ==
  \A j \in Job : running[j] # 0 =>
    /\ MarkedIn(running[j], j, LastMark(j))
    /\ HasSlot(j) /\ retriedSlot[j] # LastSlot(j) =>
         \A a \in Run : MarkedIn(a, j, LastSlot(j)) => a = running[j]

LaterRetries ==
  \A r, s \in Run :
    Launched(s) /\ r < s /\ SameSlot(r, s) /\ run[r].marked => run[r].stage = "failed"

TwicePerSlot ==
  \A a, b, c \in Run :
    /\ run[a].marked /\ run[b].marked /\ run[c].marked
    /\ SameSlot(a, b) /\ SameSlot(a, c)
    => /\ a = b \/ a = c \/ b = c
       /\ ~HasSlot(run[a].job) => a = b

SlotInv ==
  /\ TimesKnown /\ MarksArePast /\ RunsInOrder /\ FreshIsNewest
  /\ AwaitingRetry /\ RunningIsLast /\ LaterRetries /\ TwicePerSlot

RetryInv == OverlapInv /\ SlotInv

LEMMA SlotMono ==
  ASSUME NEW n \in Nat \ {0}, NEW a \in Int, NEW b \in Int
  PROVE  /\ a <= b => a \div n <= b \div n
         /\ b - a >= n => a \div n < b \div n
         /\ a >= -n => a \div n >= -1
<1>1. \A x \in Int : /\ x \div n \in Int
                     /\ n * (x \div n) <= x /\ x < n * (x \div n) + n
  OBVIOUS
<1>2. \A p, q \in Int : p >= q + 1 => n * p >= n * q + n
  OBVIOUS
<1>3. a <= b => a \div n <= b \div n
  BY <1>1, <1>2
<1>4. b - a >= n => a \div n < b \div n
  <2>1. ASSUME b - a >= n, a \div n >= b \div n PROVE FALSE
    <3>1. a \div n = b \div n \/ n * (a \div n) >= n * (b \div n) + n
      BY <1>1, <1>2, <2>1
    <3>2. QED
      BY <1>1, <2>1, <3>1
  <2>2. QED
    BY <1>1, <2>1
<1>5. a >= -n => a \div n >= -1
  <2>1. ASSUME a >= -n, a \div n <= -2 PROVE FALSE
    <3>1. n * (-1) >= n * (a \div n) + n
      BY <1>1, <1>2, <2>1
    <3>2. QED
      BY <1>1, <2>1, <3>1
  <2>2. QED
    BY <1>1, <2>1
<1>6. QED
  BY <1>3, <1>4, <1>5

(* Slots grow with time, and no time has the slot Never. *)
LEMMA SlotFacts ==
  ASSUME NEW j \in Job
  PROVE  /\ \A t \in Nat : SlotOf(j, t) \in Int /\ SlotOf(j, t) >= -1
         /\ \A t, u \in Nat : t <= u => SlotOf(j, t) <= SlotOf(j, u)
         /\ \A t, u \in Nat : u - t >= Interval[j] => SlotOf(j, t) < SlotOf(j, u)
<1>1. Interval[j] \in Nat \ {0} /\ Offset[j] \in Nat /\ Offset[j] < Interval[j]
  OBVIOUS
<1>2. \A t \in Nat : SlotOf(j, t) \in Int /\ SlotOf(j, t) >= -1
  <2> SUFFICES ASSUME NEW t \in Nat PROVE SlotOf(j, t) \in Int /\ SlotOf(j, t) >= -1
    OBVIOUS
  <2>1. t - Offset[j] \in Int /\ t - Offset[j] >= -Interval[j]
    BY <1>1
  <2>2. (t - Offset[j]) \div Interval[j] >= -1
    BY <1>1, <2>1, SlotMono
  <2>3. QED
    BY <2>2, SlotIsInt DEF SlotOf
<1>3. ASSUME NEW t \in Nat, NEW u \in Nat
      PROVE  /\ t <= u => SlotOf(j, t) <= SlotOf(j, u)
             /\ u - t >= Interval[j] => SlotOf(j, t) < SlotOf(j, u)
  <2> DEFINE a == t - Offset[j]
             b == u - Offset[j]
  <2>1. a \in Int /\ b \in Int /\ b - a = u - t /\ (t <= u => a <= b)
    BY <1>1
  <2>2. (a <= b => a \div Interval[j] <= b \div Interval[j])
        /\ (b - a >= Interval[j] => a \div Interval[j] < b \div Interval[j])
    <3> HIDE DEF a, b
    <3> QED
      BY <1>1, <2>1, SlotMono
  <2>3. QED
    BY <2>1, <2>2 DEF SlotOf
<1>4. QED
  BY <1>2, <1>3

LEMMA SlotInvInit == SchedulerInit => SlotInv
BY DEF SchedulerInit, SlotInv, TimesKnown, MarksArePast, RunsInOrder, FreshIsNewest,
       AwaitingRetry, RunningIsLast, LaterRetries, TwicePerSlot, Launched, NoRun

(* A step that launches nothing, writes no launch down and reaps nothing. *)
LEMMA QuietSlots ==
  ASSUME RetryInv,
         \A r \in Run : /\ run'[r].job = run[r].job
                        /\ run'[r].slot = run[r].slot /\ run'[r].marked = run[r].marked
                        /\ run[r].stage = "unused" <=> run'[r].stage = "unused"
                        /\ run[r].stage = "failed" => run'[r].stage = "failed",
         last' = last, at' = at, now' >= now, now' \in Int,
         worker' = "launch" => worker = "launch" /\ now' = now,
         worker' = "loop" => worker \in {"loop", "launch"},
         \/ UNCHANGED <<running, retrySlot, retriedSlot, fresh>>
         \/ /\ fresh' = {}
            /\ \A j \in Job : running'[j] = 0 /\ retrySlot'[j] = Never
  PROVE  SlotInv'
<1>1. /\ \A j : LastMark(j)' = LastMark(j) /\ LastSlot(j)' = LastSlot(j)
      /\ \A j : SlotAt(j)' = SlotAt(j)
  BY DEF LastMark, LastSlot, SlotAt, SlotNow, HasSlot, SlotOf
<1>2. /\ \A r \in Run : \A j, t : MarkedIn(r, j, t)' <=> MarkedIn(r, j, t)
      /\ \A r \in Run : Launched(r)' <=> Launched(r)
      /\ \A r, t \in Run : SameSlot(r, t)' <=> SameSlot(r, t)
  BY DEF MarkedIn, Launched, SameSlot
<1>3. TimesKnown'
  <2>1. \A j \in Job : last[j] \in Int /\ now \in Int /\ last[j] <= now
    BY DEF RetryInv, OverlapInv, SchedulerTypeOK, SlotInv, TimesKnown
  <2>2. QED
    BY <2>1 DEF RetryInv, SlotInv, TimesKnown
<1>4. MarksArePast' /\ RunsInOrder'
  BY <1>1, <1>2 DEF RetryInv, SlotInv, MarksArePast, RunsInOrder
<1>5. FreshIsNewest'
  <2>1. fresh \subseteq Run
    BY DEF RetryInv, OverlapInv, SchedulerTypeOK
  <2>2. CASE UNCHANGED <<running, retrySlot, retriedSlot, fresh>>
    <3>1. ASSUME NEW r \in fresh
          PROVE  /\ ~run'[r].marked
                 /\ \A x \in Run : Launched(x)' => x <= r
                 /\ run'[r].slot = SlotAt(run[r].job)' /\ run'[r].slot # retrySlot'[run[r].job]
      BY <1>1, <1>2, <2>1, <2>2 DEF RetryInv, SlotInv, FreshIsNewest
    <3>2. ASSUME NEW r \in fresh, NEW a \in Run, NEW b \in Run,
                 MarkedIn(a, run[r].job, run[r].slot), MarkedIn(b, run[r].job, run[r].slot)
          PROVE  a = b /\ HasSlot(run[r].job) /\ retriedSlot'[run[r].job] = run[r].slot
      <4>1. a = b /\ HasSlot(run[r].job) /\ retriedSlot[run[r].job] = run[r].slot
        BY <3>2 DEF RetryInv, SlotInv, FreshIsNewest
      <4>2. retriedSlot' = retriedSlot
        BY <2>2
      <4>3. QED
        BY <4>1, <4>2
    <3>3. \A r \in fresh : run'[r].job = run[r].job /\ run'[r].slot = run[r].slot
      BY <2>1
    <3>4. QED
      BY <2>1, <2>2, <3>1, <3>2, <3>3 DEF FreshIsNewest, MarkedIn
  <2>3. QED
    BY <2>2 DEF FreshIsNewest
<1>6. AwaitingRetry'
  BY <1>1, <1>2 DEF RetryInv, SlotInv, AwaitingRetry, Never
<1>7. RunningIsLast'
  <2>1. running \in [Job -> Run \cup {0}]
    BY DEF RetryInv, OverlapInv, SchedulerTypeOK
  <2>2. QED
    BY <1>1, <1>2, <2>1 DEF RetryInv, SlotInv, RunningIsLast
<1>8. LaterRetries' /\ TwicePerSlot'
  BY <1>1, <1>2 DEF RetryInv, SlotInv, LaterRetries, TwicePerSlot
<1>9. QED
  BY <1>3, <1>4, <1>5, <1>6, <1>7, <1>8 DEF SlotInv

LEMMA OutsideKeepsSlots ==
  ASSUME RetryInv, Clock \/ Stop \/ Kill
  PROVE  SlotInv'
<1>1. now \in Int
  BY DEF RetryInv, OverlapInv, SchedulerTypeOK
<1>2. CASE Clock
  BY <1>1, <1>2, QuietSlots DEF Clock
<1>3. CASE Stop
  BY <1>1, <1>3, QuietSlots DEF Stop, Forget
<1>4. CASE Kill
  <2>1. \A r \in Run : run[r] \in RunType
    BY RunsType DEF RetryInv, OverlapInv
  <2>2. PICK left \in SUBSET Run :
          run' = [x \in Run |->
                    CASE x \in left -> [run[x] EXCEPT !.stage = "orphan"]
                      [] run[x].stage \in {"queued", "working"} /\ x \notin left ->
                           [run[x] EXCEPT !.stage = "gone"]
                      [] OTHER -> run[x]]
          /\ \A x \in left : run[x].stage = "working"
    BY <1>4, Zenon DEF Kill
  <2>3. \A r \in Run : /\ run'[r].job = run[r].job
                       /\ run'[r].slot = run[r].slot /\ run'[r].marked = run[r].marked
                       /\ run[r].stage = "unused" <=> run'[r].stage = "unused"
                       /\ run[r].stage = "failed" => run'[r].stage = "failed"
    BY <2>1, <2>2 DEF RunType
  <2>4. /\ worker' = "down" /\ Forget
        /\ UNCHANGED <<now, last, at>>
    BY <1>4, Zenon DEF Kill
  <2>5. fresh' = {} /\ \A j \in Job : running'[j] = 0 /\ retrySlot'[j] = Never
    BY <2>4 DEF Forget
  <2>6. QED
    BY <1>1, <2>3, <2>4, <2>5, QuietSlots
<1>5. QED
  BY <1>2, <1>3, <1>4

LEMMA RunStepKeepsSlots ==
  ASSUME RetryInv, NEW r \in Run, RunStep(r)
  PROVE  SlotInv'
<1>1. now \in Int /\ OverlapInv
  BY DEF RetryInv, OverlapInv, SchedulerTypeOK
<1>2. QED
  BY <1>1, RunStepShape, QuietSlots

(* Nothing written down lies in the slot in which a job is found due. *)
LEMMA DueIsNew ==
  ASSUME RetryInv, worker = "launch", NEW j \in Job, Due(j)
  PROVE  SlotAt(j) > LastMark(j) /\ \A a \in Run : ~MarkedIn(a, j, SlotAt(j))
<1>1. /\ last[j] \in Nat /\ at \in Nat /\ last[j] <= at
      /\ Kind[j] \in {"aligned", "offset", "elapsed", "daily"} /\ Interval[j] \in Nat
  BY DEF RetryInv, OverlapInv, SchedulerTypeOK, SlotInv, TimesKnown
<1>2. /\ SlotOf(j, at) \in Int /\ SlotOf(j, last[j]) \in Int
      /\ at - last[j] >= Interval[j] => SlotOf(j, last[j]) < SlotOf(j, at)
  BY <1>1, SlotFacts
<1>3. SlotAt(j) > LastMark(j)
  <2>1. CASE Kind[j] = "daily"
    BY <1>1, <2>1 DEF Due, SlotAt, LastMark, HasSlot
  <2>2. CASE Kind[j] = "elapsed"
    BY <1>1, <1>2, <2>2 DEF Due, SlotAt, LastMark, HasSlot, SlotNow, LastSlot
  <2>3. CASE Kind[j] \in {"aligned", "offset"}
    BY <1>1, <2>3 DEF Due, SlotAt, LastMark, HasSlot
  <2>4. QED
    BY <1>1, <2>1, <2>2, <2>3
<1>4. SlotAt(j) \in Int /\ LastMark(j) \in Int
  BY <1>1, <1>2 DEF SlotAt, LastMark, SlotNow, LastSlot
<1>5. \A a \in Run : run[a].slot \in Int
  BY RunsType DEF RetryInv, OverlapInv, RunType
<1>6. QED
  BY <1>3, <1>4, <1>5 DEF RetryInv, SlotInv, MarksArePast, MarkedIn

(* A retry is due only in the slot of the last launch; what was written down in
   that slot is one run, and it failed. *)
LEMMA RetryIsSecond ==
  ASSUME RetryInv, worker = "launch", NEW j \in Job, RetryDue(j)
  PROVE  /\ HasSlot(j) /\ retrySlot[j] = SlotAt(j) /\ SlotAt(j) # Never
         /\ \A a, b \in Run : MarkedIn(a, j, SlotAt(j)) /\ MarkedIn(b, j, SlotAt(j)) =>
              a = b /\ run[a].stage = "failed"
<1>1. SlotNow(j) # Never
  <2>1. at \in Nat
    BY DEF RetryInv, OverlapInv, SchedulerTypeOK
  <2>2. QED
    BY <2>1, SlotFacts DEF SlotNow, Never
<1>2. QED
  BY <1>1 DEF RetryDue, RetryInv, SlotInv, AwaitingRetry, SlotAt

(* The slot of a time does not go back. *)
LEMMA MarkGrows ==
  ASSUME RetryInv, worker = "launch", NEW j \in Job
  PROVE  /\ LastMark(j) \in Int /\ SlotAt(j) \in Int /\ SlotAt(j) # Never
         /\ LastMark(j) <= SlotAt(j)
         /\ HasSlot(j) => LastMark(j) = LastSlot(j)
<1>1. last[j] \in Nat /\ at \in Nat /\ last[j] <= at
  BY DEF RetryInv, OverlapInv, SchedulerTypeOK, SlotInv, TimesKnown
<1>2. /\ SlotOf(j, at) \in Int /\ SlotOf(j, at) >= -1 /\ SlotOf(j, last[j]) \in Int
      /\ SlotOf(j, last[j]) <= SlotOf(j, at)
  BY <1>1, SlotFacts
<1>3. CASE HasSlot(j)
  BY <1>1, <1>2, <1>3 DEF LastMark, SlotAt, SlotNow, LastSlot, Never
<1>4. CASE ~HasSlot(j)
  BY <1>1, <1>4 DEF LastMark, SlotAt, Never
<1>5. QED
  BY <1>3, <1>4

(* A new launch, whatever made it due. *)
LEMMA LaunchKeepsSlots ==
  ASSUME RetryInv, NEW j \in Job, NEW r \in Run,
         worker = "launch", running[j] = 0,
         run[r].stage = "unused", \A s \in Run : run[s].stage = "unused" => r <= s,
         run' = [run EXCEPT ![r] = [NoRun EXCEPT !.job = j, !.stage = "queued",
                                       !.slot = SlotAt(j), !.life = lives]],
         fresh' = {r},
         UNCHANGED <<now, last, worker, at, running>>,
         \A i \in Job : i # j => retriedSlot'[i] = retriedSlot[i],
         \A i \in Job : retrySlot'[i] \in {retrySlot[i], Never},
         retrySlot'[j] # SlotAt(j),
         \A a, b \in Run : MarkedIn(a, j, SlotAt(j)) /\ MarkedIn(b, j, SlotAt(j)) =>
            /\ a = b /\ run[a].stage = "failed"
            /\ HasSlot(j) /\ retriedSlot'[j] = SlotAt(j)
  PROVE  SlotInv'
<1> USE DEF RetryInv, SlotInv
<1>1. run \in [Run -> RunType] /\ (\A x \in Run : x \in Nat) /\ running \in [Job -> Run \cup {0}]
  BY RunsType DEF OverlapInv, SchedulerTypeOK
<1>2. /\ run'[r].job = j /\ run'[r].stage = "queued" /\ run'[r].slot = SlotAt(j)
      /\ run'[r].marked = FALSE
      /\ \A x \in Run : x # r => run'[x] = run[x]
  BY <1>1 DEF NoRun
<1>3. ~run[r].marked
  BY DEF MarksArePast, Launched
<1>4. /\ \A x \in Run : Launched(x)' <=> Launched(x) \/ x = r
      /\ \A x \in Run : Launched(x) => x < r
  <2>1. ASSUME NEW x \in Run, Launched(x) PROVE x < r
    <3>1. ~(r < x) /\ x # r
      BY <2>1 DEF RunsInOrder, Launched
    <3>2. QED
      BY <1>1, <3>1
  <2>2. QED
    BY <1>2, <2>1 DEF Launched
<1>5. /\ \A i : LastMark(i)' = LastMark(i) /\ LastSlot(i)' = LastSlot(i)
      /\ \A i : SlotAt(i)' = SlotAt(i)
  BY DEF LastMark, LastSlot, SlotAt, SlotNow, HasSlot, SlotOf
<1>6. \A x \in Run : \A i, t : MarkedIn(x, i, t)' <=> MarkedIn(x, i, t)
  BY <1>2, <1>3 DEF MarkedIn
<1>7. \A x \in Run : run'[x].marked => /\ x # r /\ run[x].marked /\ Launched(x)
                                       /\ run'[x] = run[x]
  BY <1>2 DEF MarksArePast
<1>8. TimesKnown' /\ MarksArePast' /\ RunsInOrder'
  <2>1. TimesKnown'
    BY DEF TimesKnown
  <2>2. MarksArePast'
    BY <1>4, <1>5, <1>7 DEF MarksArePast
  <2>3. RunsInOrder'
    BY <1>1, <1>4 DEF RunsInOrder, Launched
  <2>4. QED
    BY <2>1, <2>2, <2>3
<1>9. FreshIsNewest'
  <2>1. ~run'[r].marked /\ \A x \in Run : Launched(x)' => x <= r
    BY <1>1, <1>2, <1>4
  <2>2. run'[r].slot = SlotAt(j)' /\ run'[r].slot # retrySlot'[j]
    BY <1>2, <1>5
  <2>3. \A a, b \in Run : MarkedIn(a, j, SlotAt(j))' /\ MarkedIn(b, j, SlotAt(j))' =>
          a = b /\ HasSlot(j) /\ retriedSlot'[j] = SlotAt(j)
    BY <1>5, <1>6, <1>7, <1>2 DEF MarkedIn
  <2>4. QED
    BY <1>2, <1>5, <2>1, <2>2, <2>3 DEF FreshIsNewest, MarkedIn
<1>10. AwaitingRetry'
  BY <1>5, <1>6, <1>7 DEF AwaitingRetry, MarkedIn
<1>11. RunningIsLast'
  BY <1>1, <1>5, <1>6 DEF RunningIsLast
<1>12. LaterRetries'
  <2> SUFFICES ASSUME NEW x \in Run, NEW s \in Run,
                      Launched(s)', x < s, SameSlot(x, s)', run'[x].marked
               PROVE  run'[x].stage = "failed"
    BY DEF LaterRetries
  <2>1. CASE s = r
    <3>1. MarkedIn(x, j, SlotAt(j))
      BY <1>2, <1>7, <2>1 DEF MarkedIn, SameSlot
    <3>2. QED
      BY <1>7, <3>1
  <2>2. CASE s # r
    BY <1>2, <1>4, <1>7, <2>2 DEF LaterRetries, SameSlot
  <2>3. QED
    BY <2>1, <2>2
<1>13. TwicePerSlot'
  <2>1. \A x, y \in Run : run'[x].marked /\ run'[y].marked /\ SameSlot(x, y)' =>
          run[x].marked /\ run[y].marked /\ SameSlot(x, y) /\ run'[x].job = run[x].job
    BY <1>7 DEF SameSlot
  <2>2. QED
    BY <2>1 DEF TwicePerSlot
<1>14. QED
  BY <1>8, <1>9, <1>10, <1>11, <1>12, <1>13

LEMMA WriteDownKeepsSlots ==
  ASSUME RetryInv, NEW r \in Run, WriteDown(r)
  PROVE  SlotInv'
<1> USE DEF RetryInv, SlotInv
<1>1. /\ run \in [Run -> RunType] /\ (\A x \in Run : x \in Nat)
      /\ running \in [Job -> Run \cup {0}] /\ last \in [Job -> -1..MaxTime] /\ at \in Nat
  BY RunsType DEF OverlapInv, SchedulerTypeOK
<1>0. PICK j \in Job : j = run[r].job
  BY DEF WriteDown, OverlapInv, FreshLaunch, SchedulerTypeOK
<1>2. fresh = {r} /\ worker = "launch" /\ r \in fresh
  BY DEF WriteDown, OverlapInv, FreshLaunch, SchedulerTypeOK
<1>3. /\ ~run[r].marked /\ (\A s \in Run : Launched(s) => s <= r)
      /\ run[r].slot = SlotAt(j) /\ run[r].slot # retrySlot[j]
      /\ \A a, b \in Run : MarkedIn(a, j, SlotAt(j)) /\ MarkedIn(b, j, SlotAt(j)) =>
           a = b /\ HasSlot(j) /\ retriedSlot[j] = SlotAt(j)
  BY <1>0, <1>2 DEF FreshIsNewest
<1>4. /\ last' = [last EXCEPT ![j] = at] /\ running' = [running EXCEPT ![j] = r]
      /\ fresh' = {}
      /\ UNCHANGED <<now, worker, at, retrySlot, retriedSlot>>
  BY <1>0 DEF WriteDown
<1>5. \A x \in Run : /\ run'[x].job = run[x].job /\ run'[x].slot = run[x].slot
                     /\ run'[x].stage = run[x].stage
                     /\ run'[x].marked <=> run[x].marked \/ x = r
  BY <1>0, <1>1 DEF WriteDown, RunType
<1>6. \A x \in Run : \A i, t : MarkedIn(x, i, t)' <=>
        MarkedIn(x, i, t) \/ (x = r /\ i = j /\ t = SlotAt(j))
  BY <1>0, <1>3, <1>5 DEF MarkedIn
<1>7. /\ \A x \in Run : Launched(x)' <=> Launched(x)
      /\ \A x, y \in Run : SameSlot(x, y)' <=> SameSlot(x, y)
  BY <1>0, <1>5 DEF Launched, SameSlot
<1>8. /\ last'[j] = at /\ \A i \in Job : i # j => last'[i] = last[i]
      /\ running'[j] = r /\ \A i \in Job : i # j => running'[i] = running[i]
  BY <1>0, <1>1, <1>2, <1>4
<1>9. /\ LastMark(j)' = SlotAt(j) /\ (HasSlot(j) => LastSlot(j)' = SlotAt(j))
      /\ \A i \in Job : i # j => LastMark(i)' = LastMark(i) /\ LastSlot(i)' = LastSlot(i)
  <2>1. ~(last'[j] < 0)
    BY <1>0, <1>1, <1>8
  <2>2. LastSlot(j)' = SlotOf(j, last'[j])
    BY <2>1, <1>5 DEF LastSlot, SlotOf
  <2>3. LastMark(j)' = SlotAt(j) /\ (HasSlot(j) => LastSlot(j)' = SlotAt(j))
    BY <1>0, <1>5, <1>8, <2>2 DEF LastMark, SlotAt, SlotNow, HasSlot
  <2>4. \A i \in Job : i # j => LastMark(i)' = LastMark(i) /\ LastSlot(i)' = LastSlot(i)
    BY <1>0, <1>8 DEF LastMark, LastSlot, SlotOf, HasSlot
  <2>5. QED
    BY <2>3, <2>4
<1>10. /\ LastMark(j) \in Int /\ SlotAt(j) \in Int /\ LastMark(j) <= SlotAt(j)
       /\ HasSlot(j) => LastMark(j) = LastSlot(j)
  BY <1>0, <1>2, MarkGrows
<1>11. TimesKnown'
  BY <1>0, <1>2, <1>4, <1>8, <1>1 DEF TimesKnown
<1>12. MarksArePast' /\ RunsInOrder'
  <2>1. ASSUME NEW x \in Run, run'[x].marked
        PROVE  /\ run[x].job \in Job /\ last'[run[x].job] >= 0
               /\ run[x].slot <= LastMark(run[x].job)' /\ Launched(x)
    <3>1. run[x].slot \in Int
      BY <1>0, <1>1 DEF RunType
    <3>2. CASE x = r
      <4>1. Launched(r)
        BY <1>2 DEF OverlapInv, FreshLaunch, Launched
      <4>2. run[r].slot <= LastMark(j)' /\ last'[j] >= 0
        BY <1>1, <1>3, <1>8, <1>9, <1>10
      <4>3. run'[r].job = j
        BY <1>0, <1>5
      <4>4. QED
        BY <1>0, <3>2, <4>1, <4>2, <4>3
    <3>3. CASE x # r /\ run[x].job = j
      <4>1. run[x].slot <= LastMark(j) /\ Launched(x)
        BY <1>0, <1>5, <2>1, <3>3 DEF MarksArePast
      <4>2. run[x].slot <= LastMark(j)' /\ last'[j] >= 0
        BY <1>1, <1>8, <1>9, <1>10, <3>1, <4>1
      <4>3. run'[x].job = j
        BY <1>5, <3>3
      <4>4. QED
        BY <1>0, <3>3, <4>1, <4>2, <4>3
    <3>4. CASE x # r /\ run[x].job # j
      BY <1>0, <1>5, <1>7, <1>8, <1>9, <2>1, <3>4 DEF MarksArePast
    <3>5. QED
      BY <3>2, <3>3, <3>4
  <2>2. QED
    BY <1>5, <1>7, <2>1 DEF MarksArePast, RunsInOrder
<1>13. FreshIsNewest'
  BY <1>0, <1>4 DEF FreshIsNewest
<1>14. AwaitingRetry'
  <2> SUFFICES ASSUME NEW i \in Job, retrySlot[i] # Never
               PROVE  /\ HasSlot(i) /\ last'[i] >= 0 /\ retrySlot[i] <= LastSlot(i)'
                      /\ \A a, b \in Run :
                           MarkedIn(a, i, retrySlot[i])' /\ MarkedIn(b, i, retrySlot[i])' =>
                             a = b /\ run'[a].stage = "failed"
    BY <1>0, <1>4 DEF AwaitingRetry, MarkedIn
  <2>1. retrySlot[i] \in Int
    BY DEF OverlapInv, SchedulerTypeOK
  <2>2. /\ HasSlot(i) /\ last[i] >= 0 /\ retrySlot[i] <= LastSlot(i)
        /\ \A a, b \in Run : MarkedIn(a, i, retrySlot[i]) /\ MarkedIn(b, i, retrySlot[i]) =>
             a = b /\ run[a].stage = "failed"
    BY DEF AwaitingRetry
  <2>3. last'[i] >= 0 /\ retrySlot[i] <= LastSlot(i)'
    BY <1>0, <1>1, <1>8, <1>9, <1>10, <2>1, <2>2
  <2>4. \A a \in Run : MarkedIn(a, i, retrySlot[i])' <=> MarkedIn(a, i, retrySlot[i])
    <3>1. ~(i = j /\ retrySlot[i] = SlotAt(j))
      BY <1>0, <1>3
    <3>2. QED
      BY <1>0, <1>4, <1>6, <3>1
  <2>5. QED
    BY <1>0, <1>5, <2>2, <2>3, <2>4
<1>15. RunningIsLast'
  <2> SUFFICES ASSUME NEW i \in Job, running'[i] # 0
               PROVE  /\ run'[running'[i]].marked /\ run'[running'[i]].job = i
                      /\ run'[running'[i]].slot = LastMark(i)'
                      /\ HasSlot(i) /\ retriedSlot[i] # LastSlot(i)' =>
                           \A a \in Run : run'[a].marked /\ run'[a].job = i
                                          /\ run'[a].slot = LastSlot(i)' => a = running'[i]
    BY <1>0, <1>4 DEF RunningIsLast, MarkedIn
  <2>1. CASE i = j
    BY <1>0, <1>3, <1>5, <1>8, <1>9, <2>1 DEF MarkedIn
  <2>2. CASE i # j
    <3>1. running[i] \in Run /\ running'[i] = running[i]
      BY <1>0, <1>1, <1>8, <2>2
    <3>2. MarkedIn(running[i], i, LastMark(i))
      BY <3>1 DEF RunningIsLast
    <3>3. \A a \in Run : HasSlot(i) /\ retriedSlot[i] # LastSlot(i) /\ MarkedIn(a, i, LastSlot(i))
                         => a = running[i]
      BY <3>1 DEF RunningIsLast
    <3>4. LastMark(i)' = LastMark(i) /\ LastSlot(i)' = LastSlot(i)
      BY <1>9, <2>2
    <3>5. QED
      BY <1>0, <1>5, <2>2, <3>1, <3>2, <3>3, <3>4 DEF MarkedIn
  <2>3. QED
    BY <2>1, <2>2
<1>16. LaterRetries'
  <2>1. \A s \in Run : Launched(s) => ~(r < s)
    BY <1>0, <1>1, <1>3
  <2>2. QED
    BY <1>0, <1>5, <1>7, <2>1 DEF LaterRetries
<1>17. TwicePerSlot'
  <2>1. \A x, y \in Run : run[x].marked /\ run[y].marked /\ SameSlot(x, r) /\ SameSlot(y, r) =>
          x = y /\ HasSlot(j)
    BY <1>0, <1>3 DEF MarkedIn, SameSlot
  <2>2. \A x, y, z \in Run : /\ SameSlot(x, y) => SameSlot(y, x)
                             /\ SameSlot(x, y) /\ SameSlot(y, z) => SameSlot(x, z)
                             /\ SameSlot(x, r) => run[x].job = j
    BY <1>0 DEF SameSlot
  <2> SUFFICES ASSUME NEW a \in Run, NEW b \in Run, NEW c \in Run,
                      run'[a].marked, run'[b].marked, run'[c].marked,
                      SameSlot(a, b), SameSlot(a, c)
               PROVE  (a = b \/ a = c \/ b = c) /\ (~HasSlot(run[a].job) => a = b)
    BY <1>0, <1>5, <1>7 DEF TwicePerSlot
  <2>3. CASE a # r /\ b # r /\ c # r
    BY <1>0, <1>5, <2>3 DEF TwicePerSlot
  <2>4. CASE a = r \/ b = r \/ c = r
    <3>1. SameSlot(a, r) /\ SameSlot(b, r) /\ SameSlot(c, r) /\ run[a].job = j
      BY <2>2, <2>4
    <3>2. /\ a = r \/ run[a].marked
          /\ b = r \/ run[b].marked
          /\ c = r \/ run[c].marked
      BY <1>0, <1>5
    <3>3. QED
      BY <2>1, <3>1, <3>2
  <2>5. QED
    BY <2>3, <2>4
<1>18. QED
  BY <1>0, <1>11, <1>12, <1>13, <1>14, <1>15, <1>16, <1>17

LEMMA BeginTickKeepsSlots ==
  ASSUME RetryInv, BeginTick
  PROVE  SlotInv'
<1> USE DEF RetryInv, SlotInv
<1>1. /\ fresh = {} /\ fresh' = {} /\ worker = "loop" /\ worker' = "launch" /\ at' = now
      /\ UNCHANGED <<now, last, run, retriedSlot>>
  BY DEF BeginTick, OverlapInv, FreshLaunch
<1>2. /\ \A i : LastMark(i)' = LastMark(i) /\ LastSlot(i)' = LastSlot(i)
      /\ \A x, i, t : MarkedIn(x, i, t)' <=> MarkedIn(x, i, t)
      /\ \A x, y : Launched(x)' <=> Launched(x) /\ (SameSlot(x, y)' <=> SameSlot(x, y))
  BY <1>1 DEF LastMark, LastSlot, HasSlot, SlotOf, MarkedIn, Launched, SameSlot
<1>3. TimesKnown' /\ FreshIsNewest'
  BY <1>1 DEF TimesKnown, FreshIsNewest
<1>4. MarksArePast' /\ RunsInOrder' /\ LaterRetries' /\ TwicePerSlot'
  BY <1>1 DEF MarksArePast, RunsInOrder, LaterRetries, TwicePerSlot, LastMark, LastSlot, HasSlot,
              SlotOf, Launched, SameSlot
<1>5. ASSUME NEW j \in Job, retrySlot'[j] # Never
      PROVE  /\ HasSlot(j) /\ last[j] >= 0 /\ retrySlot'[j] <= LastSlot(j)
             /\ \A a, b \in Run : MarkedIn(a, j, retrySlot'[j]) /\ MarkedIn(b, j, retrySlot'[j]) =>
                  a = b /\ run[a].stage = "failed"
  <2>1. CASE WantsRetry(j)
    <3>1. /\ retrySlot'[j] = LastSlot(j) /\ HasSlot(j) /\ last[j] >= 0
          /\ run[running[j]].stage = "failed"
          /\ running[j] # 0 /\ retriedSlot[j] # LastSlot(j)
      BY <2>1 DEF BeginTick, WantsRetry, Done
    <3>2. \A a \in Run : MarkedIn(a, j, LastSlot(j)) => a = running[j]
      BY <3>1 DEF RunningIsLast
    <3>3. LastSlot(j) \in Int
      BY SlotIsInt DEF LastSlot, OverlapInv, SchedulerTypeOK
    <3>4. QED
      BY <3>1, <3>2, <3>3
  <2>2. CASE ~WantsRetry(j)
    <3>1. retrySlot'[j] = retrySlot[j]
      BY <2>2 DEF BeginTick
    <3>2. QED
      BY <1>5, <3>1 DEF AwaitingRetry
  <2>3. QED
    BY <2>1, <2>2
<1>6. AwaitingRetry'
  BY <1>1, <1>2, <1>5 DEF AwaitingRetry, MarkedIn
<1>7. RunningIsLast'
  <2>1. \A j \in Job : running'[j] # 0 => running'[j] = running[j]
    BY DEF BeginTick
  <2>2. QED
    BY <1>1, <1>2, <2>1 DEF RunningIsLast, MarkedIn
<1>8. QED
  BY <1>3, <1>4, <1>6, <1>7

LEMMA WorkerStepKeepsSlots ==
  ASSUME RetryInv, WorkerStep
  PROVE  SlotInv'
<1>1. run \in [Run -> RunType] /\ now \in Nat /\ now' \in Int
  BY RunsType, WorkerStepType DEF RetryInv, OverlapInv, SchedulerTypeOK
<1>2. CASE Start \/ Drained \/ EndTick
  BY <1>1, <1>2, QuietSlots DEF Start, Drained, EndTick
<1>3. CASE RecoverJobs \/ RecoverStaleRuns
  <2>1. PICK status \in {"failed", "interrupted"} : CloseRows(status)
    BY <1>3 DEF RecoverJobs, RecoverStaleRuns
  <2>2. \A r \in Run : /\ run'[r].job = run[r].job /\ run'[r].stage = run[r].stage
                       /\ run'[r].slot = run[r].slot /\ run'[r].marked = run[r].marked
    BY <1>1, <2>1 DEF CloseRows, RunType
  <2>3. QED
    BY <1>1, <1>3, <2>2, QuietSlots DEF RecoverJobs, RecoverStaleRuns
<1>4. CASE Baseline
  <2>1. /\ fresh = {} /\ fresh' = {} /\ worker' = "loop"
        /\ UNCHANGED <<now, run, running, retrySlot, retriedSlot>>
    BY <1>4 DEF Baseline, RetryInv, OverlapInv, FreshLaunch
  <2>2. \A i \in Job : /\ last'[i] >= 0 /\ last'[i] <= now
                       /\ last[i] >= 0 => last'[i] = last[i]
    BY <1>1, <1>4 DEF Baseline, RetryInv, OverlapInv, SchedulerTypeOK, SlotInv, TimesKnown
  <2>3. \A i \in Job : last[i] >= 0 => LastMark(i)' = LastMark(i) /\ LastSlot(i)' = LastSlot(i)
    BY <2>2 DEF LastMark, LastSlot, HasSlot, SlotOf
  <2>4. TimesKnown' /\ FreshIsNewest'
    BY <2>1, <2>2 DEF TimesKnown, FreshIsNewest
  <2>5. RunsInOrder' /\ LaterRetries' /\ TwicePerSlot'
    BY <2>1 DEF RetryInv, SlotInv, RunsInOrder, LaterRetries, TwicePerSlot, Launched, SameSlot
  <2>6. MarksArePast'
    BY <2>1, <2>2, <2>3 DEF RetryInv, SlotInv, MarksArePast, Launched
  <2>7. AwaitingRetry'
    BY <2>1, <2>2, <2>3 DEF RetryInv, SlotInv, AwaitingRetry, MarkedIn
  <2>8. RunningIsLast'
    <3>0. running \in [Job -> Run \cup {0}]
      BY DEF RetryInv, OverlapInv, SchedulerTypeOK
    <3>1. \A i \in Job : running[i] # 0 => running[i] \in Run /\ last[i] >= 0
      <4> SUFFICES ASSUME NEW i \in Job, running[i] # 0
                   PROVE  running[i] \in Run /\ last[i] >= 0
        OBVIOUS
      <4>1. running[i] \in Run
        BY <3>0
      <4>2. run[running[i]].marked /\ run[running[i]].job = i
        BY DEF RetryInv, SlotInv, RunningIsLast, MarkedIn
      <4>3. QED
        BY <4>1, <4>2 DEF RetryInv, SlotInv, MarksArePast
    <3>2. QED
      BY <2>1, <2>3, <3>1 DEF RetryInv, SlotInv, RunningIsLast, MarkedIn
  <2>9. QED
    BY <2>4, <2>5, <2>6, <2>7, <2>8 DEF SlotInv
<1>5. ASSUME NEW j \in Job, SkipJob(j) PROVE SlotInv'
  BY <1>1, <1>5, QuietSlots DEF SkipJob
<1>6. ASSUME NEW j \in Job, LaunchRetry(j) \/ LaunchDue(j) PROVE SlotInv'
  <2>1. /\ LaunchRun(j) /\ worker = "launch" /\ running[j] = 0
        /\ UNCHANGED <<now, last, worker, at, running>>
    BY <1>6 DEF LaunchRetry, LaunchDue
  <2>2. PICK r \in Run :
          /\ run[r].stage = "unused" /\ fresh' = {r}
          /\ \A s \in Run : run[s].stage = "unused" => r <= s
          /\ run' = [run EXCEPT ![r] = [NoRun EXCEPT !.job = j, !.stage = "queued",
                                           !.slot = SlotAt(j), !.life = lives]]
    BY <2>1 DEF LaunchRun, SlotAt
  <2>3. /\ retrySlot \in [Job -> Int] /\ retriedSlot \in [Job -> Int]
    BY DEF RetryInv, OverlapInv, SchedulerTypeOK
  <2>4. /\ LastMark(j) \in Int /\ SlotAt(j) \in Int /\ SlotAt(j) # Never
        /\ HasSlot(j) => LastMark(j) = LastSlot(j) /\ SlotAt(j) = SlotNow(j)
    BY <2>1, MarkGrows DEF SlotAt
  <2>5. CASE LaunchRetry(j)
    <3>1. /\ HasSlot(j) /\ retrySlot[j] = SlotAt(j)
          /\ \A a, b \in Run : MarkedIn(a, j, SlotAt(j)) /\ MarkedIn(b, j, SlotAt(j)) =>
               a = b /\ run[a].stage = "failed"
      BY <2>1, <2>5, RetryIsSecond DEF LaunchRetry
    <3>2. /\ retriedSlot'[j] = SlotAt(j) /\ retrySlot'[j] = Never
          /\ \A i \in Job : i # j => retriedSlot'[i] = retriedSlot[i] /\ retrySlot'[i] = retrySlot[i]
      BY <2>3, <2>4, <2>5, <3>1 DEF LaunchRetry
    <3>3. /\ \A i \in Job : i # j => retriedSlot'[i] = retriedSlot[i]
          /\ \A i \in Job : retrySlot'[i] \in {retrySlot[i], Never}
          /\ retrySlot'[j] # SlotAt(j)
      BY <2>4, <3>2
    <3>4. \A a, b \in Run : MarkedIn(a, j, SlotAt(j)) /\ MarkedIn(b, j, SlotAt(j)) =>
             /\ a = b /\ run[a].stage = "failed"
             /\ HasSlot(j) /\ retriedSlot'[j] = SlotAt(j)
      BY <3>1, <3>2
    <3>5. QED
      BY <2>1, <2>2, <3>3, <3>4, LaunchKeepsSlots
  <2>6. CASE LaunchDue(j)
    <3>1. SlotAt(j) > LastMark(j) /\ \A a \in Run : ~MarkedIn(a, j, SlotAt(j))
      BY <2>1, <2>6, DueIsNew DEF LaunchDue
    <3>2. /\ retrySlot' = retrySlot
          /\ \A i \in Job : i # j => retriedSlot'[i] = retriedSlot[i]
      BY <2>3, <2>6 DEF LaunchDue
    <3>3. retrySlot[j] # SlotAt(j)
      BY <2>3, <2>4, <3>1 DEF RetryInv, SlotInv, AwaitingRetry
    <3>4. QED
      BY <2>1, <2>2, <3>1, <3>2, <3>3, LaunchKeepsSlots
  <2>7. QED
    BY <1>6, <2>5, <2>6
<1>7. QED
  BY <1>2, <1>3, <1>4, <1>5, <1>6, BeginTickKeepsSlots, WriteDownKeepsSlots DEF WorkerStep

LEMMA RetryInvCorrect == SchedulerSpec => []RetryInv
<1>1. SchedulerInit => RetryInv
  BY OverlapInvInit, SlotInvInit DEF RetryInv
<1>2. RetryInv /\ OverlapInv' /\ [SchedulerNext]_schedulerVars => RetryInv'
  <2> SUFFICES ASSUME RetryInv, [SchedulerNext]_schedulerVars PROVE SlotInv'
    BY DEF RetryInv
  <2>1. CASE UNCHANGED schedulerVars
    BY <2>1, QuietSlots DEF schedulerVars, RetryInv, OverlapInv, SchedulerTypeOK
  <2>2. QED
    BY <2>1, OutsideKeepsSlots, RunStepKeepsSlots, WorkerStepKeepsSlots DEF SchedulerNext
<1>3. QED
  BY <1>1, <1>2, OverlapInvCorrect, PTL DEF SchedulerSpec

LEMMA AtMostTwo ==
  ASSUME NEW S, \A a, b, c \in S : a = b \/ a = c \/ b = c
  PROVE  Cardinality(S) \in Nat /\ Cardinality(S) <= 2
<1>1. CASE S = {}
  BY <1>1, FS_EmptySet
<1>2. CASE S # {}
  <2>1. PICK a \in S : TRUE
    BY <1>2
  <2>2. IsFiniteSet({a}) /\ Cardinality({a}) = 1
    BY FS_Singleton
  <2>3. CASE S = {a}
    BY <2>2, <2>3
  <2>4. CASE S # {a}
    <3>1. PICK b \in S : b # a
      BY <2>1, <2>4
    <3>2. S = {a} \cup {b}
      BY <2>1, <3>1
    <3>3. Cardinality({a} \cup {b}) = 2
      BY <2>2, <3>1, FS_AddElement
    <3>4. QED
      BY <3>2, <3>3
  <2>5. QED
    BY <2>3, <2>4
<1>3. QED
  BY <1>1, <1>2

LEMMA AtMostOne ==
  ASSUME NEW S, \A a, b \in S : a = b
  PROVE  Cardinality(S) \in Nat /\ Cardinality(S) <= 1
<1>1. CASE S = {}
  BY <1>1, FS_EmptySet
<1>2. CASE S # {}
  <2>1. PICK a \in S : S = {a}
    BY <1>2
  <2>2. Cardinality({a}) = 1
    BY FS_Singleton
  <2>3. QED
    BY <2>1, <2>2
<1>3. QED
  BY <1>1, <1>2

(* A slot is launched at most twice, the minute of a daily job once, however
   many workers follow each other: a restart forgets what was retried, but then
   nothing of the slot is in the dictionary `running` either, and `last` keeps the
   slot from being launched again. *)
THEOREM RetriedOnceCorrect == SchedulerSpec => []RetriedOnce
<1>1. RetryInv => RetriedOnce
  <2> SUFFICES ASSUME RetryInv, NEW r \in Run, Launched(r)
               PROVE  Cardinality({s \in Run : Launched(s) /\ SameSlot(r, s) /\ run[s].marked})
                        <= IF HasSlot(run[r].job) THEN 2 ELSE 1
    BY DEF RetriedOnce
  <2> DEFINE S == {s \in Run : Launched(s) /\ SameSlot(r, s) /\ run[s].marked}
  <2>1. \A a, b, c \in S : a = b \/ a = c \/ b = c
    BY DEF RetryInv, SlotInv, TwicePerSlot, SameSlot
  <2>2. ~HasSlot(run[r].job) => \A a, b \in S : a = b
    BY DEF RetryInv, SlotInv, TwicePerSlot, SameSlot
  <2> HIDE DEF S
  <2>3. Cardinality(S) <= 2 /\ (~HasSlot(run[r].job) => Cardinality(S) <= 1)
    BY <2>1, <2>2, AtMostOne, AtMostTwo
  <2>4. QED
    BY <2>3 DEF S
<1>2. QED
  BY <1>1, RetryInvCorrect, PTL

(* What succeeded is not launched again in its slot, after a restart neither. *)
THEOREM OnlyFailuresRepeatedCorrect == SchedulerSpec => []OnlyFailuresRepeated
<1>1. RetryInv => OnlyFailuresRepeated
  BY DEF RetryInv, SlotInv, LaterRetries, OnlyFailuresRepeated
<1>2. QED
  BY <1>1, RetryInvCorrect, PTL
=============================================================================
