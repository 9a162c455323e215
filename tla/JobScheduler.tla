---------------------------- MODULE JobScheduler ----------------------------
(***************************************************************************)
(* The gateway worker as a job scheduler: astra_gateway/scheduler.py and   *)
(* worker.py, the job tables of store.py, and the two locks the trading    *)
(* script takes (single_trader_cycle in scripts/ai_factor_trader.py).      *)
(*                                                                         *)
(* One worker at a time holds the gateway lock.  Each turn of its loop is  *)
(* a tick: finished runs are reaped, then every job is looked at in turn   *)
(* and launched if it is due.  Runs wait in a thread pool; a thread opens  *)
(* a row in job_runs, starts the script and closes the row.  The worker    *)
(* may be stopped (its threads finish what is queued) or killed (its       *)
(* scripts may live on without it).                                        *)
(*                                                                         *)
(* Time is counted in half minutes, the width of the launch window of a    *)
(* staggered job; starting up and ticking take no time on that scale.      *)
(***************************************************************************)
EXTENDS Integers, FiniteSets

CONSTANTS
  Job,
  Kind,            \* "aligned", "offset", "elapsed" or "daily"
  Interval, Offset,\* interval_seconds and offset_seconds, in half minutes
  Minutes,         \* the minutes at which a daily job runs
  Trader,          \* the job that runs the trading cycle
  Threads,         \* max_workers
  Run,             \* numbers of launches
  StartTime,       \* where the clock starts; what ran before, ran at 0
  MaxTime,         \* bound on the clock
  MaxLives,        \* bound on the workers started
  Faults           \* what may go wrong: "kill", "stop", "database"

(* JOBS of scheduler.py: an offset stays within its interval. *)
ASSUME SchedulerAssumption ==
  /\ Kind \in [Job -> {"aligned", "offset", "elapsed", "daily"}]
  /\ Interval \in [Job -> Nat \ {0}] /\ Offset \in [Job -> Nat]
  /\ \A j \in Job : Offset[j] < Interval[j]
  /\ Minutes \in [Job -> SUBSET Nat]
  /\ Threads \in Nat \ {0} /\ StartTime \in 0..MaxTime /\ MaxTime \in Nat /\ MaxLives \in Nat
  /\ Run \subseteq Nat \ {0}
  /\ Faults \subseteq {"kill", "stop", "database"}

VARIABLES
  now,
  last,            \* runtime_state: when each job was last launched, -1 = never
  worker,          \* where the worker is
  lives,           \* workers started so far
  at,              \* `now` of the tick being run
  todo,            \* jobs this tick has still to look at
  fresh,           \* launches submitted to the pool and not yet written down
  running,         \* GatewayScheduler.running: the run of each job, 0 = none
  retrySlot, retriedSlot, retryAt,  \* the three retry dictionaries
  run,             \* every run: its job, where it is, and its row in job_runs
  cycle,           \* the run that holds the trader lock, 0 = nobody
  slotFile,        \* TRADER_SLOT_FILE: slot and start of the last cycle
  traded           \* history: the runs that entered the trading cycle

dictionaries == <<running, retrySlot, retriedSlot, retryAt>>
trader == <<cycle, slotFile, traded>>
schedulerVars ==
  <<now, last, worker, lives, at, todo, fresh, dictionaries, run, trader>>

Never == -9     \* a slot that no time has
Stages == {"unused", "queued", "working", "ok", "failed", "orphan", "gone"}
Status == {"none", "running", "success", "failed", "interrupted"}

NoRun == [job |-> Trader, stage |-> "unused", row |-> "none", slot |-> Never,
          life |-> 0, marked |-> FALSE]

SchedulerTypeOK ==
  /\ now \in 0..MaxTime /\ at \in 0..MaxTime
  /\ last \in [Job -> -1..MaxTime]
  /\ worker \in {"down", "recover", "adopt", "baseline", "loop", "launch", "draining"}
  /\ lives \in 0..MaxLives
  /\ todo \subseteq Job /\ fresh \subseteq Run
  /\ running \in [Job -> Run \cup {0}]
  /\ retrySlot \in [Job -> Int] /\ retriedSlot \in [Job -> Int] /\ retryAt \in [Job -> Int]
  /\ run \in [Run -> [job : Job \cup {Trader}, stage : Stages, row : Status, slot : Int,
                      life : 0..MaxLives, marked : BOOLEAN]]
  /\ cycle \in Run \cup {0}
  /\ slotFile \in [slot : Int, start : Int]
  /\ traded \subseteq Run

-----------------------------------------------------------------------------
(* _slot() and due().  A daily job has no slot; it runs once in its minute. *)
SlotOf(j, t) == (t - Offset[j]) \div Interval[j]
SlotNow(j) == SlotOf(j, at)
LastSlot(j) == IF last[j] < 0 THEN -1 ELSE SlotOf(j, last[j])
HasSlot(j) == Kind[j] # "daily"

(* Slips: an aligned job too is launched in the first seconds of its slot only;
   a daily job is due all through its minute. *)
DueInWindow(j) ==
  CASE Kind[j] \in {"aligned", "offset"} ->
         SlotNow(j) > LastSlot(j) /\ (at - Offset[j]) % Interval[j] = 0
    [] Kind[j] = "elapsed" -> last[j] < 0 \/ at - last[j] >= Interval[j]
    [] OTHER -> at \div 2 \in Minutes[j] /\ (last[j] < 0 \/ last[j] \div 2 # at \div 2)

DueAllMinute(j) ==
  CASE Kind[j] = "aligned" -> SlotNow(j) > LastSlot(j)
    [] Kind[j] = "offset" -> SlotNow(j) > LastSlot(j) /\ (at - Offset[j]) % Interval[j] = 0
    [] Kind[j] = "elapsed" -> last[j] < 0 \/ at - last[j] >= Interval[j]
    [] OTHER -> at \div 2 \in Minutes[j]

Due(j) ==
  CASE Kind[j] = "aligned" -> SlotNow(j) > LastSlot(j)
    [] Kind[j] = "offset" -> SlotNow(j) > LastSlot(j) /\ (at - Offset[j]) % Interval[j] = 0
    [] Kind[j] = "elapsed" -> last[j] < 0 \/ at - last[j] >= Interval[j]
    [] OTHER -> at \div 2 \in Minutes[j] /\ (last[j] < 0 \/ last[j] \div 2 # at \div 2)

RetryDue(j) == HasSlot(j) /\ retrySlot[j] = SlotNow(j) /\ at >= retryAt[j]

SchedulerInit ==
  /\ now = StartTime /\ at = StartTime
  /\ last \in [Job -> {-1, 0}]
  /\ worker = "down" /\ lives = 0
  /\ todo = {} /\ fresh = {}
  /\ running = [j \in Job |-> 0]
  /\ retrySlot = [j \in Job |-> Never] /\ retriedSlot = [j \in Job |-> Never]
  /\ retryAt = [j \in Job |-> 0]
  /\ run = [r \in Run |-> NoRun]
  /\ cycle = 0 /\ slotFile = [slot |-> Never, start |-> 0] /\ traded = {}

-----------------------------------------------------------------------------
(* worker.run(): take the lock, then close what the last worker left open. *)

Clock ==
  /\ now < MaxTime
  /\ worker \in {"down", "loop", "draining"}
  /\ now' = now + 1
  /\ UNCHANGED <<last, worker, lives, at, todo, fresh, dictionaries, run, trader>>

Start ==
  /\ worker = "down" /\ lives < MaxLives
  /\ worker' = "recover" /\ lives' = lives + 1
  /\ UNCHANGED <<now, last, at, todo, fresh, dictionaries, run, trader>>

(* Slip: a worker closes its own rows only, and it has none yet. *)
CloseOwnRows(status) ==
  run' = [r \in Run |-> IF run[r].row = "running" /\ run[r].life = lives
                        THEN [run[r] EXCEPT !.row = status] ELSE run[r]]

CloseRows(status) ==
  run' = [r \in Run |-> IF run[r].row = "running" THEN [run[r] EXCEPT !.row = status] ELSE run[r]]

(* recover_jobs(), then recover_stale_job_runs(). *)
RecoverJobs ==
  /\ worker = "recover"
  /\ CloseRows("failed")
  /\ worker' = "adopt"
  /\ UNCHANGED <<now, last, lives, at, todo, fresh, dictionaries, trader>>

RecoverStaleRuns ==
  /\ worker = "adopt"
  /\ CloseRows("interrupted")
  /\ worker' = "baseline"
  /\ UNCHANGED <<now, last, lives, at, todo, fresh, dictionaries, trader>>

(* initialize_migration_baseline(): what never ran counts as just launched. *)
Baseline ==
  /\ worker = "baseline"
  /\ last' = [j \in Job |-> IF last[j] < 0 THEN now ELSE last[j]]
  /\ worker' = "loop"
  /\ UNCHANGED <<now, lives, at, todo, fresh, dictionaries, run, trader>>

-----------------------------------------------------------------------------
(* tick(): reap.  A failed run of a job with slots is noted for one retry, a
   minute from now, unless the slot it was launched in has been retried. *)

Done(j) == running[j] # 0 /\ run[running[j]].stage \in {"ok", "failed"}
WantsRetry(j) ==
  /\ Done(j) /\ HasSlot(j)
  /\ run[running[j]].stage = "failed"
  /\ last[j] >= 0 /\ retriedSlot[j] # LastSlot(j)

BeginTick ==
  /\ worker = "loop"
  /\ at' = now
  /\ running' = [j \in Job |-> IF Done(j) THEN 0 ELSE running[j]]
  /\ retrySlot' = [j \in Job |-> IF WantsRetry(j) THEN LastSlot(j) ELSE retrySlot[j]]
  /\ retryAt' = [j \in Job |-> IF WantsRetry(j) THEN now + 2 ELSE retryAt[j]]
  /\ todo' = Job
  /\ worker' = "launch"
  /\ UNCHANGED <<now, last, lives, fresh, retriedSlot, run, trader>>

(* The run is handed to the pool first; when it was launched is written down
   after that, so that the worker may be killed in between. *)
LaunchRun(j) ==
  \E r \in Run :
    /\ run[r].stage = "unused"
    /\ \A s \in Run : run[s].stage = "unused" => r <= s
    /\ run' = [run EXCEPT ![r] = [NoRun EXCEPT !.job = j, !.stage = "queued",
                                               !.slot = IF HasSlot(j) THEN SlotNow(j) ELSE at \div 2,
                                               !.life = lives]]
    /\ fresh' = {r}

SkipJob(j) ==
  /\ worker = "launch" /\ j \in todo /\ fresh = {}
  /\ running[j] # 0 \/ (~RetryDue(j) /\ ~Due(j))
  /\ todo' = todo \ {j}
  /\ UNCHANGED <<now, last, worker, lives, at, fresh, dictionaries, run, trader>>

(* Slip: the slot of a retry is not remembered. *)
LaunchRetryForgetting(j) ==
  /\ worker = "launch" /\ j \in todo /\ fresh = {}
  /\ running[j] = 0 /\ RetryDue(j)
  /\ retrySlot' = [retrySlot EXCEPT ![j] = Never]
  /\ LaunchRun(j)
  /\ UNCHANGED <<now, last, worker, lives, at, todo, running, retriedSlot, retryAt, trader>>

LaunchRetry(j) ==
  /\ worker = "launch" /\ j \in todo /\ fresh = {}
  /\ running[j] = 0 /\ RetryDue(j)
  /\ retrySlot' = [retrySlot EXCEPT ![j] = Never]
  /\ retriedSlot' = [retriedSlot EXCEPT ![j] = SlotNow(j)]
  /\ LaunchRun(j)
  /\ UNCHANGED <<now, last, worker, lives, at, todo, running, retryAt, trader>>

(* Slip: a job is launched although it is still running. *)
LaunchOverlapping(j) ==
  /\ worker = "launch" /\ j \in todo /\ fresh = {}
  /\ ~RetryDue(j) /\ Due(j)
  /\ retriedSlot' = IF HasSlot(j) THEN [retriedSlot EXCEPT ![j] = Never] ELSE retriedSlot
  /\ LaunchRun(j)
  /\ UNCHANGED <<now, last, worker, lives, at, todo, running, retrySlot, retryAt, trader>>

LaunchDue(j) ==
  /\ worker = "launch" /\ j \in todo /\ fresh = {}
  /\ running[j] = 0 /\ ~RetryDue(j) /\ Due(j)
  /\ retriedSlot' = IF HasSlot(j) THEN [retriedSlot EXCEPT ![j] = Never] ELSE retriedSlot
  /\ LaunchRun(j)
  /\ UNCHANGED <<now, last, worker, lives, at, todo, running, retrySlot, retryAt, trader>>

WriteDown(r) ==
  /\ worker = "launch" /\ r \in fresh
  /\ last' = [last EXCEPT ![run[r].job] = at]
  /\ running' = [running EXCEPT ![run[r].job] = r]
  /\ run' = [run EXCEPT ![r].marked = TRUE]
  /\ fresh' = {} /\ todo' = todo \ {run[r].job}
  /\ UNCHANGED <<now, worker, lives, at, retrySlot, retriedSlot, retryAt, trader>>

EndTick ==
  /\ worker = "launch" /\ todo = {}
  /\ worker' = "loop"
  /\ UNCHANGED <<now, last, lives, at, todo, fresh, dictionaries, run, trader>>

-----------------------------------------------------------------------------
(* _execute() in a thread of the pool. *)

Mine(r) == run[r].life = lives /\ worker # "down"

BeginRun(r) ==
  /\ Mine(r) /\ run[r].stage = "queued"
  /\ Cardinality({s \in Run : run[s].stage = "working"}) < Threads
  /\ \/ run' = [run EXCEPT ![r].stage = "working", ![r].row = "running"]
     \/ /\ "database" \in Faults
        /\ run' = [run EXCEPT ![r].stage = "failed"]
  /\ UNCHANGED <<now, last, worker, lives, at, todo, fresh, dictionaries, trader>>

(* The script returns, fails or is killed at its timeout, the row is closed;
   closing it may fail as well. *)
FinishAs(r, stage, row) ==
  /\ Mine(r) /\ run[r].stage = "working"
  /\ run' = [run EXCEPT ![r].stage = stage, ![r].row = row]
  /\ cycle' = IF cycle = r THEN 0 ELSE cycle
  /\ UNCHANGED <<now, last, worker, lives, at, todo, fresh, dictionaries, slotFile, traded>>

EntersCycle(r) == run[r].job = Trader => r \in traded

(* Slip: a script killed at its timeout closes its row with a status of its own,
   which neither the panel nor recovery knows. *)
RunFailsAsTimeout(r) == FinishAs(r, "failed", "timeout")
RunFails(r) == FinishAs(r, "failed", "failed")
RunEnds(r) == EntersCycle(r) /\ FinishAs(r, "ok", "success")
RunUnrecorded(r) == "database" \in Faults /\ FinishAs(r, "failed", "running")

-----------------------------------------------------------------------------
(* single_trader_cycle: the trading script enters its cycle under its own lock,
   unless another one runs or one was started in the same slot less than two
   minutes ago; then it ends at once, successfully. *)
TraderSlot == SlotOf(Trader, now)
Alive(r) == run[r].stage \in {"working", "orphan"}
JustStarted == slotFile.slot = TraderSlot /\ now - slotFile.start < 4

EnterCycle(r) ==
  /\ run[r].job = Trader /\ Alive(r) /\ r \notin traded
  /\ cycle = 0 /\ ~JustStarted
  /\ cycle' = r /\ traded' = traded \cup {r}
  /\ slotFile' = [slot |-> TraderSlot, start |-> now]
  /\ UNCHANGED <<now, last, worker, lives, at, todo, fresh, dictionaries, run>>

SkipCycle(r) ==
  /\ run[r].job = Trader /\ run[r].stage = "working" /\ r \notin traded
  /\ cycle # 0 \/ JustStarted
  /\ FinishAs(r, "ok", "success")

(* A script that outlived its worker ends; nobody closes its row. *)
OrphanEnds(r) ==
  /\ run[r].stage = "orphan"
  /\ run' = [run EXCEPT ![r].stage = "gone"]
  /\ cycle' = IF cycle = r THEN 0 ELSE cycle
  /\ UNCHANGED <<now, last, worker, lives, at, todo, fresh, dictionaries, slotFile, traded>>

-----------------------------------------------------------------------------
Forget ==
  /\ todo' = {} /\ fresh' = {}
  /\ running' = [j \in Job |-> 0]
  /\ retrySlot' = [j \in Job |-> Never] /\ retriedSlot' = [j \in Job |-> Never]
  /\ retryAt' = [j \in Job |-> 0]

(* SIGTERM ends the loop, an exception of set_state ends the tick; either way
   the interpreter waits for the threads, and the supervisor sees a live worker
   and starts no other.  (The last worker of a behaviour is left alone.) *)
Stop ==
  /\ lives < MaxLives
  /\ \/ "stop" \in Faults /\ worker = "loop"
     \/ "database" \in Faults /\ fresh # {}
  /\ worker' = "draining"
  /\ Forget
  /\ UNCHANGED <<now, last, lives, at, run, trader>>

Drained ==
  /\ worker = "draining"
  /\ \A r \in Run : run[r].stage \notin {"queued", "working"}
  /\ worker' = "down"
  /\ UNCHANGED <<now, last, lives, at, todo, fresh, dictionaries, run, trader>>

(* SIGKILL takes the threads with it; the scripts go too, or go on alone. *)
Kill ==
  /\ "kill" \in Faults /\ worker # "down" /\ lives < MaxLives
  /\ \E left \in SUBSET {r \in Run : run[r].stage = "working"} :
       /\ run' = [r \in Run |->
                    CASE r \in left -> [run[r] EXCEPT !.stage = "orphan"]
                      [] run[r].stage \in {"queued", "working"} /\ r \notin left ->
                           [run[r] EXCEPT !.stage = "gone"]
                      [] OTHER -> run[r]]
       /\ cycle' = IF cycle # 0 /\ (cycle \in left \/ run[cycle].stage = "orphan")
                   THEN cycle ELSE 0
  /\ worker' = "down"
  /\ Forget
  /\ UNCHANGED <<now, last, lives, at, slotFile, traded>>

-----------------------------------------------------------------------------
WorkerStep ==
  \/ Start \/ RecoverJobs \/ RecoverStaleRuns \/ Baseline
  \/ BeginTick \/ EndTick \/ Drained
  \/ \E j \in Job : SkipJob(j) \/ LaunchRetry(j) \/ LaunchDue(j)
  \/ \E r \in Run : WriteDown(r)

RunStep(r) ==
  \/ BeginRun(r) \/ RunFails(r) \/ RunEnds(r) \/ RunUnrecorded(r)
  \/ EnterCycle(r) \/ SkipCycle(r) \/ OrphanEnds(r)

SchedulerNext == Clock \/ Stop \/ Kill \/ WorkerStep \/ \E r \in Run : RunStep(r)

SchedulerSpec == SchedulerInit /\ [][SchedulerNext]_schedulerVars

(* The clock runs, the supervisor restarts a worker that is gone, the worker
   and its threads keep taking steps, and every script ends, at the latest by
   its timeout. *)
SchedulerFairness ==
  /\ WF_schedulerVars(Clock)
  /\ WF_schedulerVars(WorkerStep)
  /\ \A r \in Run : WF_schedulerVars(RunStep(r))

FairSchedulerSpec == SchedulerSpec /\ SchedulerFairness

-----------------------------------------------------------------------------
Unfinished(r) == run[r].stage \in {"queued", "working"}
SameSlot(r, s) == run[r].job = run[s].job /\ run[r].slot = run[s].slot
Launched(r) == run[r].stage # "unused"

(* One worker never has two runs of a job queued or at work, whatever the
   job's timeout is against its interval (the trader's is longer). *)
NoOverlap ==
  \A r, s \in Run :
    Unfinished(r) /\ Unfinished(s) /\ run[r].job = run[s].job => r = s

(* No job is launched more than twice in one slot, restarts included, not
   counting launches the worker was killed before writing down. *)
RetriedOnce ==
  \A r \in Run :
    Launched(r) =>
      Cardinality({s \in Run : Launched(s) /\ SameSlot(r, s) /\ run[s].marked})
        <= IF HasSlot(run[r].job) THEN 2 ELSE 1

(* Only a failure is repeated: of two launches in one slot the earlier one
   did not succeed, or its worker was stopped before writing it down. *)
OnlyFailuresRepeated ==
  \A r, s \in Run :
    /\ Launched(r) /\ Launched(s) /\ r < s
    /\ SameSlot(r, s) /\ run[r].marked
    => run[r].stage # "ok"

(* Every slot of an aligned job is served: once it has begun, the job is
   launched in it or, if a run was still at work, in a later one.  (The clock
   stops at its bound, so this speaks of the last slot as well.) *)
SlotsServed ==
  \A j \in Job :
    Kind[j] = "aligned" =>
      (SlotOf(j, now) > LastSlot(j) ~> LastSlot(j) = SlotOf(j, now))

(* The row of a run cut short by the death of its worker does not stay open for
   ever: some later worker closes it, and the panel shows no run that is over. *)
RowsClosed ==
  \A r \in Run :
    run[r].row = "running" /\ run[r].stage \in {"orphan", "gone"} ~> run[r].row # "running"
=============================================================================
