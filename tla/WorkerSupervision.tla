------------------------- MODULE WorkerSupervision -------------------------
(***************************************************************************)
(* Who starts and stops the gateway worker.                                *)
(*                                                                         *)
(* The supervisor thread of the backend (astra_gateway/supervisor.py)      *)
(* keeps one worker alive: every 10 s it looks at the PID file, at the     *)
(* child it started, and at the gateway lock.  Beside it a watchdog        *)
(* (scripts/astra_watchdog.sh gateway, judging by gateway_liveness.py)     *)
(* kills and replaces a worker whose loop no longer writes its heartbeat,  *)
(* and the watchdog of the backend restarts that.  A worker                *)
(* (astra_gateway/worker.py) takes the lock or leaves, registers its PID,  *)
(* writes its first heartbeat and loops; told to stop it gives up the lock *)
(* and lives on until its threads have finished.                           *)
(***************************************************************************)
EXTENDS Naturals, Sequences, FiniteSets, SequencesExt

CONSTANTS
  Pid,          \* process numbers
  NoPid,
  Probe,        \* the supervisor, holding the lock while it probes it
  MaxMishaps    \* bound on crashes, stuck loops and restarts

ASSUME SupervisionAssumption ==
  /\ IsFiniteSet(Pid) /\ NoPid \notin Pid /\ Probe \notin Pid /\ NoPid # Probe
  /\ MaxMishaps \in Nat

VARIABLES
  stage,      \* what each process is doing
  procs,      \* the live workers, oldest first
  told,       \* workers that got SIGTERM
  byWatchdog, \* workers that inherited the watchdog's lock
  lock,       \* who holds .astra_gateway.lock
  pidFile, heartbeat,
  backend,    \* the backend process
  sup,        \* where its supervisor thread is
  owned,      \* _owned_pid
  watchdog,   \* where the watchdog is
  fails,      \* its FAILS
  target,     \* the PID it is killing
  waited,     \* workers that were starting up at the last probe
  late,       \* history: workers started since the first failed probe
  mishaps

files == <<lock, pidFile, heartbeat>>
workers == <<stage, procs, told, byWatchdog>>
supervisor == <<backend, sup, owned>>
dog == <<watchdog, fails, target, waited, late>>
supervisionVars == <<workers, files, supervisor, dog, mishaps>>

Starting == {"started", "locked", "registered"}
Stages == Starting \cup {"none", "loop", "stuck", "draining"}

Live == {p \in Pid : stage[p] # "none"}

SupervisionTypeOK ==
  /\ stage \in [Pid -> Stages]
  /\ procs \in Seq(Pid) /\ Range(procs) = Live /\ IsInjective(procs)
  /\ told \subseteq Pid /\ byWatchdog \subseteq Pid
  /\ lock \in Pid \cup {NoPid, Probe} /\ pidFile \in Pid \cup {NoPid}
  /\ heartbeat \in {"missing", "fresh", "stale"}
  /\ backend \in {"up", "stopping", "down"} /\ owned \in Pid \cup {NoPid}
  /\ sup \in {"wait", "unlink", "child", "probe", "release", "spawn", "adopt"}
  /\ watchdog \in {"down", "sleep", "term", "kill", "spawn"} /\ fails \in 0..2
  /\ target \in Pid \cup {NoPid} /\ waited \subseteq Pid /\ late \subseteq Pid
  /\ mishaps \in 0..MaxMishaps

SupervisionInit ==
  /\ stage = [p \in Pid |-> "none"] /\ procs = <<>> /\ told = {} /\ byWatchdog = {}
  /\ lock = NoPid /\ pidFile = NoPid /\ heartbeat = "missing"
  /\ backend = "up" /\ sup = "wait" /\ owned = NoPid
  /\ watchdog = "sleep" /\ fails = 0 /\ target = NoPid /\ waited = {} /\ late = {}
  /\ mishaps = 0

Alive(p) == p \in Live
Scheduling == \E p \in Pid : stage[p] = "loop"
Mishap == mishaps < MaxMishaps /\ mishaps' = mishaps + 1

(* A process starts under a number nothing still refers to; it does not    *)
(* matter under which.                                                     *)
Unused == {p \in Pid : ~Alive(p) /\ p \notin {pidFile, owned}}
NewPid == CHOOSE p \in Unused : TRUE
Starts(p) ==
  /\ stage' = [stage EXCEPT ![p] = "started"] /\ procs' = Append(procs, p)
  /\ late' = IF fails > 0 THEN late \cup {p} ELSE late

(* A process ends; the kernel releases its lock.                           *)
Ends(p) ==
  /\ stage' = [stage EXCEPT ![p] = "none"] /\ procs' = SelectSeq(procs, LAMBDA q : q # p)
  /\ told' = told \ {p} /\ byWatchdog' = byWatchdog \ {p}
  /\ waited' = waited \ {p} /\ late' = late \ {p}
  /\ lock' = IF lock = p THEN NoPid ELSE lock
Gone(p) == Ends(p) /\ UNCHANGED <<pidFile, heartbeat, supervisor, watchdog, fails, target>>

-----------------------------------------------------------------------------
(* The worker: worker.run.                                                 *)
Goes(p, s) == stage' = [stage EXCEPT ![p] = s] /\ UNCHANGED <<procs, told, byWatchdog>>

TakeLock(p) ==
  /\ stage[p] = "started" /\ UNCHANGED mishaps
  /\ IF lock = NoPid
     THEN /\ lock' = p /\ Goes(p, "locked")
          /\ UNCHANGED <<pidFile, heartbeat, supervisor, dog>>
     ELSE Gone(p)

(* The PID file is written, then the signal handlers are installed.        *)
Register(p) ==
  /\ stage[p] = "locked" /\ Goes(p, "registered") /\ pidFile' = p
  /\ UNCHANGED <<lock, heartbeat, supervisor, dog, mishaps>>

(* Slip: the loop is entered without a heartbeat.                          *)
EnterLoopSilently(p) ==
  /\ stage[p] = "registered" /\ Goes(p, "loop") /\ waited' = waited \ {p}
  /\ UNCHANGED <<files, supervisor, watchdog, fails, target, late, mishaps>>

(* Recovery of the store, then the first heartbeat, then the loop.         *)
EnterLoop(p) ==
  /\ stage[p] = "registered" /\ Goes(p, "loop")
  /\ heartbeat' = "fresh" /\ waited' = waited \ {p}
  /\ UNCHANGED <<lock, pidFile, supervisor, watchdog, fails, target, late, mishaps>>

(* Told to stop, the loop ends, run returns and with it the lock goes; the *)
(* thread pool is not waited for, so the process stays until it is done.   *)
LeaveLoop(p) ==
  /\ stage[p] = "loop" /\ p \in told /\ Goes(p, "draining") /\ lock' = NoPid
  /\ UNCHANGED <<pidFile, heartbeat, supervisor, dog, mishaps>>

Drained(p) == stage[p] = "draining" /\ UNCHANGED mishaps /\ Gone(p)

Crash(p) == Alive(p) /\ Mishap /\ Gone(p)

Stick(p) ==
  /\ stage[p] = "loop" /\ Mishap /\ Goes(p, "stuck")
  /\ UNCHANGED <<files, supervisor, dog>>

(* LIVENESS_TIMEOUT passes without a turn of a loop.                       *)
HeartbeatExpires ==
  /\ heartbeat = "fresh" /\ ~Scheduling /\ heartbeat' = "stale"
  /\ UNCHANGED <<workers, lock, pidFile, supervisor, dog, mishaps>>

(* SIGTERM kills a worker that has no handler yet, and is only noted by    *)
(* one that has.                                                           *)
NoHandler == {p \in Pid : stage[p] \in {"started", "locked"}}
Terminate(P) ==
  LET killed == P \cap NoHandler
      live == SelectSeq(procs, LAMBDA q : q \notin killed)
  IN /\ stage' = [p \in Pid |-> IF p \in killed THEN "none" ELSE stage[p]]
     /\ procs' = live
     /\ told' = (told \cup (P \cap Live)) \ killed
     /\ byWatchdog' = byWatchdog \ killed
     /\ waited' = waited \ killed /\ late' = late \ killed
     /\ lock' = IF lock \in killed THEN NoPid ELSE lock

-----------------------------------------------------------------------------
(* The supervisor thread: one pass of ensure_worker.                       *)
ReadPidFile ==
  /\ backend = "up" /\ sup = "wait"
  /\ sup' = CASE Alive(pidFile) -> "wait" [] pidFile = NoPid -> "child" [] OTHER -> "unlink"
  /\ UNCHANGED <<workers, files, backend, owned, dog, mishaps>>

(* current_pid removes the file whatever it says by now.                   *)
UnlinkPidFile ==
  /\ sup = "unlink" /\ sup' = "child" /\ pidFile' = NoPid
  /\ UNCHANGED <<workers, lock, heartbeat, backend, owned, dog, mishaps>>

LookAtChild ==
  /\ sup = "child" /\ sup' = IF Alive(owned) THEN "wait" ELSE "probe"
  /\ UNCHANGED <<workers, files, backend, owned, dog, mishaps>>

(* _lock_held takes the lock to see whether it is free.                    *)
ProbeLock ==
  /\ sup = "probe"
  /\ IF lock = NoPid THEN lock' = Probe /\ sup' = "release"
                     ELSE sup' = "adopt" /\ UNCHANGED lock
  /\ UNCHANGED <<workers, pidFile, heartbeat, backend, owned, dog, mishaps>>

ReleaseProbe ==
  /\ sup = "release" /\ sup' = "spawn" /\ lock' = NoPid
  /\ UNCHANGED <<workers, pidFile, heartbeat, backend, owned, dog, mishaps>>

SpawnChild ==
  /\ sup = "spawn" /\ sup' = "wait"
  /\ Unused # {} /\ Starts(NewPid) /\ owned' = NewPid
  /\ UNCHANGED <<told, byWatchdog, files, backend, watchdog, fails, target, waited, mishaps>>

(* The lock is taken: the oldest live worker is written to the PID file.   *)
Adopt ==
  /\ sup = "adopt" /\ sup' = "wait"
  /\ IF procs = <<>> THEN UNCHANGED <<pidFile, owned>>
                     ELSE pidFile' = Head(procs) /\ owned' = NoPid
  /\ UNCHANGED <<workers, lock, heartbeat, backend, dog, mishaps>>

SupervisorStep ==
  \/ ReadPidFile \/ UnlinkPidFile \/ LookAtChild \/ ProbeLock \/ ReleaseProbe
  \/ SpawnChild \/ Adopt

(* stop_supervisor: SIGTERM to the own child, up to 8 s of waiting, and    *)
(* the PID file goes if the child has ended.  The thread finishes the pass *)
(* it is in.                                                               *)
StopBackend ==
  /\ backend = "up" /\ Mishap /\ backend' = "stopping"
  /\ Terminate({owned} \cap Pid)
  /\ UNCHANGED <<pidFile, heartbeat, sup, owned, watchdog, fails, target>>

LoseBackend ==
  /\ backend' = "down" /\ sup' = "wait" /\ owned' = NoPid
  /\ lock' = IF lock = Probe THEN NoPid ELSE lock

BackendStopped ==
  /\ backend = "stopping" /\ LoseBackend
  /\ pidFile' = IF owned # NoPid /\ ~Alive(owned) THEN NoPid ELSE pidFile
  /\ UNCHANGED <<workers, heartbeat, dog, mishaps>>

CrashBackend ==
  /\ backend # "down" /\ Mishap /\ LoseBackend
  /\ UNCHANGED <<workers, pidFile, heartbeat, dog>>

(* restart_backend of the other watchdog: kill_stale sends SIGTERM to      *)
(* every worker, then the backend starts its supervisor.                   *)
StartBackend ==
  /\ backend = "down" /\ backend' = "up" /\ Terminate(Pid)
  /\ UNCHANGED <<pidFile, heartbeat, sup, owned, watchdog, fails, target, mishaps>>

-----------------------------------------------------------------------------
(* The watchdog: a probe every 30 s, two failures in a row to act.  On     *)
(* that scale a pass of the supervisor takes no time, and a worker starts  *)
(* up in less than 30 s, so it sees one probe at most.                     *)
Healthy == Live # {} /\ heartbeat = "fresh"
ProbeHealth ==
  /\ watchdog = "sleep" /\ waited = {} /\ sup = "wait"
  /\ waited' = {p \in Pid : stage[p] \in Starting}
  /\ IF Healthy THEN fails' = 0 /\ late' = {} /\ UNCHANGED watchdog
     ELSE /\ fails' = fails + 1 /\ UNCHANGED late
          /\ watchdog' = IF fails = 1 THEN "term" ELSE watchdog
  /\ UNCHANGED <<workers, files, supervisor, target, mishaps>>

(* restart_gateway: SIGTERM to a worker, SIGKILL 2 s later, a new worker.  *)
SendTerm ==
  /\ watchdog = "term" /\ watchdog' = "kill"
  /\ IF Live = {} THEN target' = NoPid /\ Terminate({})
     ELSE \E p \in Live : target' = p /\ Terminate({p})
  /\ UNCHANGED <<pidFile, heartbeat, supervisor, fails, mishaps>>

(* Slip: SIGKILL is not sent.                                              *)
SendTermOnly ==
  /\ watchdog = "kill" /\ watchdog' = "spawn" /\ target' = NoPid
  /\ UNCHANGED <<workers, files, supervisor, fails, waited, late, mishaps>>

SendKill ==
  /\ watchdog = "kill" /\ watchdog' = "spawn" /\ target' = NoPid
  /\ IF Alive(target) THEN Ends(target) ELSE UNCHANGED <<workers, lock, waited, late>>
  /\ UNCHANGED <<pidFile, heartbeat, supervisor, fails, mishaps>>

(* The new worker inherits the descriptor of the watchdog's own lock.      *)
SpawnReplacement ==
  /\ watchdog = "spawn" /\ watchdog' = "sleep" /\ fails' = 0 /\ late' = {}
  /\ Unused # {}
  /\ stage' = [stage EXCEPT ![NewPid] = "started"] /\ procs' = Append(procs, NewPid)
  /\ byWatchdog' = byWatchdog \cup {NewPid}
  /\ UNCHANGED <<told, files, supervisor, target, waited, mishaps>>

WatchdogStep == ProbeHealth \/ SendTerm \/ SendKill \/ SpawnReplacement

CrashWatchdog ==
  /\ watchdog # "down" /\ Mishap /\ watchdog' = "down"
  /\ fails' = 0 /\ target' = NoPid /\ waited' = {} /\ late' = {}
  /\ UNCHANGED <<workers, files, supervisor>>

(* A new watchdog leaves again while a worker of the old one has its lock. *)
StartWatchdog ==
  /\ watchdog = "down" /\ byWatchdog = {} /\ watchdog' = "sleep"
  /\ UNCHANGED <<workers, files, supervisor, fails, target, waited, late, mishaps>>

-----------------------------------------------------------------------------
WorkerStep(p) == TakeLock(p) \/ Register(p) \/ EnterLoop(p) \/ LeaveLoop(p) \/ Drained(p)

SupervisionNext ==
  \/ \E p \in Pid : WorkerStep(p) \/ Crash(p) \/ Stick(p)
  \/ HeartbeatExpires
  \/ SupervisorStep \/ StopBackend \/ BackendStopped \/ CrashBackend \/ StartBackend
  \/ WatchdogStep \/ CrashWatchdog \/ StartWatchdog

SupervisionSpec == SupervisionInit /\ [][SupervisionNext]_supervisionVars

(* Processes and threads are scheduled, time passes, and the container     *)
(* starts again what it runs; nothing has to fail.  The supervisor holds   *)
(* the lock for an instant every 10 s, so a replacement does not hit upon  *)
(* that instant each time: without this last condition supervisor and      *)
(* watchdog may take turns at undoing each other's worker for ever.        *)
FairSupervisionSpec ==
  /\ SupervisionSpec
  /\ \A p \in Pid : WF_supervisionVars(WorkerStep(p))
  /\ WF_supervisionVars(HeartbeatExpires)
  /\ WF_supervisionVars(SupervisorStep) /\ SF_supervisionVars(WatchdogStep)
  /\ WF_supervisionVars(BackendStopped) /\ WF_supervisionVars(StartBackend)
  /\ WF_supervisionVars(StartWatchdog)
  /\ SF_supervisionVars(\E p \in byWatchdog : TakeLock(p) /\ lock' = p)

-----------------------------------------------------------------------------
(* Whatever crashes or gets stuck, a worker schedules again, with one      *)
(* exception: a stuck worker that the watchdog once started keeps the lock *)
(* of the dead watchdog, so that no new one can start to kill it.          *)
SchedulerReturns ==
  []<>(Scheduling \/ \E p \in byWatchdog : stage[p] = "stuck" /\ watchdog = "down")

(* The watchdog only kills a worker that is stuck or draining; one that is *)
(* fine it kills only if that started after a first probe had failed, so   *)
(* never over the heartbeat of the worker before it alone.                 *)
HealthyWorkersSpared ==
  [][\A p \in Pid :
       (watchdog = "term" /\ watchdog' = "kill" /\ target' = p) =>
         stage[p] \in {"stuck", "draining"} \/ p \in told \cup late]_supervisionVars
=============================================================================
