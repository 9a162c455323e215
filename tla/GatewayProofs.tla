--------------------------- MODULE GatewayProofs ---------------------------
(***************************************************************************)
(* Safety of two parts of the gateway.  The notification queue, for any    *)
(* events, deliveries, priorities and bounds: the inductive invariant      *)
(* relates the row a worker has claimed to where the worker is, and the    *)
(* counters of a row to its status.  The supervision of the worker, for    *)
(* any finite set of process numbers and any number of faults: the         *)
(* inductive invariant relates what the watchdog has concluded to what the *)
(* processes can be doing by then.                                         *)
(***************************************************************************)
EXTENDS DeliveryQueue, WorkerSupervision, FiniteSetTheorems, TLAPS

-----------------------------------------------------------------------------
(* The notification queue. *)

(* A claimed row is in processing, and only between claim and result is there
   one; the row of an event that was never published is untouched. *)
ClaimedIsProcessing ==
  /\ \A d \in cur : status[d] = "processing" /\ turn \in {"sending", "taken", "refused"}
  /\ cur = {} \/ \E d \in Delivery : cur = {d}

UnpublishedUntouched ==
  \A d \in Delivery : EventOf[d] \notin published =>
    status[d] = "absent" /\ attempts[d] = 0 /\ received[d] = 0

(* Rows refer to events that are there. *)
RowsHaveEvents == \A d \in Delivery : status[d] # "absent" => EventOf[d] \in events

(* An open row has an attempt left, and no attempt was counted that was not a
   refusal. *)
AttemptsCounted ==
  \A d \in Delivery :
    /\ status[d] \in Open => attempts[d] < MaxAttempts
    /\ attempts[d] <= refusals[d]

(* What has been sent and not yet written down as done is excused already. *)
SentTwiceExcused ==
  \A d \in Delivery :
    status[d] \in Open /\ ~(turn = "taken" /\ d \in cur) => received[d] <= excused[d]

TakenWasReceived == \A d \in cur : turn = "taken" => received[d] >= 1

QueueInv ==
  /\ QueueTypeOK
  /\ ClaimedIsProcessing
  /\ UnpublishedUntouched
  /\ RowsHaveEvents
  /\ AttemptsCounted
  /\ SentTwiceExcused
  /\ TakenWasReceived
  /\ CompletedWasReceived
  /\ RepeatsExcused
  /\ GivenUpAfterRefusals

LEMMA QueueInvInit == QueueInit => QueueInv
<1> SUFFICES ASSUME QueueInit PROVE QueueInv
  OBVIOUS
<1>1. QueueTypeOK
  BY QueueAssumption, FS_EmptySet DEF QueueInit, QueueTypeOK, Open, Completed
<1>2. QED
  BY <1>1, QueueAssumption
     DEF QueueInit, QueueInv, ClaimedIsProcessing, UnpublishedUntouched, RowsHaveEvents,
         AttemptsCounted, SentTwiceExcused, TakenWasReceived, CompletedWasReceived,
         RepeatsExcused, GivenUpAfterRefusals, Open, Completed

(* The steps, each under the whole invariant. *)
LEMMA PublishKeepsInv ==
  ASSUME QueueInv, NEW e \in Event, Publish(e)
  PROVE  QueueInv'
<1> USE QueueAssumption DEF QueueInv, tables, bounds, past, Open, Completed
<1>1. PICK enabled \in SUBSET {d \in Delivery : EventOf[d] = e} :
        /\ status' = [d \in Delivery |-> IF d \in enabled THEN "pending" ELSE status[d]]
        /\ due' = due \cup enabled
  BY DEF Publish
<1>2. QueueTypeOK'
  BY <1>1 DEF Publish, QueueTypeOK
<1>3. \A d \in enabled : status[d] = "absent" /\ attempts[d] = 0 /\ received[d] = 0 /\ d \notin cur
  BY DEF UnpublishedUntouched, Publish, ClaimedIsProcessing
<1>4. UnpublishedUntouched' /\ RowsHaveEvents' /\ ClaimedIsProcessing'
  BY <1>1, <1>3 DEF UnpublishedUntouched, RowsHaveEvents, ClaimedIsProcessing, Publish,
                    QueueTypeOK
<1>5. AttemptsCounted' /\ GivenUpAfterRefusals'
  BY <1>1, <1>3 DEF AttemptsCounted, GivenUpAfterRefusals, Publish, QueueTypeOK
<1>6. SentTwiceExcused' /\ RepeatsExcused'
  BY <1>1, <1>3 DEF SentTwiceExcused, RepeatsExcused, Publish, QueueTypeOK
<1>7. TakenWasReceived' /\ CompletedWasReceived'
  BY <1>1, <1>3 DEF TakenWasReceived, CompletedWasReceived, Publish, QueueTypeOK
<1>8. QED
  BY <1>2, <1>4, <1>5, <1>6, <1>7

LEMMA ReplayKeepsInv ==
  ASSUME QueueInv, NEW r \in Delivery, Replay(r)
  PROVE  QueueInv'
<1> USE QueueAssumption DEF QueueInv, tables, bounds, past, Open, Completed, Replay
<1>1. QueueTypeOK'
  BY DEF QueueTypeOK
<1>2. r \notin cur
  BY DEF ClaimedIsProcessing
<1>3. UnpublishedUntouched' /\ RowsHaveEvents' /\ ClaimedIsProcessing'
  BY <1>2 DEF UnpublishedUntouched, RowsHaveEvents, ClaimedIsProcessing, QueueTypeOK
<1>4. AttemptsCounted' /\ GivenUpAfterRefusals'
  BY DEF AttemptsCounted, GivenUpAfterRefusals, QueueTypeOK
<1>5. SentTwiceExcused' /\ RepeatsExcused'
  BY DEF SentTwiceExcused, RepeatsExcused, QueueTypeOK
<1>6. TakenWasReceived' /\ CompletedWasReceived'
  BY DEF TakenWasReceived, CompletedWasReceived, QueueTypeOK
<1>7. QED
  BY <1>1, <1>3, <1>4, <1>5, <1>6

(* Time, recovery and pruning change no counter and no claimed row. *)
LEMMA UpkeepKeepsInv ==
  ASSUME QueueInv,
         \/ \E e \in Event : GrowOld(e)
         \/ \E d \in Delivery : BecomeDue(d)
         \/ StartWorker \/ Prune
  PROVE  QueueInv'
<1> USE QueueAssumption DEF QueueInv, tables, row, bounds, past, Open, Completed
<1>1. ASSUME NEW e \in Event, GrowOld(e) PROVE QueueInv'
  BY <1>1 DEF GrowOld, QueueTypeOK, ClaimedIsProcessing, UnpublishedUntouched, RowsHaveEvents,
              AttemptsCounted, SentTwiceExcused, TakenWasReceived, CompletedWasReceived,
              RepeatsExcused, GivenUpAfterRefusals
<1>2. ASSUME NEW d \in Delivery, BecomeDue(d) PROVE QueueInv'
  BY <1>2 DEF BecomeDue, QueueTypeOK, ClaimedIsProcessing, UnpublishedUntouched, RowsHaveEvents,
              AttemptsCounted, SentTwiceExcused, TakenWasReceived, CompletedWasReceived,
              RepeatsExcused, GivenUpAfterRefusals
<1>3. ASSUME StartWorker PROVE QueueInv'
  <2>1. cur = {}
    BY <1>3 DEF StartWorker, ClaimedIsProcessing
  <2>2. \A d \in Delivery : \/ status'[d] = status[d]
                            \/ status[d] = "processing" /\ status'[d] = "retry"
    BY <1>3 DEF StartWorker
  <2>3. QueueTypeOK'
    BY <1>3 DEF StartWorker, QueueTypeOK
  <2>4. QED
    BY <1>3, <2>1, <2>2, <2>3
       DEF StartWorker, ClaimedIsProcessing, UnpublishedUntouched, RowsHaveEvents,
           AttemptsCounted, SentTwiceExcused, TakenWasReceived, CompletedWasReceived,
           RepeatsExcused, GivenUpAfterRefusals
<1>4. ASSUME Prune PROVE QueueInv'
  <2>1. cur = {}
    BY <1>4 DEF Prune, ClaimedIsProcessing
  <2>2. \A d \in Delivery : status'[d] \in {status[d], "absent"}
    BY <1>4 DEF Prune
  <2>3. QueueTypeOK'
    BY <1>4 DEF Prune, QueueTypeOK
  <2>4. RowsHaveEvents'
    BY <1>4, <2>2 DEF Prune, RowsHaveEvents
  <2>5. QED
    BY <1>4, <2>1, <2>2, <2>3, <2>4
       DEF Prune, ClaimedIsProcessing, UnpublishedUntouched,
           AttemptsCounted, SentTwiceExcused, TakenWasReceived, CompletedWasReceived,
           RepeatsExcused, GivenUpAfterRefusals
<1>5. QED
  BY <1>1, <1>2, <1>3, <1>4

LEMMA ClaimKeepsInv ==
  ASSUME QueueInv, NEW c \in Delivery, Claim(c)
  PROVE  QueueInv'
<1> USE QueueAssumption DEF QueueInv, tables, bounds, past, Open, Completed, Claim, Claimable
<1>1. QueueTypeOK'
  <2>1. Cardinality(cur') <= 1
    BY FS_Singleton
  <2>2. status' \in [Delivery -> Open \cup Completed \cup {"absent", "dead"}]
    BY DEF QueueTypeOK
  <2>3. QED
    BY <2>1, <2>2 DEF QueueTypeOK
<1>2. cur = {} /\ status[c] # "absent"
  BY DEF ClaimedIsProcessing
<1>3. \A d \in Delivery : d # c => status'[d] = status[d]
  BY DEF QueueTypeOK
<1>4. status'[c] = "processing"
  BY DEF QueueTypeOK
<1>5. QED
  BY <1>1, <1>2, <1>3, <1>4
     DEF ClaimedIsProcessing, UnpublishedUntouched, RowsHaveEvents, AttemptsCounted,
         SentTwiceExcused, TakenWasReceived, CompletedWasReceived, RepeatsExcused,
         GivenUpAfterRefusals

(* The channel's answers: the row stays as it is, only the histories move. *)
LEMMA AnswerKeepsInv ==
  ASSUME QueueInv, NEW c \in Delivery,
         Taken(c) \/ Refused(c) \/ AnswerLost(c) \/ CompleteFails(c)
  PROVE  QueueInv'
<1> USE QueueAssumption DEF QueueInv, tables, row, bounds, past, Open, Completed
<1>1. cur = {c} /\ cur' = cur /\ status' = status /\ status[c] = "processing"
  BY DEF ClaimedIsProcessing, Taken, Refused, AnswerLost, CompleteFails
<1>2. /\ \A d \in Delivery : d # c => received'[d] = received[d] /\ excused'[d] = excused[d]
      /\ received'[c] >= received[c] /\ excused'[c] >= excused[c]
      /\ received' \in [Delivery -> Nat] /\ excused' \in [Delivery -> Nat]
  BY DEF QueueTypeOK, Taken, Refused, AnswerLost, CompleteFails
<1>3. QueueTypeOK'
  <2>1. /\ turn' \in {"taken", "refused"} /\ faults' \in 0..MaxFaults
        /\ UNCHANGED <<events, published, old, attempts, due, replays, refusals>>
    BY DEF QueueTypeOK, Taken, Refused, AnswerLost, CompleteFails
  <2>2. Cardinality(cur') <= 1
    BY <1>1 DEF QueueTypeOK
  <2>3. QED
    BY <1>1, <1>2, <2>1, <2>2 DEF QueueTypeOK
<1>4. ClaimedIsProcessing' /\ RowsHaveEvents'
  BY <1>1 DEF ClaimedIsProcessing, RowsHaveEvents, Taken, Refused, AnswerLost, CompleteFails
<1>5. AttemptsCounted' /\ GivenUpAfterRefusals'
  BY <1>1 DEF AttemptsCounted, GivenUpAfterRefusals, Taken, Refused, AnswerLost, CompleteFails
<1>6. UnpublishedUntouched'
  BY <1>1, <1>2 DEF UnpublishedUntouched, Taken, Refused, AnswerLost, CompleteFails
<1>7. CompletedWasReceived'
  BY <1>1, <1>2 DEF CompletedWasReceived
<1>8. TakenWasReceived'
  BY <1>1 DEF TakenWasReceived, QueueTypeOK, Taken, Refused, AnswerLost, CompleteFails
<1>9. SentTwiceExcused' /\ RepeatsExcused'
  <2>1. CASE Taken(c)
    BY <1>1, <1>2, <2>1 DEF Taken, SentTwiceExcused, RepeatsExcused, QueueTypeOK
  <2>2. CASE Refused(c)
    BY <1>1, <2>2 DEF Refused, SentTwiceExcused, RepeatsExcused, QueueTypeOK
  <2>3. CASE AnswerLost(c)
    BY <1>1, <1>2, <2>3 DEF AnswerLost, SentTwiceExcused, RepeatsExcused, QueueTypeOK
  <2>4. CASE CompleteFails(c)
    BY <1>1, <1>2, <2>4 DEF CompleteFails, SentTwiceExcused, RepeatsExcused, QueueTypeOK
  <2>5. QED
    BY <2>1, <2>2, <2>3, <2>4
<1>10. QED
  BY <1>3, <1>4, <1>5, <1>6, <1>7, <1>8, <1>9

LEMMA CompleteKeepsInv ==
  ASSUME QueueInv, NEW c \in Delivery, Complete(c)
  PROVE  QueueInv'
<1> USE QueueAssumption DEF QueueInv, tables, bounds, past, Open, Completed, Complete
<1>1. status[c] = "processing" /\ received[c] >= 1
  BY DEF ClaimedIsProcessing, TakenWasReceived
<1>2. /\ status'[c] = "delivered"
      /\ \A d \in Delivery : d # c => status'[d] = status[d]
  BY DEF QueueTypeOK
<1>3. QueueTypeOK'
  BY FS_EmptySet DEF QueueTypeOK
<1>4. \A d \in Delivery : d # c => d \notin cur
  BY DEF ClaimedIsProcessing
<1>5. QED
  BY <1>1, <1>2, <1>3, <1>4
     DEF ClaimedIsProcessing, UnpublishedUntouched, RowsHaveEvents, AttemptsCounted,
         SentTwiceExcused, TakenWasReceived, CompletedWasReceived, RepeatsExcused,
         GivenUpAfterRefusals

LEMMA FailKeepsInv ==
  ASSUME QueueInv, NEW c \in Delivery, Fail(c)
  PROVE  QueueInv'
<1> USE QueueAssumption DEF QueueInv, tables, bounds, past, Open, Completed, Fail, FailAs
<1>1. status[c] = "processing" /\ attempts[c] < MaxAttempts /\ attempts[c] <= refusals[c]
  BY DEF ClaimedIsProcessing, AttemptsCounted
<1>2. /\ status'[c] = IF attempts[c] + 1 >= MaxAttempts THEN "dead" ELSE "retry"
      /\ attempts'[c] = attempts[c] + 1 /\ refusals'[c] = refusals[c] + 1
      /\ \A d \in Delivery : d # c =>
           status'[d] = status[d] /\ attempts'[d] = attempts[d] /\ refusals'[d] = refusals[d]
  BY DEF QueueTypeOK
<1>3. QueueTypeOK'
  BY <1>1, FS_EmptySet DEF QueueTypeOK
<1>4. \A d \in Delivery : d # c => d \notin cur
  BY DEF ClaimedIsProcessing
<1>5. AttemptsCounted' /\ GivenUpAfterRefusals'
  BY <1>1, <1>2 DEF AttemptsCounted, GivenUpAfterRefusals, QueueTypeOK
<1>6. QED
  BY <1>1, <1>2, <1>3, <1>4, <1>5
     DEF ClaimedIsProcessing, UnpublishedUntouched, RowsHaveEvents, SentTwiceExcused,
         TakenWasReceived, CompletedWasReceived, RepeatsExcused

LEMMA KillKeepsInv ==
  ASSUME QueueInv, Kill
  PROVE  QueueInv'
<1> USE QueueAssumption DEF QueueInv, tables, row, bounds, past, Open, Completed, Kill
<1>1. \A d \in Delivery : excused'[d] = IF turn = "taken" /\ d \in cur THEN excused[d] + 1
                                        ELSE excused[d]
  OBVIOUS
<1>2. QueueTypeOK'
  BY FS_EmptySet DEF QueueTypeOK
<1>3. SentTwiceExcused' /\ RepeatsExcused'
  BY <1>1 DEF SentTwiceExcused, RepeatsExcused, QueueTypeOK
<1>4. QED
  BY <1>2, <1>3
     DEF ClaimedIsProcessing, UnpublishedUntouched, RowsHaveEvents, AttemptsCounted,
         TakenWasReceived, CompletedWasReceived, GivenUpAfterRefusals

LEMMA StepKeepsInv == QueueInv /\ [QueueNext]_queueVars => QueueInv'
<1> SUFFICES ASSUME QueueInv, [QueueNext]_queueVars PROVE QueueInv'
  OBVIOUS
<1>1. CASE UNCHANGED queueVars
  BY <1>1 DEF queueVars, tables, row, bounds, past, QueueInv, QueueTypeOK, ClaimedIsProcessing,
              UnpublishedUntouched, RowsHaveEvents, AttemptsCounted, SentTwiceExcused,
              TakenWasReceived, CompletedWasReceived, RepeatsExcused, GivenUpAfterRefusals
<1>2. ASSUME NEW d \in Delivery, Deliver(d) PROVE QueueInv'
  BY <1>2, ClaimKeepsInv, AnswerKeepsInv, CompleteKeepsInv, FailKeepsInv DEF Deliver
<1>3. QED
  BY <1>1, <1>2, PublishKeepsInv, ReplayKeepsInv, UpkeepKeepsInv, KillKeepsInv DEF QueueNext

(* The invariant holds in every reachable state. *)
THEOREM QueueInvCorrect == QueueSpec => []QueueInv
BY QueueInvInit, StepKeepsInv, PTL DEF QueueSpec

-----------------------------------------------------------------------------
(* The rows, counters and the worker's place always have their types; above all
   an attempt counter never passes max_attempts. *)
THEOREM QueueTypeCorrect == QueueSpec => []QueueTypeOK
BY QueueInvCorrect, PTL DEF QueueInv

(* complete() is never reached for a message the channel did not take. *)
THEOREM CompletedWasReceivedCorrect == QueueSpec => []CompletedWasReceived
BY QueueInvCorrect, PTL DEF QueueInv

(* However often workers are killed, answers lost and writes refused, every
   repetition of a message is accounted for by one of these or by a replay. *)
THEOREM RepeatsExcusedCorrect == QueueSpec => []RepeatsExcused
BY QueueInvCorrect, PTL DEF QueueInv

(* fail() gives up only what has been refused max_attempts times. *)
THEOREM GivenUpAfterRefusalsCorrect == QueueSpec => []GivenUpAfterRefusals
BY QueueInvCorrect, PTL DEF QueueInv

(* prune() never drops an open delivery, nor the event it refers to. *)
THEOREM UnfinishedKeptCorrect == QueueSpec => UnfinishedKept
<1>1. QueueInv /\ [QueueNext]_queueVars
        => [\A d \in Delivery : status[d] \in Open
              => status'[d] # "absent" /\ EventOf[d] \in events']_queueVars
  <2> SUFFICES ASSUME QueueInv, QueueNext, NEW d \in Delivery, status[d] \in Open
               PROVE  status'[d] # "absent" /\ EventOf[d] \in events'
    OBVIOUS
  <2> USE DEF tables, row, bounds, past, Open, Completed
  <2>1. EventOf[d] \in events /\ status[d] # "absent"
    BY QueueAssumption DEF QueueInv, RowsHaveEvents
  <2>2. CASE Prune
    BY <2>1, <2>2 DEF Prune, Finished
  <2>3. CASE StartWorker \/ Kill \/ \E e \in Event : GrowOld(e)
    BY <2>1, <2>3 DEF StartWorker, Kill, GrowOld
  <2>4. ASSUME NEW e \in Event, Publish(e)
        PROVE  status'[d] # "absent" /\ EventOf[d] \in events'
    BY <2>1, <2>4 DEF Publish
  <2>5. ASSUME NEW c \in Delivery, BecomeDue(c) \/ Replay(c) \/ Deliver(c)
        PROVE  status'[d] # "absent" /\ EventOf[d] \in events'
    <3>1. events' = events
      BY <2>5 DEF BecomeDue, Replay, Deliver, Claim, Taken, Refused, AnswerLost, Complete,
                  CompleteFails, Fail, FailAs
    <3>2. status' = status \/ \E to : status' = [status EXCEPT ![c] = to] /\ to # "absent"
      BY <2>5, Zenon DEF BecomeDue, Replay, Deliver, Claim, Taken, Refused, AnswerLost, Complete,
                  CompleteFails, Fail, FailAs
    <3>3. QED
      BY <2>1, <3>1, <3>2 DEF QueueInv, QueueTypeOK
  <2>6. QED
    BY <2>2, <2>3, <2>4, <2>5 DEF QueueNext
<1>2. QED
  BY <1>1, QueueInvCorrect, PTL DEF QueueSpec, UnfinishedKept

-----------------------------------------------------------------------------
(* The supervision of the worker. *)

(* What is needed of the types; the order of the processes is not. *)
SupervisionTypes ==
  /\ stage \in [Pid -> Stages]
  /\ told \subseteq Pid /\ waited \subseteq Pid /\ late \subseteq Pid

(* The watchdog acts on two failed probes in a row and forgets them when it
   starts over. *)
ProbesCounted ==
  /\ watchdog \in {"down", "sleep", "term", "kill", "spawn"}
  /\ watchdog = "down" => fails = 0
  /\ watchdog = "sleep" => fails \in {0, 1}
  /\ watchdog \in {"term", "kill", "spawn"} => fails = 2

(* A worker in its loop keeps the heartbeat fresh. *)
LoopingBeats == \A p \in Pid : stage[p] = "loop" => heartbeat = "fresh"

(* After one failed probe, a worker that is starting up was starting up at
   that probe, or has been started since. *)
StartersNoticed ==
  (watchdog = "sleep" /\ fails = 1) =>
    \A p \in Pid : stage[p] \in Starting => p \in waited \cup late

(* After two, whoever is alive and well has been started since the first one
   or has been told to stop. *)
Condemned ==
  watchdog = "term" =>
    \A p \in Pid : stage[p] \in {"none", "stuck", "draining"} \/ p \in told \cup late

SpareInv ==
  SupervisionTypes /\ ProbesCounted /\ LoopingBeats /\ StartersNoticed /\ Condemned

LEMMA SpareInit == SupervisionInit => SpareInv
BY DEF SupervisionInit, SpareInv, SupervisionTypes, ProbesCounted, LoopingBeats,
       StartersNoticed, Condemned, Stages, Starting

(* The worker moves on: it reaches its loop with a heartbeat, and a worker that
   has become fine was there, starting up, before. *)
LEMMA WorkerKeepsSpare ==
  ASSUME SpareInv, NEW p \in Pid, WorkerStep(p) \/ Crash(p) \/ Stick(p)
  PROVE  SpareInv'
<1> USE DEF SpareInv, SupervisionTypes, ProbesCounted, LoopingBeats, StartersNoticed,
            Condemned, Stages, Starting, files, workers, supervisor, dog
<1>1. ASSUME Gone(p)
      PROVE  SpareInv'
  BY <1>1 DEF Gone, Ends
<1>2. CASE TakeLock(p)
  BY <1>1, <1>2 DEF TakeLock, Goes
<1>3. CASE Register(p)
  BY <1>3 DEF Register, Goes
<1>4. CASE EnterLoop(p)
  BY <1>4 DEF EnterLoop, Goes
<1>5. CASE LeaveLoop(p)
  BY <1>5 DEF LeaveLoop, Goes
<1>6. CASE Drained(p) \/ Crash(p)
  BY <1>1, <1>6 DEF Drained, Crash
<1>7. CASE Stick(p)
  BY <1>7 DEF Stick, Goes
<1>8. QED
  BY <1>2, <1>3, <1>4, <1>5, <1>6, <1>7 DEF WorkerStep

(* SIGTERM adds to those told to stop, or ends them. *)
LEMMA TerminateKeepsSpare ==
  ASSUME SpareInv, NEW P \in SUBSET Pid, Terminate(P),
         UNCHANGED <<heartbeat, watchdog, fails>>
  PROVE  SpareInv'
<1> DEFINE killed == P \cap NoHandler
<1>1. /\ stage' = [p \in Pid |-> IF p \in killed THEN "none" ELSE stage[p]]
      /\ told' = (told \cup (P \cap Live)) \ killed
      /\ waited' = waited \ killed /\ late' = late \ killed
  BY DEF Terminate
<1> HIDE DEF killed
<1>2. QED
  BY <1>1 DEF SpareInv, SupervisionTypes, ProbesCounted, LoopingBeats, StartersNoticed,
              Condemned, Stages, Starting, Live

LEMMA BackendKeepsSpare ==
  ASSUME SpareInv,
         SupervisorStep \/ StopBackend \/ BackendStopped \/ CrashBackend \/ StartBackend
  PROVE  SpareInv'
<1>1. CASE SpawnChild
  <2>1. NewPid \in Pid
    BY <1>1 DEF SpawnChild, Unused, NewPid
  <2>2. QED
    BY <1>1, <2>1 DEF SpawnChild, Starts, SpareInv, SupervisionTypes, ProbesCounted,
      LoopingBeats, StartersNoticed, Condemned, Stages, Starting, files
<1>2. CASE StopBackend
  BY <1>2, TerminateKeepsSpare DEF StopBackend
<1>3. CASE StartBackend
  BY <1>3, TerminateKeepsSpare DEF StartBackend
<1>4. ASSUME UNCHANGED <<workers, heartbeat, dog>>
      PROVE  SpareInv'
  BY <1>4 DEF workers, dog, SpareInv, SupervisionTypes, ProbesCounted, LoopingBeats,
    StartersNoticed, Condemned
<1>5. CASE ReadPidFile \/ UnlinkPidFile \/ LookAtChild \/ ProbeLock \/ ReleaseProbe \/ Adopt
  BY <1>4, <1>5 DEF ReadPidFile, UnlinkPidFile, LookAtChild, ProbeLock, ReleaseProbe, Adopt, files
<1>6. CASE BackendStopped \/ CrashBackend
  BY <1>4, <1>6 DEF BackendStopped, CrashBackend
<1>7. QED
  BY <1>1, <1>2, <1>3, <1>5, <1>6 DEF SupervisorStep

(* The second failed probe in a row condemns: nobody is starting up who was so at
   the first, and nobody loops, or the heartbeat would be fresh. *)
LEMMA WatchdogKeepsSpare ==
  ASSUME SpareInv, WatchdogStep \/ CrashWatchdog \/ StartWatchdog
  PROVE  SpareInv'
<1> USE DEF SpareInv, SupervisionTypes, ProbesCounted, LoopingBeats, StartersNoticed,
            Condemned, Stages, Starting
<1>1. CASE ProbeHealth
  <2>1. UNCHANGED <<workers, heartbeat>> /\ waited = {}
    BY <1>1 DEF ProbeHealth, files
  <2>2. CASE Healthy
    BY <1>1, <2>1, <2>2 DEF ProbeHealth, workers
  <2>3. CASE ~Healthy
    <3>1. fails' = fails + 1 /\ late' = late /\ waited' = {p \in Pid : stage[p] \in Starting}
      BY <1>1, <2>3 DEF ProbeHealth
    <3>2. CASE fails = 0
      BY <1>1, <2>1, <2>3, <3>1, <3>2 DEF ProbeHealth, workers
    <3>3. CASE fails = 1
      <4>1. \A p \in Pid : stage[p] # "loop"
        BY <2>3 DEF Healthy, Live
      <4>2. QED
        BY <1>1, <2>1, <2>3, <3>1, <3>3, <4>1 DEF ProbeHealth, workers
    <3>4. QED
      BY <1>1, <3>2, <3>3 DEF ProbeHealth
  <2>4. QED
    BY <2>2, <2>3
<1>2. CASE SendTerm
  <2>1. PICK P \in SUBSET Pid : Terminate(P)
    BY <1>2 DEF SendTerm, Live
  <2>2. stage' \in [Pid -> Stages] /\ told' \subseteq Pid
        /\ waited' \subseteq Pid /\ late' \subseteq Pid
        /\ \A p \in Pid : stage'[p] = "loop" => stage[p] = "loop"
    BY <2>1 DEF Terminate
  <2>3. QED
    BY <1>2, <2>2 DEF SendTerm
<1>3. CASE SendKill
  <2>1. stage' \in [Pid -> Stages] /\ told' \subseteq Pid
        /\ waited' \subseteq Pid /\ late' \subseteq Pid
        /\ \A p \in Pid : stage'[p] = "loop" => stage[p] = "loop"
    BY <1>3 DEF SendKill, Ends, Alive, Live, workers
  <2>2. QED
    BY <1>3, <2>1 DEF SendKill
<1>4. CASE SpawnReplacement
  <2>1. NewPid \in Pid
    BY <1>4 DEF SpawnReplacement, Unused, NewPid
  <2>2. QED
    BY <1>4, <2>1 DEF SpawnReplacement, files
<1>5. CASE CrashWatchdog
  BY <1>5 DEF CrashWatchdog, workers, files
<1>6. CASE StartWatchdog
  BY <1>6 DEF StartWatchdog, workers, files
<1>7. QED
  BY <1>1, <1>2, <1>3, <1>4, <1>5, <1>6 DEF WatchdogStep

LEMMA SpareInvCorrect == SupervisionSpec => []SpareInv
<1>1. SpareInv /\ [SupervisionNext]_supervisionVars => SpareInv'
  <2> SUFFICES ASSUME SpareInv, [SupervisionNext]_supervisionVars
               PROVE  SpareInv'
    OBVIOUS
  <2>1. CASE HeartbeatExpires
    BY <2>1 DEF HeartbeatExpires, Scheduling, workers, dog, SpareInv, SupervisionTypes,
      ProbesCounted, LoopingBeats, StartersNoticed, Condemned
  <2>2. CASE UNCHANGED supervisionVars
    BY <2>2 DEF supervisionVars, workers, files, dog, SpareInv, SupervisionTypes,
      ProbesCounted, LoopingBeats, StartersNoticed, Condemned
  <2>3. QED
    BY <2>1, <2>2, WorkerKeepsSpare, BackendKeepsSpare, WatchdogKeepsSpare
      DEF SupervisionNext
<1>2. QED
  BY <1>1, SpareInit, PTL DEF SupervisionSpec

(* HealthyWorkersSpared: the gateway watchdog (restart_gateway) kills a worker
   that is fine only if it was started after a first probe had failed, for any
   number of processes and any crashes, hangs and restarts. *)
THEOREM HealthyWorkersSparedCorrect == SupervisionSpec => HealthyWorkersSpared
<1>1. SpareInv /\ [SupervisionNext]_supervisionVars
        => [\A p \in Pid :
              (watchdog = "term" /\ watchdog' = "kill" /\ target' = p) =>
                stage[p] \in {"stuck", "draining"} \/ p \in told \cup late]_supervisionVars
  <2> SUFFICES ASSUME SpareInv, SupervisionNext, NEW p \in Pid,
                      watchdog = "term", watchdog' = "kill", target' = p
               PROVE  stage[p] \in {"stuck", "draining"} \/ p \in told \cup late
    OBVIOUS
  <2>1. SendTerm
    <3>1. watchdog' # watchdog
      OBVIOUS
    <3>2. QED
      BY <3>1 DEF SupervisionNext, WorkerStep, TakeLock, Register, EnterLoop, LeaveLoop,
        Drained, Crash, Gone, Stick, HeartbeatExpires, SupervisorStep, ReadPidFile,
        UnlinkPidFile, LookAtChild, ProbeLock, ReleaseProbe, SpawnChild, Adopt,
        StopBackend, BackendStopped, CrashBackend, StartBackend, WatchdogStep,
        ProbeHealth, SendKill, SpawnReplacement, CrashWatchdog, StartWatchdog, dog
  <2>2. stage[p] # "none"
    BY <2>1, SupervisionAssumption DEF SendTerm, Live
  <2>3. QED
    BY <2>2 DEF SpareInv, Condemned
<1>2. QED
  BY <1>1, SpareInvCorrect, PTL DEF SupervisionSpec, HealthyWorkersSpared
=============================================================================
