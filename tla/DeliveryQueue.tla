---------------------------- MODULE DeliveryQueue ----------------------------
(***************************************************************************)
(* The gateway's notification queue: events and deliveries of              *)
(* astra_gateway/store.py, filled by every process that publishes, emptied *)
(* by the one worker that holds the gateway lock (worker.py), one delivery *)
(* per turn of its loop.  Between claiming a delivery, sending it and      *)
(* writing the result down the worker may be killed, the channel's answer  *)
(* may be lost and the database may refuse the write.                      *)
(*                                                                         *)
(* next_attempt_at is kept as one bit, whether the moment has come: nothing*)
(* depends on the length of a lease or of a back-off.                      *)
(***************************************************************************)
EXTENDS Integers, FiniteSets

CONSTANTS
  Event, Delivery,
  EventOf,         \* the event of each delivery; a delivery number is its row id
  Priority,        \* priority of each event
  MaxAttempts,     \* max_attempts of fail()
  MaxFaults,       \* bound on kills, lost answers and refused writes
  MaxReplays       \* bound on the operator's replays

ASSUME QueueAssumption ==
  /\ Delivery \subseteq Nat
  /\ EventOf \in [Delivery -> Event] /\ Priority \in [Event -> Nat]
  /\ MaxAttempts \in Nat \ {0} /\ MaxFaults \in Nat /\ MaxReplays \in Nat

VARIABLES
  events,      \* rows of the table events
  published,   \* history: events ever published
  old,         \* events older than the retention of prune()
  status,      \* column status of each delivery, "absent" = no row
  attempts,    \* column attempts
  due,         \* the deliveries whose next_attempt_at has come
  turn,        \* where the worker is
  cur,         \* the delivery it has claimed, as a set of at most one
  faults, replays,
  received,    \* history: how often the channel took each delivery
  excused,     \* history: faults and replays that may have cost a second sending
  refusals     \* history: refusals written down since publication or replay

row == <<status, attempts, due>>
tables == <<events, published, old>>
bounds == <<faults, replays>>
past == <<received, excused, refusals>>
queueVars == <<tables, row, turn, cur, bounds, past>>

Open == {"pending", "processing", "retry"}
Completed == {"delivered", "accepted"}

QueueTypeOK ==
  /\ events \subseteq Event /\ published \subseteq Event /\ old \subseteq Event
  /\ status \in [Delivery -> Open \cup Completed \cup {"absent", "dead"}]
  /\ attempts \in [Delivery -> 0..MaxAttempts]
  /\ due \subseteq Delivery
  /\ turn \in {"down", "loop", "sending", "taken", "refused"}
  /\ cur \subseteq Delivery /\ Cardinality(cur) <= 1
  /\ faults \in 0..MaxFaults /\ replays \in 0..MaxReplays
  /\ received \in [Delivery -> Nat] /\ excused \in [Delivery -> Nat]
  /\ refusals \in [Delivery -> Nat]

QueueInit ==
  /\ events = {} /\ published = {} /\ old = {}
  /\ status = [d \in Delivery |-> "absent"]
  /\ attempts = [d \in Delivery |-> 0]
  /\ due = {}
  /\ turn = "down" /\ cur = {}
  /\ faults = 0 /\ replays = 0
  /\ received = [d \in Delivery |-> 0]
  /\ excused = [d \in Delivery |-> 0]
  /\ refusals = [d \in Delivery |-> 0]

-----------------------------------------------------------------------------
(* publish(): the event and a delivery for every enabled channel, at once. *)
Publish(e) ==
  /\ e \notin published
  /\ published' = published \cup {e} /\ events' = events \cup {e}
  /\ \E enabled \in SUBSET {d \in Delivery : EventOf[d] = e} :
       /\ status' = [d \in Delivery |-> IF d \in enabled THEN "pending" ELSE status[d]]
       /\ due' = due \cup enabled
  /\ UNCHANGED <<old, attempts, turn, cur, bounds, past>>

(* A lease or a back-off ends; an event passes the retention. *)
BecomeDue(d) ==
  /\ d \notin due /\ status[d] \in Open
  /\ due' = due \cup {d}
  /\ UNCHANGED <<tables, status, attempts, turn, cur, bounds, past>>

GrowOld(e) ==
  /\ e \in events \ old
  /\ old' = old \cup {e}
  /\ UNCHANGED <<events, published, row, turn, cur, bounds, past>>

(* The operator replays a dead delivery: replay_dead(). *)
Replay(d) ==
  /\ status[d] = "dead" /\ replays < MaxReplays
  /\ status' = [status EXCEPT ![d] = "pending"]
  /\ attempts' = [attempts EXCEPT ![d] = 0]
  /\ due' = due \cup {d}
  /\ refusals' = [refusals EXCEPT ![d] = 0]
  /\ excused' = [excused EXCEPT ![d] = @ + 1]
  /\ replays' = replays + 1
  /\ UNCHANGED <<tables, turn, cur, faults, received>>

-----------------------------------------------------------------------------
(* The worker starts, with recover_processing(); the rows keep their lease. *)
StartWorker ==
  /\ turn = "down"
  /\ status' = [d \in Delivery |-> IF status[d] = "processing" THEN "retry" ELSE status[d]]
  /\ turn' = "loop"
  /\ UNCHANGED <<tables, attempts, due, cur, bounds, past>>

(* prune(): finished deliveries of old events, then old events without any. *)
Finished(d) == status[d] \in Completed \cup {"dead"}

(* Slip: every delivery of an old event is dropped. *)
PruneByAge ==
  /\ turn = "loop"
  /\ status' = [d \in Delivery |-> IF EventOf[d] \in old THEN "absent" ELSE status[d]]
  /\ due' = {d \in due : status'[d] # "absent"}
  /\ events' = {e \in events : e \in old => \E d \in Delivery : EventOf[d] = e /\ status'[d] # "absent"}
  /\ UNCHANGED <<published, old, attempts, turn, cur, bounds, past>>

Prune ==
  /\ turn = "loop"
  /\ status' = [d \in Delivery |-> IF Finished(d) /\ EventOf[d] \in old THEN "absent" ELSE status[d]]
  /\ due' = {d \in due : status'[d] # "absent"}
  /\ events' = {e \in events : e \in old => \E d \in Delivery : EventOf[d] = e /\ status'[d] # "absent"}
  /\ UNCHANGED <<published, old, attempts, turn, cur, bounds, past>>

(* claim_due(1): the due delivery of the highest priority, then the oldest. *)
Claimable == {d \in due : status[d] \in Open}
Before(d, e) ==
  \/ Priority[EventOf[d]] > Priority[EventOf[e]]
  \/ Priority[EventOf[d]] = Priority[EventOf[e]] /\ d <= e

(* Slip: a delivery that failed before is not claimed again. *)
ClaimPending(d) ==
  /\ turn = "loop" /\ d \in Claimable /\ status[d] = "pending"
  /\ \A e \in Claimable : status[e] = "pending" => Before(d, e)
  /\ status' = [status EXCEPT ![d] = "processing"]
  /\ due' = due \ {d}
  /\ turn' = "sending" /\ cur' = {d}
  /\ UNCHANGED <<tables, attempts, bounds, past>>

Claim(d) ==
  /\ turn = "loop" /\ d \in Claimable
  /\ \A e \in Claimable : Before(d, e)
  /\ status' = [status EXCEPT ![d] = "processing"]
  /\ due' = due \ {d}
  /\ turn' = "sending" /\ cur' = {d}
  /\ UNCHANGED <<tables, attempts, bounds, past>>

(* The channel takes the message, refuses it, or takes it and the answer is
   lost; a lost answer is a failure to the worker. *)
Taken(d) ==
  /\ turn = "sending" /\ d \in cur
  /\ received' = [received EXCEPT ![d] = @ + 1]
  /\ turn' = "taken"
  /\ UNCHANGED <<tables, row, cur, bounds, excused, refusals>>

Refused(d) ==
  /\ turn = "sending" /\ d \in cur
  /\ turn' = "refused"
  /\ UNCHANGED <<tables, row, cur, bounds, past>>

AnswerLost(d) ==
  /\ turn = "sending" /\ d \in cur /\ faults < MaxFaults
  /\ received' = [received EXCEPT ![d] = @ + 1]
  /\ excused' = [excused EXCEPT ![d] = @ + 1]
  /\ faults' = faults + 1
  /\ turn' = "refused"
  /\ UNCHANGED <<tables, row, cur, replays, refusals>>

(* complete(): every channel adapter reports a success as "delivered".  A database
   that refuses the write sends the worker into its error path, fail(). *)

(* Slip: the write is never committed. *)
CompleteUncommitted(d) ==
  /\ turn = "taken" /\ d \in cur
  /\ turn' = "loop" /\ cur' = {}
  /\ UNCHANGED <<tables, row, bounds, past>>

Complete(d) ==
  /\ turn = "taken" /\ d \in cur
  /\ status' = [status EXCEPT ![d] = "delivered"]
  /\ turn' = "loop" /\ cur' = {}
  /\ UNCHANGED <<tables, attempts, due, bounds, past>>

CompleteFails(d) ==
  /\ turn = "taken" /\ d \in cur /\ faults < MaxFaults
  /\ excused' = [excused EXCEPT ![d] = @ + 1]
  /\ faults' = faults + 1
  /\ turn' = "refused"
  /\ UNCHANGED <<tables, row, cur, replays, received, refusals>>

(* fail(): another attempt later, or none. *)
FailAs(d, limit) ==
  /\ turn = "refused" /\ d \in cur
  /\ attempts' = [attempts EXCEPT ![d] = @ + 1]
  /\ status' = [status EXCEPT ![d] = IF attempts[d] + 1 >= limit THEN "dead" ELSE "retry"]
  /\ refusals' = [refusals EXCEPT ![d] = @ + 1]
  /\ turn' = "loop" /\ cur' = {}
  /\ UNCHANGED <<tables, due, bounds, received, excused>>

(* Slips: one attempt too few; one too many; a refusal is written down as a
   completion. *)
FailEarly(d) == FailAs(d, MaxAttempts - 1)
FailLate(d) == FailAs(d, MaxAttempts + 1)
FailCompleting(d) ==
  /\ turn = "refused" /\ d \in cur
  /\ status' = [status EXCEPT ![d] = "accepted"]
  /\ turn' = "loop" /\ cur' = {}
  /\ UNCHANGED <<tables, attempts, due, bounds, past>>

Fail(d) == FailAs(d, MaxAttempts)

(* The worker is killed, or dies of a write that fails in its error path. *)
Kill ==
  /\ turn # "down" /\ faults < MaxFaults
  /\ excused' = [d \in Delivery |-> IF turn = "taken" /\ d \in cur THEN excused[d] + 1
                                    ELSE excused[d]]
  /\ faults' = faults + 1
  /\ turn' = "down" /\ cur' = {}
  /\ UNCHANGED <<tables, row, replays, received, refusals>>

-----------------------------------------------------------------------------
Deliver(d) ==
  \/ Claim(d) \/ Taken(d) \/ Refused(d) \/ AnswerLost(d)
  \/ Complete(d) \/ CompleteFails(d) \/ Fail(d)

QueueNext ==
  \/ \E e \in Event : Publish(e) \/ GrowOld(e)
  \/ \E d \in Delivery : BecomeDue(d) \/ Replay(d) \/ Deliver(d)
  \/ StartWorker \/ Prune \/ Kill

QueueSpec == QueueInit /\ [][QueueNext]_queueVars

(* Time passes, the supervisor keeps a worker alive, and the worker keeps
   turning.  Nothing is assumed of the channels. *)
QueueFairness ==
  /\ \A d \in Delivery : WF_queueVars(BecomeDue(d)) /\ SF_queueVars(Deliver(d))
  /\ WF_queueVars(StartWorker)

FairQueueSpec == QueueSpec /\ QueueFairness

-----------------------------------------------------------------------------
(* A delivery is recorded as done only if the channel has taken it, whatever
   was killed or retried in between. *)
CompletedWasReceived ==
  \A d \in Delivery : status[d] \in Completed => received[d] >= 1

(* Nobody is told the same thing twice unless an answer, a write or the worker
   was lost after a sending, or the operator asked for it (claim_due: repeats
   are tolerated, omissions are not). *)
RepeatsExcused ==
  \A d \in Delivery : received[d] <= 1 + excused[d]

(* A delivery is given up only after max_attempts refusals since it was
   published or last replayed: a crash never uses an attempt up. *)
GivenUpAfterRefusals ==
  \A d \in Delivery : status[d] = "dead" => refusals[d] >= MaxAttempts

(* A delivery that is not finished is never dropped, however old its event;
   and its event stays with it. *)
UnfinishedKept ==
  [][\A d \in Delivery :
       status[d] \in Open => status'[d] # "absent" /\ EventOf[d] \in events']_queueVars

(* Every delivery is delivered, accepted or given up in the end: no crash
   leaves one in processing for ever (claim_due's lease). *)
EventuallyFinished ==
  \A d \in Delivery : status[d] \in Open ~> status[d] \notin Open
=============================================================================
