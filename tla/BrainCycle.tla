----------------------------- MODULE BrainCycle -----------------------------
(* One decision of the trading brain (scripts/ai_brain_trader.py and
   scripts/brain) and what the trading cycle that asked for it does with the
   instructions for its positions (trader/cycle_stages.py, trader/position_mgmt.py).
   A cycle is a run of the trading job, or a manual run of the brain script,
   which sees no position and executes nothing; a lock keeps the trading cycles
   apart, and nothing keeps a manual run away from them: the instructions
   travel through one file.  The positions move while a model thinks. *)
EXTENDS CouncilDeliberation

CONSTANTS
  Trader,      \* runs of the trading job
  Manual,      \* manual runs of the brain
  Instrument,
  Timeout      \* configured council timeouts

ASSUME BrainAssumption ==
  /\ IsFiniteSet(Trader) /\ IsFiniteSet(Manual) /\ Trader \cap Manual = {}
  /\ Timeout \subseteq Nat

Cycle == Trader \cup Manual

VARIABLES
  stage,       \* cycle -> where it is
  seen,        \* cycle -> instruments it was shown a position in
  council,     \* cycle -> the committee it waits for
  said,        \* cycle -> instrument -> instruction kept from the answer
  read,        \* cycle -> the instructions it is carrying out
  todo,        \* cycle -> instruments it has still to deal with
  open,        \* instruments with an open position
  resting,     \* instruments with a resting entry order
  file,        \* ai_position_management.json
  began,       \* cycle -> number of the file when it began (history)
  executed     \* instructions carried out (history)

vars == <<stage, seen, council, said, read, todo, open, resting, file, began, executed>>

Stage == {"idle", "ask", "proposals", "critiques", "cio", "alone", "answer",
          "write", "record", "refresh", "manage", "enter", "done"}
Instruction == {"HOLD", "CLOSE_MARKET", "UPDATE_SL", "UPDATE_TP"}
Answer == Instruction \cup {"omitted"}
NoCouncil == [mode |-> "none", left |-> 0, again |-> FALSE]
Silent == [i \in Instrument |-> "omitted"]
Nobody == "nobody"
NoFile == [number |-> 0, by |-> Nobody, says |-> Silent]
File == [number : Nat, by : Cycle \cup {Nobody}, says : [Instrument -> Answer]]

Init ==
  /\ stage = [c \in Cycle |-> "idle"]
  /\ seen = [c \in Cycle |-> {}]
  /\ council = [c \in Cycle |-> NoCouncil]
  /\ said = [c \in Cycle |-> Silent]
  /\ read = [c \in Cycle |-> NoFile]
  /\ todo = [c \in Cycle |-> {}]
  /\ open = {}
  /\ resting = Instrument
  /\ file = NoFile
  /\ began = [c \in Cycle |-> 0]
  /\ executed = {}

Thought == <<seen, council, said, began>>
Management == <<read, todo, executed>>
Market == <<open, resting>>
Go(c, from, to) == stage[c] = from /\ stage' = [stage EXCEPT ![c] = to]
Over(c) == stage[c] \in {"idle", "done"}

(* Slip: without a decision the cycle goes on to the instructions all the same. *)
FailAnyway(c) == stage' = [stage EXCEPT ![c] = IF c \in Trader THEN "refresh" ELSE "done"]
(* A brain that gave no decision: the cycle carries out nothing, not even what
   an earlier cycle published, and opens nothing. *)
Fail(c) == stage' = [stage EXCEPT ![c] = "done"]

(* A cycle begins: the trading cycle with the positions it has read, a manual
   run with none. *)
Start(c) ==
  /\ c \in Trader => \A d \in Trader : Over(d)
  /\ Go(c, "idle", "ask")
  /\ seen' = [seen EXCEPT ![c] = IF c \in Trader THEN open ELSE {}]
  /\ began' = [began EXCEPT ![c] = file.number]
  /\ UNCHANGED <<council, said, Management, Market, file>>

(* A tripped circuit breaker or a closed session asks no model; without a key
   the brain gives up at once. *)
Refrain(c) ==
  /\ stage[c] = "ask"
  /\ Fail(c)
  /\ UNCHANGED <<Thought, Management, Market, file>>

(* The committee is convened, if it is enabled and has the time; or one model
   is asked. *)
Convene(c) ==
  /\ \E mode \in Mode, timeout \in Timeout :
       LET left == Effective(timeout) IN
       IF left < Needed(mode)
       THEN Go(c, "ask", "alone") /\ UNCHANGED council
       ELSE /\ Go(c, "ask", "proposals")
            /\ council' = [council EXCEPT ![c] = [mode |-> mode, left |-> left,
                                                  again |-> FALSE]]
  /\ UNCHANGED <<seen, said, began, Management, Market, file>>
AskAlone(c) ==
  /\ Go(c, "ask", "alone")
  /\ UNCHANGED <<Thought, Management, Market, file>>

(* First round: every seat proposes. *)
HearProposals(c) ==
  /\ Go(c, "proposals", IF council[c].mode = "standard" THEN "cio" ELSE "critiques")
  /\ LET now == council[c] IN
     \E end \in ProposalEnds(ProposalBudget(now.mode, now.left)) :
       council' = [council EXCEPT ![c] = [mode |-> now.mode, left |-> now.left - end.took,
                                          again |-> end.again]]
  /\ UNCHANGED <<seen, said, began, Management, Market, file>>

(* Second round: skipped without 7 s, and in a debate without a dispute. *)
HearCritiques(c) ==
  /\ Go(c, "critiques", "cio")
  /\ \E disputed \in IF council[c].mode = "debate" THEN Disputes ELSE {TRUE} :
       IF council[c].left < SafeReasoning + 20 \/ ~disputed
       THEN UNCHANGED council
       ELSE \E took \in CritiqueEnds(CritiqueBudget(council[c].left)) :
              council' = [council EXCEPT ![c].left = @ - took]
  /\ UNCHANGED <<seen, said, began, Management, Market, file>>

(* The CIO decides if 5 s are left; a refusal, an unreadable answer or the
   lack of time hands the question to one model. *)
Arbitrate(c) ==
  /\ \E to \in IF council[c].left < SafeReasoning THEN {"alone"} ELSE {"answer", "alone"} :
       Go(c, "cio", to)
  /\ council' = [council EXCEPT ![c] = NoCouncil]
  /\ UNCHANGED <<seen, said, began, Management, Market, file>>

(* One model decides, or no model of the chain does. *)
DecideAlone(c) ==
  /\ Go(c, "alone", "answer") \/ (stage[c] = "alone" /\ Fail(c))
  /\ UNCHANGED <<Thought, Management, Market, file>>

(* Slip: what the model says of anything else is kept too. *)
KeptUnlisted(answer, shown) ==
  [i \in Instrument |-> IF answer[i] = "omitted" /\ i \in shown THEN "HOLD" ELSE answer[i]]
(* What is kept of an answer: one instruction for each position that was
   shown, a HOLD where the model gave none, and nothing for anything else. *)
Kept(answer, shown) ==
  [i \in Instrument |->
     IF i \notin shown THEN "omitted"
     ELSE IF answer[i] = "omitted" THEN "HOLD" ELSE answer[i]]

(* The answer is read, and the resting orders it gives up are cancelled: those
   of them the exchange still has and gives back. *)
Digest(c) ==
  /\ Go(c, "answer", "write")
  /\ \E answer \in [Instrument -> Answer], cancel \in SUBSET resting :
       /\ said' = [said EXCEPT ![c] = Kept(answer, seen[c])]
       /\ resting' = resting \ cancel
  /\ UNCHANGED <<seen, council, began, Management, open, file>>

(* The instructions are published, over whatever the file held. *)
Publish(c) ==
  /\ Go(c, "write", "record")
  /\ file' = [number |-> file.number + 1, by |-> c, says |-> said[c]]
  /\ said' = [said EXCEPT ![c] = Silent]
  /\ UNCHANGED <<seen, council, began, Management, Market>>

(* The history is written; an error here still makes the decision fail.  A
   manual run ends, a trading cycle goes on to its positions. *)
Record(c) ==
  /\ \/ Go(c, "record", IF c \in Trader THEN "refresh" ELSE "done")
     \/ stage[c] = "record" /\ Fail(c)
  /\ UNCHANGED <<Thought, Management, Market, file>>

(* The positions are read again, then the file: what it says of the positions
   that are open now is to be carried out.  Nothing is if the positions or the
   file cannot be read, or the file is older than 300 s. *)
ReadInstructions(c) ==
  /\ Go(c, "refresh", "manage")
  /\ read' = [read EXCEPT ![c] = file]
  /\ \E usable \in BOOLEAN :
       todo' = [todo EXCEPT ![c] =
         {i \in open : usable /\ file.says[i] \in Instruction \ {"HOLD"}}]
  /\ UNCHANGED <<Thought, executed, Market, file>>

(* An instruction for position i is carried out, refused (a close of too little
   confidence, a stop that does not tighten) or not confirmed; a position that
   closed in the meantime has nothing left to act on. *)
CarryOut(c, i) ==
  /\ stage[c] = "manage" /\ i \in todo[c]
  /\ todo' = [todo EXCEPT ![c] = @ \ {i}]
  /\ \/ UNCHANGED <<open, executed>>
     \/ /\ i \in open
        /\ open' = IF read[c].says[i] = "CLOSE_MARKET" THEN open \ {i} ELSE open
        /\ executed' = executed \cup
             {[by |-> c, instrument |-> i, number |-> read[c].number, author |-> read[c].by]}
  /\ UNCHANGED <<stage, Thought, read, resting, file>>

(* With its positions dealt with the cycle goes on to new entries, which may
   leave orders to rest where there is no position. *)
Manage(c) ==
  /\ Go(c, "manage", "enter")
  /\ todo[c] = {}
  /\ read' = [read EXCEPT ![c] = NoFile]
  /\ UNCHANGED <<Thought, todo, executed, Market, file>>
PlaceEntries(c) ==
  /\ Go(c, "enter", "done")
  /\ \E placed \in SUBSET (Instrument \ open) : resting' = resting \cup placed
  /\ UNCHANGED <<Thought, Management, open, file>>

(* The job is killed (840 s, a crash, a restart); what it wrote stays. *)
Killed(c) ==
  /\ ~Over(c)
  /\ Fail(c)
  /\ council' = [council EXCEPT ![c] = NoCouncil]
  /\ said' = [said EXCEPT ![c] = Silent]
  /\ read' = [read EXCEPT ![c] = NoFile]
  /\ todo' = [todo EXCEPT ![c] = {}]
  /\ UNCHANGED <<seen, began, executed, Market, file>>

(* The market: a resting order fills, a stop or a target closes a position. *)
RestingFills(i) ==
  /\ i \in resting
  /\ resting' = resting \ {i}
  /\ open' = open \cup {i}
  /\ UNCHANGED <<stage, Thought, Management, file>>
StopFills(i) ==
  /\ i \in open
  /\ open' = open \ {i}
  /\ UNCHANGED <<stage, Thought, Management, resting, file>>

Next ==
  \/ \E c \in Cycle :
       \/ Start(c) \/ Refrain(c) \/ Convene(c) \/ AskAlone(c)
       \/ HearProposals(c) \/ HearCritiques(c) \/ Arbitrate(c) \/ DecideAlone(c)
       \/ Digest(c) \/ Publish(c) \/ Record(c) \/ ReadInstructions(c)
       \/ Manage(c) \/ PlaceEntries(c) \/ Killed(c)
  \/ \E c \in Cycle, i \in Instrument : CarryOut(c, i)
  \/ \E i \in Instrument : RestingFills(i) \/ StopFills(i)

Spec == Init /\ [][Next]_vars

-----------------------------------------------------------------------------
(* Every variable keeps its type; the clock of a committee is left to
   ArbitrationReached. *)
BrainTypeOK ==
  /\ stage \in [Cycle -> Stage]
  /\ seen \in [Cycle -> SUBSET Instrument]
  /\ said \in [Cycle -> [Instrument -> Answer]]
  /\ read \in [Cycle -> File]
  /\ todo \in [Cycle -> SUBSET Instrument]
  /\ open \subseteq Instrument /\ resting \subseteq Instrument
  /\ file \in File
  /\ began \in [Cycle -> Nat]
  /\ executed \subseteq [by : Cycle, instrument : Instrument, number : Nat,
                         author : Cycle \cup {Nobody}]

(* An instruction is only carried out if it was published after the cycle that
   carries it out had begun: a brain that failed, timed out or was killed never
   leaves an older instruction to be used on today's positions
   (trader/cycle_stages.py, "禁止复用旧持仓指令"). *)
FreshInstructionsOnly == \A e \in executed : e.number > began[e.by]

(* An instruction is only carried out for an instrument in which the brain that
   wrote it had been shown a position: an order of a model about an instrument
   it saw no position in is dropped, also when a resting order fills and opens
   one there while it thinks (brain/cycle_parts.py, normalize_position_management). *)
OnlyShownPositions == \A e \in executed : e.instrument \in seen[e.author]

(* Whatever the seats of a committee take, the CIO, whose answer alone is
   executed, is left the 5 s without which it is not asked, as long as no seat
   had to be asked again (council/debate.py, the reserve of the first round and
   the budget of the second). *)
ArbitrationReached ==
  \A c \in Cycle : stage[c] = "cio" /\ ~council[c].again => council[c].left >= SafeReasoning
=============================================================================
