-------------------------- MODULE BrainCycleProofs --------------------------
(***************************************************************************)
(* What a trading cycle carries out is fresh and was written about a       *)
(* position its author had been shown, for any number of cycles, manual    *)
(* runs and instruments.  The inductive invariant follows an instruction   *)
(* from the answer it was kept from to the file, from the file to the cycle*)
(* that read it, and from there to its execution.  The clock of a committee*)
(* is bounded apart from that, from the arithmetic of its budgets.         *)
(***************************************************************************)
EXTENDS BrainCycle, WellFoundedInduction, TLAPS

(* What f says was kept for a position that its author, a cycle that has
   begun, had been shown. *)
Shown(f) ==
  \A i \in Instrument : f.says[i] # "omitted" =>
    f.by \in Cycle /\ stage[f.by] # "idle" /\ i \in seen[f.by]

AnswersShown ==
  \A c \in Cycle, i \in Instrument : said[c][i] # "omitted" =>
    stage[c] # "idle" /\ i \in seen[c]

FilesShown == Shown(file) /\ \A c \in Cycle : Shown(read[c])

(* The number of the file only grows; a cycle that has published, or has read
   the file, knows a newer file than the one it began with. *)
NumbersGrow ==
  \A c \in Cycle :
    /\ began[c] <= file.number
    /\ stage[c] \in {"record", "refresh"} => began[c] < file.number
    /\ stage[c] = "manage" => began[c] < read[c].number

TodoRead ==
  \A c \in Cycle, i \in Instrument :
    i \in todo[c] => stage[c] = "manage" /\ read[c].says[i] # "omitted"

ExecutedGood ==
  \A e \in executed :
    /\ stage[e.by] # "idle" /\ began[e.by] < e.number
    /\ e.author \in Cycle /\ stage[e.author] # "idle" /\ e.instrument \in seen[e.author]

BrainInv ==
  /\ BrainTypeOK
  /\ AnswersShown
  /\ FilesShown
  /\ NumbersGrow
  /\ TodoRead
  /\ ExecutedGood

LEMMA BrainInvInit == Init => BrainInv
  BY DEF Init, BrainInv, BrainTypeOK, AnswersShown, FilesShown, NumbersGrow, TodoRead,
         ExecutedGood, Shown, Stage, Answer, Instruction, Silent, NoFile, File, Nobody

(* The steps between the question and the answer move nothing but the stage. *)
Asking == {"ask", "proposals", "critiques", "cio", "alone"}
Settling == {"proposals", "critiques", "cio", "alone", "answer", "done"}
Deliberates(c) ==
  /\ stage[c] \in Asking
  /\ \E to \in Settling : stage' = [stage EXCEPT ![c] = to]
  /\ UNCHANGED <<seen, said, began, read, todo, executed, open, resting, file>>

LEMMA DeliberationMoves ==
  ASSUME NEW c \in Cycle,
         \/ Refrain(c) \/ Convene(c) \/ AskAlone(c) \/ HearProposals(c)
         \/ HearCritiques(c) \/ Arbitrate(c) \/ DecideAlone(c)
  PROVE  Deliberates(c)
<1>1. CASE Refrain(c)
  BY <1>1 DEF Refrain, Fail, Thought, Management, Market, Deliberates, Asking, Settling
<1>2. CASE Convene(c)
  BY <1>2 DEF Convene, Go, Management, Market, Deliberates, Asking, Settling
<1>3. CASE AskAlone(c)
  BY <1>3 DEF AskAlone, Go, Thought, Management, Market, Deliberates, Asking, Settling
<1>4. CASE HearProposals(c)
  BY <1>4 DEF HearProposals, Go, Management, Market, Deliberates, Asking, Settling
<1>5. CASE HearCritiques(c)
  BY <1>5 DEF HearCritiques, Go, Management, Market, Deliberates, Asking, Settling
<1>6. CASE Arbitrate(c)
  BY <1>6 DEF Arbitrate, Go, Management, Market, Deliberates, Asking, Settling
<1>7. CASE DecideAlone(c)
  BY <1>7 DEF DecideAlone, Go, Fail, Thought, Management, Market, Deliberates, Asking, Settling
<1>8. QED
  BY <1>1, <1>2, <1>3, <1>4, <1>5, <1>6, <1>7

LEMMA DeliberationKeepsInv ==
  ASSUME BrainInv, NEW c \in Cycle, Deliberates(c)
  PROVE  BrainInv'
  BY DEF Deliberates, Asking, Settling, BrainInv, BrainTypeOK, Stage, AnswersShown,
         FilesShown, Shown, NumbersGrow, TodoRead, ExecutedGood

LEMMA StartKeepsInv ==
  ASSUME BrainInv, NEW c \in Cycle, Start(c)
  PROVE  BrainInv'
<1>1. BrainTypeOK'
  BY DEF Start, Go, Management, Market, BrainInv, BrainTypeOK, Stage, File
<1>2. AnswersShown' /\ FilesShown'
  BY DEF Start, Go, Management, Market, BrainInv, BrainTypeOK, AnswersShown, FilesShown,
         Shown
<1>3. NumbersGrow' /\ TodoRead'
  BY DEF Start, Go, Management, Market, BrainInv, BrainTypeOK, NumbersGrow, TodoRead, File
<1>4. ExecutedGood'
  BY DEF Start, Go, Management, Market, BrainInv, BrainTypeOK, ExecutedGood
<1>5. QED
  BY <1>1, <1>2, <1>3, <1>4 DEF BrainInv

LEMMA DigestKeepsInv ==
  ASSUME BrainInv, NEW c \in Cycle, Digest(c)
  PROVE  BrainInv'
<1>1. PICK answer \in [Instrument -> Answer], cancel \in SUBSET resting :
        /\ said' = [said EXCEPT ![c] = Kept(answer, seen[c])]
        /\ resting' = resting \ cancel
  BY DEF Digest
<1>2. /\ stage[c] = "answer" /\ stage' = [stage EXCEPT ![c] = "write"]
      /\ UNCHANGED <<seen, began, read, todo, executed, open, file>>
  BY DEF Digest, Go, Management
<1>3. /\ Kept(answer, seen[c]) \in [Instrument -> Answer]
      /\ \A i \in Instrument : Kept(answer, seen[c])[i] # "omitted" => i \in seen[c]
  BY DEF Kept, Answer, Instruction
<1>4. BrainTypeOK'
  BY <1>1, <1>2, <1>3 DEF BrainInv, BrainTypeOK, Stage
<1>5. AnswersShown'
  BY <1>1, <1>2, <1>3 DEF BrainInv, BrainTypeOK, AnswersShown
<1>6. QED
  BY <1>2, <1>4, <1>5 DEF BrainInv, BrainTypeOK, FilesShown, Shown, NumbersGrow, TodoRead,
                          ExecutedGood

LEMMA PublishKeepsInv ==
  ASSUME BrainInv, NEW c \in Cycle, Publish(c)
  PROVE  BrainInv'
<1>1. /\ stage[c] = "write" /\ stage' = [stage EXCEPT ![c] = "record"]
      /\ file' = [number |-> file.number + 1, by |-> c, says |-> said[c]]
      /\ said' = [said EXCEPT ![c] = Silent]
      /\ UNCHANGED <<seen, began, read, todo, executed, open, resting>>
  BY DEF Publish, Go, Management, Market
<1>2. Silent \in [Instrument -> Answer] /\ \A i \in Instrument : Silent[i] = "omitted"
  BY DEF Silent, Answer
<1>3. file' \in File /\ file'.number > file.number
  BY <1>1 DEF BrainInv, BrainTypeOK, File
<1>4. BrainTypeOK'
  BY <1>1, <1>2, <1>3 DEF BrainInv, BrainTypeOK, Stage
<1>5. AnswersShown' /\ FilesShown'
  BY <1>1, <1>2 DEF BrainInv, BrainTypeOK, AnswersShown, FilesShown, Shown, File
<1>6. NumbersGrow'
  BY <1>1, <1>3 DEF BrainInv, BrainTypeOK, NumbersGrow, File
<1>7. TodoRead' /\ ExecutedGood'
  BY <1>1 DEF BrainInv, BrainTypeOK, TodoRead, ExecutedGood
<1>8. QED
  BY <1>4, <1>5, <1>6, <1>7 DEF BrainInv

LEMMA RecordKeepsInv ==
  ASSUME BrainInv, NEW c \in Cycle, Record(c)
  PROVE  BrainInv'
<1>1. /\ stage[c] = "record"
      /\ \E to \in {"refresh", "done"} : stage' = [stage EXCEPT ![c] = to]
      /\ UNCHANGED <<seen, said, began, read, todo, executed, open, resting, file>>
  BY DEF Record, Go, Fail, Thought, Management, Market
<1>2. QED
  BY <1>1 DEF BrainInv, BrainTypeOK, Stage, AnswersShown, FilesShown, Shown, NumbersGrow,
              TodoRead, ExecutedGood

LEMMA ReadInstructionsKeepsInv ==
  ASSUME BrainInv, NEW c \in Cycle, ReadInstructions(c)
  PROVE  BrainInv'
<1>1. PICK usable \in BOOLEAN :
        todo' = [todo EXCEPT ![c] =
          {i \in open : usable /\ file.says[i] \in Instruction \ {"HOLD"}}]
  BY DEF ReadInstructions
<1>2. /\ stage[c] = "refresh" /\ stage' = [stage EXCEPT ![c] = "manage"]
      /\ read' = [read EXCEPT ![c] = file]
      /\ UNCHANGED <<seen, said, began, executed, open, resting, file>>
  BY DEF ReadInstructions, Go, Thought, Market
<1>3. BrainTypeOK'
  BY <1>1, <1>2 DEF BrainInv, BrainTypeOK, Stage
<1>4. AnswersShown' /\ FilesShown'
  BY <1>2 DEF BrainInv, BrainTypeOK, AnswersShown, FilesShown, Shown
<1>5. NumbersGrow'
  BY <1>2 DEF BrainInv, BrainTypeOK, NumbersGrow, File
<1>6. TodoRead'
  BY <1>1, <1>2 DEF BrainInv, BrainTypeOK, TodoRead, Instruction
<1>7. ExecutedGood'
  BY <1>2 DEF BrainInv, BrainTypeOK, ExecutedGood
<1>8. QED
  BY <1>3, <1>4, <1>5, <1>6, <1>7 DEF BrainInv

LEMMA CarryOutKeepsInv ==
  ASSUME BrainInv, NEW c \in Cycle, NEW i \in Instrument, CarryOut(c, i)
  PROVE  BrainInv'
<1> DEFINE e == [by |-> c, instrument |-> i, number |-> read[c].number,
                 author |-> read[c].by]
<1>1. /\ stage[c] = "manage" /\ i \in todo[c]
      /\ todo' = [todo EXCEPT ![c] = @ \ {i}]
      /\ UNCHANGED <<stage, seen, said, began, read, resting, file>>
      /\ open' \subseteq open
      /\ executed' = executed \/ executed' = executed \cup {e}
  BY DEF CarryOut, Thought
<1>2. /\ e \in [by : Cycle, instrument : Instrument, number : Nat, author : Cycle \cup {Nobody}]
      /\ stage[e.by] # "idle" /\ began[e.by] < e.number
      /\ e.author \in Cycle /\ stage[e.author] # "idle" /\ e.instrument \in seen[e.author]
  BY <1>1 DEF BrainInv, BrainTypeOK, File, TodoRead, NumbersGrow, FilesShown, Shown
<1>3. BrainTypeOK'
  BY <1>1, <1>2 DEF BrainInv, BrainTypeOK
<1>4. ExecutedGood'
  BY <1>1, <1>2 DEF BrainInv, ExecutedGood
<1>5. TodoRead'
  BY <1>1 DEF BrainInv, BrainTypeOK, TodoRead
<1>6. AnswersShown' /\ FilesShown' /\ NumbersGrow'
  BY <1>1 DEF BrainInv, AnswersShown, FilesShown, Shown, NumbersGrow
<1>7. QED
  BY <1>3, <1>4, <1>5, <1>6 DEF BrainInv

LEMMA ManageKeepsInv ==
  ASSUME BrainInv, NEW c \in Cycle, Manage(c)
  PROVE  BrainInv'
<1>1. /\ stage[c] = "manage" /\ stage' = [stage EXCEPT ![c] = "enter"]
      /\ todo[c] = {}
      /\ read' = [read EXCEPT ![c] = NoFile]
      /\ UNCHANGED <<seen, said, began, todo, executed, open, resting, file>>
  BY DEF Manage, Go, Thought, Market
<1>2. NoFile \in File /\ \A i \in Instrument : NoFile.says[i] = "omitted"
  BY DEF NoFile, File, Silent, Answer
<1>3. BrainTypeOK'
  BY <1>1, <1>2 DEF BrainInv, BrainTypeOK, Stage
<1>4. AnswersShown' /\ FilesShown'
  BY <1>1, <1>2 DEF BrainInv, BrainTypeOK, AnswersShown, FilesShown, Shown
<1>5. NumbersGrow' /\ TodoRead' /\ ExecutedGood'
  BY <1>1 DEF BrainInv, BrainTypeOK, NumbersGrow, TodoRead, ExecutedGood
<1>6. QED
  BY <1>3, <1>4, <1>5 DEF BrainInv

LEMMA PlaceEntriesKeepsInv ==
  ASSUME BrainInv, NEW c \in Cycle, PlaceEntries(c)
  PROVE  BrainInv'
<1>1. /\ stage[c] = "enter" /\ stage' = [stage EXCEPT ![c] = "done"]
      /\ resting' \subseteq Instrument
      /\ UNCHANGED <<seen, said, began, read, todo, executed, open, file>>
  BY DEF PlaceEntries, Go, Thought, Management, BrainInv, BrainTypeOK
<1>2. QED
  BY <1>1 DEF BrainInv, BrainTypeOK, Stage, AnswersShown, FilesShown, Shown, NumbersGrow,
              TodoRead, ExecutedGood

LEMMA KilledKeepsInv ==
  ASSUME BrainInv, NEW c \in Cycle, Killed(c)
  PROVE  BrainInv'
<1>1. /\ stage[c] # "idle" /\ stage' = [stage EXCEPT ![c] = "done"]
      /\ said' = [said EXCEPT ![c] = Silent]
      /\ read' = [read EXCEPT ![c] = NoFile]
      /\ todo' = [todo EXCEPT ![c] = {}]
      /\ UNCHANGED <<seen, began, executed, open, resting, file>>
  BY DEF Killed, Over, Fail, Market
<1>2. /\ Silent \in [Instrument -> Answer] /\ NoFile \in File
      /\ \A i \in Instrument : Silent[i] = "omitted" /\ NoFile.says[i] = "omitted"
  BY DEF NoFile, File, Silent, Answer
<1>3. BrainTypeOK'
  BY <1>1, <1>2 DEF BrainInv, BrainTypeOK, Stage
<1>4. AnswersShown' /\ FilesShown'
  BY <1>1, <1>2 DEF BrainInv, BrainTypeOK, AnswersShown, FilesShown, Shown
<1>5. NumbersGrow' /\ TodoRead' /\ ExecutedGood'
  BY <1>1 DEF BrainInv, BrainTypeOK, NumbersGrow, TodoRead, ExecutedGood
<1>6. QED
  BY <1>3, <1>4, <1>5 DEF BrainInv

LEMMA MarketKeepsInv ==
  ASSUME BrainInv, NEW i \in Instrument, RestingFills(i) \/ StopFills(i)
  PROVE  BrainInv'
  BY DEF RestingFills, StopFills, Thought, Management, BrainInv, BrainTypeOK, AnswersShown,
         FilesShown, Shown, NumbersGrow, TodoRead, ExecutedGood

LEMMA BrainInvNext == BrainInv /\ [Next]_vars => BrainInv'
<1> SUFFICES ASSUME BrainInv, [Next]_vars PROVE BrainInv'
  OBVIOUS
<1>1. CASE UNCHANGED vars
  BY <1>1 DEF vars, BrainInv, BrainTypeOK, AnswersShown, FilesShown, Shown, NumbersGrow,
              TodoRead, ExecutedGood
<1>2. ASSUME NEW c \in Cycle,
             \/ Refrain(c) \/ Convene(c) \/ AskAlone(c) \/ HearProposals(c)
             \/ HearCritiques(c) \/ Arbitrate(c) \/ DecideAlone(c)
      PROVE  BrainInv'
  BY <1>2, DeliberationMoves, DeliberationKeepsInv
<1>3. ASSUME NEW c \in Cycle,
             \/ Start(c) \/ Digest(c) \/ Publish(c) \/ Record(c) \/ ReadInstructions(c)
             \/ Manage(c) \/ PlaceEntries(c) \/ Killed(c)
      PROVE  BrainInv'
  BY <1>3, StartKeepsInv, DigestKeepsInv, PublishKeepsInv, RecordKeepsInv,
     ReadInstructionsKeepsInv, ManageKeepsInv, PlaceEntriesKeepsInv, KilledKeepsInv
<1>4. ASSUME NEW c \in Cycle, NEW i \in Instrument, CarryOut(c, i)
      PROVE  BrainInv'
  BY <1>4, CarryOutKeepsInv
<1>5. ASSUME NEW i \in Instrument, RestingFills(i) \/ StopFills(i)
      PROVE  BrainInv'
  BY <1>5, MarketKeepsInv
<1>6. QED
  BY <1>1, <1>2, <1>3, <1>4, <1>5 DEF Next

LEMMA BrainInvariant == Spec => []BrainInv
  BY BrainInvInit, BrainInvNext, PTL DEF Spec

(* Every variable of the brain keeps its type, for any cycles, instruments and
   timeouts. *)
THEOREM BrainTypeCorrect == Spec => []BrainTypeOK
<1>1. BrainInv => BrainTypeOK
  BY DEF BrainInv
<1>2. QED
  BY <1>1, BrainInvariant, PTL

(* What a cycle carries out was published after it began
   (trader/cycle_stages.py, "禁止复用旧持仓指令"). *)
THEOREM FreshInstructionsOnlyCorrect == Spec => []FreshInstructionsOnly
<1>1. BrainInv => FreshInstructionsOnly
  BY DEF BrainInv, BrainTypeOK, ExecutedGood, FreshInstructionsOnly
<1>2. QED
  BY <1>1, BrainInvariant, PTL

(* What a cycle carries out was written about an instrument in which the author
   had been shown a position (brain/cycle_parts.py, normalize_position_management). *)
THEOREM OnlyShownPositionsCorrect == Spec => []OnlyShownPositions
<1>1. BrainInv => OnlyShownPositions
  BY DEF BrainInv, ExecutedGood, OnlyShownPositions
<1>2. QED
  BY <1>1, BrainInvariant, PTL

-----------------------------------------------------------------------------
(* The time of a committee. *)

LEMMA LeastOf ==
  ASSUME NEW S \in SUBSET Nat, S # {}
  PROVE  \E x \in S : \A y \in S : x <= y
<1>1. PICK x \in S : \A y \in S : <<y, x>> \notin OpToRel(<, Nat)
  BY NatLessThanWellFounded, WFMin
<1>2. \A y \in S : ~(y < x)
  BY <1>1 DEF OpToRel
<1>3. QED
  BY <1>2

LEMMA GreatestOf ==
  ASSUME NEW K, K # {}, NEW f, \A k \in K : f[k] \in Int,
         NEW top \in Int, \A k \in K : f[k] <= top
  PROVE  LET m == Max({f[k] : k \in K}) IN
         /\ \E k \in K : m = f[k]
         /\ \A k \in K : f[k] <= m
<1> DEFINE S == {f[k] : k \in K}
           T == {top - f[k] : k \in K}
<1>1. T \in SUBSET Nat /\ T # {}
  OBVIOUS
<1>2. PICK x \in T : \A y \in T : x <= y
  BY <1>1, LeastOf
<1>3. PICK k \in K : x = top - f[k]
  BY <1>2
<1>4. \A j \in K : f[j] <= f[k]
  <2> TAKE j \in K
  <2>1. top - f[j] \in T
    OBVIOUS
  <2>2. top - f[k] <= top - f[j]
    BY <1>2, <1>3, <2>1
  <2>3. QED
    BY <2>2
<1>5. \E y \in S : \A z \in S : y >= z
  BY <1>4
<1>6. Max(S) \in S /\ \A z \in S : Max(S) >= z
  BY <1>5 DEF Max
<1>7. QED
  BY <1>6

LEMMA MinOfTwo ==
  ASSUME NEW a \in Int, NEW b \in Int
  PROVE  Min({a, b}) = IF a <= b THEN a ELSE b
<1>1. \E x \in {a, b} : \A y \in {a, b} : x <= y
  OBVIOUS
<1>2. Min({a, b}) \in {a, b} /\ \A y \in {a, b} : Min({a, b}) <= y
  BY <1>1 DEF Min
<1>3. QED
  BY <1>2

LEMMA MaxOfTwo ==
  ASSUME NEW a \in Int, NEW b \in Int
  PROVE  Max({a, b}) = IF a >= b THEN a ELSE b
<1>1. \E x \in {a, b} : \A y \in {a, b} : x >= y
  OBVIOUS
<1>2. Max({a, b}) \in {a, b} /\ \A y \in {a, b} : Max({a, b}) >= y
  BY <1>1 DEF Max
<1>3. QED
  BY <1>2

(* A seat is back in the end, one that is not asked again within its budget. *)
LEMMA SeatBack ==
  ASSUME NEW b \in Nat, Models \in Nat \ {0}
  PROVE  \E top \in Int : \A end \in SeatEnds(b) :
           /\ end.took \in Int /\ end.took <= top /\ end.again \in BOOLEAN
           /\ ~end.again => end.took <= b + 1
<1> DEFINE fallback == Max({200, b - 200})
           late == Models * fallback + 1
           top == b + 16 + late
<1>1. fallback \in Nat
  <2> DEFINE less == b - 200
  <2>1. less \in Int
    OBVIOUS
  <2> HIDE DEF less
  <2>2. Max({200, less}) = IF 200 >= less THEN 200 ELSE less
    BY <2>1, MaxOfTwo
  <2>3. QED
    BY <2>2 DEF less
<1> HIDE DEF fallback
<1>2. Models * fallback \in Nat
  BY <1>1
<1>3. late \in Nat /\ late >= 1
  BY <1>2
<1>4. RequestEnds(b, 1) = {1, b + 1} /\ RequestEnds(fallback, Models) = {1, late}
  BY <1>1 DEF RequestEnds, Overhead
<1> HIDE DEF late
<1> DEFINE once == {[took |-> t, again |-> FALSE] : t \in {1, b + 1}}
           twice == {[took |-> t + 15 + u, again |-> TRUE] : t \in {1, b + 1}, u \in {1, late}}
<1>5. SeatEnds(b) \subseteq once \cup twice
  BY <1>4 DEF SeatEnds, fallback
<1>6. ASSUME NEW end \in once
      PROVE  /\ end.took \in Int /\ end.took <= top /\ end.again \in BOOLEAN
             /\ end.took <= b + 1
  <2>1. PICK t \in {1, b + 1} : end = [took |-> t, again |-> FALSE]
    OBVIOUS
  <2>2. end.took = t /\ end.again = FALSE
    BY <2>1
  <2>3. t \in Int /\ t <= b + 1
    BY <2>1
  <2>4. top \in Int /\ b + 1 <= top
    BY <1>3
  <2> HIDE DEF top
  <2>5. end.took \in Int /\ end.took <= top /\ end.took <= b + 1
    BY <2>2, <2>3, <2>4
  <2>6. end.again \in BOOLEAN
    BY <2>2
  <2>7. QED
    BY <2>5, <2>6
<1>7. ASSUME NEW end \in twice
      PROVE  end.took \in Int /\ end.took <= top /\ end.again = TRUE
  <2>1. PICK t \in {1, b + 1}, u \in {1, late} : end = [took |-> t + 15 + u, again |-> TRUE]
    OBVIOUS
  <2>2. end.took = t + 15 + u /\ end.again = TRUE
        /\ t \in Int /\ t <= b + 1 /\ u \in Int /\ u <= late
    BY <2>1, <1>3
  <2>3. QED
    BY <2>2, <1>3
<1>8. top \in Int
  BY <1>3
<1> HIDE DEF once, twice, top
<1>9. QED
  BY <1>5, <1>6, <1>7, <1>8

(* So is a round of seats that start in turn. *)
LEMMA RoundBack ==
  ASSUME NEW b \in Nat, NEW end \in ProposalEnds(b), CouncilAssumption
  PROVE  /\ end.took \in Int /\ end.again \in BOOLEAN
         /\ ~end.again => end.took <= Stagger * (Seats - 1) + b + 1
<1>1. PICK e \in [Seat -> SeatEnds(b)] :
        end = [took |-> Max({Stagger * (k - 1) + e[k].took : k \in Seat}),
               again |-> \E k \in Seat : e[k].again]
  BY DEF ProposalEnds
<1>2. /\ Seats \in Nat \ {0} /\ Models \in Nat \ {0}
      /\ Seat # {} /\ \A k \in Seat : k \in Int /\ 1 <= k /\ k <= Seats
  BY DEF CouncilAssumption, Seat
<1>3. PICK top \in Int : \A x \in SeatEnds(b) :
        /\ x.took \in Int /\ x.took <= top /\ x.again \in BOOLEAN
        /\ ~x.again => x.took <= b + 1
  BY <1>2, SeatBack
<1> DEFINE f == [k \in Seat |-> 8 * (k - 1) + e[k].took]
           most == 8 * Seats + top
<1>4. \A k \in Seat : e[k] \in SeatEnds(b)
  BY <1>1
<1>5. \A k \in Seat : f[k] \in Int /\ f[k] <= most
  <2> TAKE k \in Seat
  <2>1. e[k].took \in Int /\ e[k].took <= top /\ k \in Int /\ k <= Seats
    BY <1>2, <1>3, <1>4
  <2>2. f[k] = 8 * (k - 1) + e[k].took
    OBVIOUS
  <2>3. QED
    BY <1>2, <2>1, <2>2
<1>6. most \in Int
  BY <1>2
<1> HIDE DEF most
<1>7. {Stagger * (k - 1) + e[k].took : k \in Seat} = {f[k] : k \in Seat}
  BY DEF Stagger
<1> HIDE DEF f
<1>8. \E k \in Seat : Max({f[j] : j \in Seat}) = f[k]
  BY <1>2, <1>5, <1>6, GreatestOf
<1>9. PICK k \in Seat : end.took = f[k]
  BY <1>1, <1>7, <1>8
<1>10. end.again = \E j \in Seat : e[j].again
  BY <1>1
<1>11. end.took \in Int /\ end.again \in BOOLEAN
  BY <1>5, <1>9, <1>10
<1>12. ASSUME ~end.again
       PROVE  end.took <= Stagger * (Seats - 1) + b + 1
  <2>1. ~e[k].again
    BY <1>10, <1>12
  <2>2. e[k].took \in Int /\ e[k].took <= b + 1
    BY <1>3, <1>4, <2>1
  <2>3. f[k] = 8 * (k - 1) + e[k].took
    BY DEF f
  <2>4. QED
    BY <1>2, <1>9, <2>2, <2>3 DEF Stagger
<1>13. QED
  BY <1>11, <1>12

(* The time a committee needs so that its CIO is always asked: what the first
   round leaves to him covers the staggered starts of its seats, the second
   round and 5 s.  The three seats of the factory committee fit into every
   timeout that can be configured (clamp_council_timeout, 30 s at least). *)
TimeForAll ==
  \A t \in Timeout :
    /\ Effective(t) >= 300
    /\ Stagger * (Seats - 1) + SafeReasoning + 36
         <= Min({Arbitration, (35 * Effective(t)) \div 100})

(* The seats of the first round get what is left without the reserve. *)
LEMMA FirstRound ==
  ASSUME NEW mode \in Mode, NEW left \in Int, left >= 300
  PROVE  /\ ProposalBudget(mode, left) \in Nat
         /\ ProposalBudget(mode, left) <= left - Min({Arbitration, (35 * left) \div 100})
         /\ Min({Arbitration, (35 * left) \div 100}) \in Int
<1> DEFINE share == (35 * left) \div 100
           least == IF mode = "standard" THEN 50 ELSE 2 * 50
           reserve == Min({450, share})
           half == (55 * left) \div 100
           most == Max({half, 900})
           rest == left - reserve
           given == Min({most, rest})
<1>1. share \in Int /\ 105 <= share /\ 100 * share <= 35 * left /\ half \in Int
  OBVIOUS
<1>2. least \in Int /\ least <= 100
  OBVIOUS
<1> HIDE DEF share, least, half
<1>3. Max({least, share}) = share
  BY <1>1, <1>2, MaxOfTwo
<1>4. reserve \in Int /\ reserve <= share /\ Reserve(mode, left) = reserve
  <2>1. reserve = IF 450 <= share THEN 450 ELSE share
    BY <1>1, MinOfTwo
  <2>2. Reserve(mode, left) = Min({450, Max({least, share})})
    BY DEF Reserve, Arbitration, SafeReasoning, least, share
  <2>3. Reserve(mode, left) = reserve
    BY <1>3, <2>2
  <2> HIDE DEF reserve
  <2>4. QED
    BY <1>1, <2>1, <2>3
<1> HIDE DEF reserve
<1>5. rest \in Int /\ rest >= 20
  BY <1>1, <1>4
<1>6. most \in Int /\ most >= 900
  <2>1. Max({half, 900}) = IF half >= 900 THEN half ELSE 900
    BY <1>1, MaxOfTwo
  <2>2. QED
    BY <1>1, <2>1
<1> HIDE DEF most, rest
<1>7. given \in Int /\ given >= 20 /\ given <= rest
  <2>1. given = IF most <= rest THEN most ELSE rest
    BY <1>5, <1>6, MinOfTwo
  <2>2. QED
    BY <1>5, <1>6, <2>1
<1> HIDE DEF given
<1>8. Max({20, given}) = given
  <2>1. Max({20, given}) = IF 20 >= given THEN 20 ELSE given
    BY <1>7, MaxOfTwo
  <2>2. QED
    BY <1>7, <2>1
<1>9. ProposalBudget(mode, left) = Max({20, given})
  BY <1>4 DEF ProposalBudget, given, most, half, rest
<1>10. Min({Arbitration, (35 * left) \div 100}) = reserve
  BY DEF Arbitration, reserve, share
<1>11. QED
  BY <1>4, <1>7, <1>8, <1>9, <1>10 DEF rest

(* The second round leaves 5 s if it begins with 8.5 s. *)
LEMMA SecondRound ==
  ASSUME NEW left \in Int, NEW took \in CritiqueEnds(CritiqueBudget(left))
  PROVE  /\ took \in Int
         /\ left >= SafeReasoning + 35 => left - took >= SafeReasoning
<1> DEFINE share == (40 * left) \div 100
           half == left \div 2
           deep == Max({50, half})
           reserve == Min({450, deep})
           rest == left - reserve
           given == Min({share, rest})
           budget == Max({20, given})
<1>1. share \in Int /\ 100 * share <= 40 * left /\ half \in Int
  OBVIOUS
<1> HIDE DEF share, half
<1>2. deep \in Int
  <2>1. Max({50, half}) = IF 50 >= half THEN 50 ELSE half
    BY <1>1, MaxOfTwo
  <2>2. QED
    BY <1>1, <2>1
<1> HIDE DEF deep
<1>3. reserve \in Int
  <2>1. Min({450, deep}) = IF 450 <= deep THEN 450 ELSE deep
    BY <1>2, MinOfTwo
  <2>2. QED
    BY <1>2, <2>1
<1> HIDE DEF reserve
<1>4. rest \in Int
  BY <1>3
<1> HIDE DEF rest
<1>5. given \in Int /\ given <= share
  <2>1. Min({share, rest}) = IF share <= rest THEN share ELSE rest
    BY <1>1, <1>4, MinOfTwo
  <2>2. QED
    BY <1>1, <1>4, <2>1
<1> HIDE DEF given
<1>6. budget \in Int /\ (budget <= share \/ budget = 20)
  <2>1. Max({20, given}) = IF 20 >= given THEN 20 ELSE given
    BY <1>5, MaxOfTwo
  <2>2. QED
    BY <1>1, <1>5, <2>1
<1> HIDE DEF budget
<1>7. CritiqueBudget(left) = budget
  BY DEF CritiqueBudget, Arbitration, SafeReasoning, budget, given, share, rest, reserve, deep, half
<1>8. took = 1 \/ took = budget + 1
  BY <1>7 DEF CritiqueEnds, Overhead
<1>9. QED
  BY <1>1, <1>6, <1>8 DEF SafeReasoning

(* The clock of a committee at the start of each of its steps. *)
CouncilInv ==
  /\ council \in [Cycle -> [mode : Mode \cup {"none"}, left : Int, again : BOOLEAN]]
  /\ \A c \in Cycle :
       /\ stage[c] = "proposals" =>
            council[c].mode \in Mode /\ \E t \in Timeout : council[c].left = Effective(t)
       /\ stage[c] = "critiques" /\ ~council[c].again =>
            council[c].left >= SafeReasoning + 35
  /\ ArbitrationReached

LEMMA EffectiveInt ==
  ASSUME NEW t \in Nat
  PROVE  Effective(t) \in Int
<1>1. Max({10, t}) \in Int
  BY MaxOfTwo
<1> DEFINE most == Max({10, t})
<1> HIDE DEF most
<1>2. Min({4200, most}) \in Int
  BY <1>1, MinOfTwo DEF most
<1>3. QED
  BY <1>2 DEF Effective, Longest, most

(* A step that hands council c on or over, and begins no part of one. *)
LEMMA NoCouncilStep ==
  ASSUME BrainTypeOK, CouncilInv, NEW c \in Cycle,
         NEW to \in Stage \ {"proposals", "critiques", "cio"},
         stage' = [stage EXCEPT ![c] = to],
         council' = council \/ council' = [council EXCEPT ![c] = NoCouncil]
  PROVE  CouncilInv'
<1>1. stage \in [Cycle -> Stage]
  BY DEF BrainTypeOK
<1>2. council' \in [Cycle -> [mode : Mode \cup {"none"}, left : Int, again : BOOLEAN]]
  <2>1. NoCouncil \in [mode : Mode \cup {"none"}, left : Int, again : BOOLEAN]
    BY DEF NoCouncil
  <2>2. QED
    BY <2>1 DEF CouncilInv
<1>3. \A d \in Cycle : stage'[d] \in {"proposals", "critiques", "cio"} =>
        d # c /\ stage'[d] = stage[d] /\ council'[d] = council[d]
  BY <1>1 DEF CouncilInv
<1>4. QED
  BY <1>2, <1>3 DEF CouncilInv, ArbitrationReached

LEMMA ConveneKeepsTime ==
  ASSUME BrainAssumption, BrainTypeOK, CouncilInv, NEW c \in Cycle, Convene(c)
  PROVE  CouncilInv'
<1>1. PICK mode \in Mode, t \in Timeout :
        IF Effective(t) < Needed(mode)
        THEN Go(c, "ask", "alone") /\ UNCHANGED council
        ELSE /\ Go(c, "ask", "proposals")
             /\ council' = [council EXCEPT ![c] = [mode |-> mode, left |-> Effective(t),
                                                   again |-> FALSE]]
  BY DEF Convene
<1>2. CASE Effective(t) < Needed(mode)
  <2>1. stage' = [stage EXCEPT ![c] = "alone"] /\ council' = council
    BY <1>1, <1>2 DEF Go
  <2>2. "alone" \in Stage \ {"proposals", "critiques", "cio"}
    BY DEF Stage
  <2>3. QED
    BY <2>1, <2>2, NoCouncilStep
<1>3. CASE ~(Effective(t) < Needed(mode))
  <2> DEFINE n == [mode |-> mode, left |-> Effective(t), again |-> FALSE]
  <2>1. stage' = [stage EXCEPT ![c] = "proposals"] /\ council' = [council EXCEPT ![c] = n]
    BY <1>1, <1>3 DEF Go
  <2>2. n \in [mode : Mode \cup {"none"}, left : Int, again : BOOLEAN]
        /\ n.mode \in Mode /\ n.left = Effective(t)
    BY EffectiveInt DEF BrainAssumption
  <2> HIDE DEF n
  <2>3. council' \in [Cycle -> [mode : Mode \cup {"none"}, left : Int, again : BOOLEAN]]
    BY <2>1, <2>2 DEF CouncilInv
  <2>4. stage'[c] = "proposals" /\ council'[c] = n
        /\ \A d \in Cycle \ {c} : stage'[d] = stage[d] /\ council'[d] = council[d]
    BY <2>1 DEF CouncilInv, BrainTypeOK
  <2>5. QED
    BY <2>2, <2>3, <2>4 DEF CouncilInv, ArbitrationReached
<1>4. QED
  BY <1>2, <1>3

LEMMA ProposalsKeepTime ==
  ASSUME CouncilAssumption, TimeForAll, BrainTypeOK, CouncilInv, NEW c \in Cycle,
         HearProposals(c)
  PROVE  CouncilInv'
<1> DEFINE mode == council[c].mode
           left == council[c].left
           budget == ProposalBudget(mode, left)
           reserve == Min({Arbitration, (35 * left) \div 100})
           next == IF mode = "standard" THEN "cio" ELSE "critiques"
<1>1. stage[c] = "proposals" /\ stage' = [stage EXCEPT ![c] = next]
  BY DEF HearProposals, Go
<1>2. PICK end \in ProposalEnds(budget) :
        council' = [council EXCEPT ![c] = [mode |-> mode, left |-> left - end.took,
                                           again |-> end.again]]
  BY DEF HearProposals
<1>3. mode \in Mode /\ left \in Int /\ left >= 300
      /\ Stagger * (Seats - 1) + SafeReasoning + 36 <= reserve
  BY <1>1 DEF CouncilInv, TimeForAll
<1> HIDE DEF mode, left
<1>4. budget \in Nat /\ budget <= left - reserve /\ reserve \in Int
  BY <1>3, FirstRound
<1> HIDE DEF budget, reserve
<1>5. /\ end.took \in Int /\ end.again \in BOOLEAN
      /\ ~end.again => end.took <= Stagger * (Seats - 1) + budget + 1
  BY <1>2, <1>4, RoundBack
<1>6. ~end.again => left - end.took >= SafeReasoning + 35
  BY <1>3, <1>4, <1>5 DEF CouncilAssumption, Stagger, SafeReasoning
<1>7. /\ council' \in [Cycle -> [mode : Mode \cup {"none"}, left : Int, again : BOOLEAN]]
      /\ council'[c].left = left - end.took /\ council'[c].again = end.again
      /\ \A d \in Cycle \ {c} : council'[d] = council[d]
  <2>1. council \in [Cycle -> [mode : Mode \cup {"none"}, left : Int, again : BOOLEAN]]
    BY DEF CouncilInv
  <2> DEFINE n == [mode |-> mode, left |-> left - end.took, again |-> end.again]
  <2>2. council' = [council EXCEPT ![c] = n]
    BY <1>2
  <2>3. n \in [mode : Mode \cup {"none"}, left : Int, again : BOOLEAN]
    BY <1>3, <1>5
  <2>4. n.left = left - end.took /\ n.again = end.again
    OBVIOUS
  <2> HIDE DEF n
  <2>5. QED
    BY <2>1, <2>2, <2>3, <2>4
<1>8. stage'[c] \in {"cio", "critiques"} /\ \A d \in Cycle \ {c} : stage'[d] = stage[d]
  BY <1>1 DEF BrainTypeOK
<1>9. ~council'[c].again => council'[c].left >= SafeReasoning + 35
                             /\ council'[c].left >= SafeReasoning
  BY <1>3, <1>5, <1>6, <1>7 DEF SafeReasoning
<1>10. ASSUME NEW d \in Cycle
       PROVE  /\ stage'[d] = "proposals" =>
                   council'[d].mode \in Mode /\ \E t \in Timeout : council'[d].left = Effective(t)
              /\ stage'[d] = "critiques" /\ ~council'[d].again =>
                   council'[d].left >= SafeReasoning + 35
              /\ stage'[d] = "cio" /\ ~council'[d].again => council'[d].left >= SafeReasoning
  <2>1. CASE d = c
    BY <1>8, <1>9, <2>1
  <2>2. CASE d # c
    BY <1>7, <1>8, <2>2 DEF CouncilInv, ArbitrationReached
  <2>3. QED
    BY <2>1, <2>2
<1>11. QED
  BY <1>7, <1>10 DEF CouncilInv, ArbitrationReached

LEMMA CritiquesKeepTime ==
  ASSUME BrainTypeOK, CouncilInv, NEW c \in Cycle, HearCritiques(c)
  PROVE  CouncilInv'
<1> DEFINE left == council[c].left
<1>1. stage[c] = "critiques" /\ stage' = [stage EXCEPT ![c] = "cio"]
  BY DEF HearCritiques, Go
<1>2. \/ council' = council
      \/ \E took \in CritiqueEnds(CritiqueBudget(left)) :
           council' = [council EXCEPT ![c].left = @ - took]
  BY DEF HearCritiques
<1>3. left \in Int /\ (~council[c].again => left >= SafeReasoning + 35)
      /\ council \in [Cycle -> [mode : Mode \cup {"none"}, left : Int, again : BOOLEAN]]
  BY <1>1 DEF CouncilInv
<1>4. stage'[c] = "cio" /\ \A d \in Cycle \ {c} : stage'[d] = stage[d]
  BY <1>1 DEF BrainTypeOK
<1>5. /\ council' \in [Cycle -> [mode : Mode \cup {"none"}, left : Int, again : BOOLEAN]]
      /\ \A d \in Cycle \ {c} : council'[d] = council[d]
      /\ ~council'[c].again => council'[c].left >= SafeReasoning
  <2>1. CASE council' = council
    BY <1>3, <2>1 DEF SafeReasoning
  <2>2. CASE council' # council
    <3>1. PICK took \in CritiqueEnds(CritiqueBudget(left)) :
            council' = [council EXCEPT ![c].left = @ - took]
      BY <1>2, <2>2
    <3> HIDE DEF left
    <3>2. took \in Int /\ (left >= SafeReasoning + 35 => left - took >= SafeReasoning)
      BY <1>3, SecondRound
    <3>3. /\ council' \in [Cycle -> [mode : Mode \cup {"none"}, left : Int, again : BOOLEAN]]
          /\ council'[c].left = left - took /\ council'[c].again = council[c].again
          /\ \A d \in Cycle \ {c} : council'[d] = council[d]
      BY <1>3, <3>1, <3>2 DEF left
    <3>4. QED
      BY <1>3, <3>2, <3>3
  <2>3. QED
    BY <2>1, <2>2
<1>6. QED
  BY <1>4, <1>5 DEF CouncilInv, ArbitrationReached

LEMMA OtherStepsKeepTime ==
  ASSUME BrainTypeOK, CouncilInv, NEW c \in Cycle,
         \/ Start(c) \/ Refrain(c) \/ AskAlone(c) \/ Arbitrate(c) \/ DecideAlone(c)
         \/ Digest(c) \/ Publish(c) \/ Record(c) \/ ReadInstructions(c) \/ Manage(c)
         \/ PlaceEntries(c) \/ Killed(c)
  PROVE  CouncilInv'
<1> DEFINE Rest == Stage \ {"proposals", "critiques", "cio"}
<1>1. {"ask", "alone", "answer", "write", "record", "refresh", "manage", "enter", "done"}
        \subseteq Rest
  BY DEF Stage
<1> HIDE DEF Rest
<1>2. /\ \E to \in Rest : stage' = [stage EXCEPT ![c] = to]
      /\ council' = council \/ council' = [council EXCEPT ![c] = NoCouncil]
  <2>1. CASE Start(c)
    BY <1>1, <2>1 DEF Start, Go
  <2>2. CASE Refrain(c)
    BY <1>1, <2>2 DEF Refrain, Fail, Thought
  <2>3. CASE AskAlone(c)
    BY <1>1, <2>3 DEF AskAlone, Go, Thought
  <2>4. CASE Arbitrate(c)
    BY <1>1, <2>4 DEF Arbitrate, Go
  <2>5. CASE DecideAlone(c)
    BY <1>1, <2>5 DEF DecideAlone, Go, Fail, Thought
  <2>6. CASE Digest(c)
    BY <1>1, <2>6 DEF Digest, Go
  <2>7. CASE Publish(c)
    BY <1>1, <2>7 DEF Publish, Go
  <2>8. CASE Record(c)
    BY <1>1, <2>8 DEF Record, Go, Fail, Thought
  <2>9. CASE ReadInstructions(c)
    BY <1>1, <2>9 DEF ReadInstructions, Go, Thought
  <2>10. CASE Manage(c)
    BY <1>1, <2>10 DEF Manage, Go, Thought
  <2>11. CASE PlaceEntries(c)
    BY <1>1, <2>11 DEF PlaceEntries, Go, Thought
  <2>12. CASE Killed(c)
    BY <1>1, <2>12 DEF Killed, Fail
  <2>13. QED
    BY <2>1, <2>2, <2>3, <2>4, <2>5, <2>6, <2>7, <2>8, <2>9, <2>10, <2>11, <2>12
<1>3. QED
  BY <1>2, NoCouncilStep DEF Rest

LEMMA CouncilInvNext ==
  ASSUME CouncilAssumption, BrainAssumption, TimeForAll, BrainTypeOK, CouncilInv, [Next]_vars
  PROVE  CouncilInv'
<1>1. ASSUME NEW c \in Cycle, Convene(c) PROVE CouncilInv'
  BY <1>1, ConveneKeepsTime
<1>2. ASSUME NEW c \in Cycle, HearProposals(c) PROVE CouncilInv'
  BY <1>2, ProposalsKeepTime
<1>3. ASSUME NEW c \in Cycle, HearCritiques(c) PROVE CouncilInv'
  BY <1>3, CritiquesKeepTime
<1>4. ASSUME NEW c \in Cycle,
             \/ Start(c) \/ Refrain(c) \/ AskAlone(c) \/ Arbitrate(c) \/ DecideAlone(c)
             \/ Digest(c) \/ Publish(c) \/ Record(c) \/ ReadInstructions(c) \/ Manage(c)
             \/ PlaceEntries(c) \/ Killed(c)
      PROVE  CouncilInv'
  BY <1>4, OtherStepsKeepTime
<1>5. ASSUME UNCHANGED <<stage, council>> PROVE CouncilInv'
  BY <1>5 DEF CouncilInv, ArbitrationReached
<1>6. ASSUME NEW c \in Cycle, NEW i \in Instrument, CarryOut(c, i) PROVE CouncilInv'
  BY <1>5, <1>6 DEF CarryOut, Thought
<1>7. ASSUME NEW i \in Instrument, RestingFills(i) \/ StopFills(i) PROVE CouncilInv'
  BY <1>5, <1>7 DEF RestingFills, StopFills, Thought
<1>8. ASSUME UNCHANGED vars PROVE CouncilInv'
  BY <1>5, <1>8 DEF vars
<1>9. QED
  BY <1>1, <1>2, <1>3, <1>4, <1>6, <1>7, <1>8 DEF Next

(* A CIO whose committee was not held up by a seat that had to be asked again is
   always left his 5 s, for any committee and any timeouts that TimeForAll fits
   (council/debate.py, the reserve of the first round and the budget of the
   second). *)
THEOREM ArbitrationReachedCorrect ==
  ASSUME TimeForAll
  PROVE  Spec => []ArbitrationReached
<1> USE CouncilAssumption, BrainAssumption
<1>1. Init => CouncilInv
  BY DEF Init, CouncilInv, ArbitrationReached, NoCouncil
<1>2. BrainInv /\ CouncilInv /\ [Next]_vars => CouncilInv'
  BY CouncilInvNext DEF BrainInv
<1>3. CouncilInv => ArbitrationReached
  BY DEF CouncilInv
<1>4. QED
  BY <1>1, <1>2, <1>3, BrainInvariant, PTL DEF Spec

(* The three seats of the factory committee, or fewer, fit into every timeout
   the configuration accepts. *)
THEOREM FactoryCommitteeArbitrates ==
  ASSUME Seats <= 3, \A t \in Timeout : t >= 300
  PROVE  Spec => []ArbitrationReached
<1>1. TimeForAll
  <2> SUFFICES ASSUME NEW t \in Timeout
               PROVE  /\ Effective(t) >= 300
                      /\ Stagger * (Seats - 1) + SafeReasoning + 36
                           <= Min({Arbitration, (35 * Effective(t)) \div 100})
    BY DEF TimeForAll
  <2>1. t \in Int /\ t >= 300 /\ Seats \in Int /\ Seats <= 3
    BY BrainAssumption, CouncilAssumption
  <2> DEFINE left == Effective(t)
             share == (35 * left) \div 100
  <2>2. Max({10, t}) = t
    <3>1. Max({10, t}) = IF 10 >= t THEN 10 ELSE t
      BY <2>1, MaxOfTwo
    <3>2. QED
      BY <2>1, <3>1
  <2>3. left = IF 4200 <= t THEN 4200 ELSE t
    <3>1. Min({4200, t}) = IF 4200 <= t THEN 4200 ELSE t
      BY <2>1, MinOfTwo
    <3>2. QED
      BY <2>2, <3>1 DEF Effective, Longest
  <2>4. left \in Int /\ left >= 300
    BY <2>1, <2>3
  <2> HIDE DEF left
  <2>5. share \in Int /\ share >= 105
    BY <2>4
  <2> HIDE DEF share
  <2>6. Min({450, share}) = IF 450 <= share THEN 450 ELSE share
    BY <2>5, MinOfTwo
  <2>7. Min({450, share}) >= 105
    BY <2>5, <2>6
  <2>8. Stagger * (Seats - 1) + SafeReasoning + 36 <= 102
    BY <2>1 DEF Stagger, SafeReasoning
  <2>9. Min({450, share}) \in Int /\ Stagger * (Seats - 1) + SafeReasoning + 36 \in Int
    BY <2>1, <2>5, <2>6 DEF Stagger, SafeReasoning
  <2>10. Stagger * (Seats - 1) + SafeReasoning + 36 <= Min({450, share})
    BY <2>7, <2>8, <2>9
  <2>11. QED
    BY <2>4, <2>10 DEF left, share, Arbitration
<1>2. QED
  BY <1>1, ArbitrationReachedCorrect
=============================================================================
