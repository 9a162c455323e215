-------------------------- MODULE EntryCycleProofs --------------------------
(***************************************************************************)
(* Theorems about the reservation ledger, for every finite set of accounts *)
(* and intents, every set of amounts and every set of caps, and about the  *)
(* trading cycle that uses it, for every set of decisions, every           *)
(* assignment of instruments and sides, every limit and every set of       *)
(* faults.                                                                 *)
(***************************************************************************)
EXTENDS EntryCycle, UnitSumsProofs

-----------------------------------------------------------------------------
(* Type correctness of the ledger, for any sets of accounts and intents. *)

LEMMA KeyParts ==
  ASSUME NEW k \in Key
  PROVE  k[1] \in Account /\ k[2] \in Intent /\ k \in KeysOf(k[1])
BY DEF Key, KeysOf

LEMMA KeysFinite ==
  ASSUME NEW a \in Account
  PROVE  IsFiniteSet(KeysOf(a)) /\ KeysOf(a) \subseteq Key
<1>1. IsFiniteSet({a}) /\ IsFiniteSet(Intent)
  BY FS_Singleton, ReservationAssumption
<1>2. IsFiniteSet({a} \X Intent)
  BY <1>1, FS_Product
<1>3. QED
  BY <1>2 DEF KeysOf, Key

LEMMA HeldIsNat ==
  ASSUME LedgerTypeOK
  PROVE  \A k \in Key : Held[k] = Holds(rows[k]) /\ Holds(rows[k]) \in Nat
BY DEF LedgerTypeOK, Row, Held, Holds

LEMMA TotalIsNat ==
  ASSUME LedgerTypeOK, NEW a \in Account
  PROVE  ActiveTotal(a) \in Nat
<1>1. \A k \in KeysOf(a) : Held[k] \in Nat
  BY HeldIsNat, KeysFinite
<1>2. QED
  BY <1>1, KeysFinite, AllUnitsFinite DEF ActiveTotal

(* A row that reserve() may still write: unknown so far, or occupying. *)
Open(r) == ~Present(r) \/ (~r.released /\ r.state \notin Terminal)

(* All that reserve(), release() and confirm() may do to the table: nothing,
   or overwrite one open row by a row r that keeps flag and state in agreement
   and either releases or fits under the cap. *)
Overwrites(k, r) ==
  /\ Open(rows[k])
  /\ r.state \in ValidStates
  /\ Present(rows[k]) \/ ~r.released
  /\ r.amount \in Amount \cup {Holds(rows[k])}
  /\ r.released <=> r.state \in Terminal
  /\ Fits(ActiveTotal(k[1]) - Holds(rows[k]) + r.amount)
  /\ rows' = [rows EXCEPT ![k] = r]

LEMMA ReserveEffect ==
  ASSUME LedgerTypeOK, NEW k \in Key, NEW amt \in Amount \cup {0}, NEW st \in ValidStates,
         NEW call \in Calls, ReserveAs(call, k, amt, st)
  PROVE  /\ limit' = limit
         /\ reply' \in [call : Calls, outcome : Outcomes]
         /\ rows' = rows \/ \E r \in Row : Overwrites(k, r)
<1> USE DEF LedgerTypeOK, Answer, Calls, Outcomes
<1>0. amt \in Nat
  BY ReservationAssumption
<1>1. CASE RefuseNewTerminal(call, k, st)
  BY <1>1 DEF RefuseNewTerminal
<1>2. CASE InsertRow(call, k, amt, st)
  <2> DEFINE r == [state |-> st, amount |-> amt, released |-> FALSE]
  <2>1. r \in Row /\ r.state = st /\ r.amount = amt /\ r.released = FALSE
    BY <1>0 DEF Row
  <2>2. ~Present(rows[k]) /\ st \in Occupying /\ Holds(rows[k]) = 0
    BY <1>2 DEF InsertRow, Holds
  <2>3. limit' = limit /\ reply' \in [call : Calls, outcome : Outcomes]
    <3>1. \E o \in {"ok", "exceeded"} :
             limit' = limit /\ reply' = [call |-> call, outcome |-> o]
      BY <1>2, Zenon DEF InsertRow
    <3>2. QED
      BY <3>1
  <2>4. st \notin Terminal
    BY <2>2 DEF Occupying, Terminal
  <2>5. CASE Fits(ActiveTotal(k[1]) + amt)
    <3>1. rows' = [rows EXCEPT ![k] = r]
      BY <1>2, <2>5 DEF InsertRow, Write
    <3> HIDE DEF r
    <3>2. Fits(ActiveTotal(k[1]) - Holds(rows[k]) + r.amount)
      BY <2>1, <2>2, <2>5, TotalIsNat, KeyParts
    <3>3. Overwrites(k, r)
      BY <2>1, <2>2, <2>4, <3>1, <3>2 DEF Overwrites, Open
    <3>4. QED
      BY <2>1, <2>3, <3>3
  <2>6. CASE ~Fits(ActiveTotal(k[1]) + amt)
    BY <1>2, <2>3, <2>6 DEF InsertRow
  <2>7. QED
    BY <2>5, <2>6
<1>3. CASE KeepTerminal(call, k)
  BY <1>3 DEF KeepTerminal
<1>4. CASE AdvanceRow(call, k, amt, st)
  <2> DEFINE new == IF amt > 0 THEN amt ELSE rows[k].amount
             r == [state |-> st, amount |-> new, released |-> st \in Terminal]
  <2>1. new \in Nat /\ new \in Amount \cup {rows[k].amount}
    BY <1>0 DEF Row
  <2>2. limit' = limit /\ reply' \in [call : Calls, outcome : Outcomes]
    BY <1>4 DEF AdvanceRow
  <2>3. /\ Present(rows[k]) /\ ~rows[k].released /\ rows[k].state \notin Terminal
        /\ Holds(rows[k]) = rows[k].amount
    BY <1>4 DEF AdvanceRow, Holds
  <2>4. CASE Fits(ActiveTotal(k[1]) - rows[k].amount + new)
    <3>1. rows' = [rows EXCEPT ![k] = r]
      BY <1>4, <2>4 DEF AdvanceRow, Write
    <3>2. r \in Row /\ r.state = st /\ r.amount = new /\ r.released = (st \in Terminal)
      BY <2>1 DEF Row
    <3> HIDE DEF r
    <3>3. Overwrites(k, r)
      BY <2>1, <2>3, <2>4, <3>1, <3>2 DEF Overwrites, Open
    <3>4. QED
      BY <2>2, <3>2, <3>3
  <2>5. CASE ~Fits(ActiveTotal(k[1]) - rows[k].amount + new)
    BY <1>4, <2>2, <2>5 DEF AdvanceRow
  <2>6. QED
    BY <2>4, <2>5
<1>5. QED
  BY <1>1, <1>2, <1>3, <1>4 DEF ReserveAs

LEMMA ReserveType ==
  ASSUME LedgerTypeOK, NEW k \in Key, NEW amt \in Amount \cup {0}, NEW st \in ValidStates,
         NEW call \in Calls, ReserveAs(call, k, amt, st)
  PROVE  LedgerTypeOK'
<1>1. limit' = limit /\ reply' \in [call : Calls, outcome : Outcomes]
  BY ReserveEffect
<1>2. rows' \in [Key -> Row]
  BY ReserveEffect DEF Overwrites, LedgerTypeOK
<1>3. QED
  BY <1>1, <1>2 DEF LedgerTypeOK

LEMMA LedgerStep ==
  ASSUME LedgerNext
  PROVE  \/ \E k \in Key, amt \in Amount \cup {0}, st \in ValidStates, call \in Calls :
               ReserveAs(call, k, amt, st)
         \/ \E known \in SUBSET Intent : Recovery(known)
         \/ ChangeLimit
<1>1. CASE \E k \in Key, amt \in Amount, st \in ValidStates : Reserve(k, amt, st)
  BY <1>1, ReservationAssumption DEF Reserve, Calls
<1>2. CASE \E k \in Key, st \in Terminal : Release(k, st)
  BY <1>2 DEF Release, Calls, ValidStates
<1>3. CASE \E k \in Key : Confirm(k)
  BY <1>3 DEF Confirm, Calls, ValidStates, Occupying
<1>4. QED
  BY <1>1, <1>2, <1>3 DEF LedgerNext

(* Every reachable table is well typed: rows keep natural amounts and known
   states through every reservation, release, confirmation and recovery. *)
THEOREM LedgerTypeCorrect == LedgerSpec => []LedgerTypeOK
<1>1. LedgerInit => LedgerTypeOK
  BY DEF LedgerInit, LedgerTypeOK, NoRow, Row, ValidStates, Calls, Outcomes
<1>2. LedgerTypeOK /\ [LedgerNext]_ledgerVars => LedgerTypeOK'
  <2> SUFFICES ASSUME LedgerTypeOK, [LedgerNext]_ledgerVars PROVE LedgerTypeOK'
    OBVIOUS
  <2>1. ASSUME NEW k \in Key, NEW amt \in Amount \cup {0}, NEW st \in ValidStates,
               NEW call \in Calls, ReserveAs(call, k, amt, st)
        PROVE  LedgerTypeOK'
    BY <2>1, ReserveType
  <2>2. ASSUME NEW known \in SUBSET Intent, Recovery(known) PROVE LedgerTypeOK'
    <3>1. \A k \in Key : rows[k] \in Row
      BY DEF LedgerTypeOK
    <3>2. ASSUME NEW k \in Key
          PROVE  [rows[k] EXCEPT !.state = "pending_cleanup"] \in Row
      BY <3>1, Zenon DEF Row
    <3>3. QED
      BY <2>2, <3>1, <3>2 DEF Recovery, Answer, LedgerTypeOK, Calls, Outcomes
  <2>3. CASE ChangeLimit
    BY <2>3 DEF ChangeLimit, LedgerTypeOK
  <2>4. CASE UNCHANGED ledgerVars
    BY <2>4 DEF ledgerVars, LedgerTypeOK
  <2>5. QED
    BY <2>1, <2>2, <2>3, <2>4, LedgerStep
<1>3. QED
  BY <1>1, <1>2, PTL DEF LedgerSpec

-----------------------------------------------------------------------------
(* The shape of any step, used by the theorems that follow: the table does not
   change in what it holds, or one open row is overwritten. *)

LEMMA RecoveryEffect ==
  ASSUME LedgerTypeOK, NEW known \in SUBSET Intent, Recovery(known)
  PROVE  /\ limit' = limit
         /\ \A k \in Key :
              \/ rows'[k] = rows[k]
              \/ /\ Present(rows[k]) /\ ~rows[k].released
                 /\ rows'[k].state = "pending_cleanup" /\ ~rows'[k].released
                 /\ rows'[k].amount = rows[k].amount
<1>1. limit' = limit
  BY DEF Recovery, Answer
<1>2. SUFFICES ASSUME NEW k \in Key, rows'[k] # rows[k]
               PROVE  /\ Present(rows[k]) /\ ~rows[k].released
                      /\ rows'[k].state = "pending_cleanup" /\ ~rows'[k].released
                      /\ rows'[k].amount = rows[k].amount
  BY <1>1
<1>3. /\ rows'[k] = [rows[k] EXCEPT !.state = "pending_cleanup"]
      /\ Present(rows[k]) /\ ~rows[k].released
  BY <1>2, Zenon DEF Recovery
<1>4. rows[k] \in Row
  BY DEF LedgerTypeOK
<1>5. /\ [rows[k] EXCEPT !.state = "pending_cleanup"].state = "pending_cleanup"
      /\ [rows[k] EXCEPT !.state = "pending_cleanup"].released = rows[k].released
      /\ [rows[k] EXCEPT !.state = "pending_cleanup"].amount = rows[k].amount
  BY <1>4, Zenon DEF Row
<1>6. QED
  BY <1>3, <1>5

LEMMA OverwriteTotals ==
  ASSUME LedgerTypeOK, LedgerTypeOK', NEW k \in Key, NEW r \in Row, Overwrites(k, r)
  PROVE  /\ ActiveTotal(k[1])' = ActiveTotal(k[1]) - Holds(rows[k]) + Holds(r)
         /\ \A a \in Account \ {k[1]} : ActiveTotal(a)' = ActiveTotal(a)
<1>1. \A x \in Key : Held[x] \in Nat /\ Held'[x] \in Nat
  BY HeldIsNat DEF Held, LedgerTypeOK, Row, Holds
<1>2. \A x \in Key \ {k} : Held'[x] = Held[x]
  BY DEF Held, Overwrites, LedgerTypeOK
<1>3. Held[k] = Holds(rows[k]) /\ Held'[k] = Holds(r)
  BY DEF Held, Overwrites, LedgerTypeOK
<1>4. ActiveTotal(k[1])' = ActiveTotal(k[1]) - Holds(rows[k]) + Holds(r)
  <2> DEFINE K == KeysOf(k[1])
  <2>1. IsFiniteSet(K) /\ K \subseteq Key /\ k \in K
    BY KeyParts, KeysFinite
  <2>2. \A x \in K : Held[x] \in Nat /\ Held'[x] \in Nat
    BY <2>1, <1>1
  <2>3. \A x \in K \ {k} : Held'[x] = Held[x]
    BY <2>1, <1>2
  <2>4. SumOver(K, Held') = SumOver(K, Held) - Held[k] + Held'[k]
    <3> HIDE DEF K
    <3> DEFINE f == Held
               g == Held'
    <3>1. (\A x \in K : f[x] \in Nat /\ g[x] \in Nat) /\ (\A x \in K \ {k} : g[x] = f[x])
      BY <2>2, <2>3
    <3> HIDE DEF f, g
    <3>2. SumOver(K, g) = SumOver(K, f) - f[k] + g[k]
      BY <2>1, <3>1, SumUpdate
    <3>3. QED
      BY <3>2 DEF f, g
  <2>5. QED
    BY <2>4, <1>3 DEF ActiveTotal, KeysOf
<1>5. ASSUME NEW a \in Account \ {k[1]}
      PROVE  ActiveTotal(a)' = ActiveTotal(a)
  <2>1. KeysOf(a) \subseteq Key \ {k}
    BY DEF KeysOf, Key
  <2>2. SumOver(KeysOf(a), Held') = SumOver(KeysOf(a), Held)
    BY <2>1, <1>2, SumSame
  <2>3. QED
    BY <2>2 DEF ActiveTotal, KeysOf
<1>6. QED
  BY <1>4, <1>5

LEMMA SameHeldSameTotals ==
  ASSUME \A k \in Key : Held'[k] = Held[k]
  PROVE  \A a \in Account : ActiveTotal(a)' = ActiveTotal(a)
<1>1. SUFFICES ASSUME NEW a \in Account
               PROVE  SumOver(KeysOf(a), Held') = SumOver(KeysOf(a), Held)
  BY DEF ActiveTotal, KeysOf
<1>2. KeysOf(a) \subseteq Key
  BY KeysFinite
<1>3. QED
  BY <1>2, SumSame

(* Every step of the ledger is a step of one of three shapes. *)
LEMMA StepShapes ==
  ASSUME LedgerTypeOK, [LedgerNext]_ledgerVars
  PROVE  \/ limit' = limit /\ \E k \in Key, r \in Row : Overwrites(k, r)
         \/ limit' = limit /\ \E known \in SUBSET Intent : Recovery(known)
         \/ rows' = rows /\ limit' \in {limit} \cup Limits
<1>1. ASSUME NEW k \in Key, NEW amt \in Amount \cup {0}, NEW st \in ValidStates,
             NEW call \in Calls, ReserveAs(call, k, amt, st)
      PROVE  /\ limit' = limit
             /\ rows' = rows \/ \E r \in Row : Overwrites(k, r)
  BY <1>1, ReserveEffect
<1>2. ASSUME NEW known \in SUBSET Intent, Recovery(known) PROVE limit' = limit
  BY <1>2 DEF Recovery, Answer
<1>3. CASE ChangeLimit
  BY <1>3 DEF ChangeLimit
<1>4. CASE UNCHANGED ledgerVars
  BY <1>4 DEF ledgerVars
<1>5. QED
  BY <1>1, <1>2, <1>3, <1>4, LedgerStep

-----------------------------------------------------------------------------
(* The released flag and the terminal states agree in every reachable table. *)
THEOREM ReleasedIffTerminalCorrect == LedgerSpec => []ReleasedIffTerminal
<1>1. LedgerInit => ReleasedIffTerminal
  BY DEF LedgerInit, ReleasedIffTerminal, NoRow, Terminal
<1>2. LedgerTypeOK /\ LedgerTypeOK' /\ ReleasedIffTerminal /\ [LedgerNext]_ledgerVars
        => ReleasedIffTerminal'
  <2> SUFFICES ASSUME LedgerTypeOK, LedgerTypeOK', ReleasedIffTerminal,
                      [LedgerNext]_ledgerVars
               PROVE  ReleasedIffTerminal'
    OBVIOUS
  <2>1. ASSUME NEW k \in Key, NEW r \in Row, Overwrites(k, r)
        PROVE  ReleasedIffTerminal'
    BY <2>1 DEF Overwrites, ReleasedIffTerminal, LedgerTypeOK
  <2>2. ASSUME NEW known \in SUBSET Intent, Recovery(known)
        PROVE  ReleasedIffTerminal'
    BY <2>2, RecoveryEffect DEF ReleasedIffTerminal, Terminal
  <2>3. CASE rows' = rows
    BY <2>3 DEF ReleasedIffTerminal
  <2>4. QED
    BY <2>1, <2>2, <2>3, StepShapes
<1>3. QED
  BY <1>1, <1>2, LedgerTypeCorrect, PTL DEF LedgerSpec

(* A released row is never written again, whatever a later retry of the same
   intent asks for. *)
THEOREM ReleasedForeverCorrect == LedgerSpec => ReleasedForever
<1>1. LedgerTypeOK /\ ReleasedIffTerminal /\ [LedgerNext]_ledgerVars
        => [\A k \in Key : rows[k].released => rows'[k] = rows[k]]_ledgerVars
  <2> SUFFICES ASSUME LedgerTypeOK, ReleasedIffTerminal, [LedgerNext]_ledgerVars,
                      NEW x \in Key, rows[x].released
               PROVE  rows'[x] = rows[x]
    OBVIOUS
  <2>1. Present(rows[x])
    BY DEF ReleasedIffTerminal, Present, Terminal
  <2>2. ASSUME NEW k \in Key, NEW r \in Row, Overwrites(k, r)
        PROVE  rows'[x] = rows[x]
    BY <2>1, <2>2 DEF Overwrites, Open, LedgerTypeOK
  <2>3. QED
    BY <2>2, StepShapes, RecoveryEffect
<1>2. QED
  BY <1>1, LedgerTypeCorrect, ReleasedIffTerminalCorrect, PTL
     DEF LedgerSpec, ReleasedForever

-----------------------------------------------------------------------------
(* No step leaves an account holding more than before and above the cap. *)

LEMMA OverwriteFits ==
  ASSUME LedgerTypeOK, LedgerTypeOK', limit' = limit,
         NEW k \in Key, NEW r \in Row, Overwrites(k, r)
  PROVE  \A a \in Account : ActiveTotal(a)' > ActiveTotal(a) => Fits(ActiveTotal(a))'
<1>1. k[1] \in Account
  BY KeyParts
<1>2. /\ ActiveTotal(k[1])' = ActiveTotal(k[1]) - Holds(rows[k]) + Holds(r)
      /\ \A a \in Account \ {k[1]} : ActiveTotal(a)' = ActiveTotal(a)
  BY OverwriteTotals
<1>3. \A a \in Account : ActiveTotal(a) \in Nat /\ Holds(rows[k]) \in Nat
  BY TotalIsNat, HeldIsNat
<1>4. SUFFICES ASSUME ActiveTotal(k[1])' > ActiveTotal(k[1])
               PROVE  Fits(ActiveTotal(k[1]))'
  BY <1>2, <1>3
<1>5. CASE r.released
  <2>1. Holds(r) = 0
    BY <1>5 DEF Holds
  <2>2. QED
    BY <1>1, <1>2, <1>3, <1>4, <2>1
<1>6. CASE ~r.released
  <2>1. Holds(r) = r.amount
    BY <1>6 DEF Holds, Overwrites, Present, ValidStates, Occupying, Terminal
  <2>2. QED
    BY <1>2, <2>1 DEF Overwrites, Fits
<1>7. QED
  BY <1>5, <1>6

LEMMA RecoveryHeld ==
  ASSUME LedgerTypeOK, NEW known \in SUBSET Intent, Recovery(known)
  PROVE  \A k \in Key : Held'[k] = Held[k]
BY RecoveryEffect DEF Held, Holds, Present

(* recovery(), run over a ledger of any size with any list of known intents,
   leaves what every row holds as it was: marking an orphan frees nothing. *)
THEOREM RecoveryKeepsHoldsCorrect == LedgerSpec => RecoveryKeepsHolds
<1>1. LedgerTypeOK /\ [LedgerNext]_ledgerVars
        => [reply'.call = "recovery"
              => \A k \in Key : Holds(rows'[k]) = Holds(rows[k])]_ledgerVars
  <2> SUFFICES ASSUME LedgerTypeOK, LedgerNext, reply'.call = "recovery"
               PROVE  \A k \in Key : Holds(rows'[k]) = Holds(rows[k])
    BY DEF ledgerVars
  <2>1. ASSUME NEW k \in Key, NEW amt, NEW st, NEW call, ReserveAs(call, k, amt, st)
        PROVE  reply'.call = call
    <3>1. \E o \in Outcomes : Answer(call, o)
      BY <2>1, Zenon DEF ReserveAs, RefuseNewTerminal, InsertRow, KeepTerminal, AdvanceRow,
                         Outcomes
    <3>2. QED
      BY <3>1 DEF Answer
  <2>2. ASSUME NEW known \in SUBSET Intent, Recovery(known)
        PROVE  \A k \in Key : Holds(rows'[k]) = Holds(rows[k])
    BY <2>2, RecoveryHeld DEF Held
  <2>3. ASSUME ChangeLimit
        PROVE  \A k \in Key : Holds(rows'[k]) = Holds(rows[k])
    BY <2>3 DEF ChangeLimit
  <2>4. QED
    BY <2>1, <2>2, <2>3 DEF LedgerNext, Reserve, Release, Confirm
<1>2. QED
  BY <1>1, LedgerTypeCorrect, PTL DEF LedgerSpec, RecoveryKeepsHolds

(* Whatever sequence of calls and cap changes went before, a call that makes an
   account hold more leaves it within the cap in force at that moment. *)
THEOREM GrowsOnlyWithinLimitCorrect == LedgerSpec => GrowsOnlyWithinLimit
<1>1. LedgerTypeOK /\ LedgerTypeOK' /\ [LedgerNext]_ledgerVars
        => [\A a \in Account :
              ActiveTotal(a)' > ActiveTotal(a) => Fits(ActiveTotal(a))']_ledgerVars
  <2> SUFFICES ASSUME LedgerTypeOK, LedgerTypeOK', [LedgerNext]_ledgerVars
               PROVE  \A a \in Account :
                        ActiveTotal(a)' > ActiveTotal(a) => Fits(ActiveTotal(a))'
    OBVIOUS
  <2>1. ASSUME limit' = limit, NEW k \in Key, NEW r \in Row, Overwrites(k, r)
        PROVE  \A a \in Account :
                 ActiveTotal(a)' > ActiveTotal(a) => Fits(ActiveTotal(a))'
    BY <2>1, OverwriteFits
  <2>2. ASSUME \A k \in Key : Held'[k] = Held[k]
        PROVE  \A a \in Account : ~(ActiveTotal(a)' > ActiveTotal(a))
    BY <2>2, SameHeldSameTotals, TotalIsNat
  <2>3. rows' = rows => \A k \in Key : Held'[k] = Held[k]
    BY DEF Held
  <2>4. QED
    BY <2>1, <2>2, <2>3, RecoveryHeld, StepShapes
<1>2. QED
  BY <1>1, LedgerTypeCorrect, PTL DEF LedgerSpec, GrowsOnlyWithinLimit

(* While the configured cap is one number, no account ever exceeds it. *)
THEOREM WithinLimitCorrect ==
  ASSUME NEW L, Limits = {L}
  PROVE  LedgerSpec => []WithinLimit
<1>1. LedgerInit => WithinLimit
  <2> SUFFICES ASSUME LedgerInit, NEW a \in Account PROVE Fits(ActiveTotal(a))
    BY DEF WithinLimit
  <2>1. \A k \in KeysOf(a) : Held[k] = 0
    BY KeysFinite DEF Held, LedgerInit, NoRow, Holds, Present
  <2>2. AllUnits(KeysOf(a), Held) = {}
    BY <2>1 DEF AllUnits, UnitsOf
  <2>3. ActiveTotal(a) = 0
    BY <2>2, FS_EmptySet DEF ActiveTotal, SumOver
  <2>4. QED
    BY <2>3, ReservationAssumption DEF Fits, LedgerInit
<1>2. LedgerTypeOK /\ LedgerTypeOK' /\ WithinLimit /\ [LedgerNext]_ledgerVars
        => WithinLimit'
  <2> SUFFICES ASSUME LedgerTypeOK, LedgerTypeOK', WithinLimit,
                      [LedgerNext]_ledgerVars, NEW a \in Account
               PROVE  Fits(ActiveTotal(a))'
    BY DEF WithinLimit
  <2>1. limit' = limit /\ limit \in Nat
    BY ReservationAssumption DEF LedgerTypeOK
  <2>2. ActiveTotal(a) \in Nat /\ ActiveTotal(a)' \in Nat
    <3>1. ActiveTotal(a) \in Nat
      BY TotalIsNat
    <3>2. \A k \in KeysOf(a) : Held'[k] \in Nat
      BY KeysFinite DEF Held, LedgerTypeOK, Row, Holds
    <3>3. SumOver(KeysOf(a), Held') \in Nat
      BY <3>2, KeysFinite, AllUnitsFinite
    <3>4. QED
      BY <3>1, <3>3 DEF ActiveTotal, KeysOf
  <2>3. ~(ActiveTotal(a)' > ActiveTotal(a)) => Fits(ActiveTotal(a))'
    BY <2>1, <2>2 DEF WithinLimit, Fits
  <2>4. ASSUME NEW k \in Key, NEW r \in Row, Overwrites(k, r)
        PROVE  Fits(ActiveTotal(a))'
    BY <2>1, <2>3, <2>4, OverwriteFits
  <2>5. ASSUME \A k \in Key : Held'[k] = Held[k]
        PROVE  Fits(ActiveTotal(a))'
    BY <2>2, <2>3, <2>5, SameHeldSameTotals
  <2>6. rows' = rows => \A k \in Key : Held'[k] = Held[k]
    BY DEF Held
  <2>7. QED
    BY <2>4, <2>5, <2>6, RecoveryHeld, StepShapes
<1>3. QED
  BY <1>1, <1>2, LedgerTypeCorrect, PTL DEF LedgerSpec

-----------------------------------------------------------------------------
(* The ledger implements the promise of PortfolioBudget: an overwritten row is
   a claim taken, resized or given back; recovery and cap changes are no-ops or
   a change of the cap. *)

PhaseOf(r) == IF ~Present(r) THEN "new" ELSE IF r.released THEN "gone" ELSE "held"

LEMMA OverwriteMaps ==
  ASSUME LedgerTypeOK, limit' = limit, NEW k \in Key, NEW r \in Row, Overwrites(k, r)
  PROVE  Budget!Hold(k) \/ Budget!GiveBack(k)
<1> DEFINE phase == [x \in Key |-> PhaseOf(rows[x])]
<1>1. /\ phase = [x \in Key |-> IF ~Present(rows[x]) THEN "new"
                                ELSE IF rows[x].released THEN "gone" ELSE "held"]
      /\ phase' = [phase EXCEPT ![k] = PhaseOf(r)]
      /\ Held' = [Held EXCEPT ![k] = Holds(r)]
  BY DEF PhaseOf, Held, Overwrites, LedgerTypeOK
<1>2. Present(r)
  BY DEF Overwrites, Present, ValidStates, Occupying, Terminal
<1>3. Held[k] = Holds(rows[k])
  BY HeldIsNat
<1>4. CASE r.released
  <2>1. PhaseOf(r) = "gone" /\ Holds(r) = 0
    BY <1>2, <1>4 DEF PhaseOf, Holds
  <2>2. phase[k] = "held"
    BY <1>4 DEF Overwrites, Open, PhaseOf
  <2>3. QED
    BY <1>1, <2>1, <2>2 DEF Budget!GiveBack, PhaseOf
<1>5. CASE ~r.released
  <2>1. PhaseOf(r) = "held" /\ Holds(r) = r.amount
    BY <1>2, <1>5 DEF PhaseOf, Holds
  <2>2. phase[k] \in {"new", "held"}
    BY DEF Overwrites, Open, PhaseOf
  <2>3. r.amount \in Amount \cup {Held[k]}
    BY <1>3 DEF Overwrites
  <2>4. Budget!Allowed(Budget!Taken(k[1]) - Held[k] + r.amount)
    <3>1. Budget!Taken(k[1]) = ActiveTotal(k[1])
      BY DEF ActiveTotal, KeysOf, SumOver, AllUnits, UnitsOf, Budget!Taken,
             Budget!SumOver, Budget!AllUnits, Budget!UnitsOf,
             Cardinality, Budget!Cardinality
    <3>2. QED
      BY <1>3, <3>1 DEF Overwrites, Fits, Budget!Allowed
  <2>5. QED
    BY <1>1, <2>1, <2>2, <2>3, <2>4 DEF Budget!Hold, PhaseOf
<1>6. QED
  BY <1>4, <1>5

THEOREM ImplementsBudgetCorrect == LedgerSpec => ImplementsBudget
<1>1. LedgerInit => Budget!BudgetInit
  BY DEF LedgerInit, Budget!BudgetInit, Budget!Claim, Key, NoRow, Present, Held, Holds
<1>2. LedgerTypeOK /\ LedgerTypeOK' /\ [LedgerNext]_ledgerVars
        => [Budget!BudgetNext]_(Budget!budgetVars)
  <2> SUFFICES ASSUME LedgerTypeOK, LedgerTypeOK', [LedgerNext]_ledgerVars
               PROVE  Budget!BudgetNext \/ UNCHANGED Budget!budgetVars
    OBVIOUS
  <2>1. ASSUME limit' = limit, NEW k \in Key, NEW r \in Row, Overwrites(k, r)
        PROVE  Budget!BudgetNext
    BY <2>1, OverwriteMaps DEF Budget!BudgetNext, Budget!Claim, Key
  <2>2. ASSUME limit' = limit, NEW known \in SUBSET Intent, Recovery(known)
        PROVE  UNCHANGED Budget!budgetVars
    <3>1. Held' = Held
      BY <2>2, RecoveryHeld DEF Held
    <3>2. \A k \in Key : PhaseOf(rows'[k]) = PhaseOf(rows[k])
      BY <2>2, RecoveryEffect DEF PhaseOf, Present
    <3>3. QED
      BY <2>2, <3>1, <3>2 DEF Budget!budgetVars, PhaseOf
  <2>3. CASE rows' = rows /\ limit' \in {limit} \cup Limits
    <3>1. CASE limit' \in Limits
      BY <2>3, <3>1 DEF Budget!BudgetNext, Budget!SetCap, Held
    <3>2. CASE limit' = limit
      BY <2>3, <3>2 DEF Budget!budgetVars, Held
    <3>3. QED
      BY <2>3, <3>1, <3>2
  <2>4. QED
    BY <2>1, <2>2, <2>3, StepShapes
<1>3. QED
  BY <1>1, <1>2, LedgerTypeCorrect, PTL DEF LedgerSpec, ImplementsBudget, Budget!BudgetSpec

-----------------------------------------------------------------------------
(* The trading cycle. *)

LEMMA KeyOfDecision ==
  ASSUME NEW d \in Intent
  PROVE  /\ KeyOf(d) \in Key
         /\ PairOf(d) \in Pair
         /\ \A e \in Intent : KeyOf(d) = KeyOf(e) => d = e
BY EntryAssumption DEF KeyOf, Key, PairOf, Pair

-----------------------------------------------------------------------------
(* The cycle touches the ledger through three of its operations only. *)

LEMMA SubmitIsReserve ==
  ASSUME NEW d \in Intent, Submit(d)
  PROVE  LedgerNext
<1>1. PICK amt \in Amount : Reserve(KeyOf(d), amt, "pending")
  BY DEF Submit
<1>2. KeyOf(d) \in Key /\ "pending" \in ValidStates
  BY KeyOfDecision DEF ValidStates, Occupying
<1>3. QED
  BY <1>1, <1>2 DEF LedgerNext

LEMMA ReleaseIsLedgerStep ==
  ASSUME NEW d \in Intent, NEW st \in Terminal, Release(KeyOf(d), st) \/ LedgerFails
  PROVE  [LedgerNext]_ledgerVars
<1>1. KeyOf(d) \in Key
  BY KeyOfDecision
<1>2. QED
  BY <1>1 DEF LedgerNext, LedgerFails

LEMMA ConfirmIsLedgerStep ==
  ASSUME NEW d \in Intent, Confirm(KeyOf(d)) \/ LedgerFails
  PROVE  [LedgerNext]_ledgerVars
<1>1. KeyOf(d) \in Key
  BY KeyOfDecision
<1>2. QED
  BY <1>1 DEF LedgerNext, LedgerFails

LEMMA EnvironmentUsesLedger ==
  ASSUME Environment
  PROVE  UNCHANGED rows /\ [LedgerNext]_ledgerVars
<1>1. ASSUME NEW d \in Intent, Fill(d) \/ CancelOutside(d) \/ Elapse(d)
      PROVE  UNCHANGED ledgerVars
  BY <1>1 DEF Fill, CancelOutside, Elapse
<1>2. ChangeBudget => UNCHANGED rows /\ LedgerNext
  BY DEF ChangeBudget, ChangeLimit, LedgerNext
<1>3. ASSUME NEW p \in Pair, ClosePosition(p) PROVE UNCHANGED ledgerVars
  BY <1>3 DEF ClosePosition
<1>4. ASSUME NEW f, Damage(f) \/ Repair(f) PROVE UNCHANGED ledgerVars
  BY <1>4 DEF Damage, Repair
<1>5. Crash => UNCHANGED ledgerVars
  BY DEF Crash
<1>6. CASE UNCHANGED ledgerVars
  BY <1>6 DEF ledgerVars
<1>7. QED
  BY <1>1, <1>2, <1>3, <1>4, <1>5, <1>6 DEF Environment

LEMMA HousekeepingUsesLedger ==
  ASSUME Housekeeping
  PROVE  [LedgerNext]_ledgerVars
<1>1. CASE StartCycle \/ ReconcileDone \/ CleanRead \/ CleanDone \/ SessionOff
  BY <1>1 DEF StartCycle, ReconcileDone, CleanRead, CleanDone, SessionOff
<1>2. CASE ReadPositions \/ ReadPending \/ LedgerDone \/ ReadFails
  BY <1>2 DEF ReadPositions, ReadPending, LedgerDone, ReadFails
<1>3. ASSUME NEW d \in Intent, ReconcileOne(d) \/ CleanOne(d)
      PROVE  UNCHANGED ledgerVars
  BY <1>3 DEF ReconcileOne, CleanOne
<1>4. ASSUME NEW d \in Intent, ReturnBudget(d)
      PROVE  [LedgerNext]_ledgerVars
  BY <1>4, ReleaseIsLedgerStep DEF ReturnBudget, Terminal
<1>5. ASSUME NEW closing, ManagePositions(closing)
      PROVE  UNCHANGED ledgerVars
  BY <1>5 DEF ManagePositions
<1>6. QED
  BY <1>1, <1>2, <1>3, <1>4, <1>5 DEF Housekeeping

LEMMA EntryUsesLedger ==
  ASSUME Entry
  PROVE  [LedgerNext]_ledgerVars
<1>1. ASSUME NEW d \in Intent,
             RejectOrder(d) \/ LoseReply(d) \/ PlaceOrder(d) \/ RecordIntent(d)
               \/ CountScaleIn(d)
      PROVE  UNCHANGED ledgerVars
  BY <1>1 DEF RejectOrder, LoseReply, PlaceOrder, RecordIntent, CountScaleIn
<1>2. ASSUME NEW d \in Intent, Submit(d)
      PROVE  [LedgerNext]_ledgerVars
  BY <1>2, SubmitIsReserve
<1>3. ASSUME NEW d \in Intent, ReleaseFailed(d)
      PROVE  [LedgerNext]_ledgerVars
  BY <1>3, ReleaseIsLedgerStep DEF ReleaseFailed, Terminal
<1>4. ASSUME NEW d \in Intent, ConfirmOrder(d)
      PROVE  [LedgerNext]_ledgerVars
  BY <1>4, ConfirmIsLedgerStep DEF ConfirmOrder
<1>5. CASE FinishCycle
  BY <1>5 DEF FinishCycle
<1>6. QED
  BY <1>1, <1>2, <1>3, <1>4, <1>5 DEF Entry

(* Every step of the trading cycle is a step of the budget ledger or leaves it
   alone (risk_reservation.py as called by order_submit.py and
   reservation_reconcile.py): the ledger's theorems hold inside the cycle. *)
THEOREM UsesLedgerCorrect == EntrySpec => UsesLedger
<1>1. EntryInit => LedgerInit
  BY DEF EntryInit
<1>2. [EntryNext]_entryVars => [LedgerNext]_ledgerVars
  BY EnvironmentUsesLedger, HousekeepingUsesLedger, EntryUsesLedger
     DEF EntryNext, entryVars
<1>3. QED
  BY <1>1, <1>2, PTL DEF EntrySpec, UsesLedger, LedgerSpec

-----------------------------------------------------------------------------
(* The variables of the cycle keep their types. *)

LEMMA EndCycleType ==
  ASSUME CycleTypeOK, EndCycle
  PROVE  /\ pc' \in Steps /\ blocked' \in BOOLEAN
         /\ todo' \subseteq Intent /\ kept' \subseteq Intent /\ seenOrders' \subseteq Intent
         /\ seenPos' \subseteq Pair /\ scanned' \subseteq Instrument /\ cur' \subseteq Intent
BY DEF EndCycle, Steps

LEMMA SetOrderType ==
  ASSUME CycleTypeOK, NEW d \in Intent,
         NEW s \in {"none", "open", "partial", "filled", "done"},
         order' = [order EXCEPT ![d] = s]
  PROVE  order' \in [Intent -> {"none", "open", "partial", "filled", "done"}]
BY DEF CycleTypeOK

LEMMA AfterCloseType ==
  ASSUME CycleTypeOK, NEW ps
  PROVE  AfterClose(order, ps) \in [Intent -> {"none", "open", "partial", "filled", "done"}]
BY DEF CycleTypeOK, AfterClose

(* A fill or a cancellation from outside moves one live order on. *)
LEMMA ExchangeMoves ==
  ASSUME CycleTypeOK, NEW d \in Intent, Fill(d) \/ CancelOutside(d)
  PROVE  /\ Live(d)
         /\ order' \in [Intent -> {"none", "open", "partial", "filled", "done"}]
         /\ \A e \in Intent : e # d => order'[e] = order[e]
         /\ MayEscape(d) /\ raced \subseteq raced' /\ raced' \subseteq raced \cup {d}
         /\ UNCHANGED <<ledgerVars, files, age, pc, locals, lost, uncounted>>
<1>1. PICK to \in {"partial", "filled", "done"} : order' = [order EXCEPT ![d] = to]
  BY DEF Fill, CancelOutside, Cancel
<1>2. order' \in [Intent -> {"none", "open", "partial", "filled", "done"}]
  BY <1>1, SetOrderType
<1>3. \A e \in Intent : e # d => order'[e] = order[e]
  BY <1>1 DEF CycleTypeOK
<1>4. MayEscape(d) /\ Live(d)
  BY DEF Fill, CancelOutside, Cancel
<1>5. raced \subseteq raced' /\ raced' \subseteq raced \cup {d}
  BY <1>4 DEF MayEscape
<1>6. UNCHANGED <<ledgerVars, files, age, pc, locals, lost, uncounted>>
  BY DEF Fill, CancelOutside
<1>7. QED
  BY <1>2, <1>3, <1>4, <1>5, <1>6

LEMMA EnvironmentType ==
  ASSUME CycleTypeOK, Environment
  PROVE  CycleTypeOK'
<1>1. ASSUME NEW d \in Intent, Fill(d) \/ CancelOutside(d) PROVE CycleTypeOK'
  BY <1>1, ExchangeMoves DEF CycleTypeOK, files, locals, seen
<1>2. ASSUME NEW d \in Intent, Elapse(d) PROVE CycleTypeOK'
  <2>1. age' \in [Intent -> 0..3]
    BY <1>2 DEF Elapse, CycleTypeOK
  <2>2. QED
    BY <1>2, <2>1 DEF Elapse, CycleTypeOK, files, locals, seen, history
<1>3. ASSUME NEW p \in Pair, ClosePosition(p) PROVE CycleTypeOK'
  BY <1>3, AfterCloseType DEF ClosePosition, CycleTypeOK, files, locals, seen, history
<1>4. ASSUME NEW f \in {"intents", "trackers"}, Damage(f) \/ Repair(f) PROVE CycleTypeOK'
  <2>1. broken' \subseteq {"intents", "trackers"}
    BY <1>4 DEF Damage, Repair, CycleTypeOK
  <2>2. QED
    BY <1>4, <2>1 DEF Damage, Repair, CycleTypeOK, locals, seen, history
<1>5. CASE Crash
  BY <1>5, EndCycleType DEF Crash, CycleTypeOK, files, history
<1>6. CASE ChangeBudget
  BY <1>6 DEF ChangeBudget, CycleTypeOK, files, locals, seen, history
<1>7. QED
  BY <1>1, <1>2, <1>3, <1>4, <1>5, <1>6 DEF Environment

LEMMA HousekeepingType ==
  ASSUME CycleTypeOK, Housekeeping
  PROVE  CycleTypeOK'
<1> USE DEF files, locals, seen, history
<1>1. CASE StartCycle
  <2>1. pc' \in Steps /\ blocked' \in BOOLEAN /\ todo' \subseteq Intent
    BY <1>1 DEF StartCycle, Unattributed, ReadOpenOrders, OpenOrders, Steps, CycleTypeOK
  <2>2. QED
    BY <1>1, <2>1 DEF StartCycle, CycleTypeOK
<1>2. CASE ReconcileDone \/ CleanDone \/ LedgerDone
  BY <1>2 DEF ReconcileDone, CleanDone, LedgerDone, Steps, CycleTypeOK
<1>3. CASE CleanRead
  BY <1>3 DEF CleanRead, OpenOrders, Steps, CycleTypeOK
<1>4. CASE SessionOff \/ ReadFails
  BY <1>4, EndCycleType DEF SessionOff, ReadFails, CycleTypeOK
<1>5. CASE ReadPositions
  <2>1. Positions \subseteq Pair
    BY KeyOfDecision DEF Positions
  <2>2. CASE EndCycle
    BY <1>5, <2>2, EndCycleType DEF ReadPositions, CycleTypeOK
  <2>3. CASE ~EndCycle
    BY <1>5, <2>1, <2>3 DEF ReadPositions, Steps, CycleTypeOK
  <2>4. QED
    BY <2>2, <2>3
<1>6. CASE ReadPending
  BY <1>6 DEF ReadPending, OpenOrders, Steps, CycleTypeOK
<1>7. ASSUME NEW d \in Intent, ReconcileOne(d) PROVE CycleTypeOK'
  <2>1. order' \in [Intent -> {"none", "open", "partial", "filled", "done"}]
    BY <1>7, SetOrderType DEF ReconcileOne, Cancel, CancelFails, CycleTypeOK
  <2>2. pc' \in Steps /\ blocked' \in BOOLEAN /\ todo' \subseteq Intent /\ kept' \subseteq Intent
    BY <1>7 DEF ReconcileOne, Steps, CycleTypeOK
  <2>3. QED
    BY <1>7, <2>1, <2>2 DEF ReconcileOne, CycleTypeOK
<1>8. ASSUME NEW d \in Intent, CleanOne(d) PROVE CycleTypeOK'
  <2>1. order' \in [Intent -> {"none", "open", "partial", "filled", "done"}]
    BY <1>8, SetOrderType DEF CleanOne, Cancel, CancelFails, CycleTypeOK
  <2>2. CASE EndCycle
    BY <1>8, <2>1, <2>2, EndCycleType DEF CleanOne, CycleTypeOK
  <2>3. CASE ~EndCycle
    BY <1>8, <2>1, <2>3 DEF CleanOne, CycleTypeOK
  <2>4. QED
    BY <2>2, <2>3
<1>9. ASSUME NEW d \in Intent, ReturnBudget(d) PROVE CycleTypeOK'
  BY <1>9 DEF ReturnBudget, CycleTypeOK
<1>10. ASSUME NEW closing \in SUBSET seenPos, ManagePositions(closing) PROVE CycleTypeOK'
  <2>1. tracker' \in [Pair -> Int]
    BY <1>10 DEF ManagePositions, CycleTypeOK
  <2>2. QED
    BY <1>10, <2>1, AfterCloseType DEF ManagePositions, Steps, CycleTypeOK
<1>11. QED
  BY <1>1, <1>2, <1>3, <1>4, <1>5, <1>6, <1>7, <1>8, <1>9, <1>10 DEF Housekeeping

LEMMA EntryType ==
  ASSUME CycleTypeOK, Entry
  PROVE  CycleTypeOK'
<1> USE DEF files, locals, seen, history
<1>1. ASSUME NEW d \in Intent, Submit(d) PROVE CycleTypeOK'
  <2>1. pc' \in Steps /\ cur' \subseteq Intent
    BY <1>1 DEF Submit, Steps, CycleTypeOK
  <2>2. scanned' \subseteq Instrument
    BY <1>1, EntryAssumption DEF Submit, CycleTypeOK
  <2>3. QED
    BY <1>1, <2>1, <2>2 DEF Submit, CycleTypeOK
<1>2. ASSUME NEW d \in Intent, RejectOrder(d) PROVE CycleTypeOK'
  BY <1>2 DEF RejectOrder, Steps, CycleTypeOK
<1>3. ASSUME NEW d \in Intent, LoseReply(d) PROVE CycleTypeOK'
  <2>1. order' \in [Intent -> {"none", "open", "partial", "filled", "done"}]
    BY <1>3, SetOrderType DEF LoseReply
  <2>2. QED
    BY <1>3, <2>1 DEF LoseReply, Steps, CycleTypeOK
<1>4. ASSUME NEW d \in Intent, ReleaseFailed(d) PROVE CycleTypeOK'
  BY <1>4 DEF ReleaseFailed, Steps, CycleTypeOK
<1>5. ASSUME NEW d \in Intent, PlaceOrder(d) PROVE CycleTypeOK'
  <2>1. order' \in [Intent -> {"none", "open", "partial", "filled", "done"}]
    BY <1>5, SetOrderType DEF PlaceOrder
  <2>2. QED
    BY <1>5, <2>1 DEF PlaceOrder, Steps, CycleTypeOK
<1>6. ASSUME NEW d \in Intent, RecordIntent(d) PROVE CycleTypeOK'
  <2>1. intents' \subseteq Intent /\ broken' \subseteq {"intents", "trackers"}
    BY <1>6 DEF RecordIntent, CycleTypeOK
  <2>2. QED
    BY <1>6, <2>1 DEF RecordIntent, Steps, CycleTypeOK
<1>7. ASSUME NEW d \in Intent, ConfirmOrder(d) PROVE CycleTypeOK'
  BY <1>7 DEF ConfirmOrder, Steps, CycleTypeOK
<1>8. ASSUME NEW d \in Intent, CountScaleIn(d) PROVE CycleTypeOK'
  <2>1. tracker' \in [Pair -> Int]
    BY <1>8, KeyOfDecision DEF CountScaleIn, CycleTypeOK
  <2>2. QED
    BY <1>8, <2>1 DEF CountScaleIn, Steps, CycleTypeOK
<1>9. CASE FinishCycle
  BY <1>9, EndCycleType DEF FinishCycle, CycleTypeOK
<1>10. QED
  BY <1>1, <1>2, <1>3, <1>4, <1>5, <1>6, <1>7, <1>8, <1>9 DEF Entry

(* The variables of the trading cycle, the exchange and the two files always
   have their types, and so has the ledger inside the cycle. *)
THEOREM EntryTypeCorrect == EntrySpec => []EntryTypeOK
<1>1. EntryInit => CycleTypeOK
  <2>1. [p \in Pair |-> -1] \in [Pair -> Int]
    OBVIOUS
  <2>2. [d \in Intent |-> 0] \in [Intent -> 0..3]
    OBVIOUS
  <2>3. [d \in Intent |-> "none"] \in [Intent -> {"none", "open", "partial", "filled", "done"}]
    OBVIOUS
  <2>4. "idle" \in Steps
    BY DEF Steps
  <2>5. QED
    BY <2>1, <2>2, <2>3, <2>4 DEF EntryInit, CycleTypeOK
<1>2. CycleTypeOK /\ [EntryNext]_entryVars => CycleTypeOK'
  <2>1. CASE UNCHANGED entryVars
    BY <2>1 DEF entryVars, CycleTypeOK, files, locals, seen, history
  <2>2. QED
    BY <2>1, EnvironmentType, HousekeepingType, EntryType DEF EntryNext
<1>3. EntrySpec => []LedgerTypeOK
  BY UsesLedgerCorrect, LedgerTypeCorrect, PTL DEF UsesLedger
<1>4. QED
  BY <1>1, <1>2, <1>3, PTL DEF EntrySpec, EntryTypeOK

-----------------------------------------------------------------------------
(* KnownExposureReserved is not inductive: budget is handed back on what an *)
(* earlier step of the same cycle read, so the invariant also says what the *)
(* cycle's locals still mean when they are used.                            *)

(* Between the two reads the positions read first cover every position whose
   order no longer waits, but for those that escape both reads. *)
SeenPositionsHold ==
  pc = "pending" =>
    \A d \in Intent : order[d] = "filled" /\ d \notin raced => PairOf(d) \in seenPos

(* No decision whose budget is being returned is exposed and known. *)
ReturnedAreUnused ==
  pc = "ledger" => \A d \in todo : ~(Exposed(d) /\ Known(d))

(* The decision being sent has no order yet, and holds its budget. *)
SentIsReserved ==
  pc = "submit" => \A d \in cur : order[d] = "none" /\ Holding(d)

(* The decision whose budget is given up has no order the trader knows of. *)
GivenUpIsUnused ==
  pc = "release" => \A d \in cur : ~(Exposed(d) /\ Known(d))

ReservedInv ==
  /\ KnownExposureReserved
  /\ SeenPositionsHold
  /\ ReturnedAreUnused
  /\ SentIsReserved
  /\ GivenUpIsUnused

LEMMA ReserveKeepsHolding ==
  ASSUME LedgerTypeOK, NEW d \in Intent, NEW amt \in Amount,
         Reserve(KeyOf(d), amt, "pending"), ~Present(rows[KeyOf(d)])
  PROVE  /\ \A e \in Intent : Holding(e) => Holding(e)'
         /\ reply'.outcome = "ok" => Holding(d)'
<1>1. rows \in [Key -> Row] /\ KeyOf(d) \in Key
  BY KeyOfDecision DEF LedgerTypeOK
<1>2. \A e \in Intent : KeyOf(e) \in Key /\ KeyOf(e)' = KeyOf(e)
  BY KeyOfDecision DEF KeyOf
<1>3. RefuseNewTerminal("reserve", KeyOf(d), "pending")
        \/ InsertRow("reserve", KeyOf(d), amt, "pending")
  BY DEF Reserve, ReserveAs, KeepTerminal, AdvanceRow
<1>4. CASE rows' = rows /\ reply'.outcome # "ok"
  BY <1>2, <1>4 DEF Holding
<1>5. CASE Write(KeyOf(d), amt, "pending", FALSE)
  <2>1. rows' = [rows EXCEPT ![KeyOf(d)] =
                   [state |-> "pending", amount |-> amt, released |-> FALSE]]
    BY <1>5 DEF Write
  <2>2. Holding(d)'
    BY <2>1, <1>1, <1>2 DEF Holding, Present
  <2>3. ASSUME NEW e \in Intent, e # d, Holding(e) PROVE Holding(e)'
    <3>1. KeyOf(e) # KeyOf(d)
      BY <2>3, KeyOfDecision
    <3>2. rows'[KeyOf(e)] = rows[KeyOf(e)]
      BY <3>1, <2>1, <1>1, <1>2
    <3>3. QED
      BY <3>2, <2>3, <1>2 DEF Holding
  <2>4. QED
    BY <2>2, <2>3
<1>6. ~RefuseNewTerminal("reserve", KeyOf(d), "pending")
  BY DEF RefuseNewTerminal, Terminal
<1>7. ASSUME Answer("reserve", "exceeded") PROVE reply'.outcome # "ok"
  BY <1>7 DEF Answer
<1>8. QED
  BY <1>3, <1>4, <1>5, <1>6, <1>7 DEF InsertRow

(* Releasing or confirming touches the row of its own decision only, and a
   confirmed row stays unreleased. *)
LEMMA OtherRowsKept ==
  ASSUME LedgerTypeOK, NEW d \in Intent, NEW call, NEW st \in ValidStates,
         ReserveAs(call, KeyOf(d), 0, st) \/ LedgerFails
  PROVE  /\ \A e \in Intent : e # d /\ Holding(e) => Holding(e)'
         /\ st \notin Terminal /\ Holding(d) => Holding(d)'
<1>1. rows \in [Key -> Row] /\ KeyOf(d) \in Key
  BY KeyOfDecision DEF LedgerTypeOK
<1>2. \A e \in Intent : KeyOf(e) \in Key /\ KeyOf(e)' = KeyOf(e)
  BY KeyOfDecision DEF KeyOf
<1>3. CASE rows' = rows
  BY <1>2, <1>3 DEF Holding
<1>4. ASSUME NEW amt, NEW gone, Write(KeyOf(d), amt, st, gone),
             st \notin Terminal => ~gone
      PROVE  /\ \A e \in Intent : e # d /\ Holding(e) => Holding(e)'
             /\ st \notin Terminal /\ Holding(d) => Holding(d)'
  <2>1. rows' = [rows EXCEPT ![KeyOf(d)] =
                   [state |-> st, amount |-> amt, released |-> gone]]
    BY <1>4 DEF Write
  <2>2. ASSUME st \notin Terminal PROVE Holding(d)'
    <3>1. st # "absent" /\ ~gone
      BY <1>4, <2>2 DEF ValidStates, Occupying, Terminal
    <3>2. rows'[KeyOf(d)] = [state |-> st, amount |-> amt, released |-> gone]
      BY <2>1, <1>1
    <3>3. QED
      BY <3>1, <3>2, <1>2 DEF Holding, Present
  <2>3. ASSUME NEW e \in Intent, e # d, Holding(e) PROVE Holding(e)'
    <3>1. KeyOf(e) # KeyOf(d)
      BY <2>3, KeyOfDecision
    <3>2. rows'[KeyOf(e)] = rows[KeyOf(e)]
      BY <3>1, <2>1, <1>1, <1>2
    <3>3. QED
      BY <3>2, <2>3, <1>2 DEF Holding
  <2>4. QED
    BY <2>2, <2>3
<1>5. CASE LedgerFails
  BY <1>5, <1>3 DEF LedgerFails, ledgerVars
<1>6. CASE RefuseNewTerminal(call, KeyOf(d), st) \/ KeepTerminal(call, KeyOf(d))
  <2>1. rows' = rows
    BY <1>6 DEF RefuseNewTerminal, KeepTerminal
  <2>2. QED
    BY <2>1, <1>3
<1>7. CASE InsertRow(call, KeyOf(d), 0, st)
  <2>1. st \notin Terminal => ~FALSE
    OBVIOUS
  <2>2. rows' = rows \/ Write(KeyOf(d), 0, st, FALSE)
    BY <1>7 DEF InsertRow
  <2>3. QED
    BY <2>1, <2>2, <1>3, <1>4
<1>8. CASE AdvanceRow(call, KeyOf(d), 0, st)
  <2>1. rows' = rows \/ \E new : Write(KeyOf(d), new, st, st \in Terminal)
    BY <1>8 DEF AdvanceRow
  <2>2. QED
    BY <2>1, <1>3, <1>4
<1>9. QED
  BY <1>5, <1>6, <1>7, <1>8 DEF ReserveAs

-----------------------------------------------------------------------------
(* A step that makes nothing newly exposed, forgets nothing the trader did not
   know and takes no reservation away preserves KnownExposureReserved. *)
LEMMA QuietStep ==
  ASSUME KnownExposureReserved,
         \A d \in Intent : Exposed(d)' => Exposed(d),
         \A d \in Intent : Known(d)' => Known(d),
         \A d \in Intent : Holding(d) => Holding(d)'
  PROVE  KnownExposureReserved'
BY DEF KnownExposureReserved

(* Only PlaceOrder and LoseReply expose anything: fills, closes and
   cancellations move an order that is already exposed. *)
LEMMA EnvironmentExposesNothing ==
  ASSUME CycleTypeOK, Environment
  PROVE  /\ \A d \in Intent : Exposed(d)' => Exposed(d)
         /\ \A d \in Intent : Known(d)' => Known(d)
         /\ \A d \in Intent : Holding(d) => Holding(d)'
<1> USE DEF files, locals, seen, history
<1>1. \A d \in Intent : Holding(d) => Holding(d)'
  BY EnvironmentUsesLedger DEF Holding, KeyOf
<1>2. CASE order' = order /\ lost' = lost /\ raced' = raced
  BY <1>1, <1>2 DEF Exposed, Live, InPosition, Known
<1>3. ASSUME NEW d \in Intent, Fill(d) \/ CancelOutside(d)
      PROVE  /\ \A e \in Intent : Exposed(e)' => Exposed(e)
             /\ \A e \in Intent : Known(e)' => Known(e)
  <2>1. \A e \in Intent : Known(e)' => Known(e)
    BY <1>3, ExchangeMoves DEF Known
  <2>2. Exposed(d)
    BY <1>3, ExchangeMoves DEF Exposed
  <2>3. \A e \in Intent : e # d => order'[e] = order[e]
    BY <1>3, ExchangeMoves
  <2>4. QED
    BY <2>1, <2>2, <2>3 DEF Exposed, Live, InPosition
<1>4. ASSUME NEW p \in Pair, ClosePosition(p)
      PROVE  /\ \A e \in Intent : Exposed(e)' => Exposed(e)
             /\ \A e \in Intent : Known(e)' => Known(e)
  <2>1. \A e \in Intent : order'[e] \in {order[e]}
                            \/ order[e] = "filled" \/ order[e] = "partial"
    BY <1>4 DEF ClosePosition, AfterClose
  <2>2. QED
    BY <1>4, <2>1 DEF ClosePosition, Exposed, Live, InPosition, Known
<1>5. CASE Crash \/ ChangeBudget \/ \E d \in Intent : Elapse(d)
  BY <1>2, <1>5 DEF Crash, ChangeBudget, Elapse
<1>6. CASE \E f \in {"intents", "trackers"} : Damage(f) \/ Repair(f)
  BY <1>2, <1>6 DEF Damage, Repair
<1>7. QED
  BY <1>1, <1>2, <1>3, <1>4, <1>5, <1>6 DEF Environment

LEMMA EnvironmentKeepsReserved ==
  ASSUME CycleTypeOK, ReservedInv, Environment
  PROVE  ReservedInv'
<1> USE DEF files, locals, seen, history
<1>1. KnownExposureReserved'
  BY EnvironmentExposesNothing, QuietStep DEF ReservedInv
<1>2. ReturnedAreUnused' /\ GivenUpIsUnused'
  <2>1. (pc' = pc /\ todo' = todo /\ cur' = cur) \/ pc' = "idle"
    BY DEF Environment, Fill, CancelOutside, Elapse, ClosePosition, Damage, Repair,
           ChangeBudget, Crash, EndCycle
  <2>2. QED
    BY <2>1, EnvironmentExposesNothing
       DEF ReservedInv, ReturnedAreUnused, GivenUpIsUnused, CycleTypeOK
<1>3. SentIsReserved'
  <2>1. (pc' = pc /\ cur' = cur) \/ pc' = "idle"
    BY DEF Environment, Fill, CancelOutside, Elapse, ClosePosition, Damage, Repair,
           ChangeBudget, Crash, EndCycle
  <2>2. \A d \in Intent : order[d] = "none" => order'[d] = "none"
    <3>1. ASSUME NEW e \in Intent, Fill(e) \/ CancelOutside(e),
                 NEW d \in Intent, order[d] = "none"
          PROVE  order'[d] = "none"
      <4>1. d # e
        BY <3>1, ExchangeMoves DEF Live
      <4>2. QED
        BY <3>1, <4>1, ExchangeMoves
    <3>2. ASSUME NEW p \in Pair, ClosePosition(p), NEW d \in Intent, order[d] = "none"
          PROVE  order'[d] = "none"
      BY <3>2 DEF ClosePosition, AfterClose
    <3>3. QED
      BY <3>1, <3>2 DEF Environment, Elapse, Damage, Repair, ChangeBudget, Crash
  <2>3. QED
    BY <2>1, <2>2, EnvironmentExposesNothing DEF ReservedInv, SentIsReserved, CycleTypeOK
<1>4. SeenPositionsHold'
  <2>1. CASE pc' # "pending"
    BY <2>1 DEF SeenPositionsHold
  <2>2. ASSUME pc = "pending", seenPos' = seenPos, NEW d \in Intent,
               order'[d] = "filled", d \notin raced'
        PROVE  (order[d] = "filled" /\ d \notin raced) \/ PairOf(d) \in seenPos
    <3>1. ASSUME NEW e \in Intent, Fill(e) \/ CancelOutside(e)
          PROVE  (order[d] = "filled" /\ d \notin raced) \/ PairOf(d) \in seenPos
      <4>1. CASE d = e
        BY <2>2, <3>1, <4>1, ExchangeMoves DEF MayEscape
      <4>2. CASE d # e
        BY <2>2, <3>1, <4>2, ExchangeMoves
      <4>3. QED
        BY <4>1, <4>2
    <3>2. ASSUME NEW p \in Pair, ClosePosition(p) PROVE order[d] = "filled" /\ d \notin raced
      BY <2>2, <3>2 DEF ClosePosition, AfterClose, CycleTypeOK
    <3>3. CASE order' = order /\ raced' = raced
      BY <2>2, <3>3
    <3>4. QED
      BY <3>1, <3>2, <3>3 DEF Environment, Elapse, Damage, Repair, ChangeBudget, Crash
  <2>3. ASSUME pc' = "pending" PROVE pc = "pending" /\ seenPos' = seenPos
    BY <2>3 DEF Environment, Fill, CancelOutside, Elapse, ClosePosition, Damage, Repair,
                ChangeBudget, Crash, EndCycle
  <2>4. QED
    BY <2>1, <2>2, <2>3 DEF ReservedInv, SeenPositionsHold, PairOf
<1>5. QED
  BY <1>1, <1>2, <1>3, <1>4 DEF ReservedInv

(* Where the cycle uses none of what it read, the invariant says no more than
   KnownExposureReserved; and that is kept by a step that leaves ledger and
   history alone and exposes nothing. *)
LEMMA QuietStepElsewhere ==
  ASSUME KnownExposureReserved, UNCHANGED <<ledgerVars, lost, raced>>,
         \A d \in Intent : Exposed(d)' => Exposed(d),
         pc' \notin {"pending", "ledger", "submit", "release"}
  PROVE  ReservedInv'
<1>1. \A d \in Intent : Holding(d) => Holding(d)'
  BY DEF ledgerVars, Holding, KeyOf
<1>2. \A d \in Intent : Known(d)' => Known(d)
  BY DEF Known
<1>3. KnownExposureReserved'
  BY <1>1, <1>2, QuietStep
<1>4. QED
  BY <1>3 DEF ReservedInv, SeenPositionsHold, ReturnedAreUnused, SentIsReserved, GivenUpIsUnused

LEMMA CancelExposesNothing ==
  ASSUME CycleTypeOK, NEW d \in Intent, Cancel(d) \/ UNCHANGED order
  PROVE  \A e \in Intent : Exposed(e)' => Exposed(e)
<1>1. CASE UNCHANGED order
  BY <1>1 DEF Exposed, Live, InPosition
<1>2. CASE Cancel(d)
  <2>1. Exposed(d)
    BY <1>2 DEF Cancel, Exposed
  <2>2. \A e \in Intent : e # d => order'[e] = order[e]
    BY <1>2 DEF Cancel, CycleTypeOK
  <2>3. QED
    BY <2>1, <2>2 DEF Exposed, Live, InPosition
<1>3. QED
  BY <1>1, <1>2

(* reconcile_reservation_ledger gives back nothing the trader knows to be in
   use, although it acts on what fetch_positions_and_reconcile read before. *)
LEMMA ReturnBudgetKeepsReserved ==
  ASSUME LedgerTypeOK, ReservedInv, NEW d \in Intent, ReturnBudget(d)
  PROVE  ReservedInv'
<1>1. UNCHANGED <<order, lost, raced>> /\ pc' = "ledger" /\ d \in todo /\ todo' = todo \ {d}
  BY DEF ReturnBudget, history
<1>2. ~(Exposed(d) /\ Known(d))
  BY <1>1 DEF ReservedInv, ReturnedAreUnused, ReturnBudget
<1>3. \A e \in Intent : e # d /\ Holding(e) => Holding(e)'
  BY OtherRowsKept DEF ReturnBudget, Release, ValidStates, Terminal
<1>4. \A e \in Intent : (Exposed(e)' <=> Exposed(e)) /\ (Known(e)' <=> Known(e))
  BY <1>1 DEF Exposed, Live, InPosition, Known
<1>5. KnownExposureReserved'
  BY <1>2, <1>3, <1>4 DEF ReservedInv, KnownExposureReserved
<1>6. ReturnedAreUnused'
  BY <1>1 DEF ReservedInv, ReturnedAreUnused, ReturnBudget, Exposed, Live, InPosition, Known
<1>7. QED
  BY <1>1, <1>5, <1>6 DEF ReservedInv, SeenPositionsHold, SentIsReserved, GivenUpIsUnused

LEMMA HousekeepingKeepsReserved ==
  ASSUME LedgerTypeOK, CycleTypeOK, ReservedInv, Housekeeping
  PROVE  ReservedInv'
<1> USE DEF locals, seen, history
<1>1. KnownExposureReserved
  BY DEF ReservedInv
<1>2. UNCHANGED order => \A d \in Intent : Exposed(d)' => Exposed(d)
  BY DEF Exposed, Live, InPosition
<1>3. CASE StartCycle \/ ReconcileDone \/ CleanRead \/ CleanDone \/ LedgerDone
  <2>1. UNCHANGED <<ledgerVars, history, order>>
    BY <1>3 DEF StartCycle, ReconcileDone, CleanRead, CleanDone, LedgerDone
  <2>2. pc' \in {"reconcile", "clean", "sweep", "positions", "manage"}
    BY <1>3 DEF StartCycle, Unattributed, ReadOpenOrders, ReconcileDone, CleanRead,
                CleanDone, LedgerDone
  <2>3. pc' \notin {"pending", "ledger", "submit", "release"}
    BY <2>2
  <2>4. QED
    BY <2>1, <2>3, <1>1, <1>2, QuietStepElsewhere
<1>4. CASE SessionOff \/ ReadFails
  <2>1. UNCHANGED <<ledgerVars, history, order>> /\ pc' = "idle"
    BY <1>4 DEF SessionOff, ReadFails, EndCycle
  <2>2. QED
    BY <2>1, <1>1, <1>2, QuietStepElsewhere
<1>5. CASE ReadPositions
  <2>1. UNCHANGED <<ledgerVars, history, order>>
    BY <1>5 DEF ReadPositions
  <2>2. CASE pc' = "idle"
    BY <2>1, <2>2, <1>1, <1>2, QuietStepElsewhere
  <2>3. CASE pc' = "pending" /\ seenPos' = Positions
    <3>1. SeenPositionsHold'
      BY <2>1, <2>3 DEF SeenPositionsHold, Positions, InPosition, PairOf
    <3>2. KnownExposureReserved'
      BY <2>1, <1>1 DEF KnownExposureReserved, ledgerVars, history, Exposed, Live, InPosition,
                        Known, Holding, KeyOf
    <3>3. QED
      BY <2>3, <3>1, <3>2 DEF ReservedInv, ReturnedAreUnused, SentIsReserved, GivenUpIsUnused
  <2>4. QED
    BY <1>5, <2>2, <2>3 DEF ReadPositions, EndCycle
<1>6. CASE ReadPending
  <2>1. UNCHANGED <<ledgerVars, history, order>> /\ pc = "pending" /\ pc' = "ledger"
    BY <1>6 DEF ReadPending
  <2>2. ASSUME NEW d \in todo', Exposed(d), Known(d) PROVE FALSE
    <3>1. d \in Intent /\ ~StillLive(d, seenPos, OpenOrders)
      BY <1>6, <2>2 DEF ReadPending
    <3>2. ~Live(d)
      BY <3>1 DEF StillLive, OpenOrders
    <3>3. order[d] = "filled" /\ d \notin raced
      BY <2>2, <3>2 DEF Exposed, Live, InPosition, Known
    <3>4. PairOf(d) \in seenPos
      BY <2>1, <3>1, <3>3 DEF ReservedInv, SeenPositionsHold
    <3>5. QED
      BY <3>1, <3>4 DEF StillLive
  <2>3. ReturnedAreUnused'
    BY <2>1, <2>2 DEF ReturnedAreUnused, history, Exposed, Live, InPosition, Known
  <2>4. KnownExposureReserved'
    BY <2>1, <1>1 DEF KnownExposureReserved, ledgerVars, history, Exposed, Live, InPosition,
                      Known, Holding, KeyOf
  <2>5. QED
    BY <2>1, <2>3, <2>4 DEF ReservedInv, SeenPositionsHold, SentIsReserved, GivenUpIsUnused
<1>7. ASSUME NEW d \in Intent, ReconcileOne(d) \/ CleanOne(d) PROVE ReservedInv'
  <2>1. UNCHANGED <<ledgerVars, history>> /\ (Cancel(d) \/ UNCHANGED order)
    BY <1>7 DEF ReconcileOne, CleanOne, CancelFails
  <2>2. pc' \in {"reconcile", "clean", "sweep", "idle"}
    BY <1>7 DEF ReconcileOne, CleanOne, EndCycle
  <2>3. pc' \notin {"pending", "ledger", "submit", "release"}
    BY <2>2
  <2>4. QED
    BY <2>1, <2>3, <1>1, CancelExposesNothing, QuietStepElsewhere
<1>8. ASSUME NEW closing \in SUBSET seenPos, ManagePositions(closing) PROVE ReservedInv'
  <2>1. UNCHANGED <<ledgerVars, history>> /\ pc' = "entries"
    BY <1>8 DEF ManagePositions
  <2>2. \A d \in Intent : Exposed(d)' => Exposed(d)
    BY <1>8 DEF ManagePositions, AfterClose, Exposed, Live, InPosition, CycleTypeOK
  <2>3. QED
    BY <2>1, <2>2, <1>1, QuietStepElsewhere
<1>9. QED
  BY <1>3, <1>4, <1>5, <1>6, <1>7, <1>8, ReturnBudgetKeepsReserved DEF Housekeeping

LEMMA SubmitKeepsReserved ==
  ASSUME LedgerTypeOK, ReservedInv, NEW d \in Intent, Submit(d)
  PROVE  ReservedInv'
<1>1. ~Present(rows[KeyOf(d)]) /\ order[d] = "none"
  BY EntryAssumption DEF Submit, Fresh
<1>2. PICK amt \in Amount : Reserve(KeyOf(d), amt, "pending")
  BY DEF Submit
<1>3. UNCHANGED <<order, lost, raced>>
  BY DEF Submit, history
<1>4. KnownExposureReserved'
  BY <1>1, <1>2, <1>3, ReserveKeepsHolding
     DEF ReservedInv, KnownExposureReserved, Exposed, Live, InPosition, Known
<1>5. SentIsReserved'
  <2>1. ASSUME reply'.outcome = "ok" PROVE cur' = {d} /\ Holding(d)'
    BY <2>1, <1>1, <1>2, ReserveKeepsHolding DEF Submit
  <2>2. ASSUME reply'.outcome # "ok" PROVE pc' = "entries"
    BY <2>2 DEF Submit
  <2>3. QED
    BY <2>1, <2>2, <1>1, <1>3 DEF SentIsReserved
<1>6. pc' \in {"entries", "submit"}
  BY DEF Submit
<1>7. QED
  BY <1>4, <1>5, <1>6 DEF ReservedInv, SeenPositionsHold, ReturnedAreUnused, GivenUpIsUnused

(* Whatever made the exchange or a gate refuse the order, the row given up
   belongs to an order the trader does not know to exist. *)
LEMMA ReleaseFailedKeepsReserved ==
  ASSUME LedgerTypeOK, ReservedInv, NEW d \in Intent, ReleaseFailed(d)
  PROVE  ReservedInv'
<1>1. UNCHANGED <<order, lost, raced>> /\ pc' = "entries"
  BY DEF ReleaseFailed, history
<1>2. ~(Exposed(d) /\ Known(d))
  BY DEF ReservedInv, GivenUpIsUnused, ReleaseFailed
<1>3. \A e \in Intent : e # d /\ Holding(e) => Holding(e)'
  BY OtherRowsKept DEF ReleaseFailed, Release, ValidStates, Terminal
<1>4. KnownExposureReserved'
  BY <1>1, <1>2, <1>3 DEF ReservedInv, KnownExposureReserved, Exposed, Live, InPosition, Known
<1>5. QED
  BY <1>1, <1>4 DEF ReservedInv, SeenPositionsHold, ReturnedAreUnused, SentIsReserved,
                    GivenUpIsUnused

LEMMA ConfirmOrderKeepsReserved ==
  ASSUME LedgerTypeOK, ReservedInv, NEW d \in Intent, ConfirmOrder(d)
  PROVE  ReservedInv'
<1>1. UNCHANGED <<order, lost, raced>> /\ pc' \in {"entries", "count"}
  BY DEF ConfirmOrder, history
<1>2. \A e \in Intent : Holding(e) => Holding(e)'
  <2>1. "confirmed" \in ValidStates /\ "confirmed" \notin Terminal
    BY DEF ValidStates, Occupying, Terminal
  <2>2. QED
    BY <2>1, OtherRowsKept DEF ConfirmOrder, Confirm
<1>3. KnownExposureReserved'
  BY <1>1, <1>2 DEF ReservedInv, KnownExposureReserved, Exposed, Live, InPosition, Known
<1>4. QED
  BY <1>1, <1>3 DEF ReservedInv, SeenPositionsHold, ReturnedAreUnused, SentIsReserved,
                    GivenUpIsUnused

LEMMA PlaceOrderKeepsReserved ==
  ASSUME CycleTypeOK, ReservedInv, NEW d \in Intent, PlaceOrder(d) \/ LoseReply(d)
  PROVE  ReservedInv'
<1>1. Holding(d) /\ pc' \in {"record", "release"}
  BY DEF ReservedInv, SentIsReserved, PlaceOrder, LoseReply
<1>2. \A e \in Intent : Holding(e) => Holding(e)'
  BY DEF PlaceOrder, LoseReply, ledgerVars, Holding, KeyOf
<1>3. \A e \in Intent : (e # d /\ Exposed(e)' => Exposed(e)) /\ (Known(e)' => Known(e))
  BY DEF PlaceOrder, LoseReply, history, CycleTypeOK, Exposed, Live, InPosition, Known
<1>4. KnownExposureReserved'
  BY <1>1, <1>2, <1>3 DEF ReservedInv, KnownExposureReserved
<1>5. GivenUpIsUnused'
  <2>1. CASE PlaceOrder(d)
    BY <2>1 DEF PlaceOrder, GivenUpIsUnused
  <2>2. CASE LoseReply(d)
    <3>1. d \in lost' /\ cur' = cur /\ cur \subseteq Intent
      BY <2>2 DEF LoseReply, locals, CycleTypeOK
    <3>2. \A e \in cur : e # d => ~Exposed(e)
      BY <2>2 DEF LoseReply, ReservedInv, SentIsReserved, Exposed, Live, InPosition
    <3>3. QED
      BY <1>3, <3>1, <3>2 DEF GivenUpIsUnused, Known
  <2>3. QED
    BY <2>1, <2>2
<1>6. QED
  BY <1>1, <1>4, <1>5 DEF ReservedInv, SeenPositionsHold, ReturnedAreUnused, SentIsReserved

LEMMA EntryKeepsReserved ==
  ASSUME LedgerTypeOK, CycleTypeOK, ReservedInv, Entry
  PROVE  ReservedInv'
<1> USE DEF locals, seen, history
<1>1. KnownExposureReserved
  BY DEF ReservedInv
<1>2. ASSUME UNCHANGED <<ledgerVars, order, lost, raced>>,
             pc' \notin {"pending", "ledger", "submit", "release"}
      PROVE  ReservedInv'
  BY <1>1, <1>2, QuietStepElsewhere DEF Exposed, Live, InPosition
<1>3. ASSUME NEW d \in Intent, RejectOrder(d) PROVE ReservedInv'
  <2>1. UNCHANGED <<ledgerVars, order, history, cur>> /\ pc = "submit" /\ pc' = "release"
    BY <1>3 DEF RejectOrder
  <2>2. KnownExposureReserved'
    BY <2>1, <1>1 DEF KnownExposureReserved, ledgerVars, history, Exposed, Live, InPosition,
                      Known, Holding, KeyOf
  <2>3. GivenUpIsUnused'
    BY <2>1 DEF ReservedInv, SentIsReserved, GivenUpIsUnused, Exposed, Live, InPosition
  <2>4. QED
    BY <2>1, <2>2, <2>3 DEF ReservedInv, SeenPositionsHold, ReturnedAreUnused, SentIsReserved
<1>4. ASSUME NEW d \in Intent, RecordIntent(d) \/ CountScaleIn(d) PROVE ReservedInv'
  <2>1. UNCHANGED <<ledgerVars, order, lost, raced>> /\ pc' \in {"confirm", "entries"}
    BY <1>4 DEF RecordIntent, CountScaleIn
  <2>2. QED
    BY <2>1, <1>2
<1>5. CASE FinishCycle
  BY <1>2, <1>5 DEF FinishCycle, EndCycle
<1>6. QED
  BY <1>3, <1>4, <1>5, SubmitKeepsReserved, ReleaseFailedKeepsReserved,
     ConfirmOrderKeepsReserved, PlaceOrderKeepsReserved DEF Entry

LEMMA ReservedInvariant == EntrySpec => []ReservedInv
<1>1. EntryInit => ReservedInv
  BY DEF EntryInit, ReservedInv, KnownExposureReserved, SeenPositionsHold, ReturnedAreUnused,
         SentIsReserved, GivenUpIsUnused, Exposed, Live, InPosition
<1>2. EntryTypeOK /\ ReservedInv /\ [EntryNext]_entryVars => ReservedInv'
  <2>1. CASE UNCHANGED entryVars
    BY <2>1 DEF entryVars, ledgerVars, locals, seen, history, ReservedInv,
                KnownExposureReserved, SeenPositionsHold, ReturnedAreUnused, SentIsReserved,
                GivenUpIsUnused, Exposed, Live, InPosition, Known, Holding, KeyOf, PairOf
  <2>2. QED
    BY <2>1, EnvironmentKeepsReserved, HousekeepingKeepsReserved, EntryKeepsReserved
       DEF EntryNext, EntryTypeOK
<1>3. QED
  BY <1>1, <1>2, EntryTypeCorrect, PTL DEF EntrySpec

(* An order the trader knows it placed, or the position it became, always has
   an unreleased reservation: order_submit.py reserves before it sends, and
   neither its rejection path nor reservation_reconcile.py gives back the
   budget of such an order, whatever is filled, closed, lost or killed between
   any two steps of the cycle. *)
THEOREM KnownExposureReservedCorrect == EntrySpec => []KnownExposureReserved
<1>1. ReservedInv => KnownExposureReserved
  BY DEF ReservedInv
<1>2. QED
  BY <1>1, ReservedInvariant, PTL

-----------------------------------------------------------------------------
(* Cardinalities of images and of sets of at most one element. *)

LEMMA ImageSize ==
  ASSUME NEW S, IsFiniteSet(S), NEW f
  PROVE  /\ IsFiniteSet({f[x] : x \in S})
         /\ Cardinality({f[x] : x \in S}) <= Cardinality(S)
<1> DEFINE T == {f[x] : x \in S}
           g == [x \in S |-> f[x]]
<1>1. g \in Surjection(S, T)
  BY DEF Surjection
<1>2. QED
  BY <1>1, FS_Surjection

LEMMA InstrumentsOfPairs ==
  ASSUME NEW S, IsFiniteSet(S)
  PROVE  /\ IsFiniteSet({p[1] : p \in S})
         /\ Cardinality({p[1] : p \in S}) <= Cardinality(S)
<1> DEFINE T == {p[1] : p \in S}
           g == [p \in S |-> p[1]]
<1>1. g \in Surjection(S, T)
  BY DEF Surjection
<1>2. QED
  BY <1>1, FS_Surjection

LEMMA SizeOfSubset ==
  ASSUME NEW T, IsFiniteSet(T), NEW S, S \subseteq T
  PROVE  IsFiniteSet(S) /\ Cardinality(S) <= Cardinality(T)
BY FS_Subset

LEMMA OneAtMost ==
  ASSUME NEW S, \A x, y \in S : x = y
  PROVE  IsFiniteSet(S) /\ Cardinality(S) <= 1
<1>1. CASE S = {}
  BY <1>1, FS_EmptySet
<1>2. ASSUME NEW x \in S PROVE IsFiniteSet(S) /\ Cardinality(S) <= 1
  <2>1. S = {x}
    BY <1>2
  <2>2. IsFiniteSet({x}) /\ Cardinality({x}) = 1
    BY FS_Singleton
  <2>3. QED
    BY <2>1, <2>2
<1>3. QED
  BY <1>1, <1>2

(* Two finite sets and one more element. *)
LEMMA SizeOfUnionAndOne ==
  ASSUME NEW A, IsFiniteSet(A), NEW B, IsFiniteSet(B), NEW x,
         NEW C, C \subseteq A \cup B \cup {x}
  PROVE  /\ IsFiniteSet(C)
         /\ Cardinality(C) <= Cardinality(A) + Cardinality(B) + 1
<1> DEFINE AB == A \cup B
           D == AB \cup {x}
<1>1. Cardinality(A) \in Nat /\ Cardinality(B) \in Nat
  BY FS_CardinalityType
<1>2. IsFiniteSet(A \cap B)
  BY FS_Intersection
<1>3. Cardinality(A \cap B) \in Nat
  BY <1>2, FS_CardinalityType
<1>4. /\ IsFiniteSet(AB)
      /\ Cardinality(AB) = Cardinality(A) + Cardinality(B) - Cardinality(A \cap B)
  BY FS_Union
<1>5. Cardinality(AB) \in Nat
  BY <1>4, FS_CardinalityType
<1>6. IsFiniteSet(D) /\ (Cardinality(D) = Cardinality(AB) \/ Cardinality(D) = Cardinality(AB) + 1)
  <2> HIDE DEF AB
  <2>1. /\ IsFiniteSet(D)
        /\ Cardinality(D) = IF x \in AB THEN Cardinality(AB) ELSE Cardinality(AB) + 1
    BY <1>4, FS_AddElement
  <2>2. QED
    BY <2>1
<1>7. IsFiniteSet(C) /\ Cardinality(C) <= Cardinality(D)
  BY <1>6, SizeOfSubset
<1>8. Cardinality(C) \in Nat /\ Cardinality(D) \in Nat
  BY <1>6, <1>7, FS_CardinalityType
<1> HIDE DEF AB, D
<1>9. QED
  BY <1>1, <1>3, <1>4, <1>5, <1>6, <1>7, <1>8

-----------------------------------------------------------------------------
(* NeverHedged and SlotsRespected rest on one argument.  From the second    *)
(* read of a cycle until its end, every exposure the trader knows of is in  *)
(* what the cycle has seen or has just sent itself (NothingUnseen), so the  *)
(* limits checked on those locals bind the exchange when the order arrives. *)

BothRead == {"ledger", "manage", "entries", "submit", "release", "record", "confirm", "count"}
Sent == {"record", "confirm", "count"}
Sending == IF pc \in Sent THEN cur ELSE {}

NothingUnseen ==
  pc \in BothRead =>
    \A d \in Intent : Exposed(d) /\ Known(d) =>
      PairOf(d) \in seenPos \/ d \in seenOrders \cup Sending

(* Only an order for a position of its side is counted as a scale-in. *)
CountsScaleIns == pc = "count" => \A d \in cur : PairOf(d) \in seenPos

(* The gates the decision being sent has passed still hold of the locals. *)
MaySend ==
  pc = "submit" =>
    \A d \in cur : InstOf[d] \notin Busy /\ (NewEntry(d) \/ PairOf(d) \in seenPos)

OneAtATime == \A d, e \in cur : d = e

SeenInv ==
  /\ NothingUnseen
  /\ CountsScaleIns
  /\ ~Hedged(seenPos)
  /\ IsFiniteSet(seenPos)
  /\ MaySend
  /\ OneAtATime

(* The orders and positions of some sides that the trader is exposed to or
   counts in its limits. *)
Claimed(S) ==
  {InstOf[d] : d \in {e \in Intent : SideOf[e] \in S /\ Exposed(e)}}
    \cup {p[1] : p \in {q \in seenPos : q[2] \in S}}
    \cup {InstOf[d] : d \in {e \in seenOrders \cup Sending : SideOf[e] \in S}}

ClaimsWithinSlots ==
  /\ Cardinality(Claimed(Side) \ Surprising) <= MaxPositions
  /\ \A s \in Side : Cardinality(Claimed({s}) \ Surprising) <= MaxSameSide

(* What a step does not expose. *)
ExposesOnly(S) ==
  /\ \A d \in Intent : Exposed(d)' => Exposed(d) \/ d \in S
  /\ lost \subseteq lost' /\ raced \subseteq raced'

(* The steps that only forget: nothing new is exposed, seen or sent. *)
ForgetsAt ==
  /\ ExposesOnly({})
  /\ seenPos' \subseteq seenPos
  /\ seenOrders' \cup Sending' \subseteq seenOrders \cup Sending

LEMMA KnownShrinks ==
  ASSUME lost \subseteq lost', raced \subseteq raced'
  PROVE  \A d : Known(d)' => Known(d)
BY DEF Known

LEMMA ClaimsFinite ==
  ASSUME CycleTypeOK, SeenInv, NEW S
  PROVE  IsFiniteSet(Claimed(S)) /\ IsFiniteSet(Claimed(S) \ Surprising)
<1> DEFINE E == {e \in Intent : SideOf[e] \in S /\ Exposed(e)}
           P == {q \in seenPos : q[2] \in S}
           O == {e \in seenOrders \cup Sending : SideOf[e] \in S}
<1>1. IsFiniteSet(Intent) /\ IsFiniteSet(seenPos)
  BY ReservationAssumption DEF SeenInv
<1>2. O \subseteq Intent
  BY DEF CycleTypeOK, Sending
<1>3. IsFiniteSet(E) /\ IsFiniteSet(P) /\ IsFiniteSet(O)
  BY <1>1, <1>2, FS_Subset
<1>4. /\ IsFiniteSet({InstOf[d] : d \in E}) /\ IsFiniteSet({p[1] : p \in P})
      /\ IsFiniteSet({InstOf[d] : d \in O})
  BY <1>3, ImageSize, InstrumentsOfPairs
<1>5. IsFiniteSet(Claimed(S))
  BY <1>4, FS_Union DEF Claimed
<1>6. QED
  BY <1>5, FS_Subset

LEMMA FewerClaims ==
  ASSUME CycleTypeOK, SeenInv, ClaimsWithinSlots,
         \A S \in SUBSET Side : (Claimed(S) \ Surprising)' \subseteq Claimed(S) \ Surprising
  PROVE  ClaimsWithinSlots'
<1>1. \A S \in SUBSET Side :
         Cardinality(Claimed(S) \ Surprising)' <= Cardinality(Claimed(S) \ Surprising)
  BY ClaimsFinite, SizeOfSubset
<1>2. \A S \in SUBSET Side :
        /\ Cardinality(Claimed(S) \ Surprising) \in Nat
        /\ Cardinality(Claimed(S) \ Surprising)' \in Nat
  BY ClaimsFinite, SizeOfSubset, FS_CardinalityType
<1>3. MaxPositions \in Nat /\ MaxSameSide \in Nat
  BY EntryAssumption
<1>4. ASSUME NEW S \in SUBSET Side, NEW n \in Nat, Cardinality(Claimed(S) \ Surprising) <= n
      PROVE  Cardinality(Claimed(S) \ Surprising)' <= n
  <2> DEFINE a == Cardinality(Claimed(S) \ Surprising)
             b == Cardinality(Claimed(S) \ Surprising)'
  <2>1. a \in Nat /\ b \in Nat /\ b <= a /\ a <= n
    BY <1>1, <1>2, <1>4
  <2> HIDE DEF a, b
  <2>2. b <= n
    BY <2>1, <1>4
  <2>3. QED
    BY <2>2 DEF b
<1>5. Cardinality(Claimed(Side) \ Surprising)' <= MaxPositions
  BY <1>3, <1>4 DEF ClaimsWithinSlots
<1>6. ASSUME NEW s \in Side PROVE Cardinality(Claimed({s}) \ Surprising)' <= MaxSameSide
  <2>1. {s} \in SUBSET Side /\ Cardinality(Claimed({s}) \ Surprising) <= MaxSameSide
    BY DEF ClaimsWithinSlots
  <2>2. QED
    BY <2>1, <1>3, <1>4
<1>7. QED
  BY <1>5, <1>6 DEF ClaimsWithinSlots

(* A step that only forgets claims no more than before. *)
LEMMA ForgettingClaims ==
  ASSUME CycleTypeOK, SeenInv, ClaimsWithinSlots, ForgetsAt
  PROVE  ClaimsWithinSlots'
<1>1. \A S \in SUBSET Side : Claimed(S)' \subseteq Claimed(S)
  BY DEF Claimed, ForgetsAt, ExposesOnly
<1>2. Surprising \subseteq Surprising'
  BY DEF Surprising, ForgetsAt, ExposesOnly
<1>3. QED
  BY <1>1, <1>2, FewerClaims

-----------------------------------------------------------------------------
(* Most steps neither expose nor read: they end the cycle, or go on with what
   it holds. *)
Ended == pc' = "idle" /\ seenPos' = {} /\ seenOrders' = {} /\ scanned' = {} /\ cur' = {}

GoesOn ==
  /\ UNCHANGED <<seenPos, seenOrders, scanned, cur>>
  /\ pc' \in BothRead => pc \in BothRead
  /\ pc' \in {"submit", "count"} => pc = pc'
  /\ pc' \in {"ledger", "manage"} => pc \in {"ledger", "manage"}
  /\ pc' \in BothRead => (pc \in Sent <=> pc' \in Sent)
  /\ pc' \in Sent => pc \in BothRead

Steady == ExposesOnly({}) /\ (Ended \/ GoesOn)

LEMMA SteadySeen ==
  ASSUME SeenInv, Steady
  PROVE  SeenInv'
<1>1. CASE Ended
  BY <1>1, FS_EmptySet
     DEF Ended, SeenInv, NothingUnseen, CountsScaleIns, Hedged, Side, MaySend, OneAtATime, BothRead
<1>2. CASE GoesOn
  <2> USE <1>2
  <2>1. NothingUnseen'
    <3>1. pc' \in BothRead => Sending' = Sending
      BY DEF GoesOn, Sending
    <3>2. \A d : Known(d)' => Known(d)
      BY KnownShrinks DEF Steady, ExposesOnly
    <3>3. QED
      BY <3>1, <3>2 DEF Steady, ExposesOnly, GoesOn, SeenInv, NothingUnseen, PairOf
  <2>2. CountsScaleIns' /\ MaySend'
    BY DEF GoesOn, SeenInv, CountsScaleIns, MaySend, Busy, NewEntry, ReservedSlots, ReservedSide,
           PairOf
  <2>3. QED
    BY <2>1, <2>2 DEF GoesOn, SeenInv, Hedged, OneAtATime
<1>3. QED
  BY <1>1, <1>2 DEF Steady

LEMMA SteadyForgets ==
  ASSUME Steady
  PROVE  ForgetsAt
<1>1. CASE Ended
  BY <1>1 DEF Steady, Ended, ForgetsAt, Sending, Sent
<1>2. CASE GoesOn
  BY <1>2 DEF Steady, GoesOn, ForgetsAt, Sending, BothRead, Sent
<1>3. QED
  BY <1>1, <1>2 DEF Steady

LEMMA EnvironmentSteady ==
  ASSUME CycleTypeOK, Environment
  PROVE  Steady
<1> USE DEF locals, seen, history
<1>1. ExposesOnly({})
  <2>1. lost \subseteq lost' /\ raced \subseteq raced'
    BY ExchangeMoves
       DEF Environment, Elapse, ClosePosition, Damage, Repair, ChangeBudget, Crash
  <2>2. QED
    BY <2>1, EnvironmentExposesNothing DEF ExposesOnly
<1>2. Ended \/ UNCHANGED <<pc, seenPos, seenOrders, scanned, cur>>
  BY DEF Environment, Fill, CancelOutside, Elapse, ClosePosition, Damage, Repair,
         ChangeBudget, Crash, EndCycle, Ended
<1>3. QED
  BY <1>1, <1>2 DEF Steady, GoesOn, BothRead, Sent

LEMMA NothingExposed ==
  ASSUME UNCHANGED <<lost, raced>>, \A d \in Intent : Exposed(d)' => Exposed(d)
  PROVE  ExposesOnly({})
BY DEF ExposesOnly

LEMMA HousekeepingSteady ==
  ASSUME CycleTypeOK, Housekeeping, ~ReadPositions, ~ReadPending
  PROVE  Steady
<1> USE DEF locals, seen, history
<1>1. UNCHANGED order => \A d \in Intent : Exposed(d)' => Exposed(d)
  BY DEF Exposed, Live, InPosition
<1>2. CASE StartCycle \/ ReconcileDone \/ CleanRead \/ CleanDone \/ LedgerDone
  <2>1. UNCHANGED <<order, lost, raced, seenPos, seenOrders, scanned, cur>>
    BY <1>2 DEF StartCycle, ReconcileDone, CleanRead, CleanDone, LedgerDone
  <2>2. \/ pc' \in {"reconcile", "clean", "sweep", "positions"}
        \/ pc = "ledger" /\ pc' = "manage"
    BY <1>2 DEF StartCycle, Unattributed, ReadOpenOrders, ReconcileDone, CleanRead,
                CleanDone, LedgerDone
  <2>3. QED
    BY <2>1, <2>2, <1>1, NothingExposed DEF Steady, GoesOn, BothRead, Sent
<1>3. CASE SessionOff \/ ReadFails
  <2>1. UNCHANGED <<order, lost, raced>> /\ Ended
    BY <1>3 DEF SessionOff, ReadFails, EndCycle, Ended
  <2>2. QED
    BY <2>1, <1>1, NothingExposed DEF Steady
<1>4. ASSUME NEW d \in Intent, ReconcileOne(d) \/ CleanOne(d) PROVE Steady
  <2>1. UNCHANGED <<lost, raced>> /\ (Cancel(d) \/ UNCHANGED order)
    BY <1>4 DEF ReconcileOne, CleanOne, CancelFails
  <2>2. \/ UNCHANGED <<seenPos, seenOrders, scanned, cur>> /\ pc' \in {"reconcile", "clean", "sweep"}
        \/ Ended
    BY <1>4 DEF ReconcileOne, CleanOne, EndCycle, Ended
  <2>3. QED
    BY <2>1, <2>2, CancelExposesNothing, NothingExposed DEF Steady, GoesOn, BothRead, Sent
<1>5. ASSUME NEW d \in Intent, ReturnBudget(d) PROVE Steady
  <2>1. UNCHANGED <<order, lost, raced, seenPos, seenOrders, scanned, cur, pc>>
    BY <1>5 DEF ReturnBudget
  <2>2. QED
    BY <2>1, <1>1, NothingExposed DEF Steady, GoesOn, BothRead, Sent
<1>6. ASSUME NEW closing \in SUBSET seenPos, ManagePositions(closing) PROVE Steady
  <2>1. UNCHANGED <<lost, raced, seenPos, seenOrders, scanned, cur>> /\ pc = "manage" /\ pc' = "entries"
    BY <1>6 DEF ManagePositions
  <2>2. \A d \in Intent : Exposed(d)' => Exposed(d)
    BY <1>6 DEF ManagePositions, AfterClose, Exposed, Live, InPosition, CycleTypeOK
  <2>3. QED
    BY <2>1, <2>2, NothingExposed DEF Steady, GoesOn, BothRead, Sent
<1>7. QED
  BY <1>2, <1>3, <1>4, <1>5, <1>6 DEF Housekeeping

LEMMA EntrySteady ==
  ASSUME CycleTypeOK, NEW d \in Intent, RejectOrder(d) \/ RecordIntent(d) \/ FinishCycle
  PROVE  Steady
<1> USE DEF locals, seen, history
<1>1. UNCHANGED <<order, lost, raced>>
  BY DEF RejectOrder, RecordIntent, FinishCycle
<1>2. ExposesOnly({})
  BY <1>1, NothingExposed DEF Exposed, Live, InPosition
<1>3. Ended \/ GoesOn
  BY DEF RejectOrder, RecordIntent, FinishCycle, EndCycle, Ended, GoesOn, BothRead, Sent
<1>4. QED
  BY <1>2, <1>3 DEF Steady

-----------------------------------------------------------------------------
(* The two reads. *)
LEMMA ReadPositionsSeen ==
  ASSUME CycleTypeOK, SeenInv, ClaimsWithinSlots, ReadPositions
  PROVE  SeenInv' /\ ClaimsWithinSlots'
<1> USE DEF locals, seen, history
<1>1. UNCHANGED <<order, lost, raced>> /\ pc = "positions"
  BY DEF ReadPositions
<1>2. ExposesOnly({})
  BY <1>1, NothingExposed DEF Exposed, Live, InPosition
<1>3. CASE EndCycle
  <2>1. Steady
    BY <1>2, <1>3 DEF Steady, Ended, EndCycle
  <2>2. QED
    BY <2>1, SteadySeen, SteadyForgets, ForgettingClaims
<1>4. CASE ~EndCycle
  <2>1. /\ ~Hedged(Positions) /\ seenPos' = Positions
        /\ pc' = "pending" /\ UNCHANGED <<seenOrders, cur>>
    BY <1>4 DEF ReadPositions
  <2>2. IsFiniteSet(Positions)
    <3> DEFINE E == {e \in Intent : InPosition(e)}
               pairOf == [d \in Intent |-> PairOf(d)]
    <3>1. IsFiniteSet(E)
      BY ReservationAssumption, FS_Subset
    <3>2. Positions = {pairOf[d] : d \in E}
      BY DEF Positions
    <3>3. QED
      BY <3>1, <3>2, ImageSize
  <2>3. SeenInv'
    <3>1. ~Hedged(seenPos)' /\ IsFiniteSet(seenPos)' /\ OneAtATime'
      BY <2>1, <2>2 DEF Hedged, SeenInv, OneAtATime
    <3>2. QED
      BY <2>1, <3>1 DEF SeenInv, NothingUnseen, CountsScaleIns, MaySend, BothRead
  <2>4. Sending' = {} /\ Surprising' = Surprising
    BY <2>1, <1>1 DEF Sending, Sent, Surprising
  <2>5. \A S \in SUBSET Side : Claimed(S)' \subseteq Claimed(S)
    <3>1. ASSUME NEW S, NEW p \in seenPos', p[2] \in S
          PROVE  \E d \in Intent : p[1] = InstOf[d] /\ SideOf[d] \in S /\ Exposed(d)
      BY <3>1, <2>1 DEF Positions, PairOf, Exposed
    <3>2. QED
      BY <2>1, <2>4, <3>1, <1>2 DEF Claimed, ExposesOnly
  <2>6. QED
    BY <2>3, <2>4, <2>5, FewerClaims
<1>5. QED
  BY <1>3, <1>4

LEMMA ReadPendingSeen ==
  ASSUME CycleTypeOK, SeenPositionsHold, SeenInv, ClaimsWithinSlots, ReadPending
  PROVE  SeenInv' /\ ClaimsWithinSlots'
<1> USE DEF locals, seen, history
<1>1. /\ UNCHANGED <<order, lost, raced, seenPos, cur>> /\ seenOrders' = OpenOrders
      /\ pc = "pending" /\ pc' = "ledger"
  BY DEF ReadPending
<1>2. NothingUnseen'
  BY <1>1 DEF NothingUnseen, SeenPositionsHold, OpenOrders, Exposed, Live, InPosition, Known, PairOf
<1>3. SeenInv'
  BY <1>1, <1>2 DEF SeenInv, CountsScaleIns, MaySend, OneAtATime, Hedged
<1>4. Sending' = {} /\ Surprising' = Surprising
  BY <1>1 DEF Sending, Sent, Surprising
<1>5. \A S \in SUBSET Side : Claimed(S)' \subseteq Claimed(S)
  <2>1. \A d \in OpenOrders : d \in Intent /\ Exposed(d)
    BY DEF OpenOrders, Exposed
  <2>2. QED
    BY <1>1, <1>4, <2>1 DEF Claimed, Exposed, Live, InPosition
<1>6. QED
  BY <1>3, <1>4, <1>5, FewerClaims

-----------------------------------------------------------------------------
(* The steps of one entry. *)
LEMMA SubmitSeen ==
  ASSUME CycleTypeOK, SeenInv, ClaimsWithinSlots, NEW d \in Intent, Submit(d)
  PROVE  SeenInv' /\ ClaimsWithinSlots'
<1> USE DEF locals, seen, history
<1>1. /\ UNCHANGED <<order, lost, raced, seenPos, seenOrders>>
      /\ pc = "entries" /\ cur = {}
      /\ (pc' = "submit" /\ cur' = {d}) \/ UNCHANGED <<pc, cur>>
  BY DEF Submit
<1>2. ExposesOnly({})
  BY <1>1, NothingExposed DEF Exposed, Live, InPosition
<1>3. Sending' = {} /\ Sending = {}
  BY <1>1 DEF Sending, Sent
<1>4. NothingUnseen'
  BY <1>1, <1>3 DEF SeenInv, NothingUnseen, BothRead, Exposed, Live, InPosition, Known, PairOf
<1>5. MaySend'
  <2>1. InstOf[d] \notin Busy /\ (NewEntry(d) \/ PairOf(d) \in seenPos)
    BY DEF Submit, MayEnter, ScaleIn
  <2>2. /\ Busy' = Busy /\ (NewEntry(d)' <=> NewEntry(d))
        /\ (PairOf(d) \in seenPos)' <=> PairOf(d) \in seenPos
    BY <1>1 DEF Busy, NewEntry, ReservedSlots, ReservedSide, PairOf
  <2>3. pc' = "submit" => cur' = {d}
    BY <1>1
  <2>4. QED
    BY <2>1, <2>2, <2>3 DEF MaySend
<1>6. CountsScaleIns' /\ OneAtATime'
  BY <1>1 DEF CountsScaleIns, OneAtATime
<1>7. ForgetsAt
  BY <1>1, <1>2, <1>3 DEF ForgetsAt
<1>8. QED
  BY <1>1, <1>4, <1>5, <1>6, <1>7, ForgettingClaims DEF SeenInv, Hedged

(* After a rejection, or an order nobody hears of, the decision is dropped. *)
LEMMA ReleaseFailedSeen ==
  ASSUME CycleTypeOK, SeenInv, ClaimsWithinSlots, NEW d \in Intent, ReleaseFailed(d)
  PROVE  SeenInv' /\ ClaimsWithinSlots'
<1> USE DEF locals, seen, history
<1>1. /\ UNCHANGED <<order, lost, raced, seenPos, seenOrders>>
      /\ pc = "release" /\ pc' = "entries" /\ cur' = {}
  BY DEF ReleaseFailed
<1>2. ExposesOnly({})
  BY <1>1, NothingExposed DEF Exposed, Live, InPosition
<1>3. Sending' = {} /\ Sending = {}
  BY <1>1 DEF Sending, Sent
<1>4. NothingUnseen'
  BY <1>1, <1>3 DEF SeenInv, NothingUnseen, BothRead, Exposed, Live, InPosition, Known, PairOf
<1>5. ForgetsAt
  BY <1>1, <1>2, <1>3 DEF ForgetsAt
<1>6. QED
  BY <1>1, <1>4, <1>5, ForgettingClaims DEF SeenInv, Hedged, CountsScaleIns, MaySend, OneAtATime

(* A confirmed entry moves into the orders this cycle counts; a scale-in stays
   covered by the position it was sent for. *)
LEMMA ConfirmOrderSeen ==
  ASSUME CycleTypeOK, SeenInv, ClaimsWithinSlots, NEW d \in Intent, ConfirmOrder(d)
  PROVE  SeenInv' /\ ClaimsWithinSlots'
<1> USE DEF locals, seen, history
<1>1. /\ UNCHANGED <<order, lost, raced, seenPos>> /\ pc = "confirm" /\ d \in cur
      /\ \/ PairOf(d) \in seenPos /\ pc' = "count" /\ UNCHANGED <<seenOrders, cur>>
         \/ pc' = "entries" /\ seenOrders' = seenOrders \cup {d} /\ cur' = {}
  BY DEF ConfirmOrder
<1>2. ExposesOnly({})
  BY <1>1, NothingExposed DEF Exposed, Live, InPosition
<1>3. cur = {d}
  BY <1>1 DEF SeenInv, OneAtATime
<1>4. seenOrders' \cup Sending' = seenOrders \cup Sending
  BY <1>1, <1>3 DEF Sending, Sent
<1>5. NothingUnseen'
  BY <1>1, <1>4 DEF SeenInv, NothingUnseen, BothRead, Exposed, Live, InPosition, Known, PairOf
<1>6. CountsScaleIns' /\ MaySend' /\ OneAtATime'
  BY <1>1, <1>3 DEF CountsScaleIns, MaySend, OneAtATime, PairOf
<1>7. ForgetsAt
  BY <1>1, <1>2, <1>4 DEF ForgetsAt
<1>8. QED
  BY <1>1, <1>5, <1>6, <1>7, ForgettingClaims DEF SeenInv, Hedged

LEMMA CountScaleInSeen ==
  ASSUME CycleTypeOK, SeenInv, ClaimsWithinSlots, NEW d \in Intent, CountScaleIn(d)
  PROVE  SeenInv' /\ ClaimsWithinSlots'
<1> USE DEF locals, seen, history
<1>1. /\ UNCHANGED <<order, lost, raced, seenPos, seenOrders>>
      /\ pc = "count" /\ pc' = "entries" /\ cur' = {}
  BY DEF CountScaleIn
<1>2. ExposesOnly({})
  BY <1>1, NothingExposed DEF Exposed, Live, InPosition
<1>3. Sending' = {} /\ Sending = cur
  BY <1>1 DEF Sending, Sent
<1>4. NothingUnseen'
  BY <1>1, <1>3 DEF SeenInv, NothingUnseen, CountsScaleIns, BothRead, Exposed, Live, InPosition,
                    Known, PairOf
<1>5. ForgetsAt
  BY <1>1, <1>2, <1>3 DEF ForgetsAt
<1>6. QED
  BY <1>1, <1>4, <1>5, ForgettingClaims DEF SeenInv, Hedged, CountsScaleIns, MaySend, OneAtATime

(* An order whose acceptance is not heard of takes a slot of an instrument that
   no longer counts. *)
LEMMA LoseReplySeen ==
  ASSUME CycleTypeOK, SeenInv, ClaimsWithinSlots, NEW d \in Intent, LoseReply(d)
  PROVE  SeenInv' /\ ClaimsWithinSlots'
<1> USE DEF locals, seen, history
<1>1. /\ UNCHANGED <<raced, seenPos, seenOrders, cur>> /\ lost' = lost \cup {d}
      /\ pc = "submit" /\ pc' = "release"
  BY DEF LoseReply
<1>2. \A e \in Intent : Exposed(e)' => Exposed(e) \/ e = d
  BY DEF LoseReply, CycleTypeOK, Exposed, Live, InPosition
<1>3. Sending' = {} /\ Sending = {}
  BY <1>1 DEF Sending, Sent
<1>4. \A e : Known(e)' => Known(e) /\ e # d
  BY <1>1 DEF Known
<1>5. NothingUnseen'
  BY <1>1, <1>2, <1>3, <1>4 DEF SeenInv, NothingUnseen, BothRead, PairOf
<1>6. SeenInv'
  BY <1>1, <1>5 DEF SeenInv, Hedged, CountsScaleIns, MaySend, OneAtATime
<1>7. Surprising \subseteq Surprising' /\ InstOf[d] \in Surprising'
  BY <1>1 DEF Surprising
<1>8. \A S \in SUBSET Side : Claimed(S)' \subseteq Claimed(S) \cup {InstOf[d]}
  BY <1>1, <1>2, <1>3 DEF Claimed
<1>9. QED
  BY <1>6, <1>7, <1>8, FewerClaims

LEMMA PlaceOrderShape ==
  ASSUME CycleTypeOK, SeenInv, NEW d \in Intent, PlaceOrder(d)
  PROVE  /\ UNCHANGED <<lost, raced, seenPos, seenOrders, cur>>
         /\ pc = "submit" /\ pc' = "record" /\ cur = {d}
         /\ Sending = {} /\ Sending' = {d}
         /\ \A e \in Intent : Exposed(e)' => Exposed(e) \/ e = d
<1>1. /\ UNCHANGED <<lost, raced, seenPos, seenOrders, cur>>
      /\ pc = "submit" /\ pc' = "record" /\ d \in cur
  BY DEF PlaceOrder, locals, seen, history
<1>2. cur = {d}
  BY <1>1 DEF SeenInv, OneAtATime
<1>3. \A e \in Intent : Exposed(e)' => Exposed(e) \/ e = d
  BY DEF PlaceOrder, CycleTypeOK, Exposed, Live, InPosition
<1>4. QED
  BY <1>1, <1>2, <1>3 DEF Sending, Sent

(* What is claimed after the order is sent is what the cycle has seen, the
   instruments that no longer count, and the order's own instrument. *)
LEMMA ClaimsOfSeen ==
  ASSUME CycleTypeOK, SeenInv, NEW d \in Intent, PlaceOrder(d), NEW S
  PROVE  (Claimed(S) \ Surprising)' \subseteq
           {p[1] : p \in {q \in seenPos : q[2] \in S}}
             \cup {InstOf[e] : e \in {f \in seenOrders : SideOf[f] \in S}} \cup {InstOf[d]}
<1> DEFINE A == {p[1] : p \in {q \in seenPos : q[2] \in S}}
           B == {InstOf[e] : e \in {f \in seenOrders : SideOf[f] \in S}}
<1>1. ASSUME NEW e \in Intent, SideOf[e] \in S, Exposed(e), InstOf[e] \notin Surprising
      PROVE  InstOf[e] \in A \cup B
  <2>1. Known(e)
    BY <1>1 DEF Known, Surprising
  <2>2. PairOf(e) \in seenPos \/ e \in seenOrders
    BY <1>1, <2>1, PlaceOrderShape DEF SeenInv, NothingUnseen, BothRead
  <2>3. PairOf(e)[1] = InstOf[e] /\ PairOf(e)[2] = SideOf[e]
    BY DEF PairOf
  <2>4. CASE PairOf(e) \in seenPos
    BY <1>1, <2>3, <2>4
  <2>5. CASE e \in seenOrders
    BY <1>1, <2>5
  <2>6. QED
    BY <2>2, <2>4, <2>5
<1>2. Surprising' = Surprising
  BY PlaceOrderShape DEF Surprising
<1>3. Claimed(S)' \subseteq
        {InstOf[e] : e \in {f \in Intent : SideOf[f] \in S /\ Exposed(f)}} \cup A \cup B \cup {InstOf[d]}
  BY PlaceOrderShape DEF Claimed
<1>4. QED
  BY <1>1, <1>2, <1>3

(* The gates of a new entry leave room for one more instrument. *)
LEMMA RoomForNewEntry ==
  ASSUME CycleTypeOK, SeenInv, NEW d \in Intent, PlaceOrder(d), NewEntry(d)
  PROVE  /\ Cardinality(Claimed(Side) \ Surprising)' <= MaxPositions
         /\ Cardinality(Claimed({SideOf[d]}) \ Surprising)' <= MaxSameSide
<1>1. IsFiniteSet(seenPos) /\ IsFiniteSet(seenOrders)
  <2>1. IsFiniteSet(Intent) /\ seenOrders \subseteq Intent
    BY ReservationAssumption DEF CycleTypeOK
  <2>2. QED
    BY <2>1, FS_Subset DEF SeenInv
<1>2. Cardinality(Claimed(Side) \ Surprising)' <= MaxPositions
  <2> DEFINE A == {p[1] : p \in seenPos}
             B == {InstOf[e] : e \in seenOrders}
             C == (Claimed(Side) \ Surprising)'
  <2>1. IsFiniteSet(A) /\ IsFiniteSet(B)
    BY <1>1, InstrumentsOfPairs, ImageSize
  <2>2. {q \in seenPos : q[2] \in Side} \subseteq seenPos
        /\ {f \in seenOrders : SideOf[f] \in Side} \subseteq seenOrders
    OBVIOUS
  <2>3. C \subseteq A \cup B \cup {InstOf[d]}
    BY <2>2, ClaimsOfSeen
  <2>4. Cardinality(A) + Cardinality(B) < MaxPositions
    BY DEF NewEntry, ReservedSlots, Busy
  <2> HIDE DEF A, B
  <2>5. Cardinality(A) \in Nat /\ Cardinality(B) \in Nat /\ MaxPositions \in Nat
    BY <2>1, FS_CardinalityType, EntryAssumption
  <2>6. IsFiniteSet(C) /\ Cardinality(C) <= Cardinality(A) + Cardinality(B) + 1
    <3> HIDE DEF C
    <3> QED
      BY <2>1, <2>3, SizeOfUnionAndOne
  <2>7. Cardinality(C) \in Nat
    BY <2>6, FS_CardinalityType
  <2>8. Cardinality(C) <= MaxPositions
    <3> HIDE DEF C
    <3> QED
      BY <2>4, <2>5, <2>6, <2>7
  <2>9. QED
    BY <2>8
<1>3. Cardinality(Claimed({SideOf[d]}) \ Surprising)' <= MaxSameSide
  <2> DEFINE P == {p \in seenPos : p[2] = SideOf[d]}
             O == {e \in seenOrders : SideOf[e] = SideOf[d]}
             A == {p[1] : p \in P}
             B == {InstOf[e] : e \in O}
             C == (Claimed({SideOf[d]}) \ Surprising)'
  <2>1. IsFiniteSet(P) /\ IsFiniteSet(O)
    BY <1>1, FS_Subset
  <2>2. /\ IsFiniteSet(A) /\ Cardinality(A) <= Cardinality(P)
        /\ IsFiniteSet(B) /\ Cardinality(B) <= Cardinality(O)
    BY <2>1, InstrumentsOfPairs, ImageSize
  <2>3. /\ {q \in seenPos : q[2] \in {SideOf[d]}} = P
        /\ {f \in seenOrders : SideOf[f] \in {SideOf[d]}} = O
    OBVIOUS
  <2>4. C \subseteq A \cup B \cup {InstOf[d]}
    BY <2>3, ClaimsOfSeen
  <2>5. Cardinality(P) + Cardinality(O) < MaxSameSide
    BY DEF NewEntry, ReservedSide
  <2> HIDE DEF A, B, P, O
  <2>6. /\ Cardinality(A) \in Nat /\ Cardinality(B) \in Nat /\ MaxSameSide \in Nat
        /\ Cardinality(P) \in Nat /\ Cardinality(O) \in Nat
    BY <2>1, <2>2, FS_CardinalityType, EntryAssumption
  <2>7. IsFiniteSet(C) /\ Cardinality(C) <= Cardinality(A) + Cardinality(B) + 1
    <3> HIDE DEF C
    <3> QED
      BY <2>2, <2>4, SizeOfUnionAndOne
  <2>8. Cardinality(C) \in Nat
    BY <2>7, FS_CardinalityType
  <2>9. Cardinality(C) <= MaxSameSide
    <3> HIDE DEF C
    <3> QED
      BY <2>2, <2>5, <2>6, <2>7, <2>8
  <2>10. QED
    BY <2>9
<1>4. QED
  BY <1>2, <1>3

(* The order that is sent claims a slot of its own, that the gates found free,
   or the slot of the position it scales in. *)
LEMMA PlaceOrderClaims ==
  ASSUME CycleTypeOK, SeenInv, ClaimsWithinSlots, NEW d \in Intent, PlaceOrder(d)
  PROVE  ClaimsWithinSlots'
<1>1. NewEntry(d) \/ PairOf(d) \in seenPos
  BY PlaceOrderShape DEF SeenInv, MaySend
<1>2. Surprising' = Surprising
  BY PlaceOrderShape DEF Surprising
<1>3. ASSUME NEW S, SideOf[d] \notin S \/ PairOf(d) \in seenPos
      PROVE  Claimed(S)' \subseteq Claimed(S)
  <2>1. PairOf(d)[1] = InstOf[d] /\ PairOf(d)[2] = SideOf[d]
    BY DEF PairOf
  <2>2. QED
    BY <1>3, <2>1, PlaceOrderShape DEF Claimed
<1>4. CASE PairOf(d) \in seenPos
  BY <1>2, <1>3, <1>4, FewerClaims
<1>5. CASE NewEntry(d)
  <2>1. ASSUME NEW s \in Side, s # SideOf[d]
        PROVE  Cardinality(Claimed({s}) \ Surprising)' <= MaxSameSide
    <3> DEFINE C == Claimed({s}) \ Surprising
    <3>1. IsFiniteSet(C) /\ C' \subseteq C
      BY <1>2, <1>3, <2>1, ClaimsFinite
    <3>2. IsFiniteSet(C') /\ Cardinality(C') <= Cardinality(C)
      BY <3>1, SizeOfSubset
    <3>3. Cardinality(C) \in Nat /\ Cardinality(C') \in Nat /\ MaxSameSide \in Nat
      BY <3>1, <3>2, FS_CardinalityType, EntryAssumption
    <3>4. Cardinality(C) <= MaxSameSide
      BY DEF ClaimsWithinSlots
    <3> HIDE DEF C
    <3>5. Cardinality(C') <= MaxSameSide
      BY <3>2, <3>3, <3>4
    <3>6. QED
      BY <3>5 DEF C
  <2>2. QED
    BY <1>5, <2>1, RoomForNewEntry DEF ClaimsWithinSlots
<1>6. QED
  BY <1>1, <1>4, <1>5

LEMMA PlaceOrderSeen ==
  ASSUME CycleTypeOK, SeenInv, ClaimsWithinSlots, NEW d \in Intent, PlaceOrder(d)
  PROVE  SeenInv' /\ ClaimsWithinSlots'
<1>1. NothingUnseen'
  BY PlaceOrderShape DEF SeenInv, NothingUnseen, BothRead, Known, PairOf
<1>2. SeenInv'
  BY <1>1, PlaceOrderShape DEF SeenInv, Hedged, CountsScaleIns, MaySend, OneAtATime
<1>3. QED
  BY <1>2, PlaceOrderClaims

LEMMA SeenStep ==
  ASSUME EntryTypeOK, ReservedInv, SeenInv, ClaimsWithinSlots, [EntryNext]_entryVars
  PROVE  SeenInv' /\ ClaimsWithinSlots'
<1>1. CycleTypeOK /\ SeenPositionsHold
  BY DEF EntryTypeOK, ReservedInv
<1>2. CASE Steady
  BY <1>1, <1>2, SteadySeen, SteadyForgets, ForgettingClaims
<1>3. CASE UNCHANGED entryVars
  <2>1. UNCHANGED <<order, pc, seenPos, seenOrders, scanned, cur, lost, raced>>
    BY <1>3 DEF entryVars, locals, seen, history
  <2>2. Steady
    BY <2>1 DEF Steady, GoesOn, ExposesOnly, Exposed, Live, InPosition, BothRead, Sent
  <2>3. QED
    BY <2>2, <1>2
<1>4. CASE Environment
  BY <1>1, <1>2, <1>4, EnvironmentSteady
<1>5. CASE Housekeeping
  BY <1>1, <1>2, <1>5, HousekeepingSteady, ReadPositionsSeen, ReadPendingSeen
<1>6. CASE Entry
  <2>1. ASSUME NEW d \in Intent,
               \/ Submit(d) \/ LoseReply(d) \/ ReleaseFailed(d)
               \/ PlaceOrder(d) \/ ConfirmOrder(d) \/ CountScaleIn(d)
        PROVE  SeenInv' /\ ClaimsWithinSlots'
    BY <1>1, <2>1, SubmitSeen, LoseReplySeen, ReleaseFailedSeen, PlaceOrderSeen,
       ConfirmOrderSeen, CountScaleInSeen
  <2>2. ASSUME NEW d \in Intent, RejectOrder(d) \/ RecordIntent(d) PROVE Steady
    BY <1>1, <2>2, EntrySteady
  <2>3. CASE FinishCycle
    <3>1. UNCHANGED <<order, lost, raced>> /\ Ended
      BY <2>3 DEF FinishCycle, EndCycle, Ended, history
    <3>2. QED
      BY <3>1, <1>2, NothingExposed DEF Steady, Exposed, Live, InPosition
  <2>4. QED
    BY <1>2, <1>6, <2>1, <2>2, <2>3 DEF Entry
<1>7. QED
  BY <1>3, <1>4, <1>5, <1>6 DEF EntryNext

LEMMA SeenInvariant == EntrySpec => [](EntryTypeOK /\ ReservedInv /\ SeenInv /\ ClaimsWithinSlots)
<1>1. EntryInit => SeenInv
  <2>1. ~Hedged({})
    <3>1. \A i : <<i, "long">> \in {i} \X Side
      BY DEF Side
    <3>2. QED
      BY <3>1 DEF Hedged
  <2>2. IsFiniteSet({})
    BY FS_EmptySet
  <2>3. QED
    BY <2>1, <2>2 DEF EntryInit, SeenInv, NothingUnseen, CountsScaleIns, MaySend, OneAtATime, BothRead
<1>2. EntryInit => ClaimsWithinSlots
  <2> SUFFICES ASSUME EntryInit PROVE ClaimsWithinSlots
    OBVIOUS
  <2>1. \A S \in SUBSET Side : Claimed(S) \ Surprising = {}
    BY DEF EntryInit, Claimed, Sending, Exposed, Live, InPosition
  <2>2. Cardinality({}) = 0
    BY FS_EmptySet
  <2>3. QED
    BY <2>1, <2>2, EntryAssumption DEF ClaimsWithinSlots
<1>3. EntrySpec => []ReservedInv
  BY ReservedInvariant
<1>4. EntryTypeOK /\ ReservedInv /\ SeenInv /\ ClaimsWithinSlots /\ [EntryNext]_entryVars
        => SeenInv' /\ ClaimsWithinSlots'
  BY SeenStep
<1>5. QED
  BY <1>1, <1>2, <1>3, <1>4, EntryTypeCorrect, PTL DEF EntrySpec

(* However orders fill and processes die, the instruments the trader is exposed
   to stay within MAX_CONCURRENT_POSITIONS and each side of them within
   MAX_SAME_DIRECTION_POSITIONS, but for instruments on which an order escaped
   its notice: entry_execution.py checks the limits against positions and
   orders that were read one after the other, and counts its own entries of the
   cycle itself. *)
THEOREM SlotsRespectedCorrect == EntrySpec => []SlotsRespected
<1>1. CycleTypeOK /\ SeenInv /\ ClaimsWithinSlots => SlotsRespected
  <2> SUFFICES ASSUME CycleTypeOK, SeenInv, ClaimsWithinSlots PROVE SlotsRespected
    OBVIOUS
  <2>1. ASSUME NEW S \in SUBSET Side, NEW D, D \subseteq {d \in Intent : SideOf[d] \in S},
               NEW n \in Nat, Cardinality(Claimed(S) \ Surprising) <= n
        PROVE  Cardinality(ExposedInstruments(D)) <= n
    <3> DEFINE E == ExposedInstruments(D)
               C == Claimed(S) \ Surprising
    <3>1. E \subseteq C
      BY <2>1 DEF ExposedInstruments, Claimed
    <3>2. IsFiniteSet(C)
      BY ClaimsFinite
    <3>3. IsFiniteSet(E) /\ Cardinality(E) <= Cardinality(C)
      BY <3>1, <3>2, SizeOfSubset
    <3>4. Cardinality(C) \in Nat /\ Cardinality(E) \in Nat
      BY <3>2, <3>3, FS_CardinalityType
    <3>5. Cardinality(C) <= n
      BY <2>1
    <3> HIDE DEF C, E
    <3>6. Cardinality(E) <= n
      BY <3>3, <3>4, <3>5
    <3>7. QED
      BY <3>6 DEF E
  <2>2. MaxPositions \in Nat /\ MaxSameSide \in Nat /\ \A d \in Intent : SideOf[d] \in Side
    BY EntryAssumption
  <2>3. Cardinality(ExposedInstruments(Intent)) <= MaxPositions
    BY <2>1, <2>2 DEF ClaimsWithinSlots
  <2>4. ASSUME NEW s \in Side
        PROVE  Cardinality(ExposedInstruments({d \in Intent : SideOf[d] = s})) <= MaxSameSide
    <3>1. /\ {s} \in SUBSET Side /\ Cardinality(Claimed({s}) \ Surprising) <= MaxSameSide
          /\ {d \in Intent : SideOf[d] = s} \subseteq {d \in Intent : SideOf[d] \in {s}}
      BY DEF ClaimsWithinSlots
    <3>2. QED
      BY <2>1, <2>2, <3>1
  <2>5. QED
    BY <2>3, <2>4 DEF SlotsRespected
<1>2. EntryTypeOK => CycleTypeOK
  BY DEF EntryTypeOK
<1>3. QED
  BY <1>1, <1>2, SeenInvariant, PTL

-----------------------------------------------------------------------------
(* Whatever step is taken, only an order that is sent and answered adds to the
   exposures the trader knows of. *)
LEMMA ExposureMoves ==
  ASSUME CycleTypeOK, [EntryNext]_entryVars, \A d \in Intent : ~PlaceOrder(d)
  PROVE  \A d \in Intent : Exposed(d)' /\ Known(d)' => Exposed(d) /\ Known(d)
<1>1. ASSUME ExposesOnly({})
      PROVE  \A d \in Intent : Exposed(d)' /\ Known(d)' => Exposed(d) /\ Known(d)
  BY <1>1, KnownShrinks DEF ExposesOnly
<1>2. ASSUME UNCHANGED <<order, lost, raced>>
      PROVE  \A d \in Intent : Exposed(d)' /\ Known(d)' => Exposed(d) /\ Known(d)
  BY <1>1, <1>2 DEF ExposesOnly, Exposed, Live, InPosition
<1>3. CASE Environment
  BY <1>1, <1>3, EnvironmentSteady DEF Steady
<1>4. CASE Housekeeping
  <2>1. CASE ReadPositions \/ ReadPending
    BY <1>2, <2>1 DEF ReadPositions, ReadPending, history
  <2>2. CASE ~ReadPositions /\ ~ReadPending
    BY <1>1, <1>4, <2>2, HousekeepingSteady DEF Steady
  <2>3. QED
    BY <2>1, <2>2
<1>5. ASSUME NEW d \in Intent, LoseReply(d)
      PROVE  \A e \in Intent : Exposed(e)' /\ Known(e)' => Exposed(e) /\ Known(e)
  BY <1>5 DEF LoseReply, Known, CycleTypeOK, Exposed, Live, InPosition
<1>6. CASE Entry
  <2>1. ASSUME NEW d \in Intent,
               \/ Submit(d) \/ RejectOrder(d) \/ ReleaseFailed(d) \/ RecordIntent(d)
               \/ ConfirmOrder(d) \/ CountScaleIn(d)
        PROVE  UNCHANGED <<order, lost, raced>>
    BY <2>1 DEF Submit, RejectOrder, ReleaseFailed, RecordIntent, ConfirmOrder,
                CountScaleIn, history
  <2>2. FinishCycle => UNCHANGED <<order, lost, raced>>
    BY DEF FinishCycle, history
  <2>3. QED
    BY <1>2, <1>5, <1>6, <2>1, <2>2 DEF Entry
<1>7. CASE UNCHANGED entryVars
  BY <1>2, <1>7 DEF entryVars, history
<1>8. QED
  BY <1>3, <1>4, <1>6, <1>7 DEF EntryNext

(* Of two known exposures on one instrument the younger was sent by a cycle
   that had seen the older, and then only for the side it saw. *)
LEMMA HedgeStep ==
  ASSUME CycleTypeOK, SeenInv, NeverHedged, [EntryNext]_entryVars
  PROVE  NeverHedged'
<1>1. CASE \A d \in Intent : ~PlaceOrder(d)
  BY <1>1, ExposureMoves DEF NeverHedged
<1>2. ASSUME NEW d \in Intent, PlaceOrder(d) PROVE NeverHedged'
  <2>1. ASSUME NEW e \in Intent, Exposed(e), Known(e), InstOf[e] = InstOf[d]
        PROVE  SideOf[e] = SideOf[d]
    <3>1. PairOf(e) \in seenPos \/ e \in seenOrders
      BY <1>2, <2>1, PlaceOrderShape DEF SeenInv, NothingUnseen, BothRead
    <3>2. InstOf[d] \notin Busy /\ (NewEntry(d) \/ PairOf(d) \in seenPos)
      BY <1>2, PlaceOrderShape DEF SeenInv, MaySend
    <3>3. <<InstOf[d], SideOf[e]>> \in seenPos
      BY <2>1, <3>1, <3>2 DEF Busy, PairOf
    <3>4. SideOf[e] \in Side /\ SideOf[d] \in Side /\ InstOf[d] \in Instrument
      BY EntryAssumption
    <3>5. <<InstOf[d], SideOf[d]>> \in seenPos
      BY <3>2, <3>3, <3>4 DEF NewEntry, PairOf
    <3>6. ~Hedged(seenPos)
      BY DEF SeenInv
    <3>7. QED
      BY <3>3, <3>4, <3>5, <3>6 DEF Hedged, Side
  <2>2. \A e \in Intent : Exposed(e)' /\ Known(e)' => Known(e) /\ (Exposed(e) \/ e = d)
    BY <1>2, PlaceOrderShape DEF Known
  <2>3. QED
    BY <2>1, <2>2 DEF NeverHedged
<1>3. QED
  BY <1>1, <1>2

(* The trader never opens both sides of one instrument itself, whatever fills
   between its two reads of a cycle and whatever another cycle left waiting:
   entry_execution.py looks for positions of either side and for any pending
   order on the instrument. *)
THEOREM NeverHedgedCorrect == EntrySpec => []NeverHedged
<1>1. EntryInit => NeverHedged
  BY DEF EntryInit, NeverHedged, Exposed, Live, InPosition
<1>2. EntryTypeOK /\ SeenInv /\ NeverHedged /\ [EntryNext]_entryVars => NeverHedged'
  BY HedgeStep DEF EntryTypeOK
<1>3. QED
  BY <1>1, <1>2, SeenInvariant, PTL DEF EntrySpec

-----------------------------------------------------------------------------
(* OwnIntentSurvives says nothing of the cycle's locals, and the sweep cancels
   what they name; so the invariant follows a decision whose own intent is in
   time through the two loops of a cycle that could attribute the orders. *)
OwnInTime(d) ==
  d \in intents /\ ~Expired(d) /\ \A e \in IntentsOn(InstOf[d]) : e <= d

OwnKept ==
  ~blocked =>
    \A d \in Intent : OwnInTime(d) /\ Live(d) =>
      /\ pc = "reconcile" => d \in todo \cup kept
      /\ pc = "clean" => d \in kept
      /\ pc = "sweep" => d \notin todo

(* Its own intent is the newest of its instrument, so the order is owned. *)
LEMMA OwnIsOwned ==
  ASSUME CycleTypeOK, NEW d \in Intent, OwnInTime(d)
  PROVE  Owned(d)
<1>1. IntentsOn(InstOf[d]) \subseteq Nat /\ d \in IntentsOn(InstOf[d])
  BY EntryAssumption DEF IntentsOn, OwnInTime, CycleTypeOK
<1>2. \A e \in IntentsOn(InstOf[d]) : e <= d
  BY DEF OwnInTime
<1>3. ASSUME NEW n \in IntentsOn(InstOf[d]), \A f \in IntentsOn(InstOf[d]) : f <= n
      PROVE  n = d
  <2>1. d <= n /\ n <= d /\ d \in Nat /\ n \in Nat
    BY <1>1, <1>2, <1>3
  <2>2. QED
    BY <2>1
<1>4. NewestOn(InstOf[d]) = d
  <2> DEFINE N == IntentsOn(InstOf[d])
  <2>1. \E n \in N : \A f \in N : f <= n
    BY <1>1, <1>2
  <2>2. NewestOn(InstOf[d]) = CHOOSE e \in N : \A f \in N : f <= e
    BY DEF NewestOn
  <2>3. NewestOn(InstOf[d]) \in N /\ \A f \in N : f <= NewestOn(InstOf[d])
    <3> HIDE DEF N
    <3> QED
      BY <2>1, <2>2
  <2>4. QED
    BY <2>3, <1>3
<1>5. QED
  BY <1>1, <1>4 DEF Owned, Covers, OwnInTime

LEMMA CancelLeaves ==
  ASSUME CycleTypeOK, NEW d \in Intent, Cancel(d)
  PROVE  ~Live(d)' /\ \A e \in Intent : e # d => order'[e] = order[e]
BY DEF Cancel, CycleTypeOK, Live

LEMMA OwnKeptEnvironment ==
  ASSUME CycleTypeOK, OwnKept, Environment
  PROVE  OwnKept'
<1> USE DEF locals, files
<1>1. ASSUME NEW e \in Intent, Fill(e) \/ CancelOutside(e), NEW d \in Intent, Live(d)'
      PROVE  Live(d)
  <2>1. CASE d = e
    BY <1>1, <2>1, ExchangeMoves
  <2>2. CASE d # e
    BY <1>1, <2>2, ExchangeMoves DEF Live
  <2>3. QED
    BY <2>1, <2>2
<1>2. ASSUME NEW p \in Pair, ClosePosition(p), NEW d \in Intent, Live(d)' PROVE Live(d)
  BY <1>2 DEF ClosePosition, AfterClose, Live
<1>3. ASSUME UNCHANGED <<intents, age, pc, blocked, todo, kept>>,
             \A d \in Intent : Live(d)' => Live(d)
      PROVE  OwnKept'
  BY <1>3 DEF OwnKept, OwnInTime, IntentsOn, Expired
<1>4. ASSUME NEW e \in Intent, Fill(e) \/ CancelOutside(e) PROVE OwnKept'
  BY <1>1, <1>3, <1>4, ExchangeMoves
<1>5. ASSUME NEW p \in Pair, ClosePosition(p) PROVE OwnKept'
  BY <1>2, <1>3, <1>5 DEF ClosePosition
<1>6. ASSUME NEW f, Damage(f) \/ Repair(f) PROVE OwnKept'
  BY <1>3, <1>6 DEF Damage, Repair, Live
<1>7. ASSUME pc' = "idle" PROVE OwnKept'
  BY <1>7 DEF OwnKept
<1>8. QED
  BY <1>4, <1>5, <1>6, <1>7 DEF Environment, Elapse, ChangeBudget, Crash, EndCycle

LEMMA OwnKeptStep ==
  ASSUME CycleTypeOK, OwnKept, [EntryNext]_entryVars
  PROVE  OwnKept'
<1> USE DEF locals, files
<1>1. ASSUME pc' \notin {"reconcile", "clean", "sweep"} PROVE OwnKept'
  BY <1>1 DEF OwnKept
<1>2. CASE UNCHANGED entryVars
  BY <1>2 DEF entryVars, OwnKept, OwnInTime, IntentsOn, Expired, Live
<1>3. CASE StartCycle
  BY <1>3 DEF StartCycle, Unattributed, ReadOpenOrders, OpenOrders, OwnKept, Live
<1>4. ASSUME NEW e \in Intent, ReconcileOne(e) PROVE OwnKept'
  <2>1. UNCHANGED <<intents, age>> /\ pc = "reconcile" /\ pc' \in {"reconcile", "clean"}
    BY <1>4 DEF ReconcileOne
  <2>2. CASE blocked'
    BY <2>2 DEF OwnKept
  <2>3. ASSUME ~blocked', NEW d \in Intent, OwnInTime(d), Live(d)'
        PROVE  pc' = "reconcile" /\ d \in todo' \cup kept'
    <3>1. \/ pc' = pc /\ ~blocked /\ kept' = kept \cup {e} /\ todo' = todo \ {e} /\ order' = order
          \/ pc' = pc /\ ~blocked /\ kept' = kept /\ todo' = todo \ {e} /\ Cancel(e)
      BY <1>4, <2>3 DEF ReconcileOne
    <3>2. Live(d) /\ (d = e => e \in kept')
      BY <2>3, <3>1, CancelLeaves DEF Live
    <3>3. d \in todo \cup kept
      BY <2>1, <2>3, <3>1, <3>2 DEF OwnKept
    <3>4. QED
      BY <2>1, <3>1, <3>2, <3>3
  <2>4. \A d \in Intent : OwnInTime(d)' <=> OwnInTime(d)
    BY <2>1 DEF OwnInTime, IntentsOn, Expired
  <2>5. QED
    BY <2>2, <2>3, <2>4 DEF OwnKept
<1>5. CASE ReconcileDone
  BY <1>5 DEF ReconcileDone, OwnKept, OwnInTime, IntentsOn, Expired, Live
<1>6. CASE CleanRead
  <2>1. UNCHANGED <<intents, age, order, blocked, kept>> /\ pc = "clean" /\ pc' = "sweep"
        /\ todo' \cap kept = {}
    BY <1>6 DEF CleanRead
  <2>2. QED
    BY <2>1 DEF OwnKept, OwnInTime, IntentsOn, Expired, Live
<1>7. ASSUME NEW e \in Intent, CleanOne(e) PROVE OwnKept'
  <2>1. CASE EndCycle
    BY <1>1, <2>1 DEF EndCycle
  <2>2. CASE ~EndCycle
    <3>1. UNCHANGED <<intents, age, pc, blocked, kept>> /\ todo' = todo \ {e} /\ Cancel(e)
          /\ pc = "sweep"
      BY <1>7, <2>2 DEF CleanOne
    <3>2. \A d \in Intent : Live(d)' => Live(d)
      BY <3>1, CancelLeaves DEF Live
    <3>3. QED
      BY <3>1, <3>2 DEF OwnKept, OwnInTime, IntentsOn, Expired
  <2>3. QED
    BY <2>1, <2>2
<1>8. CASE CleanDone \/ SessionOff \/ ReadPositions \/ ReadPending \/ LedgerDone \/ ReadFails
  BY <1>1, <1>8 DEF CleanDone, SessionOff, ReadPositions, ReadPending, LedgerDone, ReadFails,
                    EndCycle
<1>9. CASE \E d \in Intent : ReturnBudget(d)
  BY <1>1, <1>9 DEF ReturnBudget
<1>10. CASE \E closing \in SUBSET seenPos : ManagePositions(closing)
  BY <1>1, <1>10 DEF ManagePositions
<1>11. CASE Housekeeping
  BY <1>3, <1>4, <1>5, <1>6, <1>7, <1>8, <1>9, <1>10, <1>11 DEF Housekeeping
<1>12. CASE Entry
  <2>1. pc' \notin {"reconcile", "clean", "sweep"}
    BY <1>12 DEF Entry, Submit, RejectOrder, LoseReply, ReleaseFailed, PlaceOrder, RecordIntent,
                 ConfirmOrder, CountScaleIn, FinishCycle, EndCycle
  <2>2. QED
    BY <2>1, <1>1
<1>13. QED
  BY <1>2, <1>11, <1>12, OwnKeptEnvironment DEF EntryNext

(* Only the two loops cancel orders. *)
LEMMA WhoCancels ==
  ASSUME CycleTypeOK, [EntryNext]_entryVars, NEW d \in Intent, Cancelled(d)
  PROVE  \/ ReconcileOne(d) /\ ~Owned(d)
         \/ CleanOne(d) /\ pc = "sweep" /\ d \in todo
<1> USE DEF locals, files
<1>1. Live(d) /\ ~Live(d)' /\ order'[d] # order[d] /\ todo' # todo
  BY CancelLeaves DEF Cancelled, Cancel, Live
<1>2. ~(UNCHANGED order) /\ ~(UNCHANGED todo)
  BY <1>1
<1>3. ~(UNCHANGED entryVars)
  BY <1>2 DEF entryVars
<1>4. ~Environment
  BY <1>2 DEF Environment, Fill, CancelOutside, Elapse, ClosePosition, Damage, Repair,
              ChangeBudget, Crash
<1>5. ~Entry
  BY <1>2 DEF Entry, Submit, RejectOrder, LoseReply, ReleaseFailed, PlaceOrder, RecordIntent,
              ConfirmOrder, CountScaleIn, FinishCycle
<1>6. PICK e \in Intent : ReconcileOne(e) \/ CleanOne(e)
  <2>1. ~(\E e \in Intent : ReturnBudget(e))
    BY <1>2 DEF ReturnBudget
  <2>2. ~(\E closing \in SUBSET seenPos : ManagePositions(closing))
    BY <1>2 DEF ManagePositions
  <2>3. ~StartCycle /\ ~ReconcileDone /\ ~CleanRead /\ ~CleanDone /\ ~SessionOff
        /\ ~ReadPositions /\ ~ReadPending /\ ~LedgerDone /\ ~ReadFails
    BY <1>2 DEF StartCycle, ReconcileDone, CleanRead, CleanDone, SessionOff, ReadPositions,
                ReadPending, LedgerDone, ReadFails
  <2>4. QED
    BY <1>3, <1>4, <1>5, <2>1, <2>2, <2>3 DEF EntryNext, Housekeeping
<1>7. CASE ReconcileOne(e)
  <2>1. ~Owned(e) /\ Cancel(e)
    BY <1>2, <1>7 DEF ReconcileOne, CancelFails
  <2>2. e = d
    BY <1>1, <2>1, CancelLeaves
  <2>3. QED
    BY <1>7, <2>1, <2>2
<1>8. CASE CleanOne(e)
  <2>1. Cancel(e) /\ pc = "sweep" /\ e \in todo
    BY <1>2, <1>8 DEF CleanOne, CancelFails
  <2>2. e = d
    BY <1>1, <2>1, CancelLeaves
  <2>3. QED
    BY <1>8, <2>1, <2>2
<1>9. QED
  BY <1>6, <1>7, <1>8

(* A cycle that can attribute the open orders cancels none whose own intent is
   recorded, in time and the newest of its instrument: reconcile_pending_orders
   keeps it, and clean_stale_open_orders, which reads the orders again, spares
   what was kept however old it is (order_lifecycle.py:153-156). *)
THEOREM OwnIntentSurvivesCorrect == EntrySpec => OwnIntentSurvives
<1>1. EntryInit => OwnKept
  BY DEF EntryInit, OwnKept
<1>2. EntryTypeOK /\ OwnKept /\ [EntryNext]_entryVars => OwnKept'
  BY OwnKeptStep DEF EntryTypeOK
<1>3. EntryTypeOK /\ OwnKept /\ [EntryNext]_entryVars
        => [\A d \in Intent :
              /\ d \in intents /\ ~Expired(d) /\ ~blocked
              /\ \A e \in IntentsOn(InstOf[d]) : e <= d
              => ~Cancelled(d)]_entryVars
  <2>1. SUFFICES ASSUME EntryTypeOK, OwnKept, [EntryNext]_entryVars,
                        NEW d \in Intent, OwnInTime(d), ~blocked, Cancelled(d)
                 PROVE  FALSE
    BY DEF OwnInTime
  <2>2. Owned(d) /\ Live(d)
    BY <2>1, OwnIsOwned DEF EntryTypeOK, Cancelled, Cancel
  <2>3. pc = "sweep" /\ d \in todo
    BY <2>1, <2>2, WhoCancels DEF EntryTypeOK
  <2>4. QED
    BY <2>1, <2>2, <2>3 DEF OwnKept
<1>4. QED
  BY <1>1, <1>2, <1>3, EntryTypeCorrect, PTL DEF EntrySpec, OwnIntentSurvives

-----------------------------------------------------------------------------
(* ScaleInsBounded needs more of the past: no two known orders wait on one   *)
(* instrument, an order about to be sent finds none there, and the tracker  *)
(* of a position is never behind the orders it stands for, except by the    *)
(* scale-in that is being sent.                                             *)

LiveOnce ==
  \A d, e \in Intent :
    Live(d) /\ Known(d) /\ Live(e) /\ Known(e) /\ InstOf[d] = InstOf[e] => d = e

(* What waits at the exchange was read, or was sent by this cycle's scan. *)
LiveSeen ==
  pc \in BothRead =>
    \A d \in Intent : Live(d) /\ Known(d) => d \in seenOrders \/ InstOf[d] \in scanned

NoneWaiting ==
  pc = "submit" =>
    \A d \in cur : \A e \in Intent : Live(e) /\ Known(e) => InstOf[e] # InstOf[d]

SeenOnce ==
  pc \in {"ledger", "manage"} =>
    \A d, e \in seenOrders : Known(d) /\ Known(e) /\ InstOf[d] = InstOf[e] => d = e

CurScanned == \A d \in cur : InstOf[d] \in scanned

WaitingInv == LiveOnce /\ LiveSeen /\ NoneWaiting /\ SeenOnce /\ CurScanned

(* Only sending an order makes one wait. *)
LEMMA OrderMoves ==
  ASSUME CycleTypeOK, [EntryNext]_entryVars
  PROVE  /\ lost \subseteq lost' /\ raced \subseteq raced'
         /\ \/ \A d \in Intent : Live(d)' => Live(d)
            \/ \E d \in Intent : PlaceOrder(d) \/ LoseReply(d)
<1> USE DEF history
<1>1. lost \subseteq lost' /\ raced \subseteq raced'
  <2>1. CASE Environment
    BY <2>1, EnvironmentSteady DEF Steady, ExposesOnly
  <2>2. CASE Housekeeping
    BY <2>2 DEF Housekeeping, StartCycle, ReconcileDone, CleanRead, CleanDone, SessionOff,
                ReadPositions, ReadPending, LedgerDone, ReadFails, ReconcileOne, CleanOne,
                ReturnBudget, ManagePositions
  <2>3. CASE Entry
    BY <2>3 DEF Entry, Submit, RejectOrder, LoseReply, ReleaseFailed, PlaceOrder, RecordIntent,
                ConfirmOrder, CountScaleIn, FinishCycle
  <2>4. CASE UNCHANGED entryVars
    BY <2>4 DEF entryVars
  <2>5. QED
    BY <2>1, <2>2, <2>3, <2>4 DEF EntryNext
<1>2. ASSUME UNCHANGED order PROVE \A d \in Intent : Live(d)' => Live(d)
  BY <1>2 DEF Live
<1>3. ASSUME NEW e \in Intent, Fill(e) \/ CancelOutside(e)
      PROVE  \A d \in Intent : Live(d)' => Live(d)
  BY <1>3, ExchangeMoves DEF Live
<1>4. ASSUME NEW ps, order' = AfterClose(order, ps) PROVE \A d \in Intent : Live(d)' => Live(d)
  BY <1>4 DEF AfterClose, Live
<1>5. ASSUME NEW e \in Intent, Cancel(e) PROVE \A d \in Intent : Live(d)' => Live(d)
  BY <1>5, CancelLeaves DEF Live
<1>6. CASE Environment
  BY <1>1, <1>2, <1>3, <1>4, <1>6
     DEF Environment, ClosePosition, Elapse, Damage, Repair, ChangeBudget, Crash
<1>7. CASE Housekeeping
  <2>1. ASSUME NEW e \in Intent, ReconcileOne(e) \/ CleanOne(e) \/ ReturnBudget(e)
        PROVE  \A d \in Intent : Live(d)' => Live(d)
    <3>1. Cancel(e) \/ UNCHANGED order
      BY <2>1 DEF ReconcileOne, CleanOne, CancelFails, ReturnBudget
    <3>2. QED
      BY <1>2, <1>5, <3>1
  <2>2. ASSUME NEW closing, ManagePositions(closing)
        PROVE  \A d \in Intent : Live(d)' => Live(d)
    <3>1. order' = AfterClose(order, closing)
      BY <2>2 DEF ManagePositions
    <3>2. QED
      BY <1>4, <3>1
  <2>3. CASE \/ StartCycle \/ ReconcileDone \/ CleanRead \/ CleanDone \/ SessionOff
             \/ ReadPositions \/ ReadPending \/ LedgerDone \/ ReadFails
    <3>1. UNCHANGED order
      BY <2>3 DEF StartCycle, ReconcileDone, CleanRead, CleanDone, SessionOff,
                  ReadPositions, ReadPending, LedgerDone, ReadFails
    <3>2. QED
      BY <1>1, <1>2, <3>1
  <2>4. QED
    BY <1>1, <1>7, <2>1, <2>2, <2>3 DEF Housekeeping
<1>8. CASE Entry
  <2>1. ASSUME NEW d \in Intent,
               \/ Submit(d) \/ RejectOrder(d) \/ ReleaseFailed(d) \/ RecordIntent(d)
               \/ ConfirmOrder(d) \/ CountScaleIn(d)
        PROVE  UNCHANGED order
    BY <2>1 DEF Submit, RejectOrder, ReleaseFailed, RecordIntent, ConfirmOrder, CountScaleIn
  <2>2. FinishCycle => UNCHANGED order
    BY DEF FinishCycle
  <2>3. QED
    BY <1>1, <1>2, <1>8, <2>1, <2>2 DEF Entry
<1>9. CASE UNCHANGED entryVars
  BY <1>1, <1>2, <1>9 DEF entryVars
<1>10. QED
  BY <1>1, <1>6, <1>7, <1>8, <1>9 DEF EntryNext

(* One order waits less, or is known less; the rest is looked at per step. *)
LEMMA LiveOnceKept ==
  ASSUME LiveOnce, lost \subseteq lost', raced \subseteq raced',
         \A d \in Intent : Live(d)' => Live(d)
  PROVE  LiveOnce' /\ \A d \in Intent : Live(d)' /\ Known(d)' => Live(d) /\ Known(d)
BY KnownShrinks DEF LiveOnce

LEMMA WaitingSteady ==
  ASSUME WaitingInv, Steady, \A d \in Intent : Live(d)' => Live(d)
  PROVE  WaitingInv'
<1>1. LiveOnce' /\ \A d \in Intent : Live(d)' /\ Known(d)' => Live(d) /\ Known(d)
  BY LiveOnceKept DEF WaitingInv, Steady, ExposesOnly
<1>2. \A d : Known(d)' => Known(d)
  BY KnownShrinks DEF Steady, ExposesOnly
<1>3. CASE Ended
  BY <1>1, <1>3 DEF Ended, WaitingInv, LiveSeen, NoneWaiting, SeenOnce, CurScanned, BothRead
<1>4. CASE GoesOn
  <2>1. LiveSeen' /\ NoneWaiting'
    BY <1>1, <1>4 DEF GoesOn, WaitingInv, LiveSeen, NoneWaiting
  <2>2. SeenOnce' /\ CurScanned'
    BY <1>2, <1>4 DEF GoesOn, WaitingInv, SeenOnce, CurScanned
  <2>3. QED
    BY <1>1, <2>1, <2>2 DEF WaitingInv
<1>5. QED
  BY <1>3, <1>4 DEF Steady

LEMMA ReadsWaiting ==
  ASSUME CycleTypeOK, WaitingInv, ReadPositions \/ ReadPending
  PROVE  WaitingInv'
<1> USE DEF locals, seen, history
<1>1. UNCHANGED <<order, lost, raced>>
  BY DEF ReadPositions, ReadPending
<1>2. LiveOnce'
  BY <1>1 DEF WaitingInv, LiveOnce, Live, Known
<1>3. CASE ReadPositions
  <2>1. \/ pc' = "idle" /\ cur' = {}
        \/ pc' = "pending" /\ UNCHANGED <<cur, scanned>>
    BY <1>3 DEF ReadPositions, EndCycle
  <2>2. QED
    BY <1>2, <2>1 DEF WaitingInv, LiveSeen, NoneWaiting, SeenOnce, CurScanned, BothRead
<1>4. CASE ReadPending
  <2>1. pc' = "ledger" /\ seenOrders' = OpenOrders /\ UNCHANGED <<cur, scanned>>
    BY <1>4 DEF ReadPending
  <2>2. LiveSeen' /\ SeenOnce'
    BY <1>1, <2>1 DEF WaitingInv, LiveOnce, LiveSeen, SeenOnce, OpenOrders, Live, Known
  <2>3. QED
    BY <1>2, <2>1, <2>2 DEF WaitingInv, NoneWaiting, CurScanned
<1>5. QED
  BY <1>3, <1>4

(* The entry scan passes an instrument once, and passes by those with an order
   it has read. *)
LEMMA SubmitWaiting ==
  ASSUME CycleTypeOK, WaitingInv, NEW d \in Intent, Submit(d)
  PROVE  WaitingInv'
<1> USE DEF locals, seen, history
<1>1. /\ UNCHANGED <<order, lost, raced, seenOrders>> /\ scanned' = scanned \cup {InstOf[d]}
      /\ pc = "entries" /\ cur = {}
      /\ (pc' = "submit" /\ cur' = {d}) \/ UNCHANGED <<pc, cur>>
      /\ InstOf[d] \notin scanned /\ InstOf[d] \notin Busy
  BY DEF Submit, MayEnter
<1>2. \A e : (Live(e)' <=> Live(e)) /\ (Known(e)' <=> Known(e))
  BY <1>1 DEF Live, Known
<1>3. LiveOnce'
  BY <1>2 DEF WaitingInv, LiveOnce
<1>4. \A e \in Intent : Live(e) /\ Known(e) => e \in seenOrders \/ InstOf[e] \in scanned
  BY <1>1 DEF WaitingInv, LiveSeen, BothRead
<1>5. LiveSeen'
  BY <1>1, <1>2, <1>4 DEF LiveSeen
<1>6. NoneWaiting'
  <2>1. \A e \in Intent : Live(e) /\ Known(e) => InstOf[e] # InstOf[d]
    BY <1>1, <1>4 DEF Busy
  <2>2. QED
    BY <1>1, <1>2, <2>1 DEF NoneWaiting
<1>7. SeenOnce' /\ CurScanned'
  BY <1>1 DEF SeenOnce, CurScanned
<1>8. QED
  BY <1>3, <1>5, <1>6, <1>7 DEF WaitingInv

LEMMA EntryStepWaiting ==
  ASSUME CycleTypeOK, WaitingInv, NEW d \in Intent,
         ReleaseFailed(d) \/ ConfirmOrder(d) \/ CountScaleIn(d)
  PROVE  WaitingInv'
<1> USE DEF locals, seen, history
<1>1. /\ UNCHANGED <<order, lost, raced, scanned>> /\ seenOrders \subseteq seenOrders'
      /\ pc \in BothRead /\ pc' \in {"entries", "count"} /\ cur' \subseteq cur
  BY DEF ReleaseFailed, ConfirmOrder, CountScaleIn, BothRead
<1>2. \A e : (Live(e)' <=> Live(e)) /\ (Known(e)' <=> Known(e))
  BY <1>1 DEF Live, Known
<1>3. LiveOnce' /\ LiveSeen'
  BY <1>1, <1>2 DEF WaitingInv, LiveOnce, LiveSeen
<1>4. NoneWaiting' /\ SeenOnce' /\ CurScanned'
  BY <1>1 DEF WaitingInv, NoneWaiting, SeenOnce, CurScanned
<1>5. QED
  BY <1>3, <1>4 DEF WaitingInv

LEMMA SendWaiting ==
  ASSUME CycleTypeOK, OneAtATime, WaitingInv, NEW d \in Intent, PlaceOrder(d) \/ LoseReply(d)
  PROVE  WaitingInv'
<1> USE DEF locals, seen, history
<1>1. /\ UNCHANGED <<raced, seenOrders, scanned, cur>> /\ lost \subseteq lost'
      /\ pc = "submit" /\ pc' \in {"record", "release"} /\ d \in cur
  BY DEF PlaceOrder, LoseReply
<1>2. \A e \in Intent : Live(e)' => Live(e) \/ e = d
  BY DEF PlaceOrder, LoseReply, CycleTypeOK, Live
<1>3. \A e : Known(e)' => Known(e)
  BY <1>1, KnownShrinks
<1>4. \A e \in Intent : Live(e) /\ Known(e) => InstOf[e] # InstOf[d]
  BY <1>1 DEF WaitingInv, NoneWaiting
<1>5. LiveOnce'
  BY <1>2, <1>3, <1>4 DEF WaitingInv, LiveOnce
<1>6. LiveSeen'
  BY <1>1, <1>2, <1>3 DEF WaitingInv, LiveSeen, CurScanned, BothRead
<1>7. NoneWaiting' /\ SeenOnce' /\ CurScanned'
  BY <1>1 DEF WaitingInv, NoneWaiting, SeenOnce, CurScanned
<1>8. QED
  BY <1>5, <1>6, <1>7 DEF WaitingInv

LEMMA FinishSteady ==
  ASSUME FinishCycle
  PROVE  Steady
BY DEF FinishCycle, EndCycle, Steady, Ended, ExposesOnly, history, Exposed, Live, InPosition

LEMMA WaitingStep ==
  ASSUME CycleTypeOK, OneAtATime, WaitingInv, [EntryNext]_entryVars
  PROVE  WaitingInv'
<1>1. CASE \E d \in Intent : PlaceOrder(d) \/ LoseReply(d)
  BY <1>1, SendWaiting
<1>2. CASE \A d \in Intent : Live(d)' => Live(d)
  <2>1. CASE Steady
    BY <1>2, <2>1, WaitingSteady
  <2>2. CASE Environment
    BY <2>1, <2>2, EnvironmentSteady
  <2>3. CASE Housekeeping
    BY <2>1, <2>3, HousekeepingSteady, ReadsWaiting
  <2>4. CASE Entry
    BY <1>1, <2>1, <2>4, EntrySteady, FinishSteady, SubmitWaiting, EntryStepWaiting DEF Entry
  <2>5. CASE UNCHANGED entryVars
    <3>1. UNCHANGED <<order, pc, seenPos, seenOrders, scanned, cur, lost, raced>>
      BY <2>5 DEF entryVars, locals, seen, history
    <3>2. Steady
      BY <3>1 DEF Steady, GoesOn, ExposesOnly, Exposed, Live, InPosition, BothRead, Sent
    <3>3. QED
      BY <2>1, <3>2
  <2>6. QED
    BY <2>2, <2>3, <2>4, <2>5 DEF EntryNext
<1>3. QED
  BY <1>1, <1>2, OrderMoves

(* The scale-in being sent is not in the tracker yet. *)
Unsaved == {d \in Sending : PairOf(d) \in seenPos}

Counted(p) ==
  {d \in Intent \ Unsaved : Exposed(d) /\ Known(d) /\ d \notin uncounted /\ PairOf(d) = p}

(* A position without a tracker entry is one the trader has entered once. *)
Allowed(p) == IF tracker[p] < 0 THEN 1 ELSE tracker[p] + 1

ScaleCount == \A p \in Pair : Cardinality(Counted(p)) <= Allowed(p)

TrackerBounded == \A p \in Pair : tracker[p] <= MaxScaleIn

RoomToScale ==
  pc \in {"submit"} \cup Sent =>
    \A d \in cur : PairOf(d) \in seenPos =>
      0 <= tracker[PairOf(d)] /\ tracker[PairOf(d)] < MaxScaleIn

CountInv == ScaleCount /\ TrackerBounded /\ RoomToScale

LEMMA CountedFinite ==
  ASSUME NEW p
  PROVE  IsFiniteSet(Counted(p)) /\ Cardinality(Counted(p)) \in Nat
<1>1. IsFiniteSet(Counted(p))
  BY ReservationAssumption, FS_Subset DEF Counted
<1>2. QED
  BY <1>1, FS_CardinalityType

LEMMA CountedFiniteNext ==
  ASSUME NEW p
  PROVE  IsFiniteSet(Counted(p)') /\ Cardinality(Counted(p)') \in Nat
<1>1. IsFiniteSet(Counted(p)')
  BY ReservationAssumption, FS_Subset DEF Counted
<1>2. QED
  BY <1>1, FS_CardinalityType

LEMMA AllowedType ==
  ASSUME CycleTypeOK, NEW p \in Pair
  PROVE  Allowed(p) \in Nat \ {0}
BY DEF CycleTypeOK, Allowed

(* A position is counted at most as often as before. *)
LEMMA CountsNoMore ==
  ASSUME NEW p, NEW n \in Nat, Cardinality(Counted(p)) <= n, Counted(p)' \subseteq Counted(p)
  PROVE  Cardinality(Counted(p)') <= n
<1> DEFINE a == Cardinality(Counted(p))
           b == Cardinality(Counted(p)')
<1>1. a \in Nat /\ b \in Nat /\ b <= a /\ a <= n
  BY CountedFinite, CountedFiniteNext, SizeOfSubset
<1> HIDE DEF a, b
<1>2. b <= n
  BY <1>1
<1>3. QED
  BY <1>2 DEF b

LEMMA CountsOnce ==
  ASSUME NEW p, \A d, e \in Counted(p)' : d = e, NEW n \in Nat \ {0}
  PROVE  Cardinality(Counted(p)') <= n
<1>1. Cardinality(Counted(p)') <= 1
  BY OneAtMost
<1>2. QED
  BY <1>1, CountedFiniteNext

(* Who touches the tracker, and what the steps that do not leave uncounted. *)
LEMMA TrackerMoves ==
  ASSUME CycleTypeOK, [EntryNext]_entryVars
  PROVE  \/ UNCHANGED tracker
         \/ \E closing \in SUBSET seenPos : ManagePositions(closing)
         \/ \E d \in Intent : CountScaleIn(d)
<1> USE DEF files
<1>1. CASE Environment
  BY <1>1 DEF Environment, Fill, CancelOutside, Elapse, ClosePosition, Damage, Repair,
              ChangeBudget, Crash
<1>2. CASE Housekeeping
  <2>1. ASSUME NEW e \in Intent, ReconcileOne(e) \/ CleanOne(e) \/ ReturnBudget(e)
        PROVE  UNCHANGED tracker
    BY <2>1 DEF ReconcileOne, CleanOne, ReturnBudget
  <2>2. CASE \/ StartCycle \/ ReconcileDone \/ CleanRead \/ CleanDone \/ SessionOff
             \/ ReadPositions \/ ReadPending \/ LedgerDone \/ ReadFails
    BY <2>2 DEF StartCycle, ReconcileDone, CleanRead, CleanDone, SessionOff, ReadPositions,
                ReadPending, LedgerDone, ReadFails
  <2>3. QED
    BY <1>2, <2>1, <2>2 DEF Housekeeping
<1>3. CASE Entry
  <2>1. ASSUME NEW d \in Intent,
               \/ Submit(d) \/ RejectOrder(d) \/ LoseReply(d) \/ ReleaseFailed(d)
               \/ PlaceOrder(d) \/ RecordIntent(d) \/ ConfirmOrder(d)
        PROVE  UNCHANGED tracker
    BY <2>1 DEF Submit, RejectOrder, LoseReply, ReleaseFailed, PlaceOrder, RecordIntent,
                ConfirmOrder
  <2>2. FinishCycle => UNCHANGED tracker
    BY DEF FinishCycle
  <2>3. QED
    BY <1>3, <2>1, <2>2 DEF Entry
<1>4. CASE UNCHANGED entryVars
  BY <1>4 DEF entryVars
<1>5. QED
  BY <1>1, <1>2, <1>3, <1>4 DEF EntryNext

(* While an order is sent only the environment and the entry's own steps move. *)
LEMMA WhileSent ==
  ASSUME CycleTypeOK, [EntryNext]_entryVars, pc \in Sent
  PROVE  \/ UNCHANGED <<pc, cur, seenPos, uncounted>>
         \/ Crash
         \/ \E d \in Intent : RecordIntent(d) \/ ConfirmOrder(d) \/ CountScaleIn(d)
<1> USE DEF locals, seen, history
<1>1. pc \in {"record", "confirm", "count"}
  BY DEF Sent
<1>2. CASE Environment
  BY <1>2 DEF Environment, Fill, CancelOutside, Elapse, ClosePosition, Damage, Repair,
              ChangeBudget
<1>3. ~Housekeeping
  BY <1>1 DEF Housekeeping, StartCycle, ReconcileDone, CleanRead, CleanDone, SessionOff,
              ReadPositions, ReadPending, LedgerDone, ReadFails, ReconcileOne, CleanOne,
              ReturnBudget, ManagePositions
<1>4. CASE Entry
  BY <1>1, <1>4 DEF Entry, Submit, RejectOrder, LoseReply, ReleaseFailed, PlaceOrder, FinishCycle
<1>5. CASE UNCHANGED entryVars
  BY <1>5 DEF entryVars
<1>6. QED
  BY <1>2, <1>3, <1>4, <1>5 DEF EntryNext

LEMMA UncountedGrows ==
  ASSUME CycleTypeOK, [EntryNext]_entryVars
  PROVE  uncounted \subseteq uncounted'
<1> USE DEF history
<1>1. CASE Environment
  BY <1>1 DEF Environment, Fill, CancelOutside, Elapse, ClosePosition, Damage, Repair,
              ChangeBudget, Crash
<1>2. CASE Housekeeping
  BY <1>2 DEF Housekeeping, StartCycle, ReconcileDone, CleanRead, CleanDone, SessionOff,
              ReadPositions, ReadPending, LedgerDone, ReadFails, ReconcileOne, CleanOne,
              ReturnBudget, ManagePositions
<1>3. CASE Entry
  BY <1>3 DEF Entry, Submit, RejectOrder, LoseReply, ReleaseFailed, PlaceOrder, RecordIntent,
              ConfirmOrder, CountScaleIn, FinishCycle
<1>4. CASE UNCHANGED entryVars
  BY <1>4 DEF entryVars
<1>5. QED
  BY <1>1, <1>2, <1>3, <1>4 DEF EntryNext

(* The scale-in being sent stays set aside until it is counted. *)
LEMMA UnsavedKept ==
  ASSUME CycleTypeOK, OneAtATime, [EntryNext]_entryVars, \A d \in Intent : ~CountScaleIn(d)
  PROVE  Unsaved \subseteq Unsaved' \cup uncounted'
<1> USE DEF locals, seen, history
<1>1. CASE pc \notin Sent
  BY <1>1 DEF Unsaved, Sending
<1>2. CASE pc \in Sent
  <2>1. CASE UNCHANGED <<pc, cur, seenPos, uncounted>>
    BY <2>1 DEF Unsaved, Sending, PairOf
  <2>2. CASE Crash
    BY <2>2, <1>2 DEF Crash, Unsaved, Sending, Sent
  <2>3. ASSUME NEW d \in Intent, RecordIntent(d) PROVE Unsaved \subseteq Unsaved'
    BY <2>3 DEF RecordIntent, Unsaved, Sending, Sent, PairOf
  <2>4. ASSUME NEW d \in Intent, ConfirmOrder(d) PROVE Unsaved \subseteq Unsaved'
    <3>1. cur = {d} /\ seenPos' = seenPos
      BY <2>4 DEF ConfirmOrder, OneAtATime
    <3>2. \/ PairOf(d) \in seenPos /\ pc' = "count" /\ cur' = cur
          \/ PairOf(d) \notin seenPos
      BY <2>4 DEF ConfirmOrder
    <3>3. QED
      BY <3>1, <3>2 DEF Unsaved, Sending, Sent, PairOf
  <2>5. QED
    BY <1>2, <2>1, <2>2, <2>3, <2>4, WhileSent
<1>3. QED
  BY <1>1, <1>2

LEMMA SentRoom ==
  ASSUME CycleTypeOK, [EntryNext]_entryVars, pc' \in {"submit"} \cup Sent
  PROVE  \/ pc \in {"submit"} \cup Sent /\ UNCHANGED <<cur, seenPos>>
         \/ \E d \in Intent : Submit(d)
<1> USE DEF locals, seen, history
<1>1. pc' \in {"submit", "record", "confirm", "count"}
  BY DEF Sent
<1>2. CASE Environment
  BY <1>1, <1>2 DEF Environment, Fill, CancelOutside, Elapse, ClosePosition, Damage, Repair,
                    ChangeBudget, Crash, EndCycle
<1>3. ~Housekeeping
  BY <1>1 DEF Housekeeping, StartCycle, Unattributed, ReadOpenOrders, ReconcileDone, CleanRead,
              CleanDone, SessionOff, ReadPositions, ReadPending, LedgerDone, ReadFails,
              ReconcileOne, CleanOne, ReturnBudget, ManagePositions, EndCycle
<1>4. CASE Entry
  BY <1>1, <1>4 DEF Sent, Entry, RejectOrder, LoseReply, ReleaseFailed, PlaceOrder, RecordIntent,
                    ConfirmOrder, CountScaleIn, FinishCycle, EndCycle
<1>5. CASE UNCHANGED entryVars
  BY <1>1, <1>5 DEF entryVars, Sent
<1>6. QED
  BY <1>2, <1>3, <1>4, <1>5 DEF EntryNext, Sent

(* The tracker is written only where no order is being sent; and a scale-in is
   sent only if the tracker left room for it. *)
LEMMA RoomStep ==
  ASSUME CycleTypeOK, CountInv, [EntryNext]_entryVars
  PROVE  RoomToScale'
<1>1. CASE pc' \notin {"submit"} \cup Sent
  BY <1>1 DEF RoomToScale
<1>2. CASE pc' \in {"submit"} \cup Sent
  <2>1. UNCHANGED tracker
    <3>1. ASSUME NEW c, ManagePositions(c) PROVE FALSE
      BY <1>2, <3>1 DEF ManagePositions, Sent
    <3>2. ASSUME NEW d, CountScaleIn(d) PROVE FALSE
      BY <1>2, <3>2 DEF CountScaleIn, Sent
    <3>3. QED
      BY <3>1, <3>2, TrackerMoves
  <2>2. CASE pc \in {"submit"} \cup Sent /\ UNCHANGED <<cur, seenPos>>
    BY <2>1, <2>2 DEF CountInv, RoomToScale, PairOf
  <2>3. ASSUME NEW d \in Intent, Submit(d) PROVE RoomToScale'
    <3>1. UNCHANGED seenPos /\ ((pc' = "submit" /\ cur' = {d}) \/ pc' = "entries")
      BY <2>3 DEF Submit, seen
    <3>2. PairOf(d) \in seenPos => 0 <= tracker[PairOf(d)] /\ tracker[PairOf(d)] < MaxScaleIn
      <4>1. NewEntry(d) => PairOf(d) \notin seenPos
        BY EntryAssumption DEF NewEntry, PairOf
      <4>2. PairOf(d) \in Pair /\ tracker[PairOf(d)] \in Int
        BY KeyOfDecision DEF CycleTypeOK
      <4>3. QED
        BY <2>3, <4>1, <4>2 DEF Submit, MayEnter, ScaleIn, Tracked
    <3>3. QED
      BY <1>2, <2>1, <3>1, <3>2 DEF RoomToScale, PairOf, Sent
  <2>4. QED
    BY <1>2, <2>2, <2>3, SentRoom
<1>3. QED
  BY <1>1, <1>2

(* A new entry goes to an instrument without any known exposure; a scale-in is
   set aside until it is counted. *)
LEMMA PlaceOrderCounts ==
  ASSUME CycleTypeOK, SeenInv, CountInv, NEW d \in Intent, PlaceOrder(d)
  PROVE  ScaleCount'
<1>1. UNCHANGED <<tracker, uncounted>>
  BY DEF PlaceOrder, files, history
<1>2. Unsaved = {} /\ Unsaved' = {e \in {d} : PairOf(e) \in seenPos}
  BY PlaceOrderShape DEF Unsaved, PairOf
<1>3. ASSUME NEW p \in Pair PROVE Cardinality(Counted(p)') <= Allowed(p)
  <2>1. Cardinality(Counted(p)) <= Allowed(p) /\ Allowed(p) \in Nat \ {0}
    BY AllowedType DEF CountInv, ScaleCount
  <2>2. Counted(p)' \subseteq Counted(p) \cup ({d} \ Unsaved')
    BY <1>1, <1>2, PlaceOrderShape DEF Counted, Known, PairOf
  <2>3. CASE PairOf(d) \in seenPos \/ PairOf(d) # p
    <3>1. Counted(p)' \subseteq Counted(p)
      BY <1>2, <2>2, <2>3 DEF Counted, PairOf
    <3>2. QED
      BY <2>1, <3>1, CountsNoMore
  <2>4. CASE PairOf(d) \notin seenPos /\ PairOf(d) = p
    <3>1. InstOf[d] \notin Busy /\ NewEntry(d)
      BY <2>4, PlaceOrderShape DEF SeenInv, MaySend
    <3>2. ASSUME NEW e \in Counted(p) PROVE FALSE
      <4>1. e \in Intent /\ Exposed(e) /\ Known(e) /\ PairOf(e) = PairOf(d)
        BY <2>4, <3>2 DEF Counted
      <4>2. e \in seenOrders
        BY <2>4, <4>1, PlaceOrderShape DEF SeenInv, NothingUnseen, BothRead
      <4>3. InstOf[e] = InstOf[d]
        BY <4>1 DEF PairOf
      <4>4. QED
        BY <3>1, <4>2, <4>3 DEF Busy
    <3>3. \A e, f \in Counted(p)' : e = f
      BY <2>2, <3>2
    <3>4. QED
      BY <2>1, <3>3, CountsOnce
  <2>5. QED
    BY <2>3, <2>4
<1>4. QED
  BY <1>1, <1>3 DEF ScaleCount, Allowed

LEMMA CountScaleInCounts ==
  ASSUME CycleTypeOK, SeenInv, CountInv, NEW d \in Intent, CountScaleIn(d)
  PROVE  ScaleCount' /\ TrackerBounded'
<1>1. /\ UNCHANGED <<order, lost, raced, seenPos>> /\ d \in cur /\ pc = "count"
      /\ Unsaved' = {}
  BY DEF CountScaleIn, seen, Unsaved, Sending, Sent
<1>2. cur = {d} /\ PairOf(d) \in seenPos
  BY <1>1 DEF SeenInv, OneAtATime, CountsScaleIns
<1>3. Unsaved = {d}
  BY <1>1, <1>2 DEF Unsaved, Sending, Sent
<1>4. 0 <= tracker[PairOf(d)] /\ tracker[PairOf(d)] < MaxScaleIn
  BY <1>1, <1>2 DEF CountInv, RoomToScale, Sent
<1>5. PairOf(d) \in Pair /\ tracker \in [Pair -> Int] /\ MaxScaleIn \in Nat
  BY KeyOfDecision, EntryAssumption DEF CycleTypeOK
<1>6. \A e \in Intent : Exposed(e)' /\ Known(e)' => Exposed(e) /\ Known(e)
  BY <1>1 DEF Exposed, Live, InPosition, Known
<1>7. CASE tracker' = tracker /\ uncounted' = uncounted \cup {d}
  <2>1. ASSUME NEW p \in Pair PROVE Cardinality(Counted(p)') <= Allowed(p)
    <3>1. Counted(p)' \subseteq Counted(p)
      BY <1>1, <1>3, <1>6, <1>7 DEF Counted, PairOf
    <3>2. Cardinality(Counted(p)) <= Allowed(p) /\ Allowed(p) \in Nat
      BY AllowedType DEF CountInv, ScaleCount
    <3>3. QED
      BY <3>1, <3>2, CountsNoMore
  <2>2. QED
    BY <1>7, <2>1 DEF ScaleCount, Allowed, CountInv, TrackerBounded
<1>8. CASE tracker' = [tracker EXCEPT ![PairOf(d)] = @ + 1] /\ uncounted' = uncounted
  <2>1. ASSUME NEW p \in Pair PROVE Cardinality(Counted(p)') <= Allowed(p)'
    <3>1. Cardinality(Counted(p)) <= Allowed(p) /\ Allowed(p) \in Nat
      BY AllowedType DEF CountInv, ScaleCount
    <3>2. Counted(p)' \subseteq Counted(p) \cup {d}
      BY <1>1, <1>3, <1>6, <1>8 DEF Counted, PairOf
    <3>3. CASE p # PairOf(d)
      <4>1. Allowed(p)' = Allowed(p)
        BY <1>5, <1>8, <3>3 DEF Allowed
      <4>2. Counted(p)' \subseteq Counted(p)
        BY <3>2, <3>3 DEF Counted, PairOf
      <4>3. QED
        BY <3>1, <4>1, <4>2, CountsNoMore
    <3>4. CASE p = PairOf(d)
      <4>1. Allowed(p)' = Allowed(p) + 1
        BY <1>4, <1>5, <1>8, <3>4 DEF Allowed
      <4> DEFINE a == Cardinality(Counted(p))
                 b == Cardinality(Counted(p)')
                 D == Counted(p) \cup {d}
      <4>2. IsFiniteSet(D) /\ (Cardinality(D) = a \/ Cardinality(D) = a + 1)
        BY CountedFinite, FS_AddElement
      <4>3. b <= Cardinality(D) /\ Cardinality(D) \in Nat
        <5> HIDE DEF D
        <5>1. Counted(p)' \subseteq D
          BY <3>2 DEF D
        <5>2. QED
          BY <4>2, <5>1, SizeOfSubset, FS_CardinalityType
      <4>4. a \in Nat /\ b \in Nat /\ a <= Allowed(p) /\ Allowed(p) \in Nat
        BY <3>1, CountedFinite, CountedFiniteNext
      <4> HIDE DEF a, b, D
      <4>5. b <= Allowed(p) + 1
        BY <4>2, <4>3, <4>4
      <4>6. QED
        BY <4>1, <4>5 DEF b
    <3>5. QED
      BY <3>3, <3>4
  <2>2. TrackerBounded'
    BY <1>4, <1>5, <1>8 DEF CountInv, TrackerBounded
  <2>3. QED
    BY <2>1, <2>2 DEF ScaleCount
<1>9. QED
  BY <1>7, <1>8 DEF CountScaleIn

(* A tracker is dropped only if at most one known order can be left for it: the
   position was not seen, and then all that is known waits, or it is closed and
   what was filled is gone. *)
LEMMA ManageCounts ==
  ASSUME CycleTypeOK, SeenInv, WaitingInv, CountInv,
         NEW closing \in SUBSET seenPos, ManagePositions(closing)
  PROVE  ScaleCount' /\ TrackerBounded'
<1>1. /\ UNCHANGED <<lost, raced, uncounted, seenPos>> /\ pc = "manage" /\ pc' = "entries"
      /\ order' = AfterClose(order, closing)
  BY DEF ManagePositions, locals, seen, history
<1>2. Unsaved = {} /\ Unsaved' = {} /\ Sending = {}
  BY <1>1 DEF Unsaved, Sending, Sent
<1>3. \A p : Counted(p)' \subseteq Counted(p)
  BY <1>1, <1>2 DEF Counted, AfterClose, Exposed, Live, InPosition, Known, PairOf
<1>4. ASSUME NEW p \in Pair, p \notin seenPos \ closing
      PROVE  \A d, e \in Counted(p)' : d = e
  <2>1. SUFFICES ASSUME NEW d \in Counted(p)', NEW e \in Counted(p)' PROVE d = e
    OBVIOUS
  <2>2. /\ d \in Intent /\ Known(d) /\ Exposed(d) /\ Exposed(d)' /\ PairOf(d) = p
        /\ e \in Intent /\ Known(e) /\ Exposed(e) /\ Exposed(e)' /\ PairOf(e) = p
    BY <1>3, <2>1 DEF Counted, PairOf
  <2>3. InstOf[d] = InstOf[e]
    BY <2>2 DEF PairOf
  <2>4. CASE p \in closing
    <3>1. Live(d) /\ Live(e)
      BY <1>1, <2>2, <2>4 DEF AfterClose, Exposed, Live, InPosition
    <3>2. QED
      BY <2>2, <2>3, <3>1 DEF WaitingInv, LiveOnce
  <2>5. CASE p \notin seenPos
    <3>1. d \in seenOrders /\ e \in seenOrders
      BY <1>1, <1>2, <2>2, <2>5 DEF SeenInv, NothingUnseen, BothRead
    <3>2. QED
      BY <1>1, <2>2, <2>3, <3>1 DEF WaitingInv, SeenOnce
  <2>6. QED
    BY <1>4, <2>4, <2>5
<1>5. tracker \in [Pair -> Int] /\ MaxScaleIn \in Nat
  BY EntryAssumption DEF CycleTypeOK
<1>6. ASSUME NEW p \in Pair
      PROVE  Cardinality(Counted(p)') <= Allowed(p)' /\ tracker'[p] <= MaxScaleIn
  <2>1. Cardinality(Counted(p)) <= Allowed(p) /\ Allowed(p) \in Nat \ {0} /\ tracker[p] <= MaxScaleIn
    BY AllowedType DEF CountInv, ScaleCount, TrackerBounded
  <2>2. \/ tracker'[p] = tracker[p]
        \/ tracker[p] < 0 /\ tracker'[p] = 0
        \/ tracker'[p] = -1 /\ p \notin seenPos \ closing
    BY <1>5 DEF ManagePositions
  <2>3. tracker[p] \in Int
    BY <1>5
  <2>4. CASE tracker'[p] = tracker[p]
    <3>1. Allowed(p)' = Allowed(p)
      BY <2>4 DEF Allowed
    <3>2. QED
      BY <1>3, <2>1, <2>4, <3>1, CountsNoMore
  <2>5. CASE tracker[p] < 0 /\ tracker'[p] = 0
    <3>1. Allowed(p)' = Allowed(p)
      BY <2>5 DEF Allowed
    <3>2. QED
      BY <1>3, <1>5, <2>1, <2>5, <3>1, CountsNoMore
  <2>6. CASE tracker'[p] = -1 /\ p \notin seenPos \ closing
    <3>1. Allowed(p)' = 1
      BY <2>6 DEF Allowed
    <3>2. Cardinality(Counted(p)') <= 1
      BY <1>4, <2>6, CountsOnce
    <3>3. -1 <= MaxScaleIn
      BY <1>5
    <3>4. QED
      BY <2>6, <3>1, <3>2, <3>3
  <2>7. QED
    BY <2>2, <2>4, <2>5, <2>6
<1>7. QED
  BY <1>6 DEF ScaleCount, TrackerBounded

LEMMA CountStep ==
  ASSUME CycleTypeOK, SeenInv, WaitingInv, CountInv, [EntryNext]_entryVars
  PROVE  CountInv'
<1>1. RoomToScale'
  BY RoomStep
<1>2. CASE \E closing \in SUBSET seenPos : ManagePositions(closing)
  BY <1>1, <1>2, ManageCounts DEF CountInv
<1>3. CASE \E d \in Intent : CountScaleIn(d)
  BY <1>1, <1>3, CountScaleInCounts DEF CountInv
<1>4. CASE /\ ~(\E closing \in SUBSET seenPos : ManagePositions(closing))
           /\ \A d \in Intent : ~CountScaleIn(d)
  <2>1. UNCHANGED tracker
    BY <1>4, TrackerMoves
  <2>2. TrackerBounded'
    BY <2>1 DEF CountInv, TrackerBounded
  <2>3. CASE \E d \in Intent : PlaceOrder(d)
    BY <1>1, <2>2, <2>3, PlaceOrderCounts DEF CountInv
  <2>4. CASE \A d \in Intent : ~PlaceOrder(d)
    <3>1. /\ \A d \in Intent : Exposed(d)' /\ Known(d)' => Exposed(d) /\ Known(d)
          /\ Unsaved \subseteq Unsaved' \cup uncounted' /\ uncounted \subseteq uncounted'
      BY <1>4, <2>4, ExposureMoves, UnsavedKept, UncountedGrows DEF SeenInv
    <3>2. \A p : Counted(p)' \subseteq Counted(p)
      BY <3>1 DEF Counted, PairOf
    <3>3. ASSUME NEW p \in Pair PROVE Cardinality(Counted(p)') <= Allowed(p)
      <4>1. Cardinality(Counted(p)) <= Allowed(p) /\ Allowed(p) \in Nat
        BY AllowedType DEF CountInv, ScaleCount
      <4>2. QED
        BY <3>2, <4>1, CountsNoMore
    <3>4. ScaleCount'
      BY <2>1, <3>3 DEF ScaleCount, Allowed
    <3>5. QED
      BY <1>1, <2>2, <3>4 DEF CountInv
  <2>5. QED
    BY <2>3, <2>4
<1>5. QED
  BY <1>2, <1>3, <1>4

LEMMA CountsBoundPosition ==
  ASSUME CycleTypeOK, OneAtATime, CountInv
  PROVE  ScaleInsBounded
<1> DEFINE Filled(p) == {d \in Intent : /\ InPosition(d) /\ PairOf(d) = p
                                        /\ Known(d) /\ d \notin uncounted}
<1>1. ASSUME NEW p \in Pair PROVE Cardinality(Filled(p)) <= MaxScaleIn + 1
  <2>1. /\ Cardinality(Counted(p)) <= Allowed(p) /\ Cardinality(Counted(p)) \in Nat
        /\ IsFiniteSet(Counted(p))
    BY CountedFinite DEF CountInv, ScaleCount
  <2>2. tracker[p] \in Int /\ tracker[p] <= MaxScaleIn /\ MaxScaleIn \in Nat
    BY EntryAssumption DEF CycleTypeOK, CountInv, TrackerBounded
  <2>3. Filled(p) \subseteq Counted(p) \cup {d \in Unsaved : PairOf(d) = p}
    BY DEF Counted, Exposed
  <2>4. CASE {d \in Unsaved : PairOf(d) = p} = {}
    <3> DEFINE a == Cardinality(Counted(p))
               b == Cardinality(Filled(p))
    <3>1. IsFiniteSet(Filled(p)) /\ b <= a
      BY <2>1, <2>3, <2>4, SizeOfSubset
    <3>2. b \in Nat /\ a \in Nat /\ a <= Allowed(p)
      BY <2>1, <3>1, FS_CardinalityType
    <3>3. Allowed(p) \in Nat /\ Allowed(p) <= MaxScaleIn + 1
      BY <2>2 DEF Allowed
    <3> HIDE DEF a, b
    <3>4. b <= MaxScaleIn + 1
      BY <2>2, <3>1, <3>2, <3>3
    <3>5. QED
      BY <3>4 DEF b
  <2>5. ASSUME NEW d \in Unsaved, PairOf(d) = p
        PROVE  Cardinality(Filled(p)) <= MaxScaleIn + 1
    <3>1. pc \in Sent /\ d \in cur /\ p \in seenPos /\ Unsaved = {d}
      BY <2>5 DEF Unsaved, Sending, OneAtATime
    <3>2. 0 <= tracker[p] /\ tracker[p] < MaxScaleIn
      BY <2>5, <3>1 DEF CountInv, RoomToScale
    <3> DEFINE a == Cardinality(Counted(p))
               b == Cardinality(Filled(p))
               D == Counted(p) \cup {d}
    <3>3. IsFiniteSet(D) /\ (Cardinality(D) = a \/ Cardinality(D) = a + 1)
      BY <2>1, FS_AddElement
    <3>4. Filled(p) \subseteq D
      BY <2>3, <3>1
    <3>5. b <= Cardinality(D) /\ Cardinality(D) \in Nat /\ b \in Nat
      <4> HIDE DEF D
      <4>1. IsFiniteSet(Filled(p)) /\ b <= Cardinality(D)
        BY <3>3, <3>4, SizeOfSubset
      <4>2. QED
        BY <3>3, <4>1, FS_CardinalityType
    <3>6. a \in Nat /\ a <= tracker[p] + 1
      BY <2>1, <2>2, <3>2 DEF Allowed
    <3> HIDE DEF a, b, D
    <3>7. b <= MaxScaleIn + 1
      BY <2>2, <3>2, <3>3, <3>5, <3>6
    <3>8. QED
      BY <3>7 DEF b
  <2>6. QED
    BY <2>4, <2>5
<1>2. QED
  BY <1>1 DEF ScaleInsBounded

(* A position is entered once and scaled in at most MAX_SCALE_IN_COUNT times,
   over any number of cycles, waiting orders and partial fills: whenever the
   tracker of a position is dropped by entry_execution.py's caller, at most one
   of its known orders is left, and no scale-in is sent that the tracker does
   not count before the next one is considered. *)
THEOREM ScaleInsBoundedCorrect == EntrySpec => []ScaleInsBounded
<1>1. EntryInit => WaitingInv
  BY DEF EntryInit, WaitingInv, LiveOnce, LiveSeen, NoneWaiting, SeenOnce, CurScanned, Live, BothRead
<1>2. EntryInit => CountInv
  <2> SUFFICES ASSUME EntryInit PROVE CountInv
    OBVIOUS
  <2>1. \A p : Counted(p) = {}
    BY DEF EntryInit, Counted, Exposed, Live, InPosition
  <2>2. \A p \in Pair : tracker[p] = -1
    BY DEF EntryInit
  <2>3. Cardinality({}) = 0
    BY FS_EmptySet
  <2>4. ScaleCount /\ TrackerBounded
    BY <2>1, <2>2, <2>3, EntryAssumption DEF ScaleCount, Allowed, TrackerBounded
  <2>5. RoomToScale
    BY DEF EntryInit, RoomToScale
  <2>6. QED
    BY <2>4, <2>5 DEF CountInv
<1>3. EntryTypeOK /\ SeenInv /\ WaitingInv /\ CountInv /\ [EntryNext]_entryVars
        => WaitingInv' /\ CountInv'
  BY WaitingStep, CountStep DEF EntryTypeOK, SeenInv
<1>4. EntryTypeOK /\ SeenInv /\ CountInv => ScaleInsBounded
  BY CountsBoundPosition DEF EntryTypeOK, SeenInv
<1>5. QED
  BY <1>1, <1>2, <1>3, <1>4, SeenInvariant, PTL DEF EntrySpec
=============================================================================
