------------------------- MODULE TradeLedgerProofs -------------------------
(***************************************************************************)
(* Theorems about the trade ledger, for every finite set of trades and of  *)
(* overlapping syncs, every age limit and every number of faults.          *)
(***************************************************************************)
EXTENDS TradeLedger, UnitSumsProofs

(* What every sync process looks like. *)
SyncPcs == {"idle", "history", "positions", "ledger", "sidecar", "notify", "publish"}
SyncState == [pc : SyncPcs, age : 0..SyncLimit, book : Ledger, failed : BOOLEAN,
              fresh : SUBSET Trade, sent : SUBSET Trade]

LEMMA ConstantTypes ==
  /\ None \in Nat /\ Part \in Nat /\ All \in Nat /\ None # Part /\ None # All /\ Part # All
  /\ None < Part /\ Part < All
  /\ Level = {None, Part, All} /\ None \in Level /\ Part \in Level /\ All \in Level
  /\ MaxAge \in Nat /\ SyncLimit \in Nat /\ SyncLimit > 0 /\ OldAge \in Nat
  /\ OldAge > MaxAge + SyncLimit
BY TradeLedgerAssumption DEF None, Part, All, Level, OldAge

LEMMA SoldType ==
  ASSUME NEW x
  PROVE  Sold(x) \in Level
BY ConstantTypes DEF Sold

LEMMA EmptyType == Empty \in Ledger /\ IdleSync \in SyncState
BY ConstantTypes DEF Empty, Ledger, IdleSync, SyncState, SyncPcs

-----------------------------------------------------------------------------
(* The types hold of what one sync reads, of what it writes and of its end. *)
LEMMA ReadType ==
  ASSUME NEW y \in SyncState
  PROVE  /\ WithHistory(y) \in SyncState /\ WithPositions(y) \in SyncState
         /\ GiveUp(y) \in SyncState /\ GiveUp(WithPositions(y)) \in SyncState
         /\ [y EXCEPT !.pc = "sidecar", !.book = CardsOf(y)] \in SyncState
<1>1. HistoryNow \in [Trade -> Level]
  BY SoldType DEF HistoryNow
<1>2. y.book \in Ledger /\ y.book.row \in [Trade -> Level] /\ PositionsNow \in SUBSET Trade
  BY DEF SyncState, Ledger, PositionsNow
<1>3. WithHistory(y) \in SyncState
  BY <1>1, <1>2 DEF WithHistory, SyncState, SyncPcs, Ledger
<1>4. WithPositions(y) \in SyncState
  BY <1>2 DEF WithPositions, SyncState, SyncPcs, Ledger
<1>5. \A z \in SyncState : GiveUp(z) \in SyncState
  BY DEF GiveUp, SyncState, SyncPcs
<1>6. CardsOf(y) \in Ledger
  BY <1>2, ConstantTypes DEF CardsOf, Ledger
<1>7. [y EXCEPT !.pc = "sidecar", !.book = CardsOf(y)] \in SyncState
  BY <1>6 DEF SyncState, SyncPcs
<1>8. QED
  BY <1>3, <1>4, <1>5, <1>7

LEMMA SyncUpdateType ==
  ASSUME sync \in [Sync -> SyncState], NEW s \in Sync, NEW y \in SyncState,
         sync' = [sync EXCEPT ![s] = y]
  PROVE  sync' \in [Sync -> SyncState]
OBVIOUS

LEMMA TypeStep ==
  ASSUME TradeLedgerTypeOK, [TradeLedgerNext]_tradeLedgerVars
  PROVE  TradeLedgerTypeOK'
<1> USE DEF exchange, history
<1>0. /\ sync \in [Sync -> SyncState] /\ ledger \in Ledger /\ recorder.known \in Ledger
      /\ recorder.pc \in {"idle", "due", "read"}
  BY DEF TradeLedgerTypeOK, SyncState, SyncPcs
<1>1. CASE UNCHANGED tradeLedgerVars
  BY <1>1 DEF tradeLedgerVars, TradeLedgerTypeOK
<1>2. ASSUME NEW t \in Trade, NEW to \in Stage, NEW byTrader, Trades(t, to, byTrader)
      PROVE  TradeLedgerTypeOK'
  <2>1. venue' \in [Trade -> Stage] /\ since' \in [Trade -> 0..OldAge]
    BY <1>2, ConstantTypes DEF Trades, TradeLedgerTypeOK
  <2>2. recorder' \in [pc : {"idle", "due", "read"}, known : Ledger]
    BY <1>2 DEF Trades, TradeLedgerTypeOK
  <2>3. QED
    BY <1>2, <2>1, <2>2 DEF Trades, TradeLedgerTypeOK
<1>3. CASE RecordRead
  BY <1>0, <1>3 DEF RecordRead, TradeLedgerTypeOK
<1>4. ASSUME NEW new \in Ledger, Show(new) PROVE shown' \in [Trade -> SUBSET Level]
  BY <1>4 DEF Show, Ledger, TradeLedgerTypeOK
<1>5. CASE RecordWrite
  BY <1>0, <1>4, <1>5, EmptyType DEF RecordWrite, TradeLedgerTypeOK
<1>6. ASSUME NEW kind, Fault(kind) PROVE faults' \in 0..MaxFaults
  BY <1>6, TradeLedgerAssumption DEF Fault, TradeLedgerTypeOK
<1>7. CASE Tick
  <2>1. since' \in [Trade -> 0..OldAge]
    BY <1>7, ConstantTypes DEF Tick, Older, TradeLedgerTypeOK
  <2>2. sidecar' \in [age : 0..(MaxAge + 1), failed : BOOLEAN]
    BY <1>7, ConstantTypes DEF Tick, Older, TradeLedgerTypeOK
  <2>3. sync' \in [Sync -> SyncState]
    <3>1. ASSUME NEW s \in Sync, sync[s].pc # "idle"
          PROVE  [sync[s] EXCEPT !.age = @ + 1] \in SyncState
      BY <1>0, <1>7, <3>1, ConstantTypes DEF Tick, SyncState
    <3>2. QED
      BY <1>0, <1>7, <3>1 DEF Tick
  <2>4. QED
    BY <1>7, <2>1, <2>2, <2>3 DEF Tick, TradeLedgerTypeOK, SyncState, SyncPcs
<1>8. ASSUME NEW s \in Sync, SyncStep(s) PROVE TradeLedgerTypeOK'
  <2>0. sync[s] \in SyncState
    BY <1>0
  <2>1. ASSUME sync' \in [Sync -> SyncState], faults' \in 0..MaxFaults,
               UNCHANGED <<venue, since, ledger, sidecar, notified, recorder, shown, cards,
                           unsaved, aborted, dropped>>
        PROVE  TradeLedgerTypeOK'
    BY <2>1 DEF TradeLedgerTypeOK, SyncState, SyncPcs
  <2>2. faults \in 0..MaxFaults
    BY DEF TradeLedgerTypeOK
  <2>3. CASE Start(s)
    <3>1. [IdleSync EXCEPT !.pc = "history", !.book = ledger] \in SyncState
      BY <1>0, EmptyType DEF SyncState, SyncPcs
    <3>2. QED
      BY <1>0, <2>1, <2>2, <2>3, <3>1, SyncUpdateType DEF Start
  <2>4. CASE FetchHistory(s) \/ FetchPositions(s)
    <3>1. faults' \in 0..MaxFaults
      BY <1>6, <2>2, <2>4 DEF FetchHistory, FetchPositions
    <3>2. \E y \in SyncState : sync' = [sync EXCEPT ![s] = y]
      BY <2>0, <2>4, ReadType DEF FetchHistory, FetchPositions
    <3>3. QED
      BY <1>0, <2>1, <2>4, <3>1, <3>2, SyncUpdateType DEF FetchHistory, FetchPositions
  <2>5. CASE WriteLedger(s)
    <3>1. sync[s].book \in Ledger
      BY <2>0 DEF SyncState
    <3>2. shown' \in [Trade -> SUBSET Level]
      BY <1>4, <2>5, <3>1 DEF WriteLedger
    <3>3. sync' \in [Sync -> SyncState]
      BY <1>0, <2>0, <2>5, ReadType, SyncUpdateType DEF WriteLedger
    <3>4. QED
      BY <2>5, <3>1, <3>2, <3>3 DEF WriteLedger, TradeLedgerTypeOK, SyncState, SyncPcs
  <2>6. CASE WriteSidecar(s)
    <3>1. sync' \in [Sync -> SyncState]
      <4>1. [sync[s] EXCEPT !.pc = "notify", !.failed = FALSE] \in SyncState
        BY <2>0 DEF SyncState, SyncPcs
      <4>2. QED
        BY <1>0, <2>6, <4>1, EmptyType, SyncUpdateType DEF WriteSidecar, Announce
    <3>2. faults' \in 0..MaxFaults
      BY <1>6, <2>2, <2>6 DEF WriteSidecar
    <3>3. sidecar' \in [age : 0..(MaxAge + 1), failed : BOOLEAN]
      BY <2>0, <2>6, ConstantTypes DEF WriteSidecar, TradeLedgerTypeOK, SyncState
    <3>4. QED
      BY <2>6, <3>1, <3>2, <3>3 DEF WriteSidecar, TradeLedgerTypeOK, SyncState, SyncPcs
  <2>7. CASE NotifyStart(s)
    <3>1. \A new \in SUBSET Trade : [sync[s] EXCEPT !.pc = "publish", !.fresh = new] \in SyncState
      BY <2>0 DEF SyncState, SyncPcs
    <3>2. sync[s].fresh \ notified \in SUBSET Trade
      BY <2>0 DEF SyncState
    <3>3. sync' \in [Sync -> SyncState]
      BY <1>0, <2>7, <3>1, <3>2, EmptyType, SyncUpdateType DEF NotifyStart, Enter
    <3>4. QED
      BY <2>1, <2>2, <2>7, <3>3 DEF NotifyStart
  <2>8. ASSUME NEW t \in Trade, Publish(s, t) \/ PublishFails(s, t) PROVE TradeLedgerTypeOK'
    <3>1. sync' \in [Sync -> SyncState]
      BY <1>0, <2>0, <2>8 DEF Publish, PublishFails, Passes, SyncState
    <3>2. cards' \in [Trade -> [half : Nat, whole : Nat]]
      <4>1. cards \in [Trade -> [half : Nat, whole : Nat]]
        BY DEF TradeLedgerTypeOK
      <4>2. QED
        BY <2>8, <4>1 DEF Publish, PublishFails, Count
    <3>3. faults' \in 0..MaxFaults /\ dropped' \subseteq Trade
      BY <1>6, <2>2, <2>8 DEF Publish, PublishFails, TradeLedgerTypeOK
    <3>4. QED
      BY <2>8, <3>1, <3>2, <3>3
         DEF Publish, PublishFails, Passes, TradeLedgerTypeOK, SyncState, SyncPcs
  <2>9. Unsave(s) => unsaved' \in [Trade -> Nat]
    BY DEF Unsave, TradeLedgerTypeOK
  <2>10. CASE SaveNotified(s)
    <3>1. sync' \in [Sync -> SyncState]
      BY <1>0, <2>10, EmptyType, SyncUpdateType DEF SaveNotified
    <3>2. faults' \in 0..MaxFaults /\ unsaved' \in [Trade -> Nat]
      BY <1>6, <2>2, <2>9, <2>10 DEF SaveNotified, TradeLedgerTypeOK
    <3>3. notified' \subseteq Trade
      BY <2>0, <2>10 DEF SaveNotified, TradeLedgerTypeOK, SyncState
    <3>4. QED
      BY <2>10, <3>1, <3>2, <3>3 DEF SaveNotified, TradeLedgerTypeOK, SyncState, SyncPcs
  <2>11. CASE Killed(s)
    <3>1. faults' \in 0..MaxFaults
      BY <1>6, <2>11 DEF Killed
    <3>2. sync' \in [Sync -> SyncState] /\ unsaved' \in [Trade -> Nat]
      BY <1>0, <2>9, <2>11, EmptyType, SyncUpdateType DEF Killed
    <3>3. aborted' \subseteq Trade
      BY <2>0, <2>11 DEF Killed, TradeLedgerTypeOK, SyncState
    <3>4. QED
      BY <2>11, <3>1, <3>2, <3>3 DEF Killed, TradeLedgerTypeOK, SyncState, SyncPcs
  <2>12. QED
    BY <1>8, <2>3, <2>4, <2>5, <2>6, <2>7, <2>8, <2>10, <2>11 DEF SyncStep
<1>9. QED
  BY <1>1, <1>2, <1>3, <1>5, <1>7, <1>8 DEF TradeLedgerNext

(* The exchange, the files and every process keep their types, whatever number
   of syncs run into each other: no card or unsaved id is counted below zero. *)
THEOREM TradeLedgerTypeCorrect == TradeLedgerSpec => []TradeLedgerTypeOK
<1>1. TradeLedgerInit => TradeLedgerTypeOK
  BY ConstantTypes, EmptyType, TradeLedgerAssumption
     DEF TradeLedgerInit, TradeLedgerTypeOK, SyncState, SyncPcs, Stage
<1>2. TradeLedgerTypeOK /\ [TradeLedgerNext]_tradeLedgerVars => TradeLedgerTypeOK'
  BY TypeStep
<1>3. QED
  BY <1>1, <1>2, PTL DEF TradeLedgerSpec

-----------------------------------------------------------------------------
(* CardsExcused.  A trade has a card more than the unsaved ids account for  *)
(* only while its id is saved or waits to be saved in the process that has  *)
(* the lock: so that process must be alone, and must not send a card for an *)
(* id that is saved already.  The id of a refused card is saved as well,    *)
(* and stands for no card.                                                  *)
CardsOut(t) == cards[t].half + cards[t].whole
Passed(t) == t \in notified \/ \E s \in Sync : t \in sync[s].sent
Marked(t) == Passed(t) /\ t \notin dropped

OneAnnouncer ==
  \A s, r \in Sync : sync[s].pc = "publish" /\ sync[r].pc = "publish" => s = r
SentListed ==
  \A s \in Sync :
    /\ sync[s].pc # "publish" => sync[s].sent = {}
    /\ sync[s].pc = "publish" => sync[s].fresh \cap notified = {}
Counted == \A t \in Trade : /\ CardsOut(t) <= unsaved[t] + 1
                            /\ ~Marked(t) => CardsOut(t) <= unsaved[t]
Carded == \A t \in Trade : Marked(t) => CardsOut(t) > 0
CardInv == OneAnnouncer /\ SentListed /\ Counted /\ Carded

(* A step of one sync leaves the others alone. *)
LEMMA SyncStepMovesOne ==
  ASSUME TradeLedgerTypeOK, NEW s \in Sync, SyncStep(s)
  PROVE  \A r \in Sync \ {s} : sync'[r] = sync[r]
<1>1. sync \in [Sync -> SyncState]
  BY DEF TradeLedgerTypeOK, SyncState, SyncPcs
<1>2. PICK y : sync' = [sync EXCEPT ![s] = y]
  <2>1. ASSUME NEW t, Passes(s, t) PROVE \E y : sync' = [sync EXCEPT ![s] = y]
    BY <1>1, <2>1 DEF Passes
  <2>2. QED
    BY <2>1 DEF SyncStep, Start, FetchHistory, FetchPositions, WriteLedger, WriteSidecar, Announce,
         NotifyStart, Enter, SaveNotified, Publish, PublishFails, Killed
<1>3. QED
  BY <1>1, <1>2

(* The steps before the lock is taken change no card and no mark. *)
LEMMA QuietStep ==
  ASSUME TradeLedgerTypeOK, CardInv, UNCHANGED <<notified, cards, unsaved, dropped>>,
         \A r \in Sync : /\ sync'[r].sent = sync[r].sent
                         /\ sync'[r].pc = "publish" <=> sync[r].pc = "publish"
                         /\ sync[r].pc = "publish" => sync'[r].fresh = sync[r].fresh
  PROVE  CardInv'
<1>0. notified' = notified /\ cards' = cards /\ unsaved' = unsaved /\ dropped' = dropped
  OBVIOUS
<1>1. \A t : CardsOut(t)' = CardsOut(t) /\ (Marked(t)' <=> Marked(t))
  <2>1. \A t : (\E r \in Sync : t \in sync'[r].sent) <=> (\E r \in Sync : t \in sync[r].sent)
    BY Zenon
  <2>2. QED
    BY <1>0, <2>1 DEF CardsOut, Marked, Passed
<1>2. OneAnnouncer' /\ SentListed'
  <2>1. OneAnnouncer'
    BY DEF CardInv, OneAnnouncer
  <2>2. SentListed'
    BY <1>0 DEF CardInv, SentListed
  <2>3. QED
    BY <2>1, <2>2
<1>3. Counted' /\ Carded'
  BY <1>0, <1>1 DEF CardInv, Counted, Carded
<1>4. QED
  BY <1>2, <1>3 DEF CardInv

(* A process that ends: what it went through is saved, or what it really sent
   is counted as unsaved. *)
LEMMA AnnouncerEnds ==
  ASSUME TradeLedgerTypeOK, CardInv, NEW s \in Sync,
         sync' = [sync EXCEPT ![s] = IdleSync], UNCHANGED <<cards, dropped>>,
         \/ notified' = notified \cup sync[s].sent /\ UNCHANGED unsaved
         \/ UNCHANGED notified /\ Unsave(s)
  PROVE  CardInv'
<1>1. sync \in [Sync -> SyncState]
  BY DEF TradeLedgerTypeOK, SyncState, SyncPcs
<1>2. sync'[s].sent = {} /\ sync'[s].pc = "idle" /\ \A r \in Sync \ {s} : sync'[r] = sync[r]
  BY <1>1 DEF IdleSync
<1>3. \A r \in Sync \ {s} : sync[r].pc = "publish" => sync[s].sent = {}
  BY DEF CardInv, OneAnnouncer, SentListed
<1>4. OneAnnouncer' /\ SentListed'
  BY <1>2, <1>3 DEF CardInv, OneAnnouncer, SentListed
<1>5. \A t \in Trade : /\ CardsOut(t)' = CardsOut(t) /\ CardsOut(t) \in Nat /\ unsaved[t] \in Nat
                       /\ unsaved'[t] \in Nat /\ unsaved'[t] >= unsaved[t]
  BY DEF CardsOut, Unsave, TradeLedgerTypeOK
<1>6. \A t \in Trade : Marked(t)' => Marked(t)
  BY <1>2 DEF Marked, Passed
<1>7. \A t \in Trade : Marked(t) /\ ~Marked(t)' => unsaved'[t] = unsaved[t] + 1
  BY <1>2 DEF Marked, Passed, Unsave
<1>8. Counted' /\ Carded'
  BY <1>5, <1>6, <1>7 DEF CardInv, Counted, Carded
<1>9. QED
  BY <1>4, <1>8 DEF CardInv

LEMMA CardStep ==
  ASSUME TradeLedgerTypeOK, CardInv, [TradeLedgerNext]_tradeLedgerVars
  PROVE  CardInv'
<1> USE DEF exchange, history
<1>0. sync \in [Sync -> SyncState]
  BY DEF TradeLedgerTypeOK, SyncState, SyncPcs
<1>1. CASE UNCHANGED tradeLedgerVars
  BY <1>1, QuietStep DEF tradeLedgerVars
<1>2. ASSUME NEW t, NEW to, NEW byTrader, Trades(t, to, byTrader) PROVE CardInv'
  BY <1>2, QuietStep DEF Trades
<1>3. CASE RecordRead \/ RecordWrite
  BY <1>3, QuietStep DEF RecordRead, RecordWrite
<1>4. CASE Tick
  <2>1. \A r \in Sync : /\ sync'[r].sent = sync[r].sent /\ sync'[r].pc = sync[r].pc
                        /\ sync'[r].fresh = sync[r].fresh
    BY <1>0, <1>4 DEF Tick, SyncState
  <2>2. QED
    BY <1>4, <2>1, QuietStep DEF Tick
<1>5. ASSUME NEW s \in Sync, SyncStep(s) PROVE CardInv'
  <2>1. sync[s] \in SyncState /\ \A r \in Sync \ {s} : sync'[r] = sync[r]
    BY <1>0, <1>5, SyncStepMovesOne
  <2>2. sync[s].pc # "publish" => sync[s].sent = {}
    BY DEF CardInv, SentListed
  <2>3. CASE Start(s) \/ FetchHistory(s) \/ FetchPositions(s) \/ WriteLedger(s) \/ WriteSidecar(s)
    <3>1. sync[s].pc # "publish" /\ UNCHANGED <<notified, cards, unsaved, dropped>>
      BY <2>3 DEF Start, FetchHistory, FetchPositions, WriteLedger, WriteSidecar
    <3>2. sync'[s].pc # "publish" /\ sync'[s].sent = {}
      <4>1. CASE Start(s)
        BY <1>0, <4>1 DEF Start, IdleSync
      <4>2. \A z \in SyncState : GiveUp(z).pc = "ledger" /\ GiveUp(z).sent = z.sent
        BY DEF GiveUp, SyncState
      <4>3. /\ WithHistory(sync[s]).pc = "positions" /\ WithHistory(sync[s]).sent = sync[s].sent
            /\ WithPositions(sync[s]).pc = "ledger" /\ WithPositions(sync[s]).sent = sync[s].sent
            /\ WithPositions(sync[s]) \in SyncState
        BY <2>1, ReadType DEF WithHistory, WithPositions, SyncState
      <4>4. CASE FetchHistory(s) \/ FetchPositions(s)
        BY <1>0, <2>1, <2>2, <3>1, <4>2, <4>3, <4>4 DEF FetchHistory, FetchPositions
      <4>5. CASE WriteLedger(s)
        BY <1>0, <2>1, <2>2, <3>1, <4>5 DEF WriteLedger, SyncState
      <4>6. CASE WriteSidecar(s)
        BY <1>0, <2>1, <2>2, <3>1, <4>6 DEF WriteSidecar, Announce, SyncState, IdleSync
      <4>7. QED
        BY <2>3, <4>1, <4>4, <4>5, <4>6
    <3>3. \A r \in Sync : /\ sync'[r].sent = sync[r].sent
                          /\ sync'[r].pc = "publish" <=> sync[r].pc = "publish"
                          /\ sync[r].pc = "publish" => sync'[r].fresh = sync[r].fresh
      BY <2>1, <2>2, <3>1, <3>2
    <3>4. QED
      BY <3>1, <3>3, QuietStep
  <2>4. CASE NotifyStart(s)
    <3>1. CASE sync[s].fresh \ notified = {}
      <4>1. sync' = [sync EXCEPT ![s] = IdleSync] /\ UNCHANGED <<notified, cards, unsaved, dropped>>
        BY <2>4, <3>1 DEF NotifyStart, Enter
      <4>2. sync[s].sent = {}
        BY <2>2, <2>4 DEF NotifyStart
      <4>3. notified' = notified \cup sync[s].sent
        BY <4>1, <4>2
      <4>4. QED
        BY <4>1, <4>3, AnnouncerEnds
    <3>2. CASE sync[s].fresh \ notified # {}
      <4>1. /\ sync'[s].pc = "publish" /\ sync'[s].fresh \cap notified = {}
            /\ sync'[s].sent = sync[s].sent /\ UNCHANGED <<notified, cards, unsaved, dropped>>
            /\ \A r \in Sync : sync[r].pc # "publish"
        BY <1>0, <2>1, <2>4, <3>2 DEF NotifyStart, Enter, SyncState
      <4>2. OneAnnouncer' /\ SentListed'
        BY <2>1, <4>1 DEF CardInv, OneAnnouncer, SentListed
      <4>3. \A t : CardsOut(t)' = CardsOut(t) /\ (Marked(t)' <=> Marked(t))
        BY <2>1, <4>1 DEF CardsOut, Marked, Passed
      <4>4. Counted' /\ Carded'
        BY <4>1, <4>3 DEF CardInv, Counted, Carded
      <4>5. QED
        BY <4>2, <4>4 DEF CardInv
    <3>3. QED
      BY <3>1, <3>2
  <2>5. ASSUME NEW t \in Trade, Passes(s, t)
        PROVE  /\ OneAnnouncer' /\ SentListed' /\ ~Marked(t)
               /\ Passed(t)' /\ \A u \in Trade \ {t} : Passed(u)' <=> Passed(u)
    <3>1. /\ sync'[s].pc = "publish" /\ sync'[s].fresh = sync[s].fresh
          /\ sync'[s].sent = sync[s].sent \cup {t} /\ UNCHANGED notified
          /\ sync[s].pc = "publish" /\ t \in sync[s].fresh /\ t \notin sync[s].sent
      BY <1>0, <2>1, <2>5 DEF Passes, SyncState
    <3>2. OneAnnouncer' /\ SentListed'
      BY <2>1, <3>1 DEF CardInv, OneAnnouncer, SentListed
    <3>3. ~Marked(t)
      BY <3>1 DEF Marked, Passed, CardInv, OneAnnouncer, SentListed
    <3>4. Passed(t)' /\ \A u \in Trade \ {t} : Passed(u)' <=> Passed(u)
      BY <2>1, <3>1 DEF Passed
    <3>5. QED
      BY <3>2, <3>3, <3>4
  <2>6. ASSUME NEW t \in Trade, PublishFails(s, t) PROVE CardInv'
    <3>1. /\ Passes(s, t) /\ dropped' = dropped \cup {t}
          /\ cards' = cards /\ unsaved' = unsaved
      BY <2>6 DEF PublishFails, Passes
    <3>2. ~Marked(t)' /\ ~Marked(t) /\ \A u \in Trade \ {t} : Marked(u)' <=> Marked(u)
      BY <2>5, <3>1 DEF Marked
    <3>3. \A u : CardsOut(u)' = CardsOut(u)
      BY <3>1 DEF CardsOut
    <3>4. Counted' /\ Carded'
      BY <3>1, <3>2, <3>3 DEF CardInv, Counted, Carded
    <3>5. QED
      BY <2>5, <3>1, <3>4 DEF CardInv
  <2>7. ASSUME NEW t \in Trade, Publish(s, t) PROVE CardInv'
    <3>1. Passes(s, t) /\ dropped' = dropped \ {t} /\ unsaved' = unsaved
      BY <2>7 DEF Publish, Passes
    <3>2. OneAnnouncer' /\ SentListed'
      BY <2>5, <3>1
    <3>3. ~Marked(t)
      BY <2>5, <3>1
    <3>4. Marked(t)' /\ \A u \in Trade \ {t} : Marked(u)' <=> Marked(u)
      BY <2>5, <3>1 DEF Marked
    <3>5. cards \in [Trade -> [half : Nat, whole : Nat]] /\ unsaved \in [Trade -> Nat]
      BY DEF TradeLedgerTypeOK
    <3>6. /\ CardsOut(t)' = CardsOut(t) + 1
          /\ \A u \in Trade \ {t} : CardsOut(u)' = CardsOut(u)
          /\ \A u \in Trade : CardsOut(u) \in Nat
      <4>1. cards[t].half \in Nat /\ cards[t].whole \in Nat
        BY <3>5
      <4>2. \/ cards' = [cards EXCEPT ![t].whole = @ + 1]
            \/ cards' = [cards EXCEPT ![t].half = @ + 1]
        BY <2>7 DEF Publish, Count
      <4>3. CardsOut(t)' = CardsOut(t) + 1
        BY <3>5, <4>1, <4>2 DEF CardsOut
      <4>4. \A u \in Trade \ {t} : CardsOut(u)' = CardsOut(u)
        BY <3>5, <4>2 DEF CardsOut
      <4>5. \A u \in Trade : CardsOut(u) \in Nat
        BY <3>5 DEF CardsOut
      <4>6. QED
        BY <4>3, <4>4, <4>5
    <3>7. Counted' /\ Carded'
      BY <3>1, <3>3, <3>4, <3>5, <3>6 DEF CardInv, Counted, Carded
    <3>8. QED
      BY <3>2, <3>7 DEF CardInv
  <2>8. CASE SaveNotified(s)
    BY <2>8, AnnouncerEnds DEF SaveNotified
  <2>9. CASE Killed(s)
    BY <2>9, AnnouncerEnds DEF Killed
  <2>10. QED
    BY <1>5, <2>3, <2>4, <2>6, <2>7, <2>8, <2>9 DEF SyncStep
<1>6. QED
  BY <1>1, <1>2, <1>3, <1>4, <1>5 DEF TradeLedgerNext

(* No trade is announced twice but for the cards whose ids were never saved,
   however many overlapping syncs find it newly closed. *)
THEOREM CardsExcusedCorrect == TradeLedgerSpec => []CardsExcused
<1>1. TradeLedgerInit => CardInv
  BY DEF TradeLedgerInit, CardInv, OneAnnouncer, SentListed, Counted, Carded, CardsOut, Marked,
         Passed, IdleSync
<1>2. TradeLedgerTypeOK /\ CardInv /\ [TradeLedgerNext]_tradeLedgerVars => CardInv'
  BY CardStep
<1>3. TradeLedgerTypeOK /\ CardInv => CardsExcused
  BY DEF CardInv, Counted, CardsExcused, CardsOut, TradeLedgerTypeOK
<1>4. QED
  BY <1>1, <1>2, <1>3, TradeLedgerTypeCorrect, PTL DEF TradeLedgerSpec

-----------------------------------------------------------------------------
(* CloseAnnounced.  A row of a closed trade is fine if the trade has its    *)
(* card, an excuse, or a sync that owes the card.  The rows a sync or the   *)
(* recorder read earlier are still fine when they are written back, for     *)
(* being fine never ends; and a closed trade whose row a sync puts into its *)
(* book for the first time is on that sync's list.                          *)
Owes(s, t) == t \in sync[s].fresh /\ sync[s].pc \in {"sidecar", "notify", "publish"}
Fine(t) ==
  \/ CardsOut(t) > 0 \/ t \in dropped
  \/ Part \in shown[t] \/ t \in aborted
  \/ \E s \in Sync : Owes(s, t)
RowsFine(rows) ==
  \A t \in Trade : /\ rows[t] = All => Fine(t)
                   /\ rows[t] = Part => Part \in shown[t]
BookFine(s) ==
  /\ sync[s].pc = "history" => RowsFine(sync[s].book.row) /\ sync[s].fresh = {}
  /\ sync[s].pc \in {"positions", "ledger"} =>
       \A t \in Trade : sync[s].book.row[t] = All =>
                          Fine(t) \/ (t \in sync[s].fresh /\ venue[t] = "closed")
FineInv ==
  /\ RowsFine(ledger.row) /\ RowsFine(recorder.known.row)
  /\ \A s \in Sync : BookFine(s)

(* No step takes back a card, a level the ledger showed or an aborted trade,
   and only a card makes up for a refused one. *)
LEMMA HistoryGrows ==
  ASSUME TradeLedgerTypeOK, [TradeLedgerNext]_tradeLedgerVars, NEW t \in Trade
  PROVE  /\ CardsOut(t) \in Nat /\ CardsOut(t)' \in Nat /\ CardsOut(t)' >= CardsOut(t)
         /\ shown[t] \subseteq shown'[t] /\ aborted \subseteq aborted'
         /\ t \in dropped => t \in dropped' \/ CardsOut(t)' > 0
<1> USE DEF exchange, history
<1>0. CardsOut(t) \in Nat /\ cards \in [Trade -> [half : Nat, whole : Nat]]
  BY DEF CardsOut, TradeLedgerTypeOK
<1>1. ASSUME UNCHANGED cards PROVE CardsOut(t)' = CardsOut(t)
  BY <1>1 DEF CardsOut
<1>2. ASSUME NEW new, Show(new) PROVE shown[t] \subseteq shown'[t]
  BY <1>2 DEF Show
<1>3. CASE UNCHANGED tradeLedgerVars
  BY <1>0, <1>1, <1>3 DEF tradeLedgerVars
<1>4. ASSUME NEW u, NEW to, NEW byTrader, Trades(u, to, byTrader)
      PROVE  UNCHANGED <<cards, shown, aborted, dropped>>
  BY <1>4 DEF Trades
<1>5. CASE RecordRead \/ Tick
  BY <1>0, <1>1, <1>5 DEF RecordRead, Tick
<1>6. CASE RecordWrite
  BY <1>0, <1>1, <1>2, <1>6 DEF RecordWrite
<1>7. ASSUME NEW s \in Sync, SyncStep(s)
      PROVE  /\ CardsOut(t)' >= CardsOut(t)
             /\ shown[t] \subseteq shown'[t] /\ aborted \subseteq aborted'
             /\ t \in dropped => t \in dropped' \/ CardsOut(t)' > 0
  <2>1. CASE Start(s) \/ FetchHistory(s) \/ FetchPositions(s) \/ WriteSidecar(s) \/ NotifyStart(s)
             \/ SaveNotified(s)
    <3>1. UNCHANGED <<cards, shown, aborted, dropped>>
      BY <2>1 DEF Start, FetchHistory, FetchPositions, WriteSidecar, NotifyStart, SaveNotified
    <3>2. QED
      BY <1>0, <1>1, <3>1
  <2>2. CASE WriteLedger(s)
    BY <1>0, <1>1, <1>2, <2>2 DEF WriteLedger
  <2>3. ASSUME NEW u \in Trade, Publish(s, u)
        PROVE  /\ CardsOut(t)' >= CardsOut(t) /\ UNCHANGED <<shown, aborted>>
               /\ t \in dropped => t \in dropped' \/ CardsOut(t)' > 0
    <3>1. \/ cards' = [cards EXCEPT ![u].whole = @ + 1]
          \/ cards' = [cards EXCEPT ![u].half = @ + 1]
      BY <2>3 DEF Publish, Count
    <3>2. /\ cards'[t].half \in Nat /\ cards'[t].half >= cards[t].half
          /\ cards'[t].whole \in Nat /\ cards'[t].whole >= cards[t].whole
      BY <1>0, <3>1
    <3>3. cards[t].half \in Nat /\ cards[t].whole \in Nat
      BY <1>0
    <3>4. CardsOut(t)' >= CardsOut(t)
      BY <3>2, <3>3 DEF CardsOut
    <3>5. CASE u # t
      BY <2>3, <3>4, <3>5 DEF Publish, Passes
    <3>6. CASE u = t
      <4>1. CardsOut(t)' > 0
        BY <1>0, <3>1, <3>3, <3>6 DEF CardsOut
      <4>2. QED
        BY <2>3, <3>4, <4>1 DEF Publish, Passes
    <3>7. QED
      BY <3>5, <3>6
  <2>4. ASSUME NEW u \in Trade, PublishFails(s, u)
        PROVE  UNCHANGED <<cards, shown, aborted>> /\ dropped \subseteq dropped'
    BY <2>4 DEF PublishFails, Passes
  <2>5. CASE Killed(s)
    BY <1>0, <1>1, <2>5 DEF Killed
  <2>6. QED
    BY <1>0, <1>1, <1>7, <2>1, <2>2, <2>3, <2>4, <2>5 DEF SyncStep
<1>8. CardsOut(t)' \in Nat
  BY TypeStep DEF CardsOut, TradeLedgerTypeOK
<1>9. QED
  BY <1>8, <1>0, <1>1, <1>3, <1>4, <1>5, <1>6, <1>7 DEF TradeLedgerNext

(* A sync pays what it owes, hands it on to itself, or dies over it. *)
LEMMA OwedIsSettled ==
  ASSUME TradeLedgerTypeOK, CardInv, [TradeLedgerNext]_tradeLedgerVars,
         NEW t \in Trade, NEW r \in Sync, Owes(r, t)
  PROVE  Fine(t)'
<1> USE DEF exchange, history
<1>0. sync \in [Sync -> SyncState]
  BY DEF TradeLedgerTypeOK, SyncState, SyncPcs
<1>1. ASSUME sync'[r].fresh = sync[r].fresh, sync'[r].pc = sync[r].pc PROVE Fine(t)'
  BY <1>1 DEF Fine, Owes
<1>2. CASE UNCHANGED tradeLedgerVars
  BY <1>1, <1>2 DEF tradeLedgerVars
<1>3. ASSUME NEW u, NEW to, NEW byTrader, Trades(u, to, byTrader) PROVE Fine(t)'
  BY <1>1, <1>3 DEF Trades
<1>4. CASE RecordRead \/ RecordWrite
  BY <1>1, <1>4 DEF RecordRead, RecordWrite
<1>5. CASE Tick
  BY <1>0, <1>1, <1>5 DEF Tick, SyncState
<1>6. ASSUME Passed(t) PROVE Fine(t)'
  <2>1. CASE t \in dropped
    BY <2>1, HistoryGrows DEF Fine
  <2>2. CASE t \notin dropped
    <3>1. CardsOut(t) > 0
      BY <1>6, <2>2 DEF CardInv, Carded, Marked
    <3>2. CardsOut(t)' > 0
      BY <3>1, HistoryGrows
    <3>3. QED
      BY <3>2 DEF Fine
  <2>3. QED
    BY <2>1, <2>2
<1>7. ASSUME NEW s \in Sync, SyncStep(s) PROVE Fine(t)'
  <2>1. CASE r # s
    BY <1>1, <1>7, <2>1, SyncStepMovesOne
  <2>2. CASE r = s
    <3>0. sync[s] \in SyncState
      BY <1>0
    <3>1. CASE Start(s) \/ FetchHistory(s) \/ FetchPositions(s) \/ WriteLedger(s)
      BY <2>2, <3>1 DEF Start, FetchHistory, FetchPositions, WriteLedger, Owes
    <3>2. CASE WriteSidecar(s)
      <4>1. sync'[s].pc = "notify" /\ sync'[s].fresh = sync[s].fresh
        BY <1>0, <2>2, <3>0, <3>2 DEF WriteSidecar, Announce, Owes, SyncState
      <4>2. QED
        BY <2>2, <4>1 DEF Fine, Owes
    <3>3. CASE NotifyStart(s)
      <4>1. CASE t \in notified
        BY <1>6, <4>1 DEF Passed
      <4>2. CASE t \notin notified
        <5>1. sync'[s].pc = "publish" /\ t \in sync'[s].fresh
          BY <1>0, <2>2, <3>0, <3>3, <4>2 DEF NotifyStart, Enter, Owes, SyncState
        <5>2. QED
          BY <5>1 DEF Fine, Owes
      <4>3. QED
        BY <4>1, <4>2
    <3>4. ASSUME NEW u, Passes(s, u) PROVE Fine(t)'
      <4>1. sync'[s].pc = sync[s].pc /\ sync'[s].fresh = sync[s].fresh
        BY <1>0, <3>0, <3>4 DEF Passes, SyncState
      <4>2. QED
        BY <1>1, <2>2, <4>1
    <3>5. CASE SaveNotified(s)
      BY <1>6, <2>2, <3>5 DEF SaveNotified, Owes, Passed
    <3>6. CASE Killed(s)
      BY <2>2, <3>6 DEF Killed, Owes, Fine
    <3>7. QED
      BY <1>7, <3>1, <3>2, <3>3, <3>4, <3>5, <3>6 DEF SyncStep, Publish, PublishFails
  <2>3. QED
    BY <2>1, <2>2
<1>8. QED
  BY <1>2, <1>3, <1>4, <1>5, <1>7 DEF TradeLedgerNext

LEMMA FineStays ==
  ASSUME TradeLedgerTypeOK, CardInv, [TradeLedgerNext]_tradeLedgerVars,
         NEW t \in Trade, Fine(t)
  PROVE  Fine(t)'
<1>1. CASE \E r \in Sync : Owes(r, t)
  BY <1>1, OwedIsSettled
<1>2. CASE CardsOut(t) > 0
  <2>1. CardsOut(t)' > 0
    BY <1>2, HistoryGrows
  <2>2. QED
    BY <2>1 DEF Fine
<1>3. CASE t \in dropped \/ Part \in shown[t] \/ t \in aborted
  BY <1>3, HistoryGrows DEF Fine
<1>4. QED
  BY <1>1, <1>2, <1>3 DEF Fine

(* The rows a process holds stay fine while it does not move, ... *)
LEMMA BookStays ==
  ASSUME TradeLedgerTypeOK, CardInv, FineInv, [TradeLedgerNext]_tradeLedgerVars, NEW r \in Sync,
         sync'[r].pc = sync[r].pc, sync'[r].book = sync[r].book, sync'[r].fresh = sync[r].fresh
  PROVE  BookFine(r)'
<1>1. \A t \in Trade : (Fine(t) => Fine(t)') /\ shown[t] \subseteq shown'[t]
  BY FineStays, HistoryGrows
<1>2. \A t \in Trade : venue[t] = "closed" => venue'[t] = "closed"
  <2>1. ASSUME NEW u \in Trade, NEW to \in Stage, NEW byTrader, Trades(u, to, byTrader)
        PROVE  \A t \in Trade : venue[t] = "closed" => venue'[t] = "closed"
    BY <2>1 DEF Trades, Moves, TradeLedgerTypeOK
  <2>2. CASE UNCHANGED venue
    BY <2>2
  <2>3. ASSUME NEW s \in Sync, SyncStep(s) PROVE UNCHANGED venue
    BY <2>3 DEF SyncStep, Start, FetchHistory, FetchPositions, WriteLedger, WriteSidecar,
         NotifyStart, SaveNotified, Publish, PublishFails, Passes, Killed, exchange
  <2>4. QED
    BY <2>1, <2>2, <2>3
       DEF TradeLedgerNext, tradeLedgerVars, RecordRead, RecordWrite, Tick, exchange
<1>3. BookFine(r)
  BY DEF FineInv
<1>4. QED
  BY <1>1, <1>2, <1>3 DEF BookFine, RowsFine

(* ... and while it reads and merges them: what it finds newly closed is on *)
(* its list, and what it finds closed and knew in part has an excuse.       *)
LEMMA BookRead ==
  ASSUME TradeLedgerTypeOK, CardInv, FineInv, [TradeLedgerNext]_tradeLedgerVars, NEW s \in Sync,
         FetchHistory(s) \/ FetchPositions(s)
  PROVE  BookFine(s)'
<1>0. sync \in [Sync -> SyncState] /\ sync[s] \in SyncState /\ sync[s].book \in Ledger
  BY DEF TradeLedgerTypeOK, SyncState, SyncPcs
<1>1. \A t \in Trade : Fine(t) => Fine(t)'
  BY FineStays
<1>2. UNCHANGED venue
  BY DEF FetchHistory, FetchPositions, exchange
<1>3. BookFine(s)
  BY DEF FineInv
<1>4. CASE FetchHistory(s)
  <2>1. sync[s].pc = "history" /\ RowsFine(sync[s].book.row) /\ sync[s].fresh = {}
    BY <1>3, <1>4 DEF BookFine, FetchHistory
  <2>2. CASE sync' = [sync EXCEPT ![s] = WithHistory(sync[s])]
    <3>1. /\ sync'[s].pc = "positions"
          /\ \A t \in Trade : sync'[s].book.row[t] =
               IF HistoryNow[t] # None THEN HistoryNow[t] ELSE sync[s].book.row[t]
          /\ sync'[s].fresh = {t \in Trade : HistoryNow[t] # None /\ sync[s].book.row[t] = None}
      BY <1>0, <2>2 DEF WithHistory, SyncState, Ledger
    <3>2. ASSUME NEW t \in Trade, sync'[s].book.row[t] = All
          PROVE  Fine(t)' \/ (t \in sync'[s].fresh /\ venue'[t] = "closed")
      <4>1. CASE HistoryNow[t] = None
        BY <1>1, <2>1, <3>1, <3>2, <4>1 DEF RowsFine
      <4>2. CASE HistoryNow[t] # None
        <5>1. HistoryNow[t] = All
          BY <3>1, <3>2, <4>2
        <5>2. venue'[t] = "closed"
          BY <1>2, <5>1, ConstantTypes DEF HistoryNow, Sold
        <5>3. sync[s].book.row[t] \in Level
          BY <1>0 DEF Ledger
        <5>4. CASE sync[s].book.row[t] = None
          BY <3>1, <4>2, <5>2, <5>4
        <5>5. CASE sync[s].book.row[t] = All
          BY <1>1, <2>1, <5>5 DEF RowsFine
        <5>6. CASE sync[s].book.row[t] = Part
          BY <1>1, <2>1, <5>6 DEF RowsFine, Fine
        <5>7. QED
          BY <5>3, <5>4, <5>5, <5>6, ConstantTypes
      <4>3. QED
        BY <4>1, <4>2
    <3>3. QED
      BY <3>1, <3>2 DEF BookFine
  <2>3. CASE sync' = [sync EXCEPT ![s] = GiveUp(sync[s])]
    <3>1. sync'[s].pc = "ledger" /\ sync'[s].book = sync[s].book
      BY <1>0, <2>3 DEF GiveUp, SyncState
    <3>2. QED
      BY <1>1, <2>1, <3>1 DEF BookFine, RowsFine
  <2>4. QED
    BY <1>4, <2>2, <2>3 DEF FetchHistory
<1>5. CASE FetchPositions(s)
  <2>1. /\ sync'[s].pc = "ledger" /\ sync'[s].book.row = sync[s].book.row
        /\ \A t \in sync[s].fresh : venue[t] = "closed" => t \in sync'[s].fresh
    <3>1. \A z \in SyncState : /\ GiveUp(z).pc = "ledger" /\ GiveUp(z).book = z.book
                               /\ GiveUp(z).fresh = z.fresh
      BY DEF GiveUp, SyncState
    <3>2. /\ WithPositions(sync[s]).pc = "ledger" /\ WithPositions(sync[s]) \in SyncState
          /\ WithPositions(sync[s]).book.row = sync[s].book.row
          /\ WithPositions(sync[s]).fresh = sync[s].fresh \ PositionsNow
      BY <1>0, ReadType DEF WithPositions, SyncState, Ledger
    <3>3. \A t \in Trade : venue[t] = "closed" => t \notin PositionsNow
      BY DEF PositionsNow
    <3>4. sync[s].fresh \subseteq Trade
      BY <1>0 DEF SyncState
    <3>5. QED
      BY <1>0, <1>5, <3>1, <3>2, <3>3, <3>4 DEF FetchPositions
  <2>2. sync[s].pc = "positions"
    BY <1>5 DEF FetchPositions
  <2>3. QED
    BY <1>1, <1>2, <1>3, <2>1, <2>2 DEF BookFine
<1>6. QED
  BY <1>4, <1>5

LEMMA FineStep ==
  ASSUME TradeLedgerTypeOK, CardInv, FineInv, [TradeLedgerNext]_tradeLedgerVars
  PROVE  FineInv'
<1> USE DEF exchange, history
<1>0. sync \in [Sync -> SyncState]
  BY DEF TradeLedgerTypeOK, SyncState, SyncPcs
<1>1. \A t \in Trade : (Fine(t) => Fine(t)') /\ shown[t] \subseteq shown'[t]
  BY FineStays, HistoryGrows
<1>2. ASSUME UNCHANGED ledger PROVE RowsFine(ledger.row)'
  BY <1>1, <1>2 DEF FineInv, RowsFine
<1>3. ASSUME UNCHANGED recorder PROVE RowsFine(recorder.known.row)'
  BY <1>1, <1>3 DEF FineInv, RowsFine
<1>4. ASSUME UNCHANGED sync PROVE \A s \in Sync : BookFine(s)'
  BY <1>4, BookStays
<1>5. CASE UNCHANGED tradeLedgerVars
  BY <1>2, <1>3, <1>4, <1>5 DEF tradeLedgerVars, FineInv
<1>6. ASSUME NEW u \in Trade, NEW to \in Stage, NEW byTrader, Trades(u, to, byTrader)
      PROVE  FineInv'
  <2>1. UNCHANGED <<ledger, sync>> /\ recorder'.known = recorder.known
    BY <1>6 DEF Trades, TradeLedgerTypeOK
  <2>2. RowsFine(recorder.known.row)'
    BY <1>1, <2>1 DEF FineInv, RowsFine
  <2>3. QED
    BY <1>2, <1>4, <2>1, <2>2 DEF FineInv
<1>7. CASE RecordRead
  <2>1. UNCHANGED <<ledger, sync>> /\ recorder'.known = ledger
    BY <1>7 DEF RecordRead
  <2>2. RowsFine(recorder.known.row)'
    BY <1>1, <2>1 DEF FineInv, RowsFine
  <2>3. QED
    BY <1>2, <1>4, <2>1, <2>2 DEF FineInv
<1>8. CASE RecordWrite
  <2>1. UNCHANGED sync /\ ledger' = recorder.known /\ recorder'.known = Empty
    BY <1>8 DEF RecordWrite
  <2>2. RowsFine(ledger.row)'
    BY <1>1, <2>1 DEF FineInv, RowsFine
  <2>3. RowsFine(recorder.known.row)'
    BY <2>1, ConstantTypes DEF RowsFine, Empty
  <2>4. QED
    BY <1>4, <2>1, <2>2, <2>3 DEF FineInv
<1>9. CASE Tick
  <2>1. \A r \in Sync : /\ sync'[r].pc = sync[r].pc /\ sync'[r].book = sync[r].book
                        /\ sync'[r].fresh = sync[r].fresh
    BY <1>0, <1>9 DEF Tick, SyncState
  <2>2. \A s \in Sync : BookFine(s)'
    BY <2>1, BookStays
  <2>3. QED
    BY <1>2, <1>3, <1>9, <2>2 DEF FineInv, Tick
<1>10. ASSUME NEW s \in Sync, SyncStep(s) PROVE FineInv'
  <2>0. sync[s] \in SyncState
    BY <1>0
  <2>1. \A r \in Sync \ {s} : BookFine(r)'
    BY <1>10, SyncStepMovesOne, BookStays
  <2>2. UNCHANGED recorder
    BY <1>10 DEF SyncStep, Start, FetchHistory, FetchPositions, WriteLedger, WriteSidecar,
         NotifyStart, SaveNotified, Publish, PublishFails, Passes, Killed
  <2>3. CASE WriteLedger(s)
    <3>1. /\ ledger' = sync[s].book /\ sync'[s].pc = "sidecar" /\ sync'[s].fresh = sync[s].fresh
          /\ sync[s].pc = "ledger"
      BY <1>0, <2>0, <2>3 DEF WriteLedger, SyncState
    <3>2. \A t \in Trade : sync[s].book.row[t] = All => Fine(t)'
      <4>1. BookFine(s)
        BY DEF FineInv
      <4>2. \A t \in sync[s].fresh : Fine(t)'
        BY <3>1 DEF Fine, Owes
      <4>3. QED
        BY <1>1, <3>1, <4>1, <4>2 DEF BookFine
    <3>3. \A t \in Trade : sync[s].book.row[t] = Part => Part \in shown'[t]
      BY <2>3 DEF WriteLedger, Show
    <3>4. RowsFine(ledger.row)'
      BY <3>1, <3>2, <3>3 DEF RowsFine
    <3>5. BookFine(s)'
      BY <3>1 DEF BookFine
    <3>6. QED
      BY <1>3, <2>1, <2>2, <3>4, <3>5 DEF FineInv
  <2>4. CASE ~WriteLedger(s)
    <3>1. UNCHANGED ledger
      BY <1>10, <2>4 DEF SyncStep, Start, FetchHistory, FetchPositions, WriteSidecar,
         NotifyStart, SaveNotified, Publish, PublishFails, Passes, Killed
    <3>2. CASE Start(s)
      <4>1. sync'[s].pc = "history" /\ sync'[s].book = ledger /\ sync'[s].fresh = {}
        BY <1>0, <3>2 DEF Start, IdleSync
      <4>2. BookFine(s)'
        BY <1>1, <4>1 DEF BookFine, FineInv, RowsFine
      <4>3. QED
        BY <1>2, <1>3, <2>1, <2>2, <3>1, <4>2 DEF FineInv
    <3>3. CASE FetchHistory(s) \/ FetchPositions(s)
      BY <1>2, <1>3, <2>1, <2>2, <3>1, <3>3, BookRead DEF FineInv
    <3>4. CASE ~(Start(s) \/ FetchHistory(s) \/ FetchPositions(s))
      <4>1. sync'[s].pc \in {"idle", "notify", "publish"}
        <5>1. ASSUME NEW u, Passes(s, u) PROVE sync'[s].pc = "publish"
          BY <1>0, <2>0, <5>1 DEF Passes, SyncState
        <5>2. CASE WriteSidecar(s) \/ NotifyStart(s)
          <6>1. CASE sync' = [sync EXCEPT ![s] = IdleSync]
            BY <1>0, <6>1 DEF IdleSync
          <6>2. CASE sync' # [sync EXCEPT ![s] = IdleSync]
            BY <1>0, <2>0, <5>2, <6>2 DEF WriteSidecar, Announce, NotifyStart, Enter, SyncState
          <6>3. QED
            BY <6>1, <6>2
        <5>3. CASE SaveNotified(s) \/ Killed(s)
          BY <1>0, <5>3 DEF SaveNotified, Killed, IdleSync
        <5>4. QED
          BY <1>10, <2>4, <3>4, <5>1, <5>2, <5>3 DEF SyncStep, Publish, PublishFails
      <4>2. BookFine(s)'
        BY <4>1 DEF BookFine
      <4>3. QED
        BY <1>2, <1>3, <2>1, <2>2, <3>1, <4>2 DEF FineInv
    <3>5. QED
      BY <3>2, <3>3, <3>4
  <2>5. QED
    BY <2>3, <2>4
<1>11. QED
  BY <1>5, <1>6, <1>7, <1>8, <1>9, <1>10 DEF TradeLedgerNext

(* A closed trade in the ledger has its card, a sync that will send it, or one
   of the three excuses (first shown in part, its sync killed, its card refused),
   whatever old rows the overlapping writers put back. *)
THEOREM CloseAnnouncedCorrect == TradeLedgerSpec => []CloseAnnounced
<1> DEFINE IInv == TradeLedgerTypeOK /\ CardInv /\ FineInv
<1>1. TradeLedgerInit => IInv
  <2>1. TradeLedgerInit => TradeLedgerTypeOK
    BY ConstantTypes, EmptyType, TradeLedgerAssumption
       DEF TradeLedgerInit, TradeLedgerTypeOK, SyncState, SyncPcs, Stage
  <2>2. TradeLedgerInit => CardInv
    BY DEF TradeLedgerInit, CardInv, OneAnnouncer, SentListed, Counted, Carded, CardsOut, Marked,
           Passed, IdleSync
  <2>3. TradeLedgerInit => FineInv
    BY ConstantTypes DEF TradeLedgerInit, FineInv, RowsFine, BookFine, Empty, IdleSync
  <2>4. QED
    BY <2>1, <2>2, <2>3
<1>2. IInv /\ [TradeLedgerNext]_tradeLedgerVars => IInv'
  BY TypeStep, CardStep, FineStep
<1>3. IInv => CloseAnnounced
  BY DEF FineInv, RowsFine, Fine, Owes, CloseAnnounced, CardsOut
<1>4. QED
  BY <1>1, <1>2, <1>3, PTL DEF TradeLedgerSpec

-----------------------------------------------------------------------------
(* GateSeesOldLosses.  A status that says all went well speaks for a sync   *)
(* that began at most SyncLimit before it was written: every sale older     *)
(* than that sync was in the history it fetched, so in its book, so in the  *)
(* ledger it wrote.                                                         *)
Shows(t) == Sold(venue[t]) = None \/ Sold(venue[t]) \in shown[t]
SidecarTells ==
  ~sidecar.failed /\ sidecar.age <= MaxAge =>
    \A t \in Trade : since[t] > sidecar.age + SyncLimit => Shows(t)
SyncTells(s) ==
  ~sync[s].failed =>
    /\ sync[s].pc \in {"positions", "ledger"} =>
         \A t \in Trade : since[t] > sync[s].age =>
                            Sold(venue[t]) = None \/ sync[s].book.row[t] = Sold(venue[t])
    /\ sync[s].pc = "sidecar" => \A t \in Trade : since[t] > sync[s].age => Shows(t)
GateInv == SidecarTells /\ \A s \in Sync : SyncTells(s)

LEMMA ShowsStays ==
  ASSUME TradeLedgerTypeOK, [TradeLedgerNext]_tradeLedgerVars, UNCHANGED venue,
         NEW t \in Trade, Shows(t)
  PROVE  Shows(t)'
<1>1. shown[t] \subseteq shown'[t]
  BY HistoryGrows
<1>2. Sold(venue[t])' = Sold(venue[t])
  BY DEF Sold
<1>3. QED
  BY <1>1, <1>2 DEF Shows

LEMMA SyncTellsStays ==
  ASSUME TradeLedgerTypeOK, [TradeLedgerNext]_tradeLedgerVars, UNCHANGED <<venue, since>>,
         NEW s \in Sync, SyncTells(s), sync'[s] = sync[s]
  PROVE  SyncTells(s)'
<1>1. \A t \in Trade : Shows(t) => Shows(t)'
  BY ShowsStays
<1>2. \A t : Sold(venue[t])' = Sold(venue[t])
  BY DEF Sold
<1>3. QED
  BY <1>1, <1>2 DEF SyncTells

(* A sale resets the clock of its trade, so nothing is claimed of it. *)
LEMMA GateAfterSale ==
  ASSUME TradeLedgerTypeOK, GateInv, [TradeLedgerNext]_tradeLedgerVars,
         NEW u \in Trade, NEW to \in Stage, NEW byTrader, Trades(u, to, byTrader)
  PROVE  GateInv'
<1>1. /\ UNCHANGED <<ledger, sidecar, sync, shown>> /\ since'[u] = 0
      /\ \A t \in Trade \ {u} : venue'[t] = venue[t] /\ since'[t] = since[t]
  BY DEF Trades, history, TradeLedgerTypeOK
<1>2. \A t \in Trade \ {u} : (Shows(t) => Shows(t)') /\ Sold(venue[t])' = Sold(venue[t])
  BY <1>1 DEF Shows, Sold
<1>3. SidecarTells'
  <2>1. sidecar.age + SyncLimit \in Nat
    BY ConstantTypes DEF TradeLedgerTypeOK
  <2>2. ~(since'[u] > sidecar.age + SyncLimit)
    BY <1>1, <2>1
  <2>3. QED
    BY <1>1, <1>2, <2>2 DEF GateInv, SidecarTells
<1>4. ASSUME NEW s \in Sync PROVE SyncTells(s)'
  <2>1. sync[s].age \in Nat
    BY ConstantTypes DEF TradeLedgerTypeOK
  <2>2. ~(since'[u] > sync[s].age)
    BY <1>1, <2>1
  <2>3. QED
    BY <1>1, <1>2, <2>2 DEF GateInv, SyncTells
<1>5. QED
  BY <1>3, <1>4 DEF GateInv

(* A tick makes the status, the syncs and the sales older alike. *)
LEMMA GateAfterTick ==
  ASSUME TradeLedgerTypeOK, GateInv, [TradeLedgerNext]_tradeLedgerVars, Tick
  PROVE  GateInv'
<1>0. sync \in [Sync -> SyncState] /\ UNCHANGED <<venue, shown>>
  BY DEF TradeLedgerTypeOK, SyncState, SyncPcs, Tick, history
<1>1. \A t \in Trade : (Shows(t) => Shows(t)') /\ Sold(venue[t])' = Sold(venue[t])
  BY <1>0 DEF Shows, Sold
<1>2. ASSUME NEW t \in Trade, NEW age \in Nat, age <= MaxAge + SyncLimit,
             since'[t] > age + 1
      PROVE  since[t] > age
  BY <1>2, ConstantTypes DEF Tick, Older, TradeLedgerTypeOK
<1>3. SidecarTells'
  <2>1. SUFFICES ASSUME ~sidecar'.failed, sidecar'.age <= MaxAge,
                        NEW t \in Trade, since'[t] > sidecar'.age + SyncLimit
                 PROVE  Shows(t)'
    BY DEF SidecarTells
  <2>2. sidecar'.age = sidecar.age + 1 /\ ~sidecar.failed /\ sidecar.age \in Nat
    BY <2>1, ConstantTypes DEF Tick, Older, TradeLedgerTypeOK
  <2>3. /\ sidecar.age + SyncLimit \in Nat /\ sidecar.age + SyncLimit <= MaxAge + SyncLimit
        /\ sidecar'.age + SyncLimit = (sidecar.age + SyncLimit) + 1 /\ sidecar.age <= MaxAge
    BY <2>1, <2>2, ConstantTypes
  <2>4. since[t] > sidecar.age + SyncLimit
    BY <1>2, <2>1, <2>3
  <2>5. QED
    BY <1>1, <2>2, <2>3, <2>4 DEF GateInv, SidecarTells
<1>4. ASSUME NEW s \in Sync PROVE SyncTells(s)'
  <2>1. CASE sync[s].pc = "idle"
    BY <1>0, <2>1 DEF Tick, SyncTells
  <2>2. CASE sync[s].pc # "idle"
    <3>1. /\ sync'[s].age = sync[s].age + 1 /\ sync'[s].pc = sync[s].pc
          /\ sync'[s].failed = sync[s].failed /\ sync'[s].book = sync[s].book
      BY <1>0, <2>2 DEF Tick, SyncState
    <3>2. sync[s].age \in Nat /\ sync[s].age <= MaxAge + SyncLimit
      BY ConstantTypes DEF TradeLedgerTypeOK
    <3>3. \A t \in Trade : since'[t] > sync'[s].age => since[t] > sync[s].age
      BY <1>2, <3>1, <3>2
    <3>4. QED
      BY <1>1, <3>1, <3>3 DEF GateInv, SyncTells
  <2>3. QED
    BY <2>1, <2>2
<1>5. QED
  BY <1>3, <1>4 DEF GateInv

LEMMA GateStep ==
  ASSUME TradeLedgerTypeOK, GateInv, [TradeLedgerNext]_tradeLedgerVars
  PROVE  GateInv'
<1> USE DEF exchange, history
<1>0. sync \in [Sync -> SyncState]
  BY DEF TradeLedgerTypeOK, SyncState, SyncPcs
<1>1. ASSUME UNCHANGED <<venue, since, sidecar>> PROVE SidecarTells'
  <2>1. \A t \in Trade : Shows(t) => Shows(t)'
    BY <1>1, ShowsStays
  <2>2. QED
    BY <1>1, <2>1 DEF GateInv, SidecarTells
<1>2. ASSUME UNCHANGED <<venue, since, sidecar, sync>> PROVE GateInv'
  <2>1. \A s \in Sync : SyncTells(s)'
    BY <1>2, SyncTellsStays DEF GateInv
  <2>2. QED
    BY <1>1, <1>2, <2>1 DEF GateInv
<1>3. CASE UNCHANGED tradeLedgerVars
  BY <1>2, <1>3 DEF tradeLedgerVars
<1>4. CASE RecordRead \/ RecordWrite
  BY <1>2, <1>4 DEF RecordRead, RecordWrite
<1>5. ASSUME NEW s \in Sync, SyncStep(s) PROVE GateInv'
  <2>0. sync[s] \in SyncState /\ sync[s].book \in Ledger /\ SyncTells(s)
    BY <1>0 DEF SyncState, GateInv
  <2>1. UNCHANGED <<venue, since>>
    BY <1>5 DEF SyncStep, Start, FetchHistory, FetchPositions, WriteLedger, WriteSidecar,
         NotifyStart, SaveNotified, Publish, PublishFails, Passes, Killed
  <2>2. \A r \in Sync \ {s} : SyncTells(r)'
    BY <1>5, <2>1, SyncStepMovesOne, SyncTellsStays DEF GateInv
  <2>3. \A t \in Trade : (Shows(t) => Shows(t)') /\ Sold(venue[t])' = Sold(venue[t])
    BY <2>1, ShowsStays DEF Sold
  <2>4. CASE FetchHistory(s)
    <3>1. ASSUME sync' = [sync EXCEPT ![s] = WithHistory(sync[s])] PROVE SyncTells(s)'
      <4>1. /\ sync'[s].pc = "positions"
            /\ \A t \in Trade : sync'[s].book.row[t] =
                 IF HistoryNow[t] # None THEN HistoryNow[t] ELSE sync[s].book.row[t]
        BY <1>0, <2>0, <3>1 DEF WithHistory, SyncState, Ledger
      <4>2. \A t \in Trade : Sold(venue[t])' = None \/ sync'[s].book.row[t] = Sold(venue[t])'
        BY <2>3, <4>1 DEF HistoryNow
      <4>3. QED
        BY <4>1, <4>2 DEF SyncTells
    <3>2. ASSUME sync' = [sync EXCEPT ![s] = GiveUp(sync[s])] PROVE SyncTells(s)'
      <4>1. sync'[s].failed
        BY <1>0, <2>0, <3>2 DEF GiveUp, SyncState
      <4>2. QED
        BY <4>1 DEF SyncTells
    <3>3. SyncTells(s)'
      BY <2>4, <3>1, <3>2 DEF FetchHistory
    <3>4. QED
      BY <1>1, <2>1, <2>2, <2>4, <3>3 DEF FetchHistory, GateInv
  <2>5. CASE FetchPositions(s)
    <3>1. ASSUME sync' = [sync EXCEPT ![s] = WithPositions(sync[s])] PROVE SyncTells(s)'
      <4>1. /\ sync'[s].pc = "ledger" /\ sync'[s].book.row = sync[s].book.row
            /\ sync'[s].failed = sync[s].failed /\ sync'[s].age = sync[s].age
            /\ sync[s].pc = "positions"
        BY <1>0, <2>0, <2>5, <3>1 DEF FetchPositions, WithPositions, SyncState, Ledger
      <4>2. QED
        BY <2>0, <2>1, <2>3, <4>1 DEF SyncTells
    <3>2. ASSUME sync' # [sync EXCEPT ![s] = WithPositions(sync[s])] PROVE SyncTells(s)'
      <4>1. \A z \in SyncState : GiveUp(z).failed
        BY DEF GiveUp, SyncState
      <4>2. sync'[s].failed
        BY <1>0, <2>0, <2>5, <3>2, <4>1, ReadType DEF FetchPositions
      <4>3. QED
        BY <4>2 DEF SyncTells
    <3>3. SyncTells(s)'
      BY <3>1, <3>2
    <3>4. QED
      BY <1>1, <2>1, <2>2, <2>5, <3>3 DEF FetchPositions, GateInv
  <2>6. CASE WriteLedger(s)
    <3>1. /\ sync'[s].pc = "sidecar" /\ sync'[s].failed = sync[s].failed
          /\ sync'[s].age = sync[s].age /\ sync[s].pc = "ledger"
      BY <1>0, <2>0, <2>6 DEF WriteLedger, SyncState
    <3>2. \A t \in Trade : sync[s].book.row[t] \in shown'[t]
      BY <2>6 DEF WriteLedger, Show
    <3>3. \A t \in Trade : since'[t] > sync'[s].age /\ ~sync'[s].failed => Shows(t)'
      BY <2>0, <2>1, <2>3, <3>1, <3>2 DEF SyncTells, Shows
    <3>4. SyncTells(s)'
      BY <3>1, <3>3 DEF SyncTells
    <3>5. QED
      BY <1>1, <2>1, <2>2, <2>6, <3>4 DEF WriteLedger, GateInv
  <2>7. CASE ~(FetchHistory(s) \/ FetchPositions(s) \/ WriteLedger(s))
    <3>1. sync'[s].pc \in {"idle", "history", "notify", "publish"}
      <4>1. ASSUME NEW u, Passes(s, u) PROVE sync'[s].pc = "publish"
        BY <1>0, <2>0, <4>1 DEF Passes, SyncState
      <4>2. CASE Start(s)
        BY <1>0, <4>2 DEF Start, IdleSync
      <4>3. CASE sync' = [sync EXCEPT ![s] = IdleSync]
        BY <1>0, <4>3 DEF IdleSync
      <4>4. CASE (WriteSidecar(s) \/ NotifyStart(s)) /\ sync' # [sync EXCEPT ![s] = IdleSync]
        BY <1>0, <2>0, <4>4 DEF WriteSidecar, Announce, NotifyStart, Enter, SyncState
      <4>5. CASE SaveNotified(s) \/ Killed(s)
        BY <4>3, <4>5 DEF SaveNotified, Killed
      <4>6. QED
        BY <1>5, <2>7, <4>1, <4>2, <4>3, <4>4, <4>5 DEF SyncStep, Publish, PublishFails
    <3>2. SyncTells(s)'
      BY <3>1 DEF SyncTells
    <3>3. CASE WriteSidecar(s) /\ sidecar' = [age |-> 0, failed |-> sync[s].failed]
      <4>1. sync[s].pc = "sidecar" /\ sync[s].age \in 0..SyncLimit
        BY <2>0, <3>3 DEF WriteSidecar, SyncState
      <4>2. \A t \in Trade : since[t] > 0 + SyncLimit => since[t] > sync[s].age
        BY <4>1, ConstantTypes DEF TradeLedgerTypeOK
      <4>3. SidecarTells'
        BY <2>0, <2>1, <2>3, <3>3, <4>1, <4>2 DEF SyncTells, SidecarTells
      <4>4. QED
        BY <2>2, <3>2, <4>3 DEF GateInv
    <3>4. CASE UNCHANGED sidecar
      BY <1>1, <2>1, <2>2, <3>2, <3>4 DEF GateInv
    <3>5. QED
      BY <1>5, <2>7, <3>3, <3>4 DEF SyncStep, Start, WriteSidecar, NotifyStart, SaveNotified,
         Publish, PublishFails, Passes, Killed
  <2>8. QED
    BY <2>4, <2>5, <2>6, <2>7
<1>6. QED
  BY <1>3, <1>4, <1>5, GateAfterSale, GateAfterTick DEF TradeLedgerNext

(* A gate that lets an entry through has seen every loss that is older than a
   status may be plus one sync, unless an older row was put over a newer one. *)
THEOREM GateSeesOldLossesCorrect == TradeLedgerSpec => []GateSeesOldLosses
<1>1. TradeLedgerInit => GateInv
  BY DEF TradeLedgerInit, GateInv, SidecarTells, SyncTells, Shows, Sold, IdleSync
<1>2. TradeLedgerTypeOK /\ GateInv /\ [TradeLedgerNext]_tradeLedgerVars => GateInv'
  BY GateStep
<1>3. TradeLedgerTypeOK /\ GateInv => GateSeesOldLosses
  <2>1. SUFFICES ASSUME TradeLedgerTypeOK, GateInv, MayOpen, \A t \in Trade : ~Overwritten(t)
                 PROVE  SumOver(Trade, Settled) <= LossCap
    BY DEF GateSeesOldLosses
  <2>2. ASSUME NEW t \in Trade
        PROVE  Settled[t] \in Nat /\ Known[t] \in Nat /\ Settled[t] <= Known[t]
    <3>1. /\ Known[t] \in Level /\ Sold(venue[t]) \in Level
          /\ Level \subseteq Nat /\ shown[t] \subseteq Nat
      BY <2>1, SoldType, ConstantTypes DEF Known, TradeLedgerTypeOK, Ledger
    <3>2. CASE since[t] > MaxAge + SyncLimit /\ Sold(venue[t]) # None
      <4>1. since[t] > sidecar.age + SyncLimit
        BY <2>1, <3>2, ConstantTypes DEF MayOpen, TradeLedgerTypeOK
      <4>2. Sold(venue[t]) \in shown[t]
        BY <2>1, <3>2, <4>1 DEF GateInv, SidecarTells, MayOpen, Shows
      <4>3. ~(ledger.row[t] < Sold(venue[t]))
        BY <2>1, <4>2 DEF Overwritten
      <4>4. Settled[t] = Sold(venue[t]) /\ Known[t] = ledger.row[t]
        BY <3>2 DEF Settled, Known
      <4>5. Settled[t] \in Nat /\ Known[t] \in Nat
        BY <3>1, <4>4
      <4>6. ~(Known[t] < Settled[t])
        BY <4>3, <4>4
      <4>7. QED
        BY <4>5, <4>6
    <3>3. CASE ~(since[t] > MaxAge + SyncLimit /\ Sold(venue[t]) # None)
      <4>1. Settled[t] = 0
        BY <3>3 DEF Settled, None
      <4>2. Known[t] \in Nat
        BY <3>1
      <4>3. QED
        BY <4>1, <4>2
    <3>4. QED
      BY <3>2, <3>3
  <2>3. /\ SumOver(Trade, Settled) \in Nat /\ SumOver(Trade, Known) \in Nat
        /\ SumOver(Trade, Settled) <= SumOver(Trade, Known)
    BY <2>2, SumGrows, TradeLedgerAssumption
  <2>4. SumOver(Trade, Known) <= LossCap
    BY <2>1 DEF MayOpen
  <2>5. QED
    BY <2>3, <2>4, TradeLedgerAssumption
<1>4. QED
  BY <1>1, <1>2, <1>3, TradeLedgerTypeCorrect, PTL DEF TradeLedgerSpec

=============================================================================
