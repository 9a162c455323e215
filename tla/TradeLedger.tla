---------------------------- MODULE TradeLedger ----------------------------
(***************************************************************************)
(* The trade ledger data/trading_ledger.json, the status file written      *)
(* beside it, the cards sent for closed trades, and the daily-loss gate    *)
(* that reads the first two.                                               *)
(*                                                                         *)
(* sync_full_ledger.py rebuilds the ledger from the exchange's history and *)
(* positions.  Four callers start it, each in a process of its own: the    *)
(* trading cycle, the dashboard, the backup and the gate itself when the   *)
(* status is too old; each kills it after 60 s.  The trader appends a row  *)
(* of its own for every sale (record_trade).  Nobody locks the ledger.     *)
(*                                                                         *)
(* A row is what the ledger knows to be sold of a trade: nothing, a part,  *)
(* or all of it; OKX keeps one history record per position and rewrites it *)
(* when the rest is sold.  Losses are counted in units of half a trade.    *)
(***************************************************************************)
EXTENDS UnitSums

CONSTANTS
  Trade,
  Sync,        \* callers of sync_full_ledger.py
  MaxAge,      \* ASTRA_LEDGER_SYNC_MAX_AGE_SECONDS, in ticks
  SyncLimit,   \* the timeout of a sync, in ticks
  LossCap,     \* effective_daily_loss_limit, in units
  Faults,      \* what may go wrong: "fetch", "kill", "publish", "save"
  MaxFaults    \* bound on what goes wrong

ASSUME TradeLedgerAssumption ==
  /\ IsFiniteSet(Trade) /\ IsFiniteSet(Sync)
  /\ MaxAge \in Nat /\ SyncLimit \in Nat \ {0} /\ LossCap \in Nat /\ MaxFaults \in Nat
  /\ Faults \subseteq {"fetch", "kill", "publish", "save"}

None == 0   Part == 1   All == 2
Level == {None, Part, All}
OldAge == MaxAge + SyncLimit + 1    \* sales are not told apart beyond this

VARIABLES
  venue,      \* the exchange: a trade is not begun, open, partly sold or closed
  since,      \* ticks since the last sale of it
  ledger,     \* the file: the row of each trade, and the rows of open positions
  sidecar,    \* ledger_sync_status.json
  notified,   \* close_notify_state.json
  sync,       \* every sync process
  recorder,   \* the trader inside record_trade
  faults,
  shown,      \* history: the levels the ledger has ever shown of a trade
  cards,      \* history: cards sent for a trade, half ones and whole ones
  unsaved,    \* history: cards sent whose id was not saved
  aborted,    \* history: trades a sync wrote down and then died over
  dropped     \* history: trades whose last card the publisher refused

exchange == <<venue, since>>
history == <<shown, cards, unsaved, aborted, dropped>>
tradeLedgerVars ==
  <<exchange, ledger, sidecar, notified, sync, recorder, faults, history>>

Stage == {"none", "open", "part", "closed"}
Sold(stage) == CASE stage = "part" -> Part [] stage = "closed" -> All [] OTHER -> None
HistoryNow == [t \in Trade |-> Sold(venue[t])]
PositionsNow == {t \in Trade : venue[t] \in {"open", "part"}}

Ledger == [row : [Trade -> Level], holding : SUBSET Trade]
Empty == [row |-> [t \in Trade |-> None], holding |-> {}]
IdleSync == [pc |-> "idle", age |-> 0, book |-> Empty, failed |-> FALSE,
             fresh |-> {}, sent |-> {}]

TradeLedgerTypeOK ==
  /\ venue \in [Trade -> Stage] /\ since \in [Trade -> 0..OldAge]
  /\ ledger \in Ledger
  /\ sidecar \in [age : 0..(MaxAge + 1), failed : BOOLEAN]
  /\ notified \subseteq Trade
  /\ sync \in [Sync ->
       [pc : {"idle", "history", "positions", "ledger", "sidecar", "notify", "publish"},
        age : 0..SyncLimit, book : Ledger, failed : BOOLEAN,
        fresh : SUBSET Trade, sent : SUBSET Trade]]
  /\ recorder \in [pc : {"idle", "due", "read"}, known : Ledger]
  /\ faults \in 0..MaxFaults
  /\ shown \in [Trade -> SUBSET Level]
  /\ cards \in [Trade -> [half : Nat, whole : Nat]]
  /\ unsaved \in [Trade -> Nat] /\ aborted \subseteq Trade /\ dropped \subseteq Trade

TradeLedgerInit ==
  /\ venue = [t \in Trade |-> "none"] /\ since = [t \in Trade |-> 0]
  /\ ledger = Empty
  /\ sidecar = [age |-> 0, failed |-> FALSE]
  /\ notified = {}
  /\ sync = [s \in Sync |-> IdleSync]
  /\ recorder = [pc |-> "idle", known |-> Empty]
  /\ faults = 0
  /\ shown = [t \in Trade |-> {}]
  /\ cards = [t \in Trade |-> [half |-> 0, whole |-> 0]]
  /\ unsaved = [t \in Trade |-> 0] /\ aborted = {} /\ dropped = {}

Fault(kind) == kind \in Faults /\ faults < MaxFaults /\ faults' = faults + 1

-----------------------------------------------------------------------------
(* The exchange: a position opens, is partly sold, and ends; a leg does it *)
(* or the trader, who then has a row to record.                            *)
Moves == {<<"none", "open">>, <<"open", "part">>, <<"open", "closed">>, <<"part", "closed">>}

Trades(t, to, byTrader) ==
  /\ <<venue[t], to>> \in Moves
  /\ venue' = [venue EXCEPT ![t] = to] /\ since' = [since EXCEPT ![t] = 0]
  /\ IF byTrader
     THEN /\ to # "open" /\ recorder.pc = "idle"
          /\ recorder' = [recorder EXCEPT !.pc = "due"]
     ELSE UNCHANGED recorder
  /\ UNCHANGED <<ledger, sidecar, notified, sync, faults, history>>

Show(new) == shown' = [t \in Trade |-> shown[t] \cup {new.row[t]}]

(* record_trade appends a row that has neither id nor status: it counts for *)
(* nothing and the next sync drops it, but all the other rows are written   *)
(* back as they were read.                                                  *)
RecordRead ==
  /\ recorder.pc = "due"
  /\ recorder' = [pc |-> "read", known |-> ledger]
  /\ UNCHANGED <<exchange, ledger, sidecar, notified, sync, faults, history>>

RecordWrite ==
  /\ recorder.pc = "read"
  /\ ledger' = recorder.known /\ Show(recorder.known)
  /\ recorder' = [pc |-> "idle", known |-> Empty]
  /\ UNCHANGED <<exchange, sidecar, notified, sync, faults, cards, unsaved, aborted, dropped>>

-----------------------------------------------------------------------------
(* One sync.  `book` is the ledger it will write: what it read, with the   *)
(* rows it fetches put over it (merge_lifecycle_trades); `fresh` are the   *)
(* trades it will hold for newly closed (pending_notifications): their row *)
(* was not in the ledger it read, and no open position was fetched.        *)
Start(s) ==
  /\ sync[s].pc = "idle"
  /\ sync' = [sync EXCEPT ![s] = [IdleSync EXCEPT !.pc = "history", !.book = ledger]]
  /\ UNCHANGED <<exchange, ledger, sidecar, notified, recorder, faults, history>>

WithHistory(y) ==
  [y EXCEPT !.pc = "positions",
            !.book.row = [t \in Trade |-> IF HistoryNow[t] # None THEN HistoryNow[t]
                                          ELSE y.book.row[t]],
            !.fresh = {t \in Trade : HistoryNow[t] # None /\ y.book.row[t] = None}]

(* Slip: a trade whose position was held at the last sync is left for the  *)
(* next one.                                                               *)
WithPositionsDeferring(y) ==
  [y EXCEPT !.pc = "ledger", !.book.holding = PositionsNow,
            !.fresh = @ \ (PositionsNow \cup y.book.holding)]

(* purge_stale_holding_rows: the positions fetched replace the rows of     *)
(* positions; if the fetch fails the rows stay.                            *)
WithPositions(y) ==
  [y EXCEPT !.pc = "ledger", !.book.holding = PositionsNow, !.fresh = @ \ PositionsNow]

GiveUp(y) == [y EXCEPT !.pc = "ledger", !.failed = TRUE]

FetchHistory(s) ==
  /\ sync[s].pc = "history"
  /\ \/ sync' = [sync EXCEPT ![s] = WithHistory(sync[s])] /\ UNCHANGED faults
     \/ Fault("fetch") /\ sync' = [sync EXCEPT ![s] = GiveUp(sync[s])]
  /\ UNCHANGED <<exchange, ledger, sidecar, notified, recorder, history>>

(* positions() and then orders_history(): if only the second fails, the    *)
(* positions count but the venue is marked as failed.                      *)
FetchPositions(s) ==
  /\ sync[s].pc = "positions"
  /\ \/ sync' = [sync EXCEPT ![s] = WithPositions(sync[s])] /\ UNCHANGED faults
     \/ /\ Fault("fetch")
        /\ \/ sync' = [sync EXCEPT ![s] = GiveUp(sync[s])]
           \/ sync' = [sync EXCEPT ![s] = GiveUp(WithPositions(sync[s]))]
  /\ UNCHANGED <<exchange, ledger, sidecar, notified, recorder, history>>

(* What is left of the book once it is written: the rows to send cards of. *)
CardsOf(y) == [row |-> [t \in Trade |-> IF t \in y.fresh THEN y.book.row[t] ELSE None],
               holding |-> {}]

WriteLedger(s) ==
  /\ sync[s].pc = "ledger"
  /\ ledger' = sync[s].book /\ Show(sync[s].book)
  /\ sync' = [sync EXCEPT ![s] = [@ EXCEPT !.pc = "sidecar", !.book = CardsOf(sync[s])]]
  /\ UNCHANGED <<exchange, sidecar, notified, recorder, faults, cards, unsaved, aborted,
                 dropped>>

(* What is newly closed is announced, if there is any. *)
Announce(s) ==
  sync' = [sync EXCEPT ![s] = IF @.fresh = {} THEN IdleSync
                              ELSE [@ EXCEPT !.pc = "notify", !.failed = FALSE]]

(* Slip: the sidecar says that the sync went well, whatever happened. *)
WriteSidecarAlwaysOk(s) ==
  /\ sync[s].pc = "sidecar" /\ Announce(s)
  /\ sidecar' = [age |-> 0, failed |-> FALSE]
  /\ UNCHANGED <<exchange, ledger, notified, recorder, faults, history>>

(* _write_sync_status; a write that fails is printed and leaves the old file. *)
WriteSidecar(s) ==
  /\ sync[s].pc = "sidecar" /\ Announce(s)
  /\ \/ sidecar' = [age |-> 0, failed |-> sync[s].failed] /\ UNCHANGED faults
     \/ Fault("save") /\ UNCHANGED sidecar
  /\ UNCHANGED <<exchange, ledger, notified, recorder, history>>

-----------------------------------------------------------------------------
(* The cards, under _notify_lock: those already notified are left out.     *)
Enter(s) ==
  LET new == sync[s].fresh \ notified
  IN sync' = [sync EXCEPT ![s] = IF new = {} THEN IdleSync
                                 ELSE [@ EXCEPT !.pc = "publish", !.fresh = new]]

(* Slip: the lock is not waited for. *)
NotifyStartUnlocked(s) ==
  /\ sync[s].pc = "notify" /\ Enter(s)
  /\ UNCHANGED <<exchange, ledger, sidecar, notified, recorder, faults, history>>

NotifyStart(s) ==
  /\ sync[s].pc = "notify"
  /\ \A r \in Sync : sync[r].pc # "publish"
  /\ Enter(s)
  /\ UNCHANGED <<exchange, ledger, sidecar, notified, recorder, faults, history>>

Count(t, y) ==
  cards' = IF y.book.row[t] = All THEN [cards EXCEPT ![t].whole = @ + 1]
                                  ELSE [cards EXCEPT ![t].half = @ + 1]

(* The loop over the cards: each trade it has been through will be saved.  *)
Passes(s, t) ==
  /\ sync[s].pc = "publish" /\ t \in sync[s].fresh \ sync[s].sent
  /\ sync' = [sync EXCEPT ![s].sent = @ \cup {t}]
  /\ UNCHANGED <<exchange, ledger, sidecar, notified, recorder, shown, unsaved, aborted>>

Publish(s, t) ==
  /\ Passes(s, t) /\ Count(t, sync[s])
  /\ dropped' = dropped \ {t}
  /\ UNCHANGED faults

(* _publish swallows the exception and returns False, which nobody reads:  *)
(* the card is not sent, and the loop goes on as if it were.               *)
PublishFails(s, t) ==
  /\ Passes(s, t) /\ Fault("publish")
  /\ dropped' = dropped \cup {t}
  /\ UNCHANGED cards

(* A card was sent and its id is not saved. *)
Unsave(s) ==
  unsaved' = [t \in Trade |-> IF t \in sync[s].sent \ dropped THEN unsaved[t] + 1
                              ELSE unsaved[t]]

(* _save_notified, once after all the cards; a failure is only printed.    *)
SaveNotified(s) ==
  /\ sync[s].pc = "publish" /\ sync[s].fresh = sync[s].sent
  /\ \/ notified' = notified \cup sync[s].sent /\ UNCHANGED <<faults, unsaved>>
     \/ Fault("save") /\ Unsave(s) /\ UNCHANGED notified
  /\ sync' = [sync EXCEPT ![s] = IdleSync]
  /\ UNCHANGED <<exchange, ledger, sidecar, recorder, shown, cards, aborted, dropped>>

(* The process is killed: what it published is not saved, what it wrote to *)
(* the ledger and did not publish will not look new again.                 *)
Killed(s) ==
  /\ sync[s].pc # "idle" /\ Fault("kill")
  /\ sync' = [sync EXCEPT ![s] = IdleSync]
  /\ Unsave(s)
  /\ aborted' = IF sync[s].pc \in {"sidecar", "notify", "publish"}
                THEN aborted \cup sync[s].fresh
                ELSE aborted
  /\ UNCHANGED <<exchange, ledger, sidecar, notified, recorder, shown, cards, dropped>>

(* Time passes; a sync whose time is up is finished or killed first.       *)
Older(n, cap) == IF n < cap THEN n + 1 ELSE n
Tick ==
  /\ recorder.pc # "read"       \* a read-modify-write takes less than a tick
  /\ \A s \in Sync : sync[s].pc # "idle" => sync[s].age < SyncLimit
  /\ since' = [t \in Trade |-> IF Sold(venue[t]) = None THEN 0 ELSE Older(since[t], OldAge)]
  /\ sidecar' = [sidecar EXCEPT !.age = Older(@, MaxAge + 1)]
  /\ sync' = [s \in Sync |-> IF sync[s].pc = "idle" THEN sync[s]
                             ELSE [sync[s] EXCEPT !.age = @ + 1]]
  /\ UNCHANGED <<venue, ledger, notified, recorder, faults, history>>

-----------------------------------------------------------------------------
SyncStep(s) ==
  \/ Start(s) \/ FetchHistory(s) \/ FetchPositions(s) \/ WriteLedger(s) \/ WriteSidecar(s)
  \/ NotifyStart(s) \/ SaveNotified(s) \/ Killed(s)
  \/ \E t \in Trade : Publish(s, t) \/ PublishFails(s, t)

TradeLedgerNext ==
  \/ \E t \in Trade, to \in Stage, byTrader \in BOOLEAN : Trades(t, to, byTrader)
  \/ RecordRead \/ RecordWrite \/ Tick
  \/ \E s \in Sync : SyncStep(s)

TradeLedgerSpec == TradeLedgerInit /\ [][TradeLedgerNext]_tradeLedgerVars

-----------------------------------------------------------------------------
(* The daily-loss part of is_circuit_breaker_active: no new position while *)
(* the status is too old or says a fetch failed, or the losses the ledger  *)
(* shows are beyond the cap.                                               *)
Known == ledger.row
MayOpen ==
  /\ ~sidecar.failed /\ sidecar.age <= MaxAge
  /\ SumOver(Trade, Known) <= LossCap

(* What was sold longer ago than a status may be old and a sync may take.  *)
Settled == [t \in Trade |-> IF since[t] > MaxAge + SyncLimit THEN Sold(venue[t]) ELSE None]
Overwritten(t) == \E level \in shown[t] : ledger.row[t] < level

(* The gate never opens over losses that were settled longer ago than the  *)
(* status may be old plus the time of one sync, however many syncs and     *)
(* record_trade calls run into each other and whatever fails: unless some  *)
(* writer put an older row back over a newer one, which nothing prevents.  *)
GateSeesOldLosses ==
  MayOpen => SumOver(Trade, Settled) <= LossCap \/ \E t \in Trade : Overwritten(t)

(* One card per trade: a second one needs a card whose id was not saved,   *)
(* however many syncs find the same trade newly closed.                    *)
CardsExcused == \A t \in Trade : cards[t].half + cards[t].whole <= 1 + unsaved[t]

(* A closed trade the ledger shows has its card or a sync that will send   *)
(* it, unless its row was first written while part of it was still open,   *)
(* the sync that wrote it down was killed over it, or the publisher        *)
(* refused the card, which nobody tries again: no overlap of syncs loses a *)
(* card.                                                                   *)
CloseAnnounced ==
  \A t \in Trade :
    (ledger.row[t] = All /\ \A s \in Sync : t \notin sync[s].fresh) =>
      \/ cards[t].half + cards[t].whole > 0
      \/ Part \in shown[t] \/ t \in aborted \/ t \in dropped

(* "Only what was really sent is remembered (publishing raises => not      *)
(* remembered => the next round tries again)", notify.py:231-232.  But the *)
(* publisher raises nothing: a refused card is remembered as sent.         *)
OnlySentRemembered ==
  \A t \in notified : cards[t].half + cards[t].whole > 0

(* The end of a trade is always announced: "the final close is certain to  *)
(* be sent, the id does not eat it" (notify.py, _still_open).  When a sync *)
(* sees a half-sold position it defers the card but writes the row, and    *)
(* the next sync takes that row for an announced one.                      *)
FinalCloseAnnounced ==
  \A t \in Trade :
    (ledger.row[t] = All /\ \A s \in Sync : sync[s].pc = "idle") => cards[t].whole > 0
=============================================================================
