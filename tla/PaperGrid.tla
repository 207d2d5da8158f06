------------------------------ MODULE PaperGrid ------------------------------
(***************************************************************************)
(* The order process P3 in the default configuration: paper mode with the  *)
(* grid_bias strategy (src/src/order/process.py).  It reads GridSignals    *)
(* from the signal queue, GridPositionManager opens and closes one micro-  *)
(* position per (symbol, level), and a periodic monitor closes positions   *)
(* by price, time limit and trailing stop.  Three places hold a position:  *)
(*   rows      the positions table, which survives P3 ;                    *)
(*   levelPos  the memory of GridPositionManager: level -> row ;           *)
(*   exec      the memory of PaperExecutor: order -> symbol.               *)
(* A row and the order opened with it have the same number here: both are  *)
(* allocated once, by the same step, and never reused.                     *)
(* Prices, quantities and balances are abstracted: which price conditions  *)
(* hold is a free choice, and exposure counts positions.                   *)
(***************************************************************************)
EXTENDS Integers, Sequences, FiniteSets, Functions

CONSTANTS
    Symbols,        \* traded symbols
    Levels,         \* level indices of a grid: negative buys, positive sells
    Acts,           \* grid signal actions that occur
    QueueCap,       \* capacity of the signal queue (main.py: 100)
    MaxExposure,    \* positions the exposure limit leaves room for
    MaxOpens,       \* bound: positions opened in a behaviour
    MaxCrashes      \* bound: times P3 stops or dies in a behaviour

ASSUME LevelsAssumption == Levels \subseteq {l \in Int : l > -100 /\ l # 0}
ASSUME ActsAssumption == Acts \subseteq {"FILL", "TP_HIT", "CLOSE_ALL", "RECENTER", "SETUP"}
ASSUME BoundsAssumption ==
    /\ QueueCap \in Nat \ {0}
    /\ MaxExposure \in Nat
    /\ MaxOpens \in Nat
    /\ MaxCrashes \in Nat

Ids  == 1 .. MaxOpens
Keys == Symbols \X Int

\* A recenter speaks of the whole grid and leaves level_index at its default 0,
\* as does the SETUP that follows it.
Messages == [act : Acts \ {"RECENTER", "SETUP"}, sym : Symbols, lvl : Levels]
                \cup [act : Acts \cap {"RECENTER", "SETUP"}, sym : Symbols, lvl : {0}]

VARIABLES
    rows,       \* positions table: id -> symbol and level (the level is not a
                \* column: it is a history variable, for the properties only)
    nextId,     \* AUTOINCREMENT of the positions table
    up,         \* P3 is running
    bootId,     \* nextId when P3 last started
    levelPos,   \* _level_positions: (symbol, level_index) -> row
    levelOrd,   \* _level_order_ids: (symbol, level_index) -> order
    exec,       \* PaperAccount.positions: order -> symbol
    traded,     \* symbols in the trade history of the executor
    queue,      \* signal queue; it belongs to the orchestrator and survives P3
    batch,      \* grid signals taken from the queue and not handled yet
    snap,       \* number of open positions in the snapshot the batch uses
    crashes,    \* how often P3 stopped
    wiped,      \* history: positions up to this one were deleted by a reset
    trades      \* history: trade rows inserted per position

vars == <<rows, nextId, up, bootId, levelPos, levelOrd, exec, traded, queue,
          batch, snap, crashes, wiped, trades>>

TypeOK ==
    /\ nextId \in 1 .. MaxOpens + 1
    /\ bootId \in 1 .. nextId
    /\ DOMAIN rows \subseteq 1 .. nextId - 1
    /\ rows \in [DOMAIN rows -> [sym : Symbols, lvl : Levels]]
    /\ up \in BOOLEAN
    /\ DOMAIN levelPos \subseteq Keys
    /\ levelPos \in [DOMAIN levelPos -> 1 .. nextId - 1]
    /\ DOMAIN levelOrd \subseteq Keys
    /\ levelOrd \in [DOMAIN levelOrd -> 1 .. nextId - 1]
    /\ DOMAIN exec \subseteq 1 .. nextId - 1
    /\ exec \in [DOMAIN exec -> Symbols]
    /\ traded \subseteq Symbols
    /\ queue \in Seq(Messages) /\ Len(queue) <= QueueCap
    /\ batch \in Seq(Messages) /\ Len(batch) <= QueueCap
    /\ snap \in 0 .. MaxOpens
    /\ crashes \in 0 .. MaxCrashes
    /\ wiped \in 0 .. MaxOpens /\ wiped < nextId
    /\ trades \in [Ids -> 0 .. MaxCrashes + 1]

Init ==
    /\ rows = <<>> /\ nextId = 1
    /\ up = TRUE /\ bootId = 1
    /\ levelPos = <<>> /\ levelOrd = <<>>
    /\ exec = <<>> /\ traded = {}
    /\ queue = <<>> /\ batch = <<>> /\ snap = 0
    /\ crashes = 0 /\ wiped = 0
    /\ trades = [i \in Ids |-> 0]

-----------------------------------------------------------------------------
\* Maps: the dictionaries of the code and the table.
Put(f, k, v) == [x \in DOMAIN f \cup {k} |-> IF x = k THEN v ELSE f[x]]
Without(f, S) == Restrict(f, DOMAIN f \ S)

KeyOf(m) == <<m.sym, m.lvl>>

\* PaperExecutor.close_position takes the first order of the symbol.
OldestOrder(s) ==
    {o \in DOMAIN exec : exec[o] = s /\ \A p \in DOMAIN exec : exec[p] = s => o <= p}

\* Mutant of OrderOfLevel: a level is closed "by symbol", as non-grid positions are.
OrderOfSymbol(key) == OldestOrder(key[1])

\* The order a level's close reaches: its own when the level knows it, else the
\* first order of the symbol.
OrderOfLevel(key) ==
    IF key \in DOMAIN levelOrd THEN {levelOrd[key]} ELSE OldestOrder(key[1])

\* n further closes "by symbol" remove the n oldest orders of the symbol.
OldestOrders(closing) ==
    {o \in DOMAIN exec :
        Cardinality({p \in DOMAIN exec : exec[p] = exec[o] /\ p < o})
            < Cardinality({i \in closing : rows[i].sym = exec[o]})}

\* Mutant of SyntheticKey: the counter of the symbol is not advanced.
SharedKey(i) == <<rows[i].sym, -100>>

\* restore_from_positions numbers the open rows of a symbol -100, -101, ..., the
\* newest row first.
SyntheticKey(i) ==
    <<rows[i].sym,
      -100 - Cardinality({j \in DOMAIN rows : rows[j].sym = rows[i].sym /\ i < j})>>

RestoredLevels ==
    [k \in {SyntheticKey(i) : i \in DOMAIN rows} |->
        CHOOSE i \in DOMAIN rows : SyntheticKey(i) = k]

\* Mutant of Recorded: PositionTracker.close_position without its check that the
\* row still exists.
RecordedUnchecked(fills, again) ==
    [i \in Ids |-> trades[i] + (IF i \in fills THEN 1 ELSE 0)
                            + (IF i \in again THEN 1 ELSE 0)]

\* Trades inserted when the rows fills are closed, and then the rows again: the
\* tracker inserts none for a row that is already gone.
Recorded(fills, again) ==
    [i \in Ids |-> trades[i] + (IF i \in fills \cup again THEN 1 ELSE 0)]

-----------------------------------------------------------------------------
\* Mutant of HasRoom: a queue without a bound.
AlwaysRoom == TRUE

HasRoom == Len(queue) < QueueCap

\* P2: put_nowait; a full queue drops the signal, which changes nothing.
Send(m) ==
    /\ HasRoom
    /\ queue' = Append(queue, m)
    /\ UNCHANGED <<rows, nextId, up, bootId, levelPos, levelOrd, exec, traded, batch,
                   snap, crashes, wiped, trades>>

\* Empties the queue; the whole batch is judged by one snapshot of the table.
Drain ==
    /\ up /\ batch = <<>> /\ queue # <<>>
    /\ batch' = queue
    /\ queue' = <<>>
    /\ snap' = Cardinality(DOMAIN rows)
    /\ UNCHANGED <<rows, nextId, up, bootId, levelPos, levelOrd, exec, traded,
                   crashes, wiped, trades>>

\* The next signal of the batch.
Handling(m) ==
    /\ up /\ batch # <<>>
    /\ m = Head(batch)
    /\ batch' = Tail(batch)
    /\ snap' = IF Len(batch) = 1 THEN 0 ELSE snap   \* local to the drain
    /\ UNCHANGED <<up, bootId, queue, crashes, wiped>>

\* FILL of a level that is already open, a fill the sizing strategy or the
\* executor rejects, and the actions paper mode does not know.
HandleNothing(m) ==
    /\ Handling(m)
    /\ \/ m.act = "FILL"
       \/ m.act \in {"TP_HIT", "CLOSE_ALL", "RECENTER"} /\ KeyOf(m) \notin DOMAIN levelPos
       \/ m.act = "SETUP"
    /\ UNCHANGED <<rows, nextId, levelPos, levelOrd, exec, traded, trades>>

\* The exposure check of evaluate_grid_fill, against the snapshot.
ExposureAllows == snap + 1 <= MaxExposure

\* Mutant of LevelFree: the level is not looked up first.
LevelUnchecked(m) == TRUE

LevelFree(m) == KeyOf(m) \notin DOMAIN levelPos

\* Mutant of Bought: the row is added although the executor rejected the order.
NotBought(m) == exec

Bought(m) == Put(exec, nextId, m.sym)

HandleFill(m) ==
    /\ Handling(m)
    /\ m.act = "FILL"
    /\ LevelFree(m)
    /\ ExposureAllows
    /\ nextId <= MaxOpens
    /\ rows' = Put(rows, nextId, [sym |-> m.sym, lvl |-> m.lvl])
    /\ levelPos' = Put(levelPos, KeyOf(m), nextId)
    /\ levelOrd' = Put(levelOrd, KeyOf(m), nextId)
    /\ exec' = Bought(m)
    /\ nextId' = nextId + 1
    /\ UNCHANGED <<traded, trades>>

\* TP_HIT, CLOSE_ALL and RECENTER of a level whose row is still open.
HandleClose(m) ==
    LET key == KeyOf(m)
        id  == levelPos[key]
        closed == OrderOfLevel(key) \cap DOMAIN exec
    IN  /\ Handling(m)
        /\ m.act \in {"TP_HIT", "CLOSE_ALL", "RECENTER"}
        /\ key \in DOMAIN levelPos /\ id \in DOMAIN rows
        /\ exec' = Without(exec, closed)
        /\ traded' = traded \cup {exec[o] : o \in closed}
        /\ rows' = Without(rows, {id})
        /\ trades' = Recorded({id}, {})
        /\ levelPos' = Without(levelPos, {key})
        /\ levelOrd' = Without(levelOrd, {key})
        /\ UNCHANGED nextId

\* The same signals when the monitor has closed the row in the meantime: only
\* the level is freed, its order number and the executor are left alone.
HandleStaleClose(m) ==
    /\ Handling(m)
    /\ m.act \in {"TP_HIT", "CLOSE_ALL", "RECENTER"}
    /\ KeyOf(m) \in DOMAIN levelPos /\ levelPos[KeyOf(m)] \notin DOMAIN rows
    /\ levelPos' = Without(levelPos, {KeyOf(m)})
    /\ UNCHANGED <<rows, nextId, levelOrd, exec, traded, trades>>

-----------------------------------------------------------------------------
\* check_sl_tp_fills in paper mode: a row whose symbol has no order left in the
\* executor, but has a trade, counts as filled.
Gone == {i \in DOMAIN rows :
            rows[i].sym \notin Range(exec) /\ rows[i].sym \in traded}

\* One pass of _monitor_positions.  hit: the rows whose stop or target the price
\* has crossed; late: rows past the time limit or their trailing stop.  A fill
\* pops the executor position under the symbol, where none is ever stored, so
\* only the late rows reach the executor, "by symbol".
Monitor(hit, late) ==
    LET filled == Gone \cup hit
        closed == OldestOrders(late)
    IN  /\ up /\ batch = <<>>
        /\ hit \subseteq DOMAIN rows
        /\ late \subseteq DOMAIN rows \ filled
        /\ filled \cup late # {}
        /\ rows' = Without(rows, filled \cup late)
        /\ exec' = Without(exec, closed)
        /\ traded' = traded \cup {exec[o] : o \in closed}
        /\ trades' = Recorded(Gone, hit \cup late)
        /\ UNCHANGED <<nextId, up, bootId, levelPos, levelOrd, queue, batch, snap, crashes,
                       wiped>>

\* trading_reset of the GUI, another process: the paper rows and trades are deleted,
\* and P3 goes on until it is restarted.  (Bound: one reset in a behaviour, while a
\* restart, which it asks for, can still follow.)
Wipe ==
    /\ wiped = 0 /\ crashes < MaxCrashes
    /\ nextId > 1 /\ wiped' = nextId - 1
    /\ rows' = <<>>

Reset ==
    /\ Wipe
    /\ trades' = [i \in Ids |-> 0]
    /\ UNCHANGED <<nextId, up, bootId, levelPos, levelOrd, exec, traded, queue, batch, snap,
                   crashes>>

\* The same in the middle of a pass of the monitor: OrderManager.close_position does
\* not look the late rows up again and inserts their trades.
ResetInPass(late) ==
    LET closed == OldestOrders(late)
    IN  /\ up /\ batch = <<>>
        /\ late # {}
        /\ Wipe
        /\ trades' = [i \in Ids |-> IF i \in late THEN 1 ELSE 0]
        /\ exec' = Without(exec, closed)
        /\ traded' = traded \cup {exec[o] : o \in closed}
        /\ UNCHANGED <<nextId, up, bootId, levelPos, levelOrd, queue, batch, snap, crashes>>

\* P3 is stopped or dies: everything in memory and the rest of the batch are lost.
Down ==
    /\ crashes < MaxCrashes
    /\ up' = FALSE
    /\ crashes' = crashes + 1
    /\ levelPos' = <<>> /\ levelOrd' = <<>>
    /\ exec' = <<>> /\ traded' = {}
    /\ batch' = <<>> /\ snap' = 0
    /\ UNCHANGED <<rows, nextId, bootId, queue, wiped>>

Crash ==
    /\ up
    /\ Down
    /\ UNCHANGED trades

\* close_position inserts the trade and deletes the row in two transactions;
\* P3 is killed between them.
CrashInClose(i) ==
    /\ up
    /\ Down
    /\ trades' = Recorded({i}, {})

\* A new P3: an empty executor, the levels restored from the table.
Start ==
    /\ ~up
    /\ up' = TRUE
    /\ bootId' = nextId
    /\ levelPos' = RestoredLevels
    /\ UNCHANGED <<rows, nextId, levelOrd, exec, traded, queue, batch, snap,
                   crashes, wiped, trades>>

Next ==
    \/ \E m \in Messages : Send(m)
    \/ Drain
    \/ \E m \in Messages : HandleNothing(m)
    \/ \E m \in Messages : HandleFill(m)
    \/ \E m \in Messages : HandleClose(m)
    \/ \E m \in Messages : HandleStaleClose(m)
    \/ \E hit, late \in SUBSET DOMAIN rows : Monitor(hit, late)
    \/ Reset
    \/ \E late \in SUBSET DOMAIN rows : ResetInPass(late)
    \/ Crash
    \/ \E i \in DOMAIN rows : CrashInClose(i)
    \/ Start

Spec == Init /\ [][Next]_vars

-----------------------------------------------------------------------------
OwnKey(i) == <<rows[i].sym, rows[i].lvl>>
RowsOf(s) == {i \in DOMAIN rows : rows[i].sym = s}
OrdersOf(s) == {o \in DOMAIN exec : exec[o] = s}

\* While P3 runs, every open row is held by exactly one level: the dual-mode
\* check of _handle_signal and the two close paths find it, and no two levels
\* close the same row.
RowsTracked ==
    up => /\ IsInjective(levelPos)
          /\ DOMAIN rows \subseteq Range(levelPos)

\* A row opened since P3 started is held by the level it was opened for, so the
\* level's TP_HIT finds it, and a level never has two such rows.
RunRowsReachable ==
    up => \A i \in DOMAIN rows :
            i >= bootId => OwnKey(i) \in DOMAIN levelPos /\ levelPos[OwnKey(i)] = i

\* A signal that closes a row takes no order from the executor but the one the
\* row was opened with, whatever the monitor has closed "by symbol" before.
ClosesOwnOrder ==
    (batch # <<>> /\ up') => \A o \in DOMAIN exec \ DOMAIN exec' :
        o \in DOMAIN rows \ DOMAIN rows'

SignalClosesOwnOrder == [][ClosesOwnOrder]_vars

\* Until P3 stops for the first time the executor has at least as many orders of
\* a symbol as the table has rows, so check_sl_tp_fills closes no row that was
\* not filled.
PaperCoversRows ==
    crashes = 0 => \A s \in Symbols : Cardinality(RowsOf(s)) <= Cardinality(OrdersOf(s))

\* Every position that has left the table has its trade, and only a crash between
\* the two transactions of close_position makes a second one.  What a reset deletes
\* has at most the trade that the pass under way still wrote.
TradesAccounted ==
    \A i \in 1 .. nextId - 1 :
        IF i \in DOMAIN rows THEN i > wiped /\ trades[i] <= crashes
        ELSE IF i <= wiped THEN trades[i] <= 1
        ELSE trades[i] \in 1 .. crashes + 1

\* restore_from_positions: "so that TP_HIT signals can find them".  A row opened
\* before the restart is held by its level.
RestoredReachable ==
    up => \A i \in DOMAIN rows :
            OwnKey(i) \in DOMAIN levelPos /\ levelPos[OwnKey(i)] = i

\* _monitor_positions: "Close in paper executor too".  No order outlives its row.
ExecutorClosedToo == up => DOMAIN exec \subseteq DOMAIN rows

\* The tables keep what PositionBook promises of them.
Book == INSTANCE PositionBook WITH
    Tickets <- Ids,
    open <- DOMAIN rows,
    closed <- (wiped + 1 .. nextId - 1) \ DOMAIN rows,
    wiped <- 1 .. wiped,
    writing <- {},
    again <- {},
    restarts <- crashes

\* Whatever signals, passes of the monitor, resets and crashes do: a number is never
\* used again, a row that goes without a reset has its trade, and a row that stays
\* gets one only when P3 dies (position_tracker.py, db.py).
KeepsBook == Book!Spec

-----------------------------------------------------------------------------
(* The inductive strengthening.                                             *)

\* Positions not opened yet have no history, open ones no result.
HistoryFresh == \A i \in Ids : i >= nextId => trades[i] = 0

\* The level of a row opened in this run knows its order.
RunOrders ==
    up => \A i \in DOMAIN rows :
            i >= bootId => OwnKey(i) \in DOMAIN levelOrd /\ levelOrd[OwnKey(i)] = i

\* Only synthetic keys hold rows of an earlier run.
SignalKeysAreNew ==
    \A k \in DOMAIN levelPos : k[2] > -100 => levelPos[k] >= bootId

\* An order and a row with one number belong to one symbol.
OrdersAgree == \A o \in DOMAIN exec \cap DOMAIN rows : exec[o] = rows[o].sym

IInv == /\ TypeOK
        /\ RowsTracked
        /\ RunRowsReachable
        /\ TradesAccounted
        /\ HistoryFresh
        /\ RunOrders
        /\ SignalKeysAreNew

=============================================================================
