------------------------------ MODULE LiveTrading ------------------------------
(***************************************************************************)
(* P3 trading live with a position strategy: FixedRatioStrategy with its   *)
(* drawdown and loss trackers, OrderManager over LiveExecutor, the monitor *)
(* of open positions, and RecoveryManager, which runs before P3 when the   *)
(* system starts.                                                          *)
(* The exchange keeps one net amount per symbol and the conditional orders *)
(* that rest there; none of the program's orders is reduce-only, so any of *)
(* them trades whatever the position is.  Exchange orders fire between any *)
(* two steps; P3 or the whole system may die between any two of its awaits *)
(* and of its commits.                                                     *)
(* An order is for one unit; prices, fees and sizes are left out, and what *)
(* they decide is a free choice.                                           *)
(***************************************************************************)
EXTENDS Integers, FiniteSets, Functions

CONSTANTS
    Symbols,
    Sides,          \* amounts an entry may have: 1 (long), -1 (short)
    Drawdowns,      \* drawdown stages the balance may ask for
    AutoRecover,    \* drawdown.auto_recover
    MaxConcurrent,  \* max_concurrent_positions
    CooldownAfter,  \* losses in a row before a cooldown
    StopAfter,      \* losses in a row before the daily stop
    MaxTickets,     \* bound: rows ever written
    MaxNet,         \* bound: amount of a symbol on the exchange
    MaxRestarts,    \* bound: restarts while P3 works
    MaxRecoveries   \* bound: restarts, with those in the middle of recovery

ASSUME LiveAssumption ==
    /\ IsFiniteSet(Symbols)
    /\ Sides \subseteq {1, -1} /\ Drawdowns \subseteq 0 .. 3
    /\ AutoRecover \in BOOLEAN
    /\ MaxConcurrent \in Nat \ {0} /\ CooldownAfter \in Nat /\ StopAfter \in Nat
    /\ MaxTickets \in Nat /\ MaxNet \in Nat
    /\ MaxRestarts \in Nat /\ MaxRecoveries \in Nat /\ MaxRestarts <= MaxRecoveries

Tickets == 1 .. MaxTickets
Kinds == {"sl", "tp"}
Amounts == (-MaxNet .. MaxNet) \ {0}

Rows == [ticket : Tickets, sym : Symbols, amount : Amounts,
         orders : SUBSET Kinds, recovered : BOOLEAN]
Orders == [ticket : Tickets, sym : Symbols, amount : Amounts, kind : Kinds]

VARIABLES
    positions,  \* table positions
    trades,     \* table trades: how often the closing of a ticket is recorded
    net,        \* exchange: amount per symbol
    book,       \* exchange: conditional orders that rest
    filled,     \* exchange: conditional orders that fired (order history)
    seen,       \* _processed_fill_ids
    trailing,   \* symbols of _trailing_stops
    losses,     \* loss_tracker.count
    cooling,    \* loss_tracker.cooldown_until is set and not over
    stage,      \* drawdown.stage
    job,        \* what P3, or recovery, is in the middle of
    tickets,    \* rows written so far
    restarts,
    stray       \* history: orders nobody is going to cancel

exchange == <<net, book, filled>>
tables == <<positions, trades, tickets>>
risk == <<losses, cooling, stage>>
vars == <<exchange, tables, risk, seen, trailing, job, restarts, stray>>

NoJob == [op |-> "none"]
RowJobs == [op : {"stop", "target", "record", "cancel"}, row : Rows]

\* A fill the monitor has to process: by an order of the history, or by the price.
Reports == {{}} \cup {{o} : o \in Orders}
Fills == [row : Rows, by : Reports]
FillJobs == [op : {"fills"}, fills : SUBSET Fills]

\* What recovery has read, and what of it, or of the exchange, it has still to settle.
Holdings == [sym : Symbols, amount : Amounts]
Recoveries ==
    [op : {"sync"}, read : SUBSET Rows, left : SUBSET Rows]
        \cup [op : {"adopt"}, read : SUBSET Rows, left : SUBSET Holdings]
        \cup [op : {"expire"}, read : SUBSET Rows]

\* A row that is closed in two commits, the trade and the deletion; whether it is given
\* up with what rests of its orders; and what is gone on with.
Closings == [op : {"write", "delete"}, row : Rows, by : Reports, givenUp : BOOLEAN,
             then : {NoJob} \cup FillJobs \cup Recoveries]
Jobs == {NoJob} \cup RowJobs \cup FillJobs \cup Recoveries \cup Closings

TypeOK ==
    /\ positions \subseteq Rows
    /\ trades \in [Tickets -> Nat]
    /\ net \in [Symbols -> -MaxNet .. MaxNet]
    /\ book \subseteq Orders /\ filled \subseteq Orders
    /\ seen \subseteq Orders /\ stray \subseteq Orders
    /\ trailing \subseteq Symbols
    /\ losses \in Nat /\ cooling \in BOOLEAN /\ stage \in 0 .. 3
    /\ job \in Jobs
    /\ tickets \in 0 .. MaxTickets
    /\ restarts \in 0 .. MaxRecoveries

Init ==
    /\ positions = {} /\ trades = [t \in Tickets |-> 0] /\ tickets = 0
    /\ net = [s \in Symbols |-> 0] /\ book = {} /\ filled = {}
    /\ losses = 0 /\ cooling = FALSE /\ stage = 0
    /\ seen = {} /\ trailing = {} /\ job = NoJob
    /\ restarts = 0 /\ stray = {}

Idle == job = NoJob

\* The exchange executes an order of this amount.
Executes(s, amount) ==
    /\ net[s] + amount \in -MaxNet .. MaxNet
    /\ net' = [net EXCEPT ![s] = @ + amount]

OrderOf(p, kind) == [ticket |-> p.ticket, sym |-> p.sym, amount |-> -p.amount, kind |-> kind]

-----------------------------------------------------------------------------
(* Risk rules: _check_rejections and the two trackers.                      *)

\* Mutant of HasSlot: one position too many.
HasSlotMore == Cardinality(positions) <= MaxConcurrent

HasSlot == Cardinality(positions) < MaxConcurrent

\* A signal of s passes the checks (the limits of the day and of the margin may
\* refuse it as well).
Passes(s) ==
    /\ stage < 3
    /\ losses < StopAfter
    /\ ~(losses >= CooldownAfter /\ cooling)
    /\ HasSlot
    /\ \A p \in positions : p.sym # s

\* DrawdownManager.check, when the balance asks for stage d.
StageAfter(d) == IF d < stage /\ (stage = 3 \/ ~AutoRecover) THEN stage ELSE d

\* Mutant of RecordTrade: a win takes one loss back.
RecordTradeBack ==
    \/ losses' = losses - 1 /\ cooling' = FALSE
    \/ losses' = losses + 1 /\ UNCHANGED cooling

\* record_trade.  A win clears everything, further losses leave the cooldown alone.
RecordTrade ==
    \/ losses' = 0 /\ cooling' = FALSE
    \/ /\ losses' = losses + 1
       /\ cooling' = (cooling \/ losses' \in CooldownAfter .. StopAfter - 1)

CooldownEnds ==
    /\ cooling /\ cooling' = FALSE
    /\ UNCHANGED <<exchange, tables, losses, stage, seen, trailing, job, restarts, stray>>

-----------------------------------------------------------------------------
(* Entry: _handle_signal and execute_order.                                 *)

\* FixedRatioStrategy.evaluate: the balance decides the stage.
DrawdownChecked == \E d \in Drawdowns : stage' = StageAfter(d)

\* set_margin_and_leverage and place_market_order: the order fills; or it fills and
\* the answer gets lost; or the call fails.  At stage 3 there is nothing to order.
\* (A rejected order ends P3: execute_order returns None; see RestartP3.)
Ordered(s, amount) ==
    \/ /\ stage' < 3 /\ Executes(s, amount)
       /\ tickets' = tickets + 1
       /\ job' = [op |-> "stop",
                  row |-> [ticket |-> tickets + 1, sym |-> s, amount |-> amount,
                           orders |-> {}, recovered |-> FALSE]]
    \/ stage' < 3 /\ Executes(s, amount) /\ UNCHANGED <<tickets, job>>
    \/ UNCHANGED <<net, tickets, job>>

\* A LONG or SHORT signal that passes.
Enter(s, amount) ==
    /\ Idle /\ Passes(s) /\ tickets < MaxTickets
    /\ DrawdownChecked
    /\ Ordered(s, amount)
    /\ UNCHANGED <<positions, trades, book, filled, losses, cooling, seen, trailing,
                   restarts, stray>>

\* place_sl_tp, one conditional order: it is placed and known; or it is placed and
\* the answer gets lost; or it is not placed.
Place(kind, then, otherwise) ==
    LET o == OrderOf(job.row, kind)
    IN  \/ /\ book' = book \cup {o} /\ UNCHANGED stray
           /\ job' = [op |-> then, row |-> [job.row EXCEPT !.orders = @ \cup {kind}]]
        \/ /\ book' = book \cup {o} /\ stray' = stray \cup {o}
           /\ job' = [job EXCEPT !.op = otherwise]
        \/ job' = [job EXCEPT !.op = otherwise] /\ UNCHANGED <<book, stray>>

\* Without a stop the target is not tried either.
PlaceStop ==
    /\ job.op = "stop"
    /\ Place("sl", "target", "record")
    /\ UNCHANGED <<tables, net, filled, risk, seen, trailing, restarts>>

PlaceTarget ==
    /\ job.op = "target"
    /\ Place("tp", "record", "record")
    /\ UNCHANGED <<tables, net, filled, risk, seen, trailing, restarts>>

\* The row of the position, and its trailing stop.
InsertRow ==
    /\ job.op = "record"
    /\ positions' = positions \cup {job.row}
    /\ trailing' = trailing \cup {job.row.sym}
    /\ job' = NoJob
    /\ UNCHANGED <<exchange, trades, tickets, risk, seen, restarts, stray>>

-----------------------------------------------------------------------------
(* Exit by the program: CLOSE signal, trailing stop, time limit.            *)

\* Mutant of Untrailed: the trailing stop outlives the position.
StillTrailed(p) == trailing

Untrailed(p) == trailing \ {p.sym}

\* Mutant of ToCancel: the target is left in the book.
OnlyStop(p) == {o \in book : o.ticket = p.ticket /\ o.kind = "sl"}

\* The orders of a row that still rest (_collect_sl_tp_ids).
ToCancel(p) == {o \in book : o.ticket = p.ticket /\ o.kind \in p.orders}

\* cancel_orders swallows what the exchange refuses: some orders may stay.
Cancelled(p) == \E K \in SUBSET ToCancel(p) :
    /\ book' = book \ (ToCancel(p) \ K)
    /\ stray' = stray \cup K

\* Mutant of Closing: a row that is given up is deleted and not recorded.
ClosingUnrecorded(p, by, givenUp, then) ==
    [op |-> IF givenUp THEN "delete" ELSE "write", row |-> p, by |-> by, givenUp |-> givenUp,
     then |-> then]

\* Whoever closes a row (the order manager, the tracker, recovery) first writes the
\* trade and then deletes the row.
Closing(p, by, givenUp, then) ==
    [op |-> "write", row |-> p, by |-> by, givenUp |-> givenUp, then |-> then]

\* A CLOSE signal that finds nothing on the exchange: the orders are not cancelled.
OrphanCleanup(p) ==
    /\ Idle /\ p \in positions /\ net[p.sym] = 0
    /\ job' = Closing(p, {}, TRUE, NoJob)
    /\ UNCHANGED <<exchange, tables, risk, seen, trailing, restarts, stray>>

\* LiveExecutor.close_position, given the side of the position.
ClosingOrder(p) == Executes(p.sym, -p.amount)

\* The closing order of a row; its answer may get lost.
Close(p) ==
    /\ Idle /\ p \in positions
    /\ ClosingOrder(p)
    /\ job' \in {[op |-> "cancel", row |-> p], NoJob}
    /\ UNCHANGED <<tables, book, filled, risk, seen, trailing, restarts, stray>>

\* The time is over, whatever the exchange holds.  (A CLOSE signal asks the exchange
\* and then does the same, also when there is no answer.)
TimeLimit(p) == Close(p)

\* The trailing stop of the symbol closes what row the symbol has.
TrailingStop(p) == p.sym \in trailing /\ Close(p)

\* An error other than a refusal ends the close; the row stays.
CancelOrders ==
    /\ job.op = "cancel"
    /\ \/ Cancelled(job.row) /\ job' = Closing(job.row, {}, FALSE, NoJob)
       \/ job' = NoJob /\ UNCHANGED <<book, stray>>
    /\ UNCHANGED <<tables, net, filled, risk, seen, trailing, restarts>>

\* insert_trade commits ...
WriteTrade ==
    /\ job.op = "write"
    /\ trades' = [trades EXCEPT ![job.row.ticket] = @ + 1]
    /\ job' = [job EXCEPT !.op = "delete"]
    /\ UNCHANGED <<exchange, positions, tickets, risk, seen, trailing, restarts, stray>>

\* The orders of a row nobody will know of.
OrdersLeft(p) == {o \in book : o.ticket = p.ticket}

\* ... and delete_position does.  What follows in memory follows without an await; a
\* row that is given up counts neither as a win nor as a loss.
DeleteRow ==
    /\ job.op = "delete"
    /\ positions' = positions \ {job.row}
    /\ trailing' = Untrailed(job.row)
    /\ seen' = seen \cup job.by
    /\ job' = job.then
    /\ \/ ~job.givenUp /\ RecordTrade /\ UNCHANGED stray
       \/ job.givenUp /\ stray' = stray \cup OrdersLeft(job.row) /\ UNCHANGED <<losses, cooling>>
    /\ UNCHANGED <<exchange, trades, tickets, stage, restarts>>

-----------------------------------------------------------------------------
(* _monitor_positions: stops and targets that were hit.                     *)

\* Mutant of FilledOrders: only targets are looked for.
FilledTargets(s) == {o \in filled : o.sym = s /\ o.kind = "tp"}

\* get_filled_orders: all of the symbol, also those of earlier positions.
FilledOrders(s) == {o \in filled : o.sym = s}

\* The row of S at symbol s, as a set.
At(S, s) == {p \in S : p.sym = s}

\* The direct price check found the stops of S reached.  close_position is given the
\* closing side and turns it round, so its order has the amount of the position; then
\* the missing _pre_order_manager raises, and the row is left as it is.
StopsExecute(S) ==
    LET after == [s \in Symbols |->
                    IF At(S, s) = {} THEN net[s] ELSE net[s] + (CHOOSE p \in At(S, s) : TRUE).amount]
    IN  after \in [Symbols -> -MaxNet .. MaxNet] /\ net' = after

\* The history of every row, then the direct check: the stops of S and the targets of
\* T are reached (a recovered row has no target).
Monitor ==
    /\ Idle
    /\ \E S \in SUBSET positions : \E T \in SUBSET {p \in positions \ S : ~p.recovered} :
          LET found == {[row |-> p, by |-> {}] : p \in T}
                          \cup UNION {{[row |-> p, by |-> {o}] : o \in FilledOrders(p.sym)} : p \in positions}
          IN  /\ S # {} \/ found # {}
              /\ StopsExecute(S)
              /\ job' = [op |-> "fills", fills |-> found]
    /\ UNCHANGED <<tables, book, filled, risk, seen, trailing, restarts, stray>>

\* Mutant of Found: the tracker does not look the row up.
AlwaysFound(p) == TRUE

Found(p) == p \in positions

\* The fills that remain after f.
Without(f) == [job EXCEPT !.fills = @ \ {f}]

\* A fill that was processed before is skipped.
SkipFill(f) ==
    /\ f.by # {} /\ f.by \subseteq seen
    /\ job' = Without(f)
    /\ UNCHANGED <<tables, exchange, risk, seen, trailing, stray>>

\* Any other fill closes the row it was found for ...
TakeFill(f) ==
    /\ f.by = {} \/ ~(f.by \subseteq seen)
    /\ Cancelled(f.row)
    /\ Found(f.row)
    /\ job' = Closing(f.row, f.by, FALSE, Without(f))
    /\ UNCHANGED <<tables, net, filled, risk, seen, trailing>>

\* ... and one whose row has been closed in the meantime counts all the same.
TakeLateFill(f) ==
    /\ f.by = {} \/ ~(f.by \subseteq seen)
    /\ Cancelled(f.row)
    /\ ~Found(f.row)
    /\ RecordTrade
    /\ trailing' = Untrailed(f.row)
    /\ seen' = seen \cup f.by
    /\ job' = Without(f)
    /\ UNCHANGED <<tables, net, filled, stage>>

\* What the history told comes before what the prices told.
IsNext(f) == f.by # {} \/ \A g \in job.fills : g.by = {}

ProcessFill ==
    /\ job.op = "fills"
    /\ \/ job.fills = {} /\ job' = NoJob
          /\ UNCHANGED <<tables, exchange, risk, seen, trailing, stray>>
       \/ \E f \in job.fills : IsNext(f) /\ (SkipFill(f) \/ TakeFill(f) \/ TakeLateFill(f))
    /\ UNCHANGED restarts

-----------------------------------------------------------------------------
(* The exchange, and restarts.                                              *)

Fire(o) ==
    /\ o \in book
    /\ Executes(o.sym, o.amount)
    /\ book' = book \ {o} /\ filled' = filled \cup {o}
    /\ UNCHANGED <<tables, risk, seen, trailing, job, restarts, stray>>

RecoveryOps == {"sync", "adopt", "expire"}
Recovering ==
    \/ job.op \in RecoveryOps
    \/ job.op \in {"write", "delete"} /\ job.then.op \in RecoveryOps

\* A restart: what P3 keeps in memory is new, except the trailing stops.
Restarted ==
    /\ restarts < (IF Recovering THEN MaxRecoveries ELSE MaxRestarts)
    /\ restarts' = restarts + 1
    /\ seen' = {} /\ losses' = 0 /\ cooling' = FALSE /\ stage' = 0
    /\ stray' = stray \cup {o \in book : \A p \in positions : o.ticket # p.ticket}
    /\ UNCHANGED <<exchange, tables>>

TrailAll == trailing' = {p.sym : p \in positions}

\* P3 dies anywhere and the watchdog starts it again.
RestartP3 ==
    /\ ~Recovering
    /\ Restarted /\ TrailAll
    /\ job' = NoJob

\* The whole system dies anywhere, also in recovery, and is started again: recovery
\* reads the rows.
RestartSystem ==
    /\ Restarted /\ trailing' = {}
    /\ job' = [op |-> "sync", read |-> positions, left |-> positions]

\* Each row it read is kept if the exchange holds anything of the symbol or gives no
\* answer; otherwise it is closed.
SyncRow ==
    /\ job.op = "sync"
    /\ \E p \in job.left :
          LET rest == [job EXCEPT !.left = @ \ {p}]
          IN  job' = rest \/ (net[p.sym] = 0 /\ job' = Closing(p, {}, TRUE, rest))
    /\ UNCHANGED <<exchange, tables, risk, seen, trailing, restarts, stray>>

\* Recovery asks for everything the exchange holds, and means to keep what is of other
\* symbols than the rows it read: all of it, or what it can parse, or, without an
\* answer, nothing.
AskHoldings ==
    /\ job.op = "sync" /\ job.left = {}
    /\ \E S \in SUBSET {s \in Symbols : net[s] # 0 /\ At(job.read, s) = {}} :
          /\ tickets + Cardinality(S) <= MaxTickets
          /\ job' = [op |-> "adopt", read |-> job.read,
                     left |-> {[sym |-> s, amount |-> net[s]] : s \in S}]
    /\ UNCHANGED <<exchange, tables, risk, seen, trailing, restarts, stray>>

RecoveredRow(h, t) ==
    [ticket |-> t, sym |-> h.sym, amount |-> h.amount, orders |-> {}, recovered |-> TRUE]

AdoptRow ==
    /\ job.op = "adopt" /\ tickets < MaxTickets
    /\ tickets' = tickets + 1
    /\ \E h \in job.left :
          /\ positions' = positions \cup {RecoveredRow(h, tickets + 1)}
          /\ job' = [job EXCEPT !.left = @ \ {h}]
    /\ UNCHANGED <<exchange, trades, risk, seen, trailing, restarts, stray>>

\* Any of the rows it read may be too old, also those it has closed.
CheckExpired ==
    /\ job.op = "adopt" /\ job.left = {}
    /\ \E old \in SUBSET job.read : job' = [op |-> "expire", read |-> old]
    /\ UNCHANGED <<exchange, tables, risk, seen, trailing, restarts, stray>>

CloseExpired ==
    /\ job.op = "expire"
    /\ \E p \in job.read : job' = Closing(p, {}, TRUE, [job EXCEPT !.read = @ \ {p}])
    /\ UNCHANGED <<exchange, tables, risk, seen, trailing, restarts, stray>>

\* Recovery is done, and P3 starts.
StartP3 ==
    /\ job.op = "expire" /\ job.read = {}
    /\ TrailAll /\ job' = NoJob
    /\ UNCHANGED <<exchange, tables, risk, seen, restarts, stray>>

Recovers ==
    \/ SyncRow \/ AskHoldings \/ AdoptRow
    \/ CheckExpired \/ CloseExpired \/ StartP3

P3Works ==
    \/ PlaceStop \/ PlaceTarget \/ InsertRow
    \/ CancelOrders \/ WriteTrade \/ DeleteRow
    \/ ProcessFill

Next ==
    \/ \E s \in Symbols, amount \in Sides : Enter(s, amount)
    \/ \E p \in positions : OrphanCleanup(p) \/ TimeLimit(p) \/ TrailingStop(p)
    \/ P3Works \/ Monitor \/ CooldownEnds \/ Recovers
    \/ \E o \in book : Fire(o)
    \/ RestartP3 \/ RestartSystem

Spec == Init /\ [][Next]_vars

\* P3 and recovery end what they have begun; whatever P3 does in between, its loop comes
\* back to the monitor (every _POSITION_MONITOR_INTERVAL).
FairSpec == Spec /\ WF_vars(P3Works \/ Recovers) /\ SF_vars(Monitor)

-----------------------------------------------------------------------------
(* Properties.                                                              *)

\* A symbol has one row at most, and P3 itself opens no more than
\* max_concurrent_positions, whatever recovery added, crashes left behind and other
\* signals of the same batch did.
SlotsRespected ==
    /\ \A p, q \in positions : p.sym = q.sym => p = q
    /\ Cardinality({p \in positions : ~p.recovered}) <= MaxConcurrent

\* Between two jobs exactly the symbols with a row have a trailing stop: none is left
\* to close a later position of its symbol.
TrailingTracks == Idle => trailing = {p.sym : p \in positions}

\* Without a restart a position is recorded as a trade once, although its stop, its
\* target and the price check may all report it.
RecordedOnce == restarts = 0 => \A t \in Tickets : trades[t] <= 1

\* An order that rests belongs to a row or to the job at hand, or its cancellation
\* was refused, its answer lost, its opening interrupted, its row given up by
\* recovery or by a CLOSE signal.
StraysExplained == \A o \in book \ stray :
    \/ \E p \in positions : o.ticket = p.ticket
    \/ job \in RowJobs /\ o.ticket = job.row.ticket

\* Rows of the reading that recovery may still record as expired.
Reread ==
    IF job.op \in RecoveryOps THEN job.read
    ELSE IF Recovering THEN job.then.read \cup {p \in {job.row} : job.op = "write"}
    ELSE {}

\* The tables keep what PositionBook promises of them, whoever closes a row in its two
\* steps and wherever it dies.
OpenTickets == {p.ticket : p \in positions}
Book == INSTANCE PositionBook WITH
    open <- OpenTickets,
    closed <- {t \in Tickets : trades[t] > 0} \ OpenTickets,
    wiped <- {},
    writing <- {p.ticket : p \in {q \in positions : job.op = "delete" /\ job.row = q}},
    again <- {p.ticket : p \in Reread}

\* Whatever fills, exits, recovery and deaths in the middle of any of these do: a
\* position leaves the table with its trade and never comes back; each further trade
\* takes a restart between the two commits, or a recovery that finds the position both
\* gone and expired (recovery.py records it twice then).
KeepsBook == Book!Spec

\* "Stage 3 never auto-recovers": as long as P3 runs, a halt lasts and no position is
\* opened in it, whatever the balance does and however many closes succeed.
HaltHolds == [][stage = 3 /\ restarts' = restarts => stage' = 3 /\ tickets' = tickets]_vars

\* A row whose stop or target has fired does not stay.
FillNoticed == \A t \in Tickets :
    (\E p \in positions : p.ticket = t /\ \E o \in filled : o.ticket = t)
        ~> \A p \in positions : p.ticket # t

\* live_executor.py:444 "Close a position with a market order on the opposite side":
\* what the monitor does about a stop makes no position larger.
Size(n) == IF n < 0 THEN -n ELSE n
StopsReduce == [][Monitor => \A s \in Symbols : Size(net'[s]) <= Size(net[s])]_vars

=============================================================================
