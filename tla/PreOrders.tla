------------------------------- MODULE PreOrders -------------------------------
(***************************************************************************)
(* Live grid trading of one symbol: GridPreOrderManager                    *)
(* (src/src/order/grid_pre_order.py) and the part of the P3 loop that      *)
(* drives it (src/src/order/process.py).  Limit orders wait on the         *)
(* exchange before the price arrives; P3 finds out about fills by polling  *)
(* the open orders and the executions, opens a row of the positions table  *)
(* and places a take-profit order for every filled entry.                  *)
(* The exchange is external.  An order is known by the number it got when  *)
(* it was placed, a row by the entry order it records.  Quantities and     *)
(* prices are abstracted: every order is for one unit, and which prices    *)
(* are reached is a free choice.                                           *)
(***************************************************************************)
EXTENDS Integers, Sequences, FiniteSets, Functions

CONSTANTS
    Levels,         \* level indices: negative buys, positive sells
    Retries,        \* polls without executions before an order is given up (3)
    BanAfter,       \* consecutive losing take-profits that ban the symbol (3)
    MaxOrders,      \* bound: orders placed in a behaviour
    MaxRestarts     \* bound: restarts of P3

ASSUME LevelsAssumption == Levels \subseteq Int \ {0}
ASSUME CountsAssumption == Retries \in Nat \ {0} /\ BanAfter \in Nat \ {0}
ASSUME BoundsAssumption == MaxOrders \in Nat /\ MaxRestarts \in Nat

Ids == 1 .. MaxOrders

VARIABLES
    orders,     \* exchange: orders placed, [lvl, kind, of, st]
    shown,      \* exchange: filled orders whose executions can be queried
    net,        \* exchange: size of the position, negative when short
    pending,    \* _pending_orders: level -> entry order
    filled,     \* _filled_levels: level -> entry order
    tps,        \* _tp_orders: level -> take-profit order
    retries,    \* _retry_counts: level -> polls without executions
    todo,       \* fills returned by check_fills and not recorded yet
    tpdone,     \* fills returned by check_tp_fills and not booked yet
    rows,       \* positions table, newest first
    losses,     \* _symbol_losses: consecutive losses at its end
    banned,     \* the symbol is in _banned_symbols
    banning,    \* the task the ban has created: what it cancels next
    restarts,   \* how often P3 was restarted
    recorded,   \* history: rows inserted per entry order
    missed,     \* history: polls that found the order of a level gone, in vain
    early       \* history: orders given up after fewer than Retries such polls

exchange == <<orders, shown, net>>
manager == <<pending, filled, tps, retries, missed>>
ban == <<losses, banned, banning>>
history == <<recorded, early>>
vars == <<exchange, manager, todo, tpdone, rows, ban, restarts, history>>

placed == 1 .. Len(orders)

TypeOK ==
    /\ Len(orders) <= MaxOrders
    /\ orders \in Seq([lvl : Levels, kind : {"entry", "tp"}, of : 0 .. MaxOrders,
                       st : {"open", "filled", "cancelled"}])
    /\ shown \subseteq placed
    /\ net \in Int
    /\ DOMAIN pending \subseteq Levels /\ pending \in [DOMAIN pending -> placed]
    /\ DOMAIN filled \subseteq Levels /\ filled \in [DOMAIN filled -> placed]
    /\ DOMAIN tps \subseteq Levels /\ tps \in [DOMAIN tps -> placed]
    /\ retries \in [Levels -> 0 .. Retries - 1]
    /\ todo \subseteq placed
    /\ tpdone \subseteq placed
    /\ rows \in Seq(placed)
    /\ losses \in 0 .. BanAfter
    /\ banned \in BOOLEAN
    /\ banning \in {"none", "entries", "tps"}
    /\ restarts \in 0 .. MaxRestarts
    /\ recorded \in [Ids -> 0 .. 2]
    /\ missed \in [Levels -> 0 .. Retries]
    /\ early \subseteq placed

Init ==
    /\ orders = <<>> /\ shown = {} /\ net = 0
    /\ pending = <<>> /\ filled = <<>> /\ tps = <<>>
    /\ retries = [l \in Levels |-> 0]
    /\ todo = {} /\ tpdone = {}
    /\ rows = <<>>
    /\ losses = 0 /\ banned = FALSE /\ banning = "none"
    /\ restarts = 0
    /\ recorded = [o \in Ids |-> 0] /\ missed = [l \in Levels |-> 0] /\ early = {}

-----------------------------------------------------------------------------
Put(f, k, v) == [x \in DOMAIN f \cup {k} |-> IF x = k THEN v ELSE f[x]]
Without(f, S) == Restrict(f, DOMAIN f \ S)

Open(o) == orders[o].st = "open"
book == {o \in placed : Open(o)}
Direction(l) == IF l < 0 THEN 1 ELSE -1

\* What the order adds to the position of the exchange: a take-profit takes back
\* what its entry added.
Effect(o) ==
    IF orders[o].kind = "entry" THEN Direction(orders[o].lvl) ELSE -Direction(orders[o].lvl)

\* The levels of f whose orders get_open_orders does not return any more.
Gone(f) == {l \in DOMAIN f : ~Open(f[l])}

\* Executions of an order: the query may come too early, or fail.
MayConfirm(f) == {l \in Gone(f) : f[l] \in shown}

\* place_order, tried three times when its answer is lost: up to three orders reach the book.
Placing(l, kind, of, n) ==
    /\ Len(orders) + n <= MaxOrders
    /\ orders' = orders \o [i \in 1 .. n |-> [lvl |-> l, kind |-> kind, of |-> of, st |-> "open"]]

\* The orders S are cancelled, the ones in failed stay.
Cancelled(S, failed) ==
    [o \in placed |-> IF o \in (S \cap book) \ failed
                      THEN [orders[o] EXCEPT !.st = "cancelled"] ELSE orders[o]]

\* P3 is between two steps of its loop.
Idle == todo = {} /\ tpdone = {}

-----------------------------------------------------------------------------
(* The exchange.                                                            *)

Fill(o) ==
    /\ Open(o)
    /\ orders' = [orders EXCEPT ![o].st = "filled"]
    /\ net' = net + Effect(o)
    /\ UNCHANGED <<shown, manager, todo, tpdone, rows, ban, restarts, history>>

Show(o) ==
    /\ orders[o].st = "filled" /\ o \notin shown
    /\ shown' = shown \cup {o}
    /\ UNCHANGED <<orders, net, manager, todo, tpdone, rows, ban, restarts, history>>

\* The exchange or the operator cancels an order.
Withdraw(o) ==
    /\ Open(o)
    /\ orders' = [orders EXCEPT ![o].st = "cancelled"]
    /\ UNCHANGED <<shown, net, manager, todo, tpdone, rows, ban, restarts, history>>

-----------------------------------------------------------------------------
(* Signals of P2.                                                           *)

\* Mutant of MayPlace: the ban is not looked up.
PlacesAnyway == TRUE

MayPlace == ~banned

\* SETUP: a level of place_grid_orders.  It may be left out (budget, minimum
\* notional, error); an answer that is lost for good leaves the order untracked.
Setup(l, n, known) ==
    /\ Idle /\ MayPlace
    /\ Placing(l, "entry", 0, n)
    /\ IF known /\ n > 0
       THEN pending' = Put(pending, l, Len(orders) + n) /\ missed' = [missed EXCEPT ![l] = 0]
       ELSE UNCHANGED <<pending, missed>>
    /\ UNCHANGED <<shown, net, filled, tps, retries, todo, tpdone, rows, ban, restarts, history>>

\* cancel_symbol_orders forgets every order, also the ones it could not cancel.
CancelSymbol(failed) ==
    /\ orders' = Cancelled(Range(pending) \cup Range(tps), failed)
    /\ pending' = <<>> /\ tps' = <<>> /\ filled' = <<>>
    /\ missed' = [l \in Levels |-> 0]
    /\ UNCHANGED retries

Recenter(failed) ==
    /\ Idle
    /\ CancelSymbol(failed)
    /\ UNCHANGED <<shown, net, todo, tpdone, rows, ban, restarts, history>>

-----------------------------------------------------------------------------
(* Polling: check_fills, check_tp_fills and what P3 does with their results. *)

\* Mutant of Kept: a filled order stays in _pending_orders.
KeptFilled(seen, givenUp) == Without(pending, givenUp)

\* What check_fills leaves in _pending_orders.
Kept(seen, givenUp) == Without(pending, seen \cup givenUp)

\* Mutant of GivenUp: one poll too many.
GivenUpLate(lost) == {l \in lost : retries[l] >= Retries}

\* The levels whose orders are taken for cancelled.
GivenUp(lost) == {l \in lost : retries[l] + 1 >= Retries}

\* Mutant of Counted: every poll starts to count anew.
CountedAnew(lost, givenUp) == [l \in Levels |-> 0]

\* The retry counts: a level given up starts anew, a level filled does not.
Counted(lost, givenUp) ==
    [l \in Levels |-> CASE l \in givenUp -> 0
                        [] l \in lost \ givenUp -> retries[l] + 1
                        [] OTHER -> retries[l]]

\* check_fills finds the executions of the levels seen, and none of the rest.
CheckFills(seen) ==
    LET lost == Gone(pending) \ seen
        givenUp == GivenUp(lost)
    IN  /\ Idle /\ Gone(pending) # {}
        /\ pending' = Kept(seen, givenUp)
        /\ retries' = Counted(lost, givenUp)
        /\ filled' = [l \in DOMAIN filled \cup seen |->
                        IF l \in seen THEN pending[l] ELSE filled[l]]
        /\ todo' = {pending[l] : l \in seen}
        /\ missed' = [l \in Levels |-> CASE l \in lost \ givenUp /\ missed[l] < Retries -> missed[l] + 1
                                         [] l \in seen \cup givenUp -> 0
                                         [] OTHER -> missed[l]]
        /\ early' = early \cup {pending[l] : l \in {g \in givenUp : missed[g] + 1 < Retries}}
        /\ UNCHANGED <<exchange, tps, tpdone, rows, ban, restarts, recorded>>

\* The next fill gets its row, and its take-profit order unless placing it fails.
Record(o, n, known) ==
    LET l == orders[o].lvl
    IN  /\ o \in todo
        /\ todo' = todo \ {o}
        /\ rows' = <<o>> \o rows
        /\ recorded' = [recorded EXCEPT ![o] = @ + 1]
        /\ Placing(l, "tp", o, n)
        /\ tps' = IF known /\ n > 0 THEN Put(tps, l, Len(orders) + n) ELSE tps
        /\ UNCHANGED <<shown, net, pending, filled, retries, missed, tpdone, ban, restarts, early>>

\* The table cannot be written: the exception skips the other results too.
PollFails ==
    /\ ~Idle
    /\ todo' = {} /\ tpdone' = {}
    /\ UNCHANGED <<exchange, manager, rows, ban, restarts, history>>

\* Mutant of TpsLeft: the orders with executions stay in _tp_orders.
TpsLeftFilled(seen) == Without(tps, Gone(tps) \ seen)

\* What check_tp_fills leaves in _tp_orders: it forgets an order that is gone, with
\* executions or without.
TpsLeft(seen) == Without(tps, Gone(tps))

CheckTpFills(seen) ==
    /\ Idle /\ Gone(tps) # {}
    /\ tps' = TpsLeft(seen)
    /\ filled' = Without(filled, seen)
    /\ tpdone' = {tps[l] : l \in seen}
    /\ UNCHANGED <<exchange, pending, retries, missed, todo, rows, ban, restarts, history>>

\* record_trade_result: a row of losses bans the symbol and creates a task that
\* cancels its orders.
Result(lost) ==
    LET run == IF ~lost THEN 0 ELSE IF losses < BanAfter THEN losses + 1 ELSE losses
    IN  /\ losses' = run
        /\ IF run = BanAfter THEN banned' = TRUE /\ banning' = "entries"
           ELSE UNCHANGED <<banned, banning>>

\* A take-profit closes the first grid_bias row of the symbol; without a row its
\* result is not counted.
BookTp(o, lost) ==
    /\ o \in tpdone
    /\ tpdone' = tpdone \ {o}
    /\ IF rows = <<>> THEN UNCHANGED <<rows, ban>>
       ELSE rows' = Tail(rows) /\ Result(lost)
    /\ UNCHANGED <<exchange, manager, todo, restarts, history>>

\* The task of the ban: entries first, then whatever take-profits there are.
BanCancelsEntries(failed) ==
    /\ banning = "entries"
    /\ orders' = Cancelled(Range(pending), failed)
    /\ pending' = <<>> /\ missed' = [l \in Levels |-> 0]
    /\ banning' = "tps"
    /\ UNCHANGED <<shown, net, filled, tps, retries, todo, tpdone, rows, losses, banned,
                   restarts, history>>

BanCancelsTps(failed) ==
    /\ banning = "tps"
    /\ orders' = Cancelled(Range(tps), failed)
    /\ tps' = <<>> /\ filled' = <<>>
    /\ banning' = "none"
    /\ UNCHANGED <<shown, net, pending, retries, missed, todo, tpdone, rows, losses, banned,
                   restarts, history>>

-----------------------------------------------------------------------------
(* The monitor, the synchronisation with the exchange, restarts.            *)

RowGone(i) == rows' = SubSeq(rows, 1, i - 1) \o SubSeq(rows, i + 1, Len(rows))

\* The price has crossed the stop of a row: close_position, called with the closing
\* side, turns it round once more and adds to the position.
StopHit(i, failed) ==
    /\ Idle
    /\ net' = net + Direction(orders[rows[i]].lvl)
    /\ CancelSymbol(failed)
    /\ RowGone(i)
    /\ UNCHANGED <<shown, todo, tpdone, ban, restarts, history>>

\* It has crossed the target: the row is closed, the exchange is not told.
TargetHit(i) ==
    /\ Idle
    /\ RowGone(i)
    /\ UNCHANGED <<exchange, manager, todo, tpdone, ban, restarts, history>>

\* The row is past its time limit or its trailing stop: a market order closes it.
Expire(i) ==
    /\ Idle
    /\ net' = net - Direction(orders[rows[i]].lvl)
    /\ RowGone(i)
    /\ UNCHANGED <<orders, shown, manager, todo, tpdone, ban, restarts, history>>

\* _sync_exchange_positions: the exchange has no position of the symbol, so the rows
\* are closed and all its open orders cancelled; the manager is not told.
SyncExchange(failed) ==
    /\ Idle /\ rows # <<>> /\ net = 0
    /\ rows' = <<>>
    /\ orders' = Cancelled(placed, failed)
    /\ UNCHANGED <<shown, net, manager, todo, tpdone, ban, restarts, history>>

\* P3 stops, having cancelled the tracked orders (all of them fail when it is
\* killed), and another starts with an empty memory.
Restart(failed) ==
    /\ restarts < MaxRestarts
    /\ restarts' = restarts + 1
    /\ orders' = Cancelled(Range(pending) \cup Range(tps), failed)
    /\ pending' = <<>> /\ tps' = <<>> /\ filled' = <<>>
    /\ retries' = [l \in Levels |-> 0] /\ missed' = [l \in Levels |-> 0]
    /\ todo' = {} /\ tpdone' = {}
    /\ losses' = 0 /\ banned' = FALSE /\ banning' = "none"
    /\ UNCHANGED <<shown, net, rows, history>>

-----------------------------------------------------------------------------
Exchange == \E o \in placed : Fill(o) \/ Show(o) \/ Withdraw(o)

Poll ==
    \/ \E seen \in SUBSET MayConfirm(pending) : CheckFills(seen)
    \/ \E o \in todo, n \in 0 .. 3, known \in BOOLEAN : Record(o, n, known)
    \/ PollFails
    \/ \E seen \in SUBSET MayConfirm(tps) : CheckTpFills(seen)
    \/ \E o \in tpdone, lost \in BOOLEAN : BookTp(o, lost)

Next ==
    \/ Exchange
    \/ \E l \in Levels, n \in 0 .. 3, known \in BOOLEAN : Setup(l, n, known)
    \/ Poll
    \/ \E failed \in SUBSET book :
        \/ Recenter(failed)
        \/ BanCancelsEntries(failed) \/ BanCancelsTps(failed)
        \/ \E i \in DOMAIN rows : StopHit(i, failed)
        \/ SyncExchange(failed)
        \/ Restart(failed)
    \/ \E i \in DOMAIN rows : TargetHit(i) \/ Expire(i)

Spec == Init /\ [][Next]_vars

\* P3 polls every few seconds.
FairSpec == Spec /\ WF_vars(Poll)

-----------------------------------------------------------------------------
\* A fill is recorded at most once, however polls, cancellations, the ban's task and
\* restarts interleave, and nothing is recorded that the exchange has not filled.
RecordedOnce ==
    \A o \in placed :
        recorded[o] > 0 => recorded[o] = 1 /\ orders[o].kind = "entry" /\ orders[o].st = "filled"

\* Once its task is done, a banned symbol has no order waiting for an entry that
\* P3 knows of.
BannedTracksNone == banned /\ banning # "entries" => pending = <<>>

\* No level waits for ever for an order that has left the book: it is recorded, given
\* up or replaced.
Waiting(o) == o \in placed /\ ~Open(o) /\ o \in Range(pending)
GoneSettled == \A o \in Ids : Waiting(o) ~> ~Waiting(o)

\* "Find and close the matching position": a take-profit closes the row of its entry.
ClosesOwnRow ==
    \A o \in tpdone \ tpdone' :
        rows' # rows /\ Len(rows') + 1 = Len(rows) => Head(rows) = orders[o].of
TpClosesOwnRow == [][restarts' = restarts => ClosesOwnRow]_vars

\* "After 3 retries, assume cancelled": an order is given up when as many polls have
\* found it gone.
DroppedAfterRetries == early = {}

\* Entries and take-profits live as OrderLife has it.
Life == INSTANCE OrderLife WITH
    Orders <- Ids,
    fresh <- Ids \ placed,
    filled <- {o \in placed : orders[o].st = "filled"},
    watched <- Range(pending) \cup Range(tps),
    found <- todo \cup tpdone

\* Whatever polls, cancellations, the ban's task and restarts do: the fill of an entry
\* is taken for recording, and the fill of a take-profit for booking, at most once, and
\* neither before the exchange has filled the order (check_fills, check_tp_fills).
KeepsLife == Life!Spec

-----------------------------------------------------------------------------
(* The inductive strengthening.                                             *)

\* An order that waits in a level is an entry of that level, without a row and not
\* about to get one.
PendingFresh ==
    \A l \in DOMAIN pending :
        LET o == pending[l]
        IN  orders[o].lvl = l /\ orders[o].kind = "entry" /\ o \notin todo /\ recorded[o] = 0

\* What is about to be recorded is a filled entry without a row.
TodoFresh ==
    \A o \in todo : orders[o].kind = "entry" /\ orders[o].st = "filled" /\ recorded[o] = 0

\* Executions exist for filled orders only, rows for placed orders only.
ShownFilled == \A o \in shown : orders[o].st = "filled"
UnplacedFresh == \A o \in Ids \ placed : recorded[o] = 0

IInv == /\ TypeOK
        /\ RecordedOnce
        /\ BannedTracksNone
        /\ PendingFresh
        /\ TodoFresh
        /\ ShownFilled
        /\ UnplacedFresh

=============================================================================
