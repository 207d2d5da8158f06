------------------------------ MODULE GridLevels ------------------------------
(***************************************************************************)
(* The grid strategy of P2 in paper mode: GridBiasStrategy and GridEngine  *)
(* (src/src/strategy/position/), evaluated on every closed candle of a     *)
(* scanned symbol, with the copy of its grids in the database, the signals *)
(* it sends to P3 and the level map P3 keeps.                              *)
(* Nothing tells P2 what P3 did: on_fill_confirmed, on_tp_confirmed and    *)
(* on_close_confirmed have no callers.                                     *)
(* Prices are left out.  Which pending levels a candle crosses and which   *)
(* targets and stops it reaches is a free choice, and so are the gates of  *)
(* the filters.  (A restored level has no stop price; a free choice of the *)
(* stops reached covers it.)                                               *)
(***************************************************************************)
EXTENDS Integers, Sequences, FiniteSets, Functions

CONSTANTS
    Symbols,        \* symbols the scanner may find
    LevelCounts,    \* level counts the adaptive spacing may choose
    LongBias,       \* long_bias_extra: buy levels added to every grid
    MaxShift,       \* max_level_shift of the bias
    MaxOpen,        \* max_open_levels
    MaxSymbols,     \* max_symbols
    MinHold,        \* min_hold_seconds > 0: a target waits for the next candle
    QueueCap,       \* capacity of the signal queue (main.py: 100)
    MaxRestarts     \* bound: restarts of P2 and of P3 in a behaviour

ASSUME GridAssumption ==
    /\ LevelCounts \subseteq Nat \ {0} /\ IsFiniteSet(LevelCounts)
    /\ LongBias \in Nat /\ MaxShift \in Nat
    /\ MaxOpen \in Nat /\ MaxSymbols \in Nat \ {0}
    /\ MinHold \in BOOLEAN
    /\ QueueCap \in Nat \ {0}
    /\ MaxRestarts \in Nat

Indices == UNION {(-n .. n) \ {0} : n \in LevelCounts}
Slots == Symbols \X Indices
Statuses == {"PENDING", "FILLED", "TP_SET"}

\* RECENTER and SETUP speak of the whole grid: level_index keeps its default 0.
Messages == [act : {"FILL", "TP_HIT", "CLOSE_ALL"}, slot : Slots]
                \cup [act : {"RECENTER", "SETUP"}, slot : Symbols \X {0}]

VARIABLES
    active,     \* _active_trading_symbols
    grids,      \* _grids: symbol -> level index -> status
    saved,      \* active grids of the tables grid_state and grid_levels
    saving,     \* what evaluate() has still to write, per symbol
    outbox,     \* signals evaluate() has returned and that are not sent yet
    queue,      \* the signal queue
    held,       \* keys of _level_positions in P3
    restarts,   \* restarts of P2 and P3
    lost        \* history: slots with a close that will not arrive

memory == <<active, grids>>
vars == <<memory, saved, saving, outbox, queue, held, restarts, lost>>

Grid == UNION {[I -> Statuses] : I \in SUBSET Indices}

TypeOK ==
    /\ active \subseteq Symbols
    /\ DOMAIN grids \subseteq Symbols
    /\ \A s \in DOMAIN grids : grids[s] \in Grid
    /\ DOMAIN saved \subseteq Symbols
    /\ \A s \in DOMAIN saved : saved[s] \in Grid
    /\ DOMAIN saving \subseteq Symbols
    /\ saving \in [DOMAIN saving -> {"levels", "grid", "rows"}]
    /\ outbox \subseteq Messages
    /\ queue \in Seq(Messages) /\ Len(queue) <= QueueCap
    /\ held \subseteq Slots
    /\ restarts \in 0 .. MaxRestarts
    /\ lost \subseteq Slots

-----------------------------------------------------------------------------
\* The levels of a grid that are open.
OpenIn(g) == {i \in DOMAIN g : g[i] # "PENDING"}

OpenSlots(G) == {x \in Slots : x[1] \in DOMAIN G /\ x[2] \in OpenIn(G[x[1]])}

Closing == {"TP_HIT", "CLOSE_ALL"}
Closes(M) == {m.slot : m \in {x \in M : x.act \in Closing}}

Notes(s, acts) == [act : acts, slot : {<<s, 0>>}]
About(s, act, I) == [act : {act}, slot : {s} \X I]

\* f with the value v at k.
Put(f, k, v) == [x \in DOMAIN f \cup {k} |-> IF x = k THEN v ELSE f[x]]
Without(f, k) == [x \in DOMAIN f \ {k} |-> f[x]]

\* create_grid: n levels, of which the bias moves some to the other side; at least
\* one of each side is left.
NumBuy(n, shift) ==
    LET half == n \div 2 + shift + LongBias
        most == IF half < n - 1 THEN half ELSE n - 1
    IN  IF most < 1 THEN 1 ELSE most

\* The shifts the bias calculator returns, also after the filter has adjusted it.
Shifts == -MaxShift .. MaxShift

NewGrids ==
    { [i \in (-NumBuy(n, shift) .. n - NumBuy(n, shift)) \ {0} |-> "PENDING"] :
        n \in LevelCounts, shift \in Shifts }

Init ==
    /\ active = {} /\ grids = <<>> /\ saved = <<>> /\ saving = <<>>
    /\ outbox = {} /\ queue = <<>>
    /\ held = {} /\ restarts = 0 /\ lost = {}

-----------------------------------------------------------------------------
(* One evaluation.  It has saved what it did and sent its signals before    *)
(* the next candle is taken.                                                *)

Idle == outbox = {} /\ saving = <<>>

\* _run_scanner adds what it found; nothing is ever taken away.
Scan(s) ==
    /\ Idle /\ s \notin active
    /\ active' = active \cup {s}
    /\ UNCHANGED <<grids, saved, saving, outbox, queue, held, restarts, lost>>

\* Mutant of MayCreate: one grid too many.
MayCreateOneMore == Cardinality(DOMAIN grids) <= MaxSymbols

MayCreate == Cardinality(DOMAIN grids) < MaxSymbols

\* The grid an evaluation of s works on, with the signals of its creation.
Evaluated(s) ==
    IF s \in DOMAIN grids THEN {[grid |-> grids[s], out |-> {}]}
    ELSE IF MayCreate THEN [grid : NewGrids, out : {Notes(s, {"SETUP"})}]
    ELSE {}

\* A grid that has no row yet is written in full.
HowToSave(s) == IF s \in DOMAIN saved THEN "levels" ELSE "grid"

\* Mutant of Kept: only the levels whose target was deferred survive a recenter.
KeptDeferred(g) == {i \in DOMAIN g : g[i] = "TP_SET"}

\* Levels a recenter keeps.
Kept(g) == OpenIn(g)

\* _do_recenter: the open levels stay, new pending ones take the free indices.
Recenter(s) == \E e \in Evaluated(s), g \in NewGrids :
    /\ grids' = Put(grids, s, [i \in Kept(e.grid) \cup DOMAIN g |->
                                 IF i \in Kept(e.grid) THEN e.grid[i] ELSE g[i]])
    /\ saving' = Put(saving, s, "grid")
    /\ outbox' = e.out \cup Notes(s, {"RECENTER", "SETUP"})

\* No new grid can be made: the candle is not looked at any further.
RecenterFails(s) == \E e \in Evaluated(s) :
    /\ grids' = Put(grids, s, e.grid)
    /\ saving' = saving
    /\ outbox' = e.out

\* _close_grid, when the loss of the grid is too large.
CloseGrid(s) ==
    /\ s \in DOMAIN grids /\ OpenIn(grids[s]) # {}
    /\ grids' = Without(grids, s)
    /\ saving' = Put(saving, s, "grid")
    /\ outbox' = About(s, "CLOSE_ALL", OpenIn(grids[s]))

\* _close_all_grids, when the loss of the account is too large.
HardStop ==
    /\ grids # <<>>
    /\ grids' = <<>>
    /\ saving' = [s \in DOMAIN grids |-> "grid"]
    /\ outbox' = UNION {About(s, "CLOSE_ALL", OpenIn(grids[s])) : s \in DOMAIN grids}

\* Mutant of NotStale: fill_time is compared in one unit with the clock.
StaleReverted(g, R) == [i \in DOMAIN g |-> IF i \in R /\ g[i] = "FILLED" THEN "PENDING" ELSE g[i]]

\* The revert of stale fills.  fill_time is the candle's timestamp in milliseconds
\* and the clock is in seconds, so no fill is ever older than the limit.
NotStale(g, R) == g

\* Mutant of RoomToOpen: the levels whose target was deferred are not counted.
RoomForFilled(g) == MaxOpen - Cardinality({i \in DOMAIN g : g[i] = "FILLED"})

\* check_fills stops at max_open_levels.
RoomToOpen(g) == MaxOpen - Cardinality(OpenIn(g))

\* The filter lets the fills F pass, or those of one side only.
Unblocked(F) == {F, {i \in F : i > 0}, {i \in F : i < 0}}

\* check_tp_hits and check_sl_hits: some of the open levels O are closed.
Hit(O) == SUBSET O

\* The levels after fills F, closes C (recycle_completed makes them pending at once)
\* and targets D the same candle reached, which are deferred.
Traded(g, F, C, D) ==
    [i \in DOMAIN g |-> IF i \in C THEN "PENDING"
                        ELSE IF i \in D THEN "TP_SET"
                        ELSE IF i \in F THEN "FILLED" ELSE g[i]]

\* check_fills fills the levels X, of which the filter leaves F.
Trade(s) == \E e \in Evaluated(s) : \E R \in SUBSET OpenIn(e.grid) :
    LET g == NotStale(e.grid, R)
    IN  \E X \in SUBSET (DOMAIN g \ OpenIn(g)) : \E F \in Unblocked(X) :
        \E C \in Hit(OpenIn(g) \cup F) : \E D \in SUBSET (F \ C) :
            /\ X # {} => Cardinality(X) <= RoomToOpen(g)
            /\ MinHold => D = {}
            /\ grids' = Put(grids, s, Traded(g, F, C, D))
            /\ outbox' = e.out \cup About(s, "FILL", F) \cup About(s, "TP_HIT", C)
            /\ saving' = IF outbox' = {} THEN saving ELSE Put(saving, s, HowToSave(s))

\* A candle of an active symbol: _evaluate_grid_strategy.
Evaluate(s) ==
    /\ Idle /\ s \in active
    /\ HardStop \/ Recenter(s) \/ RecenterFails(s) \/ CloseGrid(s) \/ Trade(s)
    /\ lost' = lost \ {m.slot : m \in {x \in outbox' : x.act = "FILL"}}
    /\ UNCHANGED <<active, saved, queue, held, restarts>>

-----------------------------------------------------------------------------
(* Writing the grid: every statement is committed by itself.                *)

\* _persist_level_updates, one changed level.
SaveLevel(s) ==
    /\ s \in DOMAIN saving /\ saving[s] = "levels"
    /\ \E i \in DOMAIN saved[s] \cap DOMAIN grids[s] :
          /\ saved[s][i] # grids[s][i]
          /\ saved' = Put(saved, s, Put(saved[s], i, grids[s][i]))
    /\ UNCHANGED <<memory, saving, outbox, queue, held, restarts, lost>>

LevelsSaved(s) ==
    /\ s \in DOMAIN saving /\ saving[s] = "levels"
    /\ \A i \in DOMAIN saved[s] \cap DOMAIN grids[s] : saved[s][i] = grids[s][i]
    /\ saving' = Without(saving, s)
    /\ UNCHANGED <<memory, saved, outbox, queue, held, restarts, lost>>

\* _persist_grid: the state row and the deletion of the levels (between the two the
\* old levels are still there).  A stopped grid is not restored, whatever its levels.
SaveGrid(s) ==
    /\ s \in DOMAIN saving /\ saving[s] = "grid"
    /\ IF s \in DOMAIN grids
       THEN saved' = Put(saved, s, <<>>) /\ saving' = Put(saving, s, "rows")
       ELSE saved' = Without(saved, s) /\ saving' = Without(saving, s)
    /\ UNCHANGED <<memory, outbox, queue, held, restarts, lost>>

\* _persist_grid: the bulk insert of the levels.
SaveRows(s) ==
    /\ s \in DOMAIN saving /\ saving[s] = "rows"
    /\ saved' = Put(saved, s, grids[s])
    /\ saving' = Without(saving, s)
    /\ UNCHANGED <<memory, outbox, queue, held, restarts, lost>>

Save(s) == SaveLevel(s) \/ LevelsSaved(s) \/ SaveGrid(s) \/ SaveRows(s)

\* Mutant of HasRoom: a queue without a bound.
AlwaysRoom == Len(queue) <= QueueCap

HasRoom == Len(queue) < QueueCap

\* The signals are sent in order, the fill of a level before its close; put_nowait
\* drops what does not fit.
Send(m) ==
    /\ m \in outbox /\ saving = <<>>
    /\ m.act \in Closing => \A x \in outbox : x.act = "FILL" => x.slot # m.slot
    /\ outbox' = outbox \ {m}
    /\ IF HasRoom
       THEN queue' = Append(queue, m) /\ lost' = lost
       ELSE queue' = queue /\ lost' = lost \cup Closes({m})
    /\ UNCHANGED <<memory, saved, saving, held, restarts>>

-----------------------------------------------------------------------------
(* P3 and the restarts.                                                     *)

\* P3 takes a signal.  A fill of a level it does not hold may be refused.
P3Takes ==
    /\ queue # <<>>
    /\ LET m == Head(queue)
       IN  held' \in CASE m.act = "FILL" -> {held, held \cup {m.slot}}
                       [] m.act \in Closing -> {held \ {m.slot}}
                       [] OTHER -> {held}
    /\ queue' = Tail(queue)
    /\ UNCHANGED <<memory, saved, saving, outbox, restarts, lost>>

\* P3 restarts: its level map starts without these keys (see PaperGrid), and signals
\* it had taken in one go are gone.
RestartP3 ==
    /\ restarts < MaxRestarts
    /\ restarts' = restarts + 1
    /\ held' = {}
    /\ \/ queue' = queue /\ lost' = lost
       \/ queue' = <<>> /\ lost' = lost \cup Closes(Range(queue))
    /\ UNCHANGED <<memory, saved, saving, outbox>>

\* P2 restarts, at any point of an evaluation: restore_from_db.
RestartP2 ==
    /\ restarts < MaxRestarts
    /\ restarts' = restarts + 1
    /\ grids' = saved /\ active' = {}
    /\ saving' = <<>> /\ outbox' = {}
    /\ lost' = lost \cup ((OpenSlots(grids) \cup Closes(outbox)) \ OpenSlots(saved))
    /\ UNCHANGED <<saved, queue, held>>

P2Works == (\E s \in Symbols : Save(s)) \/ \E m \in outbox : Send(m)

Next ==
    \/ \E s \in Symbols : Scan(s) \/ Evaluate(s)
    \/ P2Works
    \/ P3Takes
    \/ RestartP3 \/ RestartP2

Spec == Init /\ [][Next]_vars

-----------------------------------------------------------------------------
(* Properties.                                                              *)

\* Slots with a close on its way.
Due == Closes(outbox) \cup Closes(Range(queue))

\* A level P3 holds is open in the grid, or its close is on its way, or that close
\* was dropped or lost in a restart.
HeldAnswered == held \subseteq OpenSlots(grids) \cup Due \cup lost

\* max_open_levels holds for every grid, whatever was kept, deferred or restored.
OpenBounded == \A s \in DOMAIN grids : Cardinality(OpenIn(grids[s])) <= MaxOpen

\* max_symbols holds, also after a restart in the middle of a hard stop.
GridsBounded == Cardinality(DOMAIN grids) <= MaxSymbols

\* The strategy keeps the promise of LevelDeals.
Deals == INSTANCE LevelDeals WITH wanted <- OpenSlots(grids), due <- Due
KeepsDeals == Deals!Spec

=============================================================================
