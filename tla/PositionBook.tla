----------------------------- MODULE PositionBook -----------------------------
(***************************************************************************)
(* What the tables positions and trades promise together, whatever closes  *)
(* a position and wherever the process dies: a number is given to one      *)
(* position, a position leaves the table with its trade, and each further  *)
(* trade of it takes a restart; what a restart's recovery read it records  *)
(* once more at most.                                                      *)
(***************************************************************************)
EXTENDS Integers

CONSTANT Tickets        \* numbers a row may get

VARIABLES
    open,       \* positions in the table
    closed,     \* positions that have left it with a trade
    wiped,      \* positions whose rows and trades were deleted on purpose
    writing,    \* the position whose trade is written and whose row is still there
    again,      \* positions that the recovery of the last start may still record anew
    trades,     \* trades per position
    restarts    \* how often the process that closes positions was started again

vars == <<open, closed, wiped, writing, again, trades, restarts>>

New == Tickets \ (open \cup closed \cup wiped)

Init ==
    /\ open = {} /\ closed = {} /\ wiped = {} /\ writing = {} /\ again = {}
    /\ trades = [t \in Tickets |-> 0]
    /\ restarts = 0

\* Each of S gets a trade.
Record(S) == trades' = [t \in Tickets |-> trades[t] + (IF t \in S THEN 1 ELSE 0)]

Open(t) ==
    /\ t \in New
    /\ open' = open \cup {t}
    /\ UNCHANGED <<closed, wiped, writing, again, trades, restarts>>

\* Positions are closed at once ...
Close(S) ==
    /\ writing = {} /\ S # {}
    /\ Record(S)
    /\ open' = open \ S /\ closed' = closed \cup S
    /\ UNCHANGED <<wiped, writing, again, restarts>>

\* ... or one position in two steps.
Write(t) ==
    /\ writing = {} /\ t \in open
    /\ Record({t})
    /\ writing' = {t} /\ again' \in {again, again \ {t}}
    /\ UNCHANGED <<open, closed, wiped, restarts>>

Remove ==
    /\ writing # {} /\ writing' = {}
    /\ open' = open \ writing /\ closed' = closed \cup writing
    /\ UNCHANGED <<wiped, again, trades, restarts>>

\* The process dies, perhaps in the middle of closing a position it was not writing yet
\* (one or none, B).  Recovery reads what is open; what it decides later about any of
\* that (again) rests on this reading.
Restart(B) ==
    /\ restarts' = restarts + 1
    /\ B # {} => writing = {}
    /\ Record(B)
    /\ writing' = {} /\ again' \in SUBSET open
    /\ UNCHANGED <<open, closed, wiped>>

\* Recovery records a position again that has left since it was read ...
Repeat(t) ==
    /\ writing = {} /\ t \in closed \cap again
    /\ Record({t})
    /\ again' = again \ {t}
    /\ UNCHANGED <<open, closed, wiped, writing, restarts>>

\* ... and leaves others alone.
Settle ==
    /\ again' \in SUBSET again
    /\ UNCHANGED <<open, closed, wiped, writing, trades, restarts>>

\* Everything is deleted; the pass under way may still write trades of what it closes.
Wipe ==
    /\ writing = {}
    /\ open' = {} /\ closed' = {} /\ wiped' = wiped \cup open \cup closed
    /\ trades' \in [Tickets -> 0 .. 1]
    /\ \A t \in Tickets \ open : trades'[t] = 0
    /\ again' = {} /\ UNCHANGED <<writing, restarts>>

Next ==
    \/ Settle
    \/ \E t \in Tickets : Open(t) \/ Write(t) \/ Repeat(t)
    \/ Remove
    \/ \E B \in {{}} \cup {{t} : t \in open} : Restart(B)
    \/ \E S \in SUBSET open : Close(S)
    \/ Wipe

Spec == Init /\ [][Next]_vars

\* A position is in one place; without a restart it has the one trade it leaves with,
\* and with restarts no more than one for each of them and two more (it may leave, and
\* recovery may record it again).
Booked ==
    /\ open \cap closed = {} /\ (open \cup closed) \cap wiped = {}
    /\ \A t \in New : trades[t] = 0
    /\ \A t \in open : trades[t] <= restarts + (IF t \in writing THEN 1 ELSE 0)
    /\ \A t \in closed : trades[t] \in 1 .. (IF restarts = 0 THEN 1 ELSE restarts + 2)
    /\ \A t \in wiped : trades[t] <= 1

=============================================================================
