------------------------------ MODULE LevelDeals ------------------------------
(***************************************************************************)
(* What the grid strategy promises for the levels it trades, whatever the  *)
(* queue, the database and the restarts in between do: a level that P3     *)
(* holds is one the strategy still wants, or one whose close is on its     *)
(* way, or one whose close got lost.  A level is never just forgotten.     *)
(***************************************************************************)
CONSTANT Slots          \* a slot is a level of a symbol's grid

VARIABLES
    wanted,     \* slots the strategy regards as open
    due,        \* slots with a close on its way to P3
    lost,       \* slots with a close that will never arrive
    held        \* slots P3 holds

vars == <<wanted, due, lost, held>>

Init == wanted = {} /\ due = {} /\ lost = {} /\ held = {}

\* The strategy opens slots and gives up others: what it gives up gets a close, and
\* a lost close is made good by a new one, or by wanting the slot again.
Decide ==
    /\ due \subseteq due' /\ wanted \ wanted' \subseteq due'
    /\ lost' \subseteq lost /\ lost \ lost' \subseteq wanted' \cup due'
    /\ UNCHANGED held

\* Closes are lost on their way or in a restart, after which the strategy may want
\* again what it had given up.
Lose ==
    /\ due' \subseteq due
    /\ wanted' \subseteq wanted \cup due
    /\ lost \subseteq lost' /\ wanted \cup due \subseteq wanted' \cup due' \cup lost'
    /\ UNCHANGED held

\* P3 opens a slot it does not hold.
Open(x) ==
    /\ x \in (wanted \cup due \cup lost) \ held
    /\ held' = held \cup {x}
    /\ UNCHANGED <<wanted, due, lost>>

\* A close arrives; another one of the slot may still be coming.
Close(x) ==
    /\ x \in due
    /\ held' = held \ {x}
    /\ due' \in {due, due \ {x}}
    /\ UNCHANGED <<wanted, lost>>

\* P3 restarts: it holds nothing, and closes it had taken are lost.
Vanish ==
    /\ held' = {}
    /\ due' \subseteq due
    /\ lost \subseteq lost' /\ due \subseteq due' \cup lost'
    /\ UNCHANGED wanted

Next ==
    \/ Decide \/ Lose \/ Vanish
    \/ \E x \in Slots : Open(x) \/ Close(x)

Spec == Init /\ [][Next]_vars

\* Nothing is held that nobody will close.
Answered == held \subseteq wanted \cup due \cup lost

=============================================================================
