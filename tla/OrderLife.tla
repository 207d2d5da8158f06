------------------------------ MODULE OrderLife -------------------------------
(***************************************************************************)
(* What becomes of an order that the program places: it is watched or lost *)
(* sight of, its fill is found once, and what was found is finished or     *)
(* given up.  No order goes back, whatever polls, cancellations, bans and  *)
(* restarts come in between.                                               *)
(***************************************************************************)
CONSTANT Orders         \* orders there may be

VARIABLES
    fresh,      \* orders not placed yet
    filled,     \* orders the exchange has filled
    watched,    \* orders the program looks after
    found       \* fills the program has found and not finished yet

vars == <<fresh, filled, watched, found>>

Init == fresh = Orders /\ filled = {} /\ watched = {} /\ found = {}

\* Orders are placed, and some of them watched, in place of others or not.
Watching ==
    /\ fresh' \subseteq fresh
    /\ watched' \subseteq watched \cup (fresh \ fresh')

Place == Watching /\ UNCHANGED <<filled, found>>

\* The exchange fills an order.
Fill(o) ==
    /\ o \in Orders \ fresh
    /\ filled' = filled \cup {o}
    /\ UNCHANGED <<fresh, watched, found>>

\* The program finds fills and stops watching their orders.
Find(S) ==
    /\ found = {} /\ found' = S
    /\ S \subseteq filled
    /\ watched' \subseteq watched \ S
    /\ UNCHANGED <<fresh, filled>>

\* A fill is finished; an order may follow it.
Finish(o) ==
    /\ found' = found \ {o}
    /\ Watching
    /\ UNCHANGED filled

\* Orders are no longer watched, and what was found may be forgotten.
Forget ==
    /\ watched' \subseteq watched /\ found' \in {found, {}}
    /\ UNCHANGED <<fresh, filled>>

Next ==
    \/ Place \/ Forget
    \/ \E o \in Orders : Fill(o)
    \/ \E S \in SUBSET watched : Find(S)
    \/ \E o \in found : Finish(o)

Spec == Init /\ [][Next]_vars

\* An order is in one place, and what was found is a fill.
OnePlace ==
    /\ fresh \cap (watched \cup found \cup filled) = {}
    /\ watched \cap found = {}
    /\ found \subseteq filled

\* An order that has left a place does not come back to it or to an earlier one: what
\* is found was watched until then, and what is watched anew is a new order.
Onward ==
    /\ fresh' \subseteq fresh
    /\ watched' \ watched \subseteq fresh \ fresh'
    /\ found' \ found \subseteq (watched \ watched') \cap filled
GoesOnward == [][Onward]_vars

=============================================================================
