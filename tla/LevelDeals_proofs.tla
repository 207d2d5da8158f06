--------------------------- MODULE LevelDeals_proofs ---------------------------
(* The promise of LevelDeals keeps what it is made for: nothing is held that *)
(* nobody will close.                                                        *)
EXTENDS LevelDeals, TLAPS

\* A held slot stays one that is wanted, or whose close is due or lost (grid_bias.py:
\* no level is dropped without a close for the position P3 may hold).
THEOREM AlwaysAnswered == Spec => []Answered
<1>1. Init => Answered
  BY DEF Init, Answered
<1>2. Answered /\ [Next]_vars => Answered'
  <2> SUFFICES ASSUME Answered, [Next]_vars
               PROVE  Answered'
    OBVIOUS
  <2> USE DEF Answered
  <2>1. CASE Decide
    BY <2>1 DEF Decide
  <2>2. CASE Lose
    BY <2>2 DEF Lose
  <2>3. CASE Vanish
    BY <2>3 DEF Vanish
  <2>4. CASE \E x \in Slots : Open(x)
    BY <2>4 DEF Open
  <2>5. ASSUME NEW x \in Slots, Close(x)
        PROVE  Answered'
    BY <2>5 DEF Close
  <2>6. CASE UNCHANGED vars
    BY <2>6 DEF vars
  <2> QED
    BY <2>1, <2>2, <2>3, <2>4, <2>5, <2>6 DEF Next
<1> QED
  BY <1>1, <1>2, PTL DEF Spec

=============================================================================
