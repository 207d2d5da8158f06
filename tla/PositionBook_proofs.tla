-------------------------- MODULE PositionBook_proofs --------------------------
(* What follows from PositionBook, for any number of positions and restarts: *)
(* how often a position is recorded.  Every mode of P3 that implements       *)
(* PositionBook takes it over.                                               *)
EXTENDS PositionBook, TLAPS

TypeOK ==
    /\ open \subseteq Tickets /\ closed \subseteq Tickets /\ wiped \subseteq Tickets
    /\ writing \subseteq open /\ again \subseteq open \cup closed
    /\ trades \in [Tickets -> Nat]
    /\ restarts \in Nat

\* Without a wipe in between, what is written was recorded.
Written == \A t \in writing : trades[t] >= 1

\* Booked, where a position that has left still has room for the trade that recovery
\* may add.
Most(t) == IF restarts = 0 THEN 1 ELSE restarts + (IF t \in again THEN 1 ELSE 2)
Apart == open \cap closed = {} /\ (open \cup closed) \cap wiped = {}
OpenKept ==
    /\ \A t \in New : trades[t] = 0
    /\ \A t \in open : trades[t] <= restarts + (IF t \in writing THEN 1 ELSE 0)
LeftKept ==
    /\ restarts = 0 => again = {}
    /\ \A t \in closed : trades[t] >= 1 /\ trades[t] <= Most(t)
    /\ \A t \in wiped : trades[t] <= 1

IInv == TypeOK /\ Written /\ Apart /\ OpenKept /\ LeftKept

LEMMA InitInvariant == Init => IInv
BY DEF Init, IInv, TypeOK, Written, Apart, OpenKept, LeftKept, New

LEMMA RecordIs ==
    ASSUME TypeOK, NEW S, Record(S)
    PROVE  /\ trades' \in [Tickets -> Nat]
           /\ \A t \in S \cap Tickets : trades'[t] = trades[t] + 1
           /\ \A t \in Tickets \ S : trades'[t] = trades[t]
BY DEF Record, TypeOK

LEMMA OpenKeeps ==
    ASSUME IInv, NEW t \in Tickets, Open(t)
    PROVE  IInv'
<1>1. /\ t \in New /\ open' = open \cup {t}
      /\ UNCHANGED <<closed, wiped, writing, again, trades, restarts>>
  BY DEF Open
<1>2. TypeOK' /\ Written' /\ LeftKept'
  BY <1>1 DEF IInv, TypeOK, Written, LeftKept, Most
<1>3. trades[t] = 0 /\ t \notin closed /\ t \notin wiped /\ New' = New \ {t}
  BY <1>1 DEF IInv, OpenKept, New
<1>4. Apart'
  BY <1>1, <1>3 DEF IInv, Apart
<1>5. trades[t] <= restarts + (IF t \in writing THEN 1 ELSE 0)
  BY <1>3 DEF IInv, TypeOK
<1>6. OpenKept'
  BY <1>1, <1>3, <1>5 DEF IInv, OpenKept
<1> QED
  BY <1>2, <1>4, <1>6 DEF IInv

\* A position that leaves is within the bound of those that have left.
LEMMA LeavesWithin ==
    ASSUME IInv, NEW t \in open, NEW n \in Nat, n <= restarts + 1, n >= 1
    PROVE  n <= Most(t)
BY DEF IInv, TypeOK, LeftKept, Most

LEMMA CloseKeeps ==
    ASSUME IInv, NEW S \in SUBSET open, Close(S)
    PROVE  IInv'
<1>1. /\ writing = {} /\ Record(S)
      /\ open' = open \ S /\ closed' = closed \cup S
      /\ UNCHANGED <<wiped, writing, again, restarts>>
  BY DEF Close
<1>2. /\ trades' \in [Tickets -> Nat]
      /\ \A t \in S \cap Tickets : trades'[t] = trades[t] + 1
      /\ \A t \in Tickets \ S : trades'[t] = trades[t]
  BY <1>1, RecordIs DEF IInv
<1>3. TypeOK' /\ Written' /\ Apart'
  BY <1>1, <1>2 DEF IInv, TypeOK, Written, Apart
<1>4. New' = New /\ \A t \in New : t \notin S
  BY <1>1 DEF New
<1>5. OpenKept'
  BY <1>1, <1>2, <1>4 DEF IInv, TypeOK, OpenKept, New
<1>6. ASSUME NEW t \in S
      PROVE  trades'[t] >= 1 /\ trades'[t] <= Most(t)
  <2>1. trades[t] \in Nat /\ restarts \in Nat /\ trades'[t] = trades[t] + 1
    BY <1>2 DEF IInv, TypeOK
  <2>2. trades[t] <= restarts
    BY <1>1, <2>1 DEF IInv, OpenKept
  <2>3. trades'[t] \in Nat /\ trades'[t] <= restarts + 1 /\ trades'[t] >= 1
    BY <2>1, <2>2
  <2> QED
    BY <2>3, LeavesWithin
<1>7. \A t \in closed \cup wiped : trades'[t] = trades[t]
  BY <1>2 DEF IInv, TypeOK, Apart
<1>8. \A t : Most(t)' = Most(t)
  BY <1>1 DEF Most
<1>9. LeftKept'
  BY <1>1, <1>6, <1>7, <1>8 DEF IInv, LeftKept
<1> QED
  BY <1>3, <1>5, <1>9 DEF IInv

\* One who may be recorded again no more has a wider bound.
LEMMA MostGrows ==
    ASSUME IInv, again' \subseteq again, UNCHANGED restarts, NEW t
    PROVE  Most(t)' >= Most(t)
BY DEF IInv, TypeOK, Most

LEMMA WriteKeeps ==
    ASSUME IInv, NEW t \in Tickets, Write(t)
    PROVE  IInv'
<1>1. /\ writing = {} /\ t \in open /\ Record({t}) /\ writing' = {t} /\ again' \subseteq again
      /\ UNCHANGED <<open, closed, wiped, restarts>>
  BY DEF Write
<1>2. /\ trades' \in [Tickets -> Nat]
      /\ trades'[t] = trades[t] + 1
      /\ \A u \in Tickets \ {t} : trades'[u] = trades[u]
  BY <1>1, RecordIs DEF IInv
<1>3. TypeOK' /\ Written' /\ Apart'
  BY <1>1, <1>2 DEF IInv, TypeOK, Written, Apart
<1>4. trades[t] <= restarts /\ t \notin closed /\ t \notin wiped
  BY <1>1 DEF IInv, TypeOK, OpenKept, Apart
<1>5. OpenKept'
  BY <1>1, <1>2, <1>4 DEF IInv, TypeOK, OpenKept, New
<1>6. \A u \in closed \cup wiped : trades'[u] = trades[u] /\ trades[u] \in Nat
  BY <1>2, <1>4 DEF IInv, TypeOK
<1>7. \A u \in closed : Most(u)' >= Most(u) /\ Most(u) \in Nat /\ Most(u)' \in Nat
  BY <1>1, MostGrows DEF IInv, TypeOK, Most
<1>8. LeftKept'
  BY <1>1, <1>6, <1>7 DEF IInv, LeftKept
<1> QED
  BY <1>3, <1>5, <1>8 DEF IInv

LEMMA RemoveKeeps ==
    ASSUME IInv, Remove
    PROVE  IInv'
<1>1. /\ writing' = {} /\ open' = open \ writing /\ closed' = closed \cup writing
      /\ UNCHANGED <<wiped, again, trades, restarts>>
  BY DEF Remove
<1>2. TypeOK' /\ Written' /\ Apart'
  BY <1>1 DEF IInv, TypeOK, Written, Apart
<1>3. New' = New
  BY <1>1 DEF IInv, TypeOK, New
<1>4. OpenKept'
  BY <1>1, <1>3 DEF IInv, TypeOK, OpenKept
<1>5. ASSUME NEW t \in writing
      PROVE  trades[t] >= 1 /\ trades[t] <= Most(t)
  <2>1. t \in open /\ trades[t] \in Nat /\ trades[t] <= restarts + 1 /\ trades[t] >= 1
    BY DEF IInv, TypeOK, Written, OpenKept
  <2> QED
    BY <2>1, LeavesWithin
<1>6. LeftKept'
  BY <1>1, <1>5 DEF IInv, LeftKept, Most
<1> QED
  BY <1>2, <1>4, <1>6 DEF IInv

LEMMA RestartKeeps ==
    ASSUME IInv, NEW B \in SUBSET open, Restart(B)
    PROVE  IInv'
<1>1. /\ restarts' = restarts + 1 /\ writing' = {} /\ again' \subseteq open
      /\ B # {} => writing = {}
      /\ UNCHANGED <<open, closed, wiped>>
  BY DEF Restart
<1>2. /\ trades' \in [Tickets -> Nat]
      /\ \A t \in B \cap Tickets : trades'[t] = trades[t] + 1
      /\ \A t \in Tickets \ B : trades'[t] = trades[t]
  BY RecordIs DEF IInv, Restart
<1>3. TypeOK' /\ Written' /\ Apart'
  BY <1>1, <1>2 DEF IInv, TypeOK, Written, Apart
<1>4. New' = New /\ \A t \in New : t \in Tickets /\ t \notin B
  BY <1>1 DEF New
<1>5. ASSUME NEW t \in open
      PROVE  trades'[t] <= restarts + 1
  <2>1. /\ trades[t] <= restarts + (IF t \in writing THEN 1 ELSE 0)
        /\ t \in Tickets /\ trades[t] \in Nat /\ restarts \in Nat
    BY DEF IInv, TypeOK, OpenKept
  <2>2. CASE t \in B
    BY <1>1, <1>2, <2>1, <2>2
  <2>3. CASE t \notin B
    BY <1>2, <2>1, <2>3
  <2> QED
    BY <2>2, <2>3
<1>6. OpenKept'
  BY <1>1, <1>2, <1>4, <1>5 DEF IInv, TypeOK, OpenKept
<1>7. \A t \in closed \cup wiped : trades'[t] = trades[t] /\ trades[t] \in Nat
  BY <1>2 DEF IInv, TypeOK, Apart
<1>8. \A t \in closed : trades[t] <= restarts + 2 /\ t \notin again'
  BY <1>1, <1>7 DEF IInv, TypeOK, Apart, LeftKept, Most
<1>9. \A t \in closed : Most(t)' = restarts + 3
  BY <1>1, <1>8 DEF IInv, TypeOK, Most
<1>10. LeftKept'
  <2>1. restarts' # 0 /\ restarts \in Nat
    BY <1>1 DEF IInv, TypeOK
  <2> QED
    BY <1>1, <1>7, <1>8, <1>9, <2>1 DEF IInv, LeftKept
<1> QED
  BY <1>3, <1>6, <1>10 DEF IInv

LEMMA RepeatKeeps ==
    ASSUME IInv, NEW t \in Tickets, Repeat(t)
    PROVE  IInv'
<1>1. /\ writing = {} /\ t \in closed /\ t \in again /\ Record({t}) /\ again' = again \ {t}
      /\ UNCHANGED <<open, closed, wiped, writing, restarts>>
  BY DEF Repeat
<1>2. /\ trades' \in [Tickets -> Nat]
      /\ trades'[t] = trades[t] + 1
      /\ \A u \in Tickets \ {t} : trades'[u] = trades[u]
  BY <1>1, RecordIs DEF IInv
<1>3. TypeOK' /\ Written' /\ Apart'
  BY <1>1, <1>2 DEF IInv, TypeOK, Written, Apart
<1>4. OpenKept'
  BY <1>1, <1>2 DEF IInv, TypeOK, Apart, OpenKept, New
<1>5. restarts # 0 /\ trades[t] <= restarts + 1 /\ Most(t)' = restarts + 2
  BY <1>1 DEF IInv, TypeOK, LeftKept, Most
<1>6. trades'[t] >= 1 /\ trades'[t] <= Most(t)'
  BY <1>2, <1>5 DEF IInv, TypeOK
<1>7. \A u \in closed \ {t} : trades'[u] = trades[u] /\ Most(u)' = Most(u)
  BY <1>1, <1>2 DEF IInv, TypeOK, Most
<1>8. \A u \in wiped : trades'[u] = trades[u]
  BY <1>1, <1>2 DEF IInv, TypeOK, Apart
<1>9. LeftKept'
  BY <1>1, <1>5, <1>6, <1>7, <1>8 DEF IInv, LeftKept
<1> QED
  BY <1>3, <1>4, <1>9 DEF IInv

LEMMA SettleKeeps ==
    ASSUME IInv, Settle
    PROVE  IInv'
<1>1. again' \subseteq again /\ UNCHANGED <<open, closed, wiped, writing, trades, restarts>>
  BY DEF Settle
<1>2. TypeOK' /\ Written' /\ Apart' /\ OpenKept'
  BY <1>1 DEF IInv, TypeOK, Written, Apart, OpenKept, New
<1>3. \A u \in closed : Most(u)' >= Most(u) /\ Most(u) \in Nat /\ Most(u)' \in Nat /\ trades[u] \in Nat
  BY <1>1, MostGrows DEF IInv, TypeOK, Most
<1>4. LeftKept'
  BY <1>1, <1>3 DEF IInv, LeftKept
<1> QED
  BY <1>2, <1>4 DEF IInv

LEMMA WipeKeeps ==
    ASSUME IInv, Wipe
    PROVE  IInv'
<1>1. /\ writing = {} /\ open' = {} /\ closed' = {} /\ wiped' = wiped \cup open \cup closed
      /\ trades' \in [Tickets -> 0 .. 1] /\ \A t \in Tickets \ open : trades'[t] = 0
      /\ again' = {} /\ UNCHANGED <<writing, restarts>>
  BY DEF Wipe
<1>2. TypeOK' /\ Written' /\ Apart'
  BY <1>1 DEF IInv, TypeOK, Written, Apart
<1>3. \A t \in Tickets : trades'[t] <= 1
  BY <1>1
<1>4. New' = New /\ \A t \in New : t \in Tickets \ open
  BY <1>1 DEF New
<1>5. OpenKept' /\ LeftKept'
  BY <1>1, <1>2, <1>3, <1>4 DEF TypeOK, OpenKept, LeftKept
<1> QED
  BY <1>2, <1>5 DEF IInv

LEMMA NextKeeps == IInv /\ [Next]_vars => IInv'
<1> SUFFICES ASSUME IInv, [Next]_vars PROVE IInv'
  OBVIOUS
<1>1. CASE UNCHANGED vars
  BY <1>1 DEF vars, IInv, TypeOK, Written, Apart, OpenKept, LeftKept, Most, New
<1>2. ASSUME NEW B \in {{}} \cup {{t} : t \in open}, Restart(B)
      PROVE  IInv'
  <2>1. B \in SUBSET open
    OBVIOUS
  <2> QED
    BY <1>2, <2>1, RestartKeeps
<1> QED
  BY <1>1, <1>2, OpenKeeps, CloseKeeps, WriteKeeps, RemoveKeeps, RepeatKeeps, SettleKeeps, WipeKeeps DEF Next

THEOREM Invariance == Spec => []IInv
BY InitInvariant, NextKeeps, PTL DEF Spec

\* A position is open, closed or wiped; open ones have a trade per restart at most;
\* closed ones have one, and with restarts no more than one for each and two more: it may
\* leave, and recovery may record it again (recovery.py, position_tracker.py).
THEOREM BooksAreKept == Spec => []Booked
<1>1. ASSUME IInv PROVE Booked
  <2>1. \A t \in closed : trades[t] \in 1 .. (IF restarts = 0 THEN 1 ELSE restarts + 2)
    BY <1>1 DEF IInv, TypeOK, LeftKept, Most
  <2> QED
    BY <1>1, <2>1 DEF IInv, Apart, OpenKept, LeftKept, Booked
<1> QED
  BY <1>1, Invariance, PTL

=============================================================================
