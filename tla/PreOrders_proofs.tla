--------------------------- MODULE PreOrders_proofs ---------------------------
(* Safety of the pre-order manager, for every set of levels, every retry    *)
(* limit and every bound: a fill is recorded at most once, only a filled    *)
(* order is recorded, a banned symbol keeps no tracked entry, and entries   *)
(* and take-profits implement OrderLife.                                    *)
EXTENDS PreOrders, SequenceTheorems, TLAPS

Order == [lvl : Levels, kind : {"entry", "tp"}, of : 0 .. MaxOrders,
          st : {"open", "filled", "cancelled"}]

\* The parts of TypeOK.
Book == orders \in Seq(Order) /\ Len(orders) <= MaxOrders
Maps ==
    /\ DOMAIN pending \subseteq Levels /\ pending \in [DOMAIN pending -> placed]
    /\ DOMAIN filled \subseteq Levels /\ filled \in [DOMAIN filled -> placed]
    /\ DOMAIN tps \subseteq Levels /\ tps \in [DOMAIN tps -> placed]
Counts == retries \in [Levels -> 0 .. Retries - 1] /\ missed \in [Levels -> 0 .. Retries]
Work == todo \subseteq placed /\ tpdone \subseteq placed /\ rows \in Seq(placed)
Ban ==
    /\ losses \in 0 .. BanAfter
    /\ banned \in BOOLEAN
    /\ banning \in {"none", "entries", "tps"}
History == recorded \in [Ids -> 0 .. 2] /\ early \subseteq placed

LEMMA TypeParts ==
    TypeOK <=> /\ Book /\ shown \subseteq placed /\ net \in Int
               /\ Maps /\ Counts /\ Work /\ Ban /\ History /\ restarts \in 0 .. MaxRestarts
BY DEF TypeOK, Order, Book, Maps, Counts, Work, Ban, History

\* The orders are the numbers from 1 to their count.
LEMMA PlacedOrders ==
    ASSUME Book
    PROVE  /\ Len(orders) \in Nat
           /\ placed \subseteq Ids
           /\ \A o \in placed : orders[o] \in Order
<1>1. Len(orders) \in Nat /\ Len(orders) <= MaxOrders /\ MaxOrders \in Nat
  BY LenProperties, BoundsAssumption DEF Book
<1>2. \A o \in placed : orders[o] \in Order
  BY ElementOfSeq DEF Book, placed
<1>3. placed \subseteq Ids
  BY ONLY <1>1 DEF placed, Ids
<1> QED
  BY <1>1, <1>2, <1>3

-----------------------------------------------------------------------------
(* What a step may do to the order history.                                 *)

\* The orders that the exchange has filled.
Done == {o \in placed : orders[o].st = "filled"}

\* Orders are never taken back or renamed, and a filled order stays filled.
OrdersKept ==
    /\ Book'
    /\ placed \subseteq placed'
    /\ \A o \in placed : /\ orders'[o].lvl = orders[o].lvl
                         /\ orders'[o].kind = orders[o].kind
                         /\ orders[o].st = "filled" => orders'[o].st = "filled"

LEMMA PlacingKeeps ==
    ASSUME Book, NEW l \in Levels, NEW kind \in {"entry", "tp"}, NEW of \in 0 .. MaxOrders,
           NEW n \in 0 .. 3, Placing(l, kind, of, n)
    PROVE  /\ OrdersKept
           /\ Len(orders') = Len(orders) + n
           /\ n > 0 => /\ Len(orders) + n \in placed' \ placed
                       /\ orders'[Len(orders) + n].lvl = l
                       /\ orders'[Len(orders) + n].kind = kind
           /\ Done' = Done
<1> DEFINE r == [lvl |-> l, kind |-> kind, of |-> of, st |-> "open"]
           t == [i \in 1 .. n |-> r]
<1>1. r \in Order
  BY DEF Order
<1>2. orders' = orders \o t /\ Len(orders) + n <= MaxOrders
  BY DEF Placing
<1>3. r.lvl = l /\ r.kind = kind /\ r.st # "filled"
  OBVIOUS
<1> HIDE DEF r
<1>4. n \in Nat /\ t \in [1 .. n -> Order] /\ \A i \in 1 .. n : t[i] = r
  BY <1>1
<1> HIDE DEF t
<1>5. t \in Seq(Order) /\ Len(t) = n
  <2>1. t \in Seq(Order)
    BY <1>4, SeqDef
  <2> QED
    BY <1>4, <2>1, LenProperties
<1>6. /\ orders' \in Seq(Order)
      /\ Len(orders') = Len(orders) + n
      /\ \A i \in 1 .. Len(orders) + n :
            orders'[i] = IF i <= Len(orders) THEN orders[i] ELSE t[i - Len(orders)]
  BY <1>2, <1>5, ConcatProperties DEF Book
<1>7. Len(orders) \in Nat
  BY PlacedOrders
<1>8. placed \subseteq placed' /\ \A o \in placed : orders'[o] = orders[o]
  BY <1>4, <1>6, <1>7 DEF placed
<1>9. ASSUME n > 0
      PROVE  /\ Len(orders) + n \in placed' \ placed
             /\ orders'[Len(orders) + n] = r
  <2>1. Len(orders) + n \in 1 .. Len(orders) + n /\ ~(Len(orders) + n <= Len(orders))
        /\ Len(orders) + n - Len(orders) = n /\ n \in 1 .. n
    BY ONLY <1>4, <1>7, <1>9
  <2> QED
    BY <1>4, <1>6, <2>1 DEF placed
<1>10. \A o \in placed' \ placed : orders'[o] = r
  <2> SUFFICES ASSUME NEW o \in placed' \ placed PROVE orders'[o] = r
    OBVIOUS
  <2>1. o \in 1 .. Len(orders) + n /\ ~(o <= Len(orders)) /\ o - Len(orders) \in 1 .. n
    <3>1. o \in 1 .. Len(orders) + n /\ o \notin 1 .. Len(orders)
      BY <1>6 DEF placed
    <3> QED
      BY ONLY <1>4, <1>7, <3>1
  <2> QED
    BY <1>4, <1>6, <2>1
<1>11. Done' = Done
  BY <1>3, <1>8, <1>10 DEF Done
<1> QED
  BY <1>2, <1>3, <1>6, <1>8, <1>9, <1>11 DEF OrdersKept, Book

LEMMA CancelledKeeps ==
    ASSUME Book, NEW S, NEW failed, orders' = Cancelled(S, failed)
    PROVE  OrdersKept /\ placed' = placed /\ Done' = Done
<1>1. /\ orders' = [o \in placed |-> IF o \in (S \cap book) \ failed
                                     THEN [orders[o] EXCEPT !.st = "cancelled"] ELSE orders[o]]
      /\ \A o \in placed : orders[o] \in Order
      /\ Len(orders) \in Nat
  BY PlacedOrders DEF Cancelled
<1>2. \A o \in placed : orders'[o] \in Order /\ orders'[o].lvl = orders[o].lvl
                        /\ orders'[o].kind = orders[o].kind
  BY <1>1 DEF Order
<1>3. \A o \in placed : orders[o].st = "filled" => orders'[o] = orders[o]
  BY <1>1 DEF book, Open
<1>4. orders' \in [1 .. Len(orders) -> Order]
  BY <1>1, <1>2 DEF placed
<1>5. orders' \in Seq(Order)
  BY <1>1, <1>4, SeqDef
<1>6. Len(orders') = Len(orders)
  BY <1>1, <1>4, <1>5, LenProperties
<1>7. \A o \in placed : orders'[o].st = "filled" => orders[o].st = "filled"
  BY <1>1 DEF Order
<1>8. placed' = placed /\ Done' = Done
  BY <1>3, <1>6, <1>7 DEF placed, Done
<1> QED
  BY <1>2, <1>3, <1>5, <1>6, <1>8 DEF OrdersKept, Book, placed

LEMMA MarkKeeps ==
    ASSUME Book, NEW o \in placed, Open(o), NEW st \in {"filled", "cancelled"},
           orders' = [orders EXCEPT ![o].st = st]
    PROVE  /\ OrdersKept /\ placed' = placed
           /\ st = "filled" => Done' = Done \cup {o}
           /\ st = "cancelled" => Done' = Done
<1> DEFINE r == [orders[o] EXCEPT !.st = st]
<1>1. r \in Order /\ r.lvl = orders[o].lvl /\ r.kind = orders[o].kind /\ r.st = st
  BY PlacedOrders DEF Order
<1>2. orders' = [orders EXCEPT ![o] = r]
  OBVIOUS
<1> HIDE DEF r
<1>3. /\ orders' \in Seq(Order) /\ Len(orders') = Len(orders)
      /\ \A j \in placed : orders'[j] = IF j = o THEN r ELSE orders[j]
  BY <1>1, <1>2, ExceptSeq DEF Book, placed
<1>4. placed' = placed
  BY <1>3 DEF placed
<1>5. (st = "filled" => Done' = Done \cup {o}) /\ (st = "cancelled" => Done' = Done)
  BY <1>1, <1>3, <1>4 DEF Done, Open
<1> QED
  BY <1>1, <1>3, <1>4, <1>5 DEF OrdersKept, Book, Open, placed

LEMMA SameOrders ==
    ASSUME Book, orders' = orders
    PROVE  OrdersKept
BY DEF OrdersKept, Book, placed

LEMMA DirectionType == \A l : Direction(l) \in Int
BY DEF Direction

\* Every step keeps the orders and moves the position by whole units.
LEMMA StepKeepsOrders ==
    ASSUME TypeOK, Next
    PROVE  OrdersKept /\ net' \in Int
<1> USE TypeParts
<1>0. Book /\ net \in Int /\ todo \subseteq placed
  BY DEF Work
<1>1. ASSUME UNCHANGED <<orders, net>> PROVE OrdersKept /\ net' \in Int
  BY <1>0, <1>1, SameOrders
<1>2. ASSUME NEW o \in placed, Fill(o) PROVE OrdersKept /\ net' \in Int
  <2>1. Effect(o) \in Int
    BY DEF Effect, Direction
  <2>2. net' = net + Effect(o) /\ Open(o) /\ orders' = [orders EXCEPT ![o].st = "filled"]
    BY <1>2 DEF Fill
  <2>3. OrdersKept
    BY <1>0, <2>2, MarkKeeps
  <2> QED
    BY <1>0, <2>1, <2>2, <2>3
<1>3. ASSUME NEW o \in placed, Withdraw(o) PROVE OrdersKept /\ net' \in Int
  BY <1>0, <1>3, MarkKeeps DEF Withdraw
<1>4. ASSUME NEW l \in Levels, NEW n \in 0 .. 3, NEW known \in BOOLEAN, Setup(l, n, known)
      PROVE  OrdersKept /\ net' \in Int
  <2>1. 0 \in 0 .. MaxOrders
    BY BoundsAssumption
  <2> QED
    BY <1>0, <1>4, <2>1, PlacingKeeps DEF Setup
<1>5. ASSUME NEW o \in todo, NEW n \in 0 .. 3, NEW known \in BOOLEAN, Record(o, n, known)
      PROVE  OrdersKept /\ net' \in Int
  <2>1. o \in Ids /\ orders[o].lvl \in Levels
    BY <1>0, PlacedOrders DEF Order
  <2>2. o \in 0 .. MaxOrders
    BY <2>1, BoundsAssumption DEF Ids
  <2> QED
    BY <1>0, <1>5, <2>1, <2>2, PlacingKeeps DEF Record
<1>6. ASSUME NEW failed, \/ Recenter(failed) \/ BanCancelsEntries(failed) \/ BanCancelsTps(failed)
                         \/ SyncExchange(failed)
      PROVE  OrdersKept /\ net' \in Int
  BY <1>0, <1>6, CancelledKeeps
     DEF Recenter, CancelSymbol, BanCancelsEntries, BanCancelsTps, SyncExchange
<1>7. ASSUME NEW failed, Restart(failed)
      PROVE  OrdersKept /\ net' \in Int
  BY <1>0, <1>7, CancelledKeeps DEF Restart
<1>8. ASSUME NEW failed, NEW i \in DOMAIN rows, StopHit(i, failed)
      PROVE  OrdersKept /\ net' \in Int
  BY <1>0, <1>8, CancelledKeeps, DirectionType DEF StopHit, CancelSymbol
<1>9. ASSUME NEW i \in DOMAIN rows, Expire(i)
      PROVE  OrdersKept /\ net' \in Int
  BY <1>0, <1>9, SameOrders, DirectionType DEF Expire
<1>10. ASSUME NEW seen, CheckFills(seen) \/ CheckTpFills(seen)
       PROVE  OrdersKept /\ net' \in Int
  BY <1>1, <1>10 DEF CheckFills, CheckTpFills, TpsLeft, exchange
<1>11. ASSUME NEW o, NEW lost, BookTp(o, lost)
       PROVE  OrdersKept /\ net' \in Int
  BY <1>1, <1>11 DEF BookTp, exchange
<1>12. ASSUME NEW i, TargetHit(i)
       PROVE  OrdersKept /\ net' \in Int
  BY <1>1, <1>12 DEF TargetHit, exchange
<1>13. CASE PollFails
  BY <1>1, <1>13 DEF PollFails, exchange
<1>14. ASSUME NEW o, Show(o)
       PROVE  OrdersKept /\ net' \in Int
  BY <1>1, <1>14 DEF Show
<1> QED
  BY <1>2, <1>3, <1>4, <1>5, <1>6, <1>7, <1>8, <1>9, <1>10, <1>11, <1>12, <1>13, <1>14
     DEF Next, Exchange, Poll

-----------------------------------------------------------------------------
(* Types of the manager's maps.                                             *)

LEMMA EmptyMap == DOMAIN <<>> = {} /\ \A T : <<>> \in [{} -> T]
OBVIOUS

LEMMA WithoutType ==
    ASSUME NEW f, NEW L, NEW A, NEW B, NEW S,
           DOMAIN f \subseteq L, f \in [DOMAIN f -> A], A \subseteq B
    PROVE  DOMAIN Without(f, S) \subseteq L /\ Without(f, S) \in [DOMAIN Without(f, S) -> B]
BY DEF Without, Restrict

LEMMA SameType ==
    ASSUME NEW f, NEW A, NEW B, f \in [DOMAIN f -> A], A \subseteq B
    PROVE  f \in [DOMAIN f -> B]
OBVIOUS

\* check_fills and the two ways of placing an order keep the maps typed.
LEMMA MapsStep ==
    ASSUME TypeOK, Next, OrdersKept
    PROVE  Maps'
<1>1. Maps /\ Book /\ placed \subseteq placed'
  BY TypeParts DEF OrdersKept
<1>2. ASSUME UNCHANGED <<pending, filled, tps>> PROVE Maps'
  BY <1>1, <1>2, SameType DEF Maps
<1>3. ASSUME pending' = <<>> \/ UNCHANGED pending,
             tps' = <<>> \/ UNCHANGED tps,
             filled' = <<>> \/ UNCHANGED filled
      PROVE  Maps'
  <2>1. ASSUME NEW f, NEW g, DOMAIN f \subseteq Levels, f \in [DOMAIN f -> placed],
               g = <<>> \/ g = f
        PROVE  DOMAIN g \subseteq Levels /\ g \in [DOMAIN g -> placed']
    <3>1. CASE g = <<>>
      BY <3>1, EmptyMap
    <3>2. CASE g = f
      BY <1>1, <2>1, <3>2
    <3> QED
      BY <2>1, <3>1, <3>2
  <2>2. DOMAIN pending' \subseteq Levels /\ pending' \in [DOMAIN pending' -> placed']
    BY <1>1, <1>3, <2>1 DEF Maps
  <2>3. DOMAIN filled' \subseteq Levels /\ filled' \in [DOMAIN filled' -> placed']
    BY <1>1, <1>3, <2>1 DEF Maps
  <2>4. DOMAIN tps' \subseteq Levels /\ tps' \in [DOMAIN tps' -> placed']
    BY <1>1, <1>3, <2>1 DEF Maps
  <2> QED
    BY <2>2, <2>3, <2>4 DEF Maps
<1>4. ASSUME NEW l \in Levels, NEW n \in 0 .. 3, NEW known \in BOOLEAN, Setup(l, n, known)
      PROVE  Maps'
  <2>1. UNCHANGED <<filled, tps>>
    BY <1>4 DEF Setup
  <2>2. CASE n = 0 \/ ~known
    BY <1>2, <1>4, <2>1, <2>2 DEF Setup
  <2>3. CASE n > 0 /\ known
    <3>1. pending' = Put(pending, l, Len(orders) + n) /\ Placing(l, "entry", 0, n)
      BY <1>4, <2>3 DEF Setup
    <3>2. 0 \in 0 .. MaxOrders
      BY BoundsAssumption
    <3>3. Len(orders) + n \in placed'
      BY <1>1, <2>3, <3>1, <3>2, PlacingKeeps
    <3>4. DOMAIN pending' \subseteq Levels /\ pending' \in [DOMAIN pending' -> placed']
      <4>1. DOMAIN pending \subseteq Levels /\ pending \in [DOMAIN pending -> placed]
            /\ placed \subseteq placed'
        BY <1>1 DEF Maps
      <4>2. pending' = Put(pending, l, Len(orders) + n)
        BY <3>1
      <4> QED
        BY ONLY <3>3, <4>1, <4>2 DEF Put
    <3> QED
      BY <1>1, <2>1, <3>4, SameType DEF Maps
  <2> QED
    BY <2>2, <2>3
<1>5. ASSUME NEW o \in todo, NEW n \in 0 .. 3, NEW known \in BOOLEAN, Record(o, n, known)
      PROVE  Maps'
  <2> DEFINE l == orders[o].lvl
  <2>0. o \in 0 .. MaxOrders /\ l \in Levels
    <3>1. o \in placed
      BY TypeParts DEF Work
    <3>2. o \in Ids /\ orders[o] \in Order
      BY <1>1, <3>1, PlacedOrders
    <3> QED
      BY <3>2, BoundsAssumption DEF Ids, Order
  <2>1. UNCHANGED <<pending, filled>>
    BY <1>5 DEF Record
  <2>2. CASE n = 0 \/ ~known
    BY <1>2, <1>5, <2>1, <2>2 DEF Record
  <2>3. CASE n > 0 /\ known
    <3>1. tps' = Put(tps, l, Len(orders) + n) /\ Placing(l, "tp", o, n)
      BY <1>5, <2>3 DEF Record
    <3>2. Len(orders) + n \in placed'
      BY <1>1, <2>0, <2>3, <3>1, PlacingKeeps
    <3> HIDE DEF l
    <3>4. DOMAIN tps \subseteq Levels /\ tps \in [DOMAIN tps -> placed] /\ placed \subseteq placed'
      BY <1>1 DEF Maps
    <3>5. tps' = Put(tps, l, Len(orders) + n) /\ l \in Levels
      BY <2>0, <3>1
    <3>3. DOMAIN tps' \subseteq Levels /\ tps' \in [DOMAIN tps' -> placed']
      BY ONLY <3>2, <3>4, <3>5 DEF Put
    <3>6. /\ DOMAIN pending' \subseteq Levels /\ pending' \in [DOMAIN pending' -> placed']
          /\ DOMAIN filled' \subseteq Levels /\ filled' \in [DOMAIN filled' -> placed']
      BY <1>1, <2>1 DEF Maps
    <3> QED
      BY <3>3, <3>6 DEF Maps
  <2> QED
    BY <2>2, <2>3
<1>6. ASSUME NEW seen \in SUBSET MayConfirm(pending), CheckFills(seen)
      PROVE  Maps'
  <2>1. seen \subseteq DOMAIN pending
    BY DEF MayConfirm, Gone
  <2> DEFINE S == seen \cup GivenUp(Gone(pending) \ seen)
  <2>2. /\ pending' = Without(pending, S)
        /\ filled' = [l \in DOMAIN filled \cup seen |->
                        IF l \in seen THEN pending[l] ELSE filled[l]]
        /\ tps' = tps
    BY <1>6 DEF CheckFills, Kept
  <2> HIDE DEF S
  <2>3. DOMAIN pending' \subseteq Levels /\ pending' \in [DOMAIN pending' -> placed']
    BY <1>1, <2>2, WithoutType DEF Maps
  <2>4. DOMAIN filled' \subseteq Levels /\ filled' \in [DOMAIN filled' -> placed']
    BY <1>1, <2>1, <2>2 DEF Maps
  <2> QED
    BY <1>1, <2>2, <2>3, <2>4, SameType DEF Maps
<1>7. ASSUME NEW seen \in SUBSET MayConfirm(tps), CheckTpFills(seen)
      PROVE  Maps'
  <2>1. tps' = Without(tps, Gone(tps)) /\ filled' = Without(filled, seen) /\ pending' = pending
    BY <1>7 DEF CheckTpFills, TpsLeft
  <2>2. DOMAIN tps' \subseteq Levels /\ tps' \in [DOMAIN tps' -> placed']
    BY <1>1, <2>1, WithoutType DEF Maps
  <2>3. DOMAIN filled' \subseteq Levels /\ filled' \in [DOMAIN filled' -> placed']
    BY <1>1, <2>1, WithoutType DEF Maps
  <2> QED
    BY <1>1, <2>1, <2>2, <2>3, SameType DEF Maps
<1>8. ASSUME NEW failed, \/ Recenter(failed) \/ BanCancelsEntries(failed)
                         \/ BanCancelsTps(failed) \/ Restart(failed)
      PROVE  Maps'
  BY <1>3, <1>8 DEF Recenter, CancelSymbol, BanCancelsEntries, BanCancelsTps, Restart
<1>9. ASSUME NEW failed, NEW i, StopHit(i, failed)
      PROVE  Maps'
  BY <1>3, <1>9 DEF StopHit, CancelSymbol
<1>10. ASSUME NEW failed, SyncExchange(failed)
       PROVE  Maps'
  BY <1>2, <1>10 DEF SyncExchange, manager
<1>11. ASSUME NEW o, Fill(o) \/ Show(o) \/ Withdraw(o)
       PROVE  Maps'
  BY <1>2, <1>11 DEF Fill, Show, Withdraw, manager
<1>12. ASSUME NEW i, TargetHit(i) \/ Expire(i)
       PROVE  Maps'
  BY <1>2, <1>12 DEF TargetHit, Expire, manager
<1>13. ASSUME NEW o, NEW lost, BookTp(o, lost)
       PROVE  Maps'
  BY <1>2, <1>13 DEF BookTp, manager
<1>14. CASE PollFails
  BY <1>2, <1>14 DEF PollFails, manager
<1> QED
  BY <1>4, <1>5, <1>6, <1>7, <1>8, <1>9, <1>10, <1>11, <1>12, <1>13, <1>14
     DEF Next, Exchange, Poll

-----------------------------------------------------------------------------
(* Types of the counts, the results under way, the ban and the history.     *)

\* A level that is not given up stays below the limit.
LEMMA CountedType ==
    ASSUME Counts, NEW lost \in SUBSET Levels
    PROVE  Counted(lost, GivenUp(lost)) \in [Levels -> 0 .. Retries - 1]
<1> DEFINE c == Counted(lost, GivenUp(lost))
<1>1. Retries \in Nat \ {0} /\ \A l \in Levels : retries[l] \in 0 .. Retries - 1
  BY CountsAssumption DEF Counts
<1>2. ASSUME NEW l \in Levels
      PROVE  (CASE l \in GivenUp(lost) -> 0
                [] l \in lost \ GivenUp(lost) -> retries[l] + 1
                [] OTHER -> retries[l]) \in 0 .. Retries - 1
  <2>1. CASE l \in GivenUp(lost)
    BY <1>1, <2>1
  <2>2. CASE l \in lost \ GivenUp(lost)
    <3>1. ~(retries[l] + 1 >= Retries)
      BY <2>2 DEF GivenUp
    <3> QED
      BY <1>1, <2>2, <3>1
  <2>3. CASE l \notin lost /\ l \notin GivenUp(lost)
    BY <1>1, <2>3
  <2> QED
    BY <2>1, <2>2, <2>3
<1> QED
  BY <1>2 DEF Counted

LEMMA CountsStep ==
    ASSUME TypeOK, Next
    PROVE  Counts'
<1>1. Counts /\ Maps
  BY TypeParts
<1>2. 0 \in 0 .. Retries - 1 /\ 0 \in 0 .. Retries
  BY CountsAssumption
<1>3. ASSUME UNCHANGED <<retries, missed>> PROVE Counts'
  BY <1>1, <1>3 DEF Counts
<1>4. ASSUME UNCHANGED retries \/ retries' = [l \in Levels |-> 0],
             missed' = [l \in Levels |-> 0]
      PROVE  Counts'
  BY <1>1, <1>2, <1>4 DEF Counts
<1>5. ASSUME NEW l \in Levels, NEW n, NEW known, Setup(l, n, known)
      PROVE  Counts'
  <2>1. retries' = retries /\ (missed' = missed \/ missed' = [missed EXCEPT ![l] = 0])
    BY <1>5 DEF Setup
  <2> QED
    BY <1>1, <1>2, <2>1 DEF Counts
<1>6. ASSUME NEW seen, CheckFills(seen)
      PROVE  Counts'
  <2> DEFINE lost == Gone(pending) \ seen
             up == GivenUp(lost)
  <2>1. lost \in SUBSET Levels
    BY <1>1 DEF Gone, Maps
  <2>2. /\ retries' = Counted(lost, up)
        /\ missed' = [l \in Levels |-> CASE l \in lost \ up /\ missed[l] < Retries -> missed[l] + 1
                                         [] l \in seen \cup up -> 0
                                         [] OTHER -> missed[l]]
    BY <1>6 DEF CheckFills
  <2>3. retries' \in [Levels -> 0 .. Retries - 1]
    BY <1>1, <2>1, <2>2, CountedType
  <2>4. missed' \in [Levels -> 0 .. Retries]
    <3> HIDE DEF lost, up
    <3>1. Retries \in Nat /\ \A l \in Levels : missed[l] \in 0 .. Retries
      BY <1>1, CountsAssumption DEF Counts
    <3>2. ASSUME NEW l \in Levels
          PROVE  (CASE l \in lost \ up /\ missed[l] < Retries -> missed[l] + 1
                    [] l \in seen \cup up -> 0
                    [] OTHER -> missed[l]) \in 0 .. Retries
      <4>1. CASE l \in lost \ up /\ missed[l] < Retries
        <5>1. missed[l] + 1 \in 0 .. Retries /\ 0 \in 0 .. Retries
          BY <3>1, <4>1
        <5> QED
          BY <4>1, <5>1
      <4>2. CASE ~(l \in lost \ up /\ missed[l] < Retries)
        BY <1>2, <3>1, <4>2
      <4> QED
        BY <4>1, <4>2
    <3> QED
      BY <2>2, <3>2
  <2> QED
    BY <2>3, <2>4 DEF Counts
<1>7. ASSUME NEW failed, NEW i, Recenter(failed) \/ StopHit(i, failed)
      PROVE  Counts'
  BY <1>4, <1>7 DEF Recenter, StopHit, CancelSymbol
<1>8. ASSUME NEW failed, BanCancelsEntries(failed) \/ Restart(failed)
      PROVE  Counts'
  BY <1>4, <1>8 DEF BanCancelsEntries, Restart
<1>9. ASSUME NEW failed, BanCancelsTps(failed) \/ SyncExchange(failed)
      PROVE  Counts'
  BY <1>3, <1>9 DEF BanCancelsTps, SyncExchange, manager
<1>10. ASSUME NEW o, NEW n, NEW known, Record(o, n, known)
       PROVE  Counts'
  BY <1>3, <1>10 DEF Record
<1>11. ASSUME NEW o, Fill(o) \/ Show(o) \/ Withdraw(o)
       PROVE  Counts'
  BY <1>3, <1>11 DEF Fill, Show, Withdraw, manager
<1>12. ASSUME NEW i, TargetHit(i) \/ Expire(i)
       PROVE  Counts'
  BY <1>3, <1>12 DEF TargetHit, Expire, manager
<1>13. ASSUME NEW o, NEW lost, BookTp(o, lost)
       PROVE  Counts'
  BY <1>3, <1>13 DEF BookTp, manager
<1>14. ASSUME NEW seen, CheckTpFills(seen)
       PROVE  Counts'
  BY <1>3, <1>14 DEF CheckTpFills, TpsLeft
<1>15. CASE PollFails
  BY <1>3, <1>15 DEF PollFails, manager
<1> QED
  BY <1>5, <1>6, <1>7, <1>8, <1>9, <1>10, <1>11, <1>12, <1>13, <1>14, <1>15
     DEF Next, Exchange, Poll

\* A row leaves the table.
LEMMA RowGoneType ==
    ASSUME NEW A, rows \in Seq(A), NEW i \in DOMAIN rows, RowGone(i)
    PROVE  rows' \in Seq(A)
<1>1. Len(rows) \in Nat /\ DOMAIN rows = 1 .. Len(rows) /\ \A j \in 1 .. Len(rows) : rows[j] \in A
  BY LenProperties, ElementOfSeq
<1>2. i \in Int /\ i - 1 \in Int /\ i + 1 \in Int /\ Len(rows) \in Int
      /\ (\A j \in 1 .. i - 1 : j \in 1 .. Len(rows))
      /\ (\A j \in i + 1 .. Len(rows) : j \in 1 .. Len(rows))
  BY <1>1
<1>3. SubSeq(rows, 1, i - 1) \in Seq(A)
  BY <1>1, <1>2, SubSeqProperties
<1>4. SubSeq(rows, i + 1, Len(rows)) \in Seq(A)
  BY <1>1, <1>2, SubSeqProperties
<1> QED
  BY <1>3, <1>4, ConcatProperties DEF RowGone

LEMMA WorkStep ==
    ASSUME TypeOK, Next, OrdersKept
    PROVE  Work'
<1>1. Work /\ Maps /\ placed \subseteq placed'
  BY TypeParts DEF OrdersKept
<1>2. ASSUME todo' \subseteq placed, tpdone' \subseteq placed, rows' \in Seq(placed)
      PROVE  Work'
  BY <1>1, <1>2, SeqMonotonic DEF Work
<1>3. <<>> \in Seq(placed)
  BY EmptySeq
<1>4. ASSUME UNCHANGED <<todo, tpdone, rows>> PROVE Work'
  BY <1>1, <1>2, <1>4 DEF Work
<1>5. ASSUME NEW seen \in SUBSET MayConfirm(pending), CheckFills(seen)
      PROVE  Work'
  <2>1. todo' = {pending[l] : l \in seen} /\ UNCHANGED <<tpdone, rows>>
    BY <1>5 DEF CheckFills
  <2>2. todo' \subseteq placed
    BY <1>1, <2>1 DEF Maps, MayConfirm, Gone
  <2> QED
    BY <1>1, <1>2, <2>1, <2>2 DEF Work
<1>6. ASSUME NEW seen \in SUBSET MayConfirm(tps), CheckTpFills(seen)
      PROVE  Work'
  <2>1. tpdone' = {tps[l] : l \in seen} /\ UNCHANGED <<todo, rows>>
    BY <1>6 DEF CheckTpFills, TpsLeft
  <2>2. tpdone' \subseteq placed
    BY <1>1, <2>1 DEF Maps, MayConfirm, Gone
  <2> QED
    BY <1>1, <1>2, <2>1, <2>2 DEF Work
<1>7. ASSUME NEW o, NEW n, NEW known, Record(o, n, known)
      PROVE  Work'
  <2>1. o \in todo /\ todo' = todo \ {o} /\ rows' = <<o>> \o rows /\ tpdone' = tpdone
    BY <1>7 DEF Record
  <2>2. o \in placed
    BY <1>1, <2>1 DEF Work
  <2>3. <<o>> \in Seq(placed)
    BY <2>2
  <2>4. rows' \in Seq(placed)
    BY <1>1, <2>1, <2>3, ConcatProperties DEF Work
  <2> QED
    BY <1>1, <1>2, <2>1, <2>4 DEF Work
<1>8. ASSUME NEW o, NEW lost, BookTp(o, lost)
      PROVE  Work'
  <2>1. tpdone' \subseteq tpdone /\ todo' = todo /\ (rows' = rows \/ (rows # <<>> /\ rows' = Tail(rows)))
    BY <1>8 DEF BookTp
  <2>2. rows' \in Seq(placed)
    BY <1>1, <2>1, HeadTailProperties DEF Work
  <2> QED
    BY <1>1, <1>2, <2>1, <2>2 DEF Work
<1>9. ASSUME NEW i \in DOMAIN rows, RowGone(i), UNCHANGED <<todo, tpdone>>
      PROVE  Work'
  BY <1>1, <1>2, <1>9, RowGoneType DEF Work
<1>10. ASSUME NEW failed, NEW i \in DOMAIN rows, StopHit(i, failed) \/ TargetHit(i) \/ Expire(i)
       PROVE  Work'
  BY <1>9, <1>10 DEF StopHit, TargetHit, Expire
<1>11. ASSUME NEW failed, SyncExchange(failed) \/ Restart(failed)
       PROVE  Work'
  BY <1>1, <1>2, <1>3, <1>11 DEF SyncExchange, Restart, Work
<1>12. CASE PollFails
  BY <1>1, <1>2, <1>12 DEF PollFails, Work
<1>13. ASSUME NEW failed, Recenter(failed) \/ BanCancelsEntries(failed) \/ BanCancelsTps(failed)
       PROVE  Work'
  BY <1>4, <1>13 DEF Recenter, BanCancelsEntries, BanCancelsTps
<1>14. ASSUME NEW o, Fill(o) \/ Show(o) \/ Withdraw(o)
       PROVE  Work'
  BY <1>4, <1>14 DEF Fill, Show, Withdraw
<1>15. ASSUME NEW l, NEW n, NEW known, Setup(l, n, known)
       PROVE  Work'
  BY <1>4, <1>15 DEF Setup
<1> QED
  BY <1>5, <1>6, <1>7, <1>8, <1>10, <1>11, <1>12, <1>13, <1>14, <1>15
     DEF Next, Exchange, Poll

\* The consecutive losses stay within the limit that bans.
LEMMA ResultType ==
    ASSUME Ban, NEW lost \in BOOLEAN, Result(lost)
    PROVE  Ban'
<1>1. BanAfter \in Nat \ {0} /\ losses \in 0 .. BanAfter
  BY CountsAssumption DEF Ban
<1>2. losses' \in 0 .. BanAfter
  <2>1. losses' = IF ~lost THEN 0 ELSE IF losses < BanAfter THEN losses + 1 ELSE losses
    BY DEF Result
  <2>2. CASE ~lost
    <3>1. losses' = 0
      BY <2>1, <2>2, Zenon
    <3> QED
      BY <1>1, <3>1
  <2>3. CASE lost /\ losses < BanAfter
    <3>1. losses' = losses + 1
      BY <2>1, <2>3, Zenon
    <3> QED
      BY <1>1, <2>3, <3>1
  <2>4. CASE lost /\ ~(losses < BanAfter)
    <3>1. losses' = losses
      BY <2>1, <2>4, Zenon
    <3> QED
      BY <1>1, <3>1
  <2> QED
    BY <2>2, <2>3, <2>4
<1>3. \/ banned' = TRUE /\ banning' = "entries"
      \/ UNCHANGED <<banned, banning>>
  BY DEF Result
<1> QED
  BY <1>2, <1>3 DEF Ban

LEMMA BanStep ==
    ASSUME TypeOK, Next
    PROVE  Ban'
<1>1. Ban
  BY TypeParts
<1>2. ASSUME UNCHANGED ban PROVE Ban'
  BY <1>1, <1>2 DEF Ban, ban
<1>3. ASSUME NEW o, NEW lost \in BOOLEAN, BookTp(o, lost)
      PROVE  Ban'
  <2>1. UNCHANGED ban \/ Result(lost)
    BY <1>3 DEF BookTp
  <2> QED
    BY <1>1, <1>2, <2>1, ResultType
<1>4. ASSUME NEW failed, BanCancelsEntries(failed) \/ BanCancelsTps(failed)
      PROVE  Ban'
  BY <1>1, <1>4 DEF BanCancelsEntries, BanCancelsTps, Ban
<1>5. ASSUME NEW failed, Restart(failed)
      PROVE  Ban'
  <2>1. 0 \in 0 .. BanAfter
    BY CountsAssumption
  <2> QED
    BY <1>5, <2>1 DEF Restart, Ban
<1>6. ASSUME NEW failed, NEW i, Recenter(failed) \/ StopHit(i, failed) \/ SyncExchange(failed)
      PROVE  Ban'
  BY <1>2, <1>6 DEF Recenter, StopHit, SyncExchange
<1>7. ASSUME NEW o, Fill(o) \/ Show(o) \/ Withdraw(o)
      PROVE  Ban'
  BY <1>2, <1>7 DEF Fill, Show, Withdraw
<1>8. ASSUME NEW i, TargetHit(i) \/ Expire(i)
      PROVE  Ban'
  BY <1>2, <1>8 DEF TargetHit, Expire
<1>9. ASSUME NEW seen, CheckFills(seen) \/ CheckTpFills(seen)
      PROVE  Ban'
  BY <1>2, <1>9 DEF CheckFills, CheckTpFills, TpsLeft
<1>10. ASSUME NEW o, NEW n, NEW known, Record(o, n, known) \/ Setup(o, n, known)
       PROVE  Ban'
  BY <1>2, <1>10 DEF Record, Setup
<1>11. CASE PollFails
  BY <1>2, <1>11 DEF PollFails
<1> QED
  BY <1>3, <1>4, <1>5, <1>6, <1>7, <1>8, <1>9, <1>10, <1>11 DEF Next, Exchange, Poll

-----------------------------------------------------------------------------
(* The steps that matter for the fills: an entry is placed, its fill is     *)
(* found, the fill is recorded.  All others leave what is fresh fresh.      *)

Fresh == PendingFresh /\ TodoFresh /\ RecordedOnce /\ UnplacedFresh

\* The steps that record nothing.
LEMMA UnrecordedKeeps ==
    ASSUME TypeOK, OrdersKept, RecordedOnce, UnplacedFresh, recorded' = recorded
    PROVE  RecordedOnce' /\ UnplacedFresh'
<1>1. Len(orders') <= MaxOrders /\ Len(orders') \in Nat /\ MaxOrders \in Nat
  BY LenProperties, BoundsAssumption DEF OrdersKept, Book
<1>2. placed' \subseteq Ids
  BY ONLY <1>1 DEF placed, Ids
<1>3. UnplacedFresh'
  BY DEF UnplacedFresh, OrdersKept
<1>4. ASSUME NEW o \in placed', recorded[o] > 0
      PROVE  recorded[o] = 1 /\ orders'[o].kind = "entry" /\ orders'[o].st = "filled"
  <2>1. o \in placed
    <3>1. SUFFICES ASSUME o \notin placed PROVE FALSE
      OBVIOUS
    <3>2. recorded[o] = 0
      BY <1>2, <1>4, <3>1 DEF UnplacedFresh
    <3> QED
      BY <1>4, <3>2
  <2> QED
    BY <1>4, <2>1 DEF RecordedOnce, OrdersKept
<1> QED
  BY <1>3, <1>4 DEF RecordedOnce

\* The steps that find no fill, record none and track no new entry.
LEMMA QuietKeepsFresh ==
    ASSUME TypeOK, OrdersKept, Fresh, recorded' = recorded, todo' \subseteq todo,
           \A l \in DOMAIN pending' : l \in DOMAIN pending /\ pending'[l] = pending[l]
    PROVE  Fresh'
<1>1. RecordedOnce' /\ UnplacedFresh'
  BY UnrecordedKeeps DEF Fresh
<1>2. todo \subseteq placed /\ \A l \in DOMAIN pending : pending[l] \in placed
  BY TypeParts DEF Work, Maps
<1>3. PendingFresh'
  BY <1>2 DEF Fresh, PendingFresh, OrdersKept
<1>4. TodoFresh'
  BY <1>2 DEF Fresh, TodoFresh, OrdersKept
<1> QED
  BY <1>1, <1>3, <1>4 DEF Fresh

\* A new entry has a number of its own.
LEMMA SetupKeepsFresh ==
    ASSUME TypeOK, OrdersKept, Fresh,
           NEW l \in Levels, NEW n \in 0 .. 3, NEW known \in BOOLEAN, Setup(l, n, known)
    PROVE  Fresh'
<1>1. recorded' = recorded /\ todo' = todo /\ Placing(l, "entry", 0, n)
  BY DEF Setup, history
<1>2. CASE ~(known /\ n > 0)
  <2>1. pending' = pending
    BY <1>2 DEF Setup
  <2> QED
    BY <1>1, <2>1, QuietKeepsFresh
<1>3. CASE known /\ n > 0
  <2> DEFINE new == Len(orders) + n
  <2>1. pending' = Put(pending, l, new)
    BY <1>3 DEF Setup
  <2>2. Book /\ 0 \in 0 .. MaxOrders
    BY TypeParts, BoundsAssumption
  <2>3. new \in placed' \ placed /\ orders'[new].lvl = l /\ orders'[new].kind = "entry"
    BY <1>1, <1>3, <2>2, PlacingKeeps
  <2> HIDE DEF new
  <2>4. Len(orders') <= MaxOrders /\ Len(orders') \in Nat /\ MaxOrders \in Nat
    BY LenProperties, BoundsAssumption DEF OrdersKept, Book
  <2>5. placed' \subseteq Ids
    BY ONLY <2>4 DEF placed, Ids
  <2>6. todo \subseteq placed /\ \A k \in DOMAIN pending : pending[k] \in placed
    BY TypeParts DEF Work, Maps
  <2>7. new \notin todo /\ recorded[new] = 0
    BY <2>3, <2>5, <2>6 DEF Fresh, UnplacedFresh
  <2>8. \A k \in DOMAIN pending' :
           \/ k = l /\ pending'[k] = new
           \/ k # l /\ k \in DOMAIN pending /\ pending'[k] = pending[k]
    BY <2>1, Zenon DEF Put
  <2>9. PendingFresh'
    BY <1>1, <2>3, <2>6, <2>7, <2>8 DEF Fresh, PendingFresh, OrdersKept
  <2>10. TodoFresh'
    BY <1>1, <2>6 DEF Fresh, TodoFresh, OrdersKept
  <2>11. RecordedOnce' /\ UnplacedFresh'
    BY <1>1, UnrecordedKeeps DEF Fresh
  <2> QED
    BY <2>9, <2>10, <2>11 DEF Fresh
<1> QED
  BY <1>2, <1>3

\* A fill that is found leaves the waiting orders, and it waits in one level only.
LEMMA CheckFillsKeepsFresh ==
    ASSUME TypeOK, OrdersKept, Fresh, ShownFilled,
           NEW seen \in SUBSET MayConfirm(pending), CheckFills(seen)
    PROVE  Fresh'
<1>1. /\ recorded' = recorded /\ orders' = orders
      /\ todo' = {pending[l] : l \in seen}
  BY DEF CheckFills, exchange
<1>2. /\ \A l \in DOMAIN pending' :
            l \in DOMAIN pending /\ l \notin seen /\ pending'[l] = pending[l]
  BY DEF CheckFills, Kept, Without, Restrict
<1>3. \A l \in seen : l \in DOMAIN pending /\ pending[l] \in shown
  BY DEF MayConfirm, Gone
<1>4. TodoFresh'
  BY <1>1, <1>3 DEF Fresh, PendingFresh, TodoFresh, ShownFilled
<1>5. ASSUME NEW l \in DOMAIN pending' PROVE pending'[l] \notin todo'
  <2>1. SUFFICES ASSUME NEW k \in seen, pending[k] = pending[l] PROVE FALSE
    BY <1>1, <1>2, <1>5
  <2>2. orders[pending[k]].lvl = k /\ orders[pending[l]].lvl = l
    BY <1>2, <1>3, <1>5 DEF Fresh, PendingFresh
  <2> QED
    BY <1>2, <2>1, <2>2
<1>6. PendingFresh'
  BY <1>1, <1>2, <1>5 DEF Fresh, PendingFresh
<1>7. RecordedOnce' /\ UnplacedFresh'
  BY <1>1, UnrecordedKeeps DEF Fresh
<1> QED
  BY <1>4, <1>6, <1>7 DEF Fresh

\* The first record of a fill is its only one.
LEMMA RecordKeepsFresh ==
    ASSUME TypeOK, OrdersKept, Fresh, NEW o, NEW n, NEW known, Record(o, n, known)
    PROVE  Fresh' /\ recorded' \in [Ids -> 0 .. 2]
<1>1. /\ o \in todo /\ todo' = todo \ {o} /\ pending' = pending
      /\ recorded' = [recorded EXCEPT ![o] = @ + 1]
  BY DEF Record
<1>2. todo \subseteq placed /\ \A l \in DOMAIN pending : pending[l] \in placed
  BY TypeParts DEF Work, Maps
<1>3. recorded \in [Ids -> 0 .. 2] /\ placed \subseteq Ids
  BY TypeParts, PlacedOrders DEF History
<1>4. o \in placed /\ o \in Ids
  BY <1>1, <1>2, <1>3
<1>5. orders[o].kind = "entry" /\ orders[o].st = "filled" /\ recorded[o] = 0
  BY <1>1 DEF Fresh, TodoFresh
<1>6. recorded'[o] = 1 /\ \A p \in Ids \ {o} : recorded'[p] = recorded[p]
  BY <1>1, <1>3, <1>4, <1>5
<1>7. PendingFresh'
  BY <1>1, <1>2, <1>3, <1>6 DEF Fresh, PendingFresh, OrdersKept
<1>8. TodoFresh'
  BY <1>1, <1>2, <1>3, <1>6 DEF Fresh, TodoFresh, OrdersKept
<1>9. UnplacedFresh'
  BY <1>4, <1>6 DEF Fresh, UnplacedFresh, OrdersKept
<1>10. Len(orders') <= MaxOrders /\ Len(orders') \in Nat /\ MaxOrders \in Nat
  BY LenProperties, BoundsAssumption DEF OrdersKept, Book
<1>11. placed' \subseteq Ids
  BY ONLY <1>10 DEF placed, Ids
<1>12. ASSUME NEW p \in placed', recorded'[p] > 0
       PROVE  recorded'[p] = 1 /\ orders'[p].kind = "entry" /\ orders'[p].st = "filled"
  <2>1. CASE p = o
    BY <1>4, <1>5, <1>6, <2>1 DEF OrdersKept
  <2>2. CASE p # o
    <3>1. recorded'[p] = recorded[p] /\ p \in Ids
      BY <1>6, <1>11, <2>2
    <3>2. recorded[p] # 0
      BY <1>12, <3>1
    <3>3. p \in placed
      BY <3>1, <3>2 DEF Fresh, UnplacedFresh
    <3> QED
      BY <1>12, <3>1, <3>3 DEF Fresh, RecordedOnce, OrdersKept
  <2> QED
    BY <2>1, <2>2
<1>13. RecordedOnce'
  BY <1>12 DEF RecordedOnce
<1>14. recorded' \in [Ids -> 0 .. 2]
  BY <1>1, <1>3, <1>4, <1>5
<1> QED
  BY <1>7, <1>8, <1>9, <1>13, <1>14 DEF Fresh

LEMMA FreshStep ==
    ASSUME TypeOK, Fresh, ShownFilled, OrdersKept, Next
    PROVE  Fresh'
<1>1. ASSUME pending' = pending \/ pending' = <<>>, recorded' = recorded, todo' \subseteq todo
      PROVE  Fresh'
  <2>1. \A l \in DOMAIN pending' : l \in DOMAIN pending /\ pending'[l] = pending[l]
    BY <1>1, EmptyMap
  <2> QED
    BY <1>1, <2>1, QuietKeepsFresh
<1>2. ASSUME NEW l \in Levels, NEW n \in 0 .. 3, NEW known \in BOOLEAN, Setup(l, n, known)
      PROVE  Fresh'
  BY <1>2, SetupKeepsFresh
<1>3. ASSUME NEW seen \in SUBSET MayConfirm(pending), CheckFills(seen)
      PROVE  Fresh'
  BY <1>3, CheckFillsKeepsFresh
<1>4. ASSUME NEW o, NEW n, NEW known, Record(o, n, known)
      PROVE  Fresh'
  BY <1>4, RecordKeepsFresh
<1>5. ASSUME NEW o, Fill(o) \/ Show(o) \/ Withdraw(o)
      PROVE  Fresh'
  BY <1>1, <1>5 DEF Fill, Show, Withdraw, manager, history
<1>6. CASE PollFails
  BY <1>1, <1>6 DEF PollFails, manager, history
<1>7. ASSUME NEW seen, CheckTpFills(seen)
      PROVE  Fresh'
  BY <1>1, <1>7 DEF CheckTpFills, TpsLeft, history
<1>8. ASSUME NEW o, NEW lost, BookTp(o, lost)
      PROVE  Fresh'
  BY <1>1, <1>8 DEF BookTp, manager, history
<1>9. ASSUME NEW failed, NEW i, Recenter(failed) \/ StopHit(i, failed)
      PROVE  Fresh'
  BY <1>1, <1>9 DEF Recenter, StopHit, CancelSymbol, history
<1>10. ASSUME NEW failed, BanCancelsEntries(failed) \/ BanCancelsTps(failed)
       PROVE  Fresh'
  BY <1>1, <1>10 DEF BanCancelsEntries, BanCancelsTps, history
<1>11. ASSUME NEW failed, SyncExchange(failed)
       PROVE  Fresh'
  BY <1>1, <1>11 DEF SyncExchange, manager, history
<1>12. ASSUME NEW failed, Restart(failed)
       PROVE  Fresh'
  BY <1>1, <1>12 DEF Restart, history
<1>13. ASSUME NEW i, TargetHit(i) \/ Expire(i)
       PROVE  Fresh'
  BY <1>1, <1>13 DEF TargetHit, Expire, manager, history
<1> QED
  BY <1>2, <1>3, <1>4, <1>5, <1>6, <1>7, <1>8, <1>9, <1>10, <1>11, <1>12, <1>13
     DEF Next, Exchange, Poll

\* Executions come after fills, and orders given up are placed orders.
LEMMA HistoryStep ==
    ASSUME TypeOK, Fresh, ShownFilled, OrdersKept, Next
    PROVE  shown' \subseteq placed' /\ ShownFilled' /\ History'
<1>1. /\ shown \subseteq placed /\ early \subseteq placed /\ recorded \in [Ids -> 0 .. 2]
      /\ placed \subseteq placed' /\ Maps
  BY TypeParts DEF History, OrdersKept
<1>2. \A o \in placed : orders[o].st = "filled" => orders'[o].st = "filled"
  BY DEF OrdersKept
<1>3. shown' = shown \/ \E o \in placed : Show(o)
  BY DEF Next, Exchange, Fill, Withdraw, Poll, CheckFills, Record, PollFails, CheckTpFills, TpsLeft, BookTp,
         Setup, Recenter, BanCancelsEntries, BanCancelsTps, StopHit, SyncExchange, Restart,
         TargetHit, Expire, exchange
<1>4. \A o \in shown' : o \in placed /\ orders[o].st = "filled"
  BY <1>1, <1>3 DEF Show, ShownFilled
<1>5. shown' \subseteq placed' /\ ShownFilled'
  BY <1>1, <1>2, <1>4 DEF ShownFilled
<1>6. ASSUME NEW seen, CheckFills(seen)
      PROVE  History'
  <2> DEFINE lost == Gone(pending) \ seen
             given == {g \in GivenUp(lost) : missed[g] + 1 < Retries}
  <2>1. early' = early \cup {pending[l] : l \in given} /\ recorded' = recorded
    BY <1>6 DEF CheckFills
  <2>2. given \subseteq DOMAIN pending
    BY DEF GivenUp, Gone
  <2> HIDE DEF given
  <2>3. early' \subseteq placed
    BY <1>1, <2>1, <2>2 DEF Maps
  <2> QED
    BY <1>1, <2>1, <2>3 DEF History
<1>7. ASSUME NEW o, NEW n, NEW known, Record(o, n, known)
      PROVE  History'
  <2>1. early' = early
    BY <1>7 DEF Record
  <2>2. recorded' \in [Ids -> 0 .. 2]
    BY <1>7, RecordKeepsFresh
  <2> QED
    BY <1>1, <2>1, <2>2 DEF History
<1>8. \/ UNCHANGED history
      \/ \E seen : CheckFills(seen)
      \/ \E o, n, known : Record(o, n, known)
  BY DEF Next, Exchange, Fill, Withdraw, Show, Poll, PollFails, CheckTpFills, TpsLeft, BookTp,
         Setup, Recenter, BanCancelsEntries, BanCancelsTps, StopHit, SyncExchange, Restart,
         TargetHit, Expire
<1>9. ASSUME UNCHANGED history PROVE History'
  <2>1. early' = early /\ recorded' = recorded
    BY <1>9 DEF history
  <2> QED
    BY <1>1, <2>1 DEF History
<1> QED
  BY <1>5, <1>6, <1>7, <1>8, <1>9

LEMMA RestartsStep ==
    ASSUME TypeOK, Next
    PROVE  restarts' \in 0 .. MaxRestarts
<1>1. restarts \in 0 .. MaxRestarts /\ MaxRestarts \in Nat
  BY TypeParts, BoundsAssumption
<1>2. \/ UNCHANGED restarts
      \/ \E failed : Restart(failed)
  BY DEF Next, Exchange, Fill, Withdraw, Show, Poll, CheckFills, Record, PollFails, CheckTpFills, TpsLeft,
         BookTp, Setup, Recenter, BanCancelsEntries, BanCancelsTps, StopHit, SyncExchange,
         TargetHit, Expire
<1>3. CASE \E failed : Restart(failed)
  <2>1. restarts < MaxRestarts /\ restarts' = restarts + 1
    BY <1>3 DEF Restart
  <2> QED
    BY ONLY <1>1, <2>1
<1> QED
  BY <1>1, <1>2, <1>3

-----------------------------------------------------------------------------
(* The ban.                                                                 *)

LEMMA BanKeeps ==
    ASSUME BannedTracksNone, Next
    PROVE  BannedTracksNone'
<1>1. ASSUME pending' = pending \/ pending' = <<>>,
             UNCHANGED <<banned, banning>> \/ banning' = "entries"
      PROVE  BannedTracksNone'
  BY <1>1 DEF BannedTracksNone
<1>2. ASSUME NEW l, NEW n, NEW known, Setup(l, n, known)
      PROVE  BannedTracksNone'
  <2>1. ~banned /\ banned' = banned
    BY <1>2 DEF Setup, MayPlace, ban
  <2> QED
    BY <2>1 DEF BannedTracksNone
<1>3. ASSUME NEW seen, CheckFills(seen)
      PROVE  BannedTracksNone'
  <2>1. UNCHANGED <<banned, banning>> /\ Gone(pending) # {}
    BY <1>3 DEF CheckFills, ban
  <2>2. pending # <<>>
    BY <2>1, EmptyMap DEF Gone
  <2> QED
    BY <2>1, <2>2 DEF BannedTracksNone
<1>4. ASSUME NEW failed, BanCancelsTps(failed)
      PROVE  BannedTracksNone'
  BY <1>4 DEF BanCancelsTps, BannedTracksNone
<1>5. ASSUME NEW failed, BanCancelsEntries(failed) \/ Restart(failed)
      PROVE  BannedTracksNone'
  BY <1>5 DEF BanCancelsEntries, Restart, BannedTracksNone
<1>6. ASSUME NEW o, NEW lost, BookTp(o, lost)
      PROVE  BannedTracksNone'
  BY <1>1, <1>6 DEF BookTp, Result, manager, ban
<1>7. ASSUME NEW failed, NEW i, Recenter(failed) \/ StopHit(i, failed)
      PROVE  BannedTracksNone'
  BY <1>1, <1>7 DEF Recenter, StopHit, CancelSymbol, ban
<1>8. ASSUME NEW failed, SyncExchange(failed)
      PROVE  BannedTracksNone'
  BY <1>1, <1>8 DEF SyncExchange, manager, ban
<1>9. ASSUME NEW o, Fill(o) \/ Show(o) \/ Withdraw(o)
      PROVE  BannedTracksNone'
  BY <1>1, <1>9 DEF Fill, Show, Withdraw, manager, ban
<1>10. ASSUME NEW i, TargetHit(i) \/ Expire(i)
       PROVE  BannedTracksNone'
  BY <1>1, <1>10 DEF TargetHit, Expire, manager, ban
<1>11. ASSUME NEW o, NEW n, NEW known, Record(o, n, known)
       PROVE  BannedTracksNone'
  BY <1>1, <1>11 DEF Record, ban
<1>12. ASSUME NEW seen, CheckTpFills(seen)
       PROVE  BannedTracksNone'
  BY <1>1, <1>12 DEF CheckTpFills, TpsLeft, ban
<1>13. CASE PollFails
  BY <1>1, <1>13 DEF PollFails, manager, ban
<1> QED
  BY <1>2, <1>3, <1>4, <1>5, <1>6, <1>7, <1>8, <1>9, <1>10, <1>11, <1>12, <1>13
     DEF Next, Exchange, Poll

-----------------------------------------------------------------------------
(* The invariant.                                                           *)

LEMMA InvParts ==
    IInv <=> TypeOK /\ Fresh /\ ShownFilled /\ BannedTracksNone
BY DEF IInv, Fresh

LEMMA InitHolds ==
    ASSUME Init
    PROVE  IInv
<1>1. /\ orders = <<>> /\ shown = {} /\ net = 0
      /\ pending = <<>> /\ filled = <<>> /\ tps = <<>>
      /\ todo = {} /\ tpdone = {} /\ rows = <<>>
      /\ losses = 0 /\ banned = FALSE /\ banning = "none"
      /\ restarts = 0 /\ early = {}
      /\ retries = [l \in Levels |-> 0] /\ missed = [l \in Levels |-> 0]
      /\ recorded = [o \in Ids |-> 0]
  BY DEF Init
<1>2. /\ 0 \in 0 .. BanAfter /\ 0 \in 0 .. Retries - 1 /\ 0 \in 0 .. Retries
      /\ 0 \in 0 .. MaxRestarts /\ 0 <= MaxOrders
  BY CountsAssumption, BoundsAssumption
<1>3. orders \in Seq(Order) /\ rows \in Seq(placed) /\ Len(orders) = 0
  BY <1>1, EmptySeq
<1>4. placed = {}
  BY <1>3 DEF placed
<1>5. Book /\ Work /\ Ban /\ History
  <2>1. Book
    BY <1>2, <1>3 DEF Book
  <2>2. Work
    BY <1>1, <1>3 DEF Work
  <2>3. Ban
    BY <1>1, <1>2 DEF Ban
  <2>4. recorded \in [Ids -> 0 .. 2] /\ early \subseteq placed
    BY <1>1
  <2> QED
    BY <2>1, <2>2, <2>3, <2>4 DEF History
<1>6. Maps /\ Counts
  BY <1>1, <1>2, EmptyMap DEF Maps, Counts
<1>7. TypeOK
  BY <1>1, <1>2, <1>5, <1>6, TypeParts
<1>8. PendingFresh /\ TodoFresh /\ ShownFilled /\ BannedTracksNone
  BY <1>1, EmptyMap DEF PendingFresh, TodoFresh, ShownFilled, BannedTracksNone
<1>9. RecordedOnce /\ UnplacedFresh
  BY <1>1, <1>4 DEF RecordedOnce, UnplacedFresh
<1> QED
  BY <1>7, <1>8, <1>9, InvParts DEF Fresh

LEMMA NextKeeps ==
    ASSUME IInv, Next
    PROVE  IInv'
<1>1. TypeOK /\ Fresh /\ ShownFilled /\ BannedTracksNone
  BY InvParts
<1>2. OrdersKept /\ net' \in Int
  BY <1>1, StepKeepsOrders
<1>3. Book'
  BY <1>2 DEF OrdersKept
<1>4. Maps' /\ Counts' /\ Work' /\ Ban' /\ restarts' \in 0 .. MaxRestarts
  BY <1>1, <1>2, MapsStep, CountsStep, WorkStep, BanStep, RestartsStep
<1>5. shown' \subseteq placed' /\ ShownFilled' /\ History'
  BY <1>1, <1>2, HistoryStep
<1>6. TypeOK'
  BY <1>2, <1>3, <1>4, <1>5 DEF TypeOK, Order, Book, Maps, Counts, Work, Ban, History
<1>7. Fresh' /\ BannedTracksNone'
  BY <1>1, <1>2, FreshStep, BanKeeps
<1> QED
  BY <1>5, <1>6, <1>7 DEF IInv, Fresh

LEMMA StutterKeeps ==
    ASSUME IInv, UNCHANGED vars
    PROVE  IInv'
BY DEF IInv, TypeOK, RecordedOnce, BannedTracksNone, PendingFresh, TodoFresh, ShownFilled,
       UnplacedFresh, placed, vars, exchange, manager, ban, history

\* The inductive invariant of the pre-order manager, its exchange and P3's loop.
THEOREM Invariance == Spec => []IInv
<1>1. Init => IInv
  BY InitHolds
<1>2. IInv /\ [Next]_vars => IInv'
  BY NextKeeps, StutterKeeps
<1> QED
  BY <1>1, <1>2, PTL DEF Spec

\* Every variable keeps its type: no retry count reaches the limit, no map holds an
\* order that was never placed (grid_pre_order.py).
THEOREM TypeCorrect == Spec => []TypeOK
<1>1. IInv => TypeOK
  BY DEF IInv
<1> QED
  BY <1>1, Invariance, PTL

\* A fill gets at most one row of the positions table, and only a filled entry gets
\* one, for any number of levels, retries and restarts (check_fills and P3's loop).
THEOREM RecordedOnlyOnce == Spec => []RecordedOnce
<1>1. IInv => RecordedOnce
  BY DEF IInv
<1> QED
  BY <1>1, Invariance, PTL

\* Once the task of a ban has cancelled the entries, the symbol tracks none until a
\* restart forgets the ban (record_trade_result, place_grid_orders).
THEOREM BannedTracked == Spec => []BannedTracksNone
<1>1. IInv => BannedTracksNone
  BY DEF IInv
<1> QED
  BY <1>1, Invariance, PTL

-----------------------------------------------------------------------------
(* The refinement of OrderLife.                                             *)

\* The level of a take-profit holds one, and fills of both kinds never wait together.
TpsAreTps == \A l \in DOMAIN tps : orders[tps[l]].kind = "tp"
OneBatch == todo = {} \/ tpdone = {}
LifeInv == TpsAreTps /\ OneBatch

LEMMA TpsStep ==
    ASSUME TypeOK, OrdersKept, TpsAreTps, Next
    PROVE  TpsAreTps'
<1>1. \A l \in DOMAIN tps : tps[l] \in placed
  BY TypeParts DEF Maps
<1>2. ASSUME \A l \in DOMAIN tps' : l \in DOMAIN tps /\ tps'[l] = tps[l]
      PROVE  TpsAreTps'
  BY <1>1, <1>2 DEF TpsAreTps, OrdersKept
<1>3. ASSUME tps' = tps \/ tps' = <<>>
      PROVE  TpsAreTps'
  BY <1>2, <1>3, EmptyMap
<1>4. ASSUME NEW o \in todo, NEW n \in 0 .. 3, NEW known \in BOOLEAN, Record(o, n, known)
      PROVE  TpsAreTps'
  <2> DEFINE l == orders[o].lvl
             new == Len(orders) + n
  <2>1. CASE tps' = tps
    BY <1>3, <2>1
  <2>2. CASE tps' # tps
    <3>1. tps' = Put(tps, l, new) /\ n > 0 /\ Placing(l, "tp", o, n)
      BY <1>4, <2>2 DEF Record
    <3>2. o \in 0 .. MaxOrders /\ l \in Levels /\ Book
      <4>1. o \in placed /\ Book
        BY TypeParts DEF Work
      <4>2. o \in Ids /\ orders[o] \in Order
        BY <4>1, PlacedOrders
      <4> QED
        BY <4>1, <4>2, BoundsAssumption DEF Ids, Order
    <3>3. orders'[new].kind = "tp"
      BY <3>1, <3>2, PlacingKeeps
    <3> HIDE DEF l, new
    <3>4. \A k \in DOMAIN tps' :
             \/ k = l /\ tps'[k] = new
             \/ k # l /\ k \in DOMAIN tps /\ tps'[k] = tps[k]
      BY <3>1, Zenon DEF Put
    <3> QED
      BY <1>1, <3>3, <3>4 DEF TpsAreTps, OrdersKept
  <2> QED
    BY <2>1, <2>2
<1>5. ASSUME NEW seen, CheckTpFills(seen)
      PROVE  TpsAreTps'
  BY <1>2, <1>5 DEF CheckTpFills, TpsLeft, Without, Restrict
<1>6. \/ tps' = tps \/ tps' = <<>>
      \/ \E o \in todo, n \in 0 .. 3, known \in BOOLEAN : Record(o, n, known)
      \/ \E seen : CheckTpFills(seen)
  BY DEF Next, Exchange, Fill, Withdraw, Show, Poll, CheckFills, PollFails, BookTp, Setup,
         Recenter, CancelSymbol, BanCancelsEntries, BanCancelsTps, StopHit, SyncExchange,
         Restart, TargetHit, Expire, manager
<1> QED
  BY <1>3, <1>4, <1>5, <1>6

LEMMA BatchStep ==
    ASSUME OneBatch, Next
    PROVE  OneBatch'
<1>1. \/ todo' \subseteq todo /\ tpdone' \subseteq tpdone
      \/ Idle /\ (todo' = todo \/ tpdone' = tpdone)
  BY DEF Next, Exchange, Fill, Withdraw, Show, Poll, CheckFills, Record, PollFails,
         CheckTpFills, BookTp, Setup, Recenter, CancelSymbol, BanCancelsEntries,
         BanCancelsTps, StopHit, SyncExchange, Restart, TargetHit, Expire
<1> QED
  BY <1>1 DEF OneBatch, Idle

Watched == Range(pending) \cup Range(tps)
Found == todo \cup tpdone

\* What the steps of OrderLife say of the manager.
WatchedAnew == placed \subseteq placed' /\ Watched' \subseteq Watched \cup (placed' \ placed)
Forgotten ==
    /\ placed' = placed /\ Done' = Done
    /\ Watched' \subseteq Watched /\ Found' \in {Found, {}}
Finished(o) == o \in Found /\ Found' = Found \ {o} /\ WatchedAnew /\ Done' = Done
Finds(S) ==
    /\ placed' = placed /\ Done' = Done
    /\ Found = {} /\ Found' = S /\ S \subseteq Done /\ S \subseteq Watched
    /\ Watched' \subseteq Watched \ S

\* Every step is one of them, a placement, or a fill.
LEMMA PlacementIsStep ==
    ASSUME Book', WatchedAnew, Done' = Done, Found' = Found
    PROVE  Life!Next
<1>1. placed' \subseteq Ids
  <2>1. Len(orders') <= MaxOrders /\ Len(orders') \in Nat /\ MaxOrders \in Nat
    BY LenProperties, BoundsAssumption DEF Book
  <2> QED
    BY ONLY <2>1 DEF placed, Ids
<1>2. Life!Watching
  BY <1>1 DEF WatchedAnew, Watched, Life!Watching
<1> QED
  BY <1>2 DEF Life!Next, Life!Place, Done, Found

LEMMA FinishedIsStep ==
    ASSUME Book', NEW o, Finished(o)
    PROVE  Life!Next
<1>1. placed' \subseteq Ids
  <2>1. Len(orders') <= MaxOrders /\ Len(orders') \in Nat /\ MaxOrders \in Nat
    BY LenProperties, BoundsAssumption DEF Book
  <2> QED
    BY ONLY <2>1 DEF placed, Ids
<1>2. Life!Watching
  BY <1>1 DEF Finished, WatchedAnew, Watched, Life!Watching
<1>3. Life!Finish(o) /\ o \in todo \cup tpdone
  BY <1>2 DEF Finished, Life!Finish, Done, Found
<1> QED
  BY <1>3 DEF Life!Next

LEMMA ForgottenIsStep ==
    ASSUME Forgotten
    PROVE  Life!Next
BY DEF Forgotten, Life!Next, Life!Forget, Done, Found, Watched

LEMMA FindsIsStep ==
    ASSUME NEW S, Finds(S)
    PROVE  Life!Next
<1>1. Life!Find(S) /\ S \in SUBSET (Range(pending) \cup Range(tps))
  BY DEF Finds, Life!Find, Done, Found, Watched
<1> QED
  BY <1>1 DEF Life!Next

\* A new order in a map is a new watched order.
LEMMA PutRange ==
    ASSUME NEW f, NEW k, NEW v
    PROVE  Range(Put(f, k, v)) \subseteq Range(f) \cup {v}
BY DEF Put, Range

LEMMA EmptyRange == Range(<<>>) = {}
BY EmptyMap DEF Range

LEMMA SetupLives ==
    ASSUME IInv, OrdersKept, NEW l \in Levels, NEW n \in 0 .. 3, NEW known \in BOOLEAN,
           Setup(l, n, known)
    PROVE  Life!Next
<1>1. Book /\ 0 \in 0 .. MaxOrders /\ Placing(l, "entry", 0, n)
  BY InvParts, TypeParts, BoundsAssumption DEF Setup
<1>2. Done' = Done /\ (n > 0 => Len(orders) + n \in placed' \ placed)
  BY <1>1, PlacingKeeps
<1>3. Found' = Found /\ tps' = tps
  BY DEF Setup, Found
<1>4. pending' = pending \/ (n > 0 /\ pending' = Put(pending, l, Len(orders) + n))
  BY DEF Setup
<1>5. Range(pending') \subseteq Range(pending) \cup (placed' \ placed)
  BY <1>2, <1>4, PutRange
<1>6. WatchedAnew
  BY <1>3, <1>5 DEF WatchedAnew, Watched, OrdersKept
<1> QED
  BY <1>2, <1>3, <1>6, PlacementIsStep DEF OrdersKept

LEMMA RecordLives ==
    ASSUME IInv, OneBatch, OrdersKept, NEW o \in todo, NEW n \in 0 .. 3,
           NEW known \in BOOLEAN, Record(o, n, known)
    PROVE  Life!Next
<1> DEFINE l == orders[o].lvl
<1>1. o \in placed /\ Book
  BY InvParts, TypeParts DEF Work
<1>2. o \in Ids /\ orders[o] \in Order
  BY <1>1, PlacedOrders
<1>3. o \in 0 .. MaxOrders /\ l \in Levels /\ Placing(l, "tp", o, n)
  BY <1>2, BoundsAssumption DEF Ids, Order, Record
<1>4. Done' = Done /\ (n > 0 => Len(orders) + n \in placed' \ placed)
  BY <1>1, <1>3, PlacingKeeps
<1>5. pending' = pending /\ (tps' = tps \/ (n > 0 /\ tps' = Put(tps, l, Len(orders) + n)))
  BY DEF Record
<1>6. Range(tps') \subseteq Range(tps) \cup (placed' \ placed)
  BY <1>4, <1>5, PutRange
<1>7. WatchedAnew
  BY <1>5, <1>6 DEF WatchedAnew, Watched, OrdersKept
<1>8. o \in Found /\ Found' = Found \ {o}
  BY DEF OneBatch, Record, Found
<1> QED
  BY <1>4, <1>7, <1>8, FinishedIsStep DEF OrdersKept, Finished

\* An order that is found is filled; the orders still watched wait in other levels or
\* are of the other kind.
LEMMA CheckFillsLives ==
    ASSUME IInv, TpsAreTps, NEW seen \in SUBSET MayConfirm(pending), CheckFills(seen)
    PROVE  Life!Next
<1> DEFINE S == {pending[l] : l \in seen}
<1>1. /\ Book /\ PendingFresh /\ ShownFilled /\ shown \subseteq placed
      /\ placed' = placed /\ Done' = Done
  BY InvParts, TypeParts DEF Fresh, CheckFills, exchange, placed, Done
<1>2. Found = {} /\ Found' = S /\ tps' = tps
  BY DEF CheckFills, Idle, Found
<1>3. \A l \in seen : l \in DOMAIN pending /\ pending[l] \in shown
  BY DEF MayConfirm, Gone
<1>4. S \subseteq Done /\ S \subseteq Range(pending)
  BY <1>1, <1>3 DEF ShownFilled, Done, Range
<1>5. \A l \in DOMAIN pending' :
         l \in DOMAIN pending /\ l \notin seen /\ pending'[l] = pending[l]
  BY DEF CheckFills, Kept, Without, Restrict
<1>6. ASSUME NEW l \in DOMAIN pending' PROVE pending'[l] \in Range(pending) \ S
  <2>1. pending[l] \in Range(pending) /\ pending'[l] = pending[l]
    BY <1>5, <1>6 DEF Range
  <2>2. \A k \in seen : pending[k] # pending[l]
    BY <1>1, <1>3, <1>5, <1>6 DEF PendingFresh
  <2> QED
    BY <2>1, <2>2
<1>7. \A l \in DOMAIN tps : tps[l] \notin S
  BY <1>1, <1>3 DEF PendingFresh, TpsAreTps
<1>8. Watched' \subseteq Watched \ S
  <2>1. Range(pending') \subseteq Range(pending) \ S
    BY <1>6 DEF Range
  <2>2. Range(tps') \subseteq Range(tps) \ S
    BY <1>2, <1>7 DEF Range
  <2> QED
    BY <2>1, <2>2 DEF Watched
<1> HIDE DEF S
<1>9. Finds(S)
  BY <1>1, <1>2, <1>4, <1>8 DEF Finds, Watched
<1> QED
  BY <1>9, FindsIsStep

LEMMA CheckTpFillsLives ==
    ASSUME IInv, TpsAreTps, NEW seen \in SUBSET MayConfirm(tps), CheckTpFills(seen)
    PROVE  Life!Next
<1> DEFINE S == {tps[l] : l \in seen}
<1>1. /\ Book /\ PendingFresh /\ ShownFilled /\ shown \subseteq placed
      /\ placed' = placed /\ Done' = Done
  BY InvParts, TypeParts DEF Fresh, CheckTpFills, exchange, placed, Done
<1>2. Found = {} /\ Found' = S /\ pending' = pending
  BY DEF CheckTpFills, Idle, Found
<1>3. \A l \in seen : l \in DOMAIN tps /\ tps[l] \in shown /\ ~Open(tps[l])
  BY DEF MayConfirm, Gone
<1>4. S \subseteq Done /\ S \subseteq Range(tps)
  BY <1>1, <1>3 DEF ShownFilled, Done, Range
<1>5. \A l \in DOMAIN tps' : l \in DOMAIN tps /\ tps'[l] = tps[l] /\ Open(tps[l])
  BY DEF CheckTpFills, TpsLeft, Without, Restrict, Gone
<1>6. Range(tps') \subseteq Range(tps) \ S
  BY <1>3, <1>5 DEF Range
<1>7. Range(pending') \subseteq Range(pending) \ S
  BY <1>1, <1>2, <1>3 DEF PendingFresh, TpsAreTps, Range
<1>8. Watched' \subseteq Watched \ S
  BY <1>6, <1>7 DEF Watched
<1> HIDE DEF S
<1>9. Finds(S)
  BY <1>1, <1>2, <1>4, <1>8 DEF Finds, Watched
<1> QED
  BY <1>9, FindsIsStep

\* What does not touch the orders, the maps and the results is a stutter.
LEMMA Stutters ==
    ASSUME placed' = placed, Done' = Done, UNCHANGED <<pending, tps, todo, tpdone>>
    PROVE  UNCHANGED Life!vars
BY DEF Life!vars, Done

LEMMA StepLives ==
    ASSUME IInv, LifeInv, [Next]_vars
    PROVE  [Life!Next]_(Life!vars)
<1>1. TypeOK /\ Book /\ TpsAreTps /\ OneBatch
  BY InvParts, TypeParts DEF LifeInv
<1>2. ASSUME Next PROVE OrdersKept
  BY <1>1, <1>2, StepKeepsOrders
<1>3. ASSUME UNCHANGED <<orders, pending, tps, todo, tpdone>>
      PROVE  UNCHANGED Life!vars
  BY <1>3, Stutters DEF placed, Done
<1>4. ASSUME NEW o \in placed, Fill(o)
      PROVE  Life!Next
  <2>1. Open(o) /\ orders' = [orders EXCEPT ![o].st = "filled"]
        /\ UNCHANGED <<pending, tps, todo, tpdone>>
    BY <1>4 DEF Fill, manager
  <2>2. placed' = placed /\ Done' = Done \cup {o} /\ o \in Ids
    BY <1>1, <2>1, MarkKeeps, PlacedOrders
  <2>3. Life!Fill(o)
    BY <2>1, <2>2 DEF Life!Fill, Done
  <2> QED
    BY <2>2, <2>3 DEF Life!Next
<1>5. ASSUME NEW o \in placed, Withdraw(o)
      PROVE  UNCHANGED Life!vars
  <2>1. Open(o) /\ orders' = [orders EXCEPT ![o].st = "cancelled"]
        /\ UNCHANGED <<pending, tps, todo, tpdone>>
    BY <1>5 DEF Withdraw, manager
  <2>2. placed' = placed /\ Done' = Done
    BY <1>1, <2>1, MarkKeeps
  <2> QED
    BY <2>1, <2>2, Stutters
<1>6. ASSUME NEW o, Show(o)
      PROVE  UNCHANGED Life!vars
  BY <1>3, <1>6 DEF Show, manager
<1>7. ASSUME NEW l \in Levels, NEW n \in 0 .. 3, NEW known \in BOOLEAN, Setup(l, n, known), Next
      PROVE  Life!Next
  BY <1>2, <1>7, SetupLives
<1>8. ASSUME NEW seen \in SUBSET MayConfirm(pending), CheckFills(seen)
      PROVE  Life!Next
  BY <1>1, <1>8, CheckFillsLives
<1>9. ASSUME NEW o \in todo, NEW n \in 0 .. 3, NEW known \in BOOLEAN, Record(o, n, known), Next
      PROVE  Life!Next
  BY <1>1, <1>2, <1>9, RecordLives
<1>10. CASE PollFails
  <2>1. Forgotten
    BY <1>10 DEF PollFails, exchange, manager, Forgotten, placed, Done, Watched, Found
  <2> QED
    BY <2>1, ForgottenIsStep
<1>11. ASSUME NEW seen \in SUBSET MayConfirm(tps), CheckTpFills(seen)
       PROVE  Life!Next
  BY <1>1, <1>11, CheckTpFillsLives
<1>12. ASSUME NEW o \in tpdone, NEW lost, BookTp(o, lost)
       PROVE  Life!Next
  <2>1. UNCHANGED <<orders, pending, tps, todo>> /\ tpdone' = tpdone \ {o}
    BY <1>12 DEF BookTp, exchange, manager
  <2>2. o \in Found /\ Found' = Found \ {o}
    BY <1>1, <1>12, <2>1 DEF OneBatch, Found
  <2>3. WatchedAnew /\ Done' = Done /\ Book'
    BY <1>1, <2>1 DEF WatchedAnew, Watched, Done, placed, Book
  <2> QED
    BY <2>2, <2>3, FinishedIsStep DEF Finished
<1>13. ASSUME NEW S, NEW failed, orders' = Cancelled(S, failed),
              pending' = pending \/ pending' = <<>>, tps' = tps \/ tps' = <<>>,
              Found' = Found \/ Found' = {}
       PROVE  Life!Next
  <2>1. placed' = placed /\ Done' = Done
    BY <1>1, <1>13, CancelledKeeps
  <2>2. Watched' \subseteq Watched
    BY <1>13, EmptyRange DEF Watched
  <2> QED
    BY <1>13, <2>1, <2>2, ForgottenIsStep DEF Forgotten
<1>14. ASSUME NEW failed, \/ Recenter(failed) \/ BanCancelsEntries(failed)
                          \/ BanCancelsTps(failed)
       PROVE  Life!Next
  BY <1>13, <1>14 DEF Recenter, CancelSymbol, BanCancelsEntries, BanCancelsTps, Found
<1>15. ASSUME NEW failed, NEW i, StopHit(i, failed)
       PROVE  Life!Next
  BY <1>13, <1>15 DEF StopHit, CancelSymbol, Found
<1>16. ASSUME NEW failed, SyncExchange(failed)
       PROVE  UNCHANGED Life!vars
  <2>1. orders' = Cancelled(placed, failed) /\ UNCHANGED <<pending, tps, todo, tpdone>>
    BY <1>16 DEF SyncExchange, manager
  <2>2. placed' = placed /\ Done' = Done
    BY <1>1, <2>1, CancelledKeeps
  <2> QED
    BY <2>1, <2>2, Stutters
<1>17. ASSUME NEW failed, Restart(failed)
       PROVE  Life!Next
  BY <1>13, <1>17 DEF Restart, Found
<1>18. ASSUME NEW i, TargetHit(i) \/ Expire(i)
       PROVE  UNCHANGED Life!vars
  BY <1>3, <1>18 DEF TargetHit, Expire, exchange, manager
<1>19. ASSUME UNCHANGED vars
       PROVE  UNCHANGED Life!vars
  BY <1>3, <1>19 DEF vars, exchange, manager
<1> QED
  BY <1>4, <1>5, <1>6, <1>7, <1>8, <1>9, <1>10, <1>11, <1>12, <1>14, <1>15, <1>16, <1>17,
     <1>18, <1>19
     DEF Next, Exchange, Poll

LEMMA LifeKept ==
    ASSUME IInv, LifeInv, [Next]_vars
    PROVE  LifeInv'
<1>1. CASE Next
  <2>1. OrdersKept
    BY <1>1, InvParts, StepKeepsOrders
  <2> QED
    BY <1>1, <2>1, InvParts, TpsStep, BatchStep DEF LifeInv
<1>2. CASE UNCHANGED vars
  BY <1>2 DEF LifeInv, TpsAreTps, OneBatch, vars, exchange, manager
<1> QED
  BY <1>1, <1>2

\* The entries and take-profits of the manager live as OrderLife has it: the steps of
\* check_fills and check_tp_fills find a fill once, of an order watched until then, and
\* what is watched anew is an order just placed, whatever else happens in between.
THEOREM ImplementsLife == Spec => KeepsLife
<1>1. Init => LifeInv /\ Life!Init
  <2> SUFFICES ASSUME Init PROVE LifeInv /\ Life!Init
    OBVIOUS
  <2>1. /\ orders = <<>> /\ pending = <<>> /\ tps = <<>> /\ todo = {} /\ tpdone = {}
    BY DEF Init
  <2>2. placed = {}
    BY <2>1 DEF placed
  <2> QED
    BY <2>1, <2>2, EmptyMap, EmptyRange DEF LifeInv, TpsAreTps, OneBatch, Life!Init
<1>2. IInv /\ LifeInv /\ [Next]_vars => LifeInv'
  BY LifeKept
<1>3. IInv /\ LifeInv /\ [Next]_vars => [Life!Next]_(Life!vars)
  BY StepLives
<1> QED
  BY <1>1, <1>2, <1>3, Invariance, PTL DEF Spec, KeepsLife, Life!Spec

\* What OrderLife promises follows from its steps alone.
LEMMA OnePlaceInit == Life!Init => Life!OnePlace
BY DEF Life!Init, Life!OnePlace

LEMMA OnePlaceKept ==
    ASSUME Life!OnePlace, [Life!Next]_(Life!vars)
    PROVE  Life!OnePlace' /\ [Life!Onward]_(Life!vars)
<1> DEFINE fresh == Ids \ placed
           watched == Range(pending) \cup Range(tps)
           found == todo \cup tpdone
<1>1. /\ fresh \cap (watched \cup found \cup Done) = {}
      /\ watched \cap found = {} /\ found \subseteq Done
  BY DEF Life!OnePlace, Done
<1>2. SUFFICES /\ fresh' \cap (watched' \cup found' \cup Done') = {}
               /\ watched' \cap found' = {} /\ found' \subseteq Done'
               /\ \/ UNCHANGED Life!vars
                  \/ /\ fresh' \subseteq fresh
                     /\ watched' \ watched \subseteq fresh \ fresh'
                     /\ found' \ found \subseteq (watched \ watched') \cap Done
  BY DEF Life!OnePlace, Life!Onward, Done
<1>3. CASE Life!Place
  <2>1. /\ fresh' \subseteq fresh /\ watched' \subseteq watched \cup (fresh \ fresh')
        /\ Done' = Done /\ found' = found
    BY <1>3 DEF Life!Place, Life!Watching, Done
  <2> QED
    BY ONLY <1>1, <2>1
<1>4. CASE Life!Forget
  <2>1. /\ fresh' = fresh /\ watched' \subseteq watched
        /\ Done' = Done /\ found' \in {found, {}}
    BY <1>4 DEF Life!Forget, Done
  <2> QED
    BY ONLY <1>1, <2>1
<1>5. ASSUME NEW o \in Ids, Life!Fill(o)
      PROVE  /\ fresh' = fresh /\ watched' = watched /\ found' = found
             /\ Done' = Done \cup {o} /\ o \notin fresh
  BY <1>5 DEF Life!Fill, Done
<1>6. ASSUME NEW S \in SUBSET watched, Life!Find(S)
      PROVE  /\ fresh' = fresh /\ watched' \subseteq watched \ S
             /\ Done' = Done /\ found' = S /\ S \subseteq Done
  BY <1>6 DEF Life!Find, Done
<1>7. ASSUME NEW o \in found, Life!Finish(o)
      PROVE  /\ fresh' \subseteq fresh /\ watched' \subseteq watched \cup (fresh \ fresh')
             /\ Done' = Done /\ found' = found \ {o}
  BY <1>7 DEF Life!Finish, Life!Watching, Done
<1>8. CASE UNCHANGED Life!vars
  <2>1. fresh' = fresh /\ watched' = watched /\ found' = found /\ Done' = Done
    BY <1>8 DEF Life!vars, Done
  <2> QED
    BY <1>1, <1>8, <2>1
<1>9. \/ Life!Place \/ Life!Forget
      \/ \E o \in Ids : Life!Fill(o)
      \/ \E S \in SUBSET watched : Life!Find(S)
      \/ \E o \in found : Life!Finish(o)
      \/ UNCHANGED Life!vars
  BY DEF Life!Next
<1> HIDE DEF fresh, watched, found
<1>10. CASE \E o \in Ids : Life!Fill(o)
  BY <1>1, <1>5, <1>10
<1>11. CASE \E S \in SUBSET watched : Life!Find(S)
  BY <1>1, <1>6, <1>11
<1>12. CASE \E o \in found : Life!Finish(o)
  BY <1>1, <1>7, <1>12
<1> QED
  BY <1>3, <1>4, <1>8, <1>9, <1>10, <1>11, <1>12

\* An order is not placed yet, watched, or found and not finished, never two of these,
\* and what is found is filled (_pending_orders, _tp_orders and the fills under way).
THEOREM OrdersAreInOnePlace == Spec => []Life!OnePlace
BY OnePlaceInit, OnePlaceKept, ImplementsLife, PTL DEF KeepsLife, Life!Spec

\* No order goes back: one that the manager watches anew was just placed, and a fill
\* that it finds was watched until then, so no fill is found twice.
THEOREM OrdersGoOnward == Spec => Life!GoesOnward
BY OnePlaceInit, OnePlaceKept, ImplementsLife, PTL
   DEF KeepsLife, Life!Spec, Life!GoesOnward

=============================================================================
