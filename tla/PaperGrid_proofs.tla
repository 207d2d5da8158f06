--------------------------- MODULE PaperGrid_proofs ---------------------------
(***************************************************************************)
(* Proofs about PaperGrid, for every set of symbols and levels and every   *)
(* bound: type correctness, the level map of GridPositionManager, the      *)
(* trades, that a signal closes its own order, that the executor has an    *)
(* order for every row, and that the tables implement PositionBook.        *)
(***************************************************************************)
EXTENDS PaperGrid, TLAPS, FiniteSetTheorems

-----------------------------------------------------------------------------
(* Functions as maps.                                                      *)

\* A larger range.
LEMMA WiderRange ==
    ASSUME NEW D, NEW T, NEW U, T \subseteq U, NEW f \in [D -> T]
    PROVE  f \in [D -> U]
  OBVIOUS

LEMMA EmptyMap == DOMAIN <<>> = {} /\ \A T : <<>> \in [{} -> T]
  OBVIOUS

-----------------------------------------------------------------------------
(* The restored levels.                                                    *)

\* Two rows never get the same synthetic key: of two rows of one symbol the
\* older one has more newer rows.
LEMMA SyntheticKeyInjective ==
    ASSUME TypeOK, NEW i \in DOMAIN rows, NEW j \in DOMAIN rows,
           SyntheticKey(i) = SyntheticKey(j)
    PROVE  i = j
<1> DEFINE Newer(x) == {y \in DOMAIN rows : rows[y].sym = rows[x].sym /\ x < y}
<1>0. DOMAIN rows \subseteq 1 .. nextId - 1 /\ nextId \in Int
  BY BoundsAssumption DEF TypeOK
<1>1. IsFiniteSet(DOMAIN rows)
  BY <1>0, FS_Interval, FS_Subset
<1>2. \A x \in DOMAIN rows : IsFiniteSet(Newer(x)) /\ Cardinality(Newer(x)) \in Nat
  <2> TAKE x \in DOMAIN rows
  <2>1. Newer(x) \in SUBSET DOMAIN rows
    OBVIOUS
  <2> QED BY <1>1, <2>1, FS_Subset, FS_CardinalityType
<1>3. rows[i].sym = rows[j].sym /\ Cardinality(Newer(i)) = Cardinality(Newer(j))
  <2>1. <<rows[i].sym, -100 - Cardinality(Newer(i))>> = <<rows[j].sym, -100 - Cardinality(Newer(j))>>
    BY DEF SyntheticKey
  <2> QED BY <2>1, <1>2
<1>4. ASSUME NEW x \in DOMAIN rows, NEW y \in DOMAIN rows, rows[x].sym = rows[y].sym,
             Cardinality(Newer(x)) = Cardinality(Newer(y)), x < y
      PROVE  FALSE
  <2>1. Newer(y) \in SUBSET Newer(x)
    BY <1>0, <1>4
  <2>2. y \in Newer(x) /\ y \notin Newer(y)
    BY <1>0, <1>4
  <2>3. Newer(x) = Newer(y)
    BY <1>2, <1>4, <2>1, FS_Subset
  <2> QED BY <2>2, <2>3
<1>5. i < j \/ j < i \/ i = j
  BY <1>0
<1> QED BY <1>3, <1>4, <1>5

\* Every open row has a level after a restart, under a key no signal uses.
LEMMA RestoredLevelsProperties ==
    ASSUME TypeOK
    PROVE  /\ DOMAIN RestoredLevels = {SyntheticKey(i) : i \in DOMAIN rows}
           /\ \A i \in DOMAIN rows : RestoredLevels[SyntheticKey(i)] = i
           /\ DOMAIN RestoredLevels \subseteq Keys
           /\ \A k \in DOMAIN RestoredLevels : k[2] <= -100
<1>1. DOMAIN RestoredLevels = {SyntheticKey(i) : i \in DOMAIN rows}
  BY DEF RestoredLevels
<1>2. ASSUME NEW i \in DOMAIN rows PROVE RestoredLevels[SyntheticKey(i)] = i
  <2>1. \E j \in DOMAIN rows : SyntheticKey(j) = SyntheticKey(i)
    OBVIOUS
  <2>2. RestoredLevels[SyntheticKey(i)] = CHOOSE j \in DOMAIN rows : SyntheticKey(j) = SyntheticKey(i)
    BY DEF RestoredLevels
  <2>3. RestoredLevels[SyntheticKey(i)] \in DOMAIN rows
        /\ SyntheticKey(RestoredLevels[SyntheticKey(i)]) = SyntheticKey(i)
    BY <2>1, <2>2
  <2> QED BY <2>3, SyntheticKeyInjective
<1>3. \A i \in DOMAIN rows : SyntheticKey(i) \in Keys /\ SyntheticKey(i)[2] <= -100
  <2> TAKE i \in DOMAIN rows
  <2> DEFINE N == {j \in DOMAIN rows : rows[j].sym = rows[i].sym /\ i < j}
  <2>0. 1 \in Int /\ nextId - 1 \in Int
    BY BoundsAssumption DEF TypeOK
  <2>1. IsFiniteSet(1 .. nextId - 1)
    BY <2>0, FS_Interval
  <2>2. N \in SUBSET (1 .. nextId - 1)
    BY DEF TypeOK
  <2>3. Cardinality(N) \in Nat
    BY <2>1, <2>2, FS_Subset, FS_CardinalityType
  <2>4. rows[i].sym \in Symbols
    BY DEF TypeOK
  <2>5. SyntheticKey(i) = <<rows[i].sym, -100 - Cardinality(N)>>
    BY DEF SyntheticKey
  <2> HIDE DEF N
  <2> QED BY <2>3, <2>4, <2>5 DEF Keys
<1> QED BY <1>1, <1>2, <1>3

-----------------------------------------------------------------------------
(* The initial states.                                                     *)

LEMMA InitInv == Init => IInv
<1> SUFFICES ASSUME Init PROVE IInv
  OBVIOUS
<1> USE EmptyMap
<1>1. TypeOK
  <2>1. queue \in Seq(Messages) /\ Len(queue) <= QueueCap /\ batch \in Seq(Messages)
        /\ Len(batch) <= QueueCap
    BY BoundsAssumption DEF Init
  <2>2. nextId \in 1 .. MaxOpens + 1 /\ bootId \in 1 .. nextId /\ snap \in 0 .. MaxOpens
        /\ crashes \in 0 .. MaxCrashes
    BY BoundsAssumption DEF Init
  <2>3. trades \in [Ids -> 0 .. MaxCrashes + 1] /\ wiped \in 0 .. MaxOpens /\ wiped < nextId
    BY BoundsAssumption DEF Init, Ids
  <2> QED BY <2>1, <2>2, <2>3 DEF Init, TypeOK
<1>2. RowsTracked /\ RunRowsReachable /\ RunOrders /\ SignalKeysAreNew
  BY DEF Init, RowsTracked, RunRowsReachable, RunOrders, SignalKeysAreNew, IsInjective
<1>3. TradesAccounted /\ HistoryFresh
  BY BoundsAssumption DEF Init, TradesAccounted, HistoryFresh, Ids
<1> QED BY <1>1, <1>2, <1>3 DEF IInv

-----------------------------------------------------------------------------
(* Type correctness of the steps.                                          *)

\* The symbol and level of a signal; a FILL names a level of the grid.
LEMMA MessageType ==
    ASSUME NEW m \in Messages
    PROVE  /\ m.sym \in Symbols /\ m.lvl \in Int /\ m.lvl > -100
           /\ KeyOf(m) \in Keys /\ KeyOf(m)[2] > -100
           /\ m.act = "FILL" => m.lvl \in Levels
<1>1. m.sym \in Symbols /\ (m.lvl \in Levels \/ m.lvl = 0)
      /\ (m.act = "FILL" => m.lvl \in Levels)
  BY DEF Messages
<1>2. m.lvl \in Int /\ m.lvl > -100
  <2>1. CASE m.lvl \in Levels
    BY <2>1, LevelsAssumption
  <2>2. CASE m.lvl = 0
    BY <2>2
  <2> QED BY <1>1, <2>1, <2>2
<1> QED BY <1>1, <1>2 DEF KeyOf, Keys

\* Taking a signal from the batch.
LEMMA HandlingType ==
    ASSUME TypeOK, NEW m \in Messages, Handling(m)
    PROVE  /\ batch' \in Seq(Messages) /\ Len(batch') <= QueueCap
           /\ snap' \in 0 .. MaxOpens
           /\ up /\ up'
           /\ UNCHANGED <<bootId, queue, crashes, wiped>>
<1>1. batch \in Seq(Messages) /\ batch # <<>> /\ batch' = Tail(batch) /\ Len(batch) <= QueueCap
  BY DEF Handling, TypeOK
<1>2. batch' \in Seq(Messages) /\ Len(batch') = Len(batch) - 1 /\ Len(batch) \in Nat
  BY <1>1
<1>3. Len(batch') <= QueueCap
  BY <1>1, <1>2, BoundsAssumption
<1>4. snap' \in 0 .. MaxOpens
  BY BoundsAssumption DEF Handling, TypeOK
<1> QED BY <1>2, <1>3, <1>4 DEF Handling

\* One more trade for some open rows.
LEMMA RecordedType ==
    ASSUME IInv, NEW A, NEW B, A \cup B \subseteq DOMAIN rows
    PROVE  Recorded(A, B) \in [Ids -> 0 .. MaxCrashes + 1]
<1> SUFFICES ASSUME NEW i \in Ids
             PROVE  trades[i] + (IF i \in A \cup B THEN 1 ELSE 0) \in 0 .. MaxCrashes + 1
  BY DEF Recorded
<1>1. trades[i] \in 0 .. MaxCrashes + 1 /\ crashes \in 0 .. MaxCrashes
  BY DEF IInv, TypeOK
<1>2. i \in A \cup B => i \in DOMAIN rows /\ i \in 1 .. nextId - 1
  BY DEF IInv, TypeOK
<1>3. i \in A \cup B => trades[i] <= crashes
  BY <1>2 DEF IInv, TradesAccounted
<1> QED BY <1>1, <1>3, BoundsAssumption

LEMMA FillType ==
    ASSUME IInv, NEW m \in Messages, HandleFill(m)
    PROVE  TypeOK'
<1>1. nextId \in 1 .. MaxOpens /\ nextId' = nextId + 1 /\ nextId' \in 1 .. MaxOpens + 1
      /\ bootId' \in 1 .. nextId'
      /\ 1 .. nextId - 1 \subseteq 1 .. nextId' - 1 /\ nextId \in 1 .. nextId' - 1
  <2>1. nextId \in 1 .. MaxOpens /\ nextId' = nextId + 1 /\ bootId' = bootId /\ bootId \in 1 .. nextId
    BY BoundsAssumption DEF IInv, TypeOK, HandleFill, Handling
  <2> QED BY <2>1, BoundsAssumption
<1>2. DOMAIN rows' = DOMAIN rows \cup {nextId} /\ rows' \in [DOMAIN rows' -> [sym : Symbols, lvl : Levels]]
  <2>1. [sym |-> m.sym, lvl |-> m.lvl] \in [sym : Symbols, lvl : Levels]
    BY MessageType DEF HandleFill
  <2>2. rows \in [DOMAIN rows -> [sym : Symbols, lvl : Levels]]
    BY DEF IInv, TypeOK
  <2>3. rows' = Put(rows, nextId, [sym |-> m.sym, lvl |-> m.lvl])
    BY DEF HandleFill
  <2> QED BY <2>1, <2>2, <2>3 DEF Put
<1>3. DOMAIN levelPos' = DOMAIN levelPos \cup {KeyOf(m)}
      /\ levelPos' \in [DOMAIN levelPos' -> 1 .. nextId' - 1]
  <2>1. levelPos \in [DOMAIN levelPos -> 1 .. nextId' - 1]
    BY <1>1, WiderRange DEF IInv, TypeOK
  <2>2. levelPos' = Put(levelPos, KeyOf(m), nextId)
    BY DEF HandleFill
  <2> QED BY <1>1, <2>1, <2>2 DEF Put
<1>4. DOMAIN levelOrd' = DOMAIN levelOrd \cup {KeyOf(m)}
      /\ levelOrd' \in [DOMAIN levelOrd' -> 1 .. nextId' - 1]
  <2>1. levelOrd \in [DOMAIN levelOrd -> 1 .. nextId' - 1]
    BY <1>1, WiderRange DEF IInv, TypeOK
  <2>2. levelOrd' = Put(levelOrd, KeyOf(m), nextId)
    BY DEF HandleFill
  <2> QED BY <1>1, <2>1, <2>2 DEF Put
<1>5. DOMAIN exec' = DOMAIN exec \cup {nextId} /\ exec' \in [DOMAIN exec' -> Symbols]
  <2>1. m.sym \in Symbols /\ exec \in [DOMAIN exec -> Symbols]
    BY MessageType DEF IInv, TypeOK
  <2>2. exec' = Put(exec, nextId, m.sym)
    BY DEF HandleFill, Bought
  <2> QED BY <2>1, <2>2 DEF Put
<1>6. DOMAIN rows' \subseteq 1 .. nextId' - 1 /\ DOMAIN exec' \subseteq 1 .. nextId' - 1
  BY <1>1, <1>2, <1>5 DEF IInv, TypeOK
<1>7. DOMAIN levelPos' \subseteq Keys /\ DOMAIN levelOrd' \subseteq Keys
  BY <1>3, <1>4, MessageType DEF IInv, TypeOK
<1>8. UNCHANGED <<traded, trades, queue, crashes>> /\ up'
      /\ batch' \in Seq(Messages) /\ Len(batch') <= QueueCap /\ snap' \in 0 .. MaxOpens
  BY HandlingType DEF HandleFill, IInv
<1>9. wiped' \in 0 .. MaxOpens /\ wiped' < nextId'
  <2>1. wiped' = wiped
    BY HandlingType DEF HandleFill, IInv
  <2>2. wiped \in 0 .. MaxOpens /\ wiped < nextId /\ nextId \in Int
    BY BoundsAssumption DEF IInv, TypeOK
  <2> QED BY <1>1, <2>1, <2>2
<1> QED BY <1>1, <1>2, <1>3, <1>4, <1>5, <1>6, <1>7, <1>8, <1>9 DEF IInv, TypeOK

\* The table, the levels and the executor only shrink.
LEMMA ShrinkType ==
    ASSUME IInv, NEW A, NEW B, NEW C, NEW D,
           rows' = Without(rows, A), levelPos' = Without(levelPos, B),
           levelOrd' = Without(levelOrd, C), exec' = Without(exec, D),
           UNCHANGED <<nextId, bootId>>
    PROVE  /\ DOMAIN rows' \subseteq 1 .. nextId' - 1
           /\ rows' \in [DOMAIN rows' -> [sym : Symbols, lvl : Levels]]
           /\ DOMAIN levelPos' \subseteq Keys
           /\ levelPos' \in [DOMAIN levelPos' -> 1 .. nextId' - 1]
           /\ DOMAIN levelOrd' \subseteq Keys
           /\ levelOrd' \in [DOMAIN levelOrd' -> 1 .. nextId' - 1]
           /\ DOMAIN exec' \subseteq 1 .. nextId' - 1
           /\ exec' \in [DOMAIN exec' -> Symbols]
           /\ nextId' \in 1 .. MaxOpens + 1 /\ bootId' \in 1 .. nextId'
<1>1. DOMAIN rows' \subseteq 1 .. nextId' - 1
      /\ rows' \in [DOMAIN rows' -> [sym : Symbols, lvl : Levels]]
  BY DEF Without, Restrict, IInv, TypeOK
<1>2. DOMAIN levelPos' \subseteq Keys /\ levelPos' \in [DOMAIN levelPos' -> 1 .. nextId' - 1]
  BY DEF Without, Restrict, IInv, TypeOK
<1>3. DOMAIN levelOrd' \subseteq Keys /\ levelOrd' \in [DOMAIN levelOrd' -> 1 .. nextId' - 1]
  BY DEF Without, Restrict, IInv, TypeOK
<1>4. DOMAIN exec' \subseteq 1 .. nextId' - 1 /\ exec' \in [DOMAIN exec' -> Symbols]
  BY DEF Without, Restrict, IInv, TypeOK
<1> QED BY <1>1, <1>2, <1>3, <1>4 DEF IInv, TypeOK

\* Removing nothing.
LEMMA WithoutNothing ==
    ASSUME NEW D, NEW T, NEW f \in [D -> T]
    PROVE  f = Without(f, {})
  BY DEF Without, Restrict

LEMMA CloseType ==
    ASSUME IInv, NEW m \in Messages, HandleClose(m)
    PROVE  TypeOK'
<1> DEFINE key == KeyOf(m)
           id  == levelPos[key]
           closed == OrderOfLevel(key) \cap DOMAIN exec
<1>1. /\ rows' = Without(rows, {id}) /\ levelPos' = Without(levelPos, {key})
      /\ levelOrd' = Without(levelOrd, {key}) /\ exec' = Without(exec, closed)
      /\ UNCHANGED <<nextId, bootId>>
      /\ id \in DOMAIN rows
      /\ traded' = traded \cup {exec[o] : o \in closed}
      /\ trades' = Recorded({id}, {})
  BY DEF HandleClose, Handling
<1>2. trades' \in [Ids -> 0 .. MaxCrashes + 1]
  BY <1>1, RecordedType
<1>3. traded' \subseteq Symbols
  BY <1>1 DEF IInv, TypeOK
<1>4. UNCHANGED <<queue, crashes, wiped>> /\ up'
      /\ batch' \in Seq(Messages) /\ Len(batch') <= QueueCap /\ snap' \in 0 .. MaxOpens
  BY HandlingType DEF HandleClose, IInv
<1> HIDE DEF key, id, closed
<1> QED BY <1>1, <1>2, <1>3, <1>4, ShrinkType DEF IInv, TypeOK

LEMMA StaleCloseType ==
    ASSUME IInv, NEW m \in Messages, HandleStaleClose(m)
    PROVE  TypeOK'
<1>1. rows' = Without(rows, {}) /\ levelOrd' = Without(levelOrd, {}) /\ exec' = Without(exec, {})
  BY WithoutNothing DEF HandleStaleClose, IInv, TypeOK
<1>2. levelPos' = Without(levelPos, {KeyOf(m)}) /\ UNCHANGED <<nextId, bootId, traded, trades>>
  BY DEF HandleStaleClose, Handling
<1>3. UNCHANGED <<queue, crashes, wiped>> /\ up'
      /\ batch' \in Seq(Messages) /\ Len(batch') <= QueueCap /\ snap' \in 0 .. MaxOpens
  BY HandlingType DEF HandleStaleClose, IInv
<1> QED BY <1>1, <1>2, <1>3, ShrinkType DEF IInv, TypeOK

LEMMA MonitorType ==
    ASSUME IInv, NEW hit \in SUBSET DOMAIN rows, NEW late \in SUBSET DOMAIN rows,
           Monitor(hit, late)
    PROVE  TypeOK'
<1> DEFINE filled == Gone \cup hit
           closed == OldestOrders(late)
<1>1. /\ rows' = Without(rows, filled \cup late) /\ exec' = Without(exec, closed)
      /\ traded' = traded \cup {exec[o] : o \in closed}
      /\ trades' = Recorded(Gone, hit \cup late)
      /\ late \cap filled = {}
      /\ UNCHANGED <<nextId, up, bootId, levelPos, levelOrd, queue, batch, snap, crashes, wiped>>
  BY DEF Monitor
<1>2. levelPos' = Without(levelPos, {}) /\ levelOrd' = Without(levelOrd, {})
  BY <1>1, WithoutNothing DEF IInv, TypeOK
<1>3. Gone \subseteq DOMAIN rows /\ closed \subseteq DOMAIN exec
  BY DEF Gone, OldestOrders
<1>4. trades' \in [Ids -> 0 .. MaxCrashes + 1]
  BY <1>1, <1>3, RecordedType
<1>5. traded' \subseteq Symbols
  BY <1>1, <1>3 DEF IInv, TypeOK
<1> HIDE DEF filled, closed
<1> QED BY <1>1, <1>2, <1>4, <1>5, ShrinkType DEF IInv, TypeOK

\* A reset empties the table and takes some orders from the executor.
LEMMA ResetType ==
    ASSUME IInv, Wipe, NEW D, exec' = Without(exec, D), traded' \subseteq Symbols,
           trades' \in [Ids -> 0 .. MaxCrashes + 1],
           UNCHANGED <<nextId, up, bootId, levelPos, levelOrd, queue, batch, snap, crashes>>
    PROVE  TypeOK'
<1>1. rows' = Without(rows, DOMAIN rows)
  <2>1. rows' = <<>> /\ DOMAIN <<>> = {}
    BY EmptyMap DEF Wipe
  <2>2. Without(rows, DOMAIN rows) = [x \in {} |-> rows[x]]
    BY DEF Without, Restrict
  <2>3. <<>> = [x \in {} |-> rows[x]]
    OBVIOUS
  <2> QED BY <2>1, <2>2, <2>3
<1>2. levelPos' = Without(levelPos, {}) /\ levelOrd' = Without(levelOrd, {})
  BY WithoutNothing DEF IInv, TypeOK
<1>3. wiped' \in 0 .. MaxOpens /\ wiped' < nextId'
  <2>1. nextId \in 1 .. MaxOpens + 1 /\ nextId' = nextId /\ wiped' = nextId - 1
    BY DEF IInv, TypeOK, Wipe
  <2> QED BY <2>1, BoundsAssumption
<1> QED BY <1>1, <1>2, <1>3, ShrinkType DEF IInv, TypeOK

LEMMA ResetsType ==
    ASSUME IInv, Reset \/ \E late \in SUBSET DOMAIN rows : ResetInPass(late)
    PROVE  TypeOK'
<1>0. 0 \in 0 .. MaxCrashes + 1 /\ 1 \in 0 .. MaxCrashes + 1
  BY BoundsAssumption
<1>1. CASE Reset
  <2>1. exec' = Without(exec, {})
    BY <1>1, WithoutNothing DEF Reset, IInv, TypeOK
  <2>2. trades' \in [Ids -> 0 .. MaxCrashes + 1] /\ traded' \subseteq Symbols
    BY <1>0, <1>1 DEF Reset, IInv, TypeOK
  <2> QED BY <1>1, <2>1, <2>2, ResetType DEF Reset
<1>2. ASSUME NEW late \in SUBSET DOMAIN rows, ResetInPass(late) PROVE TypeOK'
  <2> DEFINE closed == OldestOrders(late)
  <2>1. exec' = Without(exec, closed) /\ traded' = traded \cup {exec[o] : o \in closed}
    BY <1>2 DEF ResetInPass
  <2>2. closed \subseteq DOMAIN exec
    BY DEF OldestOrders
  <2>3. traded' \subseteq Symbols
    BY <2>1, <2>2 DEF IInv, TypeOK
  <2>4. trades' \in [Ids -> 0 .. MaxCrashes + 1]
    BY <1>0, <1>2 DEF ResetInPass
  <2> HIDE DEF closed
  <2> QED BY <1>2, <2>1, <2>3, <2>4, ResetType DEF ResetInPass
<1> QED BY <1>1, <1>2

LEMMA DownType ==
    ASSUME IInv, Down, trades' \in [Ids -> 0 .. MaxCrashes + 1]
    PROVE  TypeOK'
<1>1. DOMAIN levelPos' = {} /\ DOMAIN levelOrd' = {} /\ DOMAIN exec' = {}
      /\ levelPos' \in [{} -> 1 .. nextId - 1] /\ levelOrd' \in [{} -> 1 .. nextId - 1]
      /\ exec' \in [{} -> Symbols]
  BY EmptyMap DEF Down
<1>2. crashes' \in 0 .. MaxCrashes /\ snap' \in 0 .. MaxOpens
  <2>1. crashes \in 0 .. MaxCrashes /\ crashes < MaxCrashes /\ crashes' = crashes + 1
        /\ snap' = 0
    BY DEF Down, IInv, TypeOK
  <2> QED BY <2>1, BoundsAssumption
<1>4. up' \in BOOLEAN
  BY DEF Down
<1>3. batch' \in Seq(Messages) /\ Len(batch') <= QueueCap
  BY BoundsAssumption DEF Down
<1> QED BY <1>1, <1>2, <1>3, <1>4 DEF Down, IInv, TypeOK

LEMMA StartType ==
    ASSUME IInv, Start
    PROVE  TypeOK'
<1>1. levelPos' \in [DOMAIN levelPos' -> 1 .. nextId' - 1] /\ DOMAIN levelPos' \subseteq Keys
  <2>1. levelPos' = RestoredLevels /\ nextId' = nextId
    BY DEF Start
  <2>2. RestoredLevels = [k \in DOMAIN RestoredLevels |-> RestoredLevels[k]]
    BY DEF RestoredLevels
  <2>3. \A k \in DOMAIN RestoredLevels : RestoredLevels[k] \in 1 .. nextId - 1
    BY RestoredLevelsProperties DEF IInv, TypeOK
  <2> QED BY <2>1, <2>2, <2>3, RestoredLevelsProperties DEF IInv
<1>2. bootId' \in 1 .. nextId' /\ up' \in BOOLEAN
  BY BoundsAssumption DEF Start, IInv, TypeOK
<1> QED BY <1>1, <1>2 DEF Start, IInv, TypeOK

LEMMA SendDrainType ==
    ASSUME IInv, Drain \/ \E m \in Messages : Send(m)
    PROVE  TypeOK'
<1>1. CASE Drain
  <2>1. snap' \in 0 .. MaxOpens
    <3>1. 1 \in Int /\ nextId - 1 \in Int /\ nextId - 1 <= MaxOpens /\ nextId - 1 >= 0
      BY BoundsAssumption DEF IInv, TypeOK
    <3>2. IsFiniteSet(1 .. nextId - 1) /\ Cardinality(1 .. nextId - 1) = nextId - 1
      BY <3>1, FS_Interval
    <3>3. DOMAIN rows \in SUBSET (1 .. nextId - 1)
      BY DEF IInv, TypeOK
    <3>4. Cardinality(DOMAIN rows) <= nextId - 1 /\ Cardinality(DOMAIN rows) \in Nat
      BY <3>2, <3>3, FS_Subset, FS_CardinalityType
    <3> QED BY <3>1, <3>4, BoundsAssumption, <1>1 DEF Drain
  <2>2. queue' \in Seq(Messages) /\ Len(queue') <= QueueCap
    BY <1>1, BoundsAssumption DEF Drain
  <2> QED BY <1>1, <2>1, <2>2 DEF Drain, IInv, TypeOK
<1>2. ASSUME NEW m \in Messages, Send(m) PROVE TypeOK'
  <2>1. queue' \in Seq(Messages) /\ Len(queue') <= QueueCap
    BY <1>2, BoundsAssumption DEF Send, HasRoom, IInv, TypeOK
  <2> QED BY <1>2, <2>1 DEF Send, IInv, TypeOK
<1> QED BY <1>1, <1>2

\* Every step keeps the types.
LEMMA TypeStep ==
    ASSUME IInv, [Next]_vars
    PROVE  TypeOK'
<1>1. CASE UNCHANGED vars
  BY <1>1 DEF vars, IInv, TypeOK
<1>2. CASE Drain \/ \E m \in Messages : Send(m)
  BY <1>2, SendDrainType
<1>3. ASSUME NEW m \in Messages, HandleNothing(m) PROVE TypeOK'
  <2>1. Handling(m)
    BY <1>3 DEF HandleNothing
  <2> QED BY <1>3, <2>1, HandlingType DEF HandleNothing, IInv, TypeOK
<1>4. ASSUME NEW m \in Messages, HandleFill(m) PROVE TypeOK'
  BY <1>4, FillType
<1>5. ASSUME NEW m \in Messages, HandleClose(m) PROVE TypeOK'
  BY <1>5, CloseType
<1>6. ASSUME NEW m \in Messages, HandleStaleClose(m) PROVE TypeOK'
  BY <1>6, StaleCloseType
<1>7. ASSUME NEW hit \in SUBSET DOMAIN rows, NEW late \in SUBSET DOMAIN rows, Monitor(hit, late)
      PROVE  TypeOK'
  BY <1>7, MonitorType
<1>8. CASE Crash
  BY <1>8, DownType DEF Crash, IInv, TypeOK
<1>9. ASSUME NEW i \in DOMAIN rows, CrashInClose(i) PROVE TypeOK'
  <2>1. trades' \in [Ids -> 0 .. MaxCrashes + 1]
    BY <1>9, RecordedType DEF CrashInClose
  <2> QED BY <1>9, <2>1, DownType DEF CrashInClose
<1>10. CASE Start
  BY <1>10, StartType
<1>11. CASE Reset \/ \E late \in SUBSET DOMAIN rows : ResetInPass(late)
  BY <1>11, ResetsType
<1> QED BY <1>1, <1>2, <1>3, <1>4, <1>5, <1>6, <1>7, <1>8, <1>9, <1>10, <1>11 DEF Next

-----------------------------------------------------------------------------
(* The level map.                                                          *)

LevelMap == RowsTracked /\ RunRowsReachable /\ RunOrders /\ SignalKeysAreNew

\* A new position gets a free level, so no row loses its own.
LEMMA FillLevelMap ==
    ASSUME IInv, NEW m \in Messages, HandleFill(m)
    PROVE  LevelMap'
<1> DEFINE key == KeyOf(m)
<1>1. /\ key \notin DOMAIN levelPos
      /\ rows' = Put(rows, nextId, [sym |-> m.sym, lvl |-> m.lvl])
      /\ levelPos' = Put(levelPos, key, nextId)
      /\ levelOrd' = Put(levelOrd, key, nextId)
      /\ up /\ up' /\ bootId' = bootId
  BY DEF HandleFill, LevelFree, Handling
<1>2. \A k \in DOMAIN levelPos : levelPos[k] \in 1 .. nextId - 1
  BY DEF IInv, TypeOK
<1>3. nextId \in Int /\ bootId <= nextId /\ nextId \notin 1 .. nextId - 1
      /\ nextId \notin DOMAIN rows
  BY BoundsAssumption DEF IInv, TypeOK
<1>4. RowsTracked'
  <2>1. IsInjective(levelPos')
    BY <1>1, <1>2, <1>3 DEF IInv, RowsTracked, IsInjective, Put
  <2>2. DOMAIN rows' \subseteq Range(levelPos')
    BY <1>1, <1>2, <1>3 DEF IInv, RowsTracked, Range, Put
  <2> QED BY <2>1, <2>2 DEF RowsTracked
<1>5. /\ \A i \in DOMAIN rows : OwnKey(i)' = OwnKey(i)
      /\ \A i : i = nextId => OwnKey(i)' = key
  <2>1. \A i \in DOMAIN rows : rows'[i] = rows[i]
    BY <1>1, <1>3 DEF Put
  <2>2. rows'[nextId] = [sym |-> m.sym, lvl |-> m.lvl]
    BY <1>1 DEF Put
  <2>3. \A i : OwnKey(i)' = <<rows'[i].sym, rows'[i].lvl>>
    BY DEF OwnKey
  <2> QED BY <2>1, <2>2, <2>3 DEF OwnKey, KeyOf
<1>6. RunRowsReachable'
  <2> SUFFICES ASSUME NEW i \in DOMAIN rows', i >= bootId
               PROVE  OwnKey(i)' \in DOMAIN levelPos' /\ levelPos'[OwnKey(i)'] = i
    BY <1>1 DEF RunRowsReachable
  <2>1. CASE i = nextId
    <3>1. OwnKey(i)' = key
      BY <2>1, <1>5
    <3> HIDE DEF key
    <3> QED BY <2>1, <3>1, <1>1 DEF Put
  <2>2. CASE i \in DOMAIN rows
    <3>1. OwnKey(i) \in DOMAIN levelPos /\ levelPos[OwnKey(i)] = i
      BY <2>2, <1>1 DEF IInv, RunRowsReachable
    <3>2. OwnKey(i)' = OwnKey(i) /\ OwnKey(i) # key
      BY <3>1, <2>2, <1>5, <1>1
    <3> HIDE DEF key
    <3> QED BY <3>1, <3>2, <1>1 DEF Put
  <2> QED BY <2>1, <2>2, <1>1 DEF Put
<1>7. RunOrders'
  <2> SUFFICES ASSUME NEW i \in DOMAIN rows', i >= bootId
               PROVE  OwnKey(i)' \in DOMAIN levelOrd' /\ levelOrd'[OwnKey(i)'] = i
    BY <1>1 DEF RunOrders
  <2>1. CASE i = nextId
    <3>1. OwnKey(i)' = key
      BY <2>1, <1>5
    <3> HIDE DEF key
    <3> QED BY <2>1, <3>1, <1>1 DEF Put
  <2>2. CASE i \in DOMAIN rows
    <3>1. OwnKey(i) \in DOMAIN levelPos /\ OwnKey(i) \in DOMAIN levelOrd /\ levelOrd[OwnKey(i)] = i
      BY <2>2, <1>1 DEF IInv, RunRowsReachable, RunOrders
    <3>2. OwnKey(i)' = OwnKey(i) /\ OwnKey(i) # key
      BY <3>1, <2>2, <1>5, <1>1
    <3> HIDE DEF key
    <3> QED BY <3>1, <3>2, <1>1 DEF Put
  <2> QED BY <2>1, <2>2, <1>1 DEF Put
<1>8. SignalKeysAreNew'
  <2> SUFFICES ASSUME NEW k \in DOMAIN levelPos', k[2] > -100
               PROVE  levelPos'[k] >= bootId
    BY <1>1 DEF SignalKeysAreNew
  <2>1. CASE k = key
    BY <2>1, <1>1, <1>3 DEF Put
  <2>2. CASE k # key
    BY <2>2, <1>1 DEF Put, IInv, SignalKeysAreNew
  <2> QED BY <2>1, <2>2
<1> QED BY <1>4, <1>6, <1>7, <1>8 DEF LevelMap

\* Closing a level frees it and removes its row; every other row keeps its level.
LEMMA CloseLevelMap ==
    ASSUME IInv, NEW m \in Messages, HandleClose(m)
    PROVE  LevelMap'
<1> DEFINE key == KeyOf(m)
           id  == levelPos[key]
<1>1. /\ key \in DOMAIN levelPos
      /\ rows' = Without(rows, {id}) /\ levelPos' = Without(levelPos, {key})
      /\ levelOrd' = Without(levelOrd, {key})
      /\ up /\ up' /\ bootId' = bootId
  BY DEF HandleClose, Handling
<1>2. IsInjective(levelPos) /\ DOMAIN rows \subseteq Range(levelPos)
  BY <1>1 DEF IInv, RowsTracked
<1>3. /\ DOMAIN rows' = DOMAIN rows \ {id} /\ \A i \in DOMAIN rows' : rows'[i] = rows[i]
      /\ DOMAIN levelPos' = DOMAIN levelPos \ {key}
      /\ \A k \in DOMAIN levelPos' : levelPos'[k] = levelPos[k]
      /\ DOMAIN levelOrd' = DOMAIN levelOrd \ {key}
      /\ \A k \in DOMAIN levelOrd' : levelOrd'[k] = levelOrd[k]
  BY <1>1 DEF Without, Restrict
<1>4. \A i \in DOMAIN rows' : OwnKey(i)' = OwnKey(i)
  BY <1>3 DEF OwnKey
<1> HIDE DEF key
<1>5. RowsTracked'
  BY <1>2, <1>3 DEF RowsTracked, IsInjective, Range
<1>6. RunRowsReachable' /\ RunOrders'
  <2> SUFFICES ASSUME NEW i \in DOMAIN rows', i >= bootId
               PROVE  /\ OwnKey(i) \in DOMAIN levelPos' /\ levelPos'[OwnKey(i)] = i
                      /\ OwnKey(i) \in DOMAIN levelOrd' /\ levelOrd'[OwnKey(i)] = i
    BY <1>1, <1>4 DEF RunRowsReachable, RunOrders
  <2>1. /\ OwnKey(i) \in DOMAIN levelPos /\ levelPos[OwnKey(i)] = i
        /\ OwnKey(i) \in DOMAIN levelOrd /\ levelOrd[OwnKey(i)] = i
    BY <1>1, <1>3 DEF IInv, RunRowsReachable, RunOrders
  <2>2. OwnKey(i) # key
    BY <2>1, <1>3
  <2> QED BY <2>1, <2>2, <1>3
<1>7. SignalKeysAreNew'
  BY <1>1, <1>3 DEF IInv, SignalKeysAreNew
<1> QED BY <1>5, <1>6, <1>7 DEF LevelMap

\* A level freed because its row is gone held no open row.
LEMMA StaleCloseLevelMap ==
    ASSUME IInv, NEW m \in Messages, HandleStaleClose(m)
    PROVE  LevelMap'
<1> DEFINE key == KeyOf(m)
<1>1. /\ key \in DOMAIN levelPos /\ levelPos[key] \notin DOMAIN rows
      /\ levelPos' = Without(levelPos, {key})
      /\ up /\ up' /\ UNCHANGED <<bootId, rows, levelOrd>>
  BY DEF HandleStaleClose, Handling
<1>2. IsInjective(levelPos) /\ DOMAIN rows \subseteq Range(levelPos)
  BY <1>1 DEF IInv, RowsTracked
<1>3. /\ DOMAIN levelPos' = DOMAIN levelPos \ {key}
      /\ \A k \in DOMAIN levelPos' : levelPos'[k] = levelPos[k]
  BY <1>1 DEF Without, Restrict
<1>4. \A i : OwnKey(i)' = OwnKey(i)
  BY <1>1 DEF OwnKey
<1> HIDE DEF key
<1>5. RowsTracked'
  BY <1>1, <1>2, <1>3 DEF RowsTracked, IsInjective, Range
<1>6. RunRowsReachable' /\ RunOrders'
  <2> SUFFICES ASSUME NEW i \in DOMAIN rows, i >= bootId
               PROVE  /\ OwnKey(i) \in DOMAIN levelPos' /\ levelPos'[OwnKey(i)] = i
                      /\ OwnKey(i) \in DOMAIN levelOrd /\ levelOrd[OwnKey(i)] = i
    BY <1>1, <1>4 DEF RunRowsReachable, RunOrders
  <2>1. /\ OwnKey(i) \in DOMAIN levelPos /\ levelPos[OwnKey(i)] = i
        /\ OwnKey(i) \in DOMAIN levelOrd /\ levelOrd[OwnKey(i)] = i
    BY <1>1 DEF IInv, RunRowsReachable, RunOrders
  <2>2. OwnKey(i) # key
    BY <2>1, <1>1
  <2> QED BY <2>1, <2>2, <1>3
<1>7. SignalKeysAreNew'
  BY <1>1, <1>3 DEF IInv, SignalKeysAreNew
<1> QED BY <1>5, <1>6, <1>7 DEF LevelMap

\* The monitor removes rows and leaves the levels alone.
LEMMA MonitorLevelMap ==
    ASSUME IInv, NEW hit \in SUBSET DOMAIN rows, NEW late \in SUBSET DOMAIN rows,
           Monitor(hit, late)
    PROVE  LevelMap'
<1>1. /\ rows' = Without(rows, Gone \cup hit \cup late)
      /\ up /\ UNCHANGED <<up, bootId, levelPos, levelOrd>>
  BY DEF Monitor
<1>2. DOMAIN rows' \subseteq DOMAIN rows /\ \A i \in DOMAIN rows' : rows'[i] = rows[i]
  BY <1>1 DEF Without, Restrict
<1>3. \A i \in DOMAIN rows' : OwnKey(i)' = OwnKey(i)
  BY <1>2 DEF OwnKey
<1>4. RowsTracked' /\ SignalKeysAreNew'
  BY <1>1, <1>2 DEF IInv, RowsTracked, SignalKeysAreNew
<1>5. RunRowsReachable' /\ RunOrders'
  BY <1>1, <1>2, <1>3 DEF IInv, RunRowsReachable, RunOrders
<1> QED BY <1>4, <1>5 DEF LevelMap

\* A restart gives every row a level, none of them a level of a signal.
LEMMA StartLevelMap ==
    ASSUME IInv, Start
    PROVE  LevelMap'
<1>1. levelPos' = RestoredLevels /\ up' /\ bootId' = nextId /\ rows' = rows
  BY DEF Start
<1>2. RowsTracked'
  <2>1. IsInjective(RestoredLevels)
    BY RestoredLevelsProperties DEF IInv, IsInjective
  <2>2. DOMAIN rows \subseteq Range(RestoredLevels)
    BY RestoredLevelsProperties DEF IInv, Range
  <2> QED BY <1>1, <2>1, <2>2 DEF RowsTracked
<1>3. RunRowsReachable' /\ RunOrders'
  <2>1. \A i \in DOMAIN rows' : ~(i >= bootId')
    BY <1>1, BoundsAssumption DEF IInv, TypeOK
  <2> QED BY <2>1 DEF RunRowsReachable, RunOrders
<1>4. SignalKeysAreNew'
  <2> SUFFICES ASSUME NEW k \in DOMAIN RestoredLevels, k[2] > -100 PROVE FALSE
    BY <1>1 DEF SignalKeysAreNew
  <2>1. k[2] <= -100 /\ k[2] \in Int
    BY RestoredLevelsProperties DEF IInv, Keys
  <2> QED BY <2>1
<1> QED BY <1>2, <1>3, <1>4 DEF LevelMap

\* Every step keeps the level map.
LEMMA LevelMapStep ==
    ASSUME IInv, [Next]_vars
    PROVE  LevelMap'
<1> DEFINE Same == UNCHANGED <<rows, up, bootId, levelPos, levelOrd>>
<1>1. ASSUME Same PROVE LevelMap'
  BY <1>1 DEF IInv, LevelMap, RowsTracked, RunRowsReachable, RunOrders, SignalKeysAreNew, OwnKey
<1>2. CASE UNCHANGED vars \/ Drain \/ \E m \in Messages : Send(m)
  BY <1>1, <1>2 DEF vars, Drain, Send
<1>3. ASSUME NEW m \in Messages, HandleNothing(m) PROVE LevelMap'
  BY <1>1, <1>3 DEF HandleNothing, Handling
<1>4. ASSUME NEW m \in Messages, HandleFill(m) PROVE LevelMap'
  BY <1>4, FillLevelMap
<1>5. ASSUME NEW m \in Messages, HandleClose(m) PROVE LevelMap'
  BY <1>5, CloseLevelMap
<1>6. ASSUME NEW m \in Messages, HandleStaleClose(m) PROVE LevelMap'
  BY <1>6, StaleCloseLevelMap
<1>7. ASSUME NEW hit \in SUBSET DOMAIN rows, NEW late \in SUBSET DOMAIN rows, Monitor(hit, late)
      PROVE  LevelMap'
  BY <1>7, MonitorLevelMap
<1>8. ASSUME Down PROVE LevelMap'
  <2>1. up' = FALSE /\ DOMAIN levelPos' = {}
    BY <1>8, EmptyMap DEF Down
  <2> QED BY <2>1 DEF LevelMap, RowsTracked, RunRowsReachable, RunOrders, SignalKeysAreNew
<1>9. CASE Crash \/ \E i \in DOMAIN rows : CrashInClose(i)
  BY <1>8, <1>9 DEF Crash, CrashInClose
<1>10. CASE Start
  BY <1>10, StartLevelMap
<1>11. CASE Reset \/ \E late \in SUBSET DOMAIN rows : ResetInPass(late)
  <2>1. UNCHANGED <<up, bootId, levelPos, levelOrd>> /\ DOMAIN rows' = {}
    BY <1>11, EmptyMap DEF Reset, ResetInPass, Wipe
  <2> QED BY <2>1 DEF IInv, LevelMap, RowsTracked, RunRowsReachable, RunOrders, SignalKeysAreNew
<1> QED BY <1>2, <1>3, <1>4, <1>5, <1>6, <1>7, <1>9, <1>10, <1>11 DEF Next

-----------------------------------------------------------------------------
(* The history of trades and results.                                      *)

History == TradesAccounted /\ HistoryFresh

\* The arithmetic of the history: what TypeOK says of its numbers.
LEMMA HistoryTypes ==
    ASSUME TypeOK, TypeOK'
    PROVE  /\ \A i \in 1 .. nextId - 1 : i \in Ids
           /\ DOMAIN rows \subseteq 1 .. nextId - 1
           /\ \A i \in Ids : trades[i] \in Nat /\ trades'[i] \in Nat
           /\ crashes \in Nat /\ nextId \in Nat /\ wiped \in Nat /\ wiped < nextId
<1>1. MaxOpens \in Nat /\ MaxCrashes \in Nat
  BY BoundsAssumption
<1>2. nextId \in 1 .. MaxOpens + 1 /\ DOMAIN rows \subseteq 1 .. nextId - 1 /\ crashes \in 0 .. MaxCrashes
  BY DEF TypeOK
<1>3. trades \in [Ids -> 0 .. MaxCrashes + 1] /\ trades' \in [Ids -> 0 .. MaxCrashes + 1]
  BY DEF TypeOK
<1>4. \A i \in 1 .. nextId - 1 : i \in Ids
  BY ONLY <1>1, <1>2 DEF Ids
<1>5. \A i \in Ids : trades[i] \in Nat /\ trades'[i] \in Nat
  BY ONLY <1>1, <1>3
<1>6. crashes \in Nat /\ nextId \in Nat /\ wiped \in Nat /\ wiped < nextId
  <2>1. wiped \in 0 .. MaxOpens /\ wiped < nextId
    BY DEF TypeOK
  <2> QED BY ONLY <1>1, <1>2, <2>1
<1> QED
  BY <1>2, <1>4, <1>5, <1>6

\* What closing the rows A and then B does to the trades, when the rows leave the
\* table with it.
LEMMA CloseHistory ==
    ASSUME IInv, TypeOK', NEW A, NEW B, A \cup B \subseteq DOMAIN rows,
           rows' = Without(rows, A \cup B), trades' = Recorded(A, B),
           UNCHANGED <<nextId, crashes, wiped>>
    PROVE  History'
<1>1. DOMAIN rows' = DOMAIN rows \ (A \cup B)
  BY DEF Without, Restrict
<1>2. \A i \in Ids : trades'[i] = trades[i] + (IF i \in A \cup B THEN 1 ELSE 0)
  BY DEF Recorded
<1>3. /\ \A i \in 1 .. nextId - 1 : i \in Ids
      /\ DOMAIN rows \subseteq 1 .. nextId - 1
      /\ \A i \in Ids : trades[i] \in Nat /\ trades'[i] \in Nat
      /\ crashes \in Nat /\ nextId \in Nat /\ wiped \in Nat /\ wiped < nextId
  BY HistoryTypes DEF IInv
<1>4. TradesAccounted'
  <2> SUFFICES ASSUME NEW i \in 1 .. nextId - 1
               PROVE  IF i \in DOMAIN rows' THEN i > wiped /\ trades'[i] <= crashes
                      ELSE IF i <= wiped THEN trades'[i] <= 1
                      ELSE trades'[i] \in 1 .. crashes + 1
    BY DEF TradesAccounted
  <2>1. IF i \in DOMAIN rows THEN i > wiped /\ trades[i] <= crashes
        ELSE IF i <= wiped THEN trades[i] <= 1 ELSE trades[i] \in 1 .. crashes + 1
    BY DEF IInv, TradesAccounted
  <2>2. i \in Ids
    BY <1>3
  <2>3. CASE i \in A \cup B
    <3>1. i \in DOMAIN rows /\ i \notin DOMAIN rows' /\ trades'[i] = trades[i] + 1
      BY <1>1, <1>2, <2>2, <2>3
    <3> QED BY <3>1, <2>1, <2>2, <1>3
  <2>4. CASE i \notin A \cup B
    BY <1>1, <1>2, <1>3, <2>1, <2>2, <2>4
  <2> QED BY <2>3, <2>4
<1>5. HistoryFresh'
  <2>1. \A i \in Ids : i >= nextId => i \notin A \cup B
    BY <1>3
  <2>2. \A i \in DOMAIN rows : i \in Ids
    BY <1>3
  <2> QED BY <1>1, <1>2, <1>3, <2>1, <2>2 DEF IInv, HistoryFresh
<1> QED BY <1>4, <1>5 DEF History

LEMMA FillHistory ==
    ASSUME IInv, NEW m \in Messages, HandleFill(m)
    PROVE  History'
<1>1. DOMAIN rows' = DOMAIN rows \cup {nextId} /\ nextId' = nextId + 1 /\ nextId <= MaxOpens
      /\ UNCHANGED <<trades, crashes, wiped>>
  BY DEF HandleFill, Handling, Put
<1>2. nextId \in Ids /\ nextId \in Nat /\ crashes \in Nat /\ wiped \in Nat /\ wiped < nextId
  BY <1>1, BoundsAssumption DEF IInv, TypeOK, Ids
<1>3. trades[nextId] = 0
  BY <1>2 DEF IInv, HistoryFresh
<1>4. \A i \in 1 .. nextId' - 1 : i \in 1 .. nextId - 1 \/ i = nextId
  BY <1>1, <1>2
<1>5. TradesAccounted'
  BY <1>1, <1>2, <1>3, <1>4 DEF IInv, TradesAccounted
<1>6. HistoryFresh'
  BY <1>1, <1>2, <1>3 DEF IInv, HistoryFresh, Ids
<1> QED BY <1>5, <1>6 DEF History

LEMMA MonitorHistory ==
    ASSUME IInv, TypeOK', NEW hit \in SUBSET DOMAIN rows, NEW late \in SUBSET DOMAIN rows,
           Monitor(hit, late)
    PROVE  History'
<1> DEFINE A == Gone
           B == hit \cup late
<1>1. A \cup B \subseteq DOMAIN rows
  BY DEF Gone
<1>2. Gone \cup hit \cup late = A \cup B
  OBVIOUS
<1>3. rows' = Without(rows, A \cup B) /\ trades' = Recorded(A, B) 
      /\ UNCHANGED <<nextId, crashes, wiped>>
  BY <1>2 DEF Monitor
<1> HIDE DEF A, B
<1> QED BY <1>1, <1>3, CloseHistory

\* A stop leaves the table alone; at most one row gains a trade, and the number
\* of stops grows with it.
LEMMA DownHistory ==
    ASSUME IInv, TypeOK', Down, NEW A \in SUBSET DOMAIN rows,
           \A i \in Ids : trades'[i] = trades[i] + (IF i \in A THEN 1 ELSE 0)
    PROVE  History'
<1>1. UNCHANGED <<rows, nextId, wiped>> /\ crashes' = crashes + 1
  BY DEF Down
<1>2. /\ \A i \in 1 .. nextId - 1 : i \in Ids
      /\ DOMAIN rows \subseteq 1 .. nextId - 1
      /\ \A i \in Ids : trades[i] \in Nat /\ trades'[i] \in Nat
      /\ crashes \in Nat /\ nextId \in Nat /\ wiped \in Nat /\ wiped < nextId
  BY HistoryTypes DEF IInv
<1>3. TradesAccounted'
  <2> SUFFICES ASSUME NEW i \in 1 .. nextId - 1
               PROVE  IF i \in DOMAIN rows THEN i > wiped /\ trades'[i] <= crashes + 1
                      ELSE IF i <= wiped THEN trades'[i] <= 1
                      ELSE trades'[i] \in 1 .. crashes + 2
    BY <1>1, <1>2 DEF TradesAccounted
  <2>1. IF i \in DOMAIN rows THEN i > wiped /\ trades[i] <= crashes
        ELSE IF i <= wiped THEN trades[i] <= 1 ELSE trades[i] \in 1 .. crashes + 1
    BY DEF IInv, TradesAccounted
  <2>2. i \in Ids /\ trades'[i] = trades[i] + (IF i \in A THEN 1 ELSE 0)
    BY <1>2
  <2>3. CASE i \in DOMAIN rows
    BY <1>2, <2>1, <2>2, <2>3
  <2>4. CASE i \notin DOMAIN rows
    BY <1>2, <2>1, <2>2, <2>4
  <2> QED BY <2>3, <2>4
<1>4. HistoryFresh'
  <2>1. \A i \in Ids : i >= nextId => i \notin A
    BY <1>2
  <2> QED BY <1>1, <1>2, <2>1 DEF IInv, HistoryFresh
<1> QED BY <1>3, <1>4 DEF History

\* A reset leaves at most one trade to what it deletes, and deletes everything.
LEMMA ResetHistory ==
    ASSUME IInv, TypeOK', Reset \/ \E late \in SUBSET DOMAIN rows : ResetInPass(late)
    PROVE  History'
<1>1. DOMAIN rows' = {} /\ nextId' = nextId /\ wiped' = nextId - 1 /\ crashes' = crashes
  BY EmptyMap DEF Reset, ResetInPass, Wipe
<1>2. /\ \A i \in 1 .. nextId - 1 : i \in Ids
      /\ DOMAIN rows \subseteq 1 .. nextId - 1
      /\ nextId \in Nat
  BY HistoryTypes DEF IInv
<1>3. \A i \in Ids : trades'[i] \in {0, 1} /\ (i \notin DOMAIN rows => trades'[i] = 0)
  BY DEF Reset, ResetInPass
<1>4. TradesAccounted'
  BY <1>1, <1>2, <1>3 DEF TradesAccounted
<1>5. HistoryFresh'
  BY <1>1, <1>2, <1>3 DEF HistoryFresh
<1> QED BY <1>4, <1>5 DEF History

\* Every step keeps the history.
LEMMA HistoryStep ==
    ASSUME IInv, TypeOK', [Next]_vars
    PROVE  History'
<1>1. ASSUME UNCHANGED <<rows, nextId, crashes, trades, wiped>> PROVE History'
  BY <1>1 DEF IInv, History, TradesAccounted, HistoryFresh
<1>2. CASE UNCHANGED vars \/ Drain \/ Start \/ \E m \in Messages : Send(m)
  BY <1>1, <1>2 DEF vars, Drain, Start, Send
<1>3. ASSUME NEW m \in Messages, HandleNothing(m) \/ HandleStaleClose(m) PROVE History'
  BY <1>1, <1>3 DEF HandleNothing, HandleStaleClose, Handling
<1>4. ASSUME NEW m \in Messages, HandleFill(m) PROVE History'
  BY <1>4, FillHistory
<1>5. ASSUME NEW m \in Messages, HandleClose(m) PROVE History'
  <2> DEFINE A == {levelPos[KeyOf(m)]}
  <2>1. A \cup {} \subseteq DOMAIN rows /\ rows' = Without(rows, A \cup {})
        /\ trades' = Recorded(A, {}) /\ UNCHANGED <<nextId, crashes, wiped>>
    <3>1. A \cup {} = A
      OBVIOUS
    <3> QED BY <1>5, <3>1 DEF HandleClose, Handling
  <2> HIDE DEF A
  <2> QED BY <2>1, CloseHistory
<1>6. ASSUME NEW hit \in SUBSET DOMAIN rows, NEW late \in SUBSET DOMAIN rows, Monitor(hit, late)
      PROVE  History'
  BY <1>6, MonitorHistory
<1>7. CASE Crash
  <2>1. Down /\ trades' = trades
    BY <1>7 DEF Crash
  <2>2. \A i \in Ids : trades'[i] = trades[i] + (IF i \in {} THEN 1 ELSE 0)
    BY <2>1 DEF IInv, TypeOK
  <2>3. {} \in SUBSET DOMAIN rows
    OBVIOUS
  <2> QED BY <2>1, <2>2, <2>3, DownHistory
<1>8. ASSUME NEW j \in DOMAIN rows, CrashInClose(j) PROVE History'
  <2>1. Down /\ trades' = Recorded({j}, {})
    BY <1>8 DEF CrashInClose
  <2>2. \A i \in Ids : trades'[i] = trades[i] + (IF i \in {j} THEN 1 ELSE 0)
    BY <2>1 DEF Recorded
  <2>3. {j} \in SUBSET DOMAIN rows
    OBVIOUS
  <2> QED BY <2>1, <2>2, <2>3, DownHistory
<1>9. CASE Reset \/ \E late \in SUBSET DOMAIN rows : ResetInPass(late)
  BY <1>9, ResetHistory
<1> QED BY <1>2, <1>3, <1>4, <1>5, <1>6, <1>7, <1>8, <1>9 DEF Next

-----------------------------------------------------------------------------
(* The theorems.                                                           *)

LEMMA StepInv == IInv /\ [Next]_vars => IInv'
<1> SUFFICES ASSUME IInv, [Next]_vars PROVE IInv'
  OBVIOUS
<1>1. TypeOK'
  BY TypeStep
<1>2. LevelMap'
  BY LevelMapStep
<1>3. History'
  BY <1>1, HistoryStep
<1> QED BY <1>1, <1>2, <1>3 DEF IInv, LevelMap, History

\* The strengthened invariant holds in every reachable state.
THEOREM Invariance == Spec => []IInv
  BY InitInv, StepInv, PTL DEF Spec

\* Every variable of P3 keeps its type.
THEOREM TypeCorrect == Spec => []TypeOK
<1>1. IInv => TypeOK
  BY DEF IInv
<1> QED BY <1>1, Invariance, PTL

\* While P3 runs, each open row is held by exactly one level, whatever was
\* restored after a restart.
THEOREM EveryRowTracked == Spec => []RowsTracked
<1>1. IInv => RowsTracked
  BY DEF IInv
<1> QED BY <1>1, Invariance, PTL

\* A row opened since P3 started is held by the level it was opened for.
THEOREM RunRowsHeld == Spec => []RunRowsReachable
<1>1. IInv => RunRowsReachable
  BY DEF IInv
<1> QED BY <1>1, Invariance, PTL

\* No position leaves the table without a trade unless a reset deletes it, and a second
\* trade takes a crash.
THEOREM TradesOfEveryRow == Spec => []TradesAccounted
<1>1. IInv => TradesAccounted
  BY DEF IInv
<1> QED BY <1>1, Invariance, PTL

\* The order that a signal takes from the executor is the order of the row it
\* closes: the row is of this run because the signal's level is not synthetic,
\* so the level it was opened for, which is the only one that holds it, knows
\* its order.
LEMMA CloseTakesOwnOrder ==
    ASSUME IInv, NEW m \in Messages, HandleClose(m)
    PROVE  DOMAIN exec \ DOMAIN exec' \subseteq DOMAIN rows \ DOMAIN rows'
<1> DEFINE key == KeyOf(m)
           id  == levelPos[key]
           closed == OrderOfLevel(key) \cap DOMAIN exec
<1>1. /\ key \in DOMAIN levelPos /\ id \in DOMAIN rows /\ up
      /\ exec' = Without(exec, closed) /\ rows' = Without(rows, {id})
  BY DEF HandleClose, Handling
<1>2. id >= bootId
  BY <1>1, MessageType DEF IInv, SignalKeysAreNew
<1>3. /\ OwnKey(id) \in DOMAIN levelPos /\ levelPos[OwnKey(id)] = id
      /\ OwnKey(id) \in DOMAIN levelOrd /\ levelOrd[OwnKey(id)] = id
  BY <1>1, <1>2 DEF IInv, RunRowsReachable, RunOrders
<1>4. OwnKey(id) = key
  BY <1>1, <1>3 DEF IInv, RowsTracked, IsInjective
<1>5. closed \subseteq {id}
  BY <1>3, <1>4 DEF OrderOfLevel
<1> HIDE DEF id, closed
<1> QED BY <1>1, <1>5 DEF Without, Restrict

THEOREM SignalsCloseOwnOrder == Spec => SignalClosesOwnOrder
<1>1. IInv /\ [Next]_vars => [ClosesOwnOrder]_vars
  <2> SUFFICES ASSUME IInv, Next, batch # <<>>, up'
               PROVE  DOMAIN exec \ DOMAIN exec' \subseteq DOMAIN rows \ DOMAIN rows'
    BY DEF ClosesOwnOrder
  <2>1. ASSUME NEW m \in Messages, HandleClose(m)
        PROVE  DOMAIN exec \ DOMAIN exec' \subseteq DOMAIN rows \ DOMAIN rows'
    BY <2>1, CloseTakesOwnOrder
  <2>2. ASSUME NEW m \in Messages, HandleFill(m) PROVE DOMAIN exec \subseteq DOMAIN exec'
    BY <2>2 DEF HandleFill, Bought, Put
  <2>3. ASSUME NEW m \in Messages, Send(m) \/ HandleNothing(m) \/ HandleStaleClose(m)
        PROVE  exec' = exec
    BY <2>3 DEF Send, HandleNothing, HandleStaleClose
  <2>4. ~Drain /\ ~\E hit, late \in SUBSET DOMAIN rows : Monitor(hit, late)
    BY DEF Drain, Monitor
  <2>5. ~Crash /\ ~\E i \in DOMAIN rows : CrashInClose(i)
    BY DEF Crash, CrashInClose, Down
  <2>6. CASE Start
    BY <2>6 DEF Start
  <2>7. ~\E late \in SUBSET DOMAIN rows : ResetInPass(late)
    BY DEF ResetInPass
  <2>8. CASE Reset
    BY <2>8 DEF Reset
  <2> QED BY <2>1, <2>2, <2>3, <2>4, <2>5, <2>6, <2>7, <2>8 DEF Next
<1> QED BY <1>1, Invariance, PTL DEF Spec, SignalClosesOwnOrder

-----------------------------------------------------------------------------
(* The executor has an order for every row, until the first stop of P3.    *)

Covered == OrdersAgree /\ PaperCoversRows

\* The rows and the orders of a symbol are finitely many.
LEMMA FiniteMaps ==
    ASSUME TypeOK, NEW s
    PROVE  /\ IsFiniteSet(DOMAIN rows) /\ IsFiniteSet(DOMAIN exec)
           /\ IsFiniteSet(RowsOf(s)) /\ Cardinality(RowsOf(s)) \in Nat
           /\ IsFiniteSet(OrdersOf(s)) /\ Cardinality(OrdersOf(s)) \in Nat
<1>1. 1 \in Int /\ nextId - 1 \in Int
  BY BoundsAssumption DEF TypeOK
<1>2. IsFiniteSet(1 .. nextId - 1)
  BY <1>1, FS_Interval
<1>3. IsFiniteSet(DOMAIN rows) /\ IsFiniteSet(DOMAIN exec)
  <2>1. DOMAIN rows \in SUBSET (1 .. nextId - 1) /\ DOMAIN exec \in SUBSET (1 .. nextId - 1)
    BY DEF TypeOK
  <2> QED BY <1>2, <2>1, FS_Subset
<1>4. RowsOf(s) \in SUBSET DOMAIN rows /\ OrdersOf(s) \in SUBSET DOMAIN exec
  BY DEF RowsOf, OrdersOf
<1> QED BY <1>3, <1>4, FS_Subset, FS_CardinalityType

\* n closes "by symbol" take at most n orders: the orders taken have different
\* numbers of predecessors, all less than n.
LEMMA FirstOnesAreFew ==
    ASSUME NEW E \in SUBSET Int, IsFiniteSet(E), NEW n \in Nat
    PROVE  Cardinality({o \in E : Cardinality({p \in E : p < o}) < n}) <= n
<1> DEFINE before(o) == {p \in E : p < o}
           first == {o \in E : Cardinality(before(o)) < n}
           rank == [o \in first |-> Cardinality(before(o))]
<1>1. \A o \in E : before(o) \in SUBSET E /\ IsFiniteSet(before(o)) /\ Cardinality(before(o)) \in Nat
  BY FS_Subset, FS_CardinalityType
<1>2. first \in SUBSET E
  OBVIOUS
<1>2a. IsFiniteSet(first) /\ Cardinality(first) \in Nat
  <2> HIDE DEF first
  <2> QED BY <1>2, FS_Subset, FS_CardinalityType
<1>3. ASSUME NEW x \in E, NEW y \in E, x < y PROVE Cardinality(before(x)) # Cardinality(before(y))
  <2>1. before(x) \in SUBSET before(y)
    <3>1. \A p \in E : p \in Int
      OBVIOUS
    <3>2. \A p \in E : p < x => p < y
      BY <1>3, <3>1
    <3> QED BY <3>2
  <2>2. x \in before(y) /\ x \notin before(x)
    BY <1>3
  <2>3. before(x) # before(y)
    BY <2>2
  <2> HIDE DEF before
  <2> QED BY <1>1, <1>3, <2>1, <2>3, FS_Subset
<1>4. SUFFICES ASSUME n < Cardinality(first) PROVE FALSE
  BY <1>2a
<1>5. IsFiniteSet(0 .. n - 1) /\ Cardinality(0 .. n - 1) = n
  <2>1. 0 \in Int /\ n - 1 \in Int
    OBVIOUS
  <2> QED BY <2>1, FS_Interval
<1>6. rank \in [first -> 0 .. n - 1]
  <2>1. \A o \in first : Cardinality(before(o)) \in Nat /\ Cardinality(before(o)) < n
    BY <1>1
  <2> HIDE DEF first, before
  <2> QED BY <2>1
<1>7. \E x, y \in first : x # y /\ rank[x] = rank[y]
  <2> HIDE DEF first, rank
  <2> QED BY <1>2a, <1>4, <1>5, <1>6, FS_PigeonHole
<1>8. PICK x \in first, y \in first : x # y /\ rank[x] = rank[y]
  BY <1>7
<1>9. Cardinality(before(x)) = Cardinality(before(y)) /\ x \in E /\ y \in E
  BY <1>8
<1>10. x \in Int /\ y \in Int /\ (x < y \/ y < x)
  BY <1>8, <1>9
<1> HIDE DEF before
<1> QED BY <1>3, <1>9, <1>10

\* A pass of the monitor takes at most as many orders of a symbol as it has late rows.
LEMMA LateOrdersAreFew ==
    ASSUME IInv, NEW late \in SUBSET DOMAIN rows, NEW s
    PROVE  /\ IsFiniteSet(RowsOf(s) \cap late)
           /\ Cardinality(OrdersOf(s) \cap OldestOrders(late)) <= Cardinality(RowsOf(s) \cap late)
<1> DEFINE n == Cardinality(RowsOf(s) \cap late)
           E == OrdersOf(s)
<1>1. IsFiniteSet(RowsOf(s) \cap late) /\ n \in Nat
  <2>1. RowsOf(s) \cap late \in SUBSET RowsOf(s) /\ IsFiniteSet(RowsOf(s))
    BY FiniteMaps DEF IInv
  <2> QED BY <2>1, FS_Subset, FS_CardinalityType
<1>2. E \in SUBSET Int /\ IsFiniteSet(E)
  <2>1. E \subseteq 1 .. nextId - 1
    BY DEF OrdersOf, IInv, TypeOK
  <2>2. 1 .. nextId - 1 \subseteq Int
    BY BoundsAssumption DEF IInv, TypeOK
  <2> QED BY <2>1, <2>2, FiniteMaps DEF IInv
<1>3. E \cap OldestOrders(late) = {o \in E : Cardinality({p \in E : p < o}) < n}
  <2>1. \A o \in E : {p \in DOMAIN exec : exec[p] = exec[o] /\ p < o} = {p \in E : p < o}
    BY DEF OrdersOf
  <2>2. \A o \in E : {i \in late : rows[i].sym = exec[o]} = RowsOf(s) \cap late
    BY DEF OrdersOf, RowsOf
  <2>3. \A o \in E : o \in DOMAIN exec
    BY DEF OrdersOf
  <2> QED BY <2>1, <2>2, <2>3 DEF OldestOrders
<1> HIDE DEF n, E
<1>4. Cardinality(E \cap OldestOrders(late)) <= n
  BY <1>1, <1>2, <1>3, FirstOnesAreFew
<1> QED BY <1>1, <1>4 DEF n, E

\* A pass of the monitor that removes the rows A, the late ones among them.
LEMMA MonitorCovered ==
    ASSUME IInv, Covered, NEW hit \in SUBSET DOMAIN rows, NEW late \in SUBSET DOMAIN rows,
           Monitor(hit, late)
    PROVE  Covered'
<1> DEFINE A == Gone \cup hit \cup late
           closed == OldestOrders(late)
<1>1. rows' = Without(rows, A) /\ exec' = Without(exec, closed) /\ crashes' = crashes
      /\ late \subseteq A
  BY DEF Monitor
<1>2. OrdersAgree'
  BY <1>1 DEF Covered, OrdersAgree, Without, Restrict
<1>3. PaperCoversRows'
  <2> SUFFICES ASSUME crashes = 0, NEW s \in Symbols
               PROVE  Cardinality(RowsOf(s)') <= Cardinality(OrdersOf(s)')
    BY <1>1 DEF PaperCoversRows
  <2>1. RowsOf(s)' = RowsOf(s) \ A /\ OrdersOf(s)' = OrdersOf(s) \ closed
    BY <1>1 DEF RowsOf, OrdersOf, Without, Restrict
  <2>2. /\ IsFiniteSet(RowsOf(s)) /\ Cardinality(RowsOf(s)) \in Nat
        /\ IsFiniteSet(OrdersOf(s)) /\ Cardinality(OrdersOf(s)) \in Nat
    BY FiniteMaps DEF IInv
  <2>3. Cardinality(OrdersOf(s) \ closed)
            = Cardinality(OrdersOf(s)) - Cardinality(OrdersOf(s) \cap closed)
    BY <2>2, FS_Difference
  <2>4. Cardinality(RowsOf(s) \ A) = Cardinality(RowsOf(s)) - Cardinality(RowsOf(s) \cap A)
    BY <2>2, FS_Difference
  <2>5. IsFiniteSet(RowsOf(s) \cap A) /\ Cardinality(RowsOf(s) \cap A) \in Nat
        /\ Cardinality(RowsOf(s) \cap late) <= Cardinality(RowsOf(s) \cap A)
        /\ Cardinality(RowsOf(s) \cap late) \in Nat
    <3>1. RowsOf(s) \cap A \in SUBSET RowsOf(s) /\ RowsOf(s) \cap late \in SUBSET (RowsOf(s) \cap A)
      BY <1>1
    <3> HIDE DEF A
    <3> QED BY <2>2, <3>1, FS_Subset, FS_CardinalityType
  <2>6. Cardinality(OrdersOf(s) \cap closed) <= Cardinality(RowsOf(s) \cap late)
    BY LateOrdersAreFew
  <2>7. Cardinality(OrdersOf(s) \cap closed) \in Nat
    <3>1. OrdersOf(s) \cap closed \in SUBSET OrdersOf(s)
      OBVIOUS
    <3> QED BY <2>2, <3>1, FS_Subset, FS_CardinalityType
  <2>8. Cardinality(RowsOf(s)) <= Cardinality(OrdersOf(s))
    BY DEF Covered, PaperCoversRows
  <2> HIDE DEF A, closed
  <2> QED BY <2>1, <2>2, <2>3, <2>4, <2>5, <2>6, <2>7, <2>8
<1> QED BY <1>2, <1>3 DEF Covered

\* A signal that closes a row takes no other order, so the symbol loses no more orders
\* than rows.
LEMMA CloseCovered ==
    ASSUME IInv, Covered, NEW m \in Messages, HandleClose(m)
    PROVE  Covered'
<1> DEFINE id == levelPos[KeyOf(m)]
           closed == OrderOfLevel(KeyOf(m)) \cap DOMAIN exec
<1>1. /\ id \in DOMAIN rows /\ closed \subseteq DOMAIN exec
      /\ rows' = Without(rows, {id}) /\ exec' = Without(exec, closed) /\ crashes' = crashes
  BY DEF HandleClose, Handling
<1> HIDE DEF id, closed
<1>2. closed \subseteq {id}
  BY <1>1, CloseTakesOwnOrder DEF Without, Restrict
<1>3. OrdersAgree'
  BY <1>1 DEF Covered, OrdersAgree, Without, Restrict
<1>4. PaperCoversRows'
  <2> SUFFICES ASSUME crashes = 0, NEW s \in Symbols
               PROVE  Cardinality(RowsOf(s)') <= Cardinality(OrdersOf(s)')
    BY <1>1 DEF PaperCoversRows
  <2>1. RowsOf(s)' = RowsOf(s) \ {id} /\ OrdersOf(s)' = OrdersOf(s) \ closed
    BY <1>1 DEF RowsOf, OrdersOf, Without, Restrict
  <2>2. /\ IsFiniteSet(RowsOf(s)) /\ Cardinality(RowsOf(s)) \in Nat
        /\ IsFiniteSet(OrdersOf(s)) /\ Cardinality(OrdersOf(s)) \in Nat
    BY FiniteMaps DEF IInv
  <2>3. Cardinality(RowsOf(s)) <= Cardinality(OrdersOf(s))
    BY DEF Covered, PaperCoversRows
  <2>4. id \in OrdersOf(s) /\ id \in DOMAIN rows => id \in RowsOf(s)
    BY <1>1 DEF Covered, OrdersAgree, OrdersOf, RowsOf
  <2>5. CASE OrdersOf(s) \cap closed = {}
    <3>1. OrdersOf(s)' = OrdersOf(s)
      BY <2>1, <2>5
    <3>2. RowsOf(s) \ {id} \in SUBSET RowsOf(s)
      OBVIOUS
    <3>3. Cardinality(RowsOf(s) \ {id}) <= Cardinality(RowsOf(s))
          /\ Cardinality(RowsOf(s) \ {id}) \in Nat
      BY <2>2, <3>2, FS_Subset, FS_CardinalityType
    <3> QED BY <2>1, <2>2, <2>3, <3>1, <3>3
  <2>6. CASE OrdersOf(s) \cap closed # {}
    <3>1. id \in OrdersOf(s) /\ OrdersOf(s)' = OrdersOf(s) \ {id}
      BY <1>2, <2>1, <2>6
    <3>2. Cardinality(OrdersOf(s) \ {id}) = Cardinality(OrdersOf(s)) - 1
      BY <2>2, <3>1, FS_RemoveElement
    <3>3. id \in RowsOf(s)
      BY <1>1, <2>4, <3>1
    <3>4. Cardinality(RowsOf(s) \ {id}) = Cardinality(RowsOf(s)) - 1
      BY <2>2, <3>3, FS_RemoveElement
    <3> QED BY <2>1, <2>2, <2>3, <3>1, <3>2, <3>4
  <2> QED BY <2>5, <2>6
<1> QED BY <1>3, <1>4 DEF Covered

\* A new position is a row and an order of one symbol.
LEMMA FillCovered ==
    ASSUME IInv, Covered, NEW m \in Messages, HandleFill(m)
    PROVE  Covered'
<1>1. /\ rows' = Put(rows, nextId, [sym |-> m.sym, lvl |-> m.lvl])
      /\ exec' = Put(exec, nextId, m.sym) /\ crashes' = crashes
  BY DEF HandleFill, Handling, Bought
<1>2. nextId \notin DOMAIN rows /\ nextId \notin DOMAIN exec
  BY BoundsAssumption DEF IInv, TypeOK
<1>3. OrdersAgree'
  BY <1>1, <1>2 DEF Covered, OrdersAgree, Put
<1>4. PaperCoversRows'
  <2> SUFFICES ASSUME crashes = 0, NEW s \in Symbols
               PROVE  Cardinality(RowsOf(s)') <= Cardinality(OrdersOf(s)')
    BY <1>1 DEF PaperCoversRows
  <2>1. /\ IsFiniteSet(RowsOf(s)) /\ Cardinality(RowsOf(s)) \in Nat
        /\ IsFiniteSet(OrdersOf(s)) /\ Cardinality(OrdersOf(s)) \in Nat
    BY FiniteMaps DEF IInv
  <2>2. Cardinality(RowsOf(s)) <= Cardinality(OrdersOf(s))
    BY DEF Covered, PaperCoversRows
  <2>3. nextId \notin RowsOf(s) /\ nextId \notin OrdersOf(s)
    BY <1>2 DEF RowsOf, OrdersOf
  <2>4. CASE s = m.sym
    <3>1. RowsOf(s)' = RowsOf(s) \cup {nextId} /\ OrdersOf(s)' = OrdersOf(s) \cup {nextId}
      BY <1>1, <1>2, <2>4 DEF RowsOf, OrdersOf, Put
    <3>2. Cardinality(RowsOf(s) \cup {nextId}) = Cardinality(RowsOf(s)) + 1
      BY <2>1, <2>3, FS_AddElement
    <3>3. Cardinality(OrdersOf(s) \cup {nextId}) = Cardinality(OrdersOf(s)) + 1
      BY <2>1, <2>3, FS_AddElement
    <3> QED BY <2>1, <2>2, <3>1, <3>2, <3>3
  <2>5. CASE s # m.sym
    <3>1. RowsOf(s)' = RowsOf(s) /\ OrdersOf(s)' = OrdersOf(s)
      BY <1>1, <1>2, <2>5 DEF RowsOf, OrdersOf, Put
    <3> QED BY <2>2, <3>1
  <2> QED BY <2>4, <2>5
<1> QED BY <1>3, <1>4 DEF Covered

LEMMA CoveredStep ==
    ASSUME IInv, IInv', Covered, [Next]_vars
    PROVE  Covered'
<1>1. ASSUME UNCHANGED <<rows, exec, crashes>> PROVE Covered'
  BY <1>1 DEF Covered, OrdersAgree, PaperCoversRows, RowsOf, OrdersOf
<1>2. CASE UNCHANGED vars \/ Drain \/ Start \/ \E m \in Messages : Send(m)
  BY <1>1, <1>2 DEF vars, Drain, Start, Send
<1>3. ASSUME NEW m \in Messages, HandleNothing(m) \/ HandleStaleClose(m) PROVE Covered'
  BY <1>1, <1>3 DEF HandleNothing, HandleStaleClose, Handling
<1>4. ASSUME NEW m \in Messages, HandleFill(m) PROVE Covered'
  BY <1>4, FillCovered
<1>5. ASSUME NEW m \in Messages, HandleClose(m) PROVE Covered'
  BY <1>5, CloseCovered
<1>6. ASSUME NEW hit \in SUBSET DOMAIN rows, NEW late \in SUBSET DOMAIN rows, Monitor(hit, late)
      PROVE  Covered'
  BY <1>6, MonitorCovered
<1>7. CASE Reset \/ \E late \in SUBSET DOMAIN rows : ResetInPass(late)
  <2>1. DOMAIN rows' = {}
    BY <1>7, EmptyMap DEF Reset, ResetInPass, Wipe
  <2>2. \A s \in Symbols : OrdersOf(s)' \in SUBSET OrdersOf(s)
    BY <1>7 DEF Reset, ResetInPass, OrdersOf, Without, Restrict
  <2>3. \A s \in Symbols : Cardinality(OrdersOf(s)') \in Nat
    BY <2>2, FiniteMaps, FS_Subset, FS_CardinalityType DEF IInv
  <2>4. \A s \in Symbols : RowsOf(s)' = {}
    BY <2>1 DEF RowsOf
  <2>5. Cardinality({}) = 0
    BY FS_EmptySet
  <2>6. PaperCoversRows'
    BY <2>3, <2>4, <2>5 DEF PaperCoversRows
  <2> QED BY <2>1, <2>6 DEF Covered, OrdersAgree
<1>8. CASE Crash \/ \E i \in DOMAIN rows : CrashInClose(i)
  <2>1. crashes' = crashes + 1 /\ DOMAIN exec' = {}
    BY <1>8, EmptyMap DEF Crash, CrashInClose, Down
  <2>2. crashes' # 0
    <3>1. crashes \in 0 .. MaxCrashes /\ MaxCrashes \in Nat
      BY BoundsAssumption DEF IInv, TypeOK
    <3> QED BY ONLY <2>1, <3>1
  <2> QED BY <2>1, <2>2 DEF Covered, OrdersAgree, PaperCoversRows
<1> QED BY <1>2, <1>3, <1>4, <1>5, <1>6, <1>7, <1>8 DEF Next

\* Until P3 stops for the first time, the executor has an order for every row of a
\* symbol, whatever is closed by level, by price or "by symbol".
THEOREM ExecutorCoversRows == Spec => []PaperCoversRows
<1>1. Init => Covered
  <2> SUFFICES ASSUME Init PROVE Covered
    OBVIOUS
  <2>1. DOMAIN rows = {} /\ DOMAIN exec = {}
    BY EmptyMap DEF Init
  <2>2. \A s \in Symbols : RowsOf(s) = {} /\ OrdersOf(s) = {}
    BY <2>1 DEF RowsOf, OrdersOf
  <2>3. Cardinality({}) = 0
    BY FS_EmptySet
  <2> QED BY <2>1, <2>2, <2>3 DEF Covered, OrdersAgree, PaperCoversRows
<1>2. IInv /\ IInv' /\ Covered /\ [Next]_vars => Covered'
  BY CoveredStep
<1>3. Covered => PaperCoversRows
  BY DEF Covered
<1> QED BY <1>1, <1>2, <1>3, Invariance, PTL DEF Spec

-----------------------------------------------------------------------------
(* PaperGrid implements PositionBook: a signal opens a position or closes    *)
(* one, a pass of the monitor closes several at once, a reset of the GUI     *)
(* wipes the book and a death of P3 is a restart that closes nothing.        *)

\* What of the variables of PositionBook a state with IInv makes.
LEMMA BookState ==
    ASSUME IInv
    PROVE  /\ DOMAIN rows \subseteq wiped + 1 .. nextId - 1
           /\ wiped \in Nat /\ nextId \in Nat \ {0} /\ wiped < nextId /\ crashes \in Nat
           /\ nextId - 1 <= MaxOpens /\ MaxOpens \in Nat /\ wiped + 1 .. nextId - 1 \subseteq Ids
           /\ \A i \in Ids : trades[i] \in Nat
<1>1. /\ wiped \in Nat /\ nextId \in Nat \ {0} /\ wiped < nextId /\ crashes \in Nat
      /\ nextId - 1 <= MaxOpens /\ MaxOpens \in Nat /\ DOMAIN rows \subseteq 1 .. nextId - 1
  BY BoundsAssumption DEF IInv, TypeOK
<1>2. \A i \in DOMAIN rows : i > wiped
  BY <1>1 DEF IInv, TradesAccounted
<1>3. \A i \in Ids : trades[i] \in Nat
  BY BoundsAssumption DEF IInv, TypeOK
<1> QED BY <1>1, <1>2, <1>3 DEF Ids

LEMMA BookInit == Init => Book!Init
<1> SUFFICES ASSUME Init PROVE Book!Init
  OBVIOUS
<1>1. DOMAIN rows = {} /\ wiped = 0 /\ nextId = 1 /\ crashes = 0
  BY EmptyMap DEF Init
<1>2. (wiped + 1 .. nextId - 1) = {} /\ 1 .. wiped = {}
  BY <1>1
<1> QED BY <1>1, <1>2 DEF Init, Book!Init

\* Steps that touch neither the tables nor the history.
LEMMA BookStutters ==
    ASSUME UNCHANGED <<rows, nextId, crashes, wiped, trades>>
    PROVE  UNCHANGED Book!vars
  BY DEF Book!vars

LEMMA FillOpens ==
    ASSUME IInv, NEW m \in Messages, HandleFill(m)
    PROVE  Book!Open(nextId) /\ nextId \in Ids
<1>1. /\ rows' = Put(rows, nextId, [sym |-> m.sym, lvl |-> m.lvl])
      /\ nextId <= MaxOpens /\ nextId' = nextId + 1
      /\ UNCHANGED <<crashes, wiped, trades>>
  BY DEF HandleFill, Handling
<1>2. nextId \in Ids
  BY <1>1, BookState DEF Ids
<1>3. DOMAIN rows' = DOMAIN rows \cup {nextId}
  BY <1>1 DEF Put
<1>4. nextId \in Book!New
  BY <1>2, BookState DEF Book!New
<1>5. (wiped' + 1 .. nextId' - 1) \ DOMAIN rows' = (wiped + 1 .. nextId - 1) \ DOMAIN rows
  BY <1>1, <1>3, BookState
<1> QED BY <1>1, <1>2, <1>3, <1>4, <1>5 DEF Book!Open

\* Rows that leave the table, each with a trade.
LEMMA RowsClose ==
    ASSUME IInv, NEW S \in SUBSET DOMAIN rows, S # {},
           rows' = Without(rows, S), trades' = [i \in Ids |-> trades[i] + (IF i \in S THEN 1 ELSE 0)],
           UNCHANGED <<nextId, crashes, wiped>>
    PROVE  Book!Close(S)
<1>1. DOMAIN rows' = DOMAIN rows \ S
  BY DEF Without, Restrict
<1>2. (wiped' + 1 .. nextId' - 1) \ DOMAIN rows' = ((wiped + 1 .. nextId - 1) \ DOMAIN rows) \cup S
  BY <1>1, BookState
<1>3. Book!Record(S)
  BY DEF Book!Record
<1> QED BY <1>1, <1>2, <1>3 DEF Book!Close

LEMMA MonitorCloses ==
    ASSUME IInv, NEW hit \in SUBSET DOMAIN rows, NEW late \in SUBSET DOMAIN rows,
           Monitor(hit, late)
    PROVE  \E S \in SUBSET DOMAIN rows : Book!Close(S)
<1> DEFINE S == Gone \cup hit \cup late
<1>1. /\ S # {} /\ rows' = Without(rows, S) /\ UNCHANGED <<nextId, crashes, wiped>>
      /\ trades' = [i \in Ids |-> trades[i] + (IF i \in S THEN 1 ELSE 0)]
  BY DEF Monitor, Recorded
<1>2. S \in SUBSET DOMAIN rows
  BY DEF Gone
<1> HIDE DEF S
<1>3. Book!Close(S)
  BY <1>1, <1>2, RowsClose
<1> QED BY <1>2, <1>3

LEMMA SignalCloses ==
    ASSUME IInv, NEW m \in Messages, HandleClose(m)
    PROVE  \E S \in SUBSET DOMAIN rows : Book!Close(S)
<1> DEFINE S == {levelPos[KeyOf(m)]}
<1>1. /\ S # {} /\ S \in SUBSET DOMAIN rows /\ rows' = Without(rows, S)
      /\ UNCHANGED <<nextId, crashes, wiped>>
      /\ trades' = [i \in Ids |-> trades[i] + (IF i \in S THEN 1 ELSE 0)]
  BY DEF HandleClose, Handling, Recorded
<1> HIDE DEF S
<1> QED BY <1>1, RowsClose

\* A reset wipes the book, and late tells which trades the pass under way still writes.
LEMMA ResetWipes ==
    ASSUME IInv, NEW late \in SUBSET DOMAIN rows, Wipe, UNCHANGED <<nextId, crashes>>,
           trades' = [i \in Ids |-> IF i \in late THEN 1 ELSE 0]
    PROVE  Book!Wipe
<1>1. DOMAIN rows' = {} /\ wiped = 0 /\ wiped' = nextId - 1
  BY EmptyMap DEF Wipe
<1>2. (wiped' + 1 .. nextId' - 1) \ DOMAIN rows' = {}
  BY <1>1, BookState
<1>3. 1 .. wiped' = (1 .. wiped) \cup DOMAIN rows \cup ((wiped + 1 .. nextId - 1) \ DOMAIN rows)
  BY <1>1, BookState
<1>4. trades' \in [Ids -> 0 .. 1] /\ \A t \in Ids \ DOMAIN rows : trades'[t] = 0
  OBVIOUS
<1> QED BY <1>1, <1>2, <1>3, <1>4 DEF Book!Wipe

LEMMA ResetsWipe ==
    ASSUME IInv, Reset \/ \E late \in SUBSET DOMAIN rows : ResetInPass(late)
    PROVE  Book!Wipe
<1>1. CASE Reset
  <2>1. trades' = [i \in Ids |-> IF i \in {} THEN 1 ELSE 0]
    BY <1>1 DEF Reset
  <2>2. Wipe /\ UNCHANGED <<nextId, crashes>> /\ {} \in SUBSET DOMAIN rows
    BY <1>1 DEF Reset
  <2> QED BY <2>1, <2>2, ResetWipes
<1>2. ASSUME NEW late \in SUBSET DOMAIN rows, ResetInPass(late) PROVE Book!Wipe
  BY <1>2, ResetWipes DEF ResetInPass
<1> QED BY <1>1, <1>2

\* P3 dies: the trade of one row may be there already (B).
LEMMA DownRestarts ==
    ASSUME IInv, IInv', Down, NEW B \in SUBSET DOMAIN rows,
           trades' = [i \in Ids |-> trades[i] + (IF i \in B THEN 1 ELSE 0)]
    PROVE  Book!Restart(B)
<1>1. crashes' = crashes + 1 /\ UNCHANGED <<rows, nextId, wiped>>
  BY DEF Down
<1> QED BY <1>1 DEF Book!Restart, Book!Record

LEMMA DownsRestart ==
    ASSUME IInv, IInv', Crash \/ \E i \in DOMAIN rows : CrashInClose(i)
    PROVE  \E B \in {{}} \cup {{t} : t \in DOMAIN rows} : Book!Restart(B)
<1>1. CASE Crash
  <2>1. trades' = [i \in Ids |-> trades[i] + (IF i \in {} THEN 1 ELSE 0)]
    <3>1. trades \in [Ids -> 0 .. MaxCrashes + 1] /\ trades' = trades
      BY <1>1 DEF Crash, IInv, TypeOK
    <3>2. \A i \in Ids : trades[i] = trades[i] + (IF i \in {} THEN 1 ELSE 0)
      BY BookState
    <3> QED BY <3>1, <3>2
  <2>2. Book!Restart({})
    BY <1>1, <2>1, DownRestarts DEF Crash
  <2> QED BY <2>2
<1>2. ASSUME NEW i \in DOMAIN rows, CrashInClose(i)
      PROVE  \E B \in {{}} \cup {{t} : t \in DOMAIN rows} : Book!Restart(B)
  <2>1. Down /\ trades' = [j \in Ids |-> trades[j] + (IF j \in {i} THEN 1 ELSE 0)]
    BY <1>2 DEF CrashInClose, Recorded
  <2>2. Book!Restart({i})
    BY <2>1, DownRestarts
  <2> QED BY <2>2
<1> QED BY <1>1, <1>2

LEMMA BookStep == IInv /\ IInv' /\ [Next]_vars => [Book!Next]_(Book!vars)
<1> SUFFICES ASSUME IInv, IInv', [Next]_vars PROVE [Book!Next]_(Book!vars)
  OBVIOUS
<1>1. CASE UNCHANGED vars \/ Drain \/ Start \/ \E m \in Messages : Send(m)
  BY <1>1, BookStutters DEF vars, Drain, Start, Send
<1>2. ASSUME NEW m \in Messages, HandleNothing(m) \/ HandleStaleClose(m)
      PROVE  UNCHANGED Book!vars
  BY <1>2, BookStutters DEF HandleNothing, HandleStaleClose, Handling
<1>3. ASSUME NEW m \in Messages, HandleFill(m) PROVE Book!Next
  BY <1>3, FillOpens DEF Book!Next
<1>4. ASSUME NEW m \in Messages, HandleClose(m) PROVE Book!Next
  BY <1>4, SignalCloses DEF Book!Next
<1>5. ASSUME NEW hit \in SUBSET DOMAIN rows, NEW late \in SUBSET DOMAIN rows, Monitor(hit, late)
      PROVE  Book!Next
  BY <1>5, MonitorCloses DEF Book!Next
<1>6. CASE Reset \/ \E late \in SUBSET DOMAIN rows : ResetInPass(late)
  BY <1>6, ResetsWipe DEF Book!Next
<1>7. CASE Crash \/ \E i \in DOMAIN rows : CrashInClose(i)
  BY <1>7, DownsRestart DEF Book!Next
<1> QED BY <1>1, <1>2, <1>3, <1>4, <1>5, <1>6, <1>7 DEF Next

\* Whatever signals, passes of the monitor, resets and deaths of P3 do to the tables
\* positions and trades, they do what PositionBook allows (position_tracker.py, db.py).
THEOREM ImplementsBook == Spec => KeepsBook
  BY BookInit, BookStep, Invariance, PTL DEF Spec, KeepsBook, Book!Spec

BookProofs == INSTANCE PositionBook_proofs WITH
    Tickets <- Ids,
    open <- DOMAIN rows,
    closed <- (wiped + 1 .. nextId - 1) \ DOMAIN rows,
    wiped <- 1 .. wiped,
    writing <- {},
    again <- {},
    restarts <- crashes

\* What PositionBook promises of a book that is kept so, holds of these tables.
THEOREM BookIsKept == Spec => []Book!Booked
<1>1. KeepsBook => BookProofs!Spec
  <2>1. Book!Init => BookProofs!Init
    BY DEF Book!Init, BookProofs!Init
  <2>2. [Book!Next]_(Book!vars) => [BookProofs!Next]_(BookProofs!vars)
    <3>1. Book!New = BookProofs!New
      BY DEF Book!New, BookProofs!New
    <3>2. Book!vars = BookProofs!vars /\ Book!vars' = BookProofs!vars'
      BY DEF Book!vars, BookProofs!vars
    <3>3. ASSUME NEW t \in Ids
          PROVE  (Book!Open(t) => BookProofs!Open(t)) /\ (Book!Write(t) => BookProofs!Write(t))
      BY DEF Book!Open, BookProofs!Open, Book!New, BookProofs!New, Book!Write, BookProofs!Write,
             Book!Record, BookProofs!Record
    <3>4. Book!Remove => BookProofs!Remove
      BY DEF Book!Remove, BookProofs!Remove
    <3>5. Book!Wipe => BookProofs!Wipe
      BY DEF Book!Wipe, BookProofs!Wipe
    <3>6. ASSUME NEW S PROVE Book!Close(S) => BookProofs!Close(S)
      BY DEF Book!Close, BookProofs!Close, Book!Record, BookProofs!Record
    <3>7. ASSUME NEW B PROVE Book!Restart(B) => BookProofs!Restart(B)
      BY DEF Book!Restart, BookProofs!Restart, Book!Record, BookProofs!Record
    <3>8. ASSUME NEW t \in Ids PROVE Book!Repeat(t) => BookProofs!Repeat(t)
      BY DEF Book!Repeat, BookProofs!Repeat, Book!Record, BookProofs!Record
    <3>9. Book!Settle => BookProofs!Settle
      BY DEF Book!Settle, BookProofs!Settle
    <3> QED BY <3>1, <3>2, <3>3, <3>4, <3>5, <3>6, <3>7, <3>8, <3>9 DEF Book!Next, BookProofs!Next
  <2> QED BY <2>1, <2>2, PTL DEF KeepsBook, Book!Spec, BookProofs!Spec
<1>2. BookProofs!Spec => []BookProofs!Booked
  BY BookProofs!BooksAreKept
<1>3. BookProofs!Booked <=> Book!Booked
  BY DEF Book!Booked, BookProofs!Booked, Book!New, BookProofs!New
<1> QED BY <1>1, <1>2, <1>3, ImplementsBook, PTL

=============================================================================
