--------------------------- MODULE GridLevels_proofs ---------------------------
(* Safety of P2's grid, for all sets of symbols, level counts, limits and   *)
(* capacities: it is well-typed, a position P3 holds is answered, the limits *)
(* of the configuration are kept, and the strategy implements LevelDeals.    *)
EXTENDS GridLevels, SequenceTheorems, FiniteSetTheorems, TLAPS

-----------------------------------------------------------------------------
(* The operators.                                                           *)

LEMMA IndicesAreInts == Indices \subseteq Int
BY GridAssumption DEF Indices

LEMMA GridIs == \A g : g \in Grid <=> DOMAIN g \subseteq Indices /\ g \in [DOMAIN g -> Statuses]
<1>1. ASSUME NEW g, g \in Grid
      PROVE  DOMAIN g \subseteq Indices /\ g \in [DOMAIN g -> Statuses]
  <2>1. PICK I \in SUBSET Indices : g \in [I -> Statuses]
    BY <1>1 DEF Grid
  <2> QED
    BY <2>1
<1>2. ASSUME NEW g, DOMAIN g \subseteq Indices, g \in [DOMAIN g -> Statuses]
      PROVE  g \in Grid
  BY <1>2 DEF Grid
<1> QED
  BY <1>1, <1>2

\* Putting and taking away.
LEMMA PutIs ==
    ASSUME NEW f, NEW k, NEW v
    PROVE  /\ DOMAIN Put(f, k, v) = DOMAIN f \cup {k}
           /\ Put(f, k, v)[k] = v
           /\ \A x \in DOMAIN f \ {k} : Put(f, k, v)[x] = f[x]
           /\ \A x \in DOMAIN f \cup {k} : Put(f, k, v)[x] = IF x = k THEN v ELSE f[x]
BY DEF Put

LEMMA WithoutIs ==
    ASSUME NEW f, NEW k
    PROVE  /\ DOMAIN Without(f, k) = DOMAIN f \ {k}
           /\ \A x \in DOMAIN f \ {k} : Without(f, k)[x] = f[x]
BY DEF Without

LEMMA ClosesIs ==
    \A M, x : x \in Closes(M) <=> \E m \in M : m.act \in Closing /\ m.slot = x
BY DEF Closes

LEMMA OpenSlotsIs ==
    ASSUME NEW G, NEW s \in Symbols, NEW i \in Indices
    PROVE  <<s, i>> \in OpenSlots(G) <=> s \in DOMAIN G /\ i \in OpenIn(G[s])
BY DEF OpenSlots, Slots

\* The levels a new grid has are levels, and all are pending.
LEMMA NewGridsArePending ==
    ASSUME NEW g \in NewGrids
    PROVE  g \in Grid /\ OpenIn(g) = {}
<1>1. PICK n \in LevelCounts, shift \in Shifts :
        g = [i \in (-NumBuy(n, shift) .. n - NumBuy(n, shift)) \ {0} |-> "PENDING"]
  BY DEF NewGrids
<1>2. n \in Nat \ {0} /\ shift \in Int
  BY GridAssumption DEF Shifts
<1>3. NumBuy(n, shift) \in 1 .. n
  <2> DEFINE half == n \div 2 + shift + LongBias
             most == IF half < n - 1 THEN half ELSE n - 1
  <2>1. half \in Int
    BY <1>2, GridAssumption
  <2> HIDE DEF half
  <2>2. most \in Int /\ most <= n - 1
    BY <1>2, <2>1
  <2>3. NumBuy(n, shift) = IF most < 1 THEN 1 ELSE most
    BY DEF NumBuy, half
  <2> HIDE DEF most
  <2> QED
    BY <1>2, <2>2, <2>3
<1>4. DOMAIN g \subseteq (-n .. n) \ {0}
  BY <1>1, <1>2, <1>3
<1>5. DOMAIN g \subseteq Indices
  BY <1>4 DEF Indices
<1>6. g \in [DOMAIN g -> Statuses] /\ OpenIn(g) = {}
  BY <1>1 DEF Statuses, OpenIn
<1> QED
  BY <1>5, <1>6, GridIs

\* An evaluation works on the grid that is there, or on a new one.
LEMMA EvaluatedIs ==
    ASSUME NEW s \in Symbols, \A t \in DOMAIN grids : grids[t] \in Grid, NEW e \in Evaluated(s)
    PROVE  /\ e.grid \in Grid
           /\ s \in DOMAIN grids => e.grid = grids[s]
           /\ s \in DOMAIN grids => e.out = {}
           /\ s \notin DOMAIN grids => MayCreate /\ OpenIn(e.grid) = {} /\ e.out = Notes(s, {"SETUP"})
<1>1. CASE s \in DOMAIN grids
  BY <1>1 DEF Evaluated
<1>2. CASE s \notin DOMAIN grids
  <2>1. MayCreate /\ e \in [grid : NewGrids, out : {Notes(s, {"SETUP"})}]
    BY <1>2 DEF Evaluated
  <2> QED
    BY <1>2, <2>1, NewGridsArePending
<1> QED
  BY <1>1, <1>2
LEMMA NotesAre ==
    ASSUME NEW s \in Symbols
    PROVE  /\ \A m \in Notes(s, {"SETUP"}) : m \in Messages /\ m.act \notin Closing /\ m.act # "FILL"
           /\ \A m \in Notes(s, {"RECENTER", "SETUP"}) : m \in Messages /\ m.act \notin Closing /\ m.act # "FILL"
BY DEF Notes, Messages, Closing

LEMMA AboutIs ==
    ASSUME NEW s \in Symbols, NEW act \in {"FILL", "TP_HIT", "CLOSE_ALL"}, NEW I \in SUBSET Indices
    PROVE  /\ About(s, act, I) \subseteq Messages
           /\ \A m \in About(s, act, I) : m.act = act /\ \E i \in I : m.slot = <<s, i>>
           /\ \A i \in I : [act |-> act, slot |-> <<s, i>>] \in About(s, act, I)
<1>1. \A i \in I : <<s, i>> \in Slots
  BY DEF Slots
<1>2. About(s, act, I) = [act : {act}, slot : {s} \X I]
  BY DEF About
<1>3. \A m \in About(s, act, I) : m.act = act /\ \E i \in I : m.slot = <<s, i>>
  BY <1>2
<1>4. {s} \X I \subseteq Slots
  BY DEF Slots
<1>5. About(s, act, I) \subseteq [act : {"FILL", "TP_HIT", "CLOSE_ALL"}, slot : Slots]
  BY <1>2, <1>4
<1> QED
  BY <1>2, <1>3, <1>5 DEF Messages

-----------------------------------------------------------------------------
(* One evaluation.                                                          *)

\* What is saved is what the grid is, unless it is being saved.
Synced ==
    /\ \A s \in DOMAIN saved : s \notin DOMAIN saving => s \in DOMAIN grids /\ saved[s] = grids[s]
    /\ \A s \in DOMAIN saving :
          /\ saving[s] = "levels" =>
                s \in DOMAIN saved /\ s \in DOMAIN grids /\ DOMAIN saved[s] = DOMAIN grids[s]
          /\ saving[s] = "rows" => s \in DOMAIN grids

\* The grids, as TypeOK has them.
GridsTyped == DOMAIN grids \subseteq Symbols /\ \A s \in DOMAIN grids : grids[s] \in Grid

\* What an evaluation does, whatever it finds: the types are kept; an open level it
\* gives up gets a close; a level it fills is open or closed at once; and a grid
\* it does not save has not changed.
Sound ==
    /\ GridsTyped'
    /\ DOMAIN saving' \subseteq Symbols /\ saving' \in [DOMAIN saving' -> {"levels", "grid", "rows"}]
    /\ outbox' \subseteq Messages
    /\ \A x \in OpenSlots(grids) : x \in OpenSlots(grids') \/ x \in Closes(outbox')
    /\ \A m \in outbox' : m.act = "FILL" => m.slot \in OpenSlots(grids') \/ m.slot \in Closes(outbox')
    /\ \A t \in DOMAIN grids : t \notin DOMAIN saving' => t \in DOMAIN grids' /\ grids'[t] = grids[t]
    /\ \A t \in DOMAIN saving' :
          /\ saving'[t] = "levels" =>
                t \in DOMAIN saved /\ t \in DOMAIN grids' /\ DOMAIN grids'[t] = DOMAIN grids[t]
          /\ saving'[t] # "rows"

\* The open slots, when the grid of s is replaced.
LEMMA OpenAfterPut ==
    ASSUME NEW G, NEW s \in Symbols, NEW g,
           s \in DOMAIN G => \A i \in OpenIn(G[s]) : i \in OpenIn(g),
           NEW x \in OpenSlots(G)
    PROVE  x \in OpenSlots(Put(G, s, g))
<1>1. PICK t \in Symbols, i \in Indices : x = <<t, i>>
  BY DEF OpenSlots, Slots
<1>2. t \in DOMAIN G /\ i \in OpenIn(G[t])
  BY <1>1, OpenSlotsIs
<1>3. t \in DOMAIN Put(G, s, g) /\ i \in OpenIn(Put(G, s, g)[t])
  <2>1. CASE t = s
    BY <1>2, <2>1 DEF Put
  <2>2. CASE t # s
    BY <1>2, <2>2 DEF Put
  <2> QED
    BY <2>1, <2>2
<1> QED
  BY <1>1, <1>3, OpenSlotsIs

LEMMA RecenterIsSound ==
    ASSUME GridsTyped, Idle, NEW s \in Symbols, Recenter(s)
    PROVE  Sound
<1>1. PICK e \in Evaluated(s), g \in NewGrids :
        /\ grids' = Put(grids, s, [i \in Kept(e.grid) \cup DOMAIN g |->
                                      IF i \in Kept(e.grid) THEN e.grid[i] ELSE g[i]])
        /\ saving' = Put(saving, s, "grid")
        /\ outbox' = e.out \cup Notes(s, {"RECENTER", "SETUP"})
  BY DEF Recenter
<1> DEFINE h == [i \in Kept(e.grid) \cup DOMAIN g |-> IF i \in Kept(e.grid) THEN e.grid[i] ELSE g[i]]
<1>2. /\ e.grid \in Grid
      /\ s \in DOMAIN grids => e.grid = grids[s]
      /\ e.out = {} \/ e.out = Notes(s, {"SETUP"})
  BY EvaluatedIs DEF GridsTyped
<1>3. g \in Grid
  BY NewGridsArePending
<1>4. h \in Grid
  <2>1. DOMAIN h \subseteq Indices
    BY <1>2, <1>3, GridIs DEF Kept, OpenIn
  <2>2. h \in [DOMAIN h -> Statuses]
    BY <1>2, <1>3, GridIs DEF Kept, OpenIn
  <2> QED
    BY <2>1, <2>2, GridIs
<1>5. \A i \in OpenIn(e.grid) : i \in OpenIn(h)
  BY DEF OpenIn, Kept
<1> HIDE DEF h
<1>6. grids' = Put(grids, s, h)
  BY <1>1 DEF h
<1>7. GridsTyped'
  BY <1>4, <1>6 DEF GridsTyped, Put
<1>8. \A m \in outbox' : m \in Messages /\ m.act # "FILL"
  BY <1>1, <1>2, NotesAre
<1>9. DOMAIN saving' = {s} /\ saving'[s] = "grid" /\ saving' \in [DOMAIN saving' -> {"levels", "grid", "rows"}]
  BY <1>1 DEF Put, Idle
<1>10. \A x \in OpenSlots(grids) : x \in OpenSlots(grids')
  BY <1>2, <1>5, <1>6, OpenAfterPut
<1>11. \A t \in DOMAIN grids : t # s => t \in DOMAIN grids' /\ grids'[t] = grids[t]
  BY <1>6 DEF Put
<1> QED
  BY <1>7, <1>8, <1>9, <1>10, <1>11 DEF Sound

LEMMA RecenterFailsIsSound ==
    ASSUME GridsTyped, Idle, NEW s \in Symbols, RecenterFails(s)
    PROVE  Sound
<1>1. PICK e \in Evaluated(s) : grids' = Put(grids, s, e.grid) /\ saving' = saving /\ outbox' = e.out
  BY DEF RecenterFails
<1>2. /\ e.grid \in Grid
      /\ s \in DOMAIN grids => e.grid = grids[s]
      /\ e.out = {} \/ e.out = Notes(s, {"SETUP"})
  BY EvaluatedIs DEF GridsTyped
<1>3. GridsTyped'
  BY <1>1, <1>2 DEF GridsTyped, Put
<1>4. \A m \in outbox' : m \in Messages /\ m.act # "FILL"
  BY <1>1, <1>2, NotesAre
<1>5. DOMAIN saving' = {} /\ saving' \in [DOMAIN saving' -> {"levels", "grid", "rows"}]
  BY <1>1 DEF Idle
<1>6. \A x \in OpenSlots(grids) : x \in OpenSlots(grids')
  BY <1>1, <1>2, OpenAfterPut
<1>7. \A t \in DOMAIN grids : t \in DOMAIN grids' /\ grids'[t] = grids[t]
  BY <1>1, <1>2 DEF Put
<1> QED
  BY <1>3, <1>4, <1>5, <1>6, <1>7 DEF Sound

LEMMA CloseGridIsSound ==
    ASSUME GridsTyped, Idle, NEW s \in Symbols, CloseGrid(s)
    PROVE  Sound
<1>1. /\ s \in DOMAIN grids
      /\ grids' = Without(grids, s)
      /\ saving' = Put(saving, s, "grid")
      /\ outbox' = About(s, "CLOSE_ALL", OpenIn(grids[s]))
  BY DEF CloseGrid
<1>2. OpenIn(grids[s]) \in SUBSET Indices
  BY <1>1, GridIs DEF GridsTyped, OpenIn
<1>3. /\ outbox' \subseteq Messages
      /\ \A m \in outbox' : m.act = "CLOSE_ALL"
      /\ \A i \in OpenIn(grids[s]) : [act |-> "CLOSE_ALL", slot |-> <<s, i>>] \in outbox'
  BY <1>1, <1>2, AboutIs
<1>4. GridsTyped'
  <2>1. DOMAIN grids' = DOMAIN grids \ {s} /\ \A t \in DOMAIN grids' : grids'[t] = grids[t]
    BY <1>1 DEF Without
  <2> QED
    BY <2>1 DEF GridsTyped
<1>5. DOMAIN saving' = {s} /\ saving'[s] = "grid" /\ saving' \in [DOMAIN saving' -> {"levels", "grid", "rows"}]
  BY <1>1 DEF Put, Idle
<1>6. ASSUME NEW x \in OpenSlots(grids)
      PROVE  x \in OpenSlots(grids') \/ x \in Closes(outbox')
  <2>1. PICK t \in Symbols, i \in Indices : x = <<t, i>>
    BY DEF OpenSlots, Slots
  <2>2. t \in DOMAIN grids /\ i \in OpenIn(grids[t])
    BY <2>1, OpenSlotsIs
  <2>3. CASE t = s
    <3>1. [act |-> "CLOSE_ALL", slot |-> x] \in outbox'
      BY <1>3, <2>1, <2>2, <2>3
    <3> QED
      BY <3>1, ClosesIs DEF Closing
  <2>4. CASE t # s
    <3>1. t \in DOMAIN grids' /\ grids'[t] = grids[t]
      BY <1>1, <2>2, <2>4, WithoutIs
    <3> QED
      BY <2>1, <2>2, <3>1, OpenSlotsIs
  <2> QED
    BY <2>3, <2>4
<1>7. \A t \in DOMAIN grids : t # s => t \in DOMAIN grids' /\ grids'[t] = grids[t]
  BY <1>1, WithoutIs
<1> QED
  BY <1>3, <1>4, <1>5, <1>6, <1>7 DEF Sound

LEMMA HardStopIsSound ==
    ASSUME GridsTyped, HardStop
    PROVE  Sound
<1>1. /\ grids' = <<>>
      /\ saving' = [s \in DOMAIN grids |-> "grid"]
      /\ outbox' = UNION {About(s, "CLOSE_ALL", OpenIn(grids[s])) : s \in DOMAIN grids}
  BY DEF HardStop
<1>2. \A s \in DOMAIN grids : s \in Symbols /\ OpenIn(grids[s]) \in SUBSET Indices
  BY GridIs DEF GridsTyped, OpenIn
<1>3. \A s \in DOMAIN grids :
        LET M == About(s, "CLOSE_ALL", OpenIn(grids[s]))
        IN  /\ M \subseteq Messages
            /\ \A m \in M : m.act = "CLOSE_ALL"
            /\ \A i \in OpenIn(grids[s]) : [act |-> "CLOSE_ALL", slot |-> <<s, i>>] \in M
  BY <1>2, AboutIs
<1>4. outbox' \subseteq Messages /\ \A m \in outbox' : m.act = "CLOSE_ALL"
  BY <1>1, <1>3
<1>5. ASSUME NEW x \in OpenSlots(grids)
      PROVE  x \in Closes(outbox')
  <2>1. PICK t \in Symbols, i \in Indices : x = <<t, i>>
    BY DEF OpenSlots, Slots
  <2>2. t \in DOMAIN grids /\ i \in OpenIn(grids[t])
    BY <2>1, OpenSlotsIs
  <2>3. [act |-> "CLOSE_ALL", slot |-> <<t, i>>] \in outbox'
    BY <1>1, <1>3, <2>2
  <2> QED
    BY <2>1, <2>3, ClosesIs DEF Closing
<1>6. DOMAIN grids' = {}
  BY <1>1
<1>7. DOMAIN saving' = DOMAIN grids /\ \A s \in DOMAIN saving' : saving'[s] = "grid"
  BY <1>1
<1>8. saving' \in [DOMAIN saving' -> {"levels", "grid", "rows"}]
  BY <1>1
<1> QED
  BY <1>4, <1>5, <1>6, <1>7, <1>8 DEF Sound, GridsTyped

\* The levels after fills, closes and deferred targets.
LEMMA TradedIs ==
    ASSUME NEW g \in Grid, NEW F, NEW C, NEW D
    PROVE  /\ Traded(g, F, C, D) \in Grid
           /\ DOMAIN Traded(g, F, C, D) = DOMAIN g
           /\ \A i \in (OpenIn(g) \cup (F \cap DOMAIN g)) \ C : i \in OpenIn(Traded(g, F, C, D))
           /\ F = {} /\ C = {} /\ D = {} => Traded(g, F, C, D) = g
<1> DEFINE h == Traded(g, F, C, D)
<1>1. g \in [DOMAIN g -> Statuses] /\ DOMAIN g \subseteq Indices
  BY GridIs
<1>2. DOMAIN h = DOMAIN g
  BY DEF Traded
<1>3. \A i \in DOMAIN g : h[i] = IF i \in C THEN "PENDING" ELSE IF i \in D THEN "TP_SET"
                                 ELSE IF i \in F THEN "FILLED" ELSE g[i]
  BY DEF Traded
<1>4. h \in [DOMAIN g -> Statuses]
  <2>1. \A i \in DOMAIN g : h[i] \in Statuses
    BY <1>1, <1>3 DEF Statuses
  <2>2. h = [i \in DOMAIN g |-> h[i]]
    BY DEF Traded
  <2> HIDE DEF h
  <2> QED
    BY <2>1, <2>2
<1> HIDE DEF h
<1>5. h \in Grid
  BY <1>1, <1>2, <1>4, GridIs
<1>6. \A i \in (OpenIn(g) \cup (F \cap DOMAIN g)) \ C : i \in OpenIn(h)
  BY <1>2, <1>3 DEF OpenIn
<1>7. ASSUME F = {}, C = {}, D = {}
      PROVE  h = g
  <2>1. \A i \in DOMAIN g : h[i] = g[i]
    BY <1>3, <1>7
  <2> QED
    BY <1>1, <1>4, <2>1
<1> QED
  BY <1>2, <1>5, <1>6, <1>7 DEF h

\* A trade, spelled out.
TradeResult(s, e, X, F, C, D) ==
    /\ X # {} => Cardinality(X) <= RoomToOpen(e.grid)
    /\ grids' = Put(grids, s, Traded(e.grid, F, C, D))
    /\ outbox' = e.out \cup About(s, "FILL", F) \cup About(s, "TP_HIT", C)
    /\ saving' = IF outbox' = {} THEN saving ELSE Put(saving, s, HowToSave(s))

LEMMA TradeGives ==
    ASSUME NEW s, Trade(s)
    PROVE  \E e \in Evaluated(s) :
           \E X \in SUBSET (DOMAIN e.grid \ OpenIn(e.grid)) : \E F \in Unblocked(X) :
           \E C \in Hit(OpenIn(e.grid) \cup F) : \E D \in SUBSET (F \ C) : TradeResult(s, e, X, F, C, D)
<1>1. PICK e \in Evaluated(s) : \E R \in SUBSET OpenIn(e.grid) :
          \E X \in SUBSET (DOMAIN e.grid \ OpenIn(e.grid)) : \E F \in Unblocked(X) :
          \E C \in Hit(OpenIn(e.grid) \cup F) : \E D \in SUBSET (F \ C) :
             /\ X # {} => Cardinality(X) <= RoomToOpen(e.grid)
             /\ MinHold => D = {}
             /\ grids' = Put(grids, s, Traded(e.grid, F, C, D))
             /\ outbox' = e.out \cup About(s, "FILL", F) \cup About(s, "TP_HIT", C)
             /\ saving' = IF outbox' = {} THEN saving ELSE Put(saving, s, HowToSave(s))
  BY Zenon DEF Trade, NotStale
<1>2. \E X \in SUBSET (DOMAIN e.grid \ OpenIn(e.grid)) : \E F \in Unblocked(X) :
      \E C \in Hit(OpenIn(e.grid) \cup F) : \E D \in SUBSET (F \ C) : TradeResult(s, e, X, F, C, D)
  BY <1>1, Zenon DEF TradeResult
<1> QED
  BY <1>2

LEMMA TradeIsSound ==
    ASSUME GridsTyped, Synced, Idle, NEW s \in Symbols, Trade(s)
    PROVE  Sound
<1>a. PICK e \in Evaluated(s) :
        \E X \in SUBSET (DOMAIN e.grid \ OpenIn(e.grid)) : \E F \in Unblocked(X) :
        \E C \in Hit(OpenIn(e.grid) \cup F) : \E D \in SUBSET (F \ C) : TradeResult(s, e, X, F, C, D)
  BY TradeGives
<1>b. PICK X \in SUBSET (DOMAIN e.grid \ OpenIn(e.grid)) : \E F \in Unblocked(X) :
        \E C \in Hit(OpenIn(e.grid) \cup F) : \E D \in SUBSET (F \ C) : TradeResult(s, e, X, F, C, D)
  BY <1>a
<1>c. PICK F \in Unblocked(X) :
        \E C \in Hit(OpenIn(e.grid) \cup F) : \E D \in SUBSET (F \ C) : TradeResult(s, e, X, F, C, D)
  BY <1>b
<1>d. PICK C \in Hit(OpenIn(e.grid) \cup F) : \E D \in SUBSET (F \ C) : TradeResult(s, e, X, F, C, D)
  BY <1>c
<1>e. PICK D \in SUBSET (F \ C) : TradeResult(s, e, X, F, C, D)
  BY <1>d
<1>1. /\ grids' = Put(grids, s, Traded(e.grid, F, C, D))
      /\ outbox' = e.out \cup About(s, "FILL", F) \cup About(s, "TP_HIT", C)
      /\ saving' = IF outbox' = {} THEN saving ELSE Put(saving, s, HowToSave(s))
  BY <1>e DEF TradeResult
<1>2. /\ e.grid \in Grid
      /\ s \in DOMAIN grids => e.grid = grids[s] /\ e.out = {}
      /\ s \notin DOMAIN grids => e.out = Notes(s, {"SETUP"})
  BY EvaluatedIs DEF GridsTyped
<1> DEFINE h == Traded(e.grid, F, C, D)
<1>3. /\ F \in SUBSET DOMAIN e.grid /\ C \in SUBSET DOMAIN e.grid
      /\ F \in SUBSET Indices /\ C \in SUBSET Indices
  <2>1. F \in SUBSET DOMAIN e.grid
    BY DEF Unblocked
  <2>2. C \in SUBSET DOMAIN e.grid
    BY <2>1 DEF Hit, OpenIn
  <2> QED
    BY <1>2, <2>1, <2>2, GridIs
<1>4. /\ h \in Grid /\ DOMAIN h = DOMAIN e.grid
      /\ \A i \in (OpenIn(e.grid) \cup F) \ C : i \in OpenIn(h)
      /\ F = {} /\ C = {} /\ D = {} => h = e.grid
  BY <1>2, <1>3, TradedIs
<1> HIDE DEF h
<1>5. grids' = Put(grids, s, h)
  BY <1>1 DEF h
<1>6. /\ About(s, "FILL", F) \subseteq Messages /\ About(s, "TP_HIT", C) \subseteq Messages
      /\ \A m \in About(s, "FILL", F) : m.act = "FILL" /\ \E i \in F : m.slot = <<s, i>>
      /\ \A m \in About(s, "TP_HIT", C) : m.act = "TP_HIT"
      /\ \A i \in F : [act |-> "FILL", slot |-> <<s, i>>] \in About(s, "FILL", F)
      /\ \A i \in C : [act |-> "TP_HIT", slot |-> <<s, i>>] \in About(s, "TP_HIT", C)
  BY <1>3, AboutIs
<1>7. GridsTyped'
  BY <1>4, <1>5 DEF GridsTyped, Put
<1>8. outbox' \subseteq Messages
  BY <1>1, <1>2, <1>6, NotesAre
<1>9. \A i \in C : <<s, i>> \in Closes(outbox')
  <2> SUFFICES ASSUME NEW i \in C
               PROVE  <<s, i>> \in Closes(outbox')
    OBVIOUS
  <2>1. [act |-> "TP_HIT", slot |-> <<s, i>>] \in outbox'
    BY <1>1, <1>6
  <2> QED
    BY <2>1, ClosesIs DEF Closing
<1>10. s \in DOMAIN grids' /\ grids'[s] = h
  BY <1>5 DEF Put
<1>11. \A t \in DOMAIN grids : t # s => t \in DOMAIN grids' /\ grids'[t] = grids[t]
  BY <1>5 DEF Put
<1>12. \A i \in OpenIn(e.grid) \cup F : <<s, i>> \in OpenSlots(grids') \/ <<s, i>> \in Closes(outbox')
  <2>1. OpenIn(e.grid) \cup F \subseteq Indices
    BY <1>2, <1>3, GridIs DEF OpenIn
  <2> QED
    BY <1>4, <1>9, <1>10, <2>1, OpenSlotsIs
<1>13. ASSUME NEW x \in OpenSlots(grids)
       PROVE  x \in OpenSlots(grids') \/ x \in Closes(outbox')
  <2>1. PICK t \in Symbols, i \in Indices : x = <<t, i>>
    BY DEF OpenSlots, Slots
  <2>2. t \in DOMAIN grids /\ i \in OpenIn(grids[t])
    BY <2>1, OpenSlotsIs
  <2>3. CASE t = s
    BY <1>2, <1>12, <2>1, <2>2, <2>3
  <2>4. CASE t # s
    BY <1>11, <2>1, <2>2, <2>4, OpenSlotsIs
  <2> QED
    BY <2>3, <2>4
<1>14. ASSUME NEW m \in outbox', m.act = "FILL"
       PROVE  m.slot \in OpenSlots(grids') \/ m.slot \in Closes(outbox')
  <2>1. m \in About(s, "FILL", F)
    BY <1>1, <1>2, <1>6, <1>14, NotesAre
  <2> QED
    BY <1>6, <1>12, <2>1
<1>15. ASSUME outbox' = {}
       PROVE  grids' = Put(grids, s, e.grid) /\ s \in DOMAIN grids /\ e.grid = grids[s] /\ saving' = saving
  <2>1. F = {} /\ C = {}
    BY <1>1, <1>6, <1>15
  <2>2. s \in DOMAIN grids
    <3>1. [act |-> "SETUP", slot |-> <<s, 0>>] \in Notes(s, {"SETUP"})
      BY DEF Notes
    <3> QED
      BY <1>1, <1>2, <1>15, <3>1
  <2> QED
    BY <1>1, <1>2, <1>4, <1>5, <1>15, <2>1, <2>2
<1>16. /\ DOMAIN saving' \subseteq Symbols /\ saving' \in [DOMAIN saving' -> {"levels", "grid", "rows"}]
       /\ \A t \in DOMAIN grids : t \notin DOMAIN saving' => t \in DOMAIN grids' /\ grids'[t] = grids[t]
       /\ \A t \in DOMAIN saving' :
             /\ saving'[t] = "levels" =>
                   t \in DOMAIN saved /\ t \in DOMAIN grids' /\ DOMAIN grids'[t] = DOMAIN grids[t]
             /\ saving'[t] # "rows"
  <2>1. CASE outbox' = {}
    <3>1. DOMAIN saving' = {} /\ saving' \in [DOMAIN saving' -> {"levels", "grid", "rows"}]
      BY <1>15, <2>1 DEF Idle
    <3>2. s \in DOMAIN grids /\ grids'[s] = grids[s]
      BY <1>15, <2>1 DEF Put
    <3> QED
      BY <1>10, <1>11, <3>1, <3>2
  <2>2. CASE outbox' # {}
    <3>1. /\ DOMAIN saving' = {s} /\ saving'[s] = HowToSave(s)
          /\ saving' \in [DOMAIN saving' -> {"levels", "grid", "rows"}]
      BY <1>1, <2>2 DEF Put, Idle, HowToSave
    <3>2. s \in DOMAIN saved => s \in DOMAIN grids
      BY DEF Synced, Idle
    <3>3. s \in DOMAIN saved => DOMAIN grids'[s] = DOMAIN grids[s]
      BY <1>2, <1>4, <1>10, <3>2
    <3> QED
      BY <1>10, <1>11, <3>1, <3>2, <3>3 DEF HowToSave
  <2> QED
    BY <2>1, <2>2
<1> QED
  BY <1>7, <1>8, <1>13, <1>14, <1>16 DEF Sound

LEMMA EvaluateIsSound ==
    ASSUME GridsTyped, Synced, NEW s \in Symbols, Evaluate(s)
    PROVE  Sound
BY RecenterIsSound, RecenterFailsIsSound, CloseGridIsSound, HardStopIsSound, TradeIsSound DEF Evaluate

-----------------------------------------------------------------------------
(* The invariant.                                                           *)

\* What is saved as open is open, or its close has not been sent yet: a restart of
\* P2 brings back nothing that was given up before.
SavedAnswered == \A x \in OpenSlots(saved) : x \in OpenSlots(grids) \/ x \in Closes(outbox)

Answerable(x) == x \in OpenSlots(grids) \/ x \in Closes(outbox) \/ x \in lost

OutboxAnswered == \A m \in outbox : m.act = "FILL" => Answerable(m.slot)

\* The queue has a close of x after place i.
ClosedAfter(x, i) == \E j \in i + 1 .. Len(queue) : queue[j].act \in Closing /\ queue[j].slot = x

\* A fill that P3 has not taken yet is answered behind it.
QueueAnswered == \A i \in 1 .. Len(queue) :
    queue[i].act = "FILL" => Answerable(queue[i].slot) \/ ClosedAfter(queue[i].slot, i)

IInv ==
    /\ TypeOK
    /\ Synced
    /\ SavedAnswered
    /\ OutboxAnswered
    /\ QueueAnswered
    /\ HeldAnswered

LEMMA MessagesHave ==
    ASSUME NEW m \in Messages
    PROVE  m.act \in Closing => m.slot \in Slots
BY DEF Messages, Closing

LEMMA EmptyGrid == <<>> \in Grid /\ OpenIn(<<>>) = {}
<1>1. DOMAIN <<>> = {}
  OBVIOUS
<1>2. <<>> \in [{} -> Statuses]
  OBVIOUS
<1> QED
  BY <1>1, <1>2, GridIs DEF OpenIn

LEMMA InitInvariant == Init => IInv
<1> SUFFICES ASSUME Init PROVE IInv
  OBVIOUS
<1>1. /\ active = {} /\ grids = <<>> /\ saved = <<>> /\ saving = <<>>
      /\ outbox = {} /\ queue = <<>> /\ held = {} /\ restarts = 0 /\ lost = {}
  BY DEF Init
<1>2. DOMAIN grids = {} /\ DOMAIN saved = {} /\ DOMAIN saving = {}
  BY <1>1
<1>3. queue \in Seq(Messages) /\ Len(queue) = 0
  BY <1>1
<1>4. TypeOK
  BY <1>1, <1>2, <1>3, GridAssumption DEF TypeOK
<1>5. OpenSlots(saved) = {}
  BY <1>2 DEF OpenSlots
<1> QED
  BY <1>1, <1>2, <1>3, <1>4, <1>5 DEF IInv, Synced, SavedAnswered, OutboxAnswered, QueueAnswered, HeldAnswered

\* The conjuncts about answers when grids, outbox, queue, held and lost stay.
LEMMA AnswersStay ==
    ASSUME IInv, UNCHANGED <<grids, outbox, queue, held, lost>>
    PROVE  OutboxAnswered' /\ QueueAnswered' /\ HeldAnswered'
BY DEF IInv, OutboxAnswered, QueueAnswered, HeldAnswered, Answerable, ClosedAfter, Due

LEMMA ScanKeeps ==
    ASSUME IInv, NEW s \in Symbols, Scan(s)
    PROVE  IInv'
<1>1. TypeOK'
  BY DEF IInv, TypeOK, Scan
<1>2. Synced' /\ SavedAnswered'
  BY DEF IInv, Synced, SavedAnswered, Scan
<1> QED
  BY <1>1, <1>2, AnswersStay DEF IInv, Scan

LEMMA EvaluateKeeps ==
    ASSUME IInv, NEW s \in Symbols, Evaluate(s)
    PROVE  IInv'
<1>1. Sound
  BY EvaluateIsSound DEF IInv, TypeOK, GridsTyped
<1>2. /\ Idle
      /\ lost' = lost \ {m.slot : m \in {x \in outbox' : x.act = "FILL"}}
      /\ UNCHANGED <<active, saved, queue, held, restarts>>
  BY DEF Evaluate
<1>3. DOMAIN saving = {} /\ outbox = {}
  BY <1>2 DEF Idle
<1>4. TypeOK'
  BY <1>1, <1>2 DEF IInv, TypeOK, Sound, GridsTyped
<1>5. Synced'
  BY <1>1, <1>2, <1>3 DEF IInv, Synced, Sound
<1>6. \A x \in OpenSlots(grids) : x \in OpenSlots(grids') \/ x \in Closes(outbox')
  BY <1>1 DEF Sound
<1>7. SavedAnswered'
  <2>1. \A x \in OpenSlots(saved) : x \in OpenSlots(grids)
    BY <1>3, ClosesIs DEF IInv, SavedAnswered
  <2> QED
    BY <1>2, <1>6, <2>1 DEF SavedAnswered
<1>8. OutboxAnswered'
  BY <1>1 DEF Sound, OutboxAnswered, Answerable
<1>9. \A x \in lost : x \in lost' \/ x \in OpenSlots(grids') \/ x \in Closes(outbox')
  BY <1>1, <1>2 DEF Sound
<1>10. \A x : Answerable(x) => x \in lost' \/ x \in OpenSlots(grids') \/ x \in Closes(outbox')
  BY <1>3, <1>6, <1>9, ClosesIs DEF Answerable
<1>11. QueueAnswered'
  BY <1>2, <1>10 DEF IInv, QueueAnswered, Answerable, ClosedAfter
<1>12. HeldAnswered'
  BY <1>2, <1>3, <1>6, <1>9, ClosesIs DEF IInv, HeldAnswered, Due
<1> QED
  BY <1>4, <1>5, <1>7, <1>8, <1>11, <1>12 DEF IInv

LEMMA SaveLevelKeeps ==
    ASSUME IInv, NEW s \in Symbols, SaveLevel(s)
    PROVE  IInv'
<1>1. PICK i \in DOMAIN saved[s] \cap DOMAIN grids[s] :
        saved' = Put(saved, s, Put(saved[s], i, grids[s][i]))
  BY DEF SaveLevel
<1> DEFINE g == Put(saved[s], i, grids[s][i])
<1>2. /\ s \in DOMAIN saving /\ saving[s] = "levels"
      /\ UNCHANGED <<memory, saving, outbox, queue, held, restarts, lost>>
  BY DEF SaveLevel
<1>3. s \in DOMAIN saved /\ s \in DOMAIN grids /\ DOMAIN saved[s] = DOMAIN grids[s]
  BY <1>2 DEF IInv, Synced
<1>4. saved[s] \in Grid /\ grids[s] \in Grid
  BY <1>3 DEF IInv, TypeOK
<1>5. DOMAIN g = DOMAIN saved[s] /\ \A k \in DOMAIN g : g[k] = IF k = i THEN grids[s][i] ELSE saved[s][k]
  BY DEF Put
<1>6. g \in Grid
  <2>1. \A k \in DOMAIN g : g[k] \in Statuses
    BY <1>4, <1>5, GridIs
  <2>2. g = [k \in DOMAIN g |-> g[k]]
    BY DEF Put
  <2> HIDE DEF g
  <2>3. g \in [DOMAIN g -> Statuses]
    BY <2>1, <2>2
  <2> QED
    BY <1>4, <1>5, <2>3, GridIs
<1> HIDE DEF g
<1>7. saved' = Put(saved, s, g)
  BY <1>1 DEF g
<1>8. /\ DOMAIN saved' = DOMAIN saved
      /\ saved'[s] = g
      /\ \A t \in DOMAIN saved : t # s => saved'[t] = saved[t]
  BY <1>3, <1>7 DEF Put
<1>9. TypeOK'
  BY <1>2, <1>6, <1>8 DEF IInv, TypeOK, memory
<1>10. Synced'
  BY <1>2, <1>3, <1>5, <1>8 DEF IInv, Synced, memory
<1>11. SavedAnswered'
  <2> SUFFICES ASSUME NEW x \in OpenSlots(saved')
               PROVE  x \in OpenSlots(grids) \/ x \in Closes(outbox)
    BY <1>2 DEF SavedAnswered, memory
  <2>1. PICK t \in Symbols, k \in Indices : x = <<t, k>>
    BY DEF OpenSlots, Slots
  <2>2. t \in DOMAIN saved /\ k \in OpenIn(saved'[t])
    BY <1>8, <2>1, OpenSlotsIs
  <2>3. CASE t = s /\ k = i
    <3>1. k \in OpenIn(grids[s])
      BY <1>3, <1>5, <1>8, <2>2, <2>3 DEF OpenIn
    <3> QED
      BY <1>3, <2>1, <2>3, <3>1, OpenSlotsIs
  <2>4. CASE ~(t = s /\ k = i)
    <3>1. k \in OpenIn(saved[t])
      BY <1>5, <1>8, <2>2, <2>4 DEF OpenIn
    <3>2. x \in OpenSlots(saved)
      BY <2>1, <2>2, <3>1, OpenSlotsIs
    <3> QED
      BY <3>2 DEF IInv, SavedAnswered
  <2> QED
    BY <2>3, <2>4
<1> QED
  BY <1>2, <1>9, <1>10, <1>11, AnswersStay DEF IInv, memory

LEMMA LevelsSavedKeeps ==
    ASSUME IInv, NEW s \in Symbols, LevelsSaved(s)
    PROVE  IInv'
<1>1. /\ s \in DOMAIN saving /\ saving[s] = "levels"
      /\ \A i \in DOMAIN saved[s] \cap DOMAIN grids[s] : saved[s][i] = grids[s][i]
      /\ saving' = Without(saving, s)
      /\ UNCHANGED <<memory, saved, outbox, queue, held, restarts, lost>>
  BY DEF LevelsSaved
<1>2. s \in DOMAIN saved /\ s \in DOMAIN grids /\ DOMAIN saved[s] = DOMAIN grids[s]
  BY <1>1 DEF IInv, Synced
<1>3. saved[s] = grids[s]
  <2>1. saved[s] \in [DOMAIN saved[s] -> Statuses] /\ grids[s] \in [DOMAIN saved[s] -> Statuses]
    BY <1>2, GridIs DEF IInv, TypeOK
  <2> QED
    BY <1>1, <1>2, <2>1
<1>4. /\ DOMAIN saving' = DOMAIN saving \ {s}
      /\ \A t \in DOMAIN saving' : saving'[t] = saving[t]
      /\ saving' \in [DOMAIN saving' -> {"levels", "grid", "rows"}]
  BY <1>1 DEF Without, IInv, TypeOK
<1>5. TypeOK'
  BY <1>1, <1>4 DEF IInv, TypeOK, memory
<1>6. Synced'
  BY <1>1, <1>2, <1>3, <1>4 DEF IInv, Synced, memory
<1>7. SavedAnswered'
  BY <1>1 DEF IInv, SavedAnswered, memory
<1> QED
  BY <1>1, <1>5, <1>6, <1>7, AnswersStay DEF IInv, memory

LEMMA SaveGridKeeps ==
    ASSUME IInv, NEW s \in Symbols, SaveGrid(s)
    PROVE  IInv'
<1>1. /\ s \in DOMAIN saving
      /\ UNCHANGED <<memory, outbox, queue, held, restarts, lost>>
  BY DEF SaveGrid
<1>2. /\ \A t \in DOMAIN saved' : t # s => t \in DOMAIN saved /\ saved'[t] = saved[t]
      /\ s \in DOMAIN saved' => s \in DOMAIN grids /\ saved'[s] = <<>> /\ s \in DOMAIN saving' /\ saving'[s] = "rows"
      /\ s \in DOMAIN saving' => s \in DOMAIN grids /\ saving'[s] = "rows"
      /\ DOMAIN saving' \subseteq DOMAIN saving
      /\ \A t \in DOMAIN saving : t # s => t \in DOMAIN saving' /\ saving'[t] = saving[t]
      /\ \A t \in DOMAIN saved : t # s => t \in DOMAIN saved' /\ saved'[t] = saved[t]
      /\ saving' \in [DOMAIN saving' -> {"levels", "grid", "rows"}]
  <2>1. CASE s \in DOMAIN grids
    BY <1>1, <2>1 DEF SaveGrid, Put, IInv, TypeOK
  <2>2. CASE s \notin DOMAIN grids
    BY <1>1, <2>2 DEF SaveGrid, Without, IInv, TypeOK
  <2> QED
    BY <2>1, <2>2
<1>3. TypeOK'
  BY <1>1, <1>2, EmptyGrid DEF IInv, TypeOK, memory
<1>4. Synced'
  BY <1>1, <1>2 DEF IInv, Synced, memory
<1>5. SavedAnswered'
  <2> SUFFICES ASSUME NEW x \in OpenSlots(saved')
               PROVE  x \in OpenSlots(saved)
    BY <1>1 DEF IInv, SavedAnswered, memory
  <2>1. PICK t \in Symbols, k \in Indices : x = <<t, k>>
    BY DEF OpenSlots, Slots
  <2>2. t \in DOMAIN saved' /\ k \in OpenIn(saved'[t])
    BY <2>1, OpenSlotsIs
  <2>3. t # s
    BY <1>2, <2>2, EmptyGrid
  <2> QED
    BY <1>2, <2>1, <2>2, <2>3, OpenSlotsIs
<1> QED
  BY <1>1, <1>3, <1>4, <1>5, AnswersStay DEF IInv, memory

LEMMA SaveRowsKeeps ==
    ASSUME IInv, NEW s \in Symbols, SaveRows(s)
    PROVE  IInv'
<1>1. /\ s \in DOMAIN saving /\ saving[s] = "rows"
      /\ saved' = Put(saved, s, grids[s])
      /\ saving' = Without(saving, s)
      /\ UNCHANGED <<memory, outbox, queue, held, restarts, lost>>
  BY DEF SaveRows
<1>2. s \in DOMAIN grids /\ grids[s] \in Grid
  BY <1>1 DEF IInv, Synced, TypeOK
<1>3. /\ DOMAIN saved' = DOMAIN saved \cup {s} /\ saved'[s] = grids[s]
      /\ \A t \in DOMAIN saved : t # s => saved'[t] = saved[t]
  BY <1>1 DEF Put
<1>4. /\ DOMAIN saving' = DOMAIN saving \ {s}
      /\ \A t \in DOMAIN saving' : saving'[t] = saving[t]
      /\ saving' \in [DOMAIN saving' -> {"levels", "grid", "rows"}]
  BY <1>1 DEF Without, IInv, TypeOK
<1>5. TypeOK'
  BY <1>1, <1>2, <1>3, <1>4 DEF IInv, TypeOK, memory
<1>6. Synced'
  BY <1>1, <1>2, <1>3, <1>4 DEF IInv, Synced, memory
<1>7. SavedAnswered'
  <2> SUFFICES ASSUME NEW x \in OpenSlots(saved')
               PROVE  x \in OpenSlots(grids) \/ x \in Closes(outbox)
    BY <1>1 DEF SavedAnswered, memory
  <2>1. PICK t \in Symbols, k \in Indices : x = <<t, k>>
    BY DEF OpenSlots, Slots
  <2>2. t \in DOMAIN saved' /\ k \in OpenIn(saved'[t])
    BY <2>1, OpenSlotsIs
  <2>3. CASE t = s
    BY <1>2, <1>3, <2>1, <2>2, <2>3, OpenSlotsIs
  <2>4. CASE t # s
    <3>1. x \in OpenSlots(saved)
      BY <1>3, <2>1, <2>2, <2>4, OpenSlotsIs
    <3> QED
      BY <3>1 DEF IInv, SavedAnswered
  <2> QED
    BY <2>3, <2>4
<1> QED
  BY <1>1, <1>5, <1>6, <1>7, AnswersStay DEF IInv, memory

\* Once everything is saved, what is open in the database is open in the grid.
LEMMA SavedIsOpen ==
    ASSUME Synced, saving = <<>>
    PROVE  OpenSlots(saved) \subseteq OpenSlots(grids)
<1>1. \A s \in DOMAIN saved : s \in DOMAIN grids /\ saved[s] = grids[s]
  BY DEF Synced
<1> QED
  BY <1>1 DEF OpenSlots

\* The close of x is on its way or lost after Send(m), if it was before.
LEMMA SendAnswers ==
    ASSUME NEW m \in outbox, Send(m), NEW x, x \in Closes(outbox)
    PROVE  \/ x \in Closes(outbox') \/ x \in lost'
           \/ /\ queue' = Append(queue, m) /\ m.act \in Closing /\ m.slot = x
<1>1. PICK c \in outbox : c.act \in Closing /\ c.slot = x
  BY ClosesIs
<1>2. outbox' = outbox \ {m}
  BY DEF Send
<1>3. CASE c # m
  BY <1>1, <1>2, <1>3, ClosesIs
<1>4. CASE c = m
  <2>1. CASE HasRoom
    BY <1>1, <1>4, <2>1 DEF Send
  <2>2. CASE ~HasRoom
    <3>1. lost' = lost \cup Closes({m})
      BY <2>2 DEF Send
    <3>2. x \in Closes({m})
      BY <1>1, <1>4, ClosesIs
    <3> QED
      BY <3>1, <3>2
  <2> QED
    BY <2>1, <2>2
<1> QED
  BY <1>3, <1>4

LEMMA SendKeeps ==
    ASSUME IInv, NEW m \in outbox, Send(m)
    PROVE  IInv'
<1>1. /\ saving = <<>>
      /\ m.act \in Closing => \A x \in outbox : x.act = "FILL" => x.slot # m.slot
      /\ outbox' = outbox \ {m}
      /\ UNCHANGED <<memory, saved, saving, held, restarts>>
      /\ HasRoom => queue' = Append(queue, m) /\ lost' = lost
      /\ ~HasRoom => queue' = queue /\ lost' = lost \cup Closes({m})
  BY DEF Send
<1>2. m \in Messages /\ queue \in Seq(Messages) /\ Len(queue) \in Nat /\ Len(queue) <= QueueCap
  BY DEF IInv, TypeOK
<1>3. /\ HasRoom => /\ queue' \in Seq(Messages) /\ Len(queue') = Len(queue) + 1
                    /\ queue'[Len(queue) + 1] = m
                    /\ \A i \in 1 .. Len(queue) : queue'[i] = queue[i]
      /\ HasRoom => Len(queue) < QueueCap
  BY <1>1, <1>2, AppendProperties DEF HasRoom
<1>4. TypeOK'
  <2>1. queue' \in Seq(Messages) /\ Len(queue') <= QueueCap
    BY <1>1, <1>2, <1>3, GridAssumption
  <2>2. lost' \subseteq Slots
    BY <1>1, <1>2, ClosesIs, MessagesHave DEF IInv, TypeOK
  <2>3. outbox' \subseteq Messages
    BY <1>1 DEF IInv, TypeOK
  <2> QED
    BY <1>1, <2>1, <2>2, <2>3 DEF IInv, TypeOK, memory
<1>5. Synced'
  BY <1>1 DEF IInv, Synced, memory
<1>6. SavedAnswered'
  <2>1. OpenSlots(saved) \subseteq OpenSlots(grids)
    BY <1>1, SavedIsOpen DEF IInv
  <2> QED
    BY <1>1, <2>1 DEF SavedAnswered, memory
<1>7. \A x : Answerable(x) => \/ x \in OpenSlots(grids') \/ x \in Closes(outbox') \/ x \in lost'
                              \/ /\ queue' = Append(queue, m) /\ m.act \in Closing /\ m.slot = x
  <2>1. lost \subseteq lost'
    BY <1>1
  <2> QED
    BY <1>1, <2>1, SendAnswers DEF Answerable, memory
<1>8. OutboxAnswered'
  BY <1>1, <1>7 DEF IInv, OutboxAnswered, Answerable
<1>9. QueueAnswered'
  <2> SUFFICES ASSUME NEW i \in 1 .. Len(queue'), queue'[i].act = "FILL"
               PROVE  \/ queue'[i].slot \in OpenSlots(grids') \cup Closes(outbox') \cup lost'
                      \/ \E j \in i + 1 .. Len(queue') : queue'[j].act \in Closing /\ queue'[j].slot = queue'[i].slot
    BY DEF QueueAnswered, Answerable, ClosedAfter
  <2>1. CASE HasRoom /\ i = Len(queue) + 1
    <3>1. queue'[i] = m /\ m.act \notin Closing
      BY <1>3, <2>1 DEF Closing
    <3>2. Answerable(m.slot)
      BY <3>1 DEF IInv, OutboxAnswered
    <3> QED
      BY <1>7, <3>1, <3>2
  <2>2. CASE i \in 1 .. Len(queue)
    <3>1. queue'[i] = queue[i] /\ queue[i].act = "FILL"
      BY <1>1, <1>3, <2>2
    <3>2. CASE Answerable(queue[i].slot)
      <4>1. CASE queue' = Append(queue, m) /\ m.act \in Closing /\ m.slot = queue[i].slot
        <5>1. HasRoom \/ ~HasRoom
          OBVIOUS
        <5>2. CASE HasRoom
          <6>1. Len(queue) + 1 \in i + 1 .. Len(queue')
            BY <1>2, <1>3, <2>2, <5>2
          <6> QED
            BY <1>3, <3>1, <4>1, <5>2, <6>1
        <5>3. CASE ~HasRoom
          <6>1. queue' = queue
            BY <1>1, <5>3
          <6>2. Len(Append(queue, m)) = Len(queue) + 1
            BY <1>2, AppendProperties
          <6> QED
            BY <1>2, <4>1, <6>1, <6>2
        <5> QED
          BY <5>1, <5>2, <5>3
      <4> QED
        BY <1>7, <3>1, <3>2, <4>1
    <3>3. CASE ClosedAfter(queue[i].slot, i)
      <4>1. PICK j \in i + 1 .. Len(queue) : queue[j].act \in Closing /\ queue[j].slot = queue[i].slot
        BY <3>3 DEF ClosedAfter
      <4>2. j \in i + 1 .. Len(queue') /\ queue'[j] = queue[j]
        BY <1>1, <1>2, <1>3, <2>2
      <4> QED
        BY <3>1, <4>1, <4>2
    <3> QED
      BY <2>2, <3>1, <3>2, <3>3 DEF IInv, QueueAnswered
  <2> QED
    BY <1>1, <1>2, <1>3, <2>1, <2>2
<1>10. HeldAnswered'
  <2> SUFFICES ASSUME NEW x \in held
               PROVE  x \in OpenSlots(grids') \cup Closes(outbox') \cup Closes(Range(queue')) \cup lost'
    BY <1>1 DEF HeldAnswered, Due
  <2>1. Answerable(x) \/ x \in Closes(Range(queue))
    BY DEF IInv, HeldAnswered, Due, Answerable
  <2>2. CASE x \in Closes(Range(queue))
    <3>1. PICK i \in 1 .. Len(queue) : queue[i].act \in Closing /\ queue[i].slot = x
      BY <1>2, <2>2, ClosesIs DEF Range
    <3>2. i \in 1 .. Len(queue') /\ queue'[i] = queue[i]
      BY <1>1, <1>2, <1>3
    <3>3. queue'[i] \in Range(queue')
      BY <1>1, <1>2, <1>3, <3>2 DEF Range
    <3> QED
      BY <3>1, <3>2, <3>3, ClosesIs
  <2>3. CASE Answerable(x)
    <3>1. CASE queue' = Append(queue, m) /\ m.act \in Closing /\ m.slot = x
      <4>1. m \in Range(queue')
        <5>1. queue' \in Seq(Messages) /\ Len(queue') = Len(queue) + 1 /\ queue'[Len(queue) + 1] = m
          BY <1>2, <3>1, AppendProperties
        <5> QED
          BY <1>2, <5>1 DEF Range
      <4> QED
        BY <3>1, <4>1, ClosesIs
    <3> QED
      BY <1>7, <2>3, <3>1
  <2> QED
    BY <2>1, <2>2, <2>3
<1> QED
  BY <1>4, <1>5, <1>6, <1>8, <1>9, <1>10 DEF IInv

LEMMA P3TakesKeeps ==
    ASSUME IInv, P3Takes
    PROVE  IInv'
<1> DEFINE m == Head(queue)
<1>1. /\ queue # <<>> /\ queue' = Tail(queue)
      /\ m.act = "FILL" => held' \in {held, held \cup {m.slot}}
      /\ m.act \in Closing => held' = held \ {m.slot}
      /\ m.act # "FILL" /\ m.act \notin Closing => held' = held
      /\ UNCHANGED <<memory, saved, saving, outbox, restarts, lost>>
  BY DEF P3Takes, Closing
<1>2. /\ queue \in Seq(Messages) /\ Len(queue) \in Nat /\ Len(queue) <= QueueCap
      /\ m = queue[1] /\ m \in Messages /\ 1 \in 1 .. Len(queue)
      /\ queue' \in Seq(Messages) /\ Len(queue') = Len(queue) - 1
      /\ \A i \in 1 .. Len(queue') : queue'[i] = queue[i + 1]
  BY <1>1, HeadTailProperties, EmptySeq DEF IInv, TypeOK
<1> HIDE DEF m
<1>3. m.act = "FILL" => m.slot \in Slots
  BY <1>2 DEF Messages
<1>4. TypeOK'
  <2>1. held' \subseteq Slots
    BY <1>1, <1>3 DEF IInv, TypeOK
  <2>2. Len(queue') <= QueueCap
    BY <1>2, GridAssumption
  <2> QED
    BY <1>1, <1>2, <2>1, <2>2 DEF IInv, TypeOK, memory
<1>5. Synced' /\ SavedAnswered' /\ OutboxAnswered'
  BY <1>1 DEF IInv, Synced, SavedAnswered, OutboxAnswered, Answerable, memory
<1>6. QueueAnswered'
  <2> SUFFICES ASSUME NEW i \in 1 .. Len(queue'), queue'[i].act = "FILL"
               PROVE  \/ queue'[i].slot \in OpenSlots(grids) \cup Closes(outbox) \cup lost
                      \/ \E j \in i + 1 .. Len(queue') : queue'[j].act \in Closing /\ queue'[j].slot = queue'[i].slot
    BY <1>1 DEF QueueAnswered, Answerable, ClosedAfter, memory
  <2>1. queue'[i] = queue[i + 1] /\ i + 1 \in 1 .. Len(queue)
    BY <1>2
  <2>2. CASE ClosedAfter(queue[i + 1].slot, i + 1)
    <3>1. PICK j \in (i + 1) + 1 .. Len(queue) : queue[j].act \in Closing /\ queue[j].slot = queue[i + 1].slot
      BY <2>2 DEF ClosedAfter
    <3>2. j - 1 \in i + 1 .. Len(queue') /\ queue'[j - 1] = queue[j]
      BY <1>2
    <3> QED
      BY <2>1, <3>1, <3>2
  <2> QED
    BY <2>1, <2>2 DEF IInv, QueueAnswered, Answerable
<1>7. HeldAnswered'
  <2> SUFFICES ASSUME NEW x \in held'
               PROVE  x \in OpenSlots(grids) \cup Closes(outbox) \cup lost \/ x \in Closes(Range(queue'))
    BY <1>1 DEF HeldAnswered, Due, memory
  <2>1. ASSUME NEW j \in 2 .. Len(queue), queue[j].act \in Closing, queue[j].slot = x
        PROVE  x \in Closes(Range(queue'))
    <3>1. j - 1 \in 1 .. Len(queue') /\ queue'[j - 1] = queue[j]
      BY <1>2
    <3>2. queue'[j - 1] \in Range(queue')
      BY <1>2, <3>1 DEF Range
    <3> QED
      BY <2>1, <3>1, <3>2, ClosesIs
  <2>2. CASE x \in held
    <3>1. CASE x \in Closes(Range(queue))
      <4>1. PICK j \in 1 .. Len(queue) : queue[j].act \in Closing /\ queue[j].slot = x
        BY <1>2, <3>1, ClosesIs DEF Range
      <4>2. j # 1
        BY <1>1, <1>2, <4>1
      <4> QED
        BY <1>2, <2>1, <4>1, <4>2
    <3> QED
      BY <2>2, <3>1 DEF IInv, HeldAnswered, Due
  <2>3. CASE m.act = "FILL" /\ x = m.slot
    <3>1. Answerable(x) \/ ClosedAfter(x, 1)
      BY <1>2, <2>3 DEF IInv, QueueAnswered
    <3>2. CASE ClosedAfter(x, 1)
      BY <2>1, <3>2 DEF ClosedAfter
    <3> QED
      BY <3>1, <3>2 DEF Answerable
  <2>4. x \in held \/ (m.act = "FILL" /\ x = m.slot)
    BY <1>1
  <2> QED
    BY <2>2, <2>3, <2>4
<1> QED
  BY <1>4, <1>5, <1>6, <1>7 DEF IInv

LEMMA RestartP3Keeps ==
    ASSUME IInv, RestartP3
    PROVE  IInv'
<1>1. /\ restarts < MaxRestarts /\ restarts' = restarts + 1 /\ held' = {}
      /\ (queue' = queue /\ lost' = lost) \/ (queue' = <<>> /\ lost' = lost \cup Closes(Range(queue)))
      /\ UNCHANGED <<memory, saved, saving, outbox>>
  BY DEF RestartP3
<1>2. queue \in Seq(Messages) /\ Len(queue) \in Nat
  BY DEF IInv, TypeOK
<1>3. queue' \in Seq(Messages) /\ (queue' = queue \/ Len(queue') = 0)
  <2>1. <<>> \in Seq(Messages) /\ Len(<<>>) = 0
    OBVIOUS
  <2> QED
    BY <1>1, <1>2, <2>1
<1>4. lost' \subseteq Slots /\ lost \subseteq lost'
  <2>1. Closes(Range(queue)) \subseteq Slots
    <3> SUFFICES ASSUME NEW x \in Closes(Range(queue)) PROVE x \in Slots
      OBVIOUS
    <3>1. PICK i \in 1 .. Len(queue) : queue[i].act \in Closing /\ queue[i].slot = x
      BY <1>2, ClosesIs DEF Range
    <3>2. queue[i] \in Messages
      BY <1>2
    <3> QED
      BY <3>1, <3>2, MessagesHave
  <2> QED
    BY <1>1, <2>1 DEF IInv, TypeOK
<1>5. TypeOK'
  <2>1. Len(queue') <= QueueCap
    BY <1>3, GridAssumption DEF IInv, TypeOK
  <2>2. restarts' \in 0 .. MaxRestarts
    BY <1>1, GridAssumption DEF IInv, TypeOK
  <2> QED
    BY <1>1, <1>3, <1>4, <2>1, <2>2 DEF IInv, TypeOK, memory
<1>6. Synced' /\ SavedAnswered'
  BY <1>1 DEF IInv, Synced, SavedAnswered, memory
<1>7. OutboxAnswered'
  BY <1>1, <1>4 DEF IInv, OutboxAnswered, Answerable, memory
<1>8. QueueAnswered'
  <2>1. CASE queue' = queue
    BY <1>1, <1>4, <2>1 DEF IInv, QueueAnswered, Answerable, ClosedAfter, memory
  <2>2. CASE Len(queue') = 0
    BY <2>2 DEF QueueAnswered
  <2> QED
    BY <1>3, <2>1, <2>2
<1>9. HeldAnswered'
  BY <1>1 DEF HeldAnswered
<1> QED
  BY <1>5, <1>6, <1>7, <1>8, <1>9 DEF IInv

LEMMA RestartP2Keeps ==
    ASSUME IInv, RestartP2
    PROVE  IInv'
<1>1. /\ restarts < MaxRestarts /\ restarts' = restarts + 1
      /\ grids' = saved /\ active' = {} /\ saving' = <<>> /\ outbox' = {}
      /\ lost' = lost \cup ((OpenSlots(grids) \cup Closes(outbox)) \ OpenSlots(saved))
      /\ UNCHANGED <<saved, queue, held>>
  BY DEF RestartP2
<1>2. DOMAIN saving' = {} /\ saving' \in [DOMAIN saving' -> {"levels", "grid", "rows"}]
  BY <1>1
<1>3. lost' \subseteq Slots
  <2>1. Closes(outbox) \subseteq Slots
    BY ClosesIs, MessagesHave DEF IInv, TypeOK
  <2> QED
    BY <1>1, <2>1 DEF IInv, TypeOK, OpenSlots
<1>4. TypeOK'
  <2>1. restarts' \in 0 .. MaxRestarts
    BY <1>1, GridAssumption DEF IInv, TypeOK
  <2> QED
    BY <1>1, <1>2, <1>3, <2>1 DEF IInv, TypeOK
<1>5. Synced' /\ SavedAnswered' /\ OutboxAnswered'
  BY <1>1, <1>2 DEF Synced, SavedAnswered, OutboxAnswered
<1>6. \A x : Answerable(x) => x \in OpenSlots(grids') \/ x \in lost'
  BY <1>1 DEF Answerable
<1>7. QueueAnswered'
  BY <1>1, <1>6 DEF IInv, QueueAnswered, Answerable, ClosedAfter
<1>8. HeldAnswered'
  BY <1>1, <1>6 DEF IInv, HeldAnswered, Due, Answerable
<1> QED
  BY <1>4, <1>5, <1>7, <1>8 DEF IInv

LEMMA NextKeeps == IInv /\ [Next]_vars => IInv'
<1> SUFFICES ASSUME IInv, [Next]_vars PROVE IInv'
  OBVIOUS
<1>1. CASE UNCHANGED vars
  BY <1>1 DEF vars, memory, IInv, TypeOK, Synced, SavedAnswered, OutboxAnswered, QueueAnswered,
              HeldAnswered, Answerable, ClosedAfter, Due
<1>2. CASE P2Works
  BY <1>2, SaveLevelKeeps, LevelsSavedKeeps, SaveGridKeeps, SaveRowsKeeps, SendKeeps DEF P2Works, Save
<1> QED
  BY <1>1, <1>2, ScanKeeps, EvaluateKeeps, P3TakesKeeps, RestartP3Keeps, RestartP2Keeps DEF Next

\* The invariant that the following theorems rest on.
THEOREM Invariance == Spec => []IInv
<1>1. Init => IInv
  BY InitInvariant
<1>2. IInv /\ [Next]_vars => IInv'
  BY NextKeeps
<1> QED
  BY <1>1, <1>2, PTL DEF Spec

\* Grids, their rows, the signals and the level map of P3 are well-formed, and the
\* queue never holds more than it can (grid_engine.py, grid_bias.py).
THEOREM TypeCorrect == Spec => []TypeOK
<1>1. IInv => TypeOK
  BY DEF IInv
<1> QED
  BY <1>1, Invariance, PTL

\* A level P3 holds is open in the grid of P2, or its close is on its way, or that
\* close was dropped by the full queue or lost in a restart.
THEOREM HeldIsAnswered == Spec => []HeldAnswered
<1>1. IInv => HeldAnswered
  BY DEF IInv
<1> QED
  BY <1>1, Invariance, PTL

-----------------------------------------------------------------------------
(* The refinement: every step is a step of LevelDeals or changes nothing of *)
(* what it speaks about.                                                    *)

LEMMA DealsStart == Init => Deals!Init
<1> SUFFICES ASSUME Init PROVE Deals!Init
  OBVIOUS
<1>1. grids = <<>> /\ outbox = {} /\ queue = <<>> /\ held = {} /\ lost = {}
  BY DEF Init
<1>2. OpenSlots(grids) = {}
  BY <1>1 DEF OpenSlots
<1>3. Range(queue) = {}
  BY <1>1 DEF Range
<1>4. Due = {}
  BY <1>1, <1>3, ClosesIs DEF Due
<1> QED
  BY <1>1, <1>2, <1>4 DEF Deals!Init

\* Slots with a close in the queue.
LEMMA QueuedIs ==
    ASSUME queue \in Seq(Messages), NEW x
    PROVE  x \in Closes(Range(queue)) <=>
              \E i \in 1 .. Len(queue) : queue[i].act \in Closing /\ queue[i].slot = x
<1>1. DOMAIN queue = 1 .. Len(queue)
  OBVIOUS
<1>2. Range(queue) = {queue[i] : i \in 1 .. Len(queue)}
  BY <1>1 DEF Range
<1> QED
  BY <1>2, ClosesIs

LEMMA NothingDealt ==
    ASSUME UNCHANGED <<grids, outbox, queue, held, lost>>
    PROVE  UNCHANGED Deals!vars
BY DEF Deals!vars, Due

LEMMA EvaluateDecides ==
    ASSUME IInv, NEW s \in Symbols, Evaluate(s)
    PROVE  Deals!Decide
<1>1. Sound
  BY EvaluateIsSound DEF IInv, TypeOK, GridsTyped
<1>2. /\ outbox = {}
      /\ lost' = lost \ {m.slot : m \in {x \in outbox' : x.act = "FILL"}}
      /\ queue' = queue /\ held' = held
  BY DEF Evaluate, Idle
<1>3. Due \subseteq Due' /\ Closes(outbox') \subseteq Due'
  BY <1>2, ClosesIs DEF Due
<1>4. OpenSlots(grids) \ OpenSlots(grids') \subseteq Due'
  BY <1>1, <1>3 DEF Sound
<1>5. lost' \subseteq lost /\ lost \ lost' \subseteq OpenSlots(grids') \cup Due'
  BY <1>1, <1>2, <1>3 DEF Sound
<1> QED
  BY <1>2, <1>3, <1>4, <1>5 DEF Deals!Decide

\* Sending moves a close from the outbox to the queue, or loses it.
LEMMA SendMayLose ==
    ASSUME IInv, NEW m \in outbox, Send(m)
    PROVE  Deals!Lose
<1>1. /\ grids' = grids /\ held' = held
      /\ outbox' = outbox \ {m}
      /\ HasRoom => queue' = Append(queue, m) /\ lost' = lost
      /\ ~HasRoom => queue' = queue /\ lost' = lost \cup Closes({m})
  BY DEF Send, memory
<1>2. /\ m \in Messages /\ queue \in Seq(Messages) /\ Len(queue) \in Nat
      /\ Append(queue, m) \in Seq(Messages) /\ Len(Append(queue, m)) = Len(queue) + 1
      /\ \A i \in 1 .. Len(queue) : Append(queue, m)[i] = queue[i]
      /\ Append(queue, m)[Len(queue) + 1] = m
  BY AppendProperties DEF IInv, TypeOK
<1>3. queue' = queue \/ queue' = Append(queue, m)
  BY <1>1
<1>4. queue' \in Seq(Messages)
  BY <1>2, <1>3
<1>5. Due' \subseteq Due
  <2> SUFFICES ASSUME NEW x \in Due' PROVE x \in Due
    OBVIOUS
  <2>1. CASE x \in Closes(outbox')
    BY <1>1, <2>1, ClosesIs DEF Due
  <2>2. CASE x \in Closes(Range(queue'))
    <3>1. PICK i \in 1 .. Len(queue') : queue'[i].act \in Closing /\ queue'[i].slot = x
      BY <1>4, <2>2, QueuedIs, ClosesIs DEF Range
    <3>2. CASE i \in 1 .. Len(queue) /\ queue'[i] = queue[i]
      BY <1>2, <3>1, <3>2, QueuedIs DEF Due
    <3>3. CASE queue'[i] = m
      BY <3>1, <3>3, ClosesIs DEF Due
    <3> QED
      BY <1>2, <1>3, <3>2, <3>3
  <2> QED
    BY <2>1, <2>2 DEF Due
<1>6. Due \subseteq Due' \cup lost'
  <2> SUFFICES ASSUME NEW x \in Due PROVE x \in Due' \cup lost'
    OBVIOUS
  <2>1. CASE x \in Closes(Range(queue))
    <3>1. PICK i \in 1 .. Len(queue) : queue[i].act \in Closing /\ queue[i].slot = x
      BY <1>2, <2>1, QueuedIs
    <3>2. i \in DOMAIN queue' /\ queue'[i] = queue[i]
      BY <1>2, <1>3
    <3>3. queue'[i] \in Range(queue')
      BY <3>2 DEF Range
    <3> QED
      BY <3>1, <3>2, <3>3, ClosesIs DEF Due
  <2>2. CASE x \in Closes(outbox)
    <3>1. CASE queue' = Append(queue, m) /\ m.act \in Closing /\ m.slot = x
      <4>1. m \in Range(queue')
        BY <1>2, <3>1 DEF Range
      <4> QED
        BY <3>1, <4>1, ClosesIs DEF Due
    <3> QED
      BY <2>2, <3>1, SendAnswers DEF Due
  <2> QED
    BY <2>1, <2>2 DEF Due
<1>7. lost \subseteq lost'
  BY <1>1
<1> QED
  BY <1>1, <1>5, <1>6, <1>7 DEF Deals!Lose

LEMMA P3TakesDeals ==
    ASSUME IInv, P3Takes
    PROVE  [Deals!Next]_(Deals!vars)
<1> DEFINE m == Head(queue)
<1>1. /\ queue # <<>> /\ queue' = Tail(queue)
      /\ m.act = "FILL" => held' \in {held, held \cup {m.slot}}
      /\ m.act \in Closing => held' = held \ {m.slot}
      /\ m.act # "FILL" /\ m.act \notin Closing => held' = held
      /\ grids' = grids /\ outbox' = outbox /\ lost' = lost
  BY DEF P3Takes, Closing, memory
<1>2. /\ queue \in Seq(Messages) /\ Len(queue) \in Nat
      /\ m = queue[1] /\ m \in Messages /\ 1 \in 1 .. Len(queue)
      /\ queue' \in Seq(Messages) /\ Len(queue') = Len(queue) - 1
      /\ \A i \in 1 .. Len(queue') : queue'[i] = queue[i + 1]
  BY <1>1, HeadTailProperties, EmptySeq DEF IInv, TypeOK
<1> HIDE DEF m
<1>3. ASSUME NEW x
      PROVE  /\ x \in Closes(Range(queue')) => x \in Closes(Range(queue))
             /\ x \in Closes(Range(queue)) =>
                   x \in Closes(Range(queue')) \/ (m.act \in Closing /\ m.slot = x)
  <2>1. ASSUME x \in Closes(Range(queue'))
        PROVE  x \in Closes(Range(queue))
    <3>1. PICK i \in 1 .. Len(queue') : queue'[i].act \in Closing /\ queue'[i].slot = x
      BY <1>2, <2>1, ClosesIs DEF Range
    <3>2. i + 1 \in 1 .. Len(queue) /\ queue[i + 1] = queue'[i]
      BY <1>2
    <3> QED
      BY <1>2, <3>1, <3>2, QueuedIs
  <2>2. ASSUME x \in Closes(Range(queue)), ~(m.act \in Closing /\ m.slot = x)
        PROVE  x \in Closes(Range(queue'))
    <3>1. PICK i \in 1 .. Len(queue) : queue[i].act \in Closing /\ queue[i].slot = x
      BY <1>2, <2>2, QueuedIs
    <3>2. i # 1
      BY <1>2, <2>2, <3>1
    <3>3. i - 1 \in 1 .. Len(queue') /\ queue'[i - 1] = queue[i]
      BY <1>2, <3>2
    <3>4. queue'[i - 1] \in Range(queue')
      BY <1>2, <3>3 DEF Range
    <3> QED
      BY <3>1, <3>3, <3>4, ClosesIs
  <2> QED
    BY <2>1, <2>2
<1>4. /\ Due' \subseteq Due
      /\ m.act \notin Closing => Due' = Due
      /\ m.act \in Closing => Due \ {m.slot} \subseteq Due'
  BY <1>1, <1>3 DEF Due
<1>5. CASE held' = held /\ m.act \notin Closing
  BY <1>1, <1>4, <1>5 DEF Deals!vars
<1>6. CASE m.act = "FILL" /\ held' = held \cup {m.slot}
  <2>1. m.slot \in Slots /\ m.act \notin Closing
    BY <1>2, <1>6 DEF Messages, Closing
  <2>2. m.slot \in OpenSlots(grids) \cup Due \cup lost
    <3>1. Answerable(m.slot) \/ ClosedAfter(m.slot, 1)
      BY <1>2, <1>6 DEF IInv, QueueAnswered
    <3>2. CASE ClosedAfter(m.slot, 1)
      <4>1. PICK j \in 1 + 1 .. Len(queue) : queue[j].act \in Closing /\ queue[j].slot = m.slot
        BY <3>2 DEF ClosedAfter
      <4>2. j \in 1 .. Len(queue)
        BY <1>2, <4>1
      <4> QED
        BY <1>2, <4>1, <4>2, QueuedIs DEF Due
    <3> QED
      BY <3>1, <3>2 DEF Answerable, Due
  <2>3. CASE m.slot \in held
    BY <1>1, <1>4, <1>6, <2>1, <2>3 DEF Deals!vars
  <2>4. CASE m.slot \notin held
    <3>1. Deals!Open(m.slot)
      BY <1>1, <1>4, <1>6, <2>1, <2>2, <2>4 DEF Deals!Open
    <3> QED
      BY <2>1, <3>1 DEF Deals!Next
  <2> QED
    BY <2>3, <2>4
<1>7. CASE m.act \in Closing
  <2>1. m.slot \in Slots
    BY <1>2, <1>7, MessagesHave
  <2>2. m.slot \in Due
    BY <1>2, <1>7, QueuedIs DEF Due
  <2>3. Due' \in {Due, Due \ {m.slot}}
    BY <1>4, <1>7, <2>2
  <2>4. Deals!Close(m.slot)
    BY <1>1, <1>7, <2>2, <2>3 DEF Deals!Close
  <2> QED
    BY <2>1, <2>4 DEF Deals!Next
<1> QED
  BY <1>1, <1>5, <1>6, <1>7 DEF Closing

LEMMA RestartP3Vanishes ==
    ASSUME IInv, RestartP3
    PROVE  Deals!Vanish
<1>1. /\ held' = {} /\ grids' = grids /\ outbox' = outbox
      /\ (queue' = queue /\ lost' = lost) \/ (queue' = <<>> /\ lost' = lost \cup Closes(Range(queue)))
  BY DEF RestartP3, memory
<1>2. CASE queue' = queue /\ lost' = lost
  BY <1>1, <1>2 DEF Due, Deals!Vanish
<1>3. CASE queue' = <<>> /\ lost' = lost \cup Closes(Range(queue))
  <2>1. Range(queue') = {}
    BY <1>3 DEF Range
  <2>2. Closes(Range(queue')) = {}
    BY <2>1, ClosesIs
  <2> QED
    BY <1>1, <1>3, <2>2 DEF Due, Deals!Vanish
<1> QED
  BY <1>1, <1>2, <1>3

LEMMA RestartP2MayLose ==
    ASSUME IInv, RestartP2
    PROVE  Deals!Lose
<1>1. /\ grids' = saved /\ outbox' = {}
      /\ lost' = lost \cup ((OpenSlots(grids) \cup Closes(outbox)) \ OpenSlots(saved))
      /\ queue' = queue /\ held' = held
  BY DEF RestartP2
<1>2. Due' = Closes(Range(queue))
  BY <1>1, ClosesIs DEF Due
<1>3. OpenSlots(grids') \subseteq OpenSlots(grids) \cup Due
  BY <1>1 DEF IInv, SavedAnswered, Due
<1>4. OpenSlots(grids) \cup Due \subseteq OpenSlots(grids') \cup Due' \cup lost'
  BY <1>1, <1>2 DEF Due
<1> QED
  BY <1>1, <1>2, <1>3, <1>4 DEF Due, Deals!Lose

LEMMA EveryStepDeals == IInv /\ [Next]_vars => [Deals!Next]_(Deals!vars)
<1> SUFFICES ASSUME IInv, [Next]_vars
             PROVE  [Deals!Next]_(Deals!vars)
  OBVIOUS
<1>1. CASE UNCHANGED vars
  BY <1>1, NothingDealt DEF vars, memory
<1>2. ASSUME NEW s \in Symbols, Scan(s) \/ Save(s)
      PROVE  UNCHANGED Deals!vars
  BY <1>2, NothingDealt DEF Scan, Save, SaveLevel, LevelsSaved, SaveGrid, SaveRows, memory
<1>3. ASSUME NEW s \in Symbols, Evaluate(s)
      PROVE  Deals!Next
  BY <1>3, EvaluateDecides DEF Deals!Next
<1>4. ASSUME NEW m \in outbox, Send(m)
      PROVE  Deals!Next
  BY <1>4, SendMayLose DEF Deals!Next
<1>5. CASE RestartP3
  BY <1>5, RestartP3Vanishes DEF Deals!Next
<1>6. CASE RestartP2
  BY <1>6, RestartP2MayLose DEF Deals!Next
<1> QED
  BY <1>1, <1>2, <1>3, <1>4, <1>5, <1>6, P3TakesDeals DEF Next, P2Works

\* The strategy with its rows, signals, full queue and restarts implements the
\* promise of LevelDeals: a level is never given up without a close on its way, and
\* a restart brings back no level that had been given up.
THEOREM Refinement == Spec => KeepsDeals
<1>1. Init => Deals!Init
  BY DealsStart
<1>2. IInv /\ [Next]_vars => [Deals!Next]_(Deals!vars)
  BY EveryStepDeals
<1> QED
  BY <1>1, <1>2, Invariance, PTL DEF Spec, KeepsDeals, Deals!Spec

-----------------------------------------------------------------------------
(* The limits of the configuration.  Both need what is in the database as   *)
(* well: a restart takes the grids from there.                              *)

\* Symbols with a grid, in memory or in the database.
WithGrid == DOMAIN grids \cup DOMAIN saved

SymbolsBounded == IsFiniteSet(WithGrid) /\ Cardinality(WithGrid) <= MaxSymbols

LEMMA BoundIsNat == MaxSymbols \in Nat /\ MaxOpen \in Nat
BY GridAssumption

\* A step that brings no new symbol keeps the bound.
LEMMA NoNewSymbol ==
    ASSUME SymbolsBounded, WithGrid' \subseteq WithGrid
    PROVE  SymbolsBounded'
<1>1. IsFiniteSet(WithGrid') /\ Cardinality(WithGrid') <= Cardinality(WithGrid)
  BY FS_Subset DEF SymbolsBounded
<1>2. Cardinality(WithGrid') \in Nat /\ Cardinality(WithGrid) \in Nat
  BY <1>1, FS_CardinalityType DEF SymbolsBounded
<1> QED
  BY <1>1, <1>2, BoundIsNat DEF SymbolsBounded

\* An evaluation adds a grid only if there is room for it.
LEMMA EvaluateAddsOne ==
    ASSUME NEW s \in Symbols, Evaluate(s), GridsTyped
    PROVE  \/ DOMAIN grids' \subseteq DOMAIN grids
           \/ DOMAIN grids' = DOMAIN grids \cup {s} /\ MayCreate
<1>1. \A e \in Evaluated(s) : s \in DOMAIN grids \/ MayCreate
  BY DEF Evaluated
<1>2. ASSUME NEW g, grids' = Put(grids, s, g), s \in DOMAIN grids \/ MayCreate
      PROVE  \/ DOMAIN grids' \subseteq DOMAIN grids
             \/ DOMAIN grids' = DOMAIN grids \cup {s} /\ MayCreate
  <2>1. DOMAIN grids' = DOMAIN grids \cup {s}
    BY <1>2 DEF Put
  <2> QED
    BY <1>2, <2>1
<1>3. CASE HardStop
  BY <1>3 DEF HardStop
<1>4. CASE CloseGrid(s)
  BY <1>4 DEF CloseGrid, Without
<1>5. CASE Recenter(s)
  <2>1. \E e \in Evaluated(s) : \E g : grids' = Put(grids, s, g)
    BY <1>5 DEF Recenter
  <2> QED
    BY <1>1, <1>2, <2>1
<1>6. CASE RecenterFails(s)
  BY <1>1, <1>2, <1>6 DEF RecenterFails
<1>7. CASE Trade(s)
  <2>1. \E e \in Evaluated(s) : \E g : grids' = Put(grids, s, g)
    <3>1. PICK e \in Evaluated(s) :
            \E X \in SUBSET (DOMAIN e.grid \ OpenIn(e.grid)) : \E F \in Unblocked(X) :
            \E C \in Hit(OpenIn(e.grid) \cup F) : \E D \in SUBSET (F \ C) : TradeResult(s, e, X, F, C, D)
      BY <1>7, TradeGives
    <3>2. PICK X, F, C, D : TradeResult(s, e, X, F, C, D)
      BY <3>1
    <3>3. grids' = Put(grids, s, Traded(e.grid, F, C, D))
      BY <3>2 DEF TradeResult
    <3> QED
      BY <3>3
  <2> QED
    BY <1>1, <1>2, <2>1
<1> QED
  BY <1>3, <1>4, <1>5, <1>6, <1>7 DEF Evaluate

LEMMA SymbolsStayBounded ==
    ASSUME IInv, SymbolsBounded, [Next]_vars
    PROVE  SymbolsBounded'
<1>1. ASSUME NEW s \in Symbols, Evaluate(s)
      PROVE  SymbolsBounded'
  <2>1. saved' = saved /\ DOMAIN saved \subseteq DOMAIN grids
    BY <1>1 DEF Evaluate, Idle, IInv, Synced
  <2>2. CASE DOMAIN grids' \subseteq DOMAIN grids
    BY <2>1, <2>2, NoNewSymbol DEF WithGrid
  <2>3. CASE DOMAIN grids' = DOMAIN grids \cup {s} /\ MayCreate
    <3>1. WithGrid = DOMAIN grids /\ WithGrid' = WithGrid \cup {s}
      BY <2>1, <2>3 DEF WithGrid
    <3>2. IsFiniteSet(WithGrid) /\ Cardinality(WithGrid) \in Nat /\ Cardinality(WithGrid) < MaxSymbols
      BY <2>3, <3>1, FS_CardinalityType DEF SymbolsBounded, MayCreate
    <3>3. IsFiniteSet(WithGrid') /\ Cardinality(WithGrid') <= Cardinality(WithGrid) + 1
      BY <3>1, <3>2, FS_AddElement
    <3>4. Cardinality(WithGrid') \in Nat
      BY <3>3, FS_CardinalityType
    <3> QED
      BY <3>2, <3>3, <3>4, BoundIsNat DEF SymbolsBounded
  <2> QED
    BY <1>1, <2>2, <2>3, EvaluateAddsOne DEF IInv, TypeOK, GridsTyped
<1>2. ASSUME NEW s \in Symbols, Save(s)
      PROVE  WithGrid' \subseteq WithGrid
  <2>1. DOMAIN grids' = DOMAIN grids
    BY <1>2 DEF Save, SaveLevel, LevelsSaved, SaveGrid, SaveRows, memory
  <2>2. CASE SaveLevel(s)
    <3>1. s \in DOMAIN saved
      BY <2>2 DEF SaveLevel, IInv, Synced
    <3>2. DOMAIN saved' = DOMAIN saved \cup {s}
      BY <2>2 DEF SaveLevel, Put
    <3> QED
      BY <2>1, <3>1, <3>2 DEF WithGrid
  <2>3. CASE LevelsSaved(s)
    BY <2>1, <2>3 DEF LevelsSaved, WithGrid
  <2>4. CASE SaveGrid(s)
    <3>1. DOMAIN saved' \subseteq DOMAIN saved \cup DOMAIN grids
      BY <2>4 DEF SaveGrid, Put, Without
    <3> QED
      BY <2>1, <3>1 DEF WithGrid
  <2>5. CASE SaveRows(s)
    <3>1. s \in DOMAIN grids
      BY <2>5 DEF SaveRows, IInv, Synced
    <3>2. DOMAIN saved' = DOMAIN saved \cup {s}
      BY <2>5 DEF SaveRows, Put
    <3> QED
      BY <2>1, <3>1, <3>2 DEF WithGrid
  <2> QED
    BY <1>2, <2>2, <2>3, <2>4, <2>5 DEF Save
<1>3. CASE RestartP2
  BY <1>3, NoNewSymbol DEF RestartP2, WithGrid
<1>4. ASSUME UNCHANGED <<grids, saved>>
      PROVE  WithGrid' \subseteq WithGrid
  BY <1>4 DEF WithGrid
<1>5. CASE UNCHANGED vars \/ P3Takes \/ RestartP3
  BY <1>4, <1>5, NoNewSymbol DEF vars, memory, P3Takes, RestartP3
<1>6. ASSUME NEW s \in Symbols, Scan(s)
      PROVE  SymbolsBounded'
  BY <1>4, <1>6, NoNewSymbol DEF Scan
<1>7. ASSUME NEW m \in outbox, Send(m)
      PROVE  SymbolsBounded'
  BY <1>4, <1>7, NoNewSymbol DEF Send, memory
<1> QED
  BY <1>1, <1>2, <1>3, <1>5, <1>6, <1>7, NoNewSymbol DEF Next, P2Works

\* max_symbols holds at every time, also when P2 restarts in the middle of a hard
\* stop, whose grids are marked stopped one by one.
THEOREM GridsAreBounded == Spec => []GridsBounded
<1>1. Init => SymbolsBounded
  <2> SUFFICES ASSUME Init PROVE SymbolsBounded
    OBVIOUS
  <2>1. WithGrid = {}
    BY DEF Init, WithGrid
  <2> QED
    BY <2>1, FS_EmptySet, BoundIsNat DEF SymbolsBounded
<1>2. IInv /\ SymbolsBounded /\ [Next]_vars => SymbolsBounded'
  BY SymbolsStayBounded
<1>3. SymbolsBounded => GridsBounded
  <2> SUFFICES ASSUME SymbolsBounded PROVE GridsBounded
    OBVIOUS
  <2>1. DOMAIN grids \in SUBSET WithGrid
    BY DEF WithGrid
  <2>2. IsFiniteSet(DOMAIN grids) /\ Cardinality(DOMAIN grids) <= Cardinality(WithGrid)
    BY <2>1, FS_Subset DEF SymbolsBounded
  <2>3. Cardinality(DOMAIN grids) \in Nat /\ Cardinality(WithGrid) \in Nat
    BY <2>2, FS_CardinalityType DEF SymbolsBounded
  <2> QED
    BY <2>2, <2>3, BoundIsNat DEF SymbolsBounded, GridsBounded
<1> QED
  BY <1>1, <1>2, <1>3, Invariance, PTL DEF Spec

\* Levels of s that are open in memory or in the database.
OpenOf(G, s) == IF s \in DOMAIN G THEN OpenIn(G[s]) ELSE {}
OpenAnywhere(s) == OpenOf(grids, s) \cup OpenOf(saved, s)

LevelsBounded == \A s \in Symbols : Cardinality(OpenAnywhere(s)) <= MaxOpen

LEMMA IndicesAreFinite == IsFiniteSet(Indices)
<1> DEFINE f == [n \in LevelCounts |-> (-n .. n) \ {0}]
           T == {(-n .. n) \ {0} : n \in LevelCounts}
<1>1. f \in Surjection(LevelCounts, T)
  BY DEF Surjection
<1>2. IsFiniteSet(T)
  BY <1>1, FS_Surjection, GridAssumption
<1>3. \A n \in LevelCounts : IsFiniteSet((-n .. n) \ {0})
  <2> SUFFICES ASSUME NEW n \in LevelCounts PROVE IsFiniteSet((-n .. n) \ {0})
    OBVIOUS
  <2>1. n \in Int /\ -n \in Int
    BY GridAssumption
  <2>2. IsFiniteSet(-n .. n)
    BY <2>1, FS_Interval
  <2> QED
    BY <2>2, FS_RemoveElement
<1>4. \A I \in T : IsFiniteSet(I)
  BY <1>3
<1> HIDE DEF T
<1>5. IsFiniteSet(UNION T)
  BY <1>2, <1>4, FS_UNION
<1> QED
  BY <1>5 DEF T, Indices

LEMMA OpenIsFinite ==
    ASSUME NEW I \in SUBSET Indices
    PROVE  IsFiniteSet(I) /\ Cardinality(I) \in Nat
BY IndicesAreFinite, FS_Subset, FS_CardinalityType

LEMMA OpenAnywhereIs ==
    ASSUME TypeOK, NEW s \in Symbols
    PROVE  OpenAnywhere(s) \in SUBSET Indices
<1>1. s \in DOMAIN grids => OpenIn(grids[s]) \subseteq Indices
  BY GridIs DEF TypeOK, OpenIn
<1>2. s \in DOMAIN saved => OpenIn(saved[s]) \subseteq Indices
  BY GridIs DEF TypeOK, OpenIn
<1> QED
  BY <1>1, <1>2 DEF OpenAnywhere, OpenOf

\* A step that opens no level keeps the bound.
LEMMA NoNewOpen ==
    ASSUME TypeOK, LevelsBounded, NEW s \in Symbols, NEW I, I \subseteq OpenAnywhere(s)
    PROVE  Cardinality(I) <= MaxOpen
<1>1. IsFiniteSet(OpenAnywhere(s)) /\ Cardinality(OpenAnywhere(s)) \in Nat
  BY OpenAnywhereIs, OpenIsFinite
<1>2. IsFiniteSet(I) /\ Cardinality(I) <= Cardinality(OpenAnywhere(s))
  BY <1>1, FS_Subset
<1>3. Cardinality(I) \in Nat
  BY <1>2, FS_CardinalityType
<1> QED
  BY <1>1, <1>2, <1>3, BoundIsNat DEF LevelsBounded

\* The levels open after a trade were open before or are among those filled.
LEMMA TradeOpens ==
    ASSUME NEW g \in Grid, NEW X \in SUBSET DOMAIN g, NEW F \in Unblocked(X), NEW C, NEW D \in SUBSET F
    PROVE  OpenIn(Traded(g, F, C, D)) \subseteq OpenIn(g) \cup X
BY DEF OpenIn, Traded, Unblocked

\* What an evaluation may leave open in the grid of s.
LEMMA EvaluateOpens ==
    ASSUME IInv, LevelsBounded, NEW s \in Symbols, Evaluate(s)
    PROVE  \/ OpenOf(grids', s) \subseteq OpenOf(grids, s)
           \/ \E X \in SUBSET Indices :
                 /\ OpenOf(grids', s) \subseteq OpenOf(grids, s) \cup X
                 /\ Cardinality(X) <= MaxOpen - Cardinality(OpenOf(grids, s))
<1>1. \A t \in DOMAIN grids : grids[t] \in Grid
  BY DEF IInv, TypeOK
<1>2. ASSUME NEW e \in Evaluated(s)
      PROVE  e.grid \in Grid /\ OpenIn(e.grid) = OpenOf(grids, s)
  BY <1>1, <1>2, EvaluatedIs DEF OpenOf
<1>3. ASSUME NEW g, grids' = Put(grids, s, g)
      PROVE  OpenOf(grids', s) = OpenIn(g)
  BY <1>3 DEF OpenOf, Put
<1>4. CASE HardStop
  BY <1>4 DEF HardStop, OpenOf
<1>5. CASE CloseGrid(s)
  BY <1>5 DEF CloseGrid, Without, OpenOf
<1>6. CASE RecenterFails(s)
  <2>1. PICK e \in Evaluated(s) : grids' = Put(grids, s, e.grid)
    BY <1>6 DEF RecenterFails
  <2> QED
    BY <1>2, <1>3, <2>1
<1>7. CASE Recenter(s)
  <2>1. PICK e \in Evaluated(s), g \in NewGrids :
          grids' = Put(grids, s, [i \in Kept(e.grid) \cup DOMAIN g |->
                                     IF i \in Kept(e.grid) THEN e.grid[i] ELSE g[i]])
    BY <1>7 DEF Recenter
  <2> DEFINE h == [i \in Kept(e.grid) \cup DOMAIN g |-> IF i \in Kept(e.grid) THEN e.grid[i] ELSE g[i]]
  <2>2. OpenIn(g) = {}
    BY NewGridsArePending
  <2>3. OpenIn(h) \subseteq OpenIn(e.grid)
    BY <2>2 DEF OpenIn, Kept
  <2> HIDE DEF h
  <2>4. grids' = Put(grids, s, h)
    BY <2>1 DEF h
  <2> QED
    BY <1>2, <1>3, <2>3, <2>4
<1>8. CASE Trade(s)
  <2>a. PICK e \in Evaluated(s) :
          \E X \in SUBSET (DOMAIN e.grid \ OpenIn(e.grid)) : \E F \in Unblocked(X) :
          \E C \in Hit(OpenIn(e.grid) \cup F) : \E D \in SUBSET (F \ C) : TradeResult(s, e, X, F, C, D)
    BY <1>8, TradeGives
  <2>b. PICK X \in SUBSET (DOMAIN e.grid \ OpenIn(e.grid)) : \E F \in Unblocked(X) :
          \E C \in Hit(OpenIn(e.grid) \cup F) : \E D \in SUBSET (F \ C) : TradeResult(s, e, X, F, C, D)
    BY <2>a
  <2>c. PICK F \in Unblocked(X) :
          \E C \in Hit(OpenIn(e.grid) \cup F) : \E D \in SUBSET (F \ C) : TradeResult(s, e, X, F, C, D)
    BY <2>b
  <2>1. PICK C, D : D \subseteq F /\ TradeResult(s, e, X, F, C, D)
    BY <2>c
  <2>2. grids' = Put(grids, s, Traded(e.grid, F, C, D)) /\ (X # {} => Cardinality(X) <= RoomToOpen(e.grid))
    BY <2>1 DEF TradeResult
  <2>3. e.grid \in Grid /\ OpenIn(e.grid) = OpenOf(grids, s) /\ X \in SUBSET Indices
    BY <1>2, GridIs
  <2>4. OpenOf(grids', s) \subseteq OpenOf(grids, s) \cup X
    BY <1>3, <2>1, <2>2, <2>3, TradeOpens
  <2>5. X # {} => Cardinality(X) <= MaxOpen - Cardinality(OpenOf(grids, s))
    BY <2>2, <2>3 DEF RoomToOpen
  <2> QED
    BY <2>3, <2>4, <2>5
<1> QED
  BY <1>4, <1>5, <1>6, <1>7, <1>8 DEF Evaluate

\* An evaluation gives no other symbol an open level.
LEMMA OthersStay ==
    ASSUME NEW s \in Symbols, Evaluate(s), NEW t, t # s
    PROVE  OpenOf(grids', t) \subseteq OpenOf(grids, t)
<1>1. \/ grids' = <<>> \/ grids' = Without(grids, s)
      \/ \E g : grids' = Put(grids, s, g)
  <2>1. CASE Trade(s)
    <3>1. PICK e \in Evaluated(s) :
            \E X \in SUBSET (DOMAIN e.grid \ OpenIn(e.grid)) : \E F \in Unblocked(X) :
            \E C \in Hit(OpenIn(e.grid) \cup F) : \E D \in SUBSET (F \ C) : TradeResult(s, e, X, F, C, D)
      BY <2>1, TradeGives
    <3>2. PICK X, F, C, D : TradeResult(s, e, X, F, C, D)
      BY <3>1
    <3> QED
      BY <3>2 DEF TradeResult
  <2> QED
    BY <2>1 DEF Evaluate, HardStop, CloseGrid, Recenter, RecenterFails
<1> QED
  BY <1>1 DEF OpenOf, Put, Without

LEMMA LevelsStayBounded ==
    ASSUME IInv, LevelsBounded, [Next]_vars
    PROVE  LevelsBounded'
<1> SUFFICES ASSUME NEW t \in Symbols
             PROVE  Cardinality(OpenOf(grids', t) \cup OpenOf(saved', t)) <= MaxOpen
  BY DEF LevelsBounded, OpenAnywhere
<1> DEFINE I == OpenOf(grids', t) \cup OpenOf(saved', t)
<1>1. ASSUME I \subseteq OpenAnywhere(t)
      PROVE  Cardinality(I) <= MaxOpen
  BY <1>1, NoNewOpen DEF IInv
<1>2. ASSUME NEW s \in Symbols, Evaluate(s)
      PROVE  Cardinality(I) <= MaxOpen
  <2>1. saved' = saved /\ OpenOf(saved, t) \subseteq OpenOf(grids, t)
    BY <1>2 DEF Evaluate, Idle, IInv, Synced, OpenOf
  <2>2. CASE OpenOf(grids', t) \subseteq OpenOf(grids, t)
    BY <1>1, <2>1, <2>2 DEF OpenAnywhere
  <2>3. ASSUME NEW X \in SUBSET Indices,
               OpenOf(grids', t) \subseteq OpenOf(grids, t) \cup X,
               Cardinality(X) <= MaxOpen - Cardinality(OpenOf(grids, t))
        PROVE  Cardinality(I) <= MaxOpen
    <3> DEFINE O == OpenOf(grids, t)
    <3>1. O \in SUBSET Indices
      BY OpenAnywhereIs DEF OpenAnywhere, IInv
    <3>2. IsFiniteSet(O) /\ IsFiniteSet(X) /\ Cardinality(O) \in Nat /\ Cardinality(X) \in Nat
      BY <3>1, OpenIsFinite
    <3>3. O \cap X \in SUBSET Indices /\ O \cup X \in SUBSET Indices
      BY <3>1
    <3>4. /\ IsFiniteSet(O \cup X) /\ Cardinality(O \cap X) \in Nat /\ Cardinality(O \cup X) \in Nat
          /\ Cardinality(O \cup X) = Cardinality(O) + Cardinality(X) - Cardinality(O \cap X)
      BY <3>2, <3>3, OpenIsFinite, FS_Union
    <3>5. I \subseteq O \cup X
      BY <2>1, <2>3
    <3>6. IsFiniteSet(I) /\ Cardinality(I) <= Cardinality(O \cup X)
      BY <3>4, <3>5, FS_Subset
    <3>7. Cardinality(I) \in Nat
      BY <3>6, FS_CardinalityType
    <3> HIDE DEF I, O
    <3>8. Cardinality(X) <= MaxOpen - Cardinality(O)
      BY <2>3 DEF O
    <3> QED
      BY <3>2, <3>4, <3>6, <3>7, <3>8, BoundIsNat
  <2>4. CASE t = s
    BY <1>2, <2>2, <2>3, <2>4, EvaluateOpens
  <2>5. CASE t # s
    BY <1>2, <2>2, <2>5, OthersStay
  <2> QED
    BY <2>4, <2>5
<1>3. ASSUME NEW s \in Symbols, Save(s)
      PROVE  I \subseteq OpenAnywhere(t)
  <2>1. grids' = grids
    BY <1>3 DEF Save, SaveLevel, LevelsSaved, SaveGrid, SaveRows, memory
  <2>2. OpenOf(saved', t) \subseteq OpenAnywhere(t)
    <3>1. CASE SaveLevel(s)
      <4>1. PICK i \in DOMAIN saved[s] \cap DOMAIN grids[s] :
              saved' = Put(saved, s, Put(saved[s], i, grids[s][i]))
        BY <3>1 DEF SaveLevel
      <4>2. s \in DOMAIN saved /\ s \in DOMAIN grids
        BY <3>1 DEF SaveLevel, IInv, Synced
      <4>3. CASE t = s
        <5>1. OpenIn(Put(saved[s], i, grids[s][i])) \subseteq OpenIn(saved[s]) \cup OpenIn(grids[s])
          BY DEF OpenIn, Put
        <5>2. OpenOf(saved', t) = OpenIn(Put(saved[s], i, grids[s][i]))
          <6> DEFINE g == Put(saved[s], i, grids[s][i])
          <6> HIDE DEF g
          <6>1. saved' = Put(saved, s, g)
            BY <4>1 DEF g
          <6>2. OpenOf(saved', t) = OpenIn(g)
            BY <4>3, <6>1 DEF OpenOf, Put
          <6> QED
            BY <6>2 DEF g
        <5> QED
          BY <4>2, <4>3, <5>1, <5>2 DEF OpenAnywhere, OpenOf
      <4>4. CASE t # s
        <5>1. OpenOf(saved', t) = OpenOf(saved, t)
          BY <4>1, <4>4 DEF OpenOf, Put
        <5> QED
          BY <5>1 DEF OpenAnywhere
      <4> QED
        BY <4>3, <4>4
    <3>2. CASE LevelsSaved(s)
      BY <3>2 DEF LevelsSaved, OpenAnywhere
    <3>3. CASE SaveGrid(s)
      <4>1. saved' = Put(saved, s, <<>>) \/ saved' = Without(saved, s)
        BY <3>3 DEF SaveGrid
      <4>2. OpenOf(saved', t) \subseteq OpenOf(saved, t)
        BY <4>1, EmptyGrid DEF OpenOf, Put, Without
      <4> QED
        BY <4>2 DEF OpenAnywhere
    <3>4. CASE SaveRows(s)
      <4>1. saved' = Put(saved, s, grids[s]) /\ s \in DOMAIN grids
        BY <3>4 DEF SaveRows, IInv, Synced
      <4> QED
        BY <4>1 DEF OpenAnywhere, OpenOf, Put
    <3> QED
      BY <1>3, <3>1, <3>2, <3>3, <3>4 DEF Save
  <2> QED
    BY <2>1, <2>2 DEF OpenAnywhere
<1>4. ASSUME RestartP2
      PROVE  Cardinality(I) <= MaxOpen
  BY <1>1, <1>4 DEF RestartP2, OpenAnywhere
<1>5. ASSUME UNCHANGED <<grids, saved>>
      PROVE  Cardinality(I) <= MaxOpen
  BY <1>1, <1>5 DEF OpenAnywhere
<1>6. ASSUME UNCHANGED vars \/ P3Takes \/ RestartP3
      PROVE  Cardinality(I) <= MaxOpen
  BY <1>5, <1>6 DEF vars, memory, P3Takes, RestartP3
<1>7. ASSUME NEW s \in Symbols, Scan(s)
      PROVE  Cardinality(I) <= MaxOpen
  BY <1>5, <1>7 DEF Scan
<1>8. ASSUME NEW m \in outbox, Send(m)
      PROVE  Cardinality(I) <= MaxOpen
  BY <1>5, <1>8 DEF Send, memory
<1> HIDE DEF I
<1>9. Cardinality(I) <= MaxOpen
  <2>1. CASE P2Works
    BY <1>1, <1>3, <1>8, <2>1 DEF P2Works
  <2> QED
    BY <1>2, <1>4, <1>6, <1>7, <2>1 DEF Next
<1> QED
  BY <1>9 DEF I

\* max_open_levels holds for every grid at every time: also after a recenter, which
\* keeps the open levels, and after a restart in the middle of writing the levels.
THEOREM OpenIsBounded == Spec => []OpenBounded
<1>1. Init => LevelsBounded
  <2> SUFFICES ASSUME Init, NEW s \in Symbols PROVE Cardinality(OpenAnywhere(s)) <= MaxOpen
    BY DEF LevelsBounded
  <2>1. OpenAnywhere(s) = {}
    BY DEF Init, OpenAnywhere, OpenOf
  <2> QED
    BY <2>1, FS_EmptySet, BoundIsNat
<1>2. IInv /\ LevelsBounded /\ [Next]_vars => LevelsBounded'
  BY LevelsStayBounded
<1>3. IInv /\ LevelsBounded => OpenBounded
  <2> SUFFICES ASSUME IInv, LevelsBounded, NEW s \in DOMAIN grids
               PROVE  Cardinality(OpenIn(grids[s])) <= MaxOpen
    BY DEF OpenBounded
  <2>1. s \in Symbols /\ OpenIn(grids[s]) \subseteq OpenAnywhere(s)
    BY DEF IInv, TypeOK, OpenAnywhere, OpenOf
  <2> QED
    BY <2>1, NoNewOpen DEF IInv
<1> QED
  BY <1>1, <1>2, <1>3, Invariance, PTL DEF Spec

=============================================================================
