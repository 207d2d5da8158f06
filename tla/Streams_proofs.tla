---------------------------- MODULE Streams_proofs ----------------------------
(* Safety of P1's candle streams, for all sets of symbols and timeframes and *)
(* all batch sizes: nothing is asked for that is not subscribed, and once a  *)
(* connection only receives, everything that is subscribed was asked for on  *)
(* it, and nothing twice.                                                    *)
EXTENDS Streams, TLAPS

\* A symbol is active only with its pairs subscribed.
ActiveSubscribed == PairsOf(active) \subseteq subs

\* On an open connection a pair that is subscribed was asked for, or the snapshot
\* still has it; what is subscribed after the snapshot is asked for at once.
AskedOrBatched ==
    conn = "up" => task # "connect" /\ subs \subseteq batch \cup wire \cup streams \cup refused

IInv ==
    /\ TypeOK
    /\ ActiveSubscribed
    /\ AskedOrBatched
    /\ task = "recv" => batch = {}

LEMMA PairsAre ==
    /\ \A S, x : x \in PairsOf(S) <=> \E s \in S, f \in Frames : x = <<s, f>>
    /\ \A S \in SUBSET (Base \cup Symbols) : PairsOf(S) \subseteq Pairs
BY DEF PairsOf, Pairs

LEMMA InitInvariant == Init => IInv
BY StreamsAssumption, PairsAre DEF Init, IInv, TypeOK, ActiveSubscribed, AskedOrBatched

\* Subscribing keeps the invariant, whatever the connection does.
LEMMA SubscribeKeeps ==
    ASSUME IInv, NEW s \in Base \cup Symbols, Subscribes(PairsOf({s})),
           UNCHANGED <<task, batch, conn, streams, refused>>
    PROVE  /\ subs' \subseteq Pairs /\ subs \subseteq subs' /\ PairsOf({s}) \subseteq subs'
           /\ wire' \cup streams' \cup refused' \subseteq subs'
           /\ AskedOrBatched'
<1>1. PairsOf({s}) \subseteq Pairs
  BY PairsAre
<1>2. subs' = subs \cup PairsOf({s})
  BY DEF Subscribes, Kept
<1>3. wire' = IF conn = "up" THEN wire \cup (PairsOf({s}) \ subs) ELSE wire
  BY DEF Subscribes
<1>4. wire' \cup streams' \cup refused' \subseteq subs'
  BY <1>2, <1>3 DEF IInv, TypeOK
<1>5. AskedOrBatched'
  BY <1>2, <1>3 DEF IInv, AskedOrBatched
<1> QED
  BY <1>1, <1>2, <1>4, <1>5 DEF IInv, TypeOK

LEMMA StartBaseKeeps ==
    ASSUME IInv, NEW s \in Base, StartBase(s)
    PROVE  IInv'
<1>1. /\ alive' \in BOOLEAN /\ starting' \in BOOLEAN /\ todo' \subseteq todo
      /\ UNCHANGED <<asked, active, task, batch, conn, streams, refused, breaks>>
  BY DEF StartBase, IInv, TypeOK
<1>2. /\ subs' \subseteq Pairs /\ subs \subseteq subs'
      /\ wire' \cup streams' \cup refused' \subseteq subs'
      /\ AskedOrBatched'
  BY <1>1, SubscribeKeeps DEF StartBase
<1>3. TypeOK'
  BY <1>1, <1>2 DEF IInv, TypeOK
<1> QED
  BY <1>1, <1>2, <1>3 DEF IInv, ActiveSubscribed

LEMMA AddSymbolKeeps ==
    ASSUME IInv, NEW s \in Symbols, AddSymbol(s)
    PROVE  IInv'
<1>1. /\ active' \in {active, active \cup {s}} /\ todo' = {}
      /\ UNCHANGED <<alive, asked, starting, task, batch, conn, streams, refused, breaks>>
  BY DEF AddSymbol
<1>2. /\ subs' \subseteq Pairs /\ subs \subseteq subs' /\ PairsOf({s}) \subseteq subs'
      /\ wire' \cup streams' \cup refused' \subseteq subs'
      /\ AskedOrBatched'
  BY <1>1, SubscribeKeeps DEF AddSymbol
<1>3. TypeOK'
  BY <1>1, <1>2 DEF IInv, TypeOK
<1>4. PairsOf(active') \subseteq subs'
  BY <1>1, <1>2, PairsAre DEF IInv, ActiveSubscribed
<1> QED
  BY <1>1, <1>2, <1>3, <1>4 DEF IInv, ActiveSubscribed

LEMMA ConnectionKeeps ==
    ASSUME IInv, ConnectionTask
    PROVE  IInv'
<1>1. CASE Connect
  BY <1>1 DEF Connect, Snapshot, collector, IInv, TypeOK, ActiveSubscribed, AskedOrBatched
<1>2. CASE Resubscribe
  <2>1. PICK B \in SUBSET batch : batch' = batch \ B /\ wire' = wire \cup B
    BY <1>2 DEF Resubscribe
  <2>2. /\ task = "resub" /\ conn = "up"
        /\ task' = IF batch' = {} THEN "recv" ELSE "resub"
        /\ UNCHANGED <<alive, collector, subs, conn, streams, refused, breaks>>
    BY <1>2 DEF Resubscribe
  <2>3. TypeOK'
    BY <2>1, <2>2 DEF IInv, TypeOK, collector
  <2>4. ActiveSubscribed' /\ AskedOrBatched'
    BY <2>1, <2>2 DEF IInv, ActiveSubscribed, AskedOrBatched, collector
  <2> QED
    BY <2>2, <2>3, <2>4 DEF IInv
<1>3. CASE Notice
  BY <1>3 DEF Notice, Broken, collector, exchange, IInv, TypeOK, ActiveSubscribed, AskedOrBatched
<1> QED
  BY <1>1, <1>2, <1>3 DEF ConnectionTask

LEMMA NextKeeps == IInv /\ [Next]_vars => IInv'
<1> SUFFICES ASSUME IInv, [Next]_vars PROVE IInv'
  OBVIOUS
<1> USE DEF collector, exchange
<1>1. CASE UNCHANGED vars
  BY <1>1 DEF vars, IInv, TypeOK, ActiveSubscribed, AskedOrBatched
<1>2. ASSUME NEW s \in Symbols, Ask(s) \/ Take(s)
      PROVE  IInv'
  <2>1. asked' \subseteq Symbols /\ todo' \subseteq Base \cup Symbols
    BY <1>2 DEF Ask, Take, IInv, TypeOK
  <2>2. UNCHANGED <<alive, starting, active, subs, task, batch, conn, exchange, breaks>>
    BY <1>2 DEF Ask, Take
  <2> QED
    BY <2>1, <2>2 DEF IInv, TypeOK, ActiveSubscribed, AskedOrBatched
<1>3. CASE Stop
  <2>1. PairsOf({}) = {}
    BY PairsAre
  <2> QED
    BY <1>3, <2>1 DEF Stop, IInv, TypeOK, ActiveSubscribed, AskedOrBatched
<1>4. ASSUME NEW x \in Pairs, Answer(x)
      PROVE  IInv'
  BY <1>4 DEF Answer, IInv, TypeOK, ActiveSubscribed, AskedOrBatched
<1>5. CASE Break
  <2>1. breaks' \in 0 .. MaxBreaks
    BY <1>5, StreamsAssumption DEF Break, IInv, TypeOK
  <2> QED
    BY <1>5, <2>1 DEF Break, IInv, TypeOK, ActiveSubscribed, AskedOrBatched
<1> QED
  BY <1>1, <1>2, <1>3, <1>4, <1>5, StartBaseKeeps, AddSymbolKeeps, ConnectionKeeps DEF Next

\* The invariant of the two tasks.
THEOREM Invariance == Spec => []IInv
BY InitInvariant, NextKeeps, PTL DEF Spec

\* What the exchange is asked for and sends is what the manager regards as subscribed
\* (websocket_manager.py: _subscriptions is never shrunk by a failed send).
THEOREM TypeCorrect == Spec => []TypeOK
<1>1. IInv => TypeOK
  BY DEF IInv
<1> QED
  BY <1>1, Invariance, PTL

\* Once a connection only receives, everything subscribed or active was asked for on
\* it, also what was added while it was down, broken or being set up.
THEOREM EverythingIsAsked == Spec => []AllAsked
<1>1. IInv => AllAsked
  BY DEF IInv, AllAsked, ActiveSubscribed, AskedOrBatched
<1> QED
  BY <1>1, Invariance, PTL

-----------------------------------------------------------------------------
(* Asked for once.                                                          *)

\* The main task asks for what is new, which no place has yet.
LEMMA SubscribesOnce ==
    ASSUME TypeOK, AskedOnce, NEW P, Subscribes(P), UNCHANGED <<batch, conn, streams, refused>>
    PROVE  AskedOnce'
<1>1. batch \subseteq subs /\ wire \cup streams \cup refused \subseteq subs
  BY DEF TypeOK
<1>2. wire' = IF conn = "up" THEN wire \cup (P \ subs) ELSE wire
  BY DEF Subscribes
<1> QED
  BY <1>1, <1>2 DEF AskedOnce

LEMMA OnceKept == IInv /\ AskedOnce /\ [Next]_vars => AskedOnce'
<1> SUFFICES ASSUME IInv, AskedOnce, [Next]_vars PROVE AskedOnce'
  OBVIOUS
<1>1. ASSUME UNCHANGED <<batch, exchange>>, conn' = conn \/ conn' # "up" PROVE AskedOnce'
  BY <1>1 DEF AskedOnce, exchange
<1>2. CASE UNCHANGED vars \/ Stop \/ \E s \in Symbols : Ask(s) \/ Take(s)
  BY <1>1, <1>2 DEF vars, Stop, Ask, Take
<1>3. ASSUME NEW s, AddSymbol(s) \/ StartBase(s) PROVE AskedOnce'
  BY <1>3, SubscribesOnce DEF AddSymbol, StartBase, IInv
<1>4. CASE Connect
  BY <1>4 DEF Connect, AskedOnce
<1>5. CASE Resubscribe
  <2>1. PICK B \in SUBSET batch : batch' = batch \ B /\ wire' = wire \cup B
    BY <1>5 DEF Resubscribe
  <2>2. UNCHANGED <<conn, streams, refused>>
    BY <1>5 DEF Resubscribe
  <2> QED
    BY <2>1, <2>2 DEF AskedOnce
<1>6. CASE Notice
  BY <1>6 DEF Notice, AskedOnce
<1>7. ASSUME NEW x \in Pairs, Answer(x) PROVE AskedOnce'
  BY <1>7 DEF Answer, AskedOnce
<1>8. CASE Break
  BY <1>8 DEF Break, AskedOnce
<1> QED
  BY <1>2, <1>3, <1>4, <1>5, <1>6, <1>7, <1>8 DEF Next, ConnectionTask

\* On one connection no pair is asked for twice: what the connection task has still to
\* ask for, what is on the way, what streams and what was refused are apart, whatever
\* the main task subscribes meanwhile (websocket_manager.py: subscribe_many skips what
\* it has noted, _resubscribe_all takes one snapshot).
THEOREM EverythingIsAskedOnce == Spec => []AskedOnce
<1>1. Init => AskedOnce
  BY DEF Init, AskedOnce
<1> QED
  BY <1>1, OnceKept, Invariance, PTL DEF Spec

=============================================================================
