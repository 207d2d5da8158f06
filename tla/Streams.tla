-------------------------------- MODULE Streams --------------------------------
(***************************************************************************)
(* The candle streams of P1: DataCollectorProcess, DataCollector and       *)
(* WebSocketManager (src/src/collector/).  Two tasks of one event loop     *)
(* share the set of subscriptions: the main task, which starts the base    *)
(* symbols and adds those the orchestrator asks for, and the connection    *)
(* task, which connects, asks for everything again and receives.  Every    *)
(* await of one lets the other run; the connection may break at any time,  *)
(* and the program notices it later.                                       *)
(* Nobody sends the "unsubscribe" command, so removal is left out.         *)
(***************************************************************************)
EXTENDS Integers, FiniteSets

CONSTANTS
    Base,           \* base_symbols
    Symbols,        \* other symbols the scanner may find
    Frames,         \* timeframes of a symbol
    BatchSize,      \* MAX_ARGS_PER_MESSAGE
    MaxBreaks       \* bound: broken connections in a behaviour

ASSUME StreamsAssumption ==
    /\ Base \cap Symbols = {}
    /\ BatchSize \in Nat \ {0} /\ MaxBreaks \in Nat

Pairs == (Base \cup Symbols) \X Frames
PairsOf(S) == S \X Frames

VARIABLES
    alive,      \* P1 runs
    asked,      \* symbols of the subscribe commands in the control queue
    todo,       \* what the main task is at: symbols to subscribe
    starting,   \* the main task is in DataCollector.start
    active,     \* _active_symbols
    subs,       \* _subscriptions
    task,       \* the connection task: "connect" (and backoff), "resub", "recv"
    batch,      \* pairs of the snapshot the connection task has still to send
    conn,       \* "down", "up", or "broken": closed, and not noticed yet
    wire,       \* pairs asked for, on the way to the exchange
    streams,    \* pairs the exchange sends
    refused,    \* pairs the exchange refused on this connection
    breaks

collector == <<asked, todo, starting, active>>
exchange == <<wire, streams, refused>>
vars == <<alive, collector, subs, task, batch, conn, exchange, breaks>>

\* Nothing is asked for that is not subscribed.
TypeOK ==
    /\ alive \in BOOLEAN /\ starting \in BOOLEAN
    /\ asked \subseteq Symbols /\ active \subseteq Symbols
    /\ todo \subseteq Base \cup Symbols
    /\ subs \subseteq Pairs /\ batch \subseteq subs
    /\ wire \cup streams \cup refused \subseteq subs
    /\ task \in {"connect", "resub", "recv"}
    /\ conn \in {"down", "up", "broken"}
    /\ breaks \in 0 .. MaxBreaks

Init ==
    /\ alive = TRUE /\ asked = {} /\ todo = Base /\ starting = TRUE /\ active = {}
    /\ subs = {} /\ task = "connect" /\ batch = {} /\ conn = "down"
    /\ wire = {} /\ streams = {} /\ refused = {} /\ breaks = 0

-----------------------------------------------------------------------------
(* The main task.                                                           *)

\* The orchestrator sends a subscribe command.
Ask(s) ==
    /\ s \notin asked /\ asked' = asked \cup {s}
    /\ UNCHANGED <<alive, todo, starting, active, subs, task, batch, conn, exchange, breaks>>

\* Mutants of Kept: subscriptions are kept unless the send fails; they are kept for
\* the next connection only.
KeptIfSent(P) == IF conn = "broken" THEN subs ELSE subs \cup P
KeptForLater(P) == IF conn = "up" THEN subs ELSE subs \cup P

\* subscribe_many notes the pairs before it sends anything.
Kept(P) == subs \cup P

\* Mutant of Subscribes: pairs noted before are asked for again.
SubscribesAgain(P) ==
    /\ subs' = Kept(P)
    /\ wire' = IF conn = "up" THEN wire \cup P ELSE wire

\* subscribe_many: the new pairs are asked for, if there is a connection.
Subscribes(P) ==
    /\ subs' = Kept(P)
    /\ wire' = IF conn = "up" THEN wire \cup (P \ subs) ELSE wire

\* Sending and receiving raise on a connection that is closed and still regarded as
\* open (a ping does, and is swallowed).
Broken == conn = "broken"

Raises(P) == Broken /\ P \ subs # {}

\* start(): one base symbol, after its history.  An error ends P1.
StartBase(s) ==
    /\ alive /\ starting /\ s \in todo
    /\ Subscribes(PairsOf({s}))
    /\ IF Raises(PairsOf({s}))
       THEN alive' = FALSE /\ UNCHANGED <<todo, starting>>
       ELSE todo' = todo \ {s} /\ starting' = (todo' # {}) /\ UNCHANGED alive
    /\ UNCHANGED <<asked, active, task, batch, conn, streams, refused, breaks>>

\* The control loop takes a command; add_symbol of an active symbol does nothing,
\* of another one it loads the history first.
Take(s) ==
    /\ alive /\ ~starting /\ todo = {} /\ s \in asked
    /\ asked' = asked \ {s}
    /\ todo' = IF s \in active THEN {} ELSE {s}
    /\ UNCHANGED <<alive, starting, active, subs, task, batch, conn, exchange, breaks>>

\* add_symbol, after the history.  An error of the send is logged, and the symbol is not
\* active.  (Writing the history to the database is assumed to succeed: it is not in the
\* try of _load_history, so a failure would end add_symbol before this step.)
AddSymbol(s) ==
    /\ alive /\ ~starting /\ s \in todo
    /\ Subscribes(PairsOf({s}))
    /\ active' = IF Raises(PairsOf({s})) THEN active ELSE active \cup {s}
    /\ todo' = {}
    /\ UNCHANGED <<alive, asked, starting, task, batch, conn, streams, refused, breaks>>

\* The stop command.
Stop ==
    /\ alive /\ ~starting /\ todo = {}
    /\ alive' = FALSE /\ active' = {} /\ conn' = "down"
    /\ UNCHANGED <<asked, todo, starting, subs, task, batch, exchange, breaks>>

-----------------------------------------------------------------------------
(* The connection task.                                                     *)

\* Mutant of Snapshot: what the collector regards as active.
SnapshotActive == PairsOf(active)

Snapshot == subs

\* A connection is open; what is subscribed at this moment is asked for again.
Connect ==
    /\ alive /\ task = "connect"
    /\ conn' = "up" /\ task' = "resub" /\ batch' = Snapshot
    /\ wire' = {} /\ streams' = {} /\ refused' = {}
    /\ UNCHANGED <<alive, collector, subs, breaks>>

\* One message of at most BatchSize pairs.
Resubscribe ==
    /\ alive /\ task = "resub" /\ conn = "up"
    /\ \E B \in SUBSET batch :
          /\ Cardinality(B) = IF Cardinality(batch) < BatchSize THEN Cardinality(batch) ELSE BatchSize
          /\ batch' = batch \ B
          /\ wire' = wire \cup B
    /\ task' = IF batch' = {} THEN "recv" ELSE "resub"
    /\ UNCHANGED <<alive, collector, subs, conn, streams, refused, breaks>>

\* Sending or receiving fails: _cleanup, and the next attempt after the backoff.
Notice ==
    /\ alive /\ task # "connect" /\ Broken
    /\ conn' = "down" /\ task' = "connect" /\ batch' = {}
    /\ UNCHANGED <<alive, collector, subs, exchange, breaks>>

-----------------------------------------------------------------------------
(* The exchange.                                                            *)

\* A subscription is answered; a refusal is logged and nothing else.
Answer(x) ==
    /\ x \in wire /\ wire' = wire \ {x}
    /\ \/ streams' = streams \cup {x} /\ UNCHANGED refused
       \/ refused' = refused \cup {x} /\ UNCHANGED streams
    /\ UNCHANGED <<alive, collector, subs, task, batch, conn, breaks>>

Break ==
    /\ conn = "up" /\ breaks < MaxBreaks
    /\ conn' = "broken" /\ breaks' = breaks + 1
    /\ wire' = {} /\ streams' = {} /\ refused' = {}
    /\ UNCHANGED <<alive, collector, subs, task, batch>>

ConnectionTask == Connect \/ Resubscribe \/ Notice

Next ==
    \/ \E s \in Symbols : Ask(s) \/ Take(s) \/ AddSymbol(s)
    \/ \E s \in Base : StartBase(s)
    \/ Stop
    \/ ConnectionTask
    \/ \E x \in Pairs : Answer(x)
    \/ Break

Spec == Init /\ [][Next]_vars

\* Both tasks go on (a history that cannot be loaded is given up, the backoff ends);
\* the control queue is in order, so a command is not passed over for ever; the
\* exchange answers and can be reached in the end.
FairSpec ==
    /\ Spec
    /\ \A s \in Symbols : SF_vars(Take(s)) /\ WF_vars(AddSymbol(s))
    /\ \A s \in Base : WF_vars(StartBase(s))
    /\ WF_vars(ConnectionTask)
    /\ \A x \in Pairs : WF_vars(Answer(x))

-----------------------------------------------------------------------------
(* Properties.                                                              *)

\* Once the connection task only receives, everything that is subscribed or active
\* was asked for on this very connection, although symbols are added while it was
\* down, while it was being set up and while the snapshot was being sent.
AllAsked ==
    alive /\ conn = "up" /\ task = "recv" =>
        subs \cup PairsOf(active) \subseteq wire \cup streams \cup refused

\* A pair is asked for once on a connection, although the two tasks ask on their own: what
\* the snapshot has still to send was not asked for by the main task, and what was
\* asked for, answered or refused is not asked for again.
AskedOnce == conn = "up" =>
    /\ batch \cap (wire \cup streams \cup refused) = {}
    /\ wire \cap (streams \cup refused) = {} /\ streams \cap refused = {}

\* A symbol the orchestrator asks for streams in the end, or the exchange refuses it,
\* or P1 ends; also when its own subscription raised.  Assumes that the history, if there
\* is one, can be written: add_symbol would end, and the request be lost, otherwise.
Served(s) == PairsOf({s}) \subseteq streams \cup refused
RequestServed == \A s \in Symbols : s \in asked ~> Served(s) \/ ~alive

=============================================================================
