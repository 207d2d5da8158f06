------------------------------ MODULE Supervisor ------------------------------
(***************************************************************************)
(* The orchestrator of src/src/main.py and the life of its child processes *)
(* P1 (collector), P2 (strategy), P3 (orders) and P5 (GUI server): the     *)
(* watchdog loop, the restart the GUI requests through the database, the   *)
(* shutdown on a signal, and the control, event and scan-result queues.    *)
(* The queues belong to the orchestrator: a child that dies leaves its     *)
(* unread messages to its successor.                                       *)
(* Configurations are version numbers, symbols are left out: active says   *)
(* that P2 trades the symbols of a scan, streaming that P1 has subscribed  *)
(* them.                                                                   *)
(***************************************************************************)
EXTENDS Naturals, Sequences, FiniteSets, Functions

CONSTANTS
    Faulty,         \* children that may die by themselves
    CtlCap,         \* capacity of a control queue (main.py: 50)
    EventCap,       \* capacity of the event and scan-result queues (100, 50)
    MaxRequests,    \* bound: restarts requested in a behaviour
    MaxCrashes,     \* bound: children dying in a behaviour
    MaxEdits,       \* bound: changes of the configuration files
    MaxSlots        \* bound: slots becoming free

Trading == {"P1", "P2", "P3"}
Procs == Trading \cup {"P5"}

ASSUME SupervisorAssumption ==
    /\ Faulty \subseteq Procs
    /\ CtlCap \in Nat \ {0}
    /\ EventCap \in Nat \ {0}
    /\ MaxRequests \in Nat
    /\ MaxCrashes \in Nat
    /\ MaxEdits \in Nat
    /\ MaxSlots \in Nat

Commands == {"stop", "scan", "subscribe"}

VARIABLES
    pc,         \* where the orchestrator is in its loop
    joining,    \* the process it waits for, as an index of JoinOrder
    running,    \* _running; cleared by SIGTERM and SIGINT
    runs,       \* the live children, each with the configuration it was started with
    ctl,        \* control queue of each trading process
    events,     \* slot_available messages in the event queue
    found,      \* scan results in the scan-result queue
    flag,       \* the row restart_requested of the database
    disk,       \* version of the configuration files
    pcfg,       \* version in _process_config
    cool,       \* children restarted less than the cooldown ago
    scan,       \* P2: outside _run_scanner, inside it, or left it without tickers
    active,     \* P2 has symbols to evaluate (_active_trading_symbols)
    streaming,  \* P1 streams the candles of those symbols
    owed,       \* history: a slot became free and P2 took no scan since
    requests,   \* restarts requested
    crashes,    \* children that died
    slots       \* slots that became free

loop == <<pc, joining>>
messages == <<ctl, events, found>>
p1p2 == <<scan, active, streaming>>
config == <<disk, pcfg>>
bounds == <<requests, crashes, slots>>
vars == <<loop, running, runs, messages, flag, config, cool, p1p2, owed, bounds>>

TypeOK ==
    /\ pc \in {"request", "check", "drain", "join", "reload", "stopping", "stopped"}
    /\ joining \in 1 .. 3
    /\ running \in BOOLEAN
    /\ DOMAIN runs \subseteq Procs
    /\ runs \in [DOMAIN runs -> 0 .. disk]
    /\ ctl \in [Trading -> Seq(Commands)]
    /\ \A p \in Trading : Len(ctl[p]) <= CtlCap
    /\ events \in 0 .. EventCap
    /\ found \in 0 .. EventCap
    /\ flag \in BOOLEAN
    /\ disk \in 0 .. MaxEdits /\ pcfg \in 0 .. disk
    /\ cool \subseteq Procs
    /\ scan \in {"idle", "busy", "failed"}
    /\ active \in BOOLEAN /\ streaming \in BOOLEAN
    /\ owed \in BOOLEAN
    /\ requests \in 0 .. MaxRequests
    /\ crashes \in 0 .. MaxCrashes
    /\ slots \in 0 .. MaxSlots

-----------------------------------------------------------------------------
\* Mutant of Room: a queue without a bound.
RoomForAll(q) == CtlCap

\* Free places of a control queue.
Room(q) == CtlCap - Len(q)

\* n commands sent by put_nowait: a full queue drops the rest.
SentTimes(q, cmd, n) ==
    q \o [i \in 1 .. (IF n <= Room(q) THEN n ELSE Room(q)) |-> cmd]

Sent(q, cmd) == SentTimes(q, cmd, 1)

StopsSent == [p \in Trading |-> Sent(ctl[p], "stop")]

\* _send_initial_scan_trigger, when open positions leave a slot free.
InitialScan(q) == {q, Sent(q, "scan")}

\* Mutant of Unread: a child empties its queue before it obeys a stop, as P3 does.
UnreadDropped(q) == IF Head(q) = "stop" THEN <<>> ELSE Tail(q)

\* What is left in the queue after P1 or P2 has taken a message.
Unread(q) == Tail(q)

alive == DOMAIN runs

\* Children start with the configuration c.
Started(S, c) == [p \in alive \cup S |-> IF p \in S THEN c ELSE runs[p]]

\* Children end, and their memory with them.
Ended(S) ==
    /\ runs' = Restrict(runs, alive \ S)
    /\ scan' = IF "P2" \in S THEN "idle" ELSE scan
    /\ active' = (active /\ "P2" \notin S)
    /\ streaming' = (streaming /\ "P1" \notin S)

\* start() of main.py: recovery, then the children, then the first scan.
Init ==
    /\ pc = "request" /\ joining = 1
    /\ running = TRUE
    /\ \E q \in InitialScan(<<>>) : ctl = [p \in Trading |-> IF p = "P2" THEN q ELSE <<>>]
    /\ events = 0 /\ found = 0
    /\ flag = FALSE
    /\ disk = 0 /\ pcfg = 0 /\ runs = [p \in Procs |-> 0]
    /\ cool = {}
    /\ scan = "idle" /\ active = FALSE /\ streaming = FALSE
    /\ owed = FALSE
    /\ requests = 0 /\ crashes = 0 /\ slots = 0

-----------------------------------------------------------------------------
(* The orchestrator: one iteration of _watchdog_loop is request, check and  *)
(* drain.                                                                   *)

\* Mutant of NoRequest: the loop does not look at _running.
LoopsOn ==
    /\ pc = "request" /\ ~flag
    /\ pc' = "check"
    /\ UNCHANGED <<joining, running, runs, messages, flag, config, cool, p1p2, owed, bounds>>

NoRequest ==
    /\ pc = "request" /\ running /\ ~flag
    /\ pc' = "check"
    /\ UNCHANGED <<joining, running, runs, messages, flag, config, cool, p1p2, owed, bounds>>

\* _check_restart_request clears the flag; _restart_trading_processes then sends
\* the stops, to dead children as well.
BeginRestart ==
    /\ pc = "request" /\ running /\ flag
    /\ flag' = FALSE
    /\ ctl' = StopsSent
    /\ pc' = "join" /\ joining' = 1
    /\ UNCHANGED <<running, runs, events, found, config, cool, p1p2, owed, bounds>>

\* stop() after the loop: _graceful_shutdown.
BeginShutdown ==
    /\ pc = "request" /\ ~running
    /\ ctl' = StopsSent
    /\ pc' = "stopping" /\ joining' = 1
    /\ UNCHANGED <<running, runs, events, found, flag, config, cool, p1p2, owed, bounds>>

JoinOrder == <<"P1", "P2", "P3">>

\* Mutant of Killed: a child that does not exit in time is left alone.
LeftAlone(p) == {}

\* terminate() and kill() end a child that is alive after the timeout.
Killed(p) == {p} \cap alive

\* join() returns when the child has exited or the timeout has passed.
Join ==
    /\ pc \in {"join", "stopping"}
    /\ Ended(Killed(JoinOrder[joining]))
    /\ IF joining < 3
       THEN joining' = joining + 1 /\ pc' = pc
       ELSE joining' = 1 /\ pc' = IF pc = "join" THEN "reload" ELSE "stopped"
    /\ UNCHANGED <<running, messages, flag, config, cool, owed, bounds>>

\* Mutant of Reload: the children get the new files, _process_config keeps the old.
ReloadForgets ==
    /\ pc = "reload"
    /\ runs' = Started(Trading, disk)
    /\ \E q \in InitialScan(ctl["P2"]) : ctl' = [ctl EXCEPT !["P2"] = q]
    /\ pc' = "check"
    /\ UNCHANGED <<joining, running, events, found, flag, config, cool, p1p2, owed, bounds>>

\* The files are read and the children start with them.
Reload ==
    /\ pc = "reload"
    /\ pcfg' = disk
    /\ runs' = Started(Trading, disk)
    /\ \E q \in InitialScan(ctl["P2"]) : ctl' = [ctl EXCEPT !["P2"] = q]
    /\ pc' = "check"
    /\ UNCHANGED <<joining, running, events, found, flag, disk, cool, p1p2, owed, bounds>>

\* The files cannot be read: _check_restart_request swallows the exception, and
\* the flag stays cleared.
ReloadFails ==
    /\ pc = "reload"
    /\ pc' = "check"
    /\ UNCHANGED <<joining, running, runs, messages, flag, config, cool, p1p2, owed, bounds>>

\* Mutant of Watched: P1 and P2 are left to the scans.
WatchedOrders == {"P3", "P5"}

Watched == Procs

\* _check_processes: every dead child out of its cooldown is started again,
\* with the configuration of the orchestrator and without a scan.
CheckProcesses ==
    LET again == (Watched \ alive) \ cool
    IN  /\ pc = "check"
        /\ runs' = Started(again, pcfg)
        /\ cool' = cool \cup again
        /\ pc' = "drain"
        /\ UNCHANGED <<joining, running, messages, flag, config, p1p2, owed, bounds>>

\* _drain_event_queue and _drain_scan_result_queue: a scan for every free slot, a
\* subscribe for every result.
DrainQueues ==
    /\ pc = "drain"
    /\ ctl' = [ctl EXCEPT !["P2"] = SentTimes(@, "scan", events),
                         !["P1"] = SentTimes(@, "subscribe", found)]
    /\ events' = 0 /\ found' = 0
    /\ pc' = "request"
    /\ UNCHANGED <<joining, running, runs, flag, config, cool, p1p2, owed, bounds>>

Orchestrate ==
    \/ NoRequest \/ BeginRestart \/ BeginShutdown
    \/ Join \/ Reload \/ ReloadFails
    \/ CheckProcesses \/ DrainQueues

\* _PROCESS_RESTART_COOLDOWN_SEC have passed; it matters for a dead child only.
CooldownEnds(p) ==
    /\ p \in cool \ alive
    /\ cool' = cool \ {p}
    /\ UNCHANGED <<loop, running, runs, messages, flag, config, p1p2, owed, bounds>>

-----------------------------------------------------------------------------
(* The children.                                                            *)

\* P1 or P2 takes a stop and leaves its loop; the rest of the queue stays.
TakeStop(p) ==
    /\ p \in {"P1", "P2"} /\ p \in alive /\ (p = "P2" => scan # "busy")
    /\ ctl[p] # <<>> /\ Head(ctl[p]) = "stop"
    /\ ctl' = [ctl EXCEPT ![p] = Unread(@)]
    /\ Ended({p})
    /\ UNCHANGED <<loop, running, events, found, flag, config, cool, owed, bounds>>

TakeSubscribe ==
    /\ "P1" \in alive /\ ctl["P1"] # <<>> /\ Head(ctl["P1"]) = "subscribe"
    /\ ctl' = [ctl EXCEPT !["P1"] = Unread(@)]
    /\ streaming' = TRUE
    /\ UNCHANGED <<loop, running, runs, events, found, flag, config, cool, scan, active,
                   owed, bounds>>

TakeScan ==
    /\ "P2" \in alive /\ scan # "busy"
    /\ ctl["P2"] # <<>> /\ Head(ctl["P2"]) = "scan"
    /\ ctl' = [ctl EXCEPT !["P2"] = Unread(@)]
    /\ scan' = "busy"
    /\ owed' = FALSE
    /\ UNCHANGED <<loop, running, runs, events, found, flag, config, cool, active, streaming, bounds>>

\* The scan ends with candidates: they are traded from now on, and both P1 and
\* the orchestrator are told.
ScanFinds ==
    /\ scan = "busy"
    /\ scan' = "idle" /\ active' = TRUE
    /\ found' = IF found < EventCap THEN found + 1 ELSE found
    /\ ctl' = [ctl EXCEPT !["P1"] = Sent(@, "subscribe")]
    /\ UNCHANGED <<loop, running, runs, events, flag, config, cool, streaming, owed, bounds>>

\* It ends without candidates (the empty result has no effect), or the tickers
\* could not be fetched.
ScanEnds(how) ==
    /\ scan = "busy"
    /\ scan' = how
    /\ UNCHANGED <<loop, running, runs, messages, flag, config, cool, active, streaming, owed, bounds>>

\* P3 empties its queue before it looks at _running.
P3Drain ==
    /\ "P3" \in alive /\ ctl["P3"] # <<>>
    /\ Ended(IF "stop" \in Range(ctl["P3"]) THEN {"P3"} ELSE {})
    /\ ctl' = [ctl EXCEPT !["P3"] = <<>>]
    /\ UNCHANGED <<loop, running, events, found, flag, config, cool, owed, bounds>>

\* _notify_slot_available after a position was closed.
SlotAvailable ==
    /\ "P3" \in alive /\ slots < MaxSlots
    /\ slots' = slots + 1
    /\ events' = IF events < EventCap THEN events + 1 ELSE events
    /\ owed' = TRUE
    /\ UNCHANGED <<loop, running, runs, ctl, found, flag, config, cool, p1p2, requests, crashes>>

Crash(p) ==
    /\ p \in Faulty /\ p \in alive /\ crashes < MaxCrashes
    /\ crashes' = crashes + 1
    /\ Ended({p})
    /\ UNCHANGED <<loop, running, messages, flag, config, cool, owed, requests, slots>>

-----------------------------------------------------------------------------
(* The operator: POST /paper/reset, the configuration files, SIGTERM.       *)

RequestRestart ==
    /\ "P5" \in alive /\ requests < MaxRequests
    /\ requests' = requests + 1
    /\ flag' = TRUE
    /\ UNCHANGED <<loop, running, runs, messages, config, cool, p1p2, owed, crashes, slots>>

EditConfig ==
    /\ disk < MaxEdits
    /\ disk' = disk + 1
    /\ UNCHANGED <<loop, running, runs, messages, flag, pcfg, cool, p1p2, owed, bounds>>

Interrupt ==
    /\ running
    /\ running' = FALSE
    /\ UNCHANGED <<loop, runs, messages, flag, config, cool, p1p2, owed, bounds>>

P1Step == TakeStop("P1") \/ TakeSubscribe
P2Step == TakeStop("P2") \/ TakeScan \/ ScanFinds \/ \E how \in {"idle", "failed"} : ScanEnds(how)
P3Step == P3Drain

Next ==
    \/ Orchestrate
    \/ \E p \in Procs : CooldownEnds(p) \/ Crash(p)
    \/ P1Step \/ P2Step \/ P3Step
    \/ SlotAvailable
    \/ RequestRestart \/ EditConfig \/ Interrupt

Spec == Init /\ [][Next]_vars

\* The orchestrator and the children poll in loops; time passes.
FairSpec ==
    /\ Spec
    /\ WF_vars(Orchestrate)
    /\ WF_vars(P1Step) /\ WF_vars(P2Step) /\ WF_vars(P3Step)
    /\ WF_vars(\E p \in Procs : CooldownEnds(p))

-----------------------------------------------------------------------------
\* Trading processes that run together run the same configuration, the one the
\* orchestrator would start another with: none survives a restart, and what the
\* watchdog starts in the middle of a failed one is not ahead of the others.
SameConfig == \A p \in Trading : p \in alive => runs[p] = pcfg

\* No trading process outlives the orchestrator (stop() ends the ones that do not
\* obey in time).
StoppedMeansDown == pc = "stopped" => \A p \in Trading : p \notin alive

\* Whatever children died of, and whatever restarts are under way, in the end all
\* of them run again: _check_processes.
DeadRestarted == alive # Procs ~> (~running \/ alive = Procs)

\* A slot that became free leads to a scan, as long as no queue is full: the event
\* waits through a restart, and a scan P2 has not taken before it is stopped or
\* killed is left to its successor.
SlotAnswered == owed ~> (~running \/ ~owed)

\* Symbols P2 trades get their candles, unless P1 dies by itself: the subscribe
\* outlives a P1 that a restart stops or a leftover stop ends.
ActiveStreamed == active ~> (~running \/ ~active \/ streaming)

\* A signal ends the system.
ShutdownCompletes == ~running ~> pc = "stopped"

\* docs/config-guide.md: rescan_delay_sec, "wait before the next scan when a scan
\* has failed".  A failed scan is followed by another.
FailedScanRetried == scan = "failed" ~> (~running \/ scan # "failed")

\* The trading processes are a generation as Generations has it.
Phase ==
    CASE pc \in {"join", "reload"} -> "renewing"
      [] pc = "stopping" -> "ending"
      [] pc = "stopped" -> "ended"
      [] OTHER -> "serving"
Crew == INSTANCE Generations WITH
    Crew <- Trading,
    phase <- Phase,
    config <- pcfg,
    runs <- Restrict(runs, Trading \cap alive)

\* Whoever dies when, a configuration that changes meanwhile and a restart that fails:
\* a process is only started with the configuration of those that live, and another
\* one is taken up, never an older one, when none of them lives (main.py:
\* _restart_trading_processes, _check_processes).
KeepsGenerations == Crew!Spec

-----------------------------------------------------------------------------
(* The inductive strengthening.                                             *)

\* The children waited for, and before a reload all of them, are down.
JoinedDown ==
    /\ pc \in {"join", "stopping"} => \A i \in 1 .. joining - 1 : JoinOrder[i] \notin alive
    /\ pc = "reload" => Trading \cap alive = {}

IInv == TypeOK /\ SameConfig /\ StoppedMeansDown /\ JoinedDown

=============================================================================
