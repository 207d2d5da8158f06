--------------------------- MODULE Supervisor_proofs ---------------------------
(* Safety of the orchestrator, for every capacity and every set of faulty   *)
(* children: trading processes never run different configurations, none of  *)
(* them outlives the orchestrator, and they implement Generations.          *)
EXTENDS Supervisor, SequenceTheorems, TLAPS

\* A command queue stays a bounded sequence of commands.
LEMMA SentType ==
    ASSUME NEW q \in Seq(Commands), Len(q) <= CtlCap, NEW cmd \in Commands, NEW n \in Nat
    PROVE  /\ SentTimes(q, cmd, n) \in Seq(Commands)
           /\ Len(SentTimes(q, cmd, n)) <= CtlCap
<1> DEFINE k == IF n <= Room(q) THEN n ELSE Room(q)
           t == [i \in 1 .. k |-> cmd]
<1>1. k \in Nat /\ k <= CtlCap - Len(q)
  BY SupervisorAssumption DEF Room
<1>2. SentTimes(q, cmd, n) = q \o t
  BY DEF SentTimes
<1> HIDE DEF k
<1>3. t \in [1 .. k -> Commands]
  OBVIOUS
<1>4. t \in Seq(Commands) /\ Len(t) = k
  <2>1. t \in Seq(Commands)
    BY <1>1, <1>3, SeqDef
  <2> QED
    BY <1>1, <1>3, <2>1, LenProperties
<1> HIDE DEF t
<1>5. q \o t \in Seq(Commands) /\ Len(q \o t) = Len(q) + k
  BY <1>4
<1> QED
  BY <1>1, <1>2, <1>5, SupervisorAssumption

LEMMA SentOneType ==
    ASSUME NEW q \in Seq(Commands), Len(q) <= CtlCap, NEW cmd \in Commands
    PROVE  Sent(q, cmd) \in Seq(Commands) /\ Len(Sent(q, cmd)) <= CtlCap
BY SentType DEF Sent

\* The control queues: what TypeOK says of them.
Queues == ctl \in [Trading -> Seq(Commands)] /\ \A p \in Trading : Len(ctl[p]) <= CtlCap

\* The children: what TypeOK says of them, and the configurations.
Children == DOMAIN runs \subseteq Procs /\ runs \in [DOMAIN runs -> 0 .. disk]

LEMMA StartedType ==
    ASSUME Children, NEW S \in SUBSET Procs, NEW c \in 0 .. disk
    PROVE  /\ DOMAIN Started(S, c) = alive \cup S
           /\ Started(S, c) \in [alive \cup S -> 0 .. disk]
           /\ \A p \in S : Started(S, c)[p] = c
           /\ \A p \in alive \ S : Started(S, c)[p] = runs[p]
BY DEF Children, Started, alive

\* The memory of the children takes values of its type when some of them end.
LEMMA EndedType ==
    ASSUME TypeOK, NEW S, Ended(S)
    PROVE  /\ DOMAIN runs' = alive \ S
           /\ runs' \in [alive \ S -> 0 .. disk]
           /\ \A p \in alive \ S : runs'[p] = runs[p]
           /\ scan' \in {"idle", "busy", "failed"}
           /\ active' \in BOOLEAN
           /\ streaming' \in BOOLEAN
<1>1. /\ DOMAIN runs' = alive \ S
      /\ runs' \in [alive \ S -> 0 .. disk]
      /\ \A p \in alive \ S : runs'[p] = runs[p]
  BY DEF Ended, Restrict, TypeOK, alive
<1>2. scan' \in {"idle", "busy", "failed"}
  BY DEF Ended, TypeOK
<1>3. active' \in BOOLEAN /\ streaming' \in BOOLEAN
  BY Zenon DEF Ended
<1> QED
  BY <1>1, <1>2, <1>3

\* What Next may do to the queues.
LEMMA QueuesKept ==
    ASSUME TypeOK, Next
    PROVE  Queues'
<1> USE DEF TypeOK, Queues, Trading
<1>1. ASSUME BeginRestart \/ BeginShutdown
      PROVE  Queues'
  <2>1. ctl' = [p \in Trading |-> Sent(ctl[p], "stop")]
    BY <1>1 DEF BeginRestart, BeginShutdown, StopsSent
  <2>2. \A p \in Trading : Sent(ctl[p], "stop") \in Seq(Commands) /\ Len(Sent(ctl[p], "stop")) <= CtlCap
    BY SentOneType DEF Commands
  <2> QED
    BY <2>1, <2>2
<1>2. CASE Reload
  <2>1. PICK q \in InitialScan(ctl["P2"]) : ctl' = [ctl EXCEPT !["P2"] = q]
    BY <1>2 DEF Reload
  <2>2. q \in Seq(Commands) /\ Len(q) <= CtlCap
    BY <2>1, SentOneType DEF InitialScan, Commands
  <2> QED
    BY <2>1, <2>2
<1>3. CASE DrainQueues
  <2>1. /\ SentTimes(ctl["P2"], "scan", events) \in Seq(Commands)
        /\ Len(SentTimes(ctl["P2"], "scan", events)) <= CtlCap
        /\ SentTimes(ctl["P1"], "subscribe", found) \in Seq(Commands)
        /\ Len(SentTimes(ctl["P1"], "subscribe", found)) <= CtlCap
    <3>1. events \in Nat /\ found \in Nat /\ "scan" \in Commands /\ "subscribe" \in Commands
      BY SupervisorAssumption DEF Commands
    <3>2. /\ ctl["P1"] \in Seq(Commands) /\ Len(ctl["P1"]) <= CtlCap
          /\ ctl["P2"] \in Seq(Commands) /\ Len(ctl["P2"]) <= CtlCap
      OBVIOUS
    <3> QED
      BY ONLY <3>1, <3>2, SentType
  <2> QED
    BY <1>3, <2>1 DEF DrainQueues
<1>4. ASSUME NEW p \in {"P1", "P2"}, ctl[p] # <<>>, ctl' = [ctl EXCEPT ![p] = Unread(@)]
      PROVE  Queues'
  <2>1. Tail(ctl[p]) \in Seq(Commands) /\ Len(Tail(ctl[p])) <= CtlCap
    <3>1. ctl[p] \in Seq(Commands) /\ Len(ctl[p]) <= CtlCap /\ CtlCap \in Nat
      BY SupervisorAssumption
    <3> QED
      BY ONLY <3>1, <1>4
  <2> QED
    BY <1>4, <2>1, Zenon DEF Unread
<1>5. CASE P1Step \/ TakeStop("P2") \/ TakeScan
  <2>1. ASSUME NEW p \in {"P1", "P2"}, TakeStop(p)
        PROVE  Queues'
    BY <1>4, <2>1 DEF TakeStop
  <2>2. CASE TakeSubscribe
    BY <1>4, <2>2 DEF TakeSubscribe
  <2>3. CASE TakeScan
    BY <1>4, <2>3 DEF TakeScan
  <2> QED
    BY <1>5, <2>1, <2>2, <2>3 DEF P1Step
<1>6. CASE ScanFinds
  BY <1>6, SentOneType DEF ScanFinds, Commands
<1>7. CASE P3Drain
  <2>1. ctl' = [ctl EXCEPT !["P3"] = <<>>]
    BY <1>7 DEF P3Drain
  <2>2. <<>> \in Seq(Commands) /\ Len(<<>>) <= CtlCap
    BY SupervisorAssumption
  <2> QED
    BY <2>1, <2>2
<1>8. ASSUME UNCHANGED ctl PROVE Queues'
  BY <1>8
<1>9. ASSUME NoRequest \/ Join \/ ReloadFails \/ CheckProcesses
      PROVE  UNCHANGED ctl
  BY <1>9 DEF NoRequest, Join, ReloadFails, CheckProcesses, messages
<1>10. ASSUME NEW p \in Procs, CooldownEnds(p) \/ Crash(p)
       PROVE  UNCHANGED ctl
  BY <1>10 DEF CooldownEnds, Crash, messages
<1>11. ASSUME NEW how, ScanEnds(how)
       PROVE  UNCHANGED ctl
  BY <1>11 DEF ScanEnds, messages
<1>12. ASSUME SlotAvailable \/ RequestRestart \/ EditConfig \/ Interrupt
       PROVE  UNCHANGED ctl
  BY <1>12 DEF SlotAvailable, RequestRestart, EditConfig, Interrupt, messages
<1> QED
  BY <1>1, <1>2, <1>3, <1>5, <1>6, <1>7, <1>8, <1>9, <1>10, <1>11, <1>12
     DEF Next, Orchestrate, P2Step, P3Step

-----------------------------------------------------------------------------
\* Every step keeps the types.
LEMMA TypeKept ==
    ASSUME TypeOK, Next
    PROVE  TypeOK'
<1> USE DEF TypeOK, Trading, Procs
<1>1. Queues'
  BY QueuesKept
<1>2. ASSUME NoRequest \/ ReloadFails
      PROVE  TypeOK'
  BY <1>1, <1>2 DEF NoRequest, ReloadFails, Queues, messages, p1p2, config, bounds
<1>18. CASE BeginRestart
  <2>1. flag' \in BOOLEAN
    BY <1>18, Zenon DEF BeginRestart
  <2>2. /\ pc' = "join" /\ joining' = 1
        /\ UNCHANGED <<running, runs, events, found, config, cool, p1p2, owed, bounds>>
    BY <1>18 DEF BeginRestart
  <2> QED
    BY <1>1, <2>1, <2>2 DEF Queues, p1p2, config, bounds
<1>19. CASE BeginShutdown
  <2>1. /\ pc' = "stopping" /\ joining' = 1
        /\ UNCHANGED <<running, runs, events, found, flag, config, cool, p1p2, owed, bounds>>
    BY <1>19 DEF BeginShutdown
  <2> QED
    BY <1>1, <2>1 DEF Queues, p1p2, config, bounds
<1>3. CASE Join
  <2>1. Ended(Killed(JoinOrder[joining]))
    BY <1>3 DEF Join
  <2>2. /\ joining' \in 1 .. 3
        /\ pc' \in {"join", "stopping", "reload", "stopped"}
    BY <1>3 DEF Join
  <2>3. /\ DOMAIN runs' \subseteq Procs /\ runs' \in [DOMAIN runs' -> 0 .. disk]
        /\ scan' \in {"idle", "busy", "failed"} /\ active' \in BOOLEAN /\ streaming' \in BOOLEAN
    BY <2>1, EndedType DEF alive
  <2>4. UNCHANGED <<running, messages, flag, config, cool, owed, bounds>>
    BY <1>3 DEF Join
  <2> QED
    BY <1>1, <2>2, <2>3, <2>4 DEF Queues, messages, config, bounds
<1>4. CASE Reload
  <2>1. Children /\ Trading \in SUBSET Procs /\ disk \in 0 .. disk
    <3>1. disk \in 0 .. MaxEdits
      OBVIOUS
    <3>2. disk \in 0 .. disk
      BY ONLY <3>1
    <3> QED
      BY <3>2 DEF Children
  <2>2. /\ DOMAIN Started(Trading, disk) = alive \cup Trading
        /\ Started(Trading, disk) \in [alive \cup Trading -> 0 .. disk]
    BY <2>1, StartedType
  <2>3. DOMAIN runs' \subseteq Procs /\ runs' \in [DOMAIN runs' -> 0 .. disk]
    BY <1>4, <2>2 DEF Reload, alive
  <2> QED
    BY <1>1, <1>4, <2>1, <2>3 DEF Reload, Queues, p1p2, bounds
<1>5. CASE CheckProcesses
  <2> DEFINE again == (Watched \ alive) \ cool
  <2>1. again \in SUBSET Procs
    BY DEF Watched
  <2>2. runs' = Started(again, pcfg) /\ cool' = cool \cup again
    BY <1>5 DEF CheckProcesses
  <2>4. /\ DOMAIN Started(again, pcfg) = alive \cup again
        /\ Started(again, pcfg) \in [alive \cup again -> 0 .. disk]
    <3>1. Children
      BY DEF Children
    <3> HIDE DEF again
    <3> QED
      BY <2>1, <3>1, StartedType
  <2>3. DOMAIN runs' \subseteq Procs /\ runs' \in [DOMAIN runs' -> 0 .. disk]
    BY <2>1, <2>2, <2>4 DEF alive
  <2> QED
    BY <1>1, <1>5, <2>1, <2>2, <2>3
       DEF CheckProcesses, Queues, messages, p1p2, config, bounds
<1>6. CASE DrainQueues
  <2>1. events' \in 0 .. EventCap /\ found' \in 0 .. EventCap
    BY <1>6, SupervisorAssumption DEF DrainQueues
  <2> QED
    BY <1>1, <1>6, <2>1 DEF DrainQueues, Queues, p1p2, config, bounds
<1>7. ASSUME NEW p \in Procs, CooldownEnds(p)
      PROVE  TypeOK'
  BY <1>1, <1>7 DEF CooldownEnds, Queues, loop, messages, p1p2, config, bounds
<1>8. ASSUME NEW p \in Procs, Crash(p)
      PROVE  TypeOK'
  <2>1. crashes' \in 0 .. MaxCrashes
    <3>1. crashes < MaxCrashes /\ crashes' = crashes + 1
      BY <1>8 DEF Crash
    <3>2. MaxCrashes \in Nat /\ crashes \in 0 .. MaxCrashes
      BY SupervisorAssumption
    <3> QED
      BY ONLY <3>1, <3>2
  <2> QED
    BY <1>1, <1>8, <2>1, EndedType DEF Crash, Queues, alive, loop, messages, config
<1>9. ASSUME NEW p \in Procs, TakeStop(p)
      PROVE  TypeOK'
  BY <1>1, <1>9, EndedType DEF TakeStop, Queues, alive, loop, config, bounds
<1>10. CASE P3Drain
  BY <1>1, <1>10, EndedType DEF P3Drain, Queues, alive, loop, config, bounds
<1>11. CASE TakeSubscribe
  BY <1>1, <1>11 DEF TakeSubscribe, Queues, loop, config, bounds
<1>20. CASE TakeScan
  BY <1>1, <1>20 DEF TakeScan, Queues, loop, config, bounds
<1>12. CASE ScanFinds
  <2>1. found' \in 0 .. EventCap
    <3>1. found' = IF found < EventCap THEN found + 1 ELSE found
      BY <1>12 DEF ScanFinds
    <3>2. EventCap \in Nat /\ found \in 0 .. EventCap
      BY SupervisorAssumption
    <3> QED
      BY ONLY <3>1, <3>2
  <2> QED
    BY <1>1, <1>12, <2>1 DEF ScanFinds, Queues, loop, config, bounds
<1>13. ASSUME NEW how \in {"idle", "failed"}, ScanEnds(how)
       PROVE  TypeOK'
  BY <1>1, <1>13 DEF ScanEnds, Queues, loop, messages, config, bounds
<1>14. CASE SlotAvailable
  <2>1. events' \in 0 .. EventCap /\ slots' \in 0 .. MaxSlots
    <3>1. /\ slots < MaxSlots /\ slots' = slots + 1
          /\ events' = IF events < EventCap THEN events + 1 ELSE events
      BY <1>14 DEF SlotAvailable
    <3>2. MaxSlots \in Nat /\ EventCap \in Nat /\ slots \in 0 .. MaxSlots /\ events \in 0 .. EventCap
      BY SupervisorAssumption
    <3> QED
      BY ONLY <3>1, <3>2
  <2> QED
    BY <1>1, <1>14, <2>1 DEF SlotAvailable, Queues, loop, p1p2, config
<1>15. CASE RequestRestart
  <2>1. requests' \in 0 .. MaxRequests
    <3>1. requests < MaxRequests /\ requests' = requests + 1
      BY <1>15 DEF RequestRestart
    <3>2. MaxRequests \in Nat /\ requests \in 0 .. MaxRequests
      BY SupervisorAssumption
    <3> QED
      BY ONLY <3>1, <3>2
  <2> QED
    BY <1>1, <1>15, <2>1 DEF RequestRestart, Queues, loop, messages, p1p2, config
<1>16. CASE EditConfig
  <2>1. disk' \in 0 .. MaxEdits /\ pcfg' \in 0 .. disk' /\ runs' \in [DOMAIN runs' -> 0 .. disk']
    <3>1. disk < MaxEdits /\ disk' = disk + 1 /\ pcfg' = pcfg /\ runs' = runs
      BY <1>16 DEF EditConfig
    <3>2. /\ MaxEdits \in Nat /\ disk \in 0 .. MaxEdits /\ pcfg \in 0 .. disk
          /\ runs \in [DOMAIN runs -> 0 .. disk]
      BY SupervisorAssumption
    <3> QED
      BY ONLY <3>1, <3>2
  <2> QED
    BY <1>1, <1>16, <2>1 DEF EditConfig, Queues, loop, messages, p1p2, bounds
<1>17. CASE Interrupt
  BY <1>1, <1>17 DEF Interrupt, Queues, loop, messages, p1p2, config, bounds
<1> QED
  BY <1>2, <1>3, <1>4, <1>5, <1>6, <1>7, <1>8, <1>9, <1>10, <1>11, <1>12, <1>13,
     <1>14, <1>15, <1>16, <1>17, <1>18, <1>19, <1>20 DEF Next, Orchestrate, P1Step, P2Step, P3Step

-----------------------------------------------------------------------------
\* Ending children changes the configuration of none.
LEMMA EndedKeepsConfig ==
    ASSUME TypeOK, SameConfig, NEW S, Ended(S), UNCHANGED pcfg
    PROVE  SameConfig' /\ alive' = alive \ S
BY EndedType DEF SameConfig, alive

\* The safety part of IInv, step by step.
LEMMA SafetyKept ==
    ASSUME IInv, TypeOK', Next
    PROVE  (SameConfig /\ StoppedMeansDown /\ JoinedDown)'
<1> DEFINE Safe == SameConfig /\ StoppedMeansDown /\ JoinedDown
<1> USE DEF IInv
<1>1. ASSUME NoRequest \/ BeginRestart \/ BeginShutdown \/ ReloadFails \/ DrainQueues
      PROVE  Safe'
  BY <1>1 DEF NoRequest, BeginRestart, BeginShutdown, ReloadFails, DrainQueues, config,
     SameConfig, StoppedMeansDown, JoinedDown, alive
<1>2. CASE Join
  <2> DEFINE p == JoinOrder[joining]
  <2>1. SameConfig' /\ alive' = alive \ Killed(p)
    BY <1>2, EndedKeepsConfig DEF Join, config
  <2>2. p \notin alive' /\ alive' \subseteq alive
    BY <2>1 DEF Killed
  <2>3. CASE joining < 3
    <3>1. joining' = joining + 1 /\ pc' = pc /\ pc \in {"join", "stopping"} /\ joining \in 1 .. 3
      BY <1>2, <2>3 DEF Join, TypeOK
    <3>2. \A i \in 1 .. joining - 1 : JoinOrder[i] \notin alive'
      BY <2>2, <3>1 DEF JoinedDown
    <3>3. \A i \in 1 .. joining' - 1 : i \in 1 .. joining - 1 \/ i = joining
      BY <3>1
    <3>4. \A i \in 1 .. joining' - 1 : JoinOrder[i] \notin alive'
      BY <2>2, <3>2, <3>3
    <3> QED
      BY <2>1, <3>1, <3>4 DEF StoppedMeansDown, JoinedDown, JoinOrder
  <2>4. CASE joining = 3
    <3>1. JoinOrder[1] \notin alive' /\ JoinOrder[2] \notin alive' /\ JoinOrder[3] \notin alive'
      BY <1>2, <2>2, <2>4 DEF Join, JoinedDown
    <3>2. Trading \cap alive' = {}
      BY <3>1 DEF JoinOrder, Trading
    <3>3. pc' \in {"reload", "stopped"}
      BY <1>2, <2>4 DEF Join
    <3> QED
      BY <2>1, <3>2, <3>3 DEF StoppedMeansDown, JoinedDown
  <2>5. joining \in 1 .. 3
    BY DEF TypeOK
  <2> QED
    BY <2>3, <2>4, <2>5
<1>3. CASE Reload
  <2>1. \A p \in Trading : Started(Trading, disk)[p] = disk
    BY DEF Started
  <2>2. runs' = Started(Trading, disk) /\ pcfg' = disk /\ pc' = "check"
    BY <1>3 DEF Reload
  <2> QED
    BY ONLY <2>1, <2>2 DEF SameConfig, StoppedMeansDown, JoinedDown
<1>4. CASE CheckProcesses
  <2> DEFINE again == (Watched \ alive) \ cool
  <2>1. runs' = Started(again, pcfg) /\ pcfg' = pcfg /\ pc' = "drain"
    BY <1>4 DEF CheckProcesses, config
  <2>2. \A p \in alive' : runs'[p] = pcfg \/ (p \in alive /\ runs'[p] = runs[p])
    <3>1. runs' = [p \in alive \cup again |-> IF p \in again THEN pcfg ELSE runs[p]]
      BY <2>1 DEF Started
    <3> HIDE DEF again
    <3>2. alive' = alive \cup again
      BY <3>1 DEF alive
    <3>3. \A p \in alive \cup again : runs'[p] = IF p \in again THEN pcfg ELSE runs[p]
      BY <3>1
    <3> QED
      BY <3>2, <3>3
  <2> QED
    BY <2>1, <2>2 DEF SameConfig, StoppedMeansDown, JoinedDown
<1>5. ASSUME NEW S, Ended(S), UNCHANGED <<loop, config>>
      PROVE  Safe'
  BY <1>5, EndedKeepsConfig DEF StoppedMeansDown, JoinedDown, loop, config
<1>6. ASSUME NEW p \in Procs, Crash(p) \/ TakeStop(p)
      PROVE  Safe'
  BY <1>5, <1>6 DEF Crash, TakeStop
<1>7. CASE P3Drain
  BY <1>5, <1>7 DEF P3Drain
<1>8. ASSUME UNCHANGED <<loop, runs, pcfg>>
      PROVE  Safe'
  BY <1>8 DEF SameConfig, StoppedMeansDown, JoinedDown, loop, alive
<1>9. ASSUME NEW p \in Procs, CooldownEnds(p)
      PROVE  Safe'
  BY <1>8, <1>9 DEF CooldownEnds, config
<1>10. ASSUME TakeSubscribe \/ TakeScan \/ ScanFinds \/ \E how \in {"idle", "failed"} : ScanEnds(how)
       PROVE  Safe'
  BY <1>8, <1>10 DEF TakeSubscribe, TakeScan, ScanFinds, ScanEnds, config
<1>11. ASSUME SlotAvailable \/ RequestRestart \/ EditConfig \/ Interrupt
       PROVE  Safe'
  BY <1>8, <1>11 DEF SlotAvailable, RequestRestart, EditConfig, Interrupt, config
<1>12. "P1" \in Procs /\ "P2" \in Procs
  BY DEF Procs, Trading
<1> QED
  BY <1>1, <1>2, <1>3, <1>4, <1>6, <1>7, <1>9, <1>10, <1>11, <1>12
     DEF Next, Orchestrate, P1Step, P2Step, P3Step

\* The strengthened invariant.
THEOREM Invariance == Spec => []IInv
<1>1. Init => IInv
  <2> SUFFICES ASSUME Init PROVE IInv
    OBVIOUS
  <2>1. PICK q \in InitialScan(<<>>) : ctl = [p \in Trading |-> IF p = "P2" THEN q ELSE <<>>]
    BY DEF Init
  <2>2. q \in Seq(Commands) /\ Len(q) <= CtlCap
    <3>1. <<>> \in Seq(Commands) /\ Len(<<>>) <= CtlCap /\ "scan" \in Commands
      BY SupervisorAssumption DEF Commands
    <3>2. Sent(<<>>, "scan") \in Seq(Commands) /\ Len(Sent(<<>>, "scan")) <= CtlCap
      BY <3>1, SentOneType
    <3> QED
      BY <2>1, <3>1, <3>2 DEF InitialScan
  <2>3. ctl \in [Trading -> Seq(Commands)] /\ \A p \in Trading : Len(ctl[p]) <= CtlCap
    BY <2>1, <2>2, SupervisorAssumption
  <2>4. TypeOK
    <3>1. /\ 0 \in 0 .. EventCap /\ 0 \in 0 .. MaxEdits
          /\ 0 \in 0 .. MaxRequests /\ 0 \in 0 .. MaxCrashes /\ 0 \in 0 .. MaxSlots
      BY SupervisorAssumption
    <3>2. /\ running \in BOOLEAN /\ flag \in BOOLEAN /\ active \in BOOLEAN
          /\ streaming \in BOOLEAN /\ owed \in BOOLEAN
      BY Zenon DEF Init
    <3> QED
      BY <2>3, <3>1, <3>2 DEF Init, TypeOK
  <2>5. SameConfig /\ StoppedMeansDown /\ JoinedDown
    BY DEF Init, SameConfig, StoppedMeansDown, JoinedDown, alive, Procs
  <2> QED
    BY <2>4, <2>5 DEF IInv
<1>2. IInv /\ [Next]_vars => IInv'
  <2>1. ASSUME IInv, Next PROVE IInv'
    BY <2>1, TypeKept, SafetyKept DEF IInv
  <2>2. ASSUME IInv, UNCHANGED vars PROVE IInv'
    BY <2>2 DEF IInv, TypeOK, SameConfig, StoppedMeansDown, JoinedDown, alive, vars,
       loop, messages, config, p1p2, bounds
  <2> QED
    BY <2>1, <2>2
<1> QED
  BY <1>1, <1>2, PTL DEF Spec

\* Every variable has its type, and no control queue exceeds its capacity.
THEOREM TypeCorrect == Spec => []TypeOK
BY Invariance, PTL DEF IInv

\* Trading processes that run together run the same configuration.
THEOREM ConfigsAgree == Spec => []SameConfig
BY Invariance, PTL DEF IInv

\* When the orchestrator has stopped, no trading process runs.
THEOREM DownWhenStopped == Spec => []StoppedMeansDown
BY Invariance, PTL DEF IInv

-----------------------------------------------------------------------------
(* The trading processes are a generation.                                  *)

\* The trading processes that live, each with its configuration.
TradingRuns == Restrict(runs, Trading \cap alive)

LEMMA CrewIs ==
    /\ TradingRuns = [p \in Trading \cap alive |-> runs[p]]
    /\ DOMAIN TradingRuns = Trading \cap alive
    /\ Crew!Live = Trading \cap alive
BY DEF TradingRuns, Restrict, Crew!Live

LEMMA CrewInit == Init => Crew!Init
<1> SUFFICES ASSUME Init PROVE Crew!Init
  OBVIOUS
<1>1. pc = "request" /\ pcfg = 0 /\ runs = [p \in Procs |-> 0] /\ alive = Procs
  BY DEF Init, alive
<1>2. Trading \cap alive = Trading /\ \A p \in Trading : runs[p] = 0
  BY <1>1 DEF Procs
<1>3. TradingRuns = [p \in Trading |-> 0]
  BY <1>2, CrewIs
<1> QED
  BY <1>1, <1>3 DEF Crew!Init, TradingRuns, Phase

\* Steps that neither change the phase nor the children.
LEMMA CrewStutters ==
    ASSUME UNCHANGED <<runs, pcfg>>, Phase' = Phase
    PROVE  UNCHANGED Crew!vars
BY DEF Crew!vars, alive

\* Children end; of those of a generation there may be some among them.
LEMMA EndedLoses ==
    ASSUME NEW S, Ended(S), pcfg' = pcfg, Phase' = Phase
    PROVE  Crew!Next
<1> DEFINE D == S \cap (Trading \cap alive)
<1>1. runs' = [p \in alive \ S |-> runs[p]]
  BY DEF Ended, Restrict
<1>2. alive' = alive \ S /\ \A p \in alive \ S : runs'[p] = runs[p]
  BY <1>1 DEF alive
<1>3. Trading \cap alive' = (Trading \cap alive) \ D
  BY <1>2
<1>4. TradingRuns' = [p \in Trading \cap alive' |-> runs'[p]]
  BY <1>1 DEF TradingRuns, Restrict
<1>5. \A p \in Trading \cap alive' : runs'[p] = TradingRuns[p]
  BY <1>2, CrewIs
<1>6. TradingRuns' = [p \in (Trading \cap alive) \ D |-> TradingRuns[p]]
  BY <1>3, <1>4, <1>5
<1>7. Crew!Lose(D)
  <2>1. TradingRuns' = Crew!Restrict(TradingRuns, (Trading \cap alive) \ D)
    BY <1>6 DEF Crew!Restrict
  <2> HIDE DEF D
  <2> QED
    BY <2>1, CrewIs DEF Crew!Lose, TradingRuns
<1> QED
  BY <1>7, CrewIs DEF Crew!Next

\* The orchestrator waits for a child and kills it; after the last one the generation
\* is over.
LEMMA JoinLoses ==
    ASSUME IInv, IInv', Join
    PROVE  Crew!Next
<1>1. /\ pc \in {"join", "stopping"} /\ pcfg' = pcfg
      /\ Ended(Killed(JoinOrder[joining]))
      /\ IF joining < 3 THEN pc' = pc
         ELSE pc' = IF pc = "join" THEN "reload" ELSE "stopped"
  BY DEF Join, config
<1>2. CASE pc = "stopping" /\ pc' = "stopped"
  <2>1. Trading \cap alive' = {}
    BY <1>2 DEF IInv, StoppedMeansDown
  <2>2. TradingRuns' = <<>>
    <3>1. TradingRuns' = [p \in Trading \cap alive' |-> runs'[p]]
      BY DEF TradingRuns, Restrict
    <3> QED
      BY <2>1, <3>1
  <2>3. Crew!End
    BY <1>1, <1>2, <2>2 DEF Crew!End, TradingRuns, Phase
  <2> QED
    BY <2>3 DEF Crew!Next
<1>3. CASE ~(pc = "stopping" /\ pc' = "stopped")
  <2>1. Phase' = Phase
    BY <1>1, <1>3 DEF Phase
  <2> QED
    BY <1>1, <2>1, EndedLoses
<1> QED
  BY <1>2, <1>3

\* The children of the next generation start with the files as they are then.
LEMMA ReloadRenews ==
    ASSUME IInv, Reload
    PROVE  Crew!Renew
<1>1. pc = "reload" /\ pc' = "check" /\ pcfg' = disk /\ runs' = Started(Trading, disk)
  BY DEF Reload
<1>2. Trading \cap alive = {} /\ disk \in Nat /\ disk >= pcfg
  BY <1>1, SupervisorAssumption DEF IInv, JoinedDown, TypeOK
<1>3. runs' = [p \in alive \cup Trading |-> IF p \in Trading THEN disk ELSE runs[p]]
  BY <1>1 DEF Started
<1>4. Trading \cap alive' = Trading /\ \A p \in Trading : runs'[p] = disk
  BY <1>3 DEF alive
<1>5. TradingRuns' = [p \in Trading |-> pcfg']
  <2>1. TradingRuns' = [p \in Trading \cap alive' |-> runs'[p]]
    BY DEF TradingRuns, Restrict
  <2> QED
    BY <1>1, <1>4, <2>1
<1>6. Phase = "renewing" /\ Phase' = "serving"
  BY <1>1 DEF Phase
<1> QED
  BY <1>1, <1>2, <1>5, <1>6, CrewIs DEF Crew!Renew, TradingRuns

\* The watchdog replaces dead children.
LEMMA CheckReplaces ==
    ASSUME IInv, CheckProcesses
    PROVE  Crew!Next
<1> DEFINE again == (Watched \ alive) \ cool
           S == again \cap Trading
<1>1. pc = "check" /\ pc' = "drain" /\ pcfg' = pcfg /\ runs' = Started(again, pcfg)
  BY DEF CheckProcesses, config
<1>2. runs' = [p \in alive \cup again |-> IF p \in again THEN pcfg ELSE runs[p]]
  BY <1>1 DEF Started
<1>3. S \in SUBSET (Trading \ (Trading \cap alive))
  OBVIOUS
<1> HIDE DEF again
<1>4. Trading \cap alive' = (Trading \cap alive) \cup S
  BY <1>2 DEF alive
<1>5. \A p \in (Trading \cap alive) \cup S : runs'[p] = IF p \in S THEN pcfg ELSE TradingRuns[p]
  BY <1>2, CrewIs
<1>6. TradingRuns' = [p \in (Trading \cap alive) \cup S |-> IF p \in S THEN pcfg ELSE TradingRuns[p]]
  <2>1. TradingRuns' = [p \in Trading \cap alive' |-> runs'[p]]
    BY DEF TradingRuns, Restrict
  <2> HIDE DEF S
  <2> QED
    BY <1>4, <1>5, <2>1
<1>7. Phase = "serving" /\ Phase' = "serving"
  BY <1>1 DEF Phase
<1> HIDE DEF S
<1>8. Crew!Replace(S)
  BY <1>1, <1>6, <1>7, CrewIs DEF Crew!Replace, TradingRuns
<1> QED
  BY <1>3, <1>8, CrewIs DEF Crew!Next

LEMMA CrewStep == IInv /\ IInv' /\ [Next]_vars => [Crew!Next]_(Crew!vars)
<1> SUFFICES ASSUME IInv, IInv', [Next]_vars PROVE [Crew!Next]_(Crew!vars)
  OBVIOUS
<1>1. CASE UNCHANGED vars
  BY <1>1, CrewStutters DEF vars, loop, config, Phase
<1>2. CASE NoRequest \/ DrainQueues
  <2>1. UNCHANGED <<runs, pcfg>> /\ Phase' = Phase
    BY <1>2 DEF NoRequest, DrainQueues, config, Phase
  <2> QED
    BY <2>1, CrewStutters
<1>3. CASE BeginRestart \/ BeginShutdown
  <2>1. /\ UNCHANGED <<runs, pcfg>> /\ Phase = "serving" /\ Phase' \in {"renewing", "ending"}
    BY <1>3 DEF BeginRestart, BeginShutdown, config, Phase
  <2> QED
    BY <2>1 DEF Crew!Next, Crew!Retire, alive
<1>4. CASE ReloadFails
  <2>1. /\ UNCHANGED <<runs, pcfg>> /\ Phase = "renewing" /\ Phase' = "serving"
        /\ Trading \cap alive = {}
    BY <1>4 DEF ReloadFails, config, Phase, IInv, JoinedDown
  <2> QED
    BY <2>1, CrewIs DEF Crew!Next, Crew!GiveUp, alive
<1>5. CASE Join \/ Reload \/ CheckProcesses
  BY <1>5, JoinLoses, ReloadRenews, CheckReplaces DEF Crew!Next
<1>6. ASSUME NEW p \in Procs, Crash(p) \/ TakeStop(p)
      PROVE  Crew!Next
  BY <1>6, EndedLoses DEF Crash, TakeStop, loop, config, Phase
<1>7. CASE P3Drain
  <2>1. PICK S : Ended(S) /\ UNCHANGED <<loop, config>>
    BY <1>7 DEF P3Drain
  <2> QED
    BY <2>1, EndedLoses DEF loop, config, Phase
<1>8. ASSUME NEW p \in Procs, CooldownEnds(p)
      PROVE  UNCHANGED Crew!vars
  BY <1>8, CrewStutters DEF CooldownEnds, loop, config, Phase
<1>9. CASE TakeSubscribe \/ TakeScan \/ ScanFinds \/ \E how \in {"idle", "failed"} : ScanEnds(how)
  BY <1>9, CrewStutters DEF TakeSubscribe, TakeScan, ScanFinds, ScanEnds, loop, config, Phase
<1>10. CASE SlotAvailable \/ RequestRestart \/ EditConfig \/ Interrupt
  BY <1>10, CrewStutters DEF SlotAvailable, RequestRestart, EditConfig, Interrupt, loop, config, Phase
<1>11. "P1" \in Procs /\ "P2" \in Procs
  BY DEF Procs, Trading
<1> QED
  BY <1>1, <1>2, <1>3, <1>4, <1>5, <1>6, <1>7, <1>8, <1>9, <1>10, <1>11
     DEF Next, Orchestrate, P1Step, P2Step, P3Step

\* Whatever dies when, whatever the operator asks for and whether or not the files can be
\* read: the trading processes are replaced by their own kind and renewed when none is
\* left, never to an older configuration (main.py).
THEOREM ImplementsGenerations == Spec => KeepsGenerations
BY CrewInit, CrewStep, Invariance, PTL DEF Spec, KeepsGenerations, Crew!Spec

\* What Generations is for: a trading process that lives runs the configuration of its
\* generation, the one that its successors get too, and in the end none lives.
THEOREM GenerationsAreOne == Spec => []Crew!OneGeneration
<1>1. IInv => Crew!OneGeneration
  <2> SUFFICES ASSUME IInv PROVE Crew!OneGeneration
    OBVIOUS
  <2>1. /\ \A p \in Trading \cap alive : runs[p] = pcfg
        /\ pc = "stopped" => Trading \cap alive = {}
    BY DEF IInv, SameConfig, StoppedMeansDown
  <2>2. \A p \in Trading \cap alive : TradingRuns[p] = pcfg
    BY <2>1, CrewIs
  <2>3. Phase = "ended" => pc = "stopped"
    BY DEF Phase
  <2> QED
    BY <2>1, <2>2, <2>3, CrewIs DEF Crew!OneGeneration, TradingRuns
<1> QED
  BY <1>1, Invariance, PTL

=============================================================================
