-------------------------- MODULE LiveTrading_proofs --------------------------
(* Safety of live trading, for all sets of symbols and all limits: the types, *)
(* the limits on positions, the trailing stops, the trades recorded, the      *)
(* orders that nobody is going to cancel, that the tables implement           *)
(* PositionBook, and that a halt lasts.                                       *)
EXTENDS LiveTrading, FiniteSetTheorems, TLAPS

-----------------------------------------------------------------------------
(* The invariant.                                                           *)

\* P3 is in the middle of opening a position; a row is being closed, by P3 or by
\* recovery.
Entering == job \in RowJobs /\ job.op \in {"stop", "target", "record"}
Shutting == job.op \in {"write", "delete"}

\* Fills that are still to process, what recovery has read, the row it is closing.
Pending == IF job.op = "fills" THEN job.fills
           ELSE IF Shutting /\ job.then.op = "fills" THEN job.then.fills ELSE {}
Reading == IF Shutting THEN job.then ELSE job
AtHand == IF Shutting THEN {job.row} ELSE {}

\* A row is known by its ticket and by its symbol.
RowsDistinct ==
    /\ IsFiniteSet(positions)
    /\ \A p, q \in positions : (p.ticket = q.ticket \/ p.sym = q.sym) => p = q

\* Tickets are used once.
TicketsUsed ==
    /\ \A p \in positions : p.ticket <= tickets
    /\ \A o \in book : o.ticket <= tickets
    /\ \A t \in Tickets : t > tickets => trades[t] = 0

\* The position being opened has no row yet, and room for one; the one P3 is closing
\* has its row; and a row found with a fill is there until it is closed.
JobKnown ==
    /\ Entering => /\ job.row.ticket <= tickets /\ ~job.row.recovered
                   /\ \A p \in positions : p.ticket # job.row.ticket /\ p.sym # job.row.sym
                   /\ Cardinality(positions) < MaxConcurrent
    /\ job.op = "cancel" \/ (Shutting /\ ~Recovering) => job.row \in positions
    /\ \A f \in Pending : f.row \in positions \/ \A p \in positions : p.sym # f.row.sym

\* A position being opened has no trade yet; one whose row is about to be deleted has.
JobTrades ==
    /\ Entering => trades[job.row.ticket] = 0
    /\ job.op = "delete" => trades[job.row.ticket] >= 1

\* A row that recovery has read is still there, or it has left with its trade.
Kept(p) == p \in positions \/ (trades[p.ticket] > 0 /\ \A q \in positions : q.ticket # p.ticket)

\* What recovery has read and left to do agrees with the tables; the symbols it is
\* going to add have no row; and a row that it closes for its age it closes once.
RecoveryKnown == Recovering =>
    /\ restarts # 0 /\ stage = 0
    /\ \A p \in Reading.read \cup AtHand : p.ticket <= tickets /\ Kept(p)
    /\ \A p, q \in Reading.read \cup AtHand : p.ticket = q.ticket => p = q
    /\ Reading.op = "sync" =>
          /\ positions \subseteq Reading.read
          /\ Reading.left \subseteq positions /\ AtHand \subseteq positions \ Reading.left
    /\ Reading.op = "adopt" =>
          /\ \A h, k \in Reading.left : h.sym = k.sym => h = k
          /\ \A h \in Reading.left : \A p \in positions : p.sym # h.sym
    /\ Reading.op # "sync" => AtHand \cap Reading.read = {}

Own(P) == {p \in P : ~p.recovered}
SlotsKept == Cardinality(Own(positions)) <= MaxConcurrent

\* There are no trailing stops before P3 has started.
SymsOf(P) == {p.sym : p \in P}
TrailingIs == trailing = IF Recovering THEN {} ELSE SymsOf(positions)

\* Without a restart a row is recorded only just before it is deleted.
Recorded == restarts = 0 =>
    /\ \A t \in Tickets : trades[t] <= 1
    /\ \A p \in positions : trades[p.ticket] = 0 \/ (job.op = "delete" /\ job.row = p)

\* An order that is no stray is in the books of its row, until that is closed.
Owns(p, o) == p.ticket = o.ticket /\ o.kind \in p.orders
Released(p) == Shutting /\ ~job.givenUp /\ job.row = p
OrdersOwned == \A o \in book \ stray :
    \/ \E p \in positions : Owns(p, o) /\ ~Released(p)
    \/ Entering /\ Owns(job.row, o)

Rest ==
    /\ RowsDistinct /\ TicketsUsed /\ SlotsKept
    /\ JobKnown /\ JobTrades /\ RecoveryKnown
    /\ TrailingIs /\ Recorded /\ OrdersOwned

IInv == TypeOK /\ Rest

-----------------------------------------------------------------------------
(* Jobs.                                                                    *)

\* What is in the middle of what shows in the job's name.
LEMMA JobShapes ==
    ASSUME NEW j \in Jobs
    PROVE  /\ j.op = "none" => j = NoJob
           /\ j.op \in {"stop", "target", "record", "cancel"} => j \in RowJobs
           /\ j.op = "fills" => j \in FillJobs
           /\ j.op \in RecoveryOps => j \in Recoveries
           /\ j.op \in {"write", "delete"} => j \in Closings
BY DEF Jobs, NoJob, RowJobs, FillJobs, Recoveries, Closings, RecoveryOps

LEMMA RowJobIs ==
    ASSUME NEW j \in RowJobs
    PROVE  /\ j \in Jobs /\ j.row \in Rows
           /\ j.op \in {"stop", "target", "record", "cancel"}
BY DEF RowJobs, Jobs

LEMMA FillJobIs ==
    ASSUME NEW j \in FillJobs
    PROVE  j \in Jobs /\ j.op = "fills" /\ j.fills \subseteq Fills
BY DEF FillJobs, Jobs

LEMMA RecoveryIs ==
    ASSUME NEW j \in Recoveries
    PROVE  /\ j \in Jobs /\ j.op \in {"sync", "adopt", "expire"} /\ j.read \subseteq Rows
           /\ j.op = "sync" => j.left \subseteq Rows
           /\ j.op = "adopt" => j.left \subseteq Holdings
BY DEF Recoveries, Jobs

LEMMA ClosingsAre ==
    ASSUME NEW j \in Closings
    PROVE  /\ j \in Jobs /\ j.op \in {"write", "delete"}
           /\ j.row \in Rows /\ j.by \in Reports /\ j.givenUp \in BOOLEAN
           /\ j.then \in {NoJob} \cup FillJobs \cup Recoveries
           /\ j.then \in Jobs
           /\ j.then.op \in {"none", "fills", "sync", "adopt", "expire"}
<1>1. /\ j \in Jobs /\ j.op \in {"write", "delete"}
      /\ j.row \in Rows /\ j.by \in Reports /\ j.givenUp \in BOOLEAN
      /\ j.then \in {NoJob} \cup FillJobs \cup Recoveries
  BY DEF Closings, Jobs
<1>2. j.then \in Jobs /\ j.then.op \in {"none", "fills", "sync", "adopt", "expire"}
  BY <1>1, FillJobIs, RecoveryIs DEF Jobs, NoJob
<1> QED
  BY <1>1, <1>2

\* A row that P3 begins to close, and one that is given up.
LEMMA ClosingIs ==
    ASSUME NEW p \in Rows, NEW by \in Reports, NEW then \in {NoJob} \cup FillJobs \cup Recoveries,
           job' = Closing(p, by, FALSE, then)
    PROVE  /\ job' \in Closings /\ job' \in Jobs /\ job'.op = "write"
           /\ job'.row = p /\ job'.by = by /\ ~job'.givenUp /\ job'.then = then
BY DEF Closing, Closings, Jobs

LEMMA GivenUpIs ==
    ASSUME NEW p \in Rows, NEW then \in {NoJob} \cup FillJobs \cup Recoveries,
           job' = Closing(p, {}, TRUE, then)
    PROVE  /\ job' \in Closings /\ job' \in Jobs /\ job'.op = "write"
           /\ job'.row = p /\ job'.by = {} /\ job'.givenUp /\ job'.then = then
BY DEF Closing, Closings, Jobs, Reports

\* A job of this name is neither of these ...
LEMMA OpSays ==
    ASSUME job.op \in {"none", "stop", "target", "record", "cancel", "fills"}
    PROVE  ~Shutting /\ ~Recovering /\ AtHand = {} /\ (job.op # "fills" => Pending = {})
BY DEF Shutting, Recovering, RecoveryOps, AtHand, Pending

LEMMA IdleIs ==
    ASSUME job = NoJob
    PROVE  job.op = "none" /\ ~Entering /\ ~Shutting /\ ~Recovering /\ Pending = {}
BY DEF NoJob, Entering, Shutting, Recovering, RecoveryOps, Pending, RowJobs

\* ... nor is a job to come.
LEMMA OpWillSay ==
    ASSUME job'.op \in {"none", "stop", "target", "record", "cancel", "fills"}
    PROVE  ~Shutting' /\ ~Recovering' /\ AtHand' = {} /\ (job'.op # "fills" => Pending' = {})
BY DEF Shutting, Recovering, RecoveryOps, AtHand, Pending

LEMMA IdleNext ==
    ASSUME job' = NoJob
    PROVE  job'.op = "none" /\ ~Entering' /\ ~Shutting' /\ ~Recovering' /\ Pending' = {}
BY DEF NoJob, Entering, Shutting, Recovering, RecoveryOps, Pending, RowJobs

\* The tables stay, and no order is added.
LEMMA TablesStay ==
    ASSUME IInv, UNCHANGED tables, book' \subseteq book
    PROVE  RowsDistinct' /\ TicketsUsed' /\ SlotsKept'
BY DEF IInv, Rest, RowsDistinct, TicketsUsed, SlotsKept, tables

\* What the invariant says of jobs and recovery stays with them.
LEMMA JobStays ==
    ASSUME IInv, UNCHANGED <<tables, job, restarts, stage>>
    PROVE  JobKnown' /\ JobTrades' /\ RecoveryKnown' /\ Recorded'
BY DEF IInv, Rest, JobKnown, JobTrades, RecoveryKnown, Recorded, Entering, Shutting, Pending, Reading,
       AtHand, Kept, Recovering, tables

LEMMA InitInvariant == Init => IInv
<1> SUFFICES ASSUME Init PROVE IInv
  OBVIOUS
<1>1. /\ positions = {} /\ trades = [t \in Tickets |-> 0] /\ tickets = 0
      /\ net = [s \in Symbols |-> 0] /\ book = {} /\ filled = {}
      /\ losses = 0 /\ cooling = FALSE /\ stage = 0
      /\ seen = {} /\ trailing = {} /\ job = NoJob
      /\ restarts = 0 /\ stray = {}
  BY DEF Init
<1>2. TypeOK
  <2>1. trades \in [Tickets -> Nat] /\ net \in [Symbols -> -MaxNet .. MaxNet]
    BY <1>1, LiveAssumption
  <2>2. tickets \in 0 .. MaxTickets /\ restarts \in 0 .. MaxRecoveries
    BY <1>1, LiveAssumption
  <2>3. losses \in Nat /\ cooling \in BOOLEAN /\ stage \in 0 .. 3
    <3>1. losses = 0 /\ stage = 0
      BY <1>1
    <3>2. cooling \in BOOLEAN
      BY <1>1, Zenon
    <3>3. losses \in Nat /\ stage \in 0 .. 3
      BY <3>1
    <3> QED
      BY <3>2, <3>3
  <2>4. job \in Jobs
    BY <1>1 DEF Jobs
  <2>5. /\ positions \subseteq Rows /\ book \subseteq Orders /\ filled \subseteq Orders
        /\ seen \subseteq Orders /\ stray \subseteq Orders /\ trailing \subseteq Symbols
    BY <1>1
  <2> QED
    BY <2>1, <2>2, <2>3, <2>4, <2>5 DEF TypeOK
<1>3. IsFiniteSet({}) /\ Cardinality({}) = 0 /\ Own({}) = {} /\ SymsOf({}) = {}
  BY FS_EmptySet DEF Own, SymsOf
<1>4. job.op = "none" /\ ~Entering /\ ~Shutting /\ ~Recovering /\ Pending = {}
  BY <1>1, IdleIs
<1>5. RowsDistinct /\ TicketsUsed /\ SlotsKept /\ TrailingIs
  BY <1>1, <1>3, <1>4, LiveAssumption DEF RowsDistinct, TicketsUsed, SlotsKept, TrailingIs
<1>6. JobKnown /\ JobTrades /\ RecoveryKnown /\ Recorded /\ OrdersOwned
  BY <1>1, <1>4 DEF JobKnown, JobTrades, RecoveryKnown, Recorded, OrdersOwned
<1> QED
  BY <1>2, <1>5, <1>6 DEF IInv, Rest

-----------------------------------------------------------------------------
(* The exchange, and orders to close.                                       *)

LEMMA OrderOfIs ==
    ASSUME NEW p \in Rows, NEW kind \in Kinds
    PROVE  /\ OrderOf(p, kind) \in Orders
           /\ OrderOf(p, kind).ticket = p.ticket /\ OrderOf(p, kind).kind = kind
BY LiveAssumption DEF OrderOf, Rows, Orders, Amounts

LEMMA ExecutesIs ==
    ASSUME TypeOK, NEW s \in Symbols, NEW amount \in Int, Executes(s, amount)
    PROVE  net' \in [Symbols -> -MaxNet .. MaxNet]
BY LiveAssumption DEF TypeOK, Executes

LEMMA FireKeeps ==
    ASSUME IInv, NEW o \in book, Fire(o)
    PROVE  IInv'
<1>1. /\ Executes(o.sym, o.amount)
      /\ book' = book \ {o} /\ filled' = filled \cup {o}
      /\ UNCHANGED <<tables, risk, seen, trailing, job, restarts, stray>>
  BY DEF Fire
<1>2. o \in Orders /\ o.sym \in Symbols /\ o.amount \in Int
  BY DEF IInv, TypeOK, Orders, Amounts
<1>3. TypeOK'
  BY <1>1, <1>2, ExecutesIs DEF IInv, TypeOK, tables, risk
<1>4. RowsDistinct' /\ TicketsUsed' /\ SlotsKept'
  BY <1>1, TablesStay
<1>5. JobKnown' /\ JobTrades' /\ RecoveryKnown' /\ Recorded'
  BY <1>1, JobStays DEF risk
<1>6. TrailingIs' /\ OrdersOwned'
  BY <1>1 DEF IInv, Rest, TrailingIs, OrdersOwned, Entering, Shutting, Released, Recovering, tables
<1> QED
  BY <1>3, <1>4, <1>5, <1>6 DEF IInv, Rest

LEMMA CooldownEndsKeeps ==
    ASSUME IInv, CooldownEnds
    PROVE  IInv'
<1>1. cooling' = FALSE /\ UNCHANGED <<exchange, tables, losses, stage, seen, trailing, job, restarts, stray>>
  BY DEF CooldownEnds
<1>2. TypeOK'
  BY <1>1 DEF IInv, TypeOK, exchange, tables
<1>3. RowsDistinct' /\ TicketsUsed' /\ SlotsKept'
  BY <1>1, TablesStay DEF exchange
<1>4. JobKnown' /\ JobTrades' /\ RecoveryKnown' /\ Recorded'
  BY <1>1, JobStays
<1>5. TrailingIs' /\ OrdersOwned'
  BY <1>1 DEF IInv, Rest, TrailingIs, OrdersOwned, Entering, Shutting, Released, Recovering, tables, exchange
<1> QED
  BY <1>2, <1>3, <1>4, <1>5 DEF IInv, Rest

LEMMA CloseKeeps ==
    ASSUME IInv, NEW p \in positions, Close(p)
    PROVE  IInv'
<1>1. /\ job = NoJob /\ ClosingOrder(p)
      /\ job' \in {[op |-> "cancel", row |-> p], NoJob}
      /\ UNCHANGED <<tables, book, filled, risk, seen, trailing, restarts, stray>>
  BY DEF Close, Idle
<1>2. p \in Rows /\ p.sym \in Symbols /\ -p.amount \in Int
  BY LiveAssumption DEF IInv, TypeOK, Rows, Amounts
<1>3. net' \in [Symbols -> -MaxNet .. MaxNet]
  BY <1>1, <1>2, ExecutesIs DEF IInv, ClosingOrder
<1>4. job' \in Jobs /\ job'.op \in {"none", "cancel"} /\ (job'.op = "cancel" => job'.row = p)
  BY <1>1, <1>2 DEF Jobs, RowJobs, NoJob
<1>5. ~Entering' /\ ~Shutting' /\ ~Recovering' /\ Pending' = {}
  BY <1>4, OpWillSay DEF Entering
<1>6. job.op = "none" /\ ~Entering /\ ~Shutting /\ ~Recovering
  BY <1>1, IdleIs
<1>7. TypeOK'
  BY <1>1, <1>3, <1>4 DEF IInv, TypeOK, tables, risk
<1>8. RowsDistinct' /\ TicketsUsed' /\ SlotsKept'
  BY <1>1, TablesStay
<1>9. JobKnown' /\ JobTrades' /\ RecoveryKnown'
  BY <1>1, <1>4, <1>5 DEF JobKnown, JobTrades, RecoveryKnown, tables
<1>10. TrailingIs' /\ Recorded' /\ OrdersOwned'
  BY <1>1, <1>5, <1>6 DEF IInv, Rest, TrailingIs, Recorded, OrdersOwned, Released, tables
<1> QED
  BY <1>7, <1>8, <1>9, <1>10 DEF IInv, Rest

LEMMA OrphanCleanupKeeps ==
    ASSUME IInv, NEW p \in positions, OrphanCleanup(p)
    PROVE  IInv'
<1>1. /\ job = NoJob /\ job' = Closing(p, {}, TRUE, NoJob)
      /\ UNCHANGED <<exchange, tables, risk, seen, trailing, restarts, stray>>
  BY DEF OrphanCleanup, Idle
<1>2. p \in Rows
  BY DEF IInv, TypeOK
<1>3. /\ job' \in Jobs /\ job'.op = "write" /\ job'.row = p /\ job'.givenUp /\ job'.then = NoJob
  BY <1>1, <1>2, GivenUpIs
<1>4. ~Entering' /\ Shutting' /\ ~Recovering' /\ Pending' = {}
  BY <1>3 DEF Entering, Shutting, Recovering, Pending, NoJob, RecoveryOps
<1>5. job.op = "none" /\ ~Entering /\ ~Shutting /\ ~Recovering
  BY <1>1, IdleIs
<1>6. TypeOK'
  BY <1>1, <1>3 DEF IInv, TypeOK, tables, risk, exchange
<1>7. RowsDistinct' /\ TicketsUsed' /\ SlotsKept'
  BY <1>1, TablesStay DEF exchange
<1>8. JobKnown' /\ JobTrades' /\ RecoveryKnown'
  BY <1>1, <1>3, <1>4 DEF JobKnown, JobTrades, RecoveryKnown, tables
<1>9. TrailingIs' /\ Recorded' /\ OrdersOwned'
  BY <1>1, <1>3, <1>4, <1>5 DEF IInv, Rest, TrailingIs, Recorded, OrdersOwned, Released, tables, exchange
<1> QED
  BY <1>6, <1>7, <1>8, <1>9 DEF IInv, Rest

\* P3, or the system, starts anew: all of it but what is specific to either.
LEMMA RestartedIs ==
    ASSUME IInv, Restarted
    PROVE  /\ restarts' \in 0 .. MaxRecoveries /\ restarts' # 0
           /\ seen' = {} /\ losses' = 0 /\ stage' = 0
           /\ UNCHANGED exchange /\ UNCHANGED tables
           /\ TypeOK' <=> job' \in Jobs /\ trailing' \subseteq Symbols
           /\ RowsDistinct' /\ TicketsUsed' /\ SlotsKept' /\ Recorded'
           /\ ~Shutting' => OrdersOwned'
<1>1. /\ restarts < (IF Recovering THEN MaxRecoveries ELSE MaxRestarts)
      /\ restarts' = restarts + 1
      /\ seen' = {} /\ losses' = 0 /\ cooling' = FALSE /\ stage' = 0
      /\ stray' = stray \cup {o \in book : \A p \in positions : o.ticket # p.ticket}
      /\ UNCHANGED exchange /\ UNCHANGED tables
  BY DEF Restarted
<1>2. restarts' \in 0 .. MaxRecoveries /\ restarts' # 0
  BY <1>1, LiveAssumption DEF IInv, TypeOK
<1>3. UNCHANGED <<positions, trades, tickets, net, book, filled>>
  BY <1>1 DEF exchange, tables
<1>4. TypeOK' <=> job' \in Jobs /\ trailing' \subseteq Symbols
  <2>1. stray' \subseteq Orders
    BY <1>1 DEF IInv, TypeOK
  <2>2. losses' \in Nat /\ stage' \in 0 .. 3 /\ seen' \subseteq Orders
    <3>1. losses' = 0 /\ stage' = 0 /\ seen' = {}
      BY <1>1
    <3> QED
      BY <3>1
  <2>3. cooling' \in BOOLEAN
    BY <1>1, Zenon
  <2> QED
    BY <1>2, <1>3, <2>1, <2>2, <2>3 DEF IInv, TypeOK
<1>5. RowsDistinct' /\ TicketsUsed' /\ SlotsKept'
  BY <1>1, <1>3, TablesStay
<1>6. Recorded'
  BY <1>2 DEF Recorded
<1>7. ASSUME ~Shutting' PROVE OrdersOwned'
  <2> SUFFICES ASSUME NEW o \in book' \ stray'
               PROVE  \E p \in positions' : Owns(p, o)
    BY <1>7 DEF OrdersOwned, Released
  <2>1. o \in book \ stray /\ \E p \in positions : o.ticket = p.ticket
    BY <1>1, <1>3
  <2>2. ~(Entering /\ Owns(job.row, o))
    BY <2>1 DEF IInv, Rest, JobKnown, Owns
  <2> QED
    BY <1>3, <2>1, <2>2 DEF IInv, Rest, OrdersOwned
<1> QED
  BY <1>1, <1>2, <1>4, <1>5, <1>6, <1>7

\* P3 starts with nothing in memory but the trailing stops of the rows.
LEMMA RestartP3Keeps ==
    ASSUME IInv, RestartP3
    PROVE  IInv'
<1>1. Restarted /\ trailing' = SymsOf(positions) /\ job' = NoJob
  BY DEF RestartP3, TrailAll, SymsOf
<1>2. job'.op = "none" /\ ~Entering' /\ ~Shutting' /\ ~Recovering' /\ Pending' = {}
  BY <1>1, IdleNext
<1>3. TypeOK'
  <2>1. job' \in Jobs /\ trailing' \subseteq Symbols
    BY <1>1 DEF Jobs, IInv, TypeOK, Rows, SymsOf
  <2> QED
    BY <1>1, <2>1, RestartedIs
<1>4. RowsDistinct' /\ TicketsUsed' /\ SlotsKept' /\ Recorded' /\ OrdersOwned'
  BY <1>1, <1>2, RestartedIs
<1>5. JobKnown' /\ JobTrades' /\ RecoveryKnown'
  BY <1>2 DEF JobKnown, JobTrades, RecoveryKnown
<1>6. TrailingIs'
  BY <1>1, <1>2, RestartedIs DEF TrailingIs, tables
<1> QED
  BY <1>3, <1>4, <1>5, <1>6 DEF IInv, Rest

\* Recovery has read the rows that are there.
LEMMA RestartSystemKeeps ==
    ASSUME IInv, RestartSystem
    PROVE  IInv'
<1>1. Restarted /\ trailing' = {} /\ job' = [op |-> "sync", read |-> positions, left |-> positions]
  BY DEF RestartSystem
<1>2. /\ job' \in Jobs /\ job'.op = "sync" /\ job'.read = positions /\ job'.left = positions
      /\ ~Entering' /\ ~Shutting' /\ Recovering' /\ Pending' = {} /\ Reading' = job' /\ AtHand' = {}
  BY <1>1 DEF Jobs, Recoveries, RowJobs, RecoveryOps, Entering, Shutting, Recovering, Pending, Reading, AtHand,
              IInv, TypeOK
<1>3. TypeOK'
  BY <1>1, <1>2, RestartedIs
<1>4. RowsDistinct' /\ TicketsUsed' /\ SlotsKept' /\ Recorded' /\ OrdersOwned'
  BY <1>1, <1>2, RestartedIs
<1>5. JobKnown' /\ JobTrades' /\ TrailingIs'
  BY <1>1, <1>2 DEF JobKnown, JobTrades, TrailingIs
<1>6. positions' = positions /\ restarts' # 0 /\ stage' = 0
  BY <1>1, RestartedIs DEF tables
<1>7. RecoveryKnown'
  BY <1>2, <1>4, <1>6 DEF RecoveryKnown, RowsDistinct, TicketsUsed, Kept
<1> QED
  BY <1>3, <1>4, <1>5, <1>7 DEF IInv, Rest

-----------------------------------------------------------------------------
(* Opening a position.                                                      *)

LEMMA EnterKeeps ==
    ASSUME IInv, NEW s \in Symbols, NEW amount \in Sides, Enter(s, amount)
    PROVE  IInv'
<1> DEFINE r == [ticket |-> tickets + 1, sym |-> s, amount |-> amount, orders |-> {}, recovered |-> FALSE]
<1>1. /\ job = NoJob /\ Passes(s) /\ tickets < MaxTickets
      /\ DrawdownChecked /\ Ordered(s, amount)
      /\ UNCHANGED <<positions, trades, book, filled, losses, cooling, seen, trailing, restarts, stray>>
  BY DEF Enter, Idle
<1>2. stage' \in 0 .. 3
  <2>1. PICK d \in Drawdowns : stage' = StageAfter(d)
    BY <1>1 DEF DrawdownChecked
  <2> QED
    BY <2>1, LiveAssumption DEF StageAfter, IInv, TypeOK
<1>3. job.op = "none" /\ ~Entering /\ ~Shutting /\ ~Recovering
  BY <1>1, IdleIs
<1>4. \/ Executes(s, amount) /\ tickets' = tickets + 1 /\ job' = [op |-> "stop", row |-> r]
      \/ (Executes(s, amount) \/ net' = net) /\ tickets' = tickets /\ job' = job
  BY <1>1 DEF Ordered
<1>5. net' \in [Symbols -> -MaxNet .. MaxNet]
  <2>1. amount \in Int
    BY LiveAssumption
  <2> QED
    BY <1>4, <2>1, ExecutesIs DEF IInv, TypeOK
<1>6. tickets' \in 0 .. MaxTickets /\ tickets \in 0 .. MaxTickets
  BY <1>1, <1>4, LiveAssumption DEF IInv, TypeOK
<1>7. CASE tickets' = tickets /\ job' = job
  <2>1. TypeOK'
    BY <1>1, <1>2, <1>5, <1>7 DEF IInv, TypeOK
  <2>2. ~Entering' /\ ~Shutting' /\ ~Recovering' /\ Pending' = {} /\ job'.op = "none"
    BY <1>1, <1>7, IdleNext
  <2>3. Rest'
    BY <1>1, <1>3, <1>7, <2>2 DEF IInv, Rest, RowsDistinct, TicketsUsed, SlotsKept, JobKnown, JobTrades,
                                  RecoveryKnown, TrailingIs, Recorded, OrdersOwned, Released
  <2> QED
    BY <2>1, <2>3 DEF IInv
<1>8. CASE Executes(s, amount) /\ tickets' = tickets + 1 /\ job' = [op |-> "stop", row |-> r]
  <2>1. amount \in Amounts
    <3>1. net[s] \in -MaxNet .. MaxNet /\ net[s] + amount \in -MaxNet .. MaxNet
      BY <1>8 DEF Executes, IInv, TypeOK
    <3> QED
      BY <3>1, LiveAssumption DEF Amounts
  <2>2. r \in Rows
    BY <1>1, <1>6, <2>1, LiveAssumption DEF Rows, Tickets
  <2>3. /\ r.ticket = tickets + 1 /\ r.sym = s /\ r.recovered = FALSE
        /\ r.ticket \in Tickets
    BY <2>2 DEF Rows
  <2> HIDE DEF r
  <2>4. /\ job' \in Jobs /\ job'.op = "stop" /\ job'.row = r
        /\ Entering' /\ ~Shutting' /\ ~Recovering' /\ Pending' = {}
    <3>1. job' \in RowJobs /\ job'.op = "stop" /\ job'.row = r
      BY <1>8, <2>2 DEF RowJobs
    <3> QED
      BY <3>1, RowJobIs, OpWillSay DEF Entering
  <2>5. TypeOK'
    BY <1>1, <1>2, <1>5, <1>6, <2>4 DEF IInv, TypeOK
  <2>6. RowsDistinct' /\ SlotsKept' /\ TrailingIs' /\ RecoveryKnown'
    BY <1>1, <1>3, <2>4 DEF IInv, Rest, RowsDistinct, SlotsKept, TrailingIs, RecoveryKnown
  <2>7. \A p \in positions : p.ticket # r.ticket /\ p.sym # r.sym
    <3>1. \A p \in positions : p.ticket \in Int /\ p.ticket <= tickets
      BY DEF IInv, TypeOK, Rows, Tickets, Rest, TicketsUsed
    <3>2. \A p \in positions : p.sym # s
      BY <1>1 DEF Passes
    <3> QED
      BY <1>6, <2>3, <3>1, <3>2
  <2>8. JobKnown'
    BY <1>1, <1>8, <2>3, <2>4, <2>7, <1>6 DEF JobKnown, Passes, HasSlot
  <2>9. TicketsUsed'
    <3>1. \A p \in positions : p.ticket \in Int /\ p.ticket <= tickets
      BY DEF IInv, TypeOK, Rows, Tickets, Rest, TicketsUsed
    <3>2. \A o \in book : o.ticket \in Int /\ o.ticket <= tickets
      BY DEF IInv, TypeOK, Orders, Tickets, Rest, TicketsUsed
    <3>3. \A t \in Tickets : t \in Int /\ (t > tickets => trades[t] = 0)
      BY DEF IInv, Rest, TicketsUsed, Tickets
    <3> QED
      BY <1>1, <1>6, <1>8, <3>1, <3>2, <3>3 DEF TicketsUsed
  <2>10. Recorded' /\ JobTrades'
    <3>1. trades[r.ticket] = 0
      BY <1>6, <2>3 DEF IInv, Rest, TicketsUsed
    <3> QED
      BY <1>1, <1>3, <2>4, <3>1 DEF IInv, Rest, Recorded, JobTrades
  <2>11. OrdersOwned'
    BY <1>1, <1>3, <2>4 DEF IInv, Rest, OrdersOwned, Released
  <2> QED
    BY <2>5, <2>6, <2>8, <2>9, <2>10, <2>11 DEF IInv, Rest
<1> QED
  BY <1>4, <1>7, <1>8

\* Placing one of the orders of the position that is being opened.
LEMMA PlaceKeeps ==
    ASSUME IInv, job.op \in {"stop", "target"},
           NEW kind \in Kinds, NEW then \in {"target", "record"}, Place(kind, then, "record"),
           UNCHANGED <<tables, net, filled, risk, seen, trailing, restarts>>
    PROVE  IInv'
<1>1. job \in RowJobs /\ Entering /\ ~Shutting /\ ~Recovering
  BY JobShapes, OpSays DEF IInv, TypeOK, Entering
<1>2. job.row \in Rows
  BY <1>1 DEF RowJobs
<1> DEFINE o == OrderOf(job.row, kind)
           r == [job.row EXCEPT !.orders = @ \cup {kind}]
<1>3. o \in Orders /\ o.ticket = job.row.ticket /\ o.kind = kind
  BY <1>2, OrderOfIs
<1>4. /\ r \in Rows /\ r.ticket = job.row.ticket /\ r.sym = job.row.sym
      /\ r.recovered = job.row.recovered /\ r.orders = job.row.orders \cup {kind}
  BY <1>2 DEF Rows
<1> HIDE DEF o, r
<1>5. \/ book' = book \cup {o} /\ stray' = stray /\ job' = [op |-> then, row |-> r]
      \/ book' = book \cup {o} /\ stray' = stray \cup {o} /\ job' = [job EXCEPT !.op = "record"]
      \/ book' = book /\ stray' = stray /\ job' = [job EXCEPT !.op = "record"]
  BY DEF Place, o, r
<1>6. /\ book' \subseteq book \cup {o} /\ stray' \in {stray, stray \cup {o}}
      /\ \A x \in book' \ stray' : x \in book \ stray \/ (x = o /\ job'.row.orders = job.row.orders \cup {kind})
  BY <1>4, <1>5
<1>7. /\ job' \in RowJobs /\ job'.op \in {"target", "record"} /\ Entering'
      /\ job'.row.ticket = job.row.ticket /\ job'.row.sym = job.row.sym
      /\ job'.row.recovered = job.row.recovered /\ job.row.orders \subseteq job'.row.orders
  <2>1. CASE job' = [op |-> then, row |-> r]
    BY <1>4, <2>1 DEF RowJobs, Entering
  <2>2. CASE job' = [job EXCEPT !.op = "record"]
    BY <1>1, <2>2 DEF RowJobs, Entering
  <2> QED
    BY <1>5, <2>1, <2>2
<1>8. UNCHANGED <<positions, trades, tickets, trailing, restarts>>
  BY DEF tables
<1>9. ~Shutting' /\ ~Recovering' /\ Pending' = {} /\ job' \in Jobs
  BY <1>7, OpWillSay, RowJobIs
<1>10. TypeOK'
  BY <1>3, <1>6, <1>8, <1>9 DEF IInv, TypeOK, risk
<1>11. RowsDistinct' /\ SlotsKept' /\ TrailingIs' /\ RecoveryKnown'
  BY <1>1, <1>8, <1>9 DEF IInv, Rest, RowsDistinct, SlotsKept, TrailingIs, RecoveryKnown
<1>12. JobKnown' /\ JobTrades'
  BY <1>1, <1>7, <1>8, <1>9 DEF IInv, Rest, JobKnown, JobTrades
<1>13. TicketsUsed'
  BY <1>1, <1>3, <1>6, <1>8 DEF IInv, Rest, TicketsUsed, JobKnown
<1>14. Recorded'
  BY <1>1, <1>7, <1>8 DEF IInv, Rest, Recorded
<1>15. OrdersOwned'
  <2> SUFFICES ASSUME NEW x \in book' \ stray'
               PROVE  (\E p \in positions : Owns(p, x)) \/ Owns(job'.row, x)
    BY <1>7, <1>8, <1>9 DEF OrdersOwned, Released
  <2>1. CASE x \in book \ stray
    BY <1>7, <2>1 DEF IInv, Rest, OrdersOwned, Owns
  <2>2. CASE x = o /\ job'.row.orders = job.row.orders \cup {kind}
    BY <1>3, <1>7, <2>2 DEF Owns
  <2> QED
    BY <1>6, <2>1, <2>2
<1> QED
  BY <1>10, <1>11, <1>12, <1>13, <1>14, <1>15 DEF IInv, Rest

LEMMA OwnIs ==
    ASSUME NEW P, IsFiniteSet(P)
    PROVE  /\ IsFiniteSet(Own(P)) /\ Cardinality(Own(P)) \in Nat /\ Cardinality(P) \in Nat
           /\ Cardinality(Own(P)) <= Cardinality(P)
<1>1. Own(P) \in SUBSET P
  BY DEF Own
<1> QED
  BY <1>1, FS_Subset, FS_CardinalityType

\* Fewer rows are not more rows of P3's own.
LEMMA OwnShrinks ==
    ASSUME NEW P, IsFiniteSet(P), NEW Q \in SUBSET P, Cardinality(Own(P)) <= MaxConcurrent
    PROVE  IsFiniteSet(Q) /\ Cardinality(Own(Q)) <= MaxConcurrent
<1>1. IsFiniteSet(Own(P)) /\ Cardinality(Own(P)) \in Nat
  BY OwnIs
<1>2. Own(Q) \in SUBSET Own(P)
  BY DEF Own
<1>3. IsFiniteSet(Own(Q)) /\ Cardinality(Own(Q)) <= Cardinality(Own(P))
  BY <1>1, <1>2, FS_Subset
<1>4. Cardinality(Own(Q)) \in Nat
  BY <1>3, FS_CardinalityType
<1>5. IsFiniteSet(Q)
  BY FS_Subset
<1> QED
  BY <1>1, <1>3, <1>4, <1>5, LiveAssumption

LEMMA InsertRowKeeps ==
    ASSUME IInv, InsertRow
    PROVE  IInv'
<1>1. /\ job.op = "record"
      /\ positions' = positions \cup {job.row}
      /\ trailing' = trailing \cup {job.row.sym}
      /\ job' = NoJob
      /\ UNCHANGED <<exchange, trades, tickets, risk, seen, restarts, stray>>
  BY DEF InsertRow
<1>2. job \in RowJobs /\ Entering /\ job.row \in Rows /\ ~Shutting /\ ~Recovering
  BY <1>1, JobShapes, RowJobIs, OpSays DEF IInv, TypeOK, Entering
<1>3. /\ job.row.ticket <= tickets
      /\ \A p \in positions : p.ticket # job.row.ticket /\ p.sym # job.row.sym
      /\ Cardinality(positions) < MaxConcurrent
  BY <1>2 DEF IInv, Rest, JobKnown
<1>4. job'.op = "none" /\ ~Entering' /\ ~Shutting' /\ ~Recovering' /\ Pending' = {}
  BY <1>1, IdleNext
<1>5. TypeOK'
  BY <1>1, <1>2 DEF IInv, TypeOK, Rows, Jobs, exchange, risk
<1>6. IsFiniteSet(positions') /\ Cardinality(positions') = Cardinality(positions) + 1
  <2>1. job.row \notin positions
    BY <1>3
  <2> QED
    BY <1>1, <2>1, FS_AddElement DEF IInv, Rest, RowsDistinct
<1>7. RowsDistinct'
  BY <1>1, <1>3, <1>6 DEF IInv, Rest, RowsDistinct
<1>8. SlotsKept'
  <2>1. Cardinality(positions) \in Nat
    BY OwnIs DEF IInv, Rest, RowsDistinct
  <2>2. Cardinality(Own(positions')) \in Nat /\ Cardinality(Own(positions')) <= Cardinality(positions')
    BY <1>6, OwnIs
  <2> QED
    BY <1>3, <1>6, <2>1, <2>2, LiveAssumption DEF SlotsKept
<1>9. TrailingIs'
  BY <1>1, <1>2, <1>4 DEF IInv, Rest, TrailingIs, SymsOf
<1>10. TicketsUsed' /\ JobKnown' /\ JobTrades' /\ RecoveryKnown'
  BY <1>1, <1>3, <1>4 DEF IInv, Rest, TicketsUsed, JobKnown, JobTrades, RecoveryKnown, exchange
<1>11. Recorded'
  BY <1>1, <1>2, <1>4 DEF IInv, Rest, Recorded, JobTrades
<1>12. OrdersOwned'
  BY <1>1, <1>2, <1>4 DEF IInv, Rest, OrdersOwned, Released, exchange
<1> QED
  BY <1>5, <1>7, <1>8, <1>9, <1>10, <1>11, <1>12 DEF IInv, Rest

-----------------------------------------------------------------------------
(* Closing a position.                                                      *)

\* A row goes, or it had gone: the rows that stay.
LEMMA RowGoes ==
    ASSUME IInv, NEW p \in Rows, positions' = positions \ {p}
    PROVE  /\ RowsDistinct' /\ SlotsKept'
           /\ p \in positions \/ (\A q \in positions : q.sym # p.sym)
                => SymsOf(positions') = SymsOf(positions) \ {p.sym}
<1>1. positions' \in SUBSET positions /\ IsFiniteSet(positions)
  BY DEF IInv, Rest, RowsDistinct
<1>2. IsFiniteSet(positions') /\ SlotsKept'
  BY <1>1, OwnShrinks DEF IInv, Rest, SlotsKept
<1>3. RowsDistinct'
  BY <1>1, <1>2 DEF IInv, Rest, RowsDistinct
<1>4. ASSUME p \in positions \/ \A q \in positions : q.sym # p.sym
      PROVE  SymsOf(positions') = SymsOf(positions) \ {p.sym}
  <2>1. \A q \in positions : q.sym = p.sym => q = p
    BY <1>4 DEF IInv, Rest, RowsDistinct
  <2> QED
    BY <2>1 DEF SymsOf
<1> QED
  BY <1>2, <1>3, <1>4

\* P3's rows that are being closed are there, recovery's may have left.
LEMMA ShuttingIs ==
    ASSUME IInv, Shutting
    PROVE  /\ job \in Closings /\ job \in Jobs /\ job.row \in Rows /\ job.row.ticket \in Tickets
           /\ job.by \in Reports /\ job.then \in Jobs
           /\ job.then.op \in {"none", "fills", "sync", "adopt", "expire"}
           /\ ~Entering /\ Reading = job.then /\ AtHand = {job.row}
           /\ Recovering <=> job.then.op \in RecoveryOps
           /\ ~Recovering => job.row \in positions
           /\ job.row.ticket <= tickets
           /\ job.row \in positions \/ \A q \in positions : q.ticket # job.row.ticket
<1>1. job \in Closings
  BY JobShapes DEF IInv, TypeOK, Shutting
<1>2. job.op \in {"write", "delete"} /\ job.op \notin RecoveryOps
  BY DEF Shutting, RecoveryOps
<1>3. /\ job \in Jobs /\ job.row \in Rows /\ job.by \in Reports /\ job.then \in Jobs
      /\ job.then.op \in {"none", "fills", "sync", "adopt", "expire"}
  BY <1>1, ClosingsAre
<1>4. job.row.ticket \in Tickets /\ ~Entering /\ Reading = job.then /\ AtHand = {job.row}
  BY <1>2, <1>3 DEF Rows, Entering, Reading, AtHand
<1>5. Recovering <=> job.then.op \in RecoveryOps
  BY <1>2 DEF Recovering
<1>6. ~Recovering => job.row \in positions
  BY DEF IInv, Rest, JobKnown
<1>7. Recovering => job.row.ticket <= tickets /\ Kept(job.row)
  BY <1>4 DEF IInv, Rest, RecoveryKnown
<1> QED
  BY <1>1, <1>3, <1>4, <1>5, <1>6, <1>7 DEF Kept, IInv, Rest, TicketsUsed

LEMMA WriteTradeKeeps ==
    ASSUME IInv, WriteTrade
    PROVE  IInv'
<1>1. /\ job.op = "write"
      /\ trades' = [trades EXCEPT ![job.row.ticket] = @ + 1]
      /\ job' = [job EXCEPT !.op = "delete"]
      /\ UNCHANGED <<exchange, positions, tickets, risk, seen, trailing, restarts, stray>>
  BY DEF WriteTrade
<1>2. Shutting
  BY <1>1 DEF Shutting
<1>3. /\ job \in Closings /\ job.row \in Rows /\ job.row.ticket \in Tickets /\ ~Entering
      /\ ~Recovering => job.row \in positions
      /\ job.row.ticket <= tickets
  BY <1>2, ShuttingIs
<1>4. /\ job' \in Closings /\ job'.op = "delete"
      /\ job'.row = job.row /\ job'.by = job.by /\ job'.givenUp = job.givenUp /\ job'.then = job.then
  BY <1>1, <1>3 DEF Closings
<1>5. /\ ~Entering' /\ Shutting' /\ Pending' = Pending /\ Reading' = Reading /\ AtHand' = AtHand
      /\ Recovering' <=> Recovering
  BY <1>1, <1>4 DEF Entering, Shutting, Pending, Reading, AtHand, Recovering, RecoveryOps
<1>6. trades \in [Tickets -> Nat]
  BY DEF IInv, TypeOK
<1>7. /\ trades' \in [Tickets -> Nat]
      /\ trades'[job.row.ticket] = trades[job.row.ticket] + 1
      /\ \A t \in Tickets : t # job.row.ticket => trades'[t] = trades[t]
      /\ \A t \in Tickets : trades[t] > 0 => trades'[t] > 0
  BY <1>1, <1>3, <1>6
<1>8. TypeOK'
  BY <1>1, <1>4, <1>7, ClosingsAre DEF IInv, TypeOK, exchange, risk
<1>9. RowsDistinct' /\ SlotsKept' /\ TrailingIs' /\ JobKnown'
  BY <1>1, <1>3, <1>4, <1>5 DEF IInv, Rest, RowsDistinct, SlotsKept, TrailingIs, JobKnown
<1>10. TicketsUsed'
  <2>1. \A t \in Tickets : t > tickets => t # job.row.ticket
    BY <1>3 DEF IInv, TypeOK, Tickets
  <2> QED
    BY <1>1, <1>7, <2>1 DEF IInv, Rest, TicketsUsed, exchange
<1>11. JobTrades'
  BY <1>3, <1>4, <1>5, <1>6, <1>7 DEF JobTrades
<1>12. RecoveryKnown'
  <2>1. ASSUME Recovering, NEW p \in Reading.read \cup AtHand
        PROVE  Kept(p)'
    <3>1. Kept(p) /\ p \in Rows
      <4>1. Reading \in Jobs /\ Reading.op \in RecoveryOps
        BY <1>2, <2>1, ShuttingIs
      <4>2. Reading.read \subseteq Rows
        BY <4>1, JobShapes, RecoveryIs
      <4> QED
        BY <1>2, <1>3, <2>1, <4>2, ShuttingIs DEF IInv, Rest, RecoveryKnown
    <3>2. p.ticket \in Tickets
      BY <3>1 DEF Rows
    <3> QED
      BY <1>1, <1>7, <3>1, <3>2 DEF Kept
  <2> QED
    BY <1>1, <1>5, <2>1 DEF IInv, Rest, RecoveryKnown, risk
<1>13. Recorded'
  <2> SUFFICES ASSUME restarts = 0
               PROVE  /\ \A t \in Tickets : trades'[t] <= 1
                      /\ \A p \in positions : trades'[p.ticket] = 0 \/ job.row = p
    BY <1>1, <1>4 DEF Recorded
  <2>1. job.row \in positions
    BY <1>3 DEF IInv, Rest, RecoveryKnown
  <2>2. trades[job.row.ticket] = 0
    BY <1>1, <2>1 DEF IInv, Rest, Recorded
  <2>3. \A p \in positions : p # job.row => p.ticket # job.row.ticket /\ p.ticket \in Tickets
    BY <2>1 DEF IInv, Rest, RowsDistinct, TypeOK, Rows
  <2>4. \A t \in Tickets : trades[t] <= 1
    BY DEF IInv, Rest, Recorded
  <2>5. \A p \in positions : p # job.row => trades[p.ticket] = 0
    BY <1>1 DEF IInv, Rest, Recorded
  <2> QED
    BY <1>7, <2>2, <2>3, <2>4, <2>5
<1>14. OrdersOwned'
  BY <1>1, <1>2, <1>3, <1>4, <1>5 DEF IInv, Rest, OrdersOwned, Released, exchange
<1> QED
  BY <1>8, <1>9, <1>10, <1>11, <1>12, <1>13, <1>14 DEF IInv, Rest

\* Cancelling the orders of a row: what is left of them is stray.
LEMMA CancelledIs ==
    ASSUME NEW p \in Rows, Cancelled(p)
    PROVE  /\ book' \subseteq book /\ stray \subseteq stray' /\ stray' \subseteq stray \cup book
           /\ \A o \in book' \ stray' : o \in book \ stray /\ ~Owns(p, o)
<1>1. PICK K \in SUBSET ToCancel(p) :
        book' = book \ (ToCancel(p) \ K) /\ stray' = stray \cup K
  BY DEF Cancelled
<1>2. ToCancel(p) \subseteq book
  BY DEF ToCancel
<1>3. \A o \in book : Owns(p, o) => o \in ToCancel(p)
  BY DEF ToCancel, Owns
<1> QED
  BY <1>1, <1>2, <1>3

LEMMA CancelOrdersKeeps ==
    ASSUME IInv, CancelOrders
    PROVE  IInv'
<1>1. /\ job.op = "cancel"
      /\ \/ Cancelled(job.row) /\ job' = Closing(job.row, {}, FALSE, NoJob)
         \/ job' = NoJob /\ UNCHANGED <<book, stray>>
      /\ UNCHANGED <<tables, net, filled, risk, seen, trailing, restarts>>
  BY DEF CancelOrders
<1>2. job \in RowJobs /\ job.row \in Rows /\ ~Entering /\ ~Shutting /\ ~Recovering
  BY <1>1, JobShapes, RowJobIs, OpSays DEF IInv, TypeOK, Entering
<1>3. job.row \in positions
  BY <1>1 DEF IInv, Rest, JobKnown
<1>4. /\ book' \subseteq book /\ stray' \subseteq Orders
      /\ \A o \in book' \ stray' : o \in book \ stray
  BY <1>1, <1>2, CancelledIs DEF IInv, TypeOK
<1>5. /\ job' \in Jobs /\ ~Entering' /\ ~Recovering' /\ Pending' = {}
      /\ job'.op \in {"none", "write"}
      /\ job'.op = "write" => job'.row = job.row /\ \A o \in book' \ stray' : ~Owns(job.row, o)
  <2>1. CASE job' = NoJob
    BY <2>1, IdleNext DEF Jobs
  <2>2. CASE Cancelled(job.row) /\ job' = Closing(job.row, {}, FALSE, NoJob)
    <3>1. /\ job' \in Jobs /\ job'.op = "write" /\ job'.row = job.row /\ job'.then = NoJob
      <4>1. {} \in Reports
        BY DEF Reports
      <4> QED
        BY <1>2, <2>2, <4>1, ClosingIs
    <3>2. ~Entering' /\ ~Recovering' /\ Pending' = {}
      BY <3>1 DEF Entering, Recovering, Pending, Shutting, RecoveryOps, NoJob
    <3> QED
      BY <1>2, <2>2, <3>1, <3>2, CancelledIs
  <2> QED
    BY <1>1, <2>1, <2>2
<1>6. UNCHANGED <<positions, trades, tickets, trailing, restarts>>
  BY <1>1 DEF tables
<1>7. TypeOK'
  BY <1>1, <1>4, <1>5, <1>6 DEF IInv, TypeOK, risk
<1>8. RowsDistinct' /\ TicketsUsed' /\ SlotsKept'
  BY <1>1, <1>4, TablesStay
<1>9. JobKnown' /\ JobTrades' /\ RecoveryKnown'
  BY <1>3, <1>5, <1>6 DEF JobKnown, JobTrades, RecoveryKnown, Shutting
<1>10. TrailingIs' /\ Recorded'
  BY <1>1, <1>2, <1>5, <1>6 DEF IInv, Rest, TrailingIs, Recorded
<1>11. OrdersOwned'
  <2> SUFFICES ASSUME NEW o \in book' \ stray'
               PROVE  \E p \in positions : Owns(p, o) /\ ~(job'.op = "write" /\ job'.row = p)
    BY <1>5, <1>6 DEF OrdersOwned, Released, Shutting
  <2>1. PICK p \in positions : Owns(p, o)
    BY <1>2, <1>4 DEF IInv, Rest, OrdersOwned
  <2> QED
    BY <1>5, <2>1
<1> QED
  BY <1>7, <1>8, <1>9, <1>10, <1>11 DEF IInv, Rest

LEMMA RecordTradeIs ==
    ASSUME TypeOK, RecordTrade
    PROVE  losses' \in Nat /\ cooling' \in BOOLEAN
<1>1. losses' \in Nat
  BY DEF RecordTrade, TypeOK
<1>2. cooling' \in BOOLEAN
  BY Zenon DEF RecordTrade, TypeOK
<1> QED
  BY <1>1, <1>2

LEMMA DeleteRowKeeps ==
    ASSUME IInv, DeleteRow
    PROVE  IInv'
<1>1. /\ job.op = "delete"
      /\ positions' = positions \ {job.row}
      /\ trailing' = Untrailed(job.row)
      /\ seen' = seen \cup job.by
      /\ job' = job.then
      /\ \/ ~job.givenUp /\ RecordTrade /\ stray' = stray
         \/ /\ job.givenUp /\ stray' = stray \cup OrdersLeft(job.row)
            /\ UNCHANGED <<losses, cooling>>
      /\ UNCHANGED <<exchange, trades, tickets, stage, restarts>>
  BY DEF DeleteRow
<1>2. Shutting
  BY <1>1 DEF Shutting
<1>3. /\ job \in Closings /\ job.row \in Rows /\ job.by \in Reports /\ job.then \in Jobs
      /\ job.then.op \in {"none", "fills", "sync", "adopt", "expire"}
      /\ ~Entering /\ Reading = job.then /\ AtHand = {job.row}
      /\ Recovering <=> job.then.op \in RecoveryOps
      /\ ~Recovering => job.row \in positions
  BY <1>2, ShuttingIs
<1>4. /\ ~Entering' /\ ~Shutting' /\ Reading' = job' /\ AtHand' = {}
      /\ Recovering' <=> Recovering
      /\ job'.op \notin {"cancel", "delete"}
      /\ Pending' = Pending
  BY <1>1, <1>2, <1>3 DEF Entering, Shutting, Reading, AtHand, Recovering, RecoveryOps, Pending
<1>5. losses' \in Nat /\ cooling' \in BOOLEAN /\ stray' \subseteq Orders
  <2>1. CASE RecordTrade /\ stray' = stray
    BY <2>1, RecordTradeIs DEF IInv, TypeOK
  <2>2. CASE stray' = stray \cup OrdersLeft(job.row) /\ UNCHANGED <<losses, cooling>>
    BY <2>2 DEF IInv, TypeOK, OrdersLeft
  <2> QED
    BY <1>1, <2>1, <2>2
<1>6. job.by \subseteq Orders
  BY <1>3 DEF Reports
<1>7. TypeOK'
  BY <1>1, <1>3, <1>5, <1>6 DEF IInv, TypeOK, Untrailed, exchange
<1>8. RowsDistinct' /\ SlotsKept'
  BY <1>1, <1>3, RowGoes
<1>9. TrailingIs'
  <2>1. CASE Recovering
    BY <1>1, <1>4, <2>1 DEF IInv, Rest, TrailingIs, Untrailed
  <2>2. CASE ~Recovering
    BY <1>1, <1>3, <1>4, <2>2, RowGoes DEF IInv, Rest, TrailingIs, Untrailed
  <2> QED
    BY <2>1, <2>2
<1>10. TicketsUsed'
  BY <1>1 DEF IInv, Rest, TicketsUsed, exchange
<1>11. JobKnown'
  <2> SUFFICES ASSUME NEW g \in Pending
               PROVE  g.row \in positions' \/ \A p \in positions' : p.sym # g.row.sym
    BY <1>4 DEF JobKnown
  <2>1. g.row \in positions \/ \A p \in positions : p.sym # g.row.sym
    BY DEF IInv, Rest, JobKnown
  <2> QED
    BY <1>1, <2>1 DEF IInv, Rest, RowsDistinct
<1>12. JobTrades'
  BY <1>4 DEF JobTrades
<1>13. RecoveryKnown'
  <2> SUFFICES ASSUME Recovering PROVE RecoveryKnown'
    BY <1>4 DEF RecoveryKnown
  <2>1. Reading' = Reading
    BY <1>1, <1>3, <1>4
  <2>2. ASSUME NEW p \in Reading.read PROVE Kept(p)'
    <3>1. Kept(p)
      BY DEF IInv, Rest, RecoveryKnown
    <3>2. p = job.row => trades[p.ticket] > 0
      <4>1. job.row.ticket \in Tickets /\ trades[job.row.ticket] \in Nat /\ trades[job.row.ticket] >= 1
        BY <1>1, <1>3 DEF IInv, TypeOK, Rows, Rest, JobTrades
      <4> QED
        BY <4>1
    <3>3. \A q \in positions' : q.ticket # job.row.ticket
      BY <1>1, <1>2, ShuttingIs DEF IInv, Rest, RowsDistinct
    <3> QED
      BY <1>1, <3>1, <3>2, <3>3 DEF Kept
  <2> QED
    BY <1>1, <1>3, <1>4, <2>1, <2>2 DEF IInv, Rest, RecoveryKnown
<1>14. Recorded'
  BY <1>1 DEF IInv, Rest, Recorded
<1>15. OrdersOwned'
  <2> SUFFICES ASSUME NEW o \in book' \ stray'
               PROVE  \E p \in positions' : Owns(p, o)
    BY <1>4 DEF OrdersOwned, Released
  <2>1. o \in book \ stray /\ (job.givenUp => o.ticket # job.row.ticket)
    BY <1>1 DEF exchange, OrdersLeft
  <2>2. PICK p \in positions : Owns(p, o) /\ ~Released(p)
    BY <1>3, <2>1 DEF IInv, Rest, OrdersOwned
  <2>3. p # job.row
    BY <1>2, <2>1, <2>2 DEF Owns, Released
  <2> QED
    BY <1>1, <2>2, <2>3
<1> QED
  BY <1>7, <1>8, <1>9, <1>10, <1>11, <1>12, <1>13, <1>14, <1>15 DEF IInv, Rest

-----------------------------------------------------------------------------
(* The monitor.                                                             *)

LEMMA MonitorKeeps ==
    ASSUME IInv, Monitor
    PROVE  IInv'
<1> DEFINE FoundBy(T) == {[row |-> p, by |-> {}] : p \in T}
                           \cup UNION {{[row |-> p, by |-> {o}] : o \in FilledOrders(p.sym)} : p \in positions}
<1>a. PICK S \in SUBSET positions : \E T \in SUBSET {p \in positions \ S : ~p.recovered} :
        StopsExecute(S) /\ job' = [op |-> "fills", fills |-> FoundBy(T)]
  BY DEF Monitor
<1>1. PICK T \in SUBSET {p \in positions \ S : ~p.recovered} :
        StopsExecute(S) /\ job' = [op |-> "fills", fills |-> FoundBy(T)]
  BY <1>a
<1>2. job = NoJob /\ UNCHANGED <<tables, book, filled, risk, seen, trailing, restarts, stray>>
  BY DEF Monitor, Idle
<1>3. job.op = "none" /\ ~Entering /\ ~Shutting /\ ~Recovering
  BY <1>2, IdleIs
<1>4. net' \in [Symbols -> -MaxNet .. MaxNet]
  BY <1>1 DEF StopsExecute
<1>5. \A f \in job'.fills : f \in Fills /\ f.row \in positions
  <2>1. \A p \in positions, o \in filled : [row |-> p, by |-> {o}] \in Fills
    BY DEF IInv, TypeOK, Fills, Reports
  <2>2. \A p \in positions : [row |-> p, by |-> {}] \in Fills
    BY DEF IInv, TypeOK, Fills, Reports
  <2>3. T \subseteq positions /\ \A s : FilledOrders(s) \subseteq filled
    BY DEF FilledOrders
  <2> QED
    BY <1>1, <2>1, <2>2, <2>3
<1>6. /\ job' \in Jobs /\ job'.op = "fills" /\ Pending' = job'.fills
      /\ ~Entering' /\ ~Shutting' /\ ~Recovering'
  <2>1. job'.op = "fills" /\ job' = [op |-> "fills", fills |-> job'.fills]
    BY <1>1
  <2>2. job' \in FillJobs
    BY <1>5, <2>1 DEF FillJobs
  <2> QED
    BY <2>1, <2>2, FillJobIs, OpWillSay DEF Entering, Pending
<1>7. TypeOK'
  BY <1>2, <1>4, <1>6 DEF IInv, TypeOK, tables, risk
<1>8. RowsDistinct' /\ TicketsUsed' /\ SlotsKept'
  BY <1>2, TablesStay
<1>9. JobKnown' /\ JobTrades' /\ RecoveryKnown'
  BY <1>2, <1>5, <1>6 DEF JobKnown, JobTrades, RecoveryKnown, tables
<1>10. TrailingIs' /\ Recorded' /\ OrdersOwned'
  BY <1>2, <1>3, <1>6 DEF IInv, Rest, TrailingIs, Recorded, OrdersOwned, Released, tables
<1> QED
  BY <1>7, <1>8, <1>9, <1>10 DEF IInv, Rest

\* Every fill has been found for a row.
LEMMA FillIs ==
    ASSUME IInv, job.op = "fills"
    PROVE  /\ job \in FillJobs /\ Pending = job.fills
           /\ ~Entering /\ ~Shutting /\ ~Recovering
           /\ \A f \in job.fills :
                 /\ f.row \in Rows /\ f.by \in Reports /\ f.by \subseteq Orders
                 /\ f.row \in positions \/ \A p \in positions : p.sym # f.row.sym
                 /\ Without(f) \in FillJobs /\ Without(f) \in Jobs
                 /\ Without(f).op = "fills" /\ Without(f).fills = job.fills \ {f}
<1>1. job \in FillJobs /\ job.fills \subseteq Fills
  BY JobShapes, FillJobIs DEF IInv, TypeOK
<1>2. Pending = job.fills /\ ~Entering /\ ~Shutting /\ ~Recovering
  BY OpSays DEF Pending, Entering
<1>3. \A f \in job.fills : f.row \in Rows /\ f.by \in Reports /\ f.by \subseteq Orders
  BY <1>1 DEF Fills, Reports
<1>4. \A f \in job.fills : Without(f) \in FillJobs /\ Without(f).fills = job.fills \ {f}
  BY <1>1 DEF Without, FillJobs
<1> QED
  BY <1>1, <1>2, <1>3, <1>4, FillJobIs DEF IInv, Rest, JobKnown

\* A fill that is skipped, and the end of the list: the tables stay.
LEMMA FillSkipped ==
    ASSUME IInv, job.op = "fills", UNCHANGED restarts,
           UNCHANGED <<tables, exchange, risk, seen, trailing, stray>>,
           job' = NoJob \/ \E f \in job.fills : job' = Without(f)
    PROVE  IInv'
<1>1. ~Entering /\ ~Shutting /\ ~Recovering /\ Pending = job.fills
  BY FillIs
<1>2. /\ job' \in Jobs /\ job'.op \in {"none", "fills"} /\ Pending' \subseteq Pending
      /\ ~Entering' /\ ~Shutting' /\ ~Recovering'
  <2>1. CASE job' = NoJob
    BY <2>1, IdleNext DEF Jobs
  <2>2. ASSUME NEW f \in job.fills, job' = Without(f)
        PROVE  job' \in Jobs /\ job'.op = "fills" /\ Pending' = job'.fills /\ job'.fills \subseteq Pending
    BY <1>1, <2>2, FillIs DEF Pending
  <2> QED
    BY <2>1, <2>2, OpWillSay DEF Entering
<1>3. TypeOK'
  BY <1>2 DEF IInv, TypeOK, tables, exchange, risk
<1>4. RowsDistinct' /\ TicketsUsed' /\ SlotsKept'
  BY TablesStay DEF exchange
<1>5. JobKnown' /\ JobTrades' /\ RecoveryKnown'
  BY <1>2 DEF IInv, Rest, JobKnown, JobTrades, RecoveryKnown, tables
<1>6. TrailingIs' /\ Recorded' /\ OrdersOwned'
  BY <1>1, <1>2 DEF IInv, Rest, TrailingIs, Recorded, OrdersOwned, Released, tables, exchange
<1> QED
  BY <1>3, <1>4, <1>5, <1>6 DEF IInv, Rest

\* A fill that closes its row.
LEMMA TakeFillKeeps ==
    ASSUME IInv, job.op = "fills", UNCHANGED restarts, NEW f \in job.fills, TakeFill(f)
    PROVE  IInv'
<1>1. /\ Cancelled(f.row) /\ f.row \in positions
      /\ job' = Closing(f.row, f.by, FALSE, Without(f))
      /\ UNCHANGED <<tables, net, filled, risk, seen, trailing>>
  BY DEF TakeFill, Found
<1>2. ~Entering /\ ~Shutting /\ ~Recovering /\ Pending = job.fills
  BY FillIs
<1>3. /\ f.row \in Rows /\ f.by \in Reports /\ Without(f) \in FillJobs
      /\ Without(f).op = "fills" /\ Without(f).fills = job.fills \ {f}
  BY FillIs
<1>4. /\ job' \in Jobs /\ job'.op = "write" /\ job'.row = f.row /\ job'.then = Without(f)
      /\ ~Entering' /\ ~Recovering' /\ Pending' = job.fills \ {f}
  <2>1. job' \in Jobs /\ job'.op = "write" /\ job'.row = f.row /\ job'.then = Without(f)
    BY <1>1, <1>3, ClosingIs
  <2> QED
    BY <1>3, <2>1 DEF Entering, Recovering, Pending, Shutting, RecoveryOps
<1>5. /\ book' \subseteq book /\ stray' \subseteq stray \cup book
      /\ \A o \in book' \ stray' : o \in book \ stray /\ ~Owns(f.row, o)
  BY <1>1, <1>3, CancelledIs
<1>6. TypeOK'
  BY <1>1, <1>4, <1>5 DEF IInv, TypeOK, tables, risk
<1>7. RowsDistinct' /\ TicketsUsed' /\ SlotsKept'
  BY <1>1, <1>5, TablesStay
<1>8. JobKnown' /\ JobTrades' /\ RecoveryKnown'
  BY <1>1, <1>2, <1>4 DEF IInv, Rest, JobKnown, JobTrades, RecoveryKnown, tables
<1>9. TrailingIs' /\ Recorded'
  BY <1>1, <1>2, <1>4 DEF IInv, Rest, TrailingIs, Recorded, tables
<1>10. OrdersOwned'
  <2> SUFFICES ASSUME NEW o \in book' \ stray'
               PROVE  \E p \in positions : Owns(p, o) /\ p # f.row
    BY <1>1, <1>4 DEF OrdersOwned, Released, tables
  <2>1. PICK p \in positions : Owns(p, o)
    BY <1>2, <1>5 DEF IInv, Rest, OrdersOwned
  <2> QED
    BY <1>5, <2>1
<1> QED
  BY <1>6, <1>7, <1>8, <1>9, <1>10 DEF IInv, Rest

\* A fill whose row has gone.
LEMMA TakeLateFillKeeps ==
    ASSUME IInv, job.op = "fills", UNCHANGED restarts, NEW f \in job.fills, TakeLateFill(f)
    PROVE  IInv'
<1>1. /\ Cancelled(f.row) /\ f.row \notin positions /\ RecordTrade
      /\ trailing' = Untrailed(f.row) /\ seen' = seen \cup f.by /\ job' = Without(f)
      /\ UNCHANGED <<tables, net, filled, stage>>
  BY DEF TakeLateFill, Found
<1>2. ~Entering /\ ~Shutting /\ ~Recovering /\ Pending = job.fills
  BY FillIs
<1>3. /\ f.row \in Rows /\ f.by \subseteq Orders /\ (\A p \in positions : p.sym # f.row.sym)
      /\ job' \in Jobs /\ job'.op = "fills" /\ job'.fills = job.fills \ {f}
  BY <1>1, FillIs
<1>4. ~Entering' /\ ~Shutting' /\ ~Recovering' /\ Pending' = job'.fills
  BY <1>3, OpWillSay DEF Entering, Pending
<1>5. /\ book' \subseteq book /\ stray' \subseteq stray \cup book
      /\ \A o \in book' \ stray' : o \in book \ stray
  BY <1>1, <1>3, CancelledIs
<1>6. losses' \in Nat /\ cooling' \in BOOLEAN
  BY <1>1, RecordTradeIs DEF IInv
<1>7. TypeOK'
  BY <1>1, <1>3, <1>5, <1>6 DEF IInv, TypeOK, Untrailed, tables
<1>8. RowsDistinct' /\ TicketsUsed' /\ SlotsKept'
  BY <1>1, <1>5, TablesStay
<1>9. JobKnown' /\ JobTrades' /\ RecoveryKnown'
  BY <1>1, <1>2, <1>3, <1>4 DEF IInv, Rest, JobKnown, JobTrades, RecoveryKnown, tables
<1>10. TrailingIs' /\ Recorded' /\ OrdersOwned'
  BY <1>1, <1>2, <1>3, <1>4, <1>5 DEF IInv, Rest, TrailingIs, SymsOf, Untrailed, Recorded, OrdersOwned,
                                      Released, tables
<1> QED
  BY <1>7, <1>8, <1>9, <1>10 DEF IInv, Rest

LEMMA ProcessFillKeeps ==
    ASSUME IInv, ProcessFill
    PROVE  IInv'
<1>1. job.op = "fills" /\ UNCHANGED restarts
  BY DEF ProcessFill
<1>2. CASE /\ job.fills = {} /\ job' = NoJob
           /\ UNCHANGED <<tables, exchange, risk, seen, trailing, stray>>
  BY <1>1, <1>2, FillSkipped
<1>3. ASSUME NEW f \in job.fills, SkipFill(f) PROVE IInv'
  BY <1>1, <1>3, FillSkipped DEF SkipFill
<1>4. ASSUME NEW f \in job.fills, TakeFill(f) \/ TakeLateFill(f) PROVE IInv'
  BY <1>1, <1>4, TakeFillKeeps, TakeLateFillKeeps
<1> QED
  BY <1>2, <1>3, <1>4 DEF ProcessFill

-----------------------------------------------------------------------------
(* Recovery.                                                                *)

\* Recovery at work, and not closing a row.
LEMMA RecoveringIs ==
    ASSUME IInv, job.op \in RecoveryOps
    PROVE  /\ job \in Recoveries /\ job.read \subseteq Rows
           /\ Recovering /\ ~Shutting /\ ~Entering /\ Reading = job /\ AtHand = {} /\ Pending = {}
           /\ trailing = {} /\ restarts # 0 /\ stage = 0
           /\ \A p \in job.read : p.ticket <= tickets /\ Kept(p)
           /\ \A p, q \in job.read : p.ticket = q.ticket => p = q
<1>1. job \in Recoveries /\ job.read \subseteq Rows
  BY JobShapes, RecoveryIs DEF IInv, TypeOK
<1>2. Recovering /\ ~Shutting /\ ~Entering /\ Reading = job /\ AtHand = {} /\ Pending = {}
  BY DEF Recovering, Shutting, Entering, Reading, AtHand, Pending, RecoveryOps
<1> QED
  BY <1>1, <1>2 DEF IInv, Rest, RecoveryKnown, TrailingIs

\* A step of recovery that changes nothing but what is left to do.
LEMMA RecoveryMoves ==
    ASSUME IInv, job.op \in RecoveryOps,
           UNCHANGED <<exchange, tables, risk, seen, trailing, restarts, stray>>,
           job' \in Jobs, Recovering', ~Entering', job'.op # "delete", Pending' = {},
           Shutting' => job'.givenUp,
           \A p \in (Reading.read \cup AtHand)' : p \in job.read \/ p \in positions
    PROVE  /\ TypeOK' /\ RowsDistinct' /\ TicketsUsed' /\ SlotsKept'
           /\ JobKnown' /\ JobTrades' /\ TrailingIs' /\ Recorded' /\ OrdersOwned'
           /\ restarts' # 0 /\ stage' = 0
           /\ \A p \in (Reading.read \cup AtHand)' : p.ticket <= tickets' /\ Kept(p)'
           /\ \A p, q \in (Reading.read \cup AtHand)' : p.ticket = q.ticket => p = q
<1>1. /\ Recovering /\ ~Shutting /\ ~Entering /\ trailing = {} /\ restarts # 0 /\ stage = 0
      /\ \A p \in job.read : p.ticket <= tickets /\ Kept(p)
      /\ \A p, q \in job.read : p.ticket = q.ticket => p = q
  BY RecoveringIs
<1>2. TypeOK'
  BY DEF IInv, TypeOK, exchange, tables, risk
<1>3. RowsDistinct' /\ TicketsUsed' /\ SlotsKept'
  BY TablesStay DEF exchange
<1>4. JobKnown' /\ JobTrades'
  <2>1. job'.op # "cancel"
    BY DEF Recovering, RecoveryOps
  <2> QED
    BY <2>1 DEF JobKnown, JobTrades
<1>5. TrailingIs' /\ Recorded' /\ OrdersOwned'
  BY <1>1 DEF IInv, Rest, TrailingIs, Recorded, OrdersOwned, Released, tables, exchange
<1>6. \A p \in (Reading.read \cup AtHand)' : p.ticket <= tickets /\ Kept(p)
  BY <1>1 DEF IInv, Rest, TicketsUsed, Kept
<1>7. \A p, q \in (Reading.read \cup AtHand)' : p.ticket = q.ticket => p = q
  BY <1>1 DEF IInv, Rest, RowsDistinct, Kept
<1> QED
  BY <1>1, <1>2, <1>3, <1>4, <1>5, <1>6, <1>7 DEF tables, risk, Kept

LEMMA SyncRowKeeps ==
    ASSUME IInv, SyncRow
    PROVE  IInv'
<1>1. /\ job.op = "sync" /\ job.op \in RecoveryOps
      /\ UNCHANGED <<exchange, tables, risk, seen, trailing, restarts, stray>>
  BY DEF SyncRow, RecoveryOps
<1>2. PICK p \in job.left :
        \/ job' = [job EXCEPT !.left = @ \ {p}]
        \/ job' = Closing(p, {}, TRUE, [job EXCEPT !.left = @ \ {p}])
  BY DEF SyncRow
<1> DEFINE rest == [job EXCEPT !.left = @ \ {p}]
<1>3. /\ job \in Recoveries /\ Reading = job /\ positions \subseteq job.read /\ job.left \subseteq positions
  BY <1>1, RecoveringIs DEF IInv, Rest, RecoveryKnown
<1>4. /\ rest \in Recoveries /\ rest \in Jobs /\ rest.op = "sync" /\ rest.read = job.read
      /\ rest.left = job.left \ {p}
  BY <1>1, <1>3 DEF Recoveries, Jobs
<1> HIDE DEF rest
<1>5. CASE job' = rest
  <2>1. /\ job' \in Jobs /\ Recovering' /\ ~Entering' /\ ~Shutting' /\ Pending' = {}
        /\ Reading' = rest /\ AtHand' = {}
    BY <1>4, <1>5 DEF Recovering, Entering, Shutting, Pending, Reading, AtHand, RecoveryOps
  <2>2. /\ TypeOK' /\ RowsDistinct' /\ TicketsUsed' /\ SlotsKept'
        /\ JobKnown' /\ JobTrades' /\ TrailingIs' /\ Recorded' /\ OrdersOwned'
        /\ restarts' # 0 /\ stage' = 0
        /\ \A q \in (Reading.read \cup AtHand)' : q.ticket <= tickets' /\ Kept(q)'
        /\ \A q, r \in (Reading.read \cup AtHand)' : q.ticket = r.ticket => q = r
    BY <1>1, <1>4, <1>5, <2>1, RecoveryMoves
  <2>3. RecoveryKnown'
    BY <1>1, <1>3, <1>4, <2>1, <2>2 DEF RecoveryKnown, tables
  <2> QED
    BY <2>2, <2>3 DEF IInv, Rest
<1>6. CASE job' = Closing(p, {}, TRUE, rest)
  <2>1. /\ job' \in Jobs /\ job'.op = "write" /\ job'.row = p /\ job'.givenUp /\ job'.then = rest
    <3>1. p \in Rows
      BY <1>3 DEF IInv, TypeOK
    <3> QED
      BY <1>4, <1>6, <3>1, GivenUpIs
  <2>2. /\ Recovering' /\ ~Entering' /\ Shutting' /\ Pending' = {} /\ Reading' = rest /\ AtHand' = {p}
    BY <1>4, <2>1 DEF Recovering, Entering, Shutting, Pending, Reading, AtHand, RecoveryOps
  <2>3. /\ TypeOK' /\ RowsDistinct' /\ TicketsUsed' /\ SlotsKept'
        /\ JobKnown' /\ JobTrades' /\ TrailingIs' /\ Recorded' /\ OrdersOwned'
        /\ restarts' # 0 /\ stage' = 0
        /\ \A q \in (Reading.read \cup AtHand)' : q.ticket <= tickets' /\ Kept(q)'
        /\ \A q, r \in (Reading.read \cup AtHand)' : q.ticket = r.ticket => q = r
    BY <1>1, <1>3, <1>4, <2>1, <2>2, RecoveryMoves
  <2>4. RecoveryKnown'
    BY <1>1, <1>3, <1>4, <2>2, <2>3 DEF RecoveryKnown, tables
  <2> QED
    BY <2>3, <2>4 DEF IInv, Rest
<1> QED
  BY <1>2, <1>5, <1>6 DEF rest

LEMMA AskHoldingsKeeps ==
    ASSUME IInv, AskHoldings
    PROVE  IInv'
<1>1. /\ job.op = "sync" /\ job.op \in RecoveryOps
      /\ UNCHANGED <<exchange, tables, risk, seen, trailing, restarts, stray>>
  BY DEF AskHoldings, RecoveryOps
<1>2. PICK S \in SUBSET {s \in Symbols : net[s] # 0 /\ At(job.read, s) = {}} :
        job' = [op |-> "adopt", read |-> job.read, left |-> {[sym |-> s, amount |-> net[s]] : s \in S}]
  BY DEF AskHoldings
<1>3. job.read \subseteq Rows /\ Reading = job /\ positions \subseteq job.read
  BY <1>1, RecoveringIs DEF IInv, Rest, RecoveryKnown
<1>4. \A s \in S : s \in Symbols /\ net[s] \in Amounts /\ \A p \in positions : p.sym # s
  <2>1. \A s \in S : s \in Symbols /\ net[s] # 0 /\ \A p \in job.read : p.sym # s
    BY DEF At
  <2>2. \A s \in S : net[s] \in -MaxNet .. MaxNet
    BY <2>1 DEF IInv, TypeOK
  <2> QED
    BY <1>3, <2>1, <2>2 DEF Amounts
<1>5. /\ job'.op = "adopt" /\ job'.read = job.read
      /\ job'.left \subseteq Holdings
      /\ \A h \in job'.left : \A p \in positions : p.sym # h.sym
      /\ \A h, k \in job'.left : h.sym = k.sym => h = k
      /\ job' = [op |-> "adopt", read |-> job.read, left |-> job'.left]
  BY <1>2, <1>4 DEF Holdings
<1>6. job' \in Jobs
  BY <1>3, <1>5 DEF Recoveries, Jobs
<1>7. /\ Recovering' /\ ~Entering' /\ ~Shutting' /\ Pending' = {} /\ Reading' = job' /\ AtHand' = {}
  BY <1>5 DEF Recovering, Entering, Shutting, Pending, Reading, AtHand, RecoveryOps
<1>8. /\ TypeOK' /\ RowsDistinct' /\ TicketsUsed' /\ SlotsKept'
      /\ JobKnown' /\ JobTrades' /\ TrailingIs' /\ Recorded' /\ OrdersOwned'
      /\ restarts' # 0 /\ stage' = 0
      /\ \A q \in (Reading.read \cup AtHand)' : q.ticket <= tickets' /\ Kept(q)'
      /\ \A q, r \in (Reading.read \cup AtHand)' : q.ticket = r.ticket => q = r
  BY <1>1, <1>5, <1>6, <1>7, RecoveryMoves
<1>9. RecoveryKnown'
  BY <1>1, <1>5, <1>7, <1>8 DEF RecoveryKnown, tables
<1> QED
  BY <1>8, <1>9 DEF IInv, Rest

LEMMA AdoptRowKeeps ==
    ASSUME IInv, AdoptRow
    PROVE  IInv'
<1>1. /\ job.op = "adopt" /\ job.op \in RecoveryOps /\ tickets < MaxTickets /\ tickets' = tickets + 1
      /\ UNCHANGED <<exchange, trades, risk, seen, trailing, restarts, stray>>
  BY DEF AdoptRow, RecoveryOps
<1>2. PICK h \in job.left : /\ positions' = positions \cup {RecoveredRow(h, tickets + 1)}
                            /\ job' = [job EXCEPT !.left = @ \ {h}]
  BY DEF AdoptRow
<1> DEFINE r == RecoveredRow(h, tickets + 1)
<1>3. /\ job \in Recoveries /\ Reading = job /\ Recovering /\ ~Shutting /\ ~Entering /\ trailing = {}
      /\ restarts # 0 /\ stage = 0 /\ job.read \subseteq Rows
      /\ \A p \in job.read : p.ticket <= tickets /\ Kept(p)
      /\ \A p, q \in job.read : p.ticket = q.ticket => p = q
  BY <1>1, RecoveringIs
<1>4. /\ job.left \subseteq Holdings
      /\ \A g, k \in job.left : g.sym = k.sym => g = k
      /\ \A g \in job.left : \A p \in positions : p.sym # g.sym
  BY <1>1, <1>3, RecoveryIs DEF IInv, Rest, RecoveryKnown
<1>5. tickets + 1 \in Tickets /\ tickets \in Nat /\ tickets + 1 \in 0 .. MaxTickets
  BY <1>1, LiveAssumption DEF IInv, TypeOK, Tickets
<1>6. /\ r \in Rows /\ r.ticket = tickets + 1 /\ r.sym = h.sym /\ r.recovered
  BY <1>4, <1>5 DEF RecoveredRow, Rows, Holdings
<1>7. /\ job' \in Jobs /\ job'.op = "adopt" /\ job'.read = job.read /\ job'.left = job.left \ {h}
  BY <1>1, <1>2, <1>3 DEF Recoveries, Jobs
<1>8. /\ Recovering' /\ ~Entering' /\ ~Shutting' /\ Pending' = {} /\ Reading' = job' /\ AtHand' = {}
  BY <1>7 DEF Recovering, Entering, Shutting, Pending, Reading, AtHand, RecoveryOps
<1> HIDE DEF r
<1>9. \A p \in positions : p.ticket \in Int /\ p.ticket <= tickets
  BY DEF IInv, TypeOK, Rows, Tickets, Rest, TicketsUsed
<1>10. positions' = positions \cup {r}
  BY <1>2 DEF r
<1>11. TypeOK'
  BY <1>1, <1>5, <1>6, <1>7, <1>10 DEF IInv, TypeOK, exchange, risk
<1>12. RowsDistinct'
  <2>1. IsFiniteSet(positions')
    BY <1>10, FS_AddElement DEF IInv, Rest, RowsDistinct
  <2>2. \A p \in positions : p.ticket # r.ticket /\ p.sym # r.sym
    BY <1>4, <1>5, <1>6, <1>9
  <2> QED
    BY <1>10, <2>1, <2>2 DEF IInv, Rest, RowsDistinct
<1>13. SlotsKept'
  <2>1. Own(positions') = Own(positions)
    BY <1>6, <1>10 DEF Own
  <2> QED
    BY <2>1 DEF IInv, Rest, SlotsKept
<1>14. TicketsUsed'
  <2>1. \A o \in book : o.ticket \in Int /\ o.ticket <= tickets
    BY DEF IInv, TypeOK, Orders, Tickets, Rest, TicketsUsed
  <2>2. \A t \in Tickets : t \in Int /\ (t > tickets => trades[t] = 0)
    BY DEF IInv, Rest, TicketsUsed, Tickets
  <2> QED
    BY <1>1, <1>5, <1>6, <1>9, <1>10, <2>1, <2>2 DEF TicketsUsed, exchange
<1>15. JobKnown' /\ JobTrades' /\ TrailingIs' /\ Recorded'
  BY <1>1, <1>3, <1>7, <1>8 DEF JobKnown, JobTrades, Recorded, IInv, Rest, TrailingIs
<1>16. RecoveryKnown'
  <2>1. \A p \in job.read : p.ticket \in Int /\ p.ticket <= tickets' /\ Kept(p)'
    <3>1. \A p \in job.read : p.ticket \in Int /\ p.ticket <= tickets
      BY <1>3 DEF Rows, Tickets
    <3> QED
      BY <1>1, <1>3, <1>5, <1>6, <1>10, <3>1 DEF Kept
  <2>2. \A g \in job.left \ {h} : \A p \in positions' : p.sym # g.sym
    BY <1>4, <1>6, <1>10
  <2> QED
    BY <1>1, <1>3, <1>4, <1>7, <1>8, <2>1, <2>2 DEF RecoveryKnown, risk
<1>17. OrdersOwned'
  BY <1>1, <1>3, <1>8, <1>10 DEF IInv, Rest, OrdersOwned, Released, exchange
<1> QED
  BY <1>11, <1>12, <1>13, <1>14, <1>15, <1>16, <1>17 DEF IInv, Rest

LEMMA CheckExpiredKeeps ==
    ASSUME IInv, CheckExpired
    PROVE  IInv'
<1>1. /\ job.op = "adopt" /\ job.op \in RecoveryOps
      /\ UNCHANGED <<exchange, tables, risk, seen, trailing, restarts, stray>>
  BY DEF CheckExpired, RecoveryOps
<1>2. PICK old \in SUBSET job.read : job' = [op |-> "expire", read |-> old]
  BY DEF CheckExpired
<1>3. job.read \subseteq Rows
  BY <1>1, RecoveringIs
<1>4. job' \in Jobs /\ job'.op = "expire" /\ job'.read \subseteq job.read
  BY <1>2, <1>3 DEF Recoveries, Jobs
<1>5. /\ Recovering' /\ ~Entering' /\ ~Shutting' /\ Pending' = {} /\ Reading' = job' /\ AtHand' = {}
  BY <1>4 DEF Recovering, Entering, Shutting, Pending, Reading, AtHand, RecoveryOps
<1>6. /\ TypeOK' /\ RowsDistinct' /\ TicketsUsed' /\ SlotsKept'
      /\ JobKnown' /\ JobTrades' /\ TrailingIs' /\ Recorded' /\ OrdersOwned'
      /\ restarts' # 0 /\ stage' = 0
      /\ \A q \in (Reading.read \cup AtHand)' : q.ticket <= tickets' /\ Kept(q)'
      /\ \A q, r \in (Reading.read \cup AtHand)' : q.ticket = r.ticket => q = r
  BY <1>1, <1>4, <1>5, RecoveryMoves
<1>7. RecoveryKnown'
  BY <1>4, <1>5, <1>6 DEF RecoveryKnown
<1> QED
  BY <1>6, <1>7 DEF IInv, Rest

LEMMA CloseExpiredKeeps ==
    ASSUME IInv, CloseExpired
    PROVE  IInv'
<1>1. /\ job.op = "expire" /\ job.op \in RecoveryOps
      /\ UNCHANGED <<exchange, tables, risk, seen, trailing, restarts, stray>>
  BY DEF CloseExpired, RecoveryOps
<1>2. PICK p \in job.read : job' = Closing(p, {}, TRUE, [job EXCEPT !.read = @ \ {p}])
  BY DEF CloseExpired
<1> DEFINE rest == [job EXCEPT !.read = @ \ {p}]
<1>3. job \in Recoveries /\ job.read \subseteq Rows
  BY <1>1, RecoveringIs
<1>4. /\ rest \in Recoveries /\ rest.op = "expire" /\ rest.read = job.read \ {p}
  BY <1>1, <1>3 DEF Recoveries
<1> HIDE DEF rest
<1>5. /\ job' \in Jobs /\ job'.op = "write" /\ job'.row = p /\ job'.givenUp /\ job'.then = rest
  BY <1>2, <1>3, <1>4, GivenUpIs DEF rest
<1>6. /\ Recovering' /\ ~Entering' /\ Shutting' /\ Pending' = {} /\ Reading' = rest /\ AtHand' = {p}
  BY <1>4, <1>5 DEF Recovering, Entering, Shutting, Pending, Reading, AtHand, RecoveryOps
<1>7. /\ TypeOK' /\ RowsDistinct' /\ TicketsUsed' /\ SlotsKept'
      /\ JobKnown' /\ JobTrades' /\ TrailingIs' /\ Recorded' /\ OrdersOwned'
      /\ restarts' # 0 /\ stage' = 0
      /\ \A q \in (Reading.read \cup AtHand)' : q.ticket <= tickets' /\ Kept(q)'
      /\ \A q, r \in (Reading.read \cup AtHand)' : q.ticket = r.ticket => q = r
  BY <1>1, <1>4, <1>5, <1>6, RecoveryMoves
<1>8. RecoveryKnown'
  BY <1>4, <1>6, <1>7 DEF RecoveryKnown
<1> QED
  BY <1>7, <1>8 DEF IInv, Rest

LEMMA StartP3Keeps ==
    ASSUME IInv, StartP3
    PROVE  IInv'
<1>1. /\ job.op = "expire" /\ job.op \in RecoveryOps
      /\ trailing' = SymsOf(positions) /\ job' = NoJob
      /\ UNCHANGED <<exchange, tables, risk, seen, restarts, stray>>
  BY DEF StartP3, TrailAll, SymsOf, RecoveryOps
<1>2. /\ ~Shutting /\ ~Entering /\ restarts # 0
  BY <1>1, RecoveringIs
<1>3. job'.op = "none" /\ ~Entering' /\ ~Shutting' /\ ~Recovering' /\ Pending' = {} /\ job' \in Jobs
  BY <1>1, IdleNext DEF Jobs
<1>4. TypeOK'
  BY <1>1, <1>3 DEF IInv, TypeOK, SymsOf, Rows, exchange, tables, risk
<1>5. RowsDistinct' /\ TicketsUsed' /\ SlotsKept'
  BY <1>1, TablesStay DEF exchange
<1>6. JobKnown' /\ JobTrades' /\ RecoveryKnown' /\ TrailingIs' /\ Recorded'
  BY <1>1, <1>2, <1>3 DEF JobKnown, JobTrades, RecoveryKnown, TrailingIs, Recorded, tables
<1>7. OrdersOwned'
  BY <1>1, <1>2, <1>3 DEF IInv, Rest, OrdersOwned, Released, tables, exchange
<1> QED
  BY <1>4, <1>5, <1>6, <1>7 DEF IInv, Rest

LEMMA NextKeeps == IInv /\ [Next]_vars => IInv'
<1> SUFFICES ASSUME IInv, [Next]_vars PROVE IInv'
  OBVIOUS
<1>1. CASE UNCHANGED vars
  <2>1. UNCHANGED <<exchange, tables, risk, seen, trailing, job, restarts, stray>>
    BY <1>1 DEF vars
  <2>2. TypeOK'
    BY <2>1 DEF exchange, tables, risk, IInv, TypeOK
  <2>3. RowsDistinct' /\ TicketsUsed' /\ SlotsKept' /\ JobKnown' /\ JobTrades' /\ RecoveryKnown' /\ Recorded'
    BY <2>1, TablesStay, JobStays DEF exchange, risk
  <2>4. TrailingIs' /\ OrdersOwned'
    BY <2>1 DEF IInv, Rest, TrailingIs, OrdersOwned, Entering, Shutting, Released, Recovering, tables, exchange
  <2> QED
    BY <2>2, <2>3, <2>4 DEF IInv, Rest
<1>2. ASSUME NEW p \in positions, TimeLimit(p) \/ TrailingStop(p)
      PROVE  IInv'
  BY <1>2, CloseKeeps DEF TimeLimit, TrailingStop
<1>3. CASE P3Works
  <2>1. CASE PlaceStop
    BY <2>1, PlaceKeeps DEF PlaceStop, Kinds
  <2>2. CASE PlaceTarget
    BY <2>2, PlaceKeeps DEF PlaceTarget, Kinds
  <2> QED
    BY <1>3, <2>1, <2>2, InsertRowKeeps, CancelOrdersKeeps, WriteTradeKeeps, DeleteRowKeeps,
       ProcessFillKeeps DEF P3Works
<1>4. CASE Recovers
  BY <1>4, SyncRowKeeps, AskHoldingsKeeps, AdoptRowKeeps, CheckExpiredKeeps, CloseExpiredKeeps,
     StartP3Keeps DEF Recovers
<1> QED
  BY <1>1, <1>2, <1>3, <1>4, EnterKeeps, OrphanCleanupKeeps, MonitorKeeps, CooldownEndsKeeps, FireKeeps,
     RestartP3Keeps, RestartSystemKeeps DEF Next

\* The invariant that the following theorems rest on.
THEOREM Invariance == Spec => []IInv
BY InitInvariant, NextKeeps, PTL DEF Spec

\* Rows, orders, counters and jobs are well-formed; the count of losses never gets
\* below zero (loss_tracker.py).
THEOREM TypeCorrect == Spec => []TypeOK
<1>1. IInv => TypeOK
  BY DEF IInv
<1> QED
  BY <1>1, Invariance, PTL

\* A symbol has one row at most, and P3 opens no more than max_concurrent_positions
\* (fixed_ratio.py), whatever recovery and restarts in the middle of an entry left.
THEOREM SlotsAreRespected == Spec => []SlotsRespected
<1>1. IInv => SlotsRespected
  BY DEF IInv, Rest, RowsDistinct, SlotsKept, Own, SlotsRespected
<1> QED
  BY <1>1, Invariance, PTL

\* Exactly the symbols with a row have a trailing stop (process.py): none is left to
\* close a later position.
THEOREM TrailingFollows == Spec => []TrailingTracks
<1>1. IInv => TrailingTracks
  BY IdleIs DEF IInv, Rest, TrailingIs, SymsOf, TrailingTracks, Idle
<1> QED
  BY <1>1, Invariance, PTL

\* Without a restart a position is recorded once, although its stop, its target and
\* the price check may all report it to the monitor.
THEOREM TradesAreRecordedOnce == Spec => []RecordedOnce
<1>1. IInv => RecordedOnce
  BY DEF IInv, Rest, Recorded, RecordedOnce
<1> QED
  BY <1>1, Invariance, PTL

\* An order that rests on the exchange and is neither of a row nor of the job at hand
\* has been left there in one of the ways the history notes.
THEOREM StraysAreExplained == Spec => []StraysExplained
<1>1. IInv => StraysExplained
  BY DEF IInv, Rest, OrdersOwned, Owns, Entering, StraysExplained
<1> QED
  BY <1>1, Invariance, PTL

-----------------------------------------------------------------------------
(* LiveTrading implements PositionBook.                                     *)

Writing == {p.ticket : p \in {q \in positions : job.op = "delete" /\ job.row = q}}
RereadTickets == {p.ticket : p \in Reread}
ClosedTickets == {t \in Tickets : trades[t] > 0} \ OpenTickets

LEMMA BookIs ==
    /\ Book!vars = <<OpenTickets, ClosedTickets, {}, Writing, RereadTickets, trades, restarts>>
    /\ Book!New = Tickets \ (OpenTickets \cup ClosedTickets \cup {})
BY DEF Book!vars, Book!New, Writing, RereadTickets, ClosedTickets

LEMMA BookInit == Init => Book!Init
<1> SUFFICES ASSUME Init PROVE Book!Init
  OBVIOUS
<1>1. /\ positions = {} /\ trades = [t \in Tickets |-> 0] /\ restarts = 0 /\ job.op = "none"
      /\ ~Recovering
  BY IdleIs DEF Init, NoJob
<1>2. OpenTickets = {} /\ {t \in Tickets : trades[t] > 0} = {} /\ Reread = {}
  BY <1>1 DEF OpenTickets, Reread, RecoveryOps
<1> QED
  BY <1>1, <1>2 DEF Book!Init

LEMMA BookState ==
    ASSUME IInv
    PROVE  /\ OpenTickets \subseteq Tickets
           /\ \A t \in Tickets : trades[t] \in Nat
           /\ \A p, q \in positions : p.ticket = q.ticket => p = q
           /\ restarts \in Nat
<1>1. \A p \in positions : p.ticket \in Tickets
  BY DEF IInv, TypeOK, Rows
<1>2. restarts \in Nat /\ \A t \in Tickets : trades[t] \in Nat
  BY LiveAssumption DEF IInv, TypeOK
<1> QED
  BY <1>1, <1>2 DEF OpenTickets, IInv, Rest, RowsDistinct

\* What recovery may record again it has read, or is about to record.
LEMMA RereadIs ==
    ASSUME IInv
    PROVE  /\ ~Recovering => Reread = {}
           /\ Recovering => /\ Reread \subseteq Reading.read \cup AtHand
                            /\ Reread = Reading.read \cup (IF job.op = "write" THEN AtHand ELSE {})
<1>1. ~Recovering => Reread = {}
  BY DEF Reread, Recovering
<1>2. ASSUME Recovering, job.op \in RecoveryOps
      PROVE  Reread = Reading.read /\ AtHand = {}
  BY <1>2 DEF Reread, Reading, AtHand, Shutting, RecoveryOps
<1>3. ASSUME Recovering, job.op \notin RecoveryOps
      PROVE  Reread = Reading.read \cup (IF job.op = "write" THEN AtHand ELSE {})
  <2>1. Shutting
    BY <1>3 DEF Recovering, Shutting
  <2>2. Reading = job.then /\ AtHand = {job.row}
    BY <2>1 DEF Reading, AtHand
  <2> QED
    BY <1>3, <2>2 DEF Reread
<1> QED
  BY <1>1, <1>2, <1>3

\* Nobody is writing unless a row is about to be deleted.
LEMMA WritingIs ==
    /\ job.op # "delete" => Writing = {}
    /\ job.op = "delete" => Writing = IF job.row \in positions THEN {job.row.ticket} ELSE {}
BY DEF Writing

LEMMA WritingNext ==
    /\ job'.op # "delete" => Writing' = {}
    /\ job'.op = "delete" => Writing' = IF job'.row \in positions' THEN {job'.row.ticket} ELSE {}
BY DEF Writing

\* Steps that touch no table, neither come to nor from the deletion of a row, and leave
\* recovery what it may record again, or forget some of it.
LEMMA BookSettles ==
    ASSUME UNCHANGED <<positions, trades, restarts>>, job.op # "delete", job'.op # "delete",
           Reread' \subseteq Reread
    PROVE  Book!Settle
<1>1. RereadTickets' \in SUBSET RereadTickets
  BY DEF RereadTickets
<1>2. OpenTickets' = OpenTickets /\ ClosedTickets' = ClosedTickets
  BY DEF OpenTickets, ClosedTickets
<1>3. Writing' = Writing
  BY WritingIs, WritingNext
<1> QED
  BY <1>1, <1>2, <1>3 DEF Book!Settle, RereadTickets, ClosedTickets, Writing

\* A row is added.
LEMMA BookOpens ==
    ASSUME IInv, NEW p \in Rows, positions' = positions \cup {p}, UNCHANGED <<trades, restarts>>,
           trades[p.ticket] = 0, \A q \in positions : q.ticket # p.ticket,
           job.op # "delete", job'.op # "delete", Reread' = Reread
    PROVE  \E t \in Tickets : Book!Open(t)
<1> DEFINE t == p.ticket
<1>1. t \in Tickets /\ t \notin OpenTickets
  BY DEF Rows, OpenTickets
<1>2. t \in Book!New
  BY <1>1, BookIs DEF ClosedTickets
<1>3. OpenTickets' = OpenTickets \cup {t}
  BY DEF OpenTickets
<1>4. ClosedTickets' = ClosedTickets
  BY <1>1, <1>3 DEF ClosedTickets
<1>5. Writing' = Writing /\ RereadTickets' = RereadTickets
  BY WritingIs, WritingNext DEF RereadTickets
<1>6. Book!Open(t)
  BY <1>2, <1>3, <1>4, <1>5 DEF Book!Open, ClosedTickets, RereadTickets, Writing
<1> QED
  BY <1>1, <1>6

LEMMA InsertRowOpens ==
    ASSUME IInv, InsertRow
    PROVE  \E t \in Tickets : Book!Open(t)
<1>1. /\ job.op = "record" /\ job' = NoJob
      /\ positions' = positions \cup {job.row}
      /\ UNCHANGED <<trades, restarts>>
  BY DEF InsertRow
<1>2. job \in RowJobs /\ Entering /\ job.row \in Rows /\ ~Recovering
  BY <1>1, JobShapes, RowJobIs, OpSays DEF IInv, TypeOK, Entering
<1>3. trades[job.row.ticket] = 0 /\ \A q \in positions : q.ticket # job.row.ticket
  BY <1>2 DEF IInv, Rest, JobKnown, JobTrades
<1>4. ~Recovering' /\ job'.op = "none"
  BY <1>1, IdleNext
<1>5. Reread' = {} /\ Reread = {}
  BY <1>2, <1>4, RereadIs DEF Reread, Recovering
<1> QED
  BY <1>1, <1>2, <1>3, <1>4, <1>5, BookOpens

LEMMA AdoptRowOpens ==
    ASSUME IInv, AdoptRow
    PROVE  \E t \in Tickets : Book!Open(t)
<1>1. job.op = "adopt" /\ tickets < MaxTickets /\ UNCHANGED <<trades, restarts>>
  BY DEF AdoptRow
<1>2. PICK h \in job.left : /\ positions' = positions \cup {RecoveredRow(h, tickets + 1)}
                            /\ job' = [job EXCEPT !.left = @ \ {h}]
  BY DEF AdoptRow
<1> DEFINE r == RecoveredRow(h, tickets + 1)
<1>3. job \in Recoveries /\ job.left \subseteq Holdings
  BY <1>1, RecoveringIs, RecoveryIs DEF RecoveryOps
<1>4. job'.op = "adopt" /\ job'.read = job.read
  BY <1>1, <1>2, <1>3 DEF Recoveries
<1>5. Reread' = Reread
  BY <1>1, <1>4 DEF Reread, RecoveryOps
<1>6. tickets + 1 \in Tickets /\ tickets + 1 > tickets
  BY <1>1, LiveAssumption DEF IInv, TypeOK, Tickets
<1>7. r \in Rows /\ r.ticket = tickets + 1
  BY <1>3, <1>6 DEF RecoveredRow, Rows, Holdings
<1> HIDE DEF r
<1>8. trades[r.ticket] = 0 /\ \A q \in positions : q.ticket # r.ticket
  <2>1. \A q \in positions : q.ticket \in Int /\ q.ticket <= tickets
    BY DEF IInv, TypeOK, Rows, Tickets, Rest, TicketsUsed
  <2>2. tickets \in Int
    BY DEF IInv, TypeOK
  <2> QED
    BY <1>6, <1>7, <2>1, <2>2 DEF IInv, Rest, TicketsUsed
<1>9. positions' = positions \cup {r}
  BY <1>2 DEF r
<1> QED
  BY <1>1, <1>4, <1>5, <1>7, <1>8, <1>9, BookOpens

\* One trade more is what PositionBook calls a record.
LEMMA OneMore ==
    ASSUME IInv, NEW t \in Tickets, trades' = [trades EXCEPT ![t] = @ + 1]
    PROVE  Book!Record({t})
<1> DEFINE after == [u \in Tickets |-> trades[u] + (IF u \in {t} THEN 1 ELSE 0)]
<1>1. trades \in [Tickets -> Nat] /\ \A u \in Tickets : trades[u] \in Nat
  BY DEF IInv, TypeOK
<1>2. \A u \in Tickets : trades'[u] = after[u]
  BY <1>1
<1>3. trades' = [u \in Tickets |-> trades'[u]] /\ after = [u \in Tickets |-> after[u]]
  BY <1>1
<1> HIDE DEF after
<1>4. trades' = after
  BY <1>2, <1>3
<1> QED
  BY <1>4 DEF after, Book!Record

\* The trade of a row that is there is written; recovery may also write one of a row
\* that has left since it was read.
LEMMA WriteTradeWrites ==
    ASSUME IInv, WriteTrade, NEW t \in Tickets, t = job.row.ticket
    PROVE  Book!Write(t) \/ Book!Repeat(t)
<1>1. /\ job.op = "write" /\ trades' = [trades EXCEPT ![t] = @ + 1]
      /\ job' = [job EXCEPT !.op = "delete"] /\ UNCHANGED <<positions, restarts>>
  BY DEF WriteTrade
<1>2. Shutting
  BY <1>1 DEF Shutting
<1>3. /\ job \in Closings /\ t \in Tickets /\ AtHand = {job.row} /\ Reading = job.then
      /\ ~Recovering => job.row \in positions
      /\ Recovering <=> job.then.op \in RecoveryOps
      /\ job.row \in positions \/ \A q \in positions : q.ticket # t
  BY <1>2, ShuttingIs
<1>4. job'.op = "delete" /\ job'.row = job.row /\ job'.then = job.then
  BY <1>1, <1>3 DEF Closings
<1>5. Recovering' <=> Recovering
  BY <1>1, <1>3, <1>4 DEF Recovering, RecoveryOps
<1>6. Book!Record({t})
  BY <1>1, <1>3, OneMore
<1>7. /\ Writing = {} /\ OpenTickets' = OpenTickets
      /\ Writing' = IF job.row \in positions THEN {t} ELSE {}
  BY <1>1, <1>4, WritingIs, WritingNext DEF OpenTickets
<1>8. /\ ~Recovering => Reread' = Reread
      /\ Recovering => Reread = job.then.read \cup {job.row} /\ Reread' = job.then.read
  <2>1. Recovering => Reread = job.then.read \cup {job.row}
    BY <1>1, <1>3, RereadIs
  <2>2. Recovering => Reread' = job.then.read \cup {}
    BY <1>4, <1>5 DEF Reread, RecoveryOps
  <2>3. ~Recovering => Reread = {} /\ Reread' = {}
    BY <1>4, <1>5, RereadIs DEF Reread, RecoveryOps
  <2> QED
    BY <2>1, <2>2, <2>3
<1>9. ASSUME Recovering
      PROVE  RereadTickets' = RereadTickets \/ RereadTickets' = RereadTickets \ {t}
  <2>1. \A p \in job.then.read : p.ticket = t => p = job.row
    BY <1>3, <1>9 DEF IInv, Rest, RecoveryKnown
  <2> QED
    BY <1>8, <1>9, <2>1 DEF RereadTickets
<1>10. ASSUME Recovering, job.row \notin positions
       PROVE  RereadTickets' = RereadTickets \ {t} /\ t \in RereadTickets /\ trades[t] > 0
  <2>1. /\ \A p \in job.then.read : p.ticket = t => p = job.row
        /\ Kept(job.row) /\ job.row \notin job.then.read
    BY <1>3, <1>10 DEF IInv, Rest, RecoveryKnown
  <2> QED
    BY <1>8, <1>10, <2>1 DEF RereadTickets, Kept
<1>11. CASE job.row \in positions
  <2>1. t \in OpenTickets
    BY <1>11 DEF OpenTickets
  <2>2. ClosedTickets' = ClosedTickets
    <3>1. \A u \in Tickets : u # t => trades'[u] = trades[u]
      BY <1>1, <1>3 DEF IInv, TypeOK
    <3> QED
      BY <1>7, <2>1, <3>1 DEF ClosedTickets
  <2>3. RereadTickets' \in {RereadTickets, RereadTickets \ {t}}
    BY <1>8, <1>9 DEF RereadTickets
  <2>4. Book!Write(t)
    BY <1>1, <1>6, <1>7, <1>11, <2>1, <2>2, <2>3 DEF Book!Write, ClosedTickets, RereadTickets, Writing
  <2> QED
    BY <2>4
<1>12. CASE job.row \notin positions
  <2>1. Recovering
    BY <1>3, <1>12
  <2>2. t \notin OpenTickets /\ t \in ClosedTickets \cap RereadTickets
    BY <1>3, <1>10, <1>12, <2>1 DEF OpenTickets, ClosedTickets
  <2>3. ClosedTickets' = ClosedTickets
    <3>1. \A u \in Tickets : u # t => trades'[u] = trades[u]
      BY <1>1, <1>3 DEF IInv, TypeOK
    <3>2. trades'[t] > 0
      <4>1. trades'[t] = trades[t] + 1 /\ trades[t] \in Nat
        BY <1>1, <1>3 DEF IInv, TypeOK
      <4> QED
        BY <4>1
    <3> QED
      BY <1>7, <2>2, <3>1, <3>2 DEF ClosedTickets
  <2>4. Book!Repeat(t)
    BY <1>1, <1>6, <1>7, <1>10, <1>12, <2>1, <2>2, <2>3 DEF Book!Repeat, ClosedTickets, RereadTickets, Writing
  <2> QED
    BY <2>4
<1> QED
  BY <1>11, <1>12

\* The row is deleted; nothing is left to delete of one that has left before.
LEMMA DeleteRowRemoves ==
    ASSUME IInv, DeleteRow
    PROVE  Book!Remove \/ UNCHANGED Book!vars
<1> DEFINE t == job.row.ticket
<1>1. /\ job.op = "delete" /\ job' = job.then /\ positions' = positions \ {job.row}
      /\ UNCHANGED <<trades, restarts>>
  BY DEF DeleteRow
<1>2. Shutting
  BY <1>1 DEF Shutting
<1>3. /\ t \in Tickets /\ AtHand = {job.row} /\ Reading = job.then
      /\ job.then.op \in {"none", "fills", "sync", "adopt", "expire"}
      /\ Recovering <=> job.then.op \in RecoveryOps
  BY <1>2, ShuttingIs
<1>4. Recovering' <=> Recovering
  BY <1>1, <1>3 DEF Recovering, RecoveryOps
<1>5. Reread' = Reread
  <2>1. Recovering => Reread = job.then.read
    BY <1>1, <1>3, RereadIs
  <2>2. Recovering => Reread' = job.then.read
    BY <1>1, <1>3 DEF Reread
  <2>3. ~Recovering => Reread = {} /\ Reread' = {}
    BY <1>1, <1>3, <1>4, RereadIs DEF Reread
  <2> QED
    BY <2>1, <2>2, <2>3
<1>6. /\ Writing' = {}
      /\ Writing = IF job.row \in positions THEN {t} ELSE {}
  BY <1>1, <1>3, WritingIs, WritingNext
<1>7. trades[t] > 0
  <2>1. trades[t] >= 1 /\ trades[t] \in Nat
    BY <1>1, <1>3 DEF IInv, TypeOK, Rest, JobTrades
  <2> QED
    BY <2>1
<1>8. CASE job.row \in positions
  <2>1. t \in OpenTickets
    BY <1>8 DEF OpenTickets
  <2>2. OpenTickets' = OpenTickets \ {t}
    BY <1>1, <1>8, BookState DEF OpenTickets
  <2>3. ClosedTickets' = ClosedTickets \cup {t}
    BY <1>1, <1>3, <1>7, <2>1, <2>2 DEF ClosedTickets
  <2>4. RereadTickets' = RereadTickets
    BY <1>5 DEF RereadTickets
  <2> QED
    BY <1>1, <1>6, <1>8, <2>2, <2>3, <2>4 DEF Book!Remove, ClosedTickets, RereadTickets, Writing
<1>9. CASE job.row \notin positions
  <2>1. positions' = positions /\ Writing' = Writing
    BY <1>1, <1>6, <1>9
  <2>2. OpenTickets' = OpenTickets /\ ClosedTickets' = ClosedTickets /\ RereadTickets' = RereadTickets
    BY <1>1, <1>5, <2>1 DEF OpenTickets, ClosedTickets, RereadTickets
  <2> QED
    BY <1>1, <2>1, <2>2 DEF Book!vars, ClosedTickets, RereadTickets, Writing
<1> QED
  BY <1>8, <1>9

\* P3 or the system starts again, and the tables stay as they are.
LEMMA RestartsAreRestarts ==
    ASSUME IInv, RestartP3 \/ RestartSystem
    PROVE  Book!Restart({})
<1>1. /\ restarts' = restarts + 1 /\ UNCHANGED <<positions, trades>>
      /\ job'.op # "delete" /\ Reread' \in SUBSET positions
  <2>1. Restarted
    BY DEF RestartP3, RestartSystem
  <2>2. restarts' = restarts + 1 /\ UNCHANGED <<positions, trades>>
    BY <2>1 DEF Restarted, tables
  <2>3. CASE RestartP3
    <3>1. job'.op = "none" /\ ~Recovering'
      BY <2>3, IdleNext DEF RestartP3
    <3> QED
      BY <2>2, <3>1 DEF Reread, RecoveryOps
  <2>4. CASE RestartSystem
    <3>1. job'.op = "sync" /\ job'.read = positions
      BY <2>4 DEF RestartSystem
    <3> QED
      BY <2>2, <3>1 DEF Reread, RecoveryOps
  <2> QED
    BY <2>3, <2>4
<1>2. OpenTickets' = OpenTickets /\ ClosedTickets' = ClosedTickets /\ Writing' = {}
  BY <1>1, WritingNext DEF OpenTickets, ClosedTickets
<1>3. RereadTickets' \in SUBSET OpenTickets
  BY <1>1 DEF RereadTickets, OpenTickets
<1>4. Book!Record({})
  <2> DEFINE same == [t \in Tickets |-> trades[t] + (IF t \in {} THEN 1 ELSE 0)]
  <2>1. trades' \in [Tickets -> Nat] /\ \A t \in Tickets : trades'[t] = trades[t] /\ trades[t] \in Nat
    BY <1>1 DEF IInv, TypeOK
  <2>2. \A t \in Tickets : trades'[t] = same[t]
    BY <2>1
  <2>3. trades' = [t \in Tickets |-> trades'[t]] /\ same = [t \in Tickets |-> same[t]]
    BY <2>1
  <2> HIDE DEF same
  <2>4. trades' = same
    BY <2>2, <2>3
  <2> QED
    BY <2>4 DEF same, Book!Record
<1> QED
  BY <1>1, <1>2, <1>3, <1>4 DEF Book!Restart, ClosedTickets, RereadTickets, Writing

\* Everything else leaves the tables alone.
LEMMA BookQuiet ==
    ASSUME IInv, UNCHANGED <<positions, trades, restarts>>,
           job.op \in {"none", "stop", "target", "record", "cancel", "fills"},
           ~Recovering', job'.op # "delete"
    PROVE  Book!Settle
<1>1. ~Recovering /\ job.op # "delete"
  BY OpSays
<1>2. Reread = {} /\ Reread' = {}
  BY <1>1, RereadIs DEF Reread, Recovering
<1> QED
  BY <1>1, <1>2, BookSettles

LEMMA RecoveryIsQuiet ==
    ASSUME IInv, SyncRow \/ AskHoldings \/ CheckExpired \/ CloseExpired \/ StartP3
    PROVE  Book!Settle
<1>1. job.op \in RecoveryOps /\ job.op # "delete" /\ UNCHANGED <<positions, trades, restarts>>
  BY DEF SyncRow, AskHoldings, CheckExpired, CloseExpired, StartP3, RecoveryOps, tables
<1>2. job \in Recoveries /\ Reread = job.read /\ job.read \subseteq Rows
  BY <1>1, RecoveringIs DEF Reread
<1>3. CASE SyncRow
  <2>1. job.op = "sync"
    BY <1>3 DEF SyncRow
  <2>2. PICK p \in job.left :
          \/ job' = [job EXCEPT !.left = @ \ {p}]
          \/ job' = Closing(p, {}, TRUE, [job EXCEPT !.left = @ \ {p}])
    BY <1>3 DEF SyncRow
  <2> DEFINE rest == [job EXCEPT !.left = @ \ {p}]
  <2>3. rest.op = "sync" /\ rest.read = job.read
    BY <1>2, <2>1 DEF Recoveries
  <2> HIDE DEF rest
  <2>4. p \in job.read
    BY <1>1, <2>1, RecoveringIs DEF IInv, Rest, RecoveryKnown
  <2>5. CASE job' = rest
    <3>1. Reread' = job.read /\ job'.op # "delete"
      BY <2>3, <2>5 DEF Reread, RecoveryOps
    <3> QED
      BY <1>1, <1>2, <3>1, BookSettles
  <2>6. CASE job' = Closing(p, {}, TRUE, rest)
    <3>1. job'.op = "write" /\ job'.row = p /\ job'.then = rest
      BY <2>6 DEF Closing
    <3>2. Reread' \subseteq job.read
      BY <2>3, <2>4, <3>1 DEF Reread, RecoveryOps, Recovering
    <3> QED
      BY <1>1, <1>2, <3>1, <3>2, BookSettles
  <2> QED
    BY <2>2, <2>5, <2>6 DEF rest
<1>4. CASE AskHoldings
  <2>1. job'.op = "adopt" /\ job'.read = job.read
    BY <1>4 DEF AskHoldings
  <2> QED
    BY <1>1, <1>2, <2>1, BookSettles DEF Reread, RecoveryOps
<1>5. CASE CheckExpired
  <2>1. job'.op = "expire" /\ job'.read \subseteq job.read
    BY <1>5 DEF CheckExpired
  <2> QED
    BY <1>1, <1>2, <2>1, BookSettles DEF Reread, RecoveryOps
<1>6. CASE CloseExpired
  <2>1. job.op = "expire"
    BY <1>6 DEF CloseExpired
  <2>2. PICK p \in job.read : job' = Closing(p, {}, TRUE, [job EXCEPT !.read = @ \ {p}])
    BY <1>6 DEF CloseExpired
  <2> DEFINE rest == [job EXCEPT !.read = @ \ {p}]
  <2>3. rest.op = "expire" /\ rest.read = job.read \ {p}
    BY <1>2, <2>1 DEF Recoveries
  <2> HIDE DEF rest
  <2>4. job' = Closing(p, {}, TRUE, rest)
    BY <2>2 DEF rest
  <2>5. job'.op = "write" /\ job'.row = p /\ job'.then = rest
    BY <2>4 DEF Closing
  <2>6. Reread' \subseteq job.read
    BY <2>3, <2>5 DEF Reread, RecoveryOps, Recovering
  <2> QED
    BY <1>1, <1>2, <2>5, <2>6, BookSettles
<1>7. CASE StartP3
  <2>1. job'.op = "none" /\ ~Recovering'
    BY <1>7, IdleNext DEF StartP3
  <2>2. Reread' = {}
    BY <2>1 DEF Reread, RecoveryOps
  <2> QED
    BY <1>1, <2>1, <2>2, BookSettles
<1> QED
  BY <1>3, <1>4, <1>5, <1>6, <1>7

LEMMA BookStep == IInv /\ [Next]_vars => [Book!Next]_(Book!vars)
<1> SUFFICES ASSUME IInv, [Next]_vars PROVE [Book!Next]_(Book!vars)
  OBVIOUS
<1>1. CASE UNCHANGED vars \/ CooldownEnds \/ \E o \in book : Fire(o)
  <2>1. UNCHANGED <<positions, trades, restarts, job>>
    BY <1>1 DEF vars, tables, CooldownEnds, Fire
  <2>2. OpenTickets' = OpenTickets /\ ClosedTickets' = ClosedTickets /\ Writing' = Writing
    BY <2>1 DEF OpenTickets, ClosedTickets, Writing
  <2>3. RereadTickets' = RereadTickets
    BY <2>1 DEF RereadTickets, Reread, Recovering
  <2> QED
    BY <2>1, <2>2, <2>3 DEF Book!vars, ClosedTickets, RereadTickets, Writing
<1>2. ASSUME NEW s \in Symbols, NEW amount \in Sides, Enter(s, amount)
      PROVE  Book!Settle
  <2>1. UNCHANGED <<positions, trades, restarts>> /\ job = NoJob /\ Ordered(s, amount)
    BY <1>2 DEF Enter, Idle
  <2>2. job.op = "none" /\ job'.op \in {"none", "stop"}
    BY <2>1 DEF Ordered, NoJob
  <2> QED
    BY <2>1, <2>2, OpWillSay, BookQuiet
<1>3. ASSUME NEW p \in positions, Close(p)
      PROVE  Book!Settle
  <2>1. /\ UNCHANGED <<positions, trades, restarts>>
        /\ job.op = "none" /\ job'.op \in {"none", "cancel"}
    BY <1>3 DEF Close, Idle, NoJob, tables
  <2> QED
    BY <2>1, OpWillSay, BookQuiet
<1>4. ASSUME NEW p \in positions, OrphanCleanup(p)
      PROVE  Book!Settle
  <2>1. /\ UNCHANGED <<positions, trades, restarts>> /\ job.op = "none"
        /\ job'.op = "write" /\ job'.then = NoJob
    BY <1>4 DEF OrphanCleanup, Idle, NoJob, Closing, tables
  <2>2. ~Recovering'
    BY <2>1 DEF Recovering, RecoveryOps, NoJob
  <2> QED
    BY <2>1, <2>2, BookQuiet
<1>5. CASE PlaceStop \/ PlaceTarget
  <2>1. /\ UNCHANGED <<positions, trades, restarts>> /\ job.op \in {"stop", "target"} /\ job \in RowJobs
        /\ \E kind \in Kinds, then \in {"target", "record"} : Place(kind, then, "record")
    <3>1. UNCHANGED <<positions, trades, restarts>> /\ job.op \in {"stop", "target"}
      BY <1>5 DEF PlaceStop, PlaceTarget, tables
    <3>2. job \in RowJobs
      BY <3>1, JobShapes DEF IInv, TypeOK
    <3> QED
      BY <1>5, <3>1, <3>2 DEF PlaceStop, PlaceTarget, Kinds
  <2>2. job'.op \in {"target", "record"}
    BY <2>1 DEF Place, RowJobs
  <2> QED
    BY <2>1, <2>2, OpWillSay, BookQuiet DEF Book!Next
<1>6. CASE CancelOrders
  <2>1. /\ UNCHANGED <<positions, trades, restarts>> /\ job.op = "cancel"
        /\ job'.op \in {"none", "write"} /\ (job'.op = "write" => job'.then = NoJob)
    BY <1>6 DEF CancelOrders, Closing, NoJob, tables
  <2>2. ~Recovering'
    BY <2>1 DEF Recovering, RecoveryOps, NoJob
  <2> QED
    BY <2>1, <2>2, BookQuiet DEF Book!Next
<1>7. CASE Monitor
  <2>1. UNCHANGED <<positions, trades, restarts>> /\ job.op = "none" /\ job'.op = "fills"
    BY <1>7 DEF Monitor, Idle, NoJob, tables
  <2> QED
    BY <2>1, OpWillSay, BookQuiet DEF Book!Next
<1>8. CASE ProcessFill
  <2>1. UNCHANGED <<positions, trades, restarts>> /\ job.op = "fills"
    BY <1>8 DEF ProcessFill, SkipFill, TakeFill, TakeLateFill, tables
  <2>2. /\ job'.op \in {"none", "fills", "write"}
        /\ job'.op = "write" => job'.then.op = "fills"
    <3>1. CASE job' = NoJob
      BY <3>1 DEF NoJob
    <3>2. ASSUME NEW f \in job.fills, job' = Without(f) \/ job' = Closing(f.row, f.by, FALSE, Without(f))
          PROVE  /\ job'.op \in {"fills", "write"}
                 /\ job'.op = "write" => job'.then.op = "fills"
      <4>1. Without(f).op = "fills"
        BY <2>1, FillIs
      <4> QED
        BY <3>2, <4>1 DEF Closing
    <3> QED
      BY <1>8, <3>1, <3>2 DEF ProcessFill, SkipFill, TakeFill, TakeLateFill
  <2>3. ~Recovering'
    BY <2>2 DEF Recovering, RecoveryOps
  <2> QED
    BY <2>1, <2>2, <2>3, BookQuiet DEF Book!Next
<1>9. CASE RestartP3 \/ RestartSystem
  BY <1>9, RestartsAreRestarts DEF Book!Next
<1>10. CASE InsertRow \/ DeleteRow \/ AdoptRow
  BY <1>10, InsertRowOpens, DeleteRowRemoves, AdoptRowOpens DEF Book!Next
<1>11. CASE WriteTrade
  <2>1. Shutting
    BY <1>11 DEF WriteTrade, Shutting
  <2>2. PICK t \in Tickets : t = job.row.ticket
    BY <2>1, ShuttingIs
  <2> QED
    BY <1>11, <2>2, WriteTradeWrites DEF Book!Next
<1>12. CASE SyncRow \/ AskHoldings \/ CheckExpired \/ CloseExpired \/ StartP3
  BY <1>12, RecoveryIsQuiet DEF Book!Next
<1>13. Book!Settle => Book!Next
  BY DEF Book!Next
<1> QED
  BY <1>1, <1>2, <1>3, <1>4, <1>5, <1>6, <1>7, <1>8, <1>9, <1>10, <1>11, <1>12, <1>13
     DEF Next, P3Works, Recovers, TimeLimit, TrailingStop

\* Whatever fills, exits, and deaths in the middle of a close or of recovery do to the
\* tables positions and trades, they do what PositionBook allows: every close writes
\* the trade and deletes the row in two steps (position_tracker.py, recovery.py), and
\* recovery repeats a trade only of a row it has read before that left.
THEOREM ImplementsBook == Spec => KeepsBook
BY BookInit, BookStep, Invariance, PTL DEF Spec, KeepsBook, Book!Spec

BookProofs == INSTANCE PositionBook_proofs WITH
    open <- OpenTickets,
    closed <- {t \in Tickets : trades[t] > 0} \ OpenTickets,
    wiped <- {},
    writing <- {p.ticket : p \in {q \in positions : job.op = "delete" /\ job.row = q}},
    again <- {p.ticket : p \in Reread}

\* What PositionBook promises holds of these tables: however often P3 and the system
\* die, in recovery too, a position that has left has no more than two trades beyond
\* the restarts, and one at most is added to a position that stays.
THEOREM BookIsKept == Spec => []Book!Booked
<1>1. KeepsBook => BookProofs!Spec
  <2>1. Book!Init => BookProofs!Init
    BY DEF Book!Init, BookProofs!Init
  <2>2. [Book!Next]_(Book!vars) => [BookProofs!Next]_(BookProofs!vars)
    <3>1. Book!New = BookProofs!New
      BY DEF Book!New, BookProofs!New
    <3>2. Book!vars = BookProofs!vars /\ Book!vars' = BookProofs!vars'
      BY DEF Book!vars, BookProofs!vars
    <3>3. ASSUME NEW t \in Tickets
          PROVE  (Book!Open(t) => BookProofs!Open(t)) /\ (Book!Write(t) => BookProofs!Write(t))
      BY DEF Book!Open, BookProofs!Open, Book!New, BookProofs!New, Book!Write, BookProofs!Write,
             Book!Record, BookProofs!Record
    <3>4. Book!Remove => BookProofs!Remove
      BY DEF Book!Remove, BookProofs!Remove
    <3>5. Book!Wipe => BookProofs!Wipe
      BY DEF Book!Wipe, BookProofs!Wipe
    <3>6. ASSUME NEW S PROVE Book!Close(S) => BookProofs!Close(S)
      BY DEF Book!Close, BookProofs!Close, Book!Record, BookProofs!Record
    <3>7. ASSUME NEW B PROVE Book!Restart(B) => BookProofs!Restart(B)
      BY DEF Book!Restart, BookProofs!Restart, Book!Record, BookProofs!Record
    <3>8. ASSUME NEW t \in Tickets PROVE Book!Repeat(t) => BookProofs!Repeat(t)
      BY DEF Book!Repeat, BookProofs!Repeat, Book!Record, BookProofs!Record
    <3>9. Book!Settle => BookProofs!Settle
      BY DEF Book!Settle, BookProofs!Settle
    <3> QED
      BY <3>1, <3>2, <3>3, <3>4, <3>5, <3>6, <3>7, <3>8, <3>9 DEF Book!Next, BookProofs!Next
  <2> QED
    BY <2>1, <2>2, PTL DEF KeepsBook, Book!Spec, BookProofs!Spec
<1>2. BookProofs!Spec => []BookProofs!Booked
  BY BookProofs!BooksAreKept
<1>3. BookProofs!Booked <=> Book!Booked
  BY DEF Book!Booked, BookProofs!Booked, Book!New, BookProofs!New
<1> QED
  BY <1>1, <1>2, <1>3, ImplementsBook, PTL

-----------------------------------------------------------------------------
(* The halt.                                                                *)

\* A stage is lowered by a check of the balance only, and never from the last one;
\* recovery, which may add rows, runs before P3 has a stage.
LEMMA HaltStep ==
    ASSUME IInv, [Next]_vars, stage = 3, restarts' = restarts
    PROVE  stage' = 3 /\ tickets' = tickets
<1>1. restarts \in Nat
  BY LiveAssumption DEF IInv, TypeOK
<1>2. ~RestartP3 /\ ~RestartSystem
  <2>1. Restarted => restarts' = restarts + 1
    BY DEF Restarted
  <2> QED
    BY <1>1, <2>1 DEF RestartP3, RestartSystem
<1>3. ~Recovers
  <2>1. job.op \notin RecoveryOps
    BY RecoveringIs
  <2> QED
    BY <2>1 DEF Recovers, SyncRow, AskHoldings, AdoptRow, CheckExpired, CloseExpired, StartP3, RecoveryOps
<1>4. \A s, amount : ~Enter(s, amount)
  BY DEF Enter, Passes
<1>5. CASE UNCHANGED vars
  BY <1>5 DEF vars, risk, tables
<1>6. ASSUME NEW p, OrphanCleanup(p) \/ TimeLimit(p) \/ TrailingStop(p)
      PROVE  stage' = 3 /\ tickets' = tickets
  BY <1>6 DEF OrphanCleanup, TimeLimit, TrailingStop, Close, tables, risk
<1>7. CASE PlaceStop \/ PlaceTarget \/ InsertRow \/ CancelOrders \/ WriteTrade \/ DeleteRow
  BY <1>7 DEF PlaceStop, PlaceTarget, InsertRow, CancelOrders, WriteTrade, DeleteRow, tables, risk
<1>8. CASE ProcessFill
  BY <1>8 DEF ProcessFill, SkipFill, TakeFill, TakeLateFill, tables, risk
<1>9. CASE Monitor \/ CooldownEnds
  BY <1>9 DEF Monitor, CooldownEnds, tables, risk
<1>10. ASSUME NEW o, Fire(o)
       PROVE  stage' = 3 /\ tickets' = tickets
  BY <1>10 DEF Fire, tables, risk
<1> QED
  BY <1>2, <1>3, <1>4, <1>5, <1>6, <1>7, <1>8, <1>9, <1>10 DEF Next, P3Works

\* What a halt refuses it refuses until P3 is started anew (DrawdownManager.check and
\* _check_rejections); a start forgets the stage with the rest of P3's memory.
THEOREM HaltLasts == Spec => HaltHolds
<1>1. IInv /\ [Next]_vars
        => [stage = 3 /\ restarts' = restarts => stage' = 3 /\ tickets' = tickets]_vars
  BY HaltStep
<1> QED
  BY <1>1, Invariance, PTL DEF Spec, HaltHolds

=============================================================================
