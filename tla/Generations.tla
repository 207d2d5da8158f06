----------------------------- MODULE Generations ------------------------------
(***************************************************************************)
(* What the orchestrator promises of the processes that trade together: a  *)
(* generation of them runs one configuration, its dead are replaced by its *)
(* own kind, the next generation starts when nothing of it is left, and    *)
(* nothing outlives the end.                                               *)
(***************************************************************************)
EXTENDS Naturals, Functions

CONSTANT Crew           \* the processes of a generation

VARIABLES
    phase,      \* "serving", "renewing", "ending" or "ended"
    config,     \* configuration of the generation
    runs        \* live processes, each with the configuration it was started with

vars == <<phase, config, runs>>

Live == DOMAIN runs

Init == phase = "serving" /\ config = 0 /\ runs = [p \in Crew |-> 0]

\* Dead processes are replaced.
Replace(S) ==
    /\ phase = "serving"
    /\ runs' = [p \in Live \cup S |-> IF p \in S THEN config ELSE runs[p]]
    /\ UNCHANGED <<phase, config>>

\* Processes end, by themselves or on request.
Lose(S) ==
    /\ runs' = Restrict(runs, Live \ S)
    /\ UNCHANGED <<phase, config>>

\* The generation is to be followed by another, or by none.
Retire ==
    /\ phase = "serving" /\ phase' \in {"renewing", "ending"}
    /\ UNCHANGED <<config, runs>>

\* The next generation, with a configuration that is not older.
Renew ==
    /\ phase = "renewing" /\ phase' = "serving"
    /\ Live = {}
    /\ config' \in Nat /\ config' >= config
    /\ runs' = [p \in Crew |-> config']

\* No new configuration is to be had: what is dead will be replaced as it was.
GiveUp ==
    /\ phase = "renewing" /\ phase' = "serving"
    /\ Live = {}
    /\ UNCHANGED <<config, runs>>

End ==
    /\ phase = "ending" /\ phase' = "ended"
    /\ runs' = <<>>
    /\ UNCHANGED config

Next ==
    \/ \E S \in SUBSET (Crew \ Live) : Replace(S)
    \/ \E S \in SUBSET Live : Lose(S)
    \/ Retire \/ Renew \/ GiveUp \/ End

Spec == Init /\ [][Next]_vars

\* Who lives is of the present generation, and in the end nobody does.
OneGeneration ==
    /\ \A p \in Live : p \in Crew /\ runs[p] = config
    /\ phase = "ended" => Live = {}

=============================================================================
