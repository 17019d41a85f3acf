---------------------------- MODULE JourneySteps ----------------------------
(***************************************************************************)
(* What the realtime pipeline promises of one journey: its steps are taken *)
(* one after another, each once; a step may request a side effect, and a   *)
(* requested one is performed at most once.                                *)
(***************************************************************************)
EXTENDS Naturals

CONSTANT Steps

VARIABLES
    pos,        \* steps taken
    requested,  \* steps whose side effect was requested
    performed   \* how often the side effect of each step has happened

vars == <<pos, requested, performed>>

Init == pos = 0 /\ requested = {} /\ performed = [v \in 1..Steps |-> 0]

\* A step is taken, with or without a side effect.
Take ==
    /\ pos < Steps
    /\ pos' = pos + 1
    /\ requested' \in {requested, requested \cup {pos + 1}}
    /\ UNCHANGED performed

\* A requested side effect happens.
Perform(v) ==
    /\ v \in requested /\ performed[v] = 0
    /\ performed' = [performed EXCEPT ![v] = 1]
    /\ UNCHANGED <<pos, requested>>

Next == Take \/ \E v \in 1..Steps : Perform(v)

Spec == Init /\ [][Next]_vars
=============================================================================
