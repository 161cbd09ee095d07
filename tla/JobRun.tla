------------------------------- MODULE JobRun --------------------------------
(***************************************************************************)
(* What a dependency-aware run of jobs promises: a job starts once, after  *)
(* all its upstreams have succeeded; at most Parallel jobs run at a time;  *)
(* a job is blocked once its upstreams are over and one has not succeeded; *)
(* a result is final.                                                      *)
(***************************************************************************)
EXTENDS JobGraph, Naturals, FiniteSets

CONSTANT Parallel

VARIABLES
    upstream,   \* the direct upstreams of each job; never changes
    state       \* the state of each job

vars == <<upstream, state>>

Running == {j \in Job : state[j] = "running"}

Init ==
    /\ upstream \in [Job -> SUBSET Job]
    /\ state = [j \in Job |-> "waiting"]

Start(j) ==
    /\ Startable(upstream, state, j)
    /\ Cardinality(Running) < Parallel
    /\ state' = [state EXCEPT ![j] = "running"]
    /\ UNCHANGED upstream

Finish(j) ==
    /\ state[j] = "running"
    /\ \E o \in Outcome : state' = [state EXCEPT ![j] = o]
    /\ UNCHANGED upstream

Block(j) ==
    /\ Blockable(upstream, state, j)
    /\ state' = [state EXCEPT ![j] = "blocked"]
    /\ UNCHANGED upstream

Next == \E j \in Job : Start(j) \/ Finish(j) \/ Block(j)

Spec == Init /\ [][Next]_vars
=============================================================================
