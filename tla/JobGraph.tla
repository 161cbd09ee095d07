------------------------------ MODULE JobGraph -------------------------------
(***************************************************************************)
(* What a dependency graph of jobs and the results so far say of a job:    *)
(* the conditions execution/dag_executor.py computes, over any graph "up"  *)
(* (each job's direct upstreams) and any record "state" of the jobs.       *)
(***************************************************************************)
CONSTANT Job

Outcome == {"success", "failed"}
Terminal == Outcome \cup {"blocked"}
State == {"waiting", "running"} \cup Terminal

\* Every direct upstream has a result: direct_upstreams.issubset(results).
Resolved(up, state, j) == \A u \in up[j] : state[u] \in Terminal

\* Fault: a job is ready as soon as its upstreams are over.
StartableAnyway(up, state, j) ==
    /\ state[j] = "waiting"
    /\ Resolved(up, state, j)

Startable(up, state, j) ==
    /\ state[j] = "waiting"
    /\ \A u \in up[j] : state[u] = "success"

Blockable(up, state, j) ==
    /\ state[j] = "waiting"
    /\ Resolved(up, state, j)
    /\ \E u \in up[j] : state[u] # "success"

\* f is j or one of its transitive upstreams: j is in every set that holds f
\* and the jobs downstream of its members.
Reaches(up, f, j) ==
    \A S \in SUBSET Job :
        f \in S /\ (\A k \in Job : up[k] \cap S # {} => k \in S) => j \in S
=============================================================================
