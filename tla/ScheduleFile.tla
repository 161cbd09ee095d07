----------------------------- MODULE ScheduleFile -----------------------------
(***************************************************************************)
(* The trusted schedule of a project and the commands that write it:       *)
(* schedule generate and schedule reconcile --apply-safe                   *)
(* (execution/schedule_cli.py), with what they infer from lineage          *)
(* (lineage/schedule_inference.py) and the graph they write                *)
(* (execution/schedule_graph.py).                                          *)
(*                                                                         *)
(* No lock is taken.  reconcile hashes the file before it reads it and     *)
(* again before it writes; a write replaces the file as a whole.  People   *)
(* edit it, change tasks and refresh lineage meanwhile.                    *)
(***************************************************************************)
EXTENDS JobGraph, Integers, FiniteSets

CONSTANTS
    Cmd,        \* commands at work at the same time
    Facts,      \* lineage snapshots there may be
    Written,    \* schedules people may write
    NoFile,     \* there is no schedule file
    Careful     \* people and commands keep out of each other's way, see Undisturbed

\* Jobs are numbered in the order their names sort.  A snapshot has the jobs it was
\* made from, what each reads and writes, which datasets are temporary, and
\* whether some process dataset has no resolved producer.
Graphs == [jobs : SUBSET Job, up : [Job -> SUBSET Job]]
ASSUME ScheduleAssumption ==
    /\ Job \subseteq Nat /\ IsFiniteSet(Job)
    /\ \A f \in Facts : /\ f.jobs \subseteq Job /\ f.unresolved \in BOOLEAN
                        /\ DOMAIN f.reads = Job /\ DOMAIN f.writes = Job
    /\ Written \subseteq Graphs

VARIABLES
    file,       \* the schedule file: a graph, or NoFile
    facts,      \* the lineage file
    tasks,      \* jobs that have a task file
    cmd         \* what each command has read so far

scheduleVars == <<file, facts, tasks, cmd>>

-----------------------------------------------------------------------------
(* ScheduleGraph *)

Graph(jobs, up) == [jobs |-> jobs, up |-> up]
Edges(g) == {e \in g.jobs \X g.jobs : e[1] \in g.up[e[2]]}
HasPath(g, u, d) == u \in g.jobs /\ d \in g.jobs /\ Reaches(g.up, u, d)
NoEdges == [j \in Job |-> {}]
\* What the constructor accepts: known ends, no self-edge, a topological order.
IsDag(g) ==
    /\ \A d \in Job : g.up[d] # {} => {d} \cup g.up[d] \subseteq g.jobs
    /\ \A d \in g.jobs : \A u \in g.up[d] : ~Reaches(g.up, d, u)

(* infer_schedule_candidate *)

Writers(f, T, x) == {j \in T : x \in f.writes[j]}
Inputs(f, j) == f.reads[j] \ f.writes[j]
CrossJobTemporary(f, T) ==
    \E j \in T : \E x \in Inputs(f, j) \cap f.temporary : Writers(f, T, x) # {}
\* The datasets that put u before d.
Evidence(f, T, u, d) == {x \in Inputs(f, d) \ f.temporary : u \in Writers(f, T, x)}
MultipleWriterInput(f, T, u, d) ==
    \E x \in Evidence(f, T, u, d) : Writers(f, T, x) # {u}
Inferred(f, T) ==
    Graph(T, [d \in Job |-> IF d \in T THEN {u \in T : Evidence(f, T, u, d) # {}} ELSE {}])
InferenceErrors(f, T) == CrossJobTemporary(f, T) \/ f.unresolved \/ ~IsDag(Inferred(f, T))
Candidate(f, T) == IF IsDag(Inferred(f, T)) THEN Inferred(f, T) ELSE Graph(T, NoEdges)

(* _reconcile: what it proposes for the trusted graph g *)

\* Edges are sorted by downstream, then upstream; the one at place n.
Earlier(e, h) == e[2] < h[2] \/ (e[2] = h[2] /\ e[1] < h[1])
Place(E, e) == Cardinality({h \in E : Earlier(h, e)})
Sorted(E, n) == CHOOSE e \in E : Place(E, e) = n
Missing(g, f, T) == {e \in Edges(Candidate(f, T)) : ~HasPath(g, e[1], e[2])}
SingleWriter(f, T, e) == ~MultipleWriterInput(f, T, e[1], e[2])
\* Fault: a job that has an upstream already gets no other.
AddEdgeOnce(g, e) == IF g.up[e[2]] # {} THEN g ELSE [g EXCEPT !.up[e[2]] = @ \cup {e[1]}]
AddEdge(g, e) ==
    IF HasPath(g, e[1], e[2]) THEN g ELSE [g EXCEPT !.up[e[2]] = @ \cup {e[1]}]
Proposal(g, f, T) ==
    LET safe == {e \in Missing(g, f, T) : SingleWriter(f, T, e)}
        merged[n \in Nat] == IF n = 0 THEN [g EXCEPT !.jobs = @ \cup T]
                             ELSE AddEdge(merged[n - 1], Sorted(safe, n - 1))
    IN  merged[Cardinality(safe)]
\* A job whose task is gone is never deleted, and stops the command.
Blocking(g, f, T) == InferenceErrors(f, T) \/ ~(g.jobs \subseteq T)

-----------------------------------------------------------------------------
Idle == [at |-> "idle"]
Busy(c) == cmd[c].at # "idle"

ScheduleInit ==
    /\ file \in {NoFile} \cup Written
    /\ facts \in Facts
    /\ tasks = facts.jobs
    /\ cmd = [c \in Cmd |-> Idle]

\* Nobody replaces the file between the last hash of a command and its write, nor
\* brings back a content that a running command has hashed.
Undisturbed(C, g) ==
    Careful => \A d \in C : Busy(d) =>
        /\ cmd[d].at # "checked"
        /\ cmd[d].force \/ g = file \/ g # cmd[d].base

EditFile(g) ==
    /\ Undisturbed(Cmd, g)
    /\ file' = g
    /\ UNCHANGED <<facts, tasks, cmd>>
EditTasks(T) == tasks' = T /\ UNCHANGED <<file, facts, cmd>>
Refresh(f) == facts' = f /\ UNCHANGED <<file, tasks, cmd>>

Set(c, r) == cmd' = [cmd EXCEPT ![c] = r] /\ UNCHANGED <<facts, tasks>>
Ends(c) == Set(c, Idle) /\ UNCHANGED file

\* _sha256(path)
Hash(c) ==
    /\ ~Busy(c)
    /\ Set(c, [at |-> "hashed", base |-> file, force |-> FALSE])
    /\ UNCHANGED file

\* A project without a schedule starts from an empty one.
LoadTrusted(c) ==
    /\ cmd[c].at = "hashed"
    /\ Set(c, [at |-> "loaded", base |-> cmd[c].base, force |-> FALSE,
               trusted |-> IF file = NoFile THEN Graph({}, NoEdges) ELSE file])
    /\ UNCHANGED file

ReadLineage(c) ==
    /\ cmd[c].at = "loaded"
    /\ Set(c, [at |-> "read", base |-> cmd[c].base, force |-> FALSE,
               trusted |-> cmd[c].trusted, facts |-> facts])
    /\ UNCHANGED file

\* Tasks are listed, and everything is decided.  Tasks that lineage does not know,
\* a merge with a cycle, and blocking diagnostics raise.
Propose(c) ==
    /\ cmd[c].at = "read"
    /\ LET r == cmd[c]
           proposal == Proposal(r.trusted, r.facts, tasks)
       IN  IF tasks \subseteq r.facts.jobs /\ IsDag(proposal) /\ ~Blocking(r.trusted, r.facts, tasks)
           THEN /\ Set(c, [at |-> "proposed", base |-> r.base, force |-> FALSE,
                           facts |-> r.facts, tasks |-> tasks, proposal |-> proposal])
                /\ UNCHANGED file
           ELSE Ends(c)

\* Fault: the file is not looked at again.
RecheckNot(c) ==
    /\ cmd[c].at = "proposed"
    /\ Set(c, [cmd[c] EXCEPT !.at = "checked"]) /\ UNCHANGED file

\* "trusted schedule changed during reconcile"
Recheck(c) ==
    /\ cmd[c].at = "proposed"
    /\ IF file = cmd[c].base
       THEN Set(c, [cmd[c] EXCEPT !.at = "checked"]) /\ UNCHANGED file
       ELSE Ends(c)

\* _generate up to its write; --force replaces what is there.
GenerateReads(c, force) ==
    /\ ~Busy(c)
    /\ Set(c, [at |-> "generating", base |-> NoFile, force |-> force, facts |-> facts])
    /\ UNCHANGED file
Generate(c) ==
    /\ cmd[c].at = "generating"
    /\ LET r == cmd[c] IN
       IF /\ tasks \subseteq r.facts.jobs
          /\ r.force \/ file = NoFile
          /\ ~InferenceErrors(r.facts, tasks)
       THEN /\ Set(c, [at |-> "checked", base |-> NoFile, force |-> r.force, facts |-> r.facts,
                       tasks |-> tasks, proposal |-> Candidate(r.facts, tasks)])
            /\ UNCHANGED file
       ELSE Ends(c)

\* ScheduleGraph.save: os.replace of a complete file.
Save(c) ==
    /\ cmd[c].at = "checked"
    /\ Undisturbed(Cmd \ {c}, cmd[c].proposal)
    /\ file' = cmd[c].proposal
    /\ Set(c, Idle)

\* A proposal without --apply-safe, a failing read or write, a kill.
Stop(c) == Busy(c) /\ Ends(c)

CommandStep(c) ==
    \/ Hash(c) \/ LoadTrusted(c) \/ ReadLineage(c) \/ Propose(c) \/ Recheck(c)
    \/ \E force \in BOOLEAN : GenerateReads(c, force)
    \/ Generate(c) \/ Save(c) \/ Stop(c)

ScheduleNext ==
    \/ \E c \in Cmd : CommandStep(c)
    \/ \E g \in Written : EditFile(g)
    \/ \E f \in Facts : Refresh(f) \/ EditTasks(f.jobs)

ScheduleSpec == ScheduleInit /\ [][ScheduleNext]_scheduleVars

-----------------------------------------------------------------------------
(* Properties *)

\* Somebody's command, not forced to replace the file, has written it.
Saved(c) == cmd[c].at = "checked" /\ ~cmd[c].force /\ cmd'[c] = Idle /\ file' # file

\* A command only adds to the file it replaces, whatever people did while it was at
\* work: every job stays, whoever ran after another still does, and the result is
\* a graph that the next run can load.
OrdersKept ==
    [][\A c \in Cmd : Saved(c) =>
          /\ IsDag(file')
          /\ file # NoFile => /\ file.jobs \subseteq file'.jobs
                              /\ \A u, d \in file.jobs : HasPath(file, u, d) => HasPath(file', u, d)
      ]_scheduleVars

\* After it, every task is scheduled, and every task that reads what one other task
\* alone writes comes after it, unless the two also share a dataset of several
\* writers, which is left to people.
ReadersOrdered ==
    [][\A c \in Cmd : Saved(c) =>
          LET f == cmd[c].facts
              T == cmd[c].tasks
          IN  /\ T \subseteq file'.jobs
              /\ \A u, d \in T : \A x \in f.reads[d] \ (f.writes[d] \cup f.temporary) :
                    Writers(f, T, x) = {u} =>
                        \/ HasPath(file', u, d)
                        \/ \E y \in Inputs(f, d) : u \in Writers(f, T, y) /\ Writers(f, T, y) # {u}
      ]_scheduleVars
=============================================================================
