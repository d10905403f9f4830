------------------------------ MODULE Pipeline ------------------------------
(***************************************************************************)
(* The analysis pipeline of platform::pipeline: a PipelineDag is put       *)
(* together node by node, build_execution_plan sorts it (Kahn's algorithm, *)
(* ties in the order of the node identifiers) and the capture pipelines    *)
(* run the plan stage by stage, asking decide_ready for the next node.     *)
(*                                                                         *)
(* decide_ready never looks at dependencies: that a stage finds the output *)
(* of the stages it depends on rests on the order of the plan alone. Both  *)
(* callers pass queue depth 0, at which no lane is delayed, and a          *)
(* scheduler whose max_concurrency is 1; names, topics, routes and         *)
(* checkpoints are data.                                                   *)
(***************************************************************************)
EXTENDS Naturals, Sequences, FiniteSets, SequencesExt, Positions

CONSTANT PipeNodes  \* node identifiers, numbers in the order of their texts

ASSUME PipeNodesAssumption == PipeNodes \subseteq Nat /\ IsFiniteSet(PipeNodes)

VARIABLES
    dag,        \* the nodes added so far: their dependencies and enabled flag
    phase,      \* of the construction: "open", "sorting" or "planned"
    answer,     \* what the last build_execution_plan said of which dag
    indegree, ready, ordered,  \* the locals of topological_order
    plan,       \* the steps of the execution plan
    completed,  \* completed_nodes of the run in progress
    running     \* whether a run is in progress

planVars == <<indegree, ready, ordered>>
runVars == <<completed, running>>
pipeVars == <<dag, phase, answer, planVars, plan, runVars>>

\* A dependency list, as the number of times it names each node: depends_on
\* appends without looking, so a node may be named twice or be unknown.
DependencyList == {d \in [PipeNodes -> 0..2] : Cardinality({n \in PipeNodes : d[n] = 2}) <= 1}

Known == DOMAIN dag
DependsOn(n) == {d \in PipeNodes : dag[n].deps[d] > 0}

PipeInit ==
    /\ dag = <<>>
    /\ phase = "open"
    /\ answer = "none"
    /\ indegree = <<>> /\ ready = <<>> /\ ordered = <<>>
    /\ plan = <<>>
    /\ completed = {} /\ running = FALSE

-----------------------------------------------------------------------------
(* PipelineDag: construction                                               *)

\* add_node of a node with the dependencies depends_on gave it.
AddNode(n, deps, on) ==
    /\ phase = "open"
    /\ n \notin Known
    /\ dag' = [m \in Known \cup {n} |->
                 IF m = n THEN [deps |-> deps, enabled |-> on] ELSE dag[m]]
    /\ answer' = "none"
    /\ UNCHANGED <<phase, planVars, plan, runVars>>

\* add_dependency: both nodes must be there, and nothing is named twice.
AddDependency(n, d) ==
    /\ phase = "open"
    /\ n \in Known /\ d \in Known
    /\ d \notin DependsOn(n)
    /\ dag' = [dag EXCEPT ![n].deps[d] = 1]
    /\ answer' = "none"
    /\ UNCHANGED <<phase, planVars, plan, runVars>>

-----------------------------------------------------------------------------
(* build_execution_plan                                                    *)

\* The entries of a node's dependency list, one for each time it names a node.
Entries(n) == {e \in PipeNodes \X (1..2) : e[2] <= dag[n].deps[e[1]]}
InDegree(n) == Cardinality(Entries(n))

\* validate: a dependency on a node that was never added.
BuildRefusedMissing ==
    /\ phase = "open"
    /\ \E n \in Known : ~(DependsOn(n) \subseteq Known)
    /\ answer' = "missing"
    /\ UNCHANGED <<dag, phase, planVars, plan, runVars>>

BuildBegins ==
    /\ phase = "open"
    /\ \A n \in Known : DependsOn(n) \subseteq Known
    /\ phase' = "sorting"
    /\ indegree' = [n \in Known |-> InDegree(n)]
    /\ ready' = Ascending({n \in Known : InDegree(n) = 0})
    /\ ordered' = <<>>
    /\ UNCHANGED <<dag, answer, plan, runVars>>

\* Mutant: the reverse edges are kept as a set.
LoweredOnce(n) == [m \in Known |-> indegree[m] - (IF n \in DependsOn(m) THEN 1 ELSE 0)]
\* What taking node n out leaves of the others' counts: one less for every time
\* they name it (saturating_sub, which never has to saturate).
Lowered(n) == [m \in Known |-> indegree[m] - dag[m].deps[n]]

Freed(n) == Ascending({m \in Known : n \in DependsOn(m) /\ Lowered(n)[m] = 0})

TakeReady ==
    /\ phase = "sorting"
    /\ ready # <<>>
    /\ LET n == Head(ready)
       IN  /\ ordered' = Append(ordered, n)
           /\ indegree' = Lowered(n)
           /\ ready' = Tail(ready) \o Freed(n)
    /\ UNCHANGED <<dag, phase, answer, plan, runVars>>

BuildRefusedCycle ==
    /\ phase = "sorting"
    /\ ready = <<>>
    /\ Len(ordered) # Cardinality(Known)
    /\ answer' = "cycle"
    /\ phase' = "open"
    /\ indegree' = <<>> /\ ordered' = <<>>
    /\ UNCHANGED <<dag, ready, plan, runVars>>

\* The steps are the enabled nodes in topological order.
BuildEnds ==
    /\ phase = "sorting"
    /\ ready = <<>>
    /\ Len(ordered) = Cardinality(Known)
    /\ plan' = Picked(ordered, {i \in DOMAIN ordered : dag[ordered[i]].enabled})
    /\ answer' = "plan"
    /\ phase' = "planned"
    /\ indegree' = <<>> /\ ordered' = <<>>
    /\ UNCHANGED <<dag, ready, runVars>>

-----------------------------------------------------------------------------
(* A run of the plan                                                       *)

\* Mutant: the steps are held in the order of their identifiers.
DecideReadyById == Ascending(ToSet(plan) \ completed)
\* decide_ready at queue depth 0.
DecideReady == Picked(plan, {i \in DOMAIN plan : plan[i] \notin completed})

RunBegins ==
    /\ phase = "planned"
    /\ ~running
    /\ running' = TRUE
    /\ completed' = {}
    /\ UNCHANGED <<dag, phase, answer, planVars, plan>>

\* One turn of the loop: the first ready node, whose stage answers Ok.
RunStage ==
    /\ running
    /\ Cardinality(completed) < Len(plan)
    /\ DecideReady # <<>>
    /\ completed' = completed \cup {Head(DecideReady)}
    /\ UNCHANGED <<dag, phase, answer, planVars, plan, running>>

\* The stage answers with an error, and the run with it; or the plan is done.
RunEnds ==
    /\ running
    /\ running' = FALSE
    /\ UNCHANGED <<dag, phase, answer, planVars, plan, completed>>

PipeNext ==
    \/ \E n \in PipeNodes, deps \in DependencyList, on \in BOOLEAN : AddNode(n, deps, on)
    \/ \E n \in PipeNodes, d \in PipeNodes : AddDependency(n, d)
    \/ BuildRefusedMissing
    \/ BuildBegins
    \/ TakeReady
    \/ BuildRefusedCycle
    \/ BuildEnds
    \/ RunBegins
    \/ RunStage
    \/ RunEnds

PipeSpec == PipeInit /\ [][PipeNext]_pipeVars

-----------------------------------------------------------------------------
(* Properties                                                              *)

\* A set of nodes that holds, with a node, all that the node depends on.
Closed(C) == \A c \in C \cap Known : DependsOn(c) \subseteq C

\* The nodes n needs, directly or through others: the least closed set with all
\* that n depends on.
NeededBy(n) ==
    {m \in PipeNodes : \A C \in SUBSET PipeNodes : DependsOn(n) \subseteq C /\ Closed(C) => m \in C}

Acyclic == \A n \in Known : n \notin NeededBy(n)

\* build_execution_plan answers every dag correctly: with a plan when no node
\* needs itself, in which every enabled node has one step, whatever is listed
\* twice or disabled; and with an error otherwise.
PlanIsRight ==
    /\ answer = "plan" => /\ Acyclic
                          /\ IsInjective(plan)
                          /\ ToSet(plan) = {n \in Known : dag[n].enabled}
    /\ answer = "cycle" => ~Acyclic
    /\ answer = "missing" => \E n \in Known : ~(DependsOn(n) \subseteq Known)

\* decide_ready asks nothing about dependencies, and still no run executes a
\* stage before every enabled stage it needs, directly or through disabled ones,
\* has been executed by the same run; and it never runs out of ready nodes.
DependenciesFirst ==
    [][/\ \A n \in completed' \ completed :
             {m \in NeededBy(n) : dag[m].enabled} \subseteq completed
       /\ running /\ Cardinality(completed) < Len(plan) => DecideReady # <<>>]_pipeVars

=============================================================================
