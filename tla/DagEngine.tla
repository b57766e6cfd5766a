----------------------------- MODULE DagEngine -----------------------------
(***************************************************************************)
(* The task graph engine of src/src/workflow.rs.  register_task and run    *)
(* are called under the portal's mutex (trigger_dag_handler), so one run   *)
(* is under way at a time; its task_states are local to it.  A run works   *)
(* in rounds: it collects the tasks whose dependencies have succeeded and  *)
(* executes them one after the other, in the order of a hash map.          *)
(***************************************************************************)
EXTENDS Naturals, FiniteSets

CONSTANTS
    TaskId,     \* ids under which tasks are registered
    Unknown     \* ids that dependencies may name and no task has

Dependency == TaskId \cup Unknown

ASSUME DagAssumption == TaskId \cap Unknown = {}

VARIABLES
    tasks,          \* ids registered
    dependencies,   \* id -> ids upstream
    phase,          \* where run() is, or how it returned
    status,         \* task_states of the run
    batch           \* ready_tasks of the round that are still to execute

vars == <<tasks, dependencies, phase, status, batch>>

Statuses == {"None", "Pending", "Running", "Success", "Failed"}
\* No run is under way: none since the last registration, or how the last one ended.
Returned == {"idle", "ok", "deadlock", "failed", "dropped"}

Init ==
    /\ tasks = {}
    /\ dependencies = [t \in TaskId |-> {}]
    /\ phase = "idle"
    /\ status = [t \in TaskId |-> "None"]
    /\ batch = {}

With(s) == {t \in tasks : status[t] = s}

\* register_task replaces a task of the same id, and its dependencies.
RegisterTask(t, deps) ==
    /\ phase \in Returned
    /\ tasks' = tasks \cup {t}
    /\ dependencies' = [dependencies EXCEPT ![t] = deps]
    /\ phase' = "idle"
    /\ status' = [u \in TaskId |-> "None"]
    /\ UNCHANGED batch

StartRun ==
    /\ phase \in Returned
    /\ phase' = "round"
    /\ status' = [t \in TaskId |-> IF t \in tasks THEN "Pending" ELSE "None"]
    /\ batch' = {}
    /\ UNCHANGED <<tasks, dependencies>>

Succeeded(d) == d \in tasks /\ status[d] = "Success"
AnySucceeded(t) == dependencies[t] = {} \/ \E d \in dependencies[t] : Succeeded(d)     \* mutated form
MissingIsDone(t) == \A d \in dependencies[t] \cap tasks : Succeeded(d)                 \* mutated form
DepsDone(t) == \A d \in dependencies[t] : Succeeded(d)

ReadyAgain == {t \in tasks : DepsDone(t)}                                               \* mutated form
Ready == {t \in With("Pending") : DepsDone(t)}

AllDone ==
    /\ phase = "round" /\ batch = {}
    /\ With("Pending") = {}
    /\ phase' = "ok"
    /\ UNCHANGED <<tasks, dependencies, status, batch>>

NoneReady ==
    /\ phase = "round" /\ batch = {}
    /\ With("Pending") # {}
    /\ Ready = {}
    /\ phase' = "deadlock"
    /\ UNCHANGED <<tasks, dependencies, status, batch>>

CollectReady ==
    /\ phase = "round" /\ batch = {}
    /\ Ready # {}
    /\ batch' = Ready
    /\ UNCHANGED <<tasks, dependencies, phase, status>>

ExecuteTask(t) ==
    /\ phase = "round"
    /\ t \in batch
    /\ phase' = "execute"
    /\ batch' = batch \ {t}
    /\ status' = [status EXCEPT ![t] = "Running"]
    /\ UNCHANGED <<tasks, dependencies>>

NodeForgotten(t) ==                                                \* mutated form
    /\ phase = "execute"
    /\ status[t] = "Running"
    /\ phase' = "round"
    /\ status' = [status EXCEPT ![t] = "Pending"]
    /\ UNCHANGED <<tasks, dependencies, batch>>

NodeCompleted(t) ==
    /\ phase = "execute"
    /\ status[t] = "Running"
    /\ phase' = "round"
    /\ status' = [status EXCEPT ![t] = "Success"]
    /\ UNCHANGED <<tasks, dependencies, batch>>

FailureSkipped(t) ==                                               \* mutated form
    /\ phase = "execute"
    /\ status[t] = "Running"
    /\ phase' = "round"
    /\ status' = [status EXCEPT ![t] = "Failed"]
    /\ UNCHANGED <<tasks, dependencies, batch>>

\* The first failure ends the run; the rest of the batch is not executed.
NodeFailed(t) ==
    /\ phase = "execute"
    /\ status[t] = "Running"
    /\ phase' = "failed"
    /\ status' = [status EXCEPT ![t] = "Failed"]
    /\ UNCHANGED <<tasks, dependencies, batch>>

\* The client disconnects while a node executes, and the run is dropped with it.
DropRun ==
    /\ phase = "execute"
    /\ phase' = "dropped"
    /\ UNCHANGED <<tasks, dependencies, status, batch>>

Next ==
    \/ \E t \in TaskId : \E deps \in SUBSET Dependency : RegisterTask(t, deps)
    \/ StartRun \/ AllDone \/ NoneReady \/ CollectReady \/ DropRun
    \/ \E t \in TaskId : ExecuteTask(t) \/ NodeCompleted(t) \/ NodeFailed(t)

Spec == Init /\ [][Next]_vars

\* run() goes on as long as execute() of the current node returns.
Fairness ==
    /\ WF_vars(AllDone) /\ WF_vars(NoneReady) /\ WF_vars(CollectReady)
    /\ WF_vars(\E t \in TaskId : ExecuteTask(t))
    /\ WF_vars(\E t \in TaskId : NodeCompleted(t) \/ NodeFailed(t))

FairSpec == Spec /\ Fairness

-----------------------------------------------------------------------------
(* Properties *)

\* Every variable has the type of the Rust value it stands for.
TypeOK ==
    /\ tasks \subseteq TaskId
    /\ dependencies \in [TaskId -> SUBSET Dependency]
    /\ phase \in {"round", "execute"} \cup Returned
    /\ status \in [TaskId -> Statuses]
    /\ batch \subseteq tasks

Begun(t) == status[t] \in {"Running", "Success", "Failed"}

\* No node begins before everything upstream of it has succeeded in this run.
UpstreamFirst ==
    \A t \in tasks : Begun(t) => \A d \in dependencies[t] : d \in tasks /\ status[d] = "Success"

\* A run executes a node at most once: a node that is running after a step was
\* pending before it or executes already, and what has begun is not pending again
\* as long as the run goes on (the filter of run(), and the batches it collects with it).
ExecutesOnce ==
    [][\A t \in TaskId :
          /\ status'[t] = "Running" =>
                status[t] = "Pending" \/ (phase = "execute" /\ status[t] = "Running")
          /\ phase \notin Returned /\ Begun(t) => Begun(t)']_vars

\* A set of tasks none of which can ever come first: each depends on another of
\* the set or on a task that does not exist.
Unrunnable(S) ==
    /\ S # {} /\ S \subseteq tasks
    /\ \A t \in S : dependencies[t] \cap S # {} \/ ~(dependencies[t] \subseteq tasks)

\* run() says "deadlock" only of a graph that has a cycle or a missing task, and
\* succeeds only on a graph that has neither.
VerdictExact ==
    /\ phase = "ok" => \A S \in SUBSET tasks : ~Unrunnable(S)
    /\ phase = "deadlock" => Unrunnable(With("Pending"))

Going == phase \in {"round", "execute"}

Graph == INSTANCE GraphRun WITH
    Node <- TaskId,
    upstream <- [t \in tasks |-> dependencies[t]],
    done <- With("Success"),
    executing <- IF Going THEN With("Running") ELSE {},
    verdict <- IF Going THEN "running" ELSE phase

\* The rounds, the batch collected at the start of each and the statuses come to what
\* GraphRun promises: in particular success means that every node has succeeded.
ImplementsGraphRun == Graph!Spec

\* A run that has started returns.
RunReturns == phase = "round" ~> phase \in Returned
=============================================================================
