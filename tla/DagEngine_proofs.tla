-------------------------- MODULE DagEngine_proofs --------------------------
(***************************************************************************)
(* Proofs about DagEngine for any set of tasks and any dependencies,       *)
(* cyclic or dangling ones included: order, one at a time, at most once,   *)
(* and the meaning of the two verdicts of run().                           *)
(***************************************************************************)
EXTENDS DagEngine, FiniteSetTheorems, TLAPS

\* While a run goes on its nodes are pending, done, or the one that executes.
ProgressInv ==
    /\ \A t \in TaskId \ tasks : status[t] = "None"
    /\ Going => \A t \in tasks : status[t] \in {"Pending", "Running", "Success"}
    /\ phase = "round" => With("Running") = {}
    /\ phase = "execute" => \E t \in tasks : With("Running") = {t}
    /\ Going => batch \subseteq Ready

\* Nothing that cannot come first has begun; the verdicts rest on it.
OrderInv ==
    /\ UpstreamFirst
    /\ Going => \A S \in SUBSET tasks : Unrunnable(S) => \A t \in S : ~Begun(t)
    /\ VerdictExact

Inv == TypeOK /\ ProgressInv /\ OrderInv

LEMMA InitInv == Init => Inv
  BY DEF Init, Inv, TypeOK, ProgressInv, OrderInv, Going, UpstreamFirst, VerdictExact, Begun,
         Statuses, Returned, Dependency

\* Registering, and starting a run, clear the statuses.
LEMMA RegisterInv ==
  ASSUME Inv, NEW t \in TaskId, NEW deps \in SUBSET Dependency, RegisterTask(t, deps)
  PROVE  Inv'
  BY DEF RegisterTask, Inv, TypeOK, ProgressInv, OrderInv, Going, UpstreamFirst, VerdictExact,
         Begun, Statuses, Returned

LEMMA StartInv == ASSUME Inv, StartRun PROVE Inv'
  BY DEF StartRun, Inv, TypeOK, ProgressInv, OrderInv, Going, UpstreamFirst, VerdictExact,
         Begun, Statuses, Returned, With, Ready

\* The verdicts: all done means that no set is unrunnable; none ready means that
\* the pending nodes are one.
LEMMA AllDoneInv == ASSUME Inv, AllDone PROVE Inv'
<1> USE DEF AllDone, Inv, TypeOK
<1>1. \A t \in tasks : status[t] = "Success"
  BY DEF ProgressInv, Going, With
<1>2. \A S \in SUBSET tasks : ~Unrunnable(S)
  BY <1>1 DEF OrderInv, Going, Unrunnable, Begun
<1>3. VerdictExact'
  BY <1>2 DEF VerdictExact, Unrunnable
<1> QED
  BY <1>3 DEF ProgressInv, OrderInv, Going, UpstreamFirst, Begun, Returned

LEMMA NoneReadyInv == ASSUME Inv, NoneReady PROVE Inv'
<1> USE DEF NoneReady, Inv, TypeOK
<1>1. Unrunnable(With("Pending"))
  <2>1. SUFFICES ASSUME NEW t \in With("Pending"), dependencies[t] \subseteq tasks
                 PROVE  dependencies[t] \cap With("Pending") # {}
    BY DEF Unrunnable, With
  <2>2. PICK d \in dependencies[t] : status[d] # "Success"
    BY <2>1 DEF Ready, DepsDone, Succeeded
  <2>3. status[d] = "Pending"
    BY <2>1, <2>2 DEF ProgressInv, Going, With
  <2> QED
    BY <2>1, <2>2, <2>3 DEF With
<1>2. VerdictExact'
  BY <1>1 DEF VerdictExact, Unrunnable, With
<1> QED
  BY <1>2 DEF ProgressInv, OrderInv, Going, UpstreamFirst, Begun, Returned

LEMMA CollectInv == ASSUME Inv, CollectReady PROVE Inv'
  BY DEF CollectReady, Inv, TypeOK, ProgressInv, OrderInv, Going, UpstreamFirst, VerdictExact,
         Begun, Returned, Ready, With, DepsDone, Succeeded, Unrunnable

\* A node that begins has all its dependencies done, so it is in no unrunnable set.
LEMMA ExecuteInv == ASSUME Inv, NEW t \in TaskId, ExecuteTask(t) PROVE Inv'
<1> USE DEF ExecuteTask, Inv, TypeOK
<1>1. t \in tasks /\ status[t] = "Pending" /\ DepsDone(t)
  BY DEF ProgressInv, Going, Ready, With
<1>2. \A u \in TaskId : status'[u] = IF u = t THEN "Running" ELSE status[u]
  OBVIOUS
<1>3. TypeOK'
  BY DEF Statuses
<1>4. ProgressInv'
  BY <1>1, <1>2 DEF ProgressInv, Going, With, Ready, DepsDone, Succeeded
<1>5. UpstreamFirst'
  BY <1>1, <1>2 DEF OrderInv, UpstreamFirst, Begun, DepsDone, Succeeded
<1>6. ASSUME NEW S \in SUBSET tasks, Unrunnable(S) PROVE t \notin S
  BY <1>1, <1>6 DEF OrderInv, Going, Unrunnable, Begun, DepsDone, Succeeded
<1>7. ASSUME NEW S \in SUBSET tasks, Unrunnable(S)', NEW u \in S PROVE ~Begun(u)'
  <2>1. Unrunnable(S)
    BY <1>7 DEF Unrunnable
  <2>2. u # t /\ ~Begun(u)
    BY <2>1, <1>6 DEF OrderInv, Going
  <2> QED
    BY <1>2, <2>2 DEF Begun
<1> QED
  BY <1>3, <1>4, <1>5, <1>7 DEF OrderInv, VerdictExact, Returned

LEMMA CompletedInv == ASSUME Inv, NEW t \in TaskId, NodeCompleted(t) PROVE Inv'
<1> USE DEF NodeCompleted, Inv, TypeOK
<1>1. \A u \in TaskId : status'[u] = IF u = t THEN "Success" ELSE status[u]
  OBVIOUS
<1>2. TypeOK'
  BY DEF Statuses
<1>3. With("Running") \subseteq {t}
  BY DEF ProgressInv, With
<1>4. ProgressInv'
  BY <1>1, <1>3 DEF ProgressInv, Going, With, Ready, DepsDone, Succeeded
<1>5. \A u \in TaskId : Begun(u)' <=> Begun(u)
  BY <1>1 DEF Begun
<1>6. UpstreamFirst'
  BY <1>1, <1>5 DEF OrderInv, UpstreamFirst
<1> QED
  BY <1>2, <1>4, <1>5, <1>6 DEF OrderInv, VerdictExact, Going, Unrunnable

LEMMA FailedInv == ASSUME Inv, NEW t \in TaskId, NodeFailed(t) PROVE Inv'
<1> USE DEF NodeFailed, Inv, TypeOK
<1>1. \A u \in TaskId : status'[u] = IF u = t THEN "Failed" ELSE status[u]
  OBVIOUS
<1>2. TypeOK'
  BY DEF Statuses, Returned
<1>3. \A u \in TaskId : Begun(u)' <=> Begun(u)
  BY <1>1 DEF Begun
<1>4. UpstreamFirst'
  BY <1>1, <1>3 DEF OrderInv, UpstreamFirst
<1> QED
  BY <1>2, <1>4 DEF ProgressInv, OrderInv, VerdictExact, Going

LEMMA DropInv == ASSUME Inv, DropRun PROVE Inv'
  BY DEF DropRun, Inv, TypeOK, ProgressInv, OrderInv, Going, UpstreamFirst, VerdictExact,
         Begun, Returned

LEMMA StepInv == Inv /\ [Next]_vars => Inv'
<1> SUFFICES ASSUME Inv, [Next]_vars PROVE Inv'
  OBVIOUS
<1>1. CASE UNCHANGED vars
  <2>1. TypeOK'
    BY <1>1 DEF vars, Inv, TypeOK
  <2>2. ProgressInv'
    BY <1>1 DEF vars, Inv, ProgressInv, Going, With, Ready, DepsDone, Succeeded
  <2>3. OrderInv'
    BY <1>1 DEF vars, Inv, OrderInv, Going, UpstreamFirst, VerdictExact, Begun, With, Unrunnable
  <2> QED
    BY <2>1, <2>2, <2>3 DEF Inv
<1>2. CASE Next
  BY <1>2, RegisterInv, StartInv, AllDoneInv, NoneReadyInv, CollectInv, ExecuteInv,
     CompletedInv, FailedInv, DropInv DEF Next
<1> QED
  BY <1>1, <1>2

LEMMA AlwaysInv == Spec => []Inv
  BY InitInv, StepInv, PTL DEF Spec

\* The engine keeps to its types, for any tasks (run() of workflow.rs).
THEOREM TypeCorrect == Spec => []TypeOK
<1>1. Inv => TypeOK
  BY DEF Inv
<1> QED
  BY <1>1, AlwaysInv, PTL

\* No node begins before all its dependencies have succeeded, in whatever order
\* the hash map yields the ready ones.
THEOREM UpstreamFirstHolds == Spec => []UpstreamFirst
<1>1. Inv => UpstreamFirst
  BY DEF Inv, OrderInv
<1> QED
  BY <1>1, AlwaysInv, PTL

\* "Deadlock or circular dependency" is reported of a cycle or a missing task
\* only, and success only of a graph without either.
THEOREM VerdictExactHolds == Spec => []VerdictExact
<1>1. Inv => VerdictExact
  BY DEF Inv, OrderInv
<1> QED
  BY <1>1, AlwaysInv, PTL

\* Nodes execute one at a time, and a batch collected before others ran is still
\* pending and still ready when its turn comes.
OneAtATime ==
    /\ phase \notin Returned => Cardinality(With("Running")) = IF phase = "execute" THEN 1 ELSE 0
    /\ phase \in {"round", "execute"} => batch \subseteq Ready

\* A run works on one node at a time, on what is still true of it (DagEngine::run).
THEOREM OneAtATimeHolds == Spec => []OneAtATime
<1>1. Inv => OneAtATime
  BY FS_EmptySet, FS_Singleton DEF Inv, TypeOK, ProgressInv, Going, OneAtATime
<1> QED
  BY <1>1, AlwaysInv, PTL

\* A node begins only out of "Pending", to which it does not return before the run ends.
THEOREM ExecutesOnceHolds == Spec => ExecutesOnce
<1>1. Inv /\ [Next]_vars =>
        [\A t \in TaskId :
            /\ status'[t] = "Running" =>
                  status[t] = "Pending" \/ (phase = "execute" /\ status[t] = "Running")
            /\ phase \notin Returned /\ Begun(t) => Begun(t)']_vars
  <2> SUFFICES ASSUME Inv, Next, NEW t \in TaskId
               PROVE  /\ status'[t] = "Running" =>
                            status[t] = "Pending" \/ (phase = "execute" /\ status[t] = "Running")
                      /\ phase \notin Returned /\ Begun(t) => Begun(t)'
    OBVIOUS
  <2> USE DEF Inv, TypeOK, Begun
  <2>1. phase = "round" => status[t] # "Running"
    BY DEF ProgressInv, With
  <2>2. \A u \in batch : phase = "round" => status[u] = "Pending"
    BY DEF ProgressInv, Going, Ready, With
  <2>3. CASE StartRun \/ \E u \in TaskId : \E deps \in SUBSET Dependency : RegisterTask(u, deps)
    BY <2>3 DEF StartRun, RegisterTask
  <2>4. CASE AllDone \/ NoneReady \/ CollectReady \/ DropRun
    BY <2>1, <2>4 DEF AllDone, NoneReady, CollectReady, DropRun
  <2>5. CASE \E u \in TaskId : ExecuteTask(u)
    BY <2>1, <2>2, <2>5 DEF ExecuteTask
  <2>6. CASE \E u \in TaskId : NodeCompleted(u) \/ NodeFailed(u)
    BY <2>6 DEF NodeCompleted, NodeFailed
  <2> QED
    BY <2>3, <2>4, <2>5, <2>6 DEF Next
<1> QED
  BY <1>1, AlwaysInv, PTL DEF Spec, ExecutesOnce

-----------------------------------------------------------------------------
(* The refinement: a step of the engine is a step of GraphRun or shows nothing of it. *)

Upstream == [t \in tasks |-> dependencies[t]]
Executing == IF Going THEN With("Running") ELSE {}
Verdict == IF Going THEN "running" ELSE phase

\* What is left to do in GraphRun is what is pending here, and equally runnable.
LEMMA SamePending ==
  ASSUME Inv, phase = "round"
  PROVE  /\ Executing = {}
         /\ Graph!Pending = With("Pending")
         /\ \A t \in With("Pending") : Graph!Runnable(t) <=> DepsDone(t)
<1>1. With("Pending") = tasks \ With("Success")
  BY DEF Inv, ProgressInv, Going, With
<1>2. Graph!Pending = tasks \ With("Success")
  BY DEF Graph!Pending
<1>3. ASSUME NEW t \in With("Pending") PROVE Graph!Runnable(t) <=> DepsDone(t)
  <2>1. t \in tasks
    BY DEF With
  <2> QED
    BY <2>1 DEF Graph!Runnable, DepsDone, Succeeded, With
<1> QED
  BY <1>1, <1>2, <1>3 DEF Inv, ProgressInv, Going, Executing

\* DagEngine::run, register_task: every step, a dropped run included, is one of GraphRun.
THEOREM ImplementsGraphRunHolds == Spec => ImplementsGraphRun
<1>1. Init => Graph!Init
  BY DEF Init, Graph!Init, With, Going
<1>2. ASSUME Inv, Inv', [Next]_vars PROVE [Graph!Next]_(Graph!vars)
  <2> USE DEF Upstream, Executing, Verdict
  <2>1. CASE UNCHANGED vars
    BY <2>1 DEF vars, Graph!vars, Going, With
  <2>2. ASSUME NEW t \in TaskId, NEW deps \in SUBSET Dependency, RegisterTask(t, deps)
        PROVE  Graph!Register(t, deps)
    <3>1. tasks' = tasks \cup {t} /\ dependencies' = [dependencies EXCEPT ![t] = deps]
      BY <2>2 DEF RegisterTask
    <3>2. Upstream' = [m \in DOMAIN Upstream \cup {t} |-> IF m = t THEN deps ELSE Upstream[m]]
      BY <1>2, <3>1 DEF Inv, TypeOK
    <3>3. ~Going /\ ~Going' /\ phase' = "idle" /\ phase # "running"
      BY <2>2 DEF RegisterTask, Going, Returned
    <3>4. With("Success")' = {}
      BY <2>2, <1>2 DEF RegisterTask, With, Inv, TypeOK
    <3> QED
      BY <3>2, <3>3, <3>4 DEF Graph!Register
  <2>3. CASE StartRun
    <3>1. ~Going /\ Going' /\ phase # "running" /\ Upstream' = Upstream
      BY <2>3 DEF StartRun, Going, Returned
    <3>2. With("Success")' = {} /\ With("Running")' = {}
      BY <2>3, <1>2 DEF StartRun, With, Inv, TypeOK
    <3> QED
      BY <3>1, <3>2 DEF Graph!Start, Graph!Next
  <2>4. CASE AllDone \/ NoneReady
    <3>1. phase = "round" /\ Going /\ ~Going'
      BY <2>4 DEF AllDone, NoneReady, Going
    <3>2. phase' = IF With("Pending") = {} THEN "ok" ELSE "deadlock"
      BY <2>4 DEF AllDone, NoneReady
    <3>3. \A t \in With("Pending") : ~DepsDone(t)
      BY <2>4 DEF AllDone, NoneReady, Ready
    <3>4. Upstream' = Upstream /\ With("Success")' = With("Success")
      BY <2>4 DEF AllDone, NoneReady, With
    <3> QED
      BY <1>2, <3>1, <3>2, <3>3, <3>4, SamePending DEF Graph!Finish, Graph!Next
  <2>5. CASE CollectReady
    BY <2>5 DEF CollectReady, Graph!vars, Going, With
  <2>6. ASSUME NEW t \in TaskId, ExecuteTask(t) PROVE Graph!Execute(t)
    <3>1. phase = "round" /\ Going /\ Going' /\ Upstream' = Upstream
      BY <2>6 DEF ExecuteTask, Going
    <3>2. t \in With("Pending") /\ DepsDone(t)
      BY <2>6, <1>2, <3>1 DEF ExecuteTask, Inv, ProgressInv, Ready
    <3>3. \A u \in TaskId : status'[u] = IF u = t THEN "Running" ELSE status[u]
      BY <2>6, <1>2 DEF ExecuteTask, Inv, TypeOK
    <3>4. tasks' = tasks /\ tasks \subseteq TaskId /\ With("Running") = {}
      BY <2>6, <1>2, <3>1 DEF ExecuteTask, Inv, TypeOK, ProgressInv
    <3>5. With("Success")' = With("Success") /\ With("Running")' = {t}
      BY <3>2, <3>3, <3>4 DEF With
    <3> QED
      BY <1>2, <3>1, <3>2, <3>5, SamePending DEF Graph!Execute
  <2>7. ASSUME NEW t \in TaskId, NodeCompleted(t) PROVE Graph!Succeed
    <3>1. Going /\ Going' /\ Upstream' = Upstream /\ tasks' = tasks
      BY <2>7 DEF NodeCompleted, Going
    <3>2. \A u \in TaskId : status'[u] = IF u = t THEN "Success" ELSE status[u]
      BY <2>7, <1>2 DEF NodeCompleted, Inv, TypeOK
    <3>3. tasks \subseteq TaskId /\ With("Running") = {t}
      BY <2>7, <1>2 DEF NodeCompleted, Inv, TypeOK, ProgressInv, With
    <3>4. With("Success")' = With("Success") \cup {t} /\ With("Running")' = {}
      BY <3>1, <3>2, <3>3 DEF With
    <3> QED
      BY <3>1, <3>3, <3>4 DEF Graph!Succeed
  <2>8. ASSUME DropRun \/ \E t \in TaskId : NodeFailed(t) PROVE Graph!Break
    <3>1. Going /\ ~Going' /\ Upstream' = Upstream /\ phase' \in {"failed", "dropped"}
      BY <2>8 DEF NodeFailed, DropRun, Going
    <3>2. With("Running") # {}
      BY <2>8, <1>2 DEF NodeFailed, DropRun, Inv, ProgressInv
    <3>3. With("Success")' = With("Success")
      BY <2>8, <1>2 DEF NodeFailed, DropRun, With, Inv, TypeOK
    <3> QED
      BY <3>1, <3>2, <3>3 DEF Graph!Break
  <2> QED
    BY <1>2, <2>1, <2>2, <2>3, <2>4, <2>5, <2>6, <2>7, <2>8 DEF Next, Graph!Next
<1> QED
  BY <1>1, <1>2, AlwaysInv, PTL DEF Spec, ImplementsGraphRun, Graph!Spec
=============================================================================
