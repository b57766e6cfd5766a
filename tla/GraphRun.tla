------------------------------ MODULE GraphRun ------------------------------
(***************************************************************************)
(* What a task graph engine promises to whoever starts a run: nodes are    *)
(* executed one at a time, each at most once and after all that is         *)
(* upstream of it, and the verdict says how far the graph can be executed. *)
(* There are no rounds and no statuses here, and any node whose turn has   *)
(* come may be next.                                                       *)
(***************************************************************************)
CONSTANTS Node, Dependency

VARIABLES
    upstream,   \* registered node -> what it depends on
    done,       \* the nodes that have succeeded in this run
    executing,  \* the node that executes, if any
    verdict     \* "running", or how the last run ended

vars == <<upstream, done, executing, verdict>>

Pending == DOMAIN upstream \ done
Runnable(n) == upstream[n] \subseteq done

Init == upstream = [n \in {} |-> {}] /\ done = {} /\ executing = {} /\ verdict = "idle"

Register(n, deps) ==
    /\ verdict # "running"
    /\ upstream' = [m \in DOMAIN upstream \cup {n} |-> IF m = n THEN deps ELSE upstream[m]]
    /\ done' = {} /\ executing' = {} /\ verdict' = "idle"

Start ==
    /\ verdict # "running"
    /\ done' = {} /\ executing' = {} /\ verdict' = "running"
    /\ UNCHANGED upstream

Execute(n) ==
    /\ verdict = "running" /\ executing = {}
    /\ n \in Pending /\ Runnable(n)
    /\ executing' = {n}
    /\ UNCHANGED <<upstream, done, verdict>>

Succeed ==
    /\ verdict = "running" /\ executing # {}
    /\ done' = done \cup executing
    /\ executing' = {}
    /\ UNCHANGED <<upstream, verdict>>

\* The node fails, or the run is dropped while it executes.
Break ==
    /\ verdict = "running" /\ executing # {}
    /\ executing' = {}
    /\ verdict' \in {"failed", "dropped"}
    /\ UNCHANGED <<upstream, done>>

Finish ==
    /\ verdict = "running" /\ executing = {}
    /\ verdict' = IF Pending = {} THEN "ok" ELSE "deadlock"
    /\ \A n \in Pending : ~Runnable(n)
    /\ UNCHANGED <<upstream, done, executing>>

Next ==
    \/ \E n \in Node : (\E deps \in SUBSET Dependency : Register(n, deps)) \/ Execute(n)
    \/ Start \/ Succeed \/ Break \/ Finish

Spec == Init /\ [][Next]_vars
=============================================================================
