--------------------------- MODULE PortalRequests ---------------------------
(***************************************************************************)
(* What the handlers of portal.rs have in common.  axum runs each request  *)
(* as a task and drops the task, at whatever await it has come to, when    *)
(* the client goes away: `pc' then stays where it was.                     *)
(***************************************************************************)
EXTENDS Integers, Sequences, FiniteSets

CONSTANT Request

ASSUME RequestAssumption == IsFiniteSet(Request)

VARIABLES
    pc,         \* the await at which each request is, or how it was answered
    dropped     \* requests whose client went away before the answer

taskVars == <<pc, dropped>>

Answers == {"answered", "refused"}

TasksInit ==
    /\ pc = [r \in Request |-> "idle"]
    /\ dropped = {}

At(r, place) == pc[r] = place /\ r \notin dropped

Goto(r, from, to) ==
    /\ At(r, from)
    /\ pc' = [pc EXCEPT ![r] = to]
    /\ UNCHANGED dropped
=============================================================================
