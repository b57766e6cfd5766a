----------------------------- MODULE SqlEngine -----------------------------
(***************************************************************************)
(* src/src/sql_engine.rs: one DataFusion context behind a tokio Mutex that *)
(* a query keeps from planning to the end of its execution.  The mutex is  *)
(* handed over in order of arrival; dropping a waiter or the holder takes  *)
(* it out of the line.  A statement that changes the context is executed   *)
(* by the call that plans it.                                              *)
(***************************************************************************)
EXTENDS PortalRequests, SequencesExt

VARIABLES
    statement,      \* what each request asks for
    ctxQueue,       \* the holder of the context, then those who wait for it
    registered,     \* is cluster_events a table of the context
    queries_total   \* the two labels of datacore_queries_total

sqlVars == <<statement, ctxQueue, registered, queries_total>>

Statement == {"select", "drop", "create"}

SqlInit ==
    /\ statement = [r \in Request |-> "none"]
    /\ ctxQueue = <<>>
    /\ registered = TRUE
    /\ queries_total = [success |-> 0, error |-> 0]

Holds(r) == ctxQueue # <<>> /\ Head(ctxQueue) = r

Count(label) == queries_total' = [queries_total EXCEPT ![label] = @ + 1]

StartQuery(r) ==
    /\ Goto(r, "idle", "context")
    /\ \E s \in Statement : statement' = [statement EXCEPT ![r] = s]
    /\ ctxQueue' = Append(ctxQueue, r)
    /\ UNCHANGED <<registered, queries_total>>

\* ctx.sql: a definition takes effect here, before the query is executed or counted.
Plan(r) ==
    /\ Holds(r)
    /\ Goto(r, "context", "collect")
    /\ registered = (statement[r] # "create")
    /\ registered' = (statement[r] # "drop")
    /\ UNCHANGED <<statement, ctxQueue, queries_total>>

\* Of a table that is not there, or already is, or a mistake in anything else.
PlanFails(r) ==
    /\ Holds(r)
    /\ Goto(r, "context", "refused")
    /\ Count("error")
    /\ ctxQueue' = Tail(ctxQueue)
    /\ UNCHANGED <<statement, registered>>

Collected(r, to, label) ==
    /\ Holds(r)
    /\ Goto(r, "collect", to)
    /\ Count(label)
    /\ ctxQueue' = Tail(ctxQueue)
    /\ UNCHANGED <<statement, registered>>

CollectUncounted(r) ==                                             \* mutated form
    /\ Holds(r)
    /\ Goto(r, "collect", "latency")
    /\ ctxQueue' = Tail(ctxQueue)
    /\ UNCHANGED <<statement, registered, queries_total>>
Collect(r) == Collected(r, "latency", "success")
CollectFails(r) == Collected(r, "refused", "error")

Places(r) == {i \in 1..Len(ctxQueue) : ctxQueue[i] = r}

LeaveKeepsGuard(r) ==                                              \* mutated form
    \/ Places(r) \ {1} = {} /\ UNCHANGED ctxQueue
    \/ \E i \in Places(r) \ {1} : ctxQueue' = RemoveAt(ctxQueue, i)
\* The guard, or the place in the line, goes with the future that owns it.
Leave(r) ==
    \/ Places(r) = {} /\ UNCHANGED ctxQueue
    \/ \E i \in Places(r) : ctxQueue' = RemoveAt(ctxQueue, i)

-----------------------------------------------------------------------------
Query == {r \in Request : statement[r] # "none"}

\* Each query that ran to its end is counted once, under the label of its end, also when
\* its client has gone before the answer; one dropped earlier is not counted at all.  It
\* may have changed the context all the same: if cluster_events is gone, some client's
\* statement dropped it, and that may be one which was never counted or answered.
QueriesExplained ==
    /\ queries_total.success = Cardinality({r \in Query : pc[r] \in {"latency", "answered"}})
    /\ queries_total.error = Cardinality({r \in Query : pc[r] = "refused"})
    /\ ~registered =>
          \E r \in Query : statement[r] = "drop" /\ pc[r] # "context"
=============================================================================
