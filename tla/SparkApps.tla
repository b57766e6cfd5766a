----------------------------- MODULE SparkApps -----------------------------
(***************************************************************************)
(* Spark sessions: admission (src/src/policy.rs), the table of             *)
(* applications of the Py4J gateway (src/src/py4j_bridge.rs), and the      *)
(* handlers that change either.  Application ids are taken to be unique:   *)
(* an application bears the name of the request that starts it.            *)
(***************************************************************************)
EXTENDS PortalRequests

CONSTANT Executors      \* the executor counts that clients ask for

ASSUME AppsAssumption == Executors \subseteq Nat

VARIABLES
    apps,           \* the application table
    policies        \* who applied the stored policies; nothing consults them

appVars == <<apps, policies>>

AppsInit ==
    /\ apps = [r \in {} |-> <<>>]
    /\ policies = <<"default">>

CoreLimit == 32

Violations(job) ==
    {v \in {"privileged", "root", "cores"} :
        \/ v = "privileged" /\ job.privileged
        \/ v = "root" /\ job.run_as_user = 0
        \/ v = "cores" /\ job.cpu_cores > CoreLimit}

\* What the bootstrap handler submits to admission on behalf of its client.
Job(executors) == [privileged |-> FALSE, run_as_user |-> 1001, cpu_cores |-> executors]

Bootstrap(r) ==
    /\ Goto(r, "idle", "executors")
    /\ \E n \in Executors :
          /\ Violations(Job(n)) = {}
          /\ apps' = [a \in DOMAIN apps \cup {r} |->
                        IF a = r THEN [status |-> "RUNNING", executors |-> n] ELSE apps[a]]
    /\ UNCHANGED policies

RejectJob(r) ==
    /\ \E n \in Executors : Violations(Job(n)) # {}
    /\ Goto(r, "idle", "refused")
    /\ UNCHANGED appVars

\* complete_app; completing twice is not an error, and nothing removes an application.
Terminate(r) ==
    /\ Goto(r, "idle", "answered")
    /\ \E a \in DOMAIN apps : apps' = [apps EXCEPT ![a].status = "COMPLETED"]
    /\ UNCHANGED policies

AppNotFound(r) ==
    /\ Goto(r, "idle", "refused")
    /\ UNCHANGED appVars

ApplyPolicy(r) ==
    /\ Goto(r, "idle", "answered")
    /\ policies' = Append(policies, r)
    /\ UNCHANGED apps
=============================================================================
