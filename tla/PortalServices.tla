--------------------------- MODULE PortalServices ---------------------------
(***************************************************************************)
(* The services of the portal that share its time series: SQL queries,     *)
(* Spark sessions and logins as concurrent requests, beside the background *)
(* task that records a sample of two series in every period.  A handler    *)
(* first changes its own component and records or annotates afterwards,    *)
(* one await at a time.                                                    *)
(***************************************************************************)
EXTENDS SqlEngine, SparkApps, Login, GrafanaTsdb

CONSTANTS
    MaxClock,       \* BOUND: last value of the clock
    MaxSamples      \* BOUND: points recorded by the background task

ASSUME ServicesAssumption ==
    /\ MaxClock \in Nat /\ MaxSamples \in Nat
    /\ Request \cap {"seed", "sampler"} = {}

VARIABLE samples        \* how many points the background task has recorded

vars == <<taskVars, sqlVars, appVars, loginVars, tsdbVars, samples>>

Init ==
    /\ TasksInit
    /\ SqlInit /\ AppsInit /\ LoginInit /\ TsdbInit
    /\ samples = 0

-----------------------------------------------------------------------------
SqlStep(r) ==
    /\ \/ StartQuery(r) \/ Plan(r) \/ PlanFails(r) \/ Collect(r) \/ CollectFails(r)
    /\ UNCHANGED <<appVars, loginVars, tsdbVars, samples>>

RecordLatency(r) ==
    /\ Goto(r, "latency", "answered")
    /\ Record("query_latency_ms", r)
    /\ UNCHANGED <<sqlVars, appVars, loginVars, samples>>

AppStep(r) ==
    /\ Bootstrap(r) \/ RejectJob(r) \/ Terminate(r) \/ AppNotFound(r) \/ ApplyPolicy(r)
    /\ UNCHANGED <<sqlVars, loginVars, tsdbVars, samples>>

AnnounceFirst(r) ==                                                \* mutated form
    /\ Goto(r, "executors", "announce")
    /\ AddAnnotation(r)
    /\ UNCHANGED <<sqlVars, appVars, loginVars, samples>>
RecordExecutors(r) ==
    /\ Goto(r, "executors", "announce")
    /\ Record("active_spark_executors", r)
    /\ UNCHANGED <<sqlVars, appVars, loginVars, samples>>

Announce(r) ==
    /\ Goto(r, "announce", "answered")
    /\ AddAnnotation(r)
    /\ UNCHANGED <<sqlVars, appVars, loginVars, samples>>

LoginStep(r) ==
    /\ StartLogin(r) \/ Search(r) \/ LiveFails(r) \/ BindUser(r) \/ MockAuthenticate(r)
    /\ UNCHANGED <<sqlVars, appVars, tsdbVars, samples>>

\* The client goes away: the handler's future is dropped where it is.
Drop(r) ==
    /\ pc[r] \notin Answers \cup {"idle"} /\ r \notin dropped
    /\ dropped' = dropped \cup {r}
    /\ Leave(r)
    /\ UNCHANGED <<pc, statement, registered, queries_total, appVars, loginVars, tsdbVars, samples>>

\* The first tick is immediate; a late task catches up on the periods it missed.
Sample ==
    /\ samples < MaxSamples
    /\ samples \div 2 =< now
    /\ samples' = samples + 1
    /\ Record(IF samples % 2 = 0 THEN "query_latency_ms" ELSE "active_spark_executors", "sampler")
    /\ UNCHANGED <<taskVars, sqlVars, appVars, loginVars>>

DirectoryStep ==
    /\ ChangeDirectory
    /\ UNCHANGED <<taskVars, sqlVars, appVars, tsdbVars, samples>>

Tick ==
    /\ now < MaxClock
    /\ now' = now + 1
    /\ UNCHANGED <<taskVars, sqlVars, appVars, loginVars, series, annotations, log, samples>>

Serve(r) ==
    \/ SqlStep(r) \/ RecordLatency(r)
    \/ AppStep(r) \/ RecordExecutors(r) \/ Announce(r)
    \/ LoginStep(r)

Next ==
    \/ \E r \in Request : Serve(r) \/ Drop(r)
    \/ Sample \/ DirectoryStep \/ Tick

\* The runtime polls every task that can go on, and DataFusion comes to an end; clients
\* owe nothing, nor does the live directory, whose exchanges have no time limit.
Owed(r) == pc[r] \in {"context", "collect", "latency", "executors", "announce"} /\ Serve(r)

Spec == Init /\ [][Next]_vars /\ \A r \in Request : WF_vars(Owed(r))

-----------------------------------------------------------------------------
Place == {"idle", "context", "collect", "latency", "executors", "announce", "search", "bind", "mock"}
            \cup Answers

Recorder == Request \cup {"seed", "sampler"}
Point == [by : Recorder, ts : Int]

SqlTypeOK ==
    /\ statement \in [Request -> Statement \cup {"none"}]
    /\ registered \in BOOLEAN
    /\ queries_total \in [success : Nat, error : Nat]

\* The line for the context: each query that waits for it or has it, once.
LineOK ==
    /\ ctxQueue \in Seq(Request)
    /\ \A i, j \in 1..Len(ctxQueue) : ctxQueue[i] = ctxQueue[j] => i = j
    /\ \A r \in Request : Places(r) # {} <=> At(r, "context") \/ At(r, "collect")
    /\ \A r \in Request : At(r, "collect") => Holds(r)

AppsTypeOK ==
    /\ DOMAIN apps \subseteq Request
    /\ apps \in [DOMAIN apps -> [status : {"RUNNING", "COMPLETED"}, executors : 0..CoreLimit]]
    /\ policies \in Seq(Request \cup {"default"})

LoginTypeOK ==
    /\ live \in [User -> LiveEntry \cup {NoEntry}]
    /\ changes \in 0..MaxChanges
    /\ credentials \in [Request -> [user : User, password : Password]]
    /\ found \in [Request -> SUBSET Group]
    /\ shown \in [Request -> SUBSET (LiveEntry \cup {NoEntry})]
    /\ attempts \in [success : Nat, failure : Nat]

TsdbTypeOK ==
    /\ series \in [Key -> Seq(Point)]
    /\ log \in [Key -> Seq(Point)]
    /\ annotations \in Seq(Point)
    /\ now \in Nat
    /\ samples \in Nat

\* Every variable has the type of the Rust value it stands for, and the mutex of the
\* context knows just the queries that still need it.
TypeOK ==
    /\ pc \in [Request -> Place]
    /\ dropped \subseteq Request
    /\ SqlTypeOK /\ LineOK /\ AppsTypeOK /\ LoginTypeOK /\ TsdbTypeOK

Announced == {annotations[i].by : i \in 1..Len(annotations)} \ {"seed"}
Charted == {p.by : p \in {log["active_spark_executors"][i] : i \in 1..Len(log["active_spark_executors"])}}

\* What is announced and charted of a Spark session is true of the application table, in
\* that order: no session is announced before it is charted, nor charted before it is in
\* the table.  The table may hold one that was neither: its client went away, or will yet
\* be answered.  An answered bootstrap has done all three.
AppsExplained ==
    /\ Announced \subseteq Charted
    /\ Charted \ {"seed", "sampler"} \subseteq DOMAIN apps
    /\ DOMAIN apps \ Charted = {r \in Request : pc[r] = "executors"}
    /\ (DOMAIN apps \cap Charted) \ Announced = {r \in Request : pc[r] = "announce"}

\* A query or session that has begun is answered, or its client goes away: no query that
\* fails, waits or is dropped keeps the context from the next in line.
RequestEnds ==
    \A r \in Request :
        pc[r] \in {"context", "collect", "latency", "executors", "announce"} ~>
            pc[r] \in Answers \/ r \in dropped
=============================================================================
