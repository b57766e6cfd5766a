---------------------------- MODULE GrafanaTsdb ----------------------------
(***************************************************************************)
(* The time series and annotations of src/src/grafana.rs.  A series keeps  *)
(* its newest MAX_HISTORY_POINTS points; annotations are kept for ever.    *)
(* The time stamp is taken under the write lock, in the step that appends. *)
(* `log' is a history variable: every point that a series was ever given.  *)
(***************************************************************************)
EXTENDS Integers, Sequences

CONSTANTS
    MaxPoints,      \* MAX_HISTORY_POINTS
    SeedPoints      \* points each series starts with

ASSUME TsdbAssumption ==
    /\ MaxPoints \in Nat \ {0} /\ SeedPoints \in Nat
    /\ SeedPoints =< MaxPoints

VARIABLES
    series,         \* key -> points, oldest first
    annotations,    \* oldest first
    log,
    now             \* wall clock, in periods of the sampler

tsdbVars == <<series, annotations, log, now>>

\* The two keys that anybody records under besides the seeds and the storage series.
Key == {"query_latency_ms", "active_spark_executors"}

\* One point per period, the newest at the start of the program.
Seeded == [i \in 1..SeedPoints |-> [by |-> "seed", ts |-> i - SeedPoints]]

TsdbInit ==
    /\ series = [k \in Key |-> Seeded]
    /\ log = [k \in Key |-> Seeded]
    /\ annotations = <<[by |-> "seed", ts |-> -1]>>
    /\ now = 0

PushKeepsAll(points, p) == Append(points, p)                       \* mutated form

\* pop_front if the deque is full, then push_back.
Push(points, p) ==
    IF Len(points) >= MaxPoints THEN Append(Tail(points), p) ELSE Append(points, p)

Record(key, by) ==
    LET p == [by |-> by, ts |-> now]
    IN  /\ series' = [series EXCEPT ![key] = Push(@, p)]
        /\ log' = [log EXCEPT ![key] = Append(@, p)]
        /\ UNCHANGED <<annotations, now>>

AddAnnotation(by) ==
    /\ annotations' = Append(annotations, [by |-> by, ts |-> now])
    /\ UNCHANGED <<series, log, now>>

-----------------------------------------------------------------------------
InOrder(points) == \A i, j \in 1..Len(points) : i < j => points[i].ts =< points[j].ts

\* However many handlers and the sampler record at the same time, a series shows the
\* newest points it was given, all of them up to the limit, in order of time; and the
\* annotations, which have no limit, are in order of time too.
SeriesRecent ==
    /\ \A k \in Key :
          LET n == Len(series[k])  m == Len(log[k])
          IN  /\ n = (IF m < MaxPoints THEN m ELSE MaxPoints)
              /\ \A i \in 1..n : series[k][i] = log[k][m - n + i]
              /\ InOrder(series[k])
    /\ InOrder(annotations)
=============================================================================
