---------------------------- MODULE QueryExecutor ----------------------------
(***************************************************************************)
(* How a query over a project's events is run and what reaches the caller  *)
(* (query/query.go, query/schema.go): the catalog is read table by table,  *)
(* the SQL is refused or handed to ClickHouse under the project's filter,  *)
(* and the rows go to one of two sinks.  The REST endpoint streams them:   *)
(* once the first byte is out its status cannot change.  The playground    *)
(* and MCP collect them and show all of them or a message.                 *)
(*                                                                         *)
(* A run is the work of one request; AnalysisAccess starts it when the     *)
(* request has passed its checks and turns its end into an answer.         *)
(***************************************************************************)
EXTENDS Integers, FiniteSets

CONSTANTS
    Request,
    None,
    RowLimit,  \* playgroundMaxRows and mcpMaxRows, 1000 in the code
    MaxFound   \* bound: rows a query finds

ASSUME QueryAssumption == RowLimit \in Nat \ {0} /\ MaxFound \in Nat /\ None \notin 0..MaxFound

VARIABLE run   \* per request

\* The public surface: views over the tables that hold the events of everyone.
Tables ==
    [events |-> {"events_raw_v1", "identity_links_v1"},
     persons |-> {"persons_state", "identity_links_v1"},
     sessions |-> {"sessions_state", "identity_links_v1"}]

\* The names additional_table_filters confines to the caller's project.
FilterNames ==
    {"events_raw_v1", "identity_links_v1", "persons_state", "sessions_state",
     "identity_links_mv", "persons_mv", "sessions_mv"}

\* Tables of the database with no project's rows in them: what migrate keeps.
Shared == {"schema_migrations"}

\* What the readonly user may SELECT from: the whole database, so that a table
\* of a later migration belongs here too.  Of system.tables it sees no row.
Readable ==
    DOMAIN Tables \cup (UNION {Tables[v] : v \in DOMAIN Tables})
        \cup {"identity_links_mv", "persons_mv", "sessions_mv"} \cup Shared

\* ClickHouse filters a name, and the tables a view reads; a shared table has
\* nothing to filter.
Scoped(name) ==
    \/ name \in FilterNames \cup Shared
    \/ name \in DOMAIN Tables /\ Tables[name] \subseteq FilterNames

Sink == {"json", "collect"}
Sql == {"empty", "settings", "plain"}

\* described: tables of the catalog read so far.  foreign: rows of other
\* projects are among those found.  wrote: bytes of the answer are out.  rows:
\* rows the sink took.  tail: the row count the sink closed with.
RunType ==
    [sink : Sink, sql : Sql \cup {None}, phase : {"describe", "submit", "rows", "ended", "failed"},
     described : 0..Cardinality(DOMAIN Tables), found : 0..MaxFound, foreign : BOOLEAN,
     wrote : BOOLEAN, rows : 0..MaxFound, tail : 0..MaxFound \cup {None}]

\* sql is None when only the catalog is asked for; the playground reads the
\* catalog and then runs the query.
NewRun(sink, sql, catalog) ==
    [sink |-> sink, sql |-> sql, phase |-> IF catalog THEN "describe" ELSE "submit",
     described |-> 0, found |-> 0, foreign |-> FALSE, wrote |-> FALSE, rows |-> 0, tail |-> None]

Ended(q) == run[q] # None /\ run[q].phase \in {"ended", "failed"}

Fail(q) == run' = [run EXCEPT ![q].phase = "failed"]

\* DESCRIBE TABLE, one table after the other: the whole catalog or an error.
Describe(q) ==
    /\ run[q].phase = "describe"
    /\ \/ Fail(q)
       \/ LET last == run[q].described + 1 = Cardinality(DOMAIN Tables) IN
          run' = [run EXCEPT ![q].described = @ + 1,
                             ![q].phase = IF ~last THEN @ ELSE IF run[q].sql = None THEN "ended" ELSE "submit"]

\* An empty query and one with SETTINGS never reach ClickHouse.
Reject(q) ==
    /\ run[q].phase = "submit"
    /\ run[q].sql # "plain"
    /\ Fail(q)

\* QueryContext, then the sink's Begin: the stream has its first bytes.
Submit(q) ==
    /\ run[q].phase = "submit"
    /\ run[q].sql = "plain"
    /\ \/ Fail(q)
       \/ \E name \in Readable, found \in 0..MaxFound :
             run' = [run EXCEPT ![q].phase = "rows", ![q].found = found,
                                ![q].foreign = found > 0 /\ ~Scoped(name),
                                ![q].wrote = run[q].sink = "json"]

\* The next row; a collecting sink takes RowLimit of them.
Row(q) ==
    /\ run[q].phase = "rows"
    /\ run[q].rows < run[q].found
    /\ IF run[q].sink = "collect" /\ run[q].rows >= RowLimit
       THEN Fail(q)
       ELSE run' = [run EXCEPT ![q].rows = @ + 1]

\* Mutant: rows.Err is not asked, so a broken result looks like a short one.
BreakUnnoticed(q) ==
    /\ run[q].phase = "rows"
    /\ run' = [run EXCEPT ![q].phase = "ended", ![q].tail = run[q].rows]

\* ClickHouse gives up (time, memory, max_result_rows, connection), a row does
\* not scan, or the client is gone and a write fails.
Break(q) ==
    /\ run[q].phase = "rows"
    /\ Fail(q)

End(q) ==
    /\ run[q].phase = "rows"
    /\ run[q].rows = run[q].found
    /\ run' = [run EXCEPT ![q].phase = "ended", ![q].tail = run[q].rows]

Advance(q) ==
    /\ run[q] # None
    /\ Describe(q) \/ Reject(q) \/ Submit(q) \/ Row(q) \/ Break(q) \/ End(q)
=============================================================================
