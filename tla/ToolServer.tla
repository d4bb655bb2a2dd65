----------------------------- MODULE ToolServer -----------------------------
(***************************************************************************)
(* The analytics server (app/mcp_server/server.py) over the tables that    *)
(* the seeding script loads: each tool validates its arguments and makes   *)
(* one query in a session of its own.  A query waits for a TRUNCATE that   *)
(* is not committed yet, and otherwise sees what is committed, so that     *)
(* calls made while the script runs are answered as before or after it.    *)
(***************************************************************************)
EXTENDS Seeding, Analytics

CONSTANTS Calls   \* calls of the tools

\* The parameters of run_aggregate: a list of columns, a dict of filters.
ASSUME CallsAreCalls ==
    \A c \in Calls :
       /\ c.tool \in {"aggregate", "query_metrics", "get_timeseries", "get_record"}
       /\ c.tool = "aggregate" => /\ c.group_by \in Seq(Range(c.group_by))
                                  /\ IsFiniteSet(DOMAIN c.filters)

VARIABLES reply   \* the last call and its outcome, if nothing has happened since

serverVars == <<seedVars, reply>>

-----------------------------------------------------------------------------
ServerInit == Init /\ reply = {}

\* A ToolError, an error of the database, or rows.
Outcome(c) == IF ~Accepted(c) THEN "refused" ELSE IF ~Runs(c) THEN "failed" ELSE "answered"

\* A call changes nothing, so that one call at a time stands for any number of them.
CallTool(c) == /\ pc = "idle" /\ reply = {}
               /\ reply' = {[call |-> c, outcome |-> Outcome(c)]}
               /\ UNCHANGED seedVars

ScriptSteps == SeedNext /\ reply' = {}

ServerNext == ScriptSteps \/ \E c \in Calls : CallTool(c)

ServerSpec == ServerInit /\ [][ServerNext]_serverVars

-----------------------------------------------------------------------------
\* A call put together from what list_schema, and the docstring of query_metrics, offer,
\* with each column once.  Neither gives the types of filter values.
Offered(c) ==
    /\ c.tool \in {"aggregate", "get_record"} => c.table \in DOMAIN Allowed
    /\ c.tool = "aggregate" =>
          /\ IsInjective(c.group_by) /\ Range(c.group_by) \subseteq Allowed[c.table].group_by
          /\ DOMAIN c.filters \subseteq Allowed[c.table].filter_columns
          /\ c.agg_fn \in AllowedAgg
          /\ c.agg_fn # "count" => c.column \in Allowed[c.table].numeric_columns
          /\ c.start \cup c.end # {} => Allowed[c.table].time_column # {}
    /\ c.tool = "query_metrics" => c.metric \in AllowedMetrics
    /\ c.tool = "get_timeseries" => c.granularity \in AllowedGranularity
    /\ c.tool # "get_record" => Unparsable \notin c.start \cup c.end

\* What passes validation and fails in the database all the same: metrics_daily has no id
\* a string compares with, and an aggregate binds its filter values as they come.
Unchecked(c) == \/ c.tool = "get_record" /\ c.table = "metrics_daily"
                \/ c.tool = "aggregate" /\ NotText \in Range(c.filters)

\* The client that keeps to list_schema is served: no such call is refused, by the
\* limits on columns and filters neither, and validation lets nothing else fail in the
\* database than the two kinds of calls above, which list_schema does not warn of.
OffersAreServed ==
    \A r \in reply :
       /\ Offered(r.call) => r.outcome = IF Unchecked(r.call) THEN "failed" ELSE "answered"
       /\ r.outcome = "failed" => Unchecked(r.call)

\* The metric of the incidents that a call is about, with these filters.
Metric(name, filters, c) == QueryMetric(tables, [metric |-> name, filters |-> filters,
                                                 start |-> c.start, end |-> c.end])

\* Its filters, and a value for the column it groups by.
Narrowed(c, v) ==
    [f \in {Head(c.group_by)} \cup DOMAIN c.filters |->
        IF f = Head(c.group_by) THEN v ELSE c.filters[f]]

CountsAgree(c) ==
    \A answer \in Aggregate(tables, c) :
       LET counted == SumFunction([g \in answer |-> Cardinality(g)])
           total   == Metric("incident_count", c.filters, c)[1]
       IN  /\ counted = total \/ (counted < total /\ Cardinality(answer) = Cap)
           /\ Len(c.group_by) = 1 /\ Head(c.group_by) \notin DOMAIN c.filters =>
                 \A i \in tables.incidents :
                    Metric("incident_count", Narrowed(c, i[Head(c.group_by)]), c)[1]
                       <= Max({0} \cup {Cardinality(g) : g \in answer})

TimesAgree(c) ==
    LET times == {Minutes(i) : i \in {j \in Selected(tables, "incidents", c.filters, c.start, c.end) :
                                        j.resolved_at # Unresolved}}
        figure(name) == Metric(name, c.filters, c)
    IN  \A name \in {"avg_resolution_minutes", "p50_resolution_minutes"} :
           IF figure("unresolved_count") = figure("incident_count") THEN figure(name) = NoFigure
           ELSE /\ figure(name)[1] >= figure(name)[2] * Min(times)
                /\ figure(name)[1] <= figure(name)[2] * Max(times)

\* Tools that answer one question agree.  Incidents counted by any columns add up to
\* incident_count, unless the cap cut groups off; and no value of a column is more
\* frequent, counted on its own, than the first row says.  There is a resolution time
\* unless all incidents are unresolved, and both the average and the median lie between
\* the shortest and the longest.
FiguresAgree ==
    \A r \in {x \in reply : x.outcome = "answered"} :
       /\ r.call.tool = "aggregate" /\ r.call.table = "incidents" => CountsAgree(r.call)
       /\ r.call.tool = "query_metrics" => TimesAgree(r.call)
=============================================================================
