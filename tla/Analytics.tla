----------------------------- MODULE Analytics ------------------------------
(***************************************************************************)
(* The tools of the analytics server: the identifier whitelist of          *)
(* app/security/whitelist.py, the validation and the queries of            *)
(* app/mcp_server/analytics.py, and which queries the columns of           *)
(* app/db/models.py can answer.                                            *)
(*                                                                         *)
(* A call is a record of its arguments.  An optional argument is a set of  *)
(* at most one value; filters are a function from columns to values.       *)
(* `db` gives the rows of each table.                                      *)
(***************************************************************************)
EXTENDS Integers, Sequences, FiniteSetsExt, Functions

CONSTANTS Cap   \* settings.mcp_max_result_rows

ASSUME CapIsPositive == Cap \in Nat \ {0}

Unresolved  == -1   \* resolved_at of an incident that is open
Unparsable  == -2   \* a start or end that is not an ISO timestamp
NotText     == "not a text"   \* a number, a boolean, a list or a dict, as a filter value
MaxGroupBy  == 3
MaxFilters  == 8
AllowedAgg         == {"count", "sum", "avg", "min", "max"}
AllowedGranularity == {"day", "week", "month"}
AllowedMetrics     == {"avg_resolution_minutes", "p50_resolution_minutes",
                       "incident_count", "unresolved_count"}

\* ALLOWED: what may be aggregated, grouped by, filtered on and bounded in time.
Allowed ==
    [incidents     |-> [numeric_columns |-> {},
                        group_by        |-> {"severity", "service", "root_cause_category"},
                        filter_columns  |-> {"severity", "service", "root_cause_category",
                                             "customer_id"},
                        time_column     |-> {"opened_at"}],
     tickets       |-> [numeric_columns |-> {},
                        group_by        |-> {"priority", "status"},
                        filter_columns  |-> {"priority", "status", "customer_id"},
                        time_column     |-> {"created_at"}],
     metrics_daily |-> [numeric_columns |-> {"value"},
                        group_by        |-> {"service", "metric_name"},
                        filter_columns  |-> {"service", "metric_name"},
                        time_column     |-> {"date"}],
     customers     |-> [numeric_columns |-> {},
                        group_by        |-> {"plan", "region"},
                        filter_columns  |-> {"plan", "region", "sla_id"},
                        time_column     |-> {"created_at"}],
     slas          |-> [numeric_columns |-> {"target_resolution_minutes", "uptime_target_pct"},
                        group_by        |-> {"tier"},
                        filter_columns  |-> {"tier"},
                        time_column     |-> {}]]

\* The columns of the tables, by what their values compare with.
Columns ==
    LET texts(names) == [n \in names |-> "text"]
        with(f, g)   == [n \in DOMAIN f \cup DOMAIN g |-> IF n \in DOMAIN f THEN f[n] ELSE g[n]]
    IN  [slas          |-> with(texts({"id", "name", "tier"}),
                                [target_resolution_minutes |-> "number",
                                 uptime_target_pct         |-> "number"]),
         customers     |-> with(texts({"id", "name", "plan", "region", "sla_id"}),
                                [created_at |-> "time"]),
         incidents     |-> with(texts({"id", "severity", "service", "root_cause_category",
                                       "customer_id"}),
                                [opened_at |-> "time", resolved_at |-> "time"]),
         tickets       |-> with(texts({"id", "title", "body", "customer_id", "priority",
                                       "status"}),
                                [created_at |-> "time", resolved_at |-> "time"]),
         metrics_daily |-> with(texts({"service", "metric_name"}),
                                [id |-> "number", date |-> "time", value |-> "number"])]

-----------------------------------------------------------------------------
\* Mutant: slas are bounded in time like the other tables.
TimeAcceptedAnyTable(table, start, end) == Unparsable \notin start \cup end

\* _time_clause and _parse_dt.
TimeAccepted(table, start, end) ==
    start \cup end # {} => /\ Allowed[table].time_column # {}
                           /\ Unparsable \notin start \cup end

\* The validators of the whitelist.
GroupByAllowed(table, columns) == Range(columns) \subseteq Allowed[table].group_by

FilterKeysAllowed(table, keys) == keys \subseteq Allowed[table].filter_columns

NumericColumnAllowed(table, column) == column \in Allowed[table].numeric_columns

\* run_aggregate reaches its query.
AggregateAccepted(c) ==
    /\ Len(c.group_by) <= MaxGroupBy
    /\ Cardinality(DOMAIN c.filters) <= MaxFilters
    /\ c.table \in DOMAIN Allowed
    /\ c.agg_fn \in AllowedAgg
    /\ GroupByAllowed(c.table, c.group_by)
    /\ FilterKeysAllowed(c.table, DOMAIN c.filters)
    /\ c.agg_fn # "count" => NumericColumnAllowed(c.table, c.column)
    /\ TimeAccepted(c.table, c.start, c.end)

\* run_query_metric, run_timeseries and get_record reach theirs.
MetricAccepted(c) == c.metric \in AllowedMetrics /\ TimeAccepted("incidents", c.start, c.end)

SeriesAccepted(c) ==
    c.granularity \in AllowedGranularity /\ TimeAccepted("metrics_daily", c.start, c.end)

RecordAccepted(c) == c.table \in DOMAIN Allowed

Accepted(c) == CASE c.tool = "aggregate"      -> AggregateAccepted(c)
                 [] c.tool = "query_metrics"  -> MetricAccepted(c)
                 [] c.tool = "get_timeseries" -> SeriesAccepted(c)
                 [] c.tool = "get_record"     -> RecordAccepted(c)

\* The database takes the query of an accepted call: the columns it names exist, sums
\* and averages are of numbers, times are compared with times, and columns of texts with
\* texts.  The tool declares its filters dict[str, Any], so that their values may be of
\* any type; those of the other tools are declared as strings.
AggregateRuns(c) ==
    LET columns == Columns[c.table]
    IN  /\ Range(c.group_by) \subseteq DOMAIN columns
        /\ \A f \in DOMAIN c.filters : /\ f \in DOMAIN columns /\ columns[f] = "text"
                                       /\ c.filters[f] # NotText
        /\ c.agg_fn # "count" => c.column \in DOMAIN columns
        /\ c.agg_fn \in {"sum", "avg"} => columns[c.column] = "number"
        /\ c.start \cup c.end # {} =>
              /\ Allowed[c.table].time_column # {}
              /\ \A t \in Allowed[c.table].time_column : columns[t] = "time"

RecordRuns(c) == Columns[c.table]["id"] = "text"

Runs(c) == CASE c.tool = "aggregate"  -> AggregateRuns(c)
             [] c.tool = "get_record" -> RecordRuns(c)
             [] OTHER                 -> TRUE

-----------------------------------------------------------------------------
Selected(db, table, filters, start, end) ==
    {r \in db[table] :
        /\ \A f \in DOMAIN filters : r[f] = filters[f]
        /\ \A col \in Allowed[table].time_column : /\ \A t \in start : r[col] >= t
                                                   /\ \A t \in end : r[col] <= t}

\* A figure is a fraction; that of no rows is NULL.
NoFigure == <<0, 0>>

Larger(a, b) == a[1] * b[2] > b[1] * a[2]

SumOver(col, rows) == SumFunction([r \in rows |-> r[col]])

Figure(agg_fn, col, rows) ==
    IF agg_fn = "count" THEN <<Cardinality(rows), 1>>
    ELSE IF rows = {} THEN NoFigure
    ELSE CASE agg_fn = "sum" -> <<SumOver(col, rows), 1>>
           [] agg_fn = "avg" -> <<SumOver(col, rows), Cardinality(rows)>>
           [] agg_fn = "min" -> <<Min({r[col] : r \in rows}), 1>>
           [] agg_fn = "max" -> <<Max({r[col] : r \in rows}), 1>>

\* GROUP BY; without it there is one group, also of no rows.
Groups(group_by, rows) ==
    LET key(r) == [col \in Range(group_by) |-> r[col]]
    IN  IF group_by = <<>> THEN {rows}
        ELSE {{r \in rows : key(r) = k} : k \in {key(r) : r \in rows}}

\* Mutant: the smallest groups are kept.
AggregateAscending(db, c) ==
    LET groups == Groups(c.group_by, Selected(db, c.table, c.filters, c.start, c.end))
        figure == [g \in groups |-> Figure(c.agg_fn, c.column, g)]
    IN  {kept \in SUBSET groups :
            /\ Cardinality(kept) = Min({Cardinality(groups), Cap})
            /\ \A g \in kept, h \in groups \ kept : ~Larger(figure[g], figure[h])}

\* run_aggregate, ORDER BY agg_value DESC LIMIT cap: the sets of groups it may return,
\* each group with the rows it stands for.
Aggregate(db, c) ==
    LET groups == Groups(c.group_by, Selected(db, c.table, c.filters, c.start, c.end))
        figure == [g \in groups |-> Figure(c.agg_fn, c.column, g)]
    IN  {kept \in SUBSET groups :
            /\ Cardinality(kept) = Min({Cardinality(groups), Cap})
            /\ \A g \in kept, h \in groups \ kept : ~Larger(figure[h], figure[g])}

Minutes(r) == r.resolved_at - r.opened_at

Average(rows) == <<SumFunction([r \in rows |-> Minutes(r)]), Cardinality(rows)>>

\* percentile_cont(0.5): halfway between the two middle rows.
Median(rows) ==
    LET nth(n) == CHOOSE v \in {Minutes(r) : r \in rows} :
                     /\ Cardinality({r \in rows : Minutes(r) < v}) < n
                     /\ Cardinality({r \in rows : Minutes(r) <= v}) >= n
    IN  <<nth((Cardinality(rows) + 1) \div 2) + nth((Cardinality(rows) + 2) \div 2), 2>>

\* run_query_metric.
QueryMetric(db, c) ==
    LET rows     == Selected(db, "incidents", c.filters, c.start, c.end)
        resolved == {r \in rows : r.resolved_at # Unresolved}
    IN  CASE c.metric = "incident_count"   -> <<Cardinality(rows), 1>>
          [] c.metric = "unresolved_count" -> <<Cardinality(rows \ resolved), 1>>
          [] c.metric = "avg_resolution_minutes" ->
                IF resolved = {} THEN NoFigure ELSE Average(resolved)
          [] c.metric = "p50_resolution_minutes" ->
                IF resolved = {} THEN NoFigure ELSE Median(resolved)
=============================================================================
