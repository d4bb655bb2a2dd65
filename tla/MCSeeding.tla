----------------------------- MODULE MCSeeding -----------------------------
EXTENDS ToolServer, TLC

MCServices == <<"payments", "auth">>
MCTopics   == <<"backup", "failover">>

\* Incidents a seed may draw: recent ones still open, and older ones, severe or not.
Opened(severity, service, age, open, cause, customer) ==
    [severity |-> severity, service |-> service, age |-> age, open |-> open,
     minutes |-> 30 * age, cause |-> cause, customer |-> customer]

MCIncidents ==
    {<<Opened("P1", "payments", 2, TRUE,  "database", 1),
       Opened("P1", "auth",     30, FALSE, "network", 0),
       Opened("P1", "payments", 4, FALSE, "network", 1)>>,
     <<Opened("P1", "payments", 30, TRUE, "network", 0),
       Opened("P2", "payments", 8, FALSE, "network", 1),
       Opened("P3", "payments", 2, FALSE, "database", 1)>>,
     <<Opened("P3", "auth", 2, FALSE, "database", 0),
       Opened("P2", "auth", 2, TRUE, "database", 0),
       Opened("P2", "auth", 2, TRUE, "database", 1)>>}

MCDrawn == [customers : {<<[plan |-> "Business", age |-> 200]>>},
            incidents : MCIncidents,
            tickets   : {<<[priority |-> "P2", status |-> "resolved", age |-> 2, minutes |-> 120,
                            customer |-> 1]>>},
            shuffled  : {<<2, 1, 3>>}]

ASSUME MCDrawn \subseteq Draws({2, 4, 8, 30, 200}, {60, 120, 240, 900})

Symmetry == Permutations(Seeds)

-----------------------------------------------------------------------------
None   == <<>>      \* no column, no filter
Recent == {Reference - 20 * Day}
Range4 == <<"severity", "service", "root_cause_category", "severity">>

Counting(group_by, filters, start, end) ==
    [tool |-> "aggregate", table |-> "incidents", group_by |-> group_by, agg_fn |-> "count",
     column |-> "", filters |-> filters, start |-> start, end |-> end]

\* Counts of incidents, some with more columns than are accepted or with a bad time.
MCCounts == {Counting(g, f, t[1], t[2]) :
                g \in {None, <<"severity">>, <<"root_cause_category">>,
                       <<"severity", "service", "root_cause_category">>, Range4,
                       <<"region">>},
                f \in {None, [service |-> "payments"], [severity |-> "P2", service |-> "auth"],
                       [severity |-> NotText]},
                t \in {<<{}, {}>>, <<Recent, {}>>, <<{}, Recent>>, <<{Unparsable}, {}>>}}

\* Aggregates of columns of all tables, and of one that is none of them.
MCAggregates ==
    {[tool |-> "aggregate", table |-> t, group_by |-> None, agg_fn |-> fn, column |-> col,
      filters |-> f, start |-> start, end |-> {}] :
        t \in TableNames \cup {"chunks"}, fn \in {"count", "avg", "stddev"},
        col \in {"value", "created_at"},
        f \in {None, [id |-> "1"]}, start \in {{}, Recent}}

MCMetrics == {[tool |-> "query_metrics", metric |-> m, filters |-> f, start |-> t, end |-> {}] :
                 m \in {"p50_resolution_minutes", "sla_attainment"},
                 f \in {None, [severity |-> "P1"], [severity |-> "P2", service |-> "auth"]},
                 t \in {{}, Recent, {Unparsable}}}

MCCalls == MCCounts \cup MCAggregates \cup MCMetrics
           \cup {[tool |-> "get_timeseries", granularity |-> g, start |-> t, end |-> {}] :
                    g \in {"day", "hour"}, t \in {{}, Recent, {Unparsable}}}
           \cup {[tool |-> "get_record", table |-> t, start |-> {}, end |-> {}] :
                    t \in TableNames \cup {"chunks"}}
=============================================================================
