------------------------------ MODULE SeedData ------------------------------
(***************************************************************************)
(* The synthetic dataset of app/seed/generator.py as a function of what    *)
(* its random generator draws, the corpus that app/ingestion/loaders.py    *)
(* reads back, and the gold set scripts/build_gold.py makes of it.         *)
(*                                                                         *)
(* A draw gives, for every customer, incident and ticket, the choices made *)
(* for it, and the order in which candidates for postmortems are shuffled. *)
(* Times are minutes, ids are tuples such as <<"INC", 7>> for INC-0007.    *)
(* Prose is left out: a text is known by the row or topic it is about.     *)
(***************************************************************************)
EXTENDS Places, Sequences, Functions

CONSTANTS NCustomers, NIncidents, NTickets, NPostmortems, NRunbooks, NDays,
          Services,     \* SERVICES, a sequence
          RootCauses,   \* the root causes of incidents
          Topics,       \* the topics of runbooks, a sequence
          Reference     \* REFERENCE

ASSUME SizesAreCounts ==
    /\ {NCustomers, NRunbooks} \subseteq Nat \ {0}
    /\ {NIncidents, NTickets, NPostmortems, NDays} \subseteq Nat
    /\ Services # <<>> /\ Topics # <<>> /\ Reference \in Nat
    /\ Services \in Seq(Range(Services))

Day    == 1440
Null   == -1      \* a timestamp that is NULL
Nobody == <<>>    \* a customer_id that is NULL

Plans       == {"Enterprise", "Business", "Starter"}
PlanToTier  == [Enterprise |-> "enterprise", Business |-> "business", Starter |-> "standard"]
SlaTiers    == <<"enterprise", "business", "standard">>
Severities  == {"P1", "P2", "P3", "P4"}
Statuses    == {"open", "pending", "resolved", "closed"}
MetricNames == {"uptime_pct", "latency_p95_ms", "error_rate", "incident_count"}

\* What may be drawn; an age is in days, customer 0 is none.
Draws(ages, minutes) ==
    [customers : [1..NCustomers -> [plan : Plans, age : ages]],
     incidents : [1..NIncidents -> [severity : Severities, service : Range(Services), age : ages,
                                    open : BOOLEAN, minutes : minutes, cause : RootCauses,
                                    customer : 0..NCustomers]],
     tickets   : [1..NTickets -> [priority : Severities, status : Statuses, age : ages,
                                  minutes : minutes, customer : 0..NCustomers]],
     shuffled  : {f \in [1..NIncidents -> 1..NIncidents] : IsInjective(f)}]

-----------------------------------------------------------------------------
Slas ==
    LET minutes == [enterprise |-> 240, business |-> 480, standard |-> 1440]
        uptime  == [enterprise |-> 9995, business |-> 9990, standard |-> 9950]
    IN  [i \in DOMAIN SlaTiers |->
            [id |-> <<"SLA", SlaTiers[i]>>, tier |-> SlaTiers[i],
             target_resolution_minutes |-> minutes[SlaTiers[i]],
             uptime_target_pct |-> uptime[SlaTiers[i]]]]

Customers(draw) ==
    [i \in 1..NCustomers |->
        LET chosen == draw.customers[i]
        IN  [id |-> <<"CUST", i>>, plan |-> chosen.plan,
             sla_id |-> (CHOOSE s \in Range(Slas) : s.tier = PlanToTier[chosen.plan]).id,
             created_at |-> Reference - chosen.age * Day]]

CustomerId(n) == IF n = 0 THEN Nobody ELSE <<"CUST", n>>

\* Only an incident of the last four days may still be open; a resolution takes at
\* least 15 minutes.
Incidents(draw) ==
    [i \in 1..NIncidents |->
        LET chosen == draw.incidents[i]
            opened == Reference - chosen.age * Day
        IN  [id |-> <<"INC", i>>, severity |-> chosen.severity, service |-> chosen.service,
             opened_at |-> opened,
             resolved_at |-> IF chosen.age < 4 /\ chosen.open THEN Null
                             ELSE opened + IF chosen.minutes > 15 THEN chosen.minutes ELSE 15,
             root_cause_category |-> chosen.cause, customer_id |-> CustomerId(chosen.customer)]]

Tickets(draw) ==
    [i \in 1..NTickets |->
        LET chosen  == draw.tickets[i]
            created == Reference - chosen.age * Day
        IN  [id |-> <<"TCK", i>>, priority |-> chosen.priority, status |-> chosen.status,
             created_at |-> created,
             resolved_at |-> IF chosen.status \in {"resolved", "closed"}
                             THEN created + chosen.minutes ELSE Null,
             customer_id |-> CustomerId(chosen.customer)]]

\* One value per day, service and metric, the days from midnight of the first; which
\* values are drawn does not matter, here they grow.
Metrics ==
    [k \in (0..NDays - 1) \X Range(Services) \X MetricNames |->
        [date |-> Reference - (Reference % Day) - (365 - k[1]) * Day,
         service |-> k[2], metric_name |-> k[3], value |-> k[1]]]

Prefix(s, n) == SubSeq(s, 1, IF n < Len(s) THEN n ELSE Len(s))

PostmortemDoc(incident) ==
    [doc_id |-> incident.id, source_type |-> "postmortem",
     dir |-> "postmortems", stem |-> incident.id, text |-> incident]

\* The first of the shuffled severe incidents that are resolved.
Postmortems(draw) ==
    LET incidents == Incidents(draw)
        wanted    == {p \in DOMAIN draw.shuffled :
                         LET i == draw.shuffled[p]
                         IN  incidents[i].severity \in {"P1", "P2"} /\ incidents[i].resolved_at # Null}
        chosen    == Prefix(Keeping(draw.shuffled, wanted), NPostmortems)
    IN  [n \in DOMAIN chosen |-> PostmortemDoc(incidents[chosen[n]])]

\* The file of a runbook is named for its id and its topic.
Runbooks ==
    [i \in 1..NRunbooks |->
        LET topic   == Topics[((i - 1) % Len(Topics)) + 1]
            service == Services[((i - 1) % Len(Services)) + 1]
        IN  [doc_id |-> <<"RB", i>>, source_type |-> "runbook",
             dir |-> "runbooks", stem |-> <<"RB", i, topic>>,
             text |-> [topic |-> topic, service |-> service]]]

Dataset(draw) ==
    [slas |-> Slas, customers |-> Customers(draw), incidents |-> Incidents(draw),
     tickets |-> Tickets(draw), metrics_daily |-> Metrics,
     postmortems |-> Postmortems(draw), runbooks |-> Runbooks]

-----------------------------------------------------------------------------
\* What the loaders make of a line of tickets.jsonl, and of a Markdown file, whose
\* doc_id is the stem of its name; a text may be cut short.
TicketDoc(ticket) ==
    [doc_id |-> ticket.id, source_type |-> "ticket", text |-> ticket, whole |-> TRUE]

MarkdownDoc(file) ==
    [doc_id |-> file.stem, source_type |-> file.source_type,
     text |-> file.text, whole |-> file.whole]

\* The items of the gold set, by the ids of their relevant documents: half of them
\* about postmortems, a third about runbooks, the rest about tickets; the shuffling of
\* each kind is left out.
Gold(dataset, n) ==
    LET about(docs, k) == {d.doc_id : d \in Range(Prefix(docs, k))}
        questions  == about(dataset.postmortems, n \div 2) \cup about(dataset.runbooks, n \div 3)
        left       == n - Cardinality(questions)
    IN  questions \cup {t.id : t \in Range(Prefix(dataset.tickets, left))}
=============================================================================
