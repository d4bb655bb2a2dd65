---------------------------- MODULE Seeding_proof ----------------------------
(***************************************************************************)
(* Whatever is drawn and however often the script is run or killed, the    *)
(* structured tables are one dataset or empty: the rows of a generated     *)
(* dataset satisfy the constraints of the migration when they are inserted *)
(* into empty tables in the order of load_database(), and a second load    *)
(* without TRUNCATE stops at its first row.  The corpus is that of one     *)
(* seed, and the tools of the server agree on the figures of the tables.   *)
(***************************************************************************)
EXTENDS ToolServer, CitationRegistry_proof, SequenceTheorems

\* A draw of the generator.
IsDraw(draw) ==
    /\ draw.customers \in [1..NCustomers -> [plan : Plans, age : Nat]]
    /\ draw.incidents \in [1..NIncidents -> [severity : Severities, service : Range(Services),
                                             age : Nat, open : BOOLEAN, minutes : Nat,
                                             cause : RootCauses, customer : 0..NCustomers]]
    /\ draw.tickets \in [1..NTickets -> [priority : Severities, status : Statuses, age : Nat,
                                         minutes : Nat, customer : 0..NCustomers]]
    /\ draw.shuffled \in [1..NIncidents -> 1..NIncidents]
    /\ \A p, q \in 1..NIncidents : draw.shuffled[p] = draw.shuffled[q] => p = q

\* No two rows have the same key.
KeysDiffer(t, rows) ==
    \A k, l \in DOMAIN rows : KeyOf(t, rows[k]) = KeyOf(t, rows[l]) => k = l

-----------------------------------------------------------------------------
LEMMA DrawsAreDraws ==
    ASSUME NEW draw \in Drawn
    PROVE  IsDraw(draw)
  <1>1. draw \in Draws(Nat, Nat)
    BY DrawnIsDrawn
  <1>2. draw.shuffled \in {f \in [1..NIncidents -> 1..NIncidents] : IsInjective(f)}
    BY <1>1 DEF Draws
  <1>3. \A p, q \in 1..NIncidents : draw.shuffled[p] = draw.shuffled[q] => p = q
    BY <1>2 DEF IsInjective
  <1> QED
    BY <1>1, <1>2, <1>3 DEF Draws, IsDraw

\* The tiers of the SLAs are those the customers' plans refer to.
LEMMA SlaRows ==
    /\ DOMAIN Slas = {1, 2, 3}
    /\ \A i \in DOMAIN Slas : /\ Slas[i].id = <<"SLA", SlaTiers[i]>>
                              /\ Slas[i].tier = SlaTiers[i]
                              /\ Slas[i].tier \in Range(SlaTiers)
    /\ \A plan \in Plans : \E s \in Range(Slas) : s.tier = PlanToTier[plan]
  <1>1. DOMAIN Slas = {1, 2, 3}
    BY DEF Slas, SlaTiers
  <1>2. \A i \in DOMAIN Slas : /\ Slas[i].id = <<"SLA", SlaTiers[i]>>
                               /\ Slas[i].tier = SlaTiers[i]
    BY DEF Slas
  <1>3. \A i \in DOMAIN Slas : SlaTiers[i] \in Range(SlaTiers)
    BY DEF Slas, Range
  <1>4. \A plan \in Plans : \E i \in {1, 2, 3} : SlaTiers[i] = PlanToTier[plan]
    BY DEF Plans, PlanToTier, SlaTiers
  <1>5. \A plan \in Plans : \E s \in Range(Slas) : s.tier = PlanToTier[plan]
    BY <1>1, <1>2, <1>4 DEF Range
  <1> QED
    BY <1>1, <1>2, <1>3, <1>5

-----------------------------------------------------------------------------
\* Keys are distinct: ids carry the number of their row, and a metric is drawn once for
\* every day, service and name.
LEMMA KeysAreDistinct ==
    ASSUME NEW draw, NEW t \in TableNames
    PROVE  KeysDiffer(t, Dataset(draw)[t])
  <1>1. CASE t = "slas"
    <2>1. SlaTiers[1] # SlaTiers[2] /\ SlaTiers[2] # SlaTiers[3] /\ SlaTiers[1] # SlaTiers[3]
      BY DEF SlaTiers
    <2>2. \A k, l \in DOMAIN Slas : Slas[k].id = Slas[l].id => k = l
      BY <2>1, SlaRows
    <2>3. Dataset(draw)[t] = Slas
      BY <1>1 DEF Dataset
    <2> QED
      BY <1>1, <2>2, <2>3 DEF KeysDiffer, KeyOf
  <1>2. CASE t = "customers"
    <2>1. Dataset(draw)[t] = Customers(draw)
      BY <1>2 DEF Dataset
    <2>2. \A k \in DOMAIN Customers(draw) : Customers(draw)[k].id = <<"CUST", k>>
      BY DEF Customers
    <2> QED
      BY <1>2, <2>1, <2>2 DEF KeysDiffer, KeyOf
  <1>3. CASE t = "incidents"
    <2>1. Dataset(draw)[t] = Incidents(draw)
      BY <1>3 DEF Dataset
    <2>2. \A k \in DOMAIN Incidents(draw) : Incidents(draw)[k].id = <<"INC", k>>
      BY DEF Incidents
    <2> QED
      BY <1>3, <2>1, <2>2 DEF KeysDiffer, KeyOf
  <1>4. CASE t = "tickets"
    <2>1. Dataset(draw)[t] = Tickets(draw)
      BY <1>4 DEF Dataset
    <2>2. \A k \in DOMAIN Tickets(draw) : Tickets(draw)[k].id = <<"TCK", k>>
      BY DEF Tickets
    <2> QED
      BY <1>4, <2>1, <2>2 DEF KeysDiffer, KeyOf
  <1>5. CASE t = "metrics_daily"
    <2>1. Dataset(draw)[t] = Metrics
      BY <1>5 DEF Dataset
    <2> DEFINE first == Reference - (Reference % Day)
    <2>2. first \in Int
      BY SizesAreCounts DEF Day
    <2>3. DOMAIN Metrics = (0..NDays - 1) \X Range(Services) \X MetricNames
      BY DEF Metrics
    <2>4. \A k \in DOMAIN Metrics : /\ Metrics[k].date = first - (365 - k[1]) * Day
                                    /\ Metrics[k].service = k[2]
                                    /\ Metrics[k].metric_name = k[3]
      BY DEF Metrics
    <2> HIDE DEF first
    <2>5. \A k \in DOMAIN Metrics : k = <<k[1], k[2], k[3]>> /\ k[1] \in Int
      BY <2>3, SizesAreCounts
    <2>6. ASSUME NEW k \in DOMAIN Metrics, NEW l \in DOMAIN Metrics,
                 KeyOf(t, Metrics[k]) = KeyOf(t, Metrics[l])
          PROVE  k = l
      <3>1. k[2] = l[2] /\ k[3] = l[3] /\ Metrics[k].date = Metrics[l].date
        BY <1>5, <2>4, <2>6 DEF KeyOf
      <3>2. first - (365 - k[1]) * 1440 = first - (365 - l[1]) * 1440
        BY <2>4, <3>1 DEF Day
      <3>3. k[1] = l[1]
        BY <2>2, <2>5, <3>2
      <3> QED
        BY <2>5, <3>1, <3>3
    <2> QED
      BY <2>1, <2>6 DEF KeysDiffer
  <1> QED
    BY <1>1, <1>2, <1>3, <1>4, <1>5 DEF TableNames

\* The constraints of the columns hold.
LEMMA RowsPassChecks ==
    ASSUME NEW draw, IsDraw(draw), NEW t \in TableNames,
           NEW k \in DOMAIN Dataset(draw)[t]
    PROVE  ChecksHold(t, Dataset(draw)[t][k])
  <1>1. CASE t = "slas"
    BY <1>1, SlaRows DEF Dataset, ChecksHold
  <1>2. CASE t = "incidents"
    <2>1. k \in 1..NIncidents /\ Dataset(draw)[t][k].severity = draw.incidents[k].severity
      BY <1>2 DEF Dataset, Incidents
    <2>2. draw.incidents[k].severity \in Severities
      BY <2>1 DEF IsDraw
    <2> QED
      BY <1>2, <2>1, <2>2 DEF ChecksHold
  <1>3. CASE t = "tickets"
    <2>1. /\ k \in 1..NTickets
          /\ Dataset(draw)[t][k].priority = draw.tickets[k].priority
          /\ Dataset(draw)[t][k].status = draw.tickets[k].status
      BY <1>3 DEF Dataset, Tickets
    <2>2. draw.tickets[k].priority \in Severities /\ draw.tickets[k].status \in Statuses
      BY <2>1 DEF IsDraw
    <2> QED
      BY <1>3, <2>1, <2>2 DEF ChecksHold
  <1>4. CASE t \notin {"slas", "incidents", "tickets"}
    BY <1>4 DEF ChecksHold
  <1> QED
    BY <1>1, <1>2, <1>3, <1>4

\* A row refers to a row of the table named, or to none.
LEMMA RowsFindTargets ==
    ASSUME NEW draw, IsDraw(draw), NEW t \in TableNames,
           NEW k \in DOMAIN Dataset(draw)[t], NEW ref \in ReferencesOf(t)
    PROVE  \/ Dataset(draw)[t][k][ref[1]] = Nobody
           \/ \E target \in Range(Dataset(draw)[ref[2]]) :
                 target.id = Dataset(draw)[t][k][ref[1]]
  <1>1. CASE t = "customers"
    <2>1. ref = <<"sla_id", "slas">>
      BY <1>1 DEF ReferencesOf
    <2>2. k \in 1..NCustomers /\ draw.customers[k].plan \in Plans
      BY <1>1 DEF Dataset, Customers, IsDraw
    <2> DEFINE tier == PlanToTier[draw.customers[k].plan]
               chosen == CHOOSE s \in Range(Slas) : s.tier = tier
    <2>3. chosen \in Range(Slas)
      BY <2>2, SlaRows
    <2>4. Dataset(draw)[t][k]["sla_id"] = chosen.id
      BY <1>1, <2>2 DEF Dataset, Customers
    <2>5. Dataset(draw)["slas"] = Slas
      BY DEF Dataset
    <2> QED
      BY <2>1, <2>3, <2>4, <2>5
  <1>2. CASE t \in {"incidents", "tickets"}
    <2>1. ref = <<"customer_id", "customers">>
      BY <1>2 DEF ReferencesOf
    <2>2. PICK n \in 0..NCustomers : Dataset(draw)[t][k]["customer_id"] = CustomerId(n)
      <3>1. CASE t = "incidents"
        BY <3>1 DEF Dataset, Incidents, IsDraw
      <3>2. CASE t = "tickets"
        BY <3>2 DEF Dataset, Tickets, IsDraw
      <3> QED
        BY <1>2, <3>1, <3>2
    <2>3. CASE n = 0
      BY <2>1, <2>2, <2>3 DEF CustomerId
    <2>4. CASE n # 0
      <3>1. n \in DOMAIN Customers(draw)
        BY <2>4, SizesAreCounts DEF Customers
      <3>2. Customers(draw)[n] \in Range(Customers(draw)) /\ Customers(draw)[n].id = <<"CUST", n>>
        BY <3>1 DEF Range, Customers
      <3>3. Dataset(draw)["customers"] = Customers(draw)
        BY DEF Dataset
      <3> QED
        BY <2>1, <2>2, <2>4, <3>2, <3>3 DEF CustomerId
    <2> QED
      BY <2>3, <2>4
  <1>3. CASE t \notin {"customers", "incidents", "tickets"}
    BY <1>3 DEF ReferencesOf
  <1> QED
    BY <1>1, <1>2, <1>3

\* Postgres takes the rows of a generated table, once the tables they refer to are
\* loaded and this one is empty.
LEMMA RowsAreInsertable ==
    ASSUME NEW draw, IsDraw(draw), NEW t \in TableNames, NEW db, db[t] = {},
           \A ref \in ReferencesOf(t) : db[ref[2]] = Range(Dataset(draw)[ref[2]])
    PROVE  Insertable(db, t, Dataset(draw)[t])
  <1> DEFINE rows == Dataset(draw)[t]
  <1>1. \A k, l \in DOMAIN rows : KeyOf(t, rows[k]) = KeyOf(t, rows[l]) => k = l
    BY KeysAreDistinct DEF KeysDiffer
  <1>2. \A k \in DOMAIN rows : ChecksHold(t, rows[k])
    BY RowsPassChecks
  <1>3. \A k \in DOMAIN rows : \A ref \in ReferencesOf(t) :
           \/ rows[k][ref[1]] = Nobody
           \/ \E target \in db[ref[2]] : target.id = rows[k][ref[1]]
    BY RowsFindTargets
  <1> HIDE DEF rows
  <1>4. Insertable(db, t, rows)
    BY <1>1, <1>2, <1>3 DEF Insertable
  <1> QED
    BY <1>4 DEF rows

-----------------------------------------------------------------------------
LEMMA PositionsAreFinite ==
    ASSUME NEW n \in Nat
    PROVE  IsFiniteSet(1..n)
  BY FS_Interval

\* A product of three finite sets is finite.
LEMMA TriplesAreFinite ==
    ASSUME NEW A, NEW B, NEW C, IsFiniteSet(A), IsFiniteSet(B), IsFiniteSet(C)
    PROVE  IsFiniteSet(A \X B \X C)
  <1> DEFINE pairs == (A \X B) \X C
             f == [p \in pairs |-> <<p[1][1], p[1][2], p[2]>>]
  <1>1. IsFiniteSet(A \X B)
    BY FS_Product
  <1>2. IsFiniteSet(pairs)
    BY <1>1, FS_Product
  <1>3. f \in [pairs -> A \X B \X C]
    OBVIOUS
  <1>4. ASSUME NEW x \in A \X B \X C PROVE \E p \in pairs : f[p] = x
    <2>1. <<<<x[1], x[2]>>, x[3]>> \in pairs /\ x = <<x[1], x[2], x[3]>>
      OBVIOUS
    <2>2. f[<<<<x[1], x[2]>>, x[3]>>] = <<x[1], x[2], x[3]>>
      BY <2>1
    <2> QED
      BY <2>1, <2>2
  <1>5. f \in Surjection(pairs, A \X B \X C)
    BY <1>3, <1>4 DEF Surjection
  <1> HIDE DEF pairs, f
  <1> QED
    BY <1>2, <1>5, FS_Surjection

\* The rows of a table are a function on a finite set.
LEMMA TablesAreFinite ==
    ASSUME NEW draw, NEW t \in TableNames
    PROVE  /\ Dataset(draw)[t] \in [DOMAIN Dataset(draw)[t] -> Range(Dataset(draw)[t])]
           /\ IsFiniteSet(DOMAIN Dataset(draw)[t])
  <1>1. CASE t = "slas"
    <2>1. Dataset(draw)[t] = Slas /\ DOMAIN Slas = 1..3
      BY <1>1, SlaRows DEF Dataset
    <2>2. Slas \in [DOMAIN Slas -> Range(Slas)]
      BY DEF Slas, Range
    <2>3. IsFiniteSet(1..3)
      BY PositionsAreFinite
    <2> QED
      BY <2>1, <2>2, <2>3
  <1>2. CASE t = "customers"
    <2>1. Dataset(draw)[t] = Customers(draw) /\ DOMAIN Customers(draw) = 1..NCustomers
      BY <1>2 DEF Dataset, Customers
    <2>2. Customers(draw) \in [DOMAIN Customers(draw) -> Range(Customers(draw))]
      BY DEF Customers, Range
    <2>3. IsFiniteSet(1..NCustomers)
      BY FS_Interval, SizesAreCounts
    <2> QED
      BY <2>1, <2>2, <2>3
  <1>3. CASE t = "incidents"
    <2>1. Dataset(draw)[t] = Incidents(draw) /\ DOMAIN Incidents(draw) = 1..NIncidents
      BY <1>3 DEF Dataset, Incidents
    <2>2. Incidents(draw) \in [DOMAIN Incidents(draw) -> Range(Incidents(draw))]
      BY DEF Incidents, Range
    <2>3. IsFiniteSet(1..NIncidents)
      BY FS_Interval, SizesAreCounts
    <2> QED
      BY <2>1, <2>2, <2>3
  <1>4. CASE t = "tickets"
    <2>1. Dataset(draw)[t] = Tickets(draw) /\ DOMAIN Tickets(draw) = 1..NTickets
      BY <1>4 DEF Dataset, Tickets
    <2>2. Tickets(draw) \in [DOMAIN Tickets(draw) -> Range(Tickets(draw))]
      BY DEF Tickets, Range
    <2>3. IsFiniteSet(1..NTickets)
      BY FS_Interval, SizesAreCounts
    <2> QED
      BY <2>1, <2>2, <2>3
  <1>5. CASE t = "metrics_daily"
    <2>1. /\ Dataset(draw)[t] = Metrics
          /\ DOMAIN Metrics = (0..NDays - 1) \X Range(Services) \X MetricNames
      BY <1>5 DEF Dataset, Metrics
    <2>2. Metrics \in [DOMAIN Metrics -> Range(Metrics)]
      BY DEF Metrics, Range
    <2>3. IsFiniteSet(0..NDays - 1)
      BY FS_Interval, SizesAreCounts
    <2>4. IsFiniteSet(Range(Services))
      <3>1. Services \in Surjection(1..Len(Services), Range(Services)) /\ Len(Services) \in Nat
        BY SizesAreCounts DEF Surjection, Range
      <3> QED
        BY <3>1, FS_Surjection, FS_Interval
    <2>5. IsFiniteSet(MetricNames)
      <3> DEFINE two   == {"uptime_pct"} \cup {"latency_p95_ms"}
                 three == two \cup {"error_rate"}
      <3>1. MetricNames = three \cup {"incident_count"}
        BY DEF MetricNames
      <3>2. IsFiniteSet(two)
        BY FS_Singleton, FS_AddElement
      <3> HIDE DEF two
      <3>3. IsFiniteSet(three)
        BY <3>2, FS_AddElement
      <3> HIDE DEF three
      <3> QED
        BY <3>1, <3>3, FS_AddElement
    <2>6. IsFiniteSet((0..NDays - 1) \X Range(Services) \X MetricNames)
      BY <2>3, <2>4, <2>5, TriplesAreFinite
    <2> QED
      BY <2>1, <2>2, <2>6
  <1> QED
    BY <1>1, <1>2, <1>3, <1>4, <1>5 DEF TableNames

\* A table holds as many rows as the dataset lists.
LEMMA CountsAreRows ==
    ASSUME NEW draw, NEW t \in TableNames
    PROVE  Cardinality(Range(Dataset(draw)[t])) = Cardinality(DOMAIN Dataset(draw)[t])
  <1> DEFINE rows == Dataset(draw)[t]
  <1>1. \A k, l \in DOMAIN rows : rows[k] = rows[l] => k = l
    BY KeysAreDistinct DEF KeysDiffer
  <1>2. rows \in [DOMAIN rows -> Range(rows)] /\ IsFiniteSet(DOMAIN rows)
    BY TablesAreFinite
  <1> HIDE DEF rows
  <1>3. rows \in Surjection(DOMAIN rows, Range(rows))
    BY <1>2 DEF Surjection, Range
  <1>4. rows \in Injection(DOMAIN rows, Range(rows))
    BY <1>1, <1>2 DEF Injection, IsInjective
  <1>5. Cardinality(Range(rows)) = Cardinality(DOMAIN rows)
    BY <1>2, <1>3, <1>4, FS_Surjection
  <1> QED
    BY <1>5 DEF rows

-----------------------------------------------------------------------------
\* The tables loaded before t, and what they then hold.
Before(t) == [slas |-> {}, customers |-> {"slas"}, incidents |-> {"slas", "customers"},
              tickets |-> {"slas", "customers", "incidents"},
              metrics_daily |-> {"slas", "customers", "incidents", "tickets"},
              commit |-> TableNames][t]

LoadedBefore(t, dataset) ==
    [u \in TableNames |-> IF u \in Before(t) THEN Range(dataset[u]) ELSE {}]

Loading == pc \in TableNames \cup {"commit"}

DrawsFixed == drawn \in [Seeds -> Drawn]

RunIsKnown == pc # "idle" => run \in Options

CommittedIsOne == tables \in {EmptyTables} \cup {Loaded(DataOf(s)) : s \in Seeds}

\* A load into empty tables has done a part of its dataset; any other one is at its first
\* table, which is full.
TransactionIsPart ==
    Loading => IF run.truncate \/ tables = EmptyTables
               THEN txn = LoadedBefore(pc, DataOf(run.seed))
               ELSE pc = "slas" /\ txn = tables

OutcomeIsTrue ==
    \A l \in lastLoad :
       /\ l.committed <=> l.truncate \/ l.fresh
       /\ l.committed => /\ tables = Loaded(DataOf(l.seed))
                         /\ \A t \in TableNames :
                               l.counts[t] = Cardinality(DOMAIN DataOf(l.seed)[t])

TablesInv == DrawsFixed /\ RunIsKnown /\ CommittedIsOne /\ TransactionIsPart /\ OutcomeIsTrue

-----------------------------------------------------------------------------
LEMMA DatasetIsDrawn ==
    ASSUME DrawsFixed, RunIsKnown, pc # "idle"
    PROVE  IsDraw(drawn[run.seed]) /\ run.seed \in Seeds
  <1>1. run.seed \in Seeds
    BY DEF RunIsKnown, Options
  <1>2. drawn[run.seed] \in Drawn
    BY <1>1 DEF DrawsFixed
  <1> QED
    BY <1>1, <1>2, DrawsAreDraws

\* The rows of a load fit in when the tables before theirs are loaded.
LEMMA NextRowsAreInsertable ==
    ASSUME NEW draw, IsDraw(draw), NEW t \in TableNames
    PROVE  Insertable(LoadedBefore(t, Dataset(draw)), t, Dataset(draw)[t])
  <1> DEFINE db == LoadedBefore(t, Dataset(draw))
  <1>1. db[t] = {}
    <2>1. t \notin Before(t)
      BY DEF TableNames, Before
    <2> QED
      BY <2>1 DEF LoadedBefore
  <1>2. \A ref \in ReferencesOf(t) : db[ref[2]] = Range(Dataset(draw)[ref[2]])
    <2>1. \A ref \in ReferencesOf(t) : ref[2] \in Before(t) /\ ref[2] \in TableNames
      <3>1. CASE t = "customers"
        BY <3>1 DEF ReferencesOf, Before, TableNames
      <3>2. CASE t \in {"incidents", "tickets"}
        BY <3>2 DEF ReferencesOf, Before, TableNames
      <3>3. CASE t \notin {"customers", "incidents", "tickets"}
        BY <3>3 DEF ReferencesOf
      <3> QED
        BY <3>1, <3>2, <3>3
    <2> QED
      BY <2>1 DEF LoadedBefore
  <1> HIDE DEF db
  <1>3. Insertable(db, t, Dataset(draw)[t])
    BY <1>1, <1>2, RowsAreInsertable
  <1> QED
    BY <1>3 DEF db

\* A second load without TRUNCATE meets the SLAs of the first.
LEMMA FullTablesRefuse ==
    ASSUME NEW draw, NEW other
    PROVE  ~Insertable(Loaded(Dataset(other)), "slas", Dataset(draw)["slas"])
  <1>1. Dataset(draw)["slas"] = Slas /\ Dataset(other)["slas"] = Slas
    BY DEF Dataset
  <1>2. Loaded(Dataset(other))["slas"] = Range(Slas)
    BY <1>1 DEF Loaded, TableNames
  <1>3. 1 \in DOMAIN Slas /\ Slas[1] \in Range(Slas)
    BY SlaRows DEF Range
  <1>4. KeyOf("slas", Slas[1]) = KeyOf("slas", Slas[1])
    OBVIOUS
  <1> QED
    BY <1>1, <1>2, <1>3, <1>4 DEF Insertable

LEMMA LoadedIsNotEmpty ==
    ASSUME NEW draw
    PROVE  Loaded(Dataset(draw)) # EmptyTables
  <1>1. Loaded(Dataset(draw))["slas"] = Range(Slas)
    BY DEF Loaded, TableNames, Dataset
  <1>2. Slas[1] \in Range(Slas)
    BY SlaRows DEF Range
  <1>3. EmptyTables["slas"] = {}
    BY DEF EmptyTables, TableNames
  <1> QED
    BY <1>1, <1>2, <1>3

-----------------------------------------------------------------------------
\* While a load that goes into empty tables runs, its next rows are insertable, and
\* those of any other load are not.
LEMMA LoadIsDecided ==
    ASSUME TablesInv, NEW t \in TableNames, pc = t
    PROVE  /\ Insertable(txn, t, Rows(t)) <=> run.truncate \/ tables = EmptyTables
           /\ Insertable(txn, t, Rows(t)) => txn = LoadedBefore(t, DataOf(run.seed))
  <1>1. Loading /\ pc # "idle"
    BY DEF Loading, TableNames
  <1>2. IsDraw(drawn[run.seed])
    BY <1>1, DatasetIsDrawn DEF TablesInv
  <1>3. CASE run.truncate \/ tables = EmptyTables
    <2>1. txn = LoadedBefore(t, DataOf(run.seed))
      BY <1>1, <1>3 DEF TablesInv, TransactionIsPart
    <2>2. Insertable(txn, t, Rows(t))
      BY <1>2, <2>1, NextRowsAreInsertable DEF Rows, DataOf
    <2> QED
      BY <1>3, <2>1, <2>2
  <1>4. CASE ~(run.truncate \/ tables = EmptyTables)
    <2>1. t = "slas" /\ txn = tables
      BY <1>1, <1>4 DEF TablesInv, TransactionIsPart
    <2>2. PICK s \in Seeds : tables = Loaded(DataOf(s))
      BY <1>4 DEF TablesInv, CommittedIsOne
    <2>3. ~Insertable(txn, t, Rows(t))
      BY <2>1, <2>2, FullTablesRefuse DEF Rows, DataOf
    <2> QED
      BY <1>4, <2>3
  <1> QED
    BY <1>3, <1>4

LEMMA InsertKeepsTables ==
    ASSUME TablesInv, NEW t \in TableNames, Insert(t)
    PROVE  TablesInv'
  <1>1. /\ pc = t /\ txn = LoadedBefore(t, DataOf(run.seed))
        /\ run.truncate \/ tables = EmptyTables
    BY LoadIsDecided DEF Insert
  <1>2. pc' = After(t) /\ UNCHANGED <<drawn, run, tables, lastLoad>>
    BY DEF Insert
  <1>3. txn' = LoadedBefore(After(t), DataOf(run.seed))
    <2>1. txn' = [txn EXCEPT ![t] = @ \cup Range(DataOf(run.seed)[t])]
      BY DEF Insert, Rows
    <2>2. Before(After(t)) = Before(t) \cup {t}
      BY DEF Before, After, TableNames
    <2>3. t \notin Before(t)
      BY DEF Before, TableNames
    <2> DEFINE data == DataOf(run.seed)
    <2> HIDE DEF data
    <2>4. LoadedBefore(After(t), data) =
             [LoadedBefore(t, data) EXCEPT ![t] = @ \cup Range(data[t])]
      BY <2>2, <2>3 DEF LoadedBefore
    <2> QED
      BY <1>1, <2>1, <2>4 DEF data
  <1>4. pc # "idle" /\ Loading'
    BY <1>1, <1>2 DEF After, TableNames, Loading
  <1>5. DrawsFixed' /\ CommittedIsOne' /\ OutcomeIsTrue'
    BY <1>2 DEF TablesInv, DrawsFixed, CommittedIsOne, OutcomeIsTrue, DataOf
  <1>6. RunIsKnown'
    BY <1>2, <1>4 DEF TablesInv, RunIsKnown
  <1>7. TransactionIsPart'
    BY <1>1, <1>2, <1>3 DEF TransactionIsPart, DataOf
  <1> QED
    BY <1>5, <1>6, <1>7 DEF TablesInv

LEMMA RejectKeepsTables ==
    ASSUME TablesInv, NEW t \in TableNames, Reject(t)
    PROVE  TablesInv'
  <1>1. ~run.truncate /\ tables # EmptyTables
    BY LoadIsDecided DEF Reject
  <1>2. /\ pc' = "idle"
        /\ UNCHANGED <<drawn, tables>>
        /\ lastLoad' = {[truncate |-> run.truncate, fresh |-> tables = EmptyTables,
                         committed |-> FALSE, counts |-> [u \in TableNames |-> 0],
                         seed |-> run.seed]}
    BY DEF Reject, LoadEnds
  <1>3. DrawsFixed' /\ CommittedIsOne'
    BY <1>2 DEF TablesInv, DrawsFixed, CommittedIsOne, DataOf
  <1>4. OutcomeIsTrue'
    <2> DEFINE outcome == [truncate |-> run.truncate, fresh |-> tables = EmptyTables,
                           committed |-> FALSE, counts |-> [u \in TableNames |-> 0],
                           seed |-> run.seed]
    <2>1. /\ outcome.truncate = run.truncate /\ outcome.fresh = (tables = EmptyTables)
          /\ outcome.committed = FALSE
      OBVIOUS
    <2>2. lastLoad' = {outcome}
      BY <1>2
    <2> HIDE DEF outcome
    <2>3. ~outcome.committed /\ ~outcome.truncate /\ ~outcome.fresh
      BY <1>1, <2>1
    <2> QED
      BY <2>2, <2>3 DEF OutcomeIsTrue
  <1>5. RunIsKnown' /\ TransactionIsPart'
    BY <1>2 DEF RunIsKnown, TransactionIsPart, Loading, TableNames
  <1> QED
    BY <1>3, <1>4, <1>5 DEF TablesInv

LEMMA CommitKeepsTables ==
    ASSUME TablesInv, Commit
    PROVE  TablesInv'
  <1>1. Loading /\ pc = "commit" /\ pc # "slas" /\ pc # "idle"
    BY DEF Commit, Loading
  <1>2. /\ run.truncate \/ tables = EmptyTables
        /\ txn = LoadedBefore("commit", DataOf(run.seed))
    BY <1>1 DEF TablesInv, TransactionIsPart
  <1>3. txn = Loaded(DataOf(run.seed))
    <2>1. Before("commit") = TableNames
      BY DEF Before
    <2> QED
      BY <1>2, <2>1 DEF LoadedBefore, Loaded
  <1>4. run.seed \in Seeds
    BY <1>1, DatasetIsDrawn DEF TablesInv
  <1>5. /\ pc' = "idle" /\ tables' = txn /\ drawn' = drawn
        /\ lastLoad' = {[truncate |-> run.truncate, fresh |-> tables = EmptyTables,
                         committed |-> TRUE,
                         counts |-> [u \in TableNames |-> Cardinality(txn[u])],
                         seed |-> run.seed]}
    BY DEF Commit, LoadEnds
  <1>6. DrawsFixed' /\ CommittedIsOne'
    BY <1>3, <1>4, <1>5 DEF TablesInv, DrawsFixed, CommittedIsOne, DataOf
  <1>7. OutcomeIsTrue'
    <2>1. \A t \in TableNames : Cardinality(txn[t]) = Cardinality(DOMAIN DataOf(run.seed)[t])
      BY <1>3, CountsAreRows DEF Loaded, DataOf
    <2> DEFINE outcome == [truncate |-> run.truncate, fresh |-> tables = EmptyTables,
                           committed |-> TRUE,
                           counts |-> [u \in TableNames |-> Cardinality(txn[u])],
                           seed |-> run.seed]
    <2>2. /\ outcome.truncate = run.truncate /\ outcome.fresh = (tables = EmptyTables)
          /\ outcome.committed = TRUE /\ outcome.seed = run.seed
          /\ outcome.counts = [u \in TableNames |-> Cardinality(txn[u])]
      OBVIOUS
    <2>3. lastLoad' = {outcome}
      BY <1>5
    <2> HIDE DEF outcome
    <2>4. outcome.committed /\ (outcome.truncate \/ outcome.fresh)
      BY <1>2, <2>2
    <2>5. \A t \in TableNames :
             outcome.counts[t] = Cardinality(DOMAIN DataOf(outcome.seed)[t])
      BY <2>1, <2>2
    <2>6. tables' = Loaded(DataOf(outcome.seed))
      BY <1>3, <1>5, <2>2
    <2> QED
      BY <1>5, <2>3, <2>4, <2>5, <2>6 DEF OutcomeIsTrue, DataOf
  <1>8. RunIsKnown' /\ TransactionIsPart'
    BY <1>5 DEF RunIsKnown, TransactionIsPart, Loading, TableNames
  <1> QED
    BY <1>6, <1>7, <1>8 DEF TablesInv

LEMMA BeginKeepsTables ==
    ASSUME TablesInv, Begin
    PROVE  TablesInv'
  <1>1. /\ pc # "idle" /\ pc' = "slas" /\ UNCHANGED <<drawn, run, tables, lastLoad>>
        /\ txn' = IF run.truncate THEN EmptyTables ELSE tables
    BY DEF Begin, Truncated
  <1>2. LoadedBefore("slas", DataOf(run.seed)) = EmptyTables
    BY DEF LoadedBefore, Before, EmptyTables
  <1>3. TransactionIsPart'
    BY <1>1, <1>2 DEF TransactionIsPart, DataOf
  <1>4. DrawsFixed' /\ RunIsKnown' /\ CommittedIsOne' /\ OutcomeIsTrue'
    BY <1>1 DEF TablesInv, DrawsFixed, RunIsKnown, CommittedIsOne, OutcomeIsTrue, DataOf
  <1> QED
    BY <1>3, <1>4 DEF TablesInv

\* Every other step leaves the tables and the last outcome, and is outside a load.
LEMMA OtherStepsKeepTables ==
    ASSUME TablesInv, UNCHANGED <<drawn, tables, lastLoad>>, ~Loading',
           pc' # "idle" => run' \in Options
    PROVE  TablesInv'
  BY DEF TablesInv, DrawsFixed, RunIsKnown, CommittedIsOne, TransactionIsPart, OutcomeIsTrue,
         DataOf

LEMMA StepsKeepTables ==
    ASSUME TablesInv, [SeedNext]_seedVars
    PROVE  TablesInv'
  <1>1. ASSUME NEW r \in Options, Start(r) PROVE TablesInv'
    <2>1. ~Loading' /\ run' \in Options
      BY <1>1 DEF Start, Loading, TableNames
    <2> QED
      BY <1>1, <2>1, OtherStepsKeepTables DEF Start, dbVars
  <1>2. CASE ClearPostmortems \/ ClearRunbooks \/ WriteTickets
    <2>1. ~Loading' /\ pc # "idle" /\ run' = run
      BY <1>2 DEF ClearPostmortems, ClearRunbooks, WriteTickets, Loading, TableNames
    <2>2. UNCHANGED <<drawn, tables, lastLoad>>
      BY <1>2 DEF ClearPostmortems, ClearRunbooks, WriteTickets, dbVars
    <2> QED
      BY <2>1, <2>2, OtherStepsKeepTables DEF TablesInv, RunIsKnown
  <1>3. CASE WriteDocument
    <2>1. ~Loading' /\ pc # "idle" /\ (pc' # "idle" => run' = run)
      BY <1>3 DEF WriteDocument, AfterCorpus, Loading, TableNames
    <2>2. UNCHANGED <<drawn, tables, lastLoad>>
      BY <1>3 DEF WriteDocument, dbVars
    <2> QED
      BY <2>1, <2>2, OtherStepsKeepTables DEF TablesInv, RunIsKnown
  <1>4. CASE Crash
    <2>1. ~Loading' /\ pc' = "idle" /\ UNCHANGED <<drawn, tables, lastLoad>>
      BY <1>4 DEF Crash, Loading, TableNames
    <2> QED
      BY <2>1, OtherStepsKeepTables
  <1>5. CASE UNCHANGED seedVars
    BY <1>5 DEF seedVars, dbVars, TablesInv, DrawsFixed, RunIsKnown, CommittedIsOne,
                TransactionIsPart, OutcomeIsTrue, DataOf, Loading
  <1> QED
    BY <1>1, <1>2, <1>3, <1>4, <1>5, BeginKeepsTables, InsertKeepsTables, RejectKeepsTables,
       CommitKeepsTables DEF SeedNext

-----------------------------------------------------------------------------
\* "Re-running produces identical rows and never duplicates", for every size of the
\* dataset, any draws, any number of runs of scripts/seed_db.py and crashes at any point.
THEOREM SeedingIsIdempotent == SeedSpec => []TablesAreOneDataset
  <1>1. Init => TablesInv
    BY DEF Init, TablesInv, DrawsFixed, RunIsKnown, CommittedIsOne, TransactionIsPart,
           OutcomeIsTrue, Loading, TableNames
  <1>2. TablesInv => TablesAreOneDataset
    BY DEF TablesInv, CommittedIsOne, OutcomeIsTrue, TablesAreOneDataset
  <1> QED
    BY <1>1, <1>2, StepsKeepTables, PTL DEF SeedSpec
-----------------------------------------------------------------------------
\* The Markdown files of a dataset, in the order they are written, and a document as
\* the file it becomes.
DocsOf(draw) == Dataset(draw).postmortems \o Dataset(draw).runbooks

FileOf(doc) == [dir |-> doc.dir, stem |-> doc.stem, source_type |-> doc.source_type,
                text |-> doc.text, whole |-> TRUE]

Dirs == {"postmortems", "runbooks"}

\* The files of a list of documents differ in directory or name.
NamesDiffer(docs) ==
    \A i, j \in DOMAIN docs : docs[i].dir = docs[j].dir /\ docs[i].stem = docs[j].stem => i = j

\* A postmortem is of a resolved incident of the dataset.
IsPostmortem(draw, doc) ==
    \E n \in 1..NIncidents :
       /\ doc = PostmortemDoc(Incidents(draw)[n])
       /\ Incidents(draw)[n].resolved_at # Null

LEMMA PostmortemsOfIncidents ==
    ASSUME NEW draw, IsDraw(draw)
    PROVE  \E m \in Nat : \E c \in [1..m -> 1..NIncidents] :
              /\ Postmortems(draw) = [n \in 1..m |-> PostmortemDoc(Incidents(draw)[c[n]])]
              /\ \A n \in 1..m : Incidents(draw)[c[n]].resolved_at # Null
              /\ \A k, n \in 1..m : c[k] = c[n] => k = n
  <1> DEFINE incidents == Incidents(draw)
             wanted == {p \in DOMAIN draw.shuffled :
                          LET i == draw.shuffled[p]
                          IN  incidents[i].severity \in {"P1", "P2"} /\ incidents[i].resolved_at # Null}
             kept == Keeping(draw.shuffled, wanted)
  <1>1. NIncidents \in Nat /\ NPostmortems \in Nat
    BY SizesAreCounts
  <1>2. /\ draw.shuffled \in [1..NIncidents -> 1..NIncidents]
        /\ \A p, q \in 1..NIncidents : draw.shuffled[p] = draw.shuffled[q] => p = q
    BY DEF IsDraw
  <1>3. /\ wanted \in SUBSET (1..NIncidents)
        /\ \A p \in wanted : incidents[draw.shuffled[p]].resolved_at # Null
    BY <1>2
  <1>4. Postmortems(draw) = [n \in DOMAIN Prefix(kept, NPostmortems) |->
                                PostmortemDoc(incidents[Prefix(kept, NPostmortems)[n]])]
    BY DEF Postmortems
  <1> HIDE DEF incidents, wanted
  <1>5. /\ Cardinality(wanted) \in Nat
        /\ \E e : Picks(e, wanted, Cardinality(wanted)) /\ kept = Picked(draw.shuffled, e, Cardinality(wanted))
    BY <1>1, <1>3, KeepingPicks
  <1> DEFINE c == Cardinality(wanted)
  <1>6. PICK e : Picks(e, wanted, c) /\ kept = Picked(draw.shuffled, e, c)
    BY <1>5
  <1> HIDE DEF kept, c
  <1>7. /\ c \in Nat /\ e \in [1..c -> wanted]
        /\ \A i, j \in 1..c : i < j => e[i] < e[j]
    BY <1>6 DEF Picks
  <1>8. kept = [i \in 1..c |-> draw.shuffled[e[i]]]
    BY <1>6 DEF Picked
  <1>9. kept \in Seq(1..NIncidents) /\ Len(kept) = c
    <2>1. \A i \in 1..c : e[i] \in wanted
      BY <1>7
    <2>2. \A i \in 1..c : draw.shuffled[e[i]] \in 1..NIncidents
      BY <1>2, <1>3, <2>1
    <2> QED
      BY <1>7, <1>8, <2>2
  <1> DEFINE m == IF NPostmortems < c THEN NPostmortems ELSE c
  <1>10. m \in Nat /\ m <= c /\ Prefix(kept, NPostmortems) = SubSeq(kept, 1, m)
    BY <1>1, <1>7, <1>9 DEF Prefix
  <1> HIDE DEF m
  <1> DEFINE first == SubSeq(kept, 1, m)
  <1>11. DOMAIN first = 1..m /\ \A n \in 1..m : first[n] = draw.shuffled[e[n]]
    BY <1>7, <1>8, <1>9, <1>10
  <1>12. \A n \in 1..m : e[n] \in wanted /\ e[n] \in 1..NIncidents
    <2>1. \A n \in 1..m : n \in 1..c
      BY <1>7, <1>10
    <2>2. \A i \in 1..c : e[i] \in wanted
      BY <1>7
    <2> QED
      BY <1>3, <2>1, <2>2
  <1> DEFINE chosen == [n \in 1..m |-> draw.shuffled[e[n]]]
  <1>13. chosen \in [1..m -> 1..NIncidents]
    BY <1>2, <1>12
  <1>14. \A n \in 1..m : incidents[chosen[n]].resolved_at # Null
    BY <1>3, <1>12
  <1>15. ASSUME NEW k \in 1..m, NEW n \in 1..m, chosen[k] = chosen[n] PROVE k = n
    <2>1. e[k] = e[n]
      BY <1>2, <1>12, <1>15
    <2>2. k \in 1..c /\ n \in 1..c /\ e[k] \in Nat
      BY <1>7, <1>10, <1>12
    <2> QED
      BY <1>7, <2>1, <2>2
  <1>16. Postmortems(draw) = [n \in 1..m |-> PostmortemDoc(incidents[chosen[n]])]
    BY <1>4, <1>10, <1>11
  <1> HIDE DEF chosen
  <1> QED
    BY <1>10, <1>13, <1>14, <1>15, <1>16 DEF incidents

\* The documents of a dataset: the postmortems, then the runbooks.
LEMMA DocumentsAre ==
    ASSUME NEW draw, IsDraw(draw)
    PROVE  LET docs == DocsOf(draw)
               m    == Len(Postmortems(draw))
           IN  /\ docs \in Seq(Range(docs))
               /\ m \in Nat /\ Len(docs) = m + NRunbooks /\ Len(docs) # 0
               /\ \A i \in 1..m : docs[i] = Postmortems(draw)[i] /\ IsPostmortem(draw, docs[i])
               /\ \A i, j \in 1..m : docs[i].doc_id = docs[j].doc_id => i = j
               /\ \A i \in m + 1..Len(docs) : docs[i] = Runbooks[i - m]
               /\ NamesDiffer(docs)
               /\ \A i \in DOMAIN docs : docs[i].dir \in Dirs
  <1> DEFINE incidents == Incidents(draw)
             P == Postmortems(draw)
             docs == DocsOf(draw)
  <1>1. PICK m \in Nat : \E c \in [1..m -> 1..NIncidents] :
              /\ P = [n \in 1..m |-> PostmortemDoc(incidents[c[n]])]
              /\ \A n \in 1..m : incidents[c[n]].resolved_at # Null
              /\ \A k, n \in 1..m : c[k] = c[n] => k = n
    BY PostmortemsOfIncidents
  <1>2. PICK c \in [1..m -> 1..NIncidents] :
              /\ P = [n \in 1..m |-> PostmortemDoc(incidents[c[n]])]
              /\ \A n \in 1..m : incidents[c[n]].resolved_at # Null
              /\ \A k, n \in 1..m : c[k] = c[n] => k = n
    BY <1>1
  <1>3. NRunbooks \in Nat /\ NRunbooks # 0
    BY SizesAreCounts
  <1>4. /\ DOMAIN Runbooks = 1..NRunbooks
        /\ \A i \in 1..NRunbooks : /\ Runbooks[i].doc_id = <<"RB", i>>
                                   /\ Runbooks[i].dir = "runbooks"
                                   /\ Runbooks[i].source_type = "runbook"
                                   /\ \E topic : Runbooks[i].stem = <<"RB", i, topic>>
    BY DEF Runbooks
  <1>5. \A n \in 1..NIncidents : incidents[n].id = <<"INC", n>>
    BY DEF Incidents
  <1>6. docs = P \o Runbooks
    BY DEF DocsOf, Dataset
  <1> HIDE DEF P, incidents
  <1>7. P \in Seq(Range(P)) /\ Len(P) = m
    BY <1>2 DEF Range
  <1>8. Runbooks \in Seq(Range(Runbooks)) /\ Len(Runbooks) = NRunbooks
    <2>1. Runbooks \in [1..NRunbooks -> Range(Runbooks)]
      BY <1>4 DEF Runbooks, Range
    <2> QED
      BY <1>3, <2>1
  <1>9. /\ Len(docs) = m + NRunbooks
        /\ \A i \in 1..m : docs[i] = P[i]
        /\ \A i \in m + 1..Len(docs) : docs[i] = Runbooks[i - m]
    <2> DEFINE S == Range(P) \cup Range(Runbooks)
    <2>1. P \in Seq(S) /\ Runbooks \in Seq(S)
      BY <1>7, <1>8
    <2> HIDE DEF S
    <2>2. /\ Len(P \o Runbooks) = Len(P) + Len(Runbooks)
          /\ \A i \in 1..Len(P) + Len(Runbooks) :
                (P \o Runbooks)[i] = IF i <= Len(P) THEN P[i] ELSE Runbooks[i - Len(P)]
      BY <2>1, ConcatProperties
    <2> QED
      BY <1>3, <1>6, <1>7, <1>8, <2>2
  <1>10. docs \in Seq(Range(docs)) /\ DOMAIN docs = 1..Len(docs) /\ Len(docs) # 0
    <2> DEFINE S == Range(P) \cup Range(Runbooks)
    <2>1. P \in Seq(S) /\ Runbooks \in Seq(S)
      BY <1>7, <1>8
    <2> HIDE DEF S
    <2>2. docs \in Seq(S)
      BY <1>6, <2>1, ConcatProperties
    <2> HIDE DEF docs
    <2>3. DOMAIN docs = 1..Len(docs) /\ docs \in [DOMAIN docs -> Range(docs)]
      BY <2>2 DEF Range
    <2>4. Len(docs) \in Nat /\ DOMAIN docs = 1..Len(docs) /\ Len(docs) # 0
      BY <1>3, <1>9, <2>2
    <2>5. docs \in Seq(Range(docs))
      BY <2>3, <2>4
    <2> QED
      BY <2>4, <2>5
  <1> HIDE DEF docs
  <1>11. \A i \in 1..m : /\ c[i] \in 1..NIncidents
                         /\ docs[i] = PostmortemDoc(incidents[c[i]])
                         /\ docs[i].doc_id = <<"INC", c[i]>> /\ docs[i].stem = <<"INC", c[i]>>
                         /\ docs[i].dir = "postmortems"
    BY <1>2, <1>5, <1>9 DEF PostmortemDoc
  <1>12. \A i \in 1..m : IsPostmortem(draw, docs[i])
    BY <1>2, <1>11 DEF IsPostmortem, incidents
  <1>13. \A i, j \in 1..m : docs[i].doc_id = docs[j].doc_id \/ docs[i].stem = docs[j].stem => i = j
    <2> SUFFICES ASSUME NEW i \in 1..m, NEW j \in 1..m,
                        docs[i].doc_id = docs[j].doc_id \/ docs[i].stem = docs[j].stem
                 PROVE  i = j
      OBVIOUS
    <2>1. c[i] = c[j]
      BY <1>11
    <2> QED
      BY <1>2, <2>1
  <1>14. \A i \in m + 1..Len(docs) : /\ docs[i].dir = "runbooks"
                                     /\ \E topic : docs[i].stem = <<"RB", i - m, topic>>
    <2>1. \A i \in m + 1..Len(docs) : i - m \in 1..NRunbooks
      BY <1>3, <1>9
    <2> QED
      BY <1>4, <1>9, <2>1
  <1>15. \A i \in 1..Len(docs) : i \in 1..m \/ i \in m + 1..Len(docs)
    BY <1>3, <1>9
  <1>16. NamesDiffer(docs)
    <2> SUFFICES ASSUME NEW i \in 1..Len(docs), NEW j \in 1..Len(docs),
                        docs[i].dir = docs[j].dir, docs[i].stem = docs[j].stem
                 PROVE  i = j
      BY <1>10 DEF NamesDiffer
    <2>1. CASE i \in 1..m
      BY <1>11, <1>13, <1>14, <1>15, <2>1
    <2>2. CASE i \in m + 1..Len(docs)
      <3>1. j \in m + 1..Len(docs)
        BY <1>11, <1>14, <1>15, <2>2
      <3>2. PICK t1 : docs[i].stem = <<"RB", i - m, t1>>
        BY <1>14, <2>2
      <3>3. PICK t2 : docs[j].stem = <<"RB", j - m, t2>>
        BY <1>14, <3>1
      <3>4. i - m = j - m
        <4>1. \A a, b, t, u : <<"RB", a, t>> = <<"RB", b, u>> => a = b
          OBVIOUS
        <4>2. <<"RB", i - m, t1>> = <<"RB", j - m, t2>>
          BY <3>2, <3>3
        <4> QED
          BY <4>1, <4>2
      <3> QED
        BY <1>1, <3>4
    <2> QED
      BY <1>15, <2>1, <2>2
  <1>17. \A i \in DOMAIN docs : docs[i].dir \in Dirs
    BY <1>10, <1>11, <1>14, <1>15 DEF Dirs
  <1> QED
    BY <1>7, <1>9, <1>10, <1>12, <1>13, <1>16, <1>17 DEF docs, P

-----------------------------------------------------------------------------
\* The first n files of a list of documents.
OnDisk(docs, n) == {FileOf(docs[i]) : i \in 1..n}

\* What of a list is still to be written when n documents have been.
Left(rest, docs, n) ==
    /\ n \in Nat /\ n < Len(docs)
    /\ rest \in Seq(Range(docs)) /\ Len(rest) = Len(docs) - n
    /\ \A i \in 1..Len(rest) : rest[i] = docs[n + i]

WholeLines(draw) == [lines |-> Dataset(draw).tickets, torn |-> FALSE]

FilesAreFiled == \A f \in files : f.dir \in Dirs

\* A corpus that is finished is on the disk, complete.
CorpusIsWritten ==
    \A s \in corpusOf : /\ s \in Seeds
                        /\ jsonl = {WholeLines(drawn[s])}
                        /\ files = OnDisk(DocsOf(drawn[s]), Len(DocsOf(drawn[s])))

\* One that is being written is there up to its next document, and nothing else is.
CorpusIsPart ==
    /\ pc = "clear runbooks" => \A f \in files : f.dir # "postmortems"
    /\ pc = "write tickets" => files = {}
    /\ pc = "write documents" => /\ jsonl = {WholeLines(drawn[run.seed])}
                                 /\ \E n \in Nat : /\ Left(todo, DocsOf(drawn[run.seed]), n)
                                                   /\ files = OnDisk(DocsOf(drawn[run.seed]), n)
    /\ pc \in {"clear runbooks", "write tickets", "write documents"} => corpusOf = {}

CorpusInv == FilesAreFiled /\ CorpusIsWritten /\ CorpusIsPart

-----------------------------------------------------------------------------
\* The next document is written to a file of its own.
LEMMA DocumentIsAdded ==
    ASSUME NEW docs, docs \in Seq(Range(docs)), NamesDiffer(docs),
           NEW n \in Nat, NEW rest, Left(rest, docs, n), files = OnDisk(docs, n)
    PROVE  /\ Written(Head(rest), TRUE) = OnDisk(docs, n + 1)
           /\ Head(rest) = docs[n + 1]
           /\ Len(rest) = 1 => n + 1 = Len(docs)
           /\ Len(rest) # 1 => Left(Tail(rest), docs, n + 1)
  <1>1. /\ Len(docs) \in Nat /\ DOMAIN docs = 1..Len(docs) /\ n < Len(docs)
        /\ rest \in Seq(Range(docs)) /\ Len(rest) = Len(docs) - n /\ rest # <<>>
        /\ \A i \in 1..Len(rest) : rest[i] = docs[n + i]
    BY DEF Left
  <1>0. /\ \A a, b \in Nat : a = b - n /\ a = 1 => n + 1 = b
        /\ \A a, b \in Nat : a = b - n /\ n < b /\ a # 1 => n + 1 < b /\ a - 1 = b - (n + 1)
    OBVIOUS
  <1>11. Len(rest) \in Nat /\ Len(docs) \in Nat
    BY <1>1
  <1>2. Head(rest) = docs[n + 1]
    <2>1. 1 \in 1..Len(rest)
      BY <1>1
    <2>2. Head(rest) = rest[1]
      BY <1>1
    <2> QED
      BY <1>1, <2>1, <2>2
  <1> DEFINE doc == docs[n + 1]
  <1>3. n + 1 \in 1..Len(docs) /\ \A i \in 1..n : i \in 1..Len(docs) /\ i # n + 1
    BY <1>1
  <1>4. \A i \in 1..n : docs[i].dir # doc.dir \/ docs[i].stem # doc.stem
    BY <1>1, <1>3 DEF NamesDiffer
  <1>5. \A f \in files : f.dir # doc.dir \/ f.stem # doc.stem
    BY <1>4 DEF OnDisk, FileOf
  <1>6. Written(doc, TRUE) = files \cup {FileOf(doc)}
    BY <1>5 DEF Written, FileOf
  <1>7. 1..n + 1 = (1..n) \cup {n + 1}
    OBVIOUS
  <1>8. OnDisk(docs, n + 1) = files \cup {FileOf(doc)}
    BY <1>7 DEF OnDisk
  <1>9. ASSUME Len(rest) # 1 PROVE Left(Tail(rest), docs, n + 1)
    <2>1. /\ Tail(rest) \in Seq(Range(docs)) /\ Len(Tail(rest)) = Len(rest) - 1
          /\ \A i \in 1..Len(rest) - 1 : Tail(rest)[i] = rest[i + 1]
      BY <1>1, HeadTailProperties
    <2> DEFINE tail == Tail(rest)
    <2> HIDE DEF tail
    <2>2. /\ tail \in Seq(Range(docs)) /\ Len(tail) = Len(rest) - 1
          /\ \A i \in 1..Len(rest) - 1 : tail[i] = rest[i + 1]
      BY <2>1 DEF tail
    <2>3. ASSUME NEW i \in 1..Len(tail) PROVE tail[i] = docs[n + 1 + i]
      <3>1. i + 1 \in 1..Len(rest) /\ i \in 1..Len(rest) - 1 /\ n + (i + 1) = n + 1 + i
        BY <1>1, <2>2
      <3> QED
        BY <1>1, <2>2, <3>1
    <2>4. Len(tail) = Len(docs) - (n + 1) /\ n + 1 < Len(docs) /\ n + 1 \in Nat
      <3>1. n + 1 < Len(docs) /\ Len(rest) - 1 = Len(docs) - (n + 1)
        BY <1>0, <1>1, <1>9, <1>11
      <3>2. Len(tail) = Len(rest) - 1
        BY <2>2
      <3> QED
        BY <3>1, <3>2
    <2>5. Left(tail, docs, n + 1)
      BY <2>2, <2>3, <2>4 DEF Left
    <2> QED
      BY <2>5 DEF tail
  <1>10. Len(rest) = 1 => n + 1 = Len(docs)
    BY <1>0, <1>1, <1>11
  <1> QED
    BY <1>2, <1>6, <1>8, <1>9, <1>10

\* Steps that leave the disk alone and are no part of the writing.
LEMMA OtherStepsKeepCorpus ==
    ASSUME CorpusInv, UNCHANGED <<drawn, diskVars>>,
           pc' \notin {"clear runbooks", "write tickets", "write documents"}
    PROVE  CorpusInv'
  BY DEF CorpusInv, FilesAreFiled, CorpusIsWritten, CorpusIsPart, diskVars

LEMMA RunHasDraw ==
    ASSUME TablesInv, pc # "idle"
    PROVE  /\ IsDraw(drawn[run.seed]) /\ run.seed \in Seeds
           /\ DataOf(run.seed) = Dataset(drawn[run.seed])
  BY DatasetIsDrawn DEF TablesInv, DataOf

LEMMA ClearingKeepsCorpus ==
    ASSUME CorpusInv, ClearPostmortems \/ ClearRunbooks
    PROVE  CorpusInv'
  <1>1. CASE ClearPostmortems
    <2>1. /\ files' = files \ {f \in files : f.dir = "postmortems"}
          /\ corpusOf' = {} /\ pc' = "clear runbooks"
      BY <1>1 DEF ClearPostmortems, Removed, InDir
    <2> QED
      BY <2>1 DEF CorpusInv, FilesAreFiled, CorpusIsWritten, CorpusIsPart
  <1>2. CASE ClearRunbooks
    <2>1. /\ files' = files \ {f \in files : f.dir = "runbooks"}
          /\ corpusOf' = corpusOf /\ pc = "clear runbooks" /\ pc' = "write tickets"
      BY <1>2 DEF ClearRunbooks, Removed, InDir
    <2>2. files' = {} /\ corpusOf' = {}
      BY <2>1 DEF CorpusInv, FilesAreFiled, CorpusIsPart, Dirs
    <2> QED
      BY <2>1, <2>2 DEF CorpusInv, FilesAreFiled, CorpusIsWritten, CorpusIsPart
  <1> QED
    BY <1>1, <1>2

LEMMA WritingKeepsCorpus ==
    ASSUME TablesInv, CorpusInv, WriteTickets \/ WriteDocument
    PROVE  CorpusInv'
  <1> DEFINE draw == drawn[run.seed]
             docs == DocsOf(draw)
  <1>1. pc # "idle"
    BY DEF WriteTickets, WriteDocument
  <1>2. IsDraw(draw) /\ run.seed \in Seeds /\ DataOf(run.seed) = Dataset(draw)
    BY <1>1, RunHasDraw
  <1>3. /\ docs \in Seq(Range(docs)) /\ Len(docs) \in Nat /\ Len(docs) # 0
        /\ NamesDiffer(docs) /\ \A i \in DOMAIN docs : docs[i].dir \in Dirs
    BY <1>2, DocumentsAre
  <1>4. CASE WriteTickets
    <2>1. /\ pc = "write tickets" /\ pc' = "write documents"
          /\ jsonl' = {WholeLines(draw)} /\ todo' = docs
          /\ UNCHANGED <<drawn, run, files, corpusOf>>
      BY <1>2, <1>4 DEF WriteTickets, WholeLines, DocsOf
    <2>2. corpusOf = {} /\ files = {}
      BY <2>1 DEF CorpusInv, CorpusIsPart
    <2> HIDE DEF docs
    <2>3. Left(docs, docs, 0)
      BY <1>3 DEF Left
    <2>4. OnDisk(docs, 0) = {}
      BY DEF OnDisk
    <2>5. CorpusIsPart'
      BY <2>1, <2>2, <2>3, <2>4 DEF CorpusIsPart, docs
    <2> QED
      BY <2>1, <2>2, <2>5 DEF CorpusInv, FilesAreFiled, CorpusIsWritten
  <1>5. CASE WriteDocument
    <2>1. /\ pc = "write documents" /\ files' = Written(Head(todo), TRUE) /\ todo' = Tail(todo)
          /\ UNCHANGED <<drawn, jsonl>>
          /\ IF Len(todo) = 1 THEN corpusOf' = {run.seed} /\ pc' \in {"begin", "idle"}
                              ELSE UNCHANGED <<corpusOf, pc, run>>
      BY <1>5 DEF WriteDocument, AfterCorpus
    <2>2. jsonl = {WholeLines(draw)} /\ corpusOf = {}
      BY <2>1 DEF CorpusInv, CorpusIsPart
    <2>3. PICK n \in Nat : Left(todo, docs, n) /\ files = OnDisk(docs, n)
      BY <2>1 DEF CorpusInv, CorpusIsPart
    <2> HIDE DEF docs
    <2>4. /\ files' = OnDisk(docs, n + 1) /\ Head(todo) = docs[n + 1]
          /\ Len(todo) = 1 => n + 1 = Len(docs)
          /\ Len(todo) # 1 => Left(Tail(todo), docs, n + 1)
      BY <1>3, <2>1, <2>3, DocumentIsAdded
    <2>5. n + 1 \in 1..Len(docs)
      BY <1>3, <2>3 DEF Left
    <2>6. FilesAreFiled'
      <3>1. \A i \in 1..n + 1 : docs[i].dir \in Dirs
        BY <1>3, <2>5
      <3> QED
        BY <2>4, <3>1 DEF FilesAreFiled, OnDisk, FileOf
    <2>7. CASE Len(todo) = 1
      <3>1. CorpusIsWritten'
        BY <1>2, <2>1, <2>2, <2>4, <2>7 DEF CorpusIsWritten, docs
      <3>2. CorpusIsPart'
        BY <2>1, <2>7 DEF CorpusIsPart
      <3> QED
        BY <2>6, <3>1, <3>2 DEF CorpusInv
    <2>8. CASE Len(todo) # 1
      <3>1. CorpusIsWritten'
        BY <2>1, <2>2, <2>8 DEF CorpusIsWritten
      <3>2. \E m \in Nat : Left(todo', docs, m) /\ files' = OnDisk(docs, m)
        <4>1. todo' = Tail(todo)
          BY <2>1
        <4>2. files' = OnDisk(docs, n + 1)
          BY <2>4
        <4>3. n + 1 \in Nat
          OBVIOUS
        <4>4. Left(Tail(todo), docs, n + 1)
          BY <2>4, <2>8
        <4> QED
          BY <4>1, <4>2, <4>3, <4>4
      <3>3. CorpusIsPart'
        BY <2>1, <2>2, <2>8, <3>2 DEF CorpusIsPart, docs
      <3> QED
        BY <2>6, <3>1, <3>3 DEF CorpusInv
    <2> QED
      BY <2>7, <2>8
  <1> QED
    BY <1>4, <1>5

\* A crash in the middle of the writing leaves no finished corpus behind.
LEMMA CrashKeepsCorpus ==
    ASSUME TablesInv, CorpusInv, Crash
    PROVE  CorpusInv'
  <1>1. pc # "idle" /\ pc' = "idle" /\ drawn' = drawn
    BY DEF Crash
  <1>2. CorpusIsPart'
    BY <1>1 DEF CorpusIsPart
  <1>3. CASE pc \in {"clear postmortems", "clear runbooks"}
    <2>1. files' \subseteq files /\ corpusOf' = {}
      <3>1. pc # "write tickets" /\ pc # "write documents"
        BY <1>3
      <3>2. HalfCleared("postmortems") \/ HalfCleared("runbooks")
        BY <1>3 DEF Crash
      <3> QED
        BY <3>2 DEF HalfCleared
    <2> QED
      BY <1>2, <2>1 DEF CorpusInv, FilesAreFiled, CorpusIsWritten
  <1>4. CASE pc = "write tickets"
    <2>1. HalfTickets
      BY <1>4 DEF Crash
    <2>2. corpusOf' = {} /\ files' = files
      BY <1>4, <2>1 DEF HalfTickets, CorpusInv, CorpusIsPart
    <2> QED
      BY <1>2, <2>2 DEF CorpusInv, FilesAreFiled, CorpusIsWritten
  <1>5. CASE pc = "write documents"
    <2> DEFINE docs == DocsOf(drawn[run.seed])
    <2>1. HalfDocument
      BY <1>5 DEF Crash
    <2>2. corpusOf' = {} /\ files' \in {files, Written(Head(todo), FALSE)}
      BY <1>5, <2>1 DEF HalfDocument, CorpusInv, CorpusIsPart
    <2>3. PICK n \in Nat : Left(todo, docs, n) /\ files = OnDisk(docs, n)
      BY <1>5 DEF CorpusInv, CorpusIsPart
    <2>4. /\ docs \in Seq(Range(docs)) /\ Len(docs) \in Nat
          /\ NamesDiffer(docs) /\ \A i \in DOMAIN docs : docs[i].dir \in Dirs
      BY <1>1, RunHasDraw, DocumentsAre
    <2> HIDE DEF docs
    <2>5. Head(todo) = docs[n + 1]
      BY <2>3, <2>4, DocumentIsAdded
    <2>6. Head(todo).dir \in Dirs
      <3>1. n + 1 \in DOMAIN docs
        BY <2>3, <2>4 DEF Left
      <3> QED
        BY <2>4, <2>5, <3>1
    <2>7. \A f \in Written(Head(todo), FALSE) : f \in files \/ f.dir = Head(todo).dir
      BY DEF Written
    <2>8. FilesAreFiled'
      BY <2>2, <2>6, <2>7 DEF CorpusInv, FilesAreFiled
    <2> QED
      BY <1>2, <2>2, <2>8 DEF CorpusInv, CorpusIsWritten
  <1>6. CASE pc \notin {"clear postmortems", "clear runbooks", "write tickets", "write documents"}
    <2>1. UNCHANGED <<files, jsonl, corpusOf>>
      BY <1>6 DEF Crash
    <2> QED
      BY <1>1, <1>2, <2>1 DEF CorpusInv, FilesAreFiled, CorpusIsWritten
  <1> QED
    BY <1>3, <1>4, <1>5, <1>6

LEMMA StepsKeepCorpus ==
    ASSUME TablesInv, CorpusInv, [SeedNext]_seedVars
    PROVE  CorpusInv'
  <1>1. ASSUME NEW r \in Options, Start(r) PROVE CorpusInv'
    BY <1>1, OtherStepsKeepCorpus DEF Start
  <1>2. CASE Begin
    BY <1>2, OtherStepsKeepCorpus DEF Begin
  <1>3. ASSUME NEW t \in TableNames, Insert(t) PROVE CorpusInv'
    <2>1. pc' \in TableNames \cup {"commit"}
      BY <1>3 DEF Insert, After, TableNames
    <2> QED
      BY <1>3, <2>1, OtherStepsKeepCorpus DEF Insert, TableNames
  <1>4. ASSUME NEW t \in TableNames, Reject(t) PROVE CorpusInv'
    BY <1>4, OtherStepsKeepCorpus DEF Reject, LoadEnds
  <1>5. CASE Commit
    BY <1>5, OtherStepsKeepCorpus DEF Commit, LoadEnds
  <1>6. CASE UNCHANGED seedVars
    BY <1>6 DEF seedVars, diskVars, CorpusInv, FilesAreFiled, CorpusIsWritten, CorpusIsPart
  <1> QED
    BY <1>1, <1>2, <1>3, <1>4, <1>5, <1>6, ClearingKeepsCorpus, WritingKeepsCorpus,
       CrashKeepsCorpus DEF SeedNext

-----------------------------------------------------------------------------
\* The documents the loaders make of the lines and files of a dataset.
Documents(draw) == {TicketDoc(t) : t \in Range(Dataset(draw).tickets)}
                     \cup {MarkdownDoc(FileOf(d)) : d \in Range(DocsOf(draw))}

\* Document number i of these: the tickets, the postmortems and the runbooks.
DocumentAt(draw, i) == IF i <= NTickets THEN TicketDoc(Dataset(draw).tickets[i])
                                        ELSE MarkdownDoc(FileOf(DocsOf(draw)[i - NTickets]))

LEMMA FinishedCorpus ==
    ASSUME TablesInv, CorpusInv, NEW s \in corpusOf
    PROVE  IsDraw(drawn[s]) /\ Corpus = Documents(drawn[s])
  <1> DEFINE docs == DocsOf(drawn[s])
             lines == WholeLines(drawn[s])
  <1>1. jsonl = {lines} /\ files = OnDisk(docs, Len(docs))
    BY DEF CorpusInv, CorpusIsWritten
  <1>2. s \in Seeds /\ lines.torn = FALSE /\ lines.lines = Dataset(drawn[s]).tickets
    BY DEF CorpusInv, CorpusIsWritten, WholeLines
  <1>3. IsDraw(drawn[s])
    <2>1. drawn[s] \in Drawn
      BY <1>2 DEF TablesInv, DrawsFixed
    <2> QED
      BY <2>1, DrawsAreDraws
  <1>4. docs \in Seq(Range(docs))
    BY <1>3, DocumentsAre
  <1> HIDE DEF lines, docs
  <1>5. DOMAIN docs = 1..Len(docs)
    BY <1>4
  <1>6. files = {FileOf(d) : d \in Range(docs)}
    BY <1>1, <1>5 DEF OnDisk, Range
  <1>7. {MarkdownDoc(f) : f \in files} = {MarkdownDoc(FileOf(d)) : d \in Range(docs)}
    BY <1>6
  <1>8. Corpus = {TicketDoc(t) : t \in Range(lines.lines)} \cup {MarkdownDoc(f) : f \in files}
    <2> DEFINE docsIn(content) == {TicketDoc(t) : t \in Range(content.lines)}
    <2>1. ~\E content \in jsonl : content.torn
      BY <1>1, <1>2
    <2>2. Corpus = {MarkdownDoc(f) : f \in files} \cup (UNION {docsIn(content) : content \in jsonl})
      BY <2>1 DEF Corpus
    <2>3. UNION {docsIn(content) : content \in jsonl} = docsIn(lines)
      <3> HIDE DEF docsIn
      <3> QED
        BY <1>1
    <2> QED
      BY <2>2, <2>3
  <1> QED
    BY <1>2, <1>3, <1>7, <1>8 DEF Documents, docs

\* No two documents share their id, so there are as many ids as tickets, postmortems and
\* runbooks together.
LEMMA DocumentIdsDiffer ==
    ASSUME NEW draw, IsDraw(draw)
    PROVE  Cardinality({d.doc_id : d \in Documents(draw)})
             = NTickets + Len(Dataset(draw).postmortems) + NRunbooks
  <1> DEFINE docs == DocsOf(draw)
             tickets == Dataset(draw).tickets
             m == Len(Postmortems(draw))
             N == NTickets + m + NRunbooks
             ids == {d.doc_id : d \in Documents(draw)}
             id(i) == DocumentAt(draw, i).doc_id
  <1>1. /\ docs \in Seq(Range(docs)) /\ m \in Nat /\ Len(docs) = m + NRunbooks
        /\ \A i \in 1..m : IsPostmortem(draw, docs[i])
        /\ \A i \in m + 1..Len(docs) : docs[i] = Runbooks[i - m]
        /\ NamesDiffer(docs)
    BY DocumentsAre
  <1>2. NTickets \in Nat /\ NRunbooks \in Nat
    BY SizesAreCounts
  <1>3. DOMAIN tickets = 1..NTickets /\ \A i \in 1..NTickets : tickets[i].id = <<"TCK", i>>
    BY DEF Dataset, Tickets
  <1>4. Dataset(draw).postmortems = Postmortems(draw)
    BY DEF Dataset
  <1> HIDE DEF docs, tickets, m
  <1>5. \A i \in 1..m : docs[i].dir = "postmortems" /\ \E n : docs[i].stem = <<"INC", n>>
    <2> SUFFICES ASSUME NEW i \in 1..m
                 PROVE  docs[i].dir = "postmortems" /\ \E n : docs[i].stem = <<"INC", n>>
      OBVIOUS
    <2>1. PICK n \in 1..NIncidents : docs[i] = PostmortemDoc(Incidents(draw)[n])
      BY <1>1 DEF IsPostmortem
    <2>2. Incidents(draw)[n].id = <<"INC", n>>
      BY DEF Incidents
    <2> QED
      BY <2>1, <2>2 DEF PostmortemDoc
  <1>6. \A i \in m + 1..Len(docs) :
           docs[i].dir = "runbooks" /\ \E topic : docs[i].stem = <<"RB", i - m, topic>>
    <2> SUFFICES ASSUME NEW i \in m + 1..Len(docs)
                 PROVE  docs[i].dir = "runbooks" /\ \E topic : docs[i].stem = <<"RB", i - m, topic>>
      OBVIOUS
    <2>1. i - m \in 1..NRunbooks /\ docs[i] = Runbooks[i - m]
      BY <1>1, <1>2
    <2> QED
      BY <2>1 DEF Runbooks
  <1>7. \A i \in 1..NTickets : id(i) = <<"TCK", i>>
    BY <1>2, <1>3 DEF DocumentAt, TicketDoc, tickets
  <1>8. ASSUME NEW i \in NTickets + 1..N
        PROVE  i - NTickets \in 1..Len(docs) /\ id(i) = docs[i - NTickets].stem
    <2>1. i - NTickets \in 1..Len(docs) /\ ~(i <= NTickets)
      BY <1>1, <1>2
    <2> QED
      BY <2>1 DEF DocumentAt, MarkdownDoc, FileOf, docs
  <1>9. \A j \in 1..Len(docs) : j \in 1..m \/ j \in m + 1..Len(docs)
    BY <1>1, <1>2
  <1>10. \A a, n : <<"TCK", a>> # <<"INC", n>>
    OBVIOUS
  <1>11. \A a, b, t : <<"TCK", a>> # <<"RB", b, t>>
    OBVIOUS
  <1>12. \A n, b, t : <<"INC", n>> # <<"RB", b, t>>
    OBVIOUS
  <1>13. \A a, b : <<"TCK", a>> = <<"TCK", b>> => a = b
    OBVIOUS
  <1>14. \A i \in NTickets + 1..N : \A a : id(i) # <<"TCK", a>>
    <2> SUFFICES ASSUME NEW i \in NTickets + 1..N, NEW a, id(i) = <<"TCK", a>> PROVE FALSE
      OBVIOUS
    <2> DEFINE j == i - NTickets
    <2>1. j \in 1..Len(docs) /\ docs[j].stem = <<"TCK", a>>
      BY <1>8
    <2> HIDE DEF j
    <2> QED
      BY <1>5, <1>6, <1>9, <1>10, <1>11, <2>1
  <1>15. ASSUME NEW i \in NTickets + 1..N, NEW k \in NTickets + 1..N, id(i) = id(k)
         PROVE  i = k
    <2> DEFINE j == i - NTickets
               l == k - NTickets
    <2>1. j \in 1..Len(docs) /\ l \in 1..Len(docs) /\ docs[j].stem = docs[l].stem
      BY <1>8, <1>15
    <2>2. j = l => i = k
      BY <1>2
    <2> HIDE DEF j, l
    <2>3. docs[j].dir = docs[l].dir
      BY <1>5, <1>6, <1>9, <1>12, <2>1
    <2>4. DOMAIN docs = 1..Len(docs)
      BY <1>1
    <2>5. j = l
      BY <1>1, <2>1, <2>3, <2>4 DEF NamesDiffer
    <2> QED
      BY <2>2, <2>5
  <1>16. N \in Nat /\ \A i \in 1..N : i \in 1..NTickets \/ i \in NTickets + 1..N
    BY <1>1, <1>2
  <1> HIDE DEF id
  <1>17. \A i, k \in 1..N : id(i) = id(k) => i = k
    <2> SUFFICES ASSUME NEW i \in 1..N, NEW k \in 1..N, id(i) = id(k) PROVE i = k
      OBVIOUS
    <2>1. CASE i \in 1..NTickets
      BY <1>7, <1>13, <1>14, <1>16, <2>1
    <2>2. CASE k \in 1..NTickets
      BY <1>7, <1>13, <1>14, <1>16, <2>2
    <2> QED
      BY <1>15, <1>16, <2>1, <2>2
  <1>18. \A i \in 1..N : id(i) \in ids
    <2> SUFFICES ASSUME NEW i \in 1..N PROVE DocumentAt(draw, i) \in Documents(draw)
      BY DEF id
    <2>1. CASE i \in 1..NTickets
      BY <1>2, <1>3, <2>1 DEF DocumentAt, Documents, Range, tickets
    <2>2. CASE i \in NTickets + 1..N
      <3>1. i - NTickets \in 1..Len(docs) /\ ~(i <= NTickets) /\ DOMAIN docs = 1..Len(docs)
        BY <1>1, <1>2, <1>8, <2>2
      <3> QED
        BY <3>1 DEF DocumentAt, Documents, Range, docs
    <2> QED
      BY <1>16, <2>1, <2>2
  <1>19. \A x \in ids : \E i \in 1..N : id(i) = x
    <2> SUFFICES ASSUME NEW d \in Documents(draw) PROVE \E i \in 1..N : id(i) = d.doc_id
      OBVIOUS
    <2>1. CASE d \in {TicketDoc(t) : t \in Range(tickets)}
      <3>1. PICK i \in 1..NTickets : d = TicketDoc(tickets[i])
        BY <1>3, <2>1 DEF Range
      <3>2. i \in 1..N /\ i <= NTickets
        BY <1>1, <1>2
      <3>3. id(i) = d.doc_id
        BY <3>1, <3>2 DEF id, DocumentAt, tickets
      <3> QED
        BY <3>2, <3>3
    <2>2. CASE d \in {MarkdownDoc(FileOf(e)) : e \in Range(docs)}
      <3>1. PICK j \in 1..Len(docs) : d = MarkdownDoc(FileOf(docs[j]))
        BY <1>1, <2>2 DEF Range
      <3>2. j + NTickets \in 1..N /\ ~(j + NTickets <= NTickets) /\ (j + NTickets) - NTickets = j
        BY <1>1, <1>2
      <3>3. id(j + NTickets) = d.doc_id
        BY <3>1, <3>2 DEF id, DocumentAt, docs
      <3> QED
        BY <3>2, <3>3
    <2> QED
      BY <2>1, <2>2 DEF Documents, docs, tickets
  <1> DEFINE f == [i \in 1..N |-> id(i)]
  <1> HIDE DEF N, ids
  <1>20. f \in Surjection(1..N, ids) /\ f \in Injection(1..N, ids)
    BY <1>17, <1>18, <1>19 DEF Surjection, Injection, IsInjective
  <1> HIDE DEF f
  <1>21. IsFiniteSet(1..N) /\ Cardinality(1..N) = N
    BY <1>16, FS_Interval
  <1>22. Cardinality(ids) = N
    BY <1>20, <1>21, FS_Surjection
  <1> QED
    BY <1>4, <1>22 DEF ids, N, m

\* The documents of a dataset say what its rows and its documents say.
LEMMA DocumentsTell ==
    ASSUME NEW draw, IsDraw(draw)
    PROVE  /\ {d.text : d \in Documents(draw)}
                = {d.text : d \in Range(DocsOf(draw))} \cup Range(Dataset(draw).tickets)
           /\ \A d \in Documents(draw) :
                 /\ d.whole
                 /\ d.source_type = "postmortem" =>
                       \E i \in Range(Dataset(draw).incidents) :
                          i.id = d.doc_id /\ i.resolved_at # Null
  <1> DEFINE docs == DocsOf(draw)
             tickets == Dataset(draw).tickets
  <1>1. /\ \A t : TicketDoc(t).text = t /\ TicketDoc(t).whole /\ TicketDoc(t).source_type = "ticket"
        /\ \A d : /\ MarkdownDoc(FileOf(d)).text = d.text /\ MarkdownDoc(FileOf(d)).whole
                  /\ MarkdownDoc(FileOf(d)).source_type = d.source_type
                  /\ MarkdownDoc(FileOf(d)).doc_id = d.stem
    BY DEF TicketDoc, MarkdownDoc, FileOf
  <1>2. Documents(draw) = {TicketDoc(t) : t \in Range(tickets)} \cup {MarkdownDoc(FileOf(d)) : d \in Range(docs)}
    BY DEF Documents
  <1>3. ASSUME NEW e \in Range(docs), e.source_type = "postmortem"
        PROVE  \E i \in Range(Dataset(draw).incidents) : i.id = e.stem /\ i.resolved_at # Null
    <2>1. /\ docs \in Seq(Range(docs)) /\ Len(docs) = Len(Postmortems(draw)) + NRunbooks
          /\ Len(Postmortems(draw)) \in Nat /\ NRunbooks \in Nat
          /\ \A i \in 1..Len(Postmortems(draw)) : IsPostmortem(draw, docs[i])
          /\ \A i \in Len(Postmortems(draw)) + 1..Len(docs) : docs[i] = Runbooks[i - Len(Postmortems(draw))]
      BY DocumentsAre, SizesAreCounts
    <2> HIDE DEF docs
    <2> DEFINE m == Len(Postmortems(draw))
    <2> HIDE DEF m
    <2>2. PICK j \in 1..Len(docs) : e = docs[j]
      BY <2>1 DEF Range
    <2>3. j \notin m + 1..Len(docs)
      <3> SUFFICES ASSUME j \in m + 1..Len(docs) PROVE FALSE
        OBVIOUS
      <3>1. j - m \in 1..NRunbooks /\ e = Runbooks[j - m]
        BY <2>1, <2>2 DEF m
      <3>2. e.source_type = "runbook"
        BY <3>1 DEF Runbooks
      <3> QED
        BY <1>3, <3>2
    <2>4. IsPostmortem(draw, e)
      BY <2>1, <2>2, <2>3 DEF m
    <2>5. PICK n \in 1..NIncidents : /\ e = PostmortemDoc(Incidents(draw)[n])
                                     /\ Incidents(draw)[n].resolved_at # Null
      BY <2>4 DEF IsPostmortem
    <2>6. e.stem = Incidents(draw)[n].id
      BY <2>5 DEF PostmortemDoc
    <2>7. Incidents(draw)[n] \in Range(Dataset(draw).incidents)
      <3>1. DOMAIN Incidents(draw) = 1..NIncidents /\ Dataset(draw).incidents = Incidents(draw)
        BY DEF Incidents, Dataset
      <3> QED
        BY <3>1 DEF Range
    <2> QED
      BY <2>5, <2>6, <2>7
  <1> HIDE DEF docs, tickets
  <1>4. {d.text : d \in Documents(draw)} = {d.text : d \in Range(docs)} \cup Range(tickets)
    BY <1>1, <1>2
  <1>5. ASSUME NEW d \in Documents(draw)
        PROVE  /\ d.whole
               /\ d.source_type = "postmortem" =>
                     \E i \in Range(Dataset(draw).incidents) :
                        i.id = d.doc_id /\ i.resolved_at # Null
    <2>1. CASE d \in {TicketDoc(t) : t \in Range(tickets)}
      BY <1>1, <2>1
    <2>2. CASE d \in {MarkdownDoc(FileOf(e)) : e \in Range(docs)}
      BY <1>1, <1>3, <2>2
    <2> QED
      BY <1>2, <2>1, <2>2
  <1> QED
    BY <1>4, <1>5 DEF docs, tickets

-----------------------------------------------------------------------------
\* A corpus written to its end is the corpus of its seed and of no other, whatever runs of
\* scripts/seed_db.py, of other seeds or cut short at any point, came before: for any size
\* of the dataset and any draws.
THEOREM CorpusIsOfItsSeed == SeedSpec => []CorpusIsOfOneSeed
  <1>1. Init => TablesInv /\ CorpusInv
    BY DEF Init, TablesInv, DrawsFixed, RunIsKnown, CommittedIsOne, TransactionIsPart,
           OutcomeIsTrue, Loading, TableNames, CorpusInv, FilesAreFiled, CorpusIsWritten,
           CorpusIsPart
  <1>2. ASSUME TablesInv, CorpusInv PROVE CorpusIsOfOneSeed
    <2> SUFFICES ASSUME NEW s \in corpusOf
                 PROVE  LET data == DataOf(s)
                        IN  /\ {d.text : d \in Corpus}
                                 = {d.text : d \in Range(data.postmortems \o data.runbooks)}
                                     \cup Range(data.tickets)
                            /\ Cardinality({d.doc_id : d \in Corpus}) =
                                  NTickets + Len(data.postmortems) + NRunbooks
                            /\ \A d \in Corpus :
                                  /\ d.whole
                                  /\ d.source_type = "postmortem" =>
                                        \E i \in Range(data.incidents) :
                                           i.id = d.doc_id /\ i.resolved_at # Null
      BY DEF CorpusIsOfOneSeed
    <2>1. IsDraw(drawn[s]) /\ Corpus = Documents(drawn[s]) /\ DataOf(s) = Dataset(drawn[s])
      BY <1>2, FinishedCorpus DEF DataOf
    <2>2. DataOf(s).postmortems \o DataOf(s).runbooks = DocsOf(drawn[s])
      BY <2>1 DEF DocsOf
    <2> QED
      BY <2>1, <2>2, DocumentsTell, DocumentIdsDiffer
  <1> QED
    BY <1>1, <1>2, StepsKeepTables, StepsKeepCorpus, PTL DEF SeedSpec

-----------------------------------------------------------------------------
\* No tool call disturbs the seeding.
THEOREM CallsChangeNothing == ServerSpec => SeedSpec
  <1>1. ServerInit => Init
    BY DEF ServerInit
  <1>2. [ServerNext]_serverVars => [SeedNext]_seedVars
    BY DEF ServerNext, ScriptSteps, CallTool, serverVars
  <1> QED
    BY <1>1, <1>2, PTL DEF ServerSpec, SeedSpec

-----------------------------------------------------------------------------
\* The whitelist of a table names columns it has, each of the type it is used as, and no
\* more of them than a call may name.
Consistent(table) ==
    LET a       == Allowed[table]
        columns == Columns[table]
    IN  /\ a.group_by \subseteq DOMAIN columns
        /\ \A f \in a.filter_columns : f \in DOMAIN columns /\ columns[f] = "text"
        /\ \A n \in a.numeric_columns : n \in DOMAIN columns /\ columns[n] = "number"
        /\ \A t \in a.time_column : columns[t] = "time"
        /\ table # "metrics_daily" <=> columns["id"] = "text"

Small(table) ==
    /\ IsFiniteSet(Allowed[table].group_by) /\ Cardinality(Allowed[table].group_by) <= MaxGroupBy
    /\ IsFiniteSet(Allowed[table].filter_columns)
    /\ Cardinality(Allowed[table].filter_columns) <= MaxFilters

LEMMA SmallSets ==
    ASSUME NEW a, NEW b, NEW c, NEW d
    PROVE  /\ IsFiniteSet({a}) /\ Cardinality({a}) <= 1
           /\ IsFiniteSet({a, b}) /\ Cardinality({a, b}) <= 2
           /\ IsFiniteSet({a, b, c}) /\ Cardinality({a, b, c}) <= 3
           /\ IsFiniteSet({a, b, c, d}) /\ Cardinality({a, b, c, d}) <= 4
  <1>1. IsFiniteSet({a}) /\ Cardinality({a}) = 1
    BY FS_Singleton
  <1>2. ASSUME NEW S, IsFiniteSet(S), NEW x
        PROVE  /\ IsFiniteSet(S \cup {x}) /\ Cardinality(S) \in Nat
               /\ Cardinality(S \cup {x}) <= Cardinality(S) + 1
               /\ Cardinality(S \cup {x}) \in Nat
    <2>1. Cardinality(S) \in Nat /\ IsFiniteSet(S \cup {x})
      BY <1>2, FS_CardinalityType, FS_AddElement
    <2>2. Cardinality(S \cup {x}) \in {Cardinality(S), Cardinality(S) + 1}
      BY <1>2, FS_AddElement
    <2> QED
      BY <2>1, <2>2
  <1>3. {a, b} = {a} \cup {b} /\ {a, b, c} = {a, b} \cup {c} /\ {a, b, c, d} = {a, b, c} \cup {d}
    OBVIOUS
  <1>4. IsFiniteSet({a, b}) /\ Cardinality({a, b}) \in Nat /\ Cardinality({a, b}) <= 2
    <2> DEFINE S == {a}
    <2>1. IsFiniteSet(S) /\ Cardinality(S) <= 1
      BY <1>1
    <2>2. {a, b} = S \cup {b}
      BY <1>3
    <2> HIDE DEF S
    <2>3. /\ IsFiniteSet(S \cup {b}) /\ Cardinality(S) \in Nat
          /\ Cardinality(S \cup {b}) <= Cardinality(S) + 1
          /\ Cardinality(S \cup {b}) \in Nat
      BY <1>2, <2>1
    <2>4. Cardinality(S \cup {b}) <= 2
      BY <2>1, <2>3
    <2> QED
      BY <2>2, <2>3, <2>4
  <1>5. IsFiniteSet({a, b, c}) /\ Cardinality({a, b, c}) \in Nat /\ Cardinality({a, b, c}) <= 3
    <2> DEFINE S == {a, b}
    <2>1. IsFiniteSet(S) /\ Cardinality(S) <= 2
      BY <1>4
    <2>2. {a, b, c} = S \cup {c}
      BY <1>3
    <2> HIDE DEF S
    <2>3. /\ IsFiniteSet(S \cup {c}) /\ Cardinality(S) \in Nat
          /\ Cardinality(S \cup {c}) <= Cardinality(S) + 1
          /\ Cardinality(S \cup {c}) \in Nat
      BY <1>2, <2>1
    <2>4. Cardinality(S \cup {c}) <= 3
      BY <2>1, <2>3
    <2> QED
      BY <2>2, <2>3, <2>4
  <1>6. IsFiniteSet({a, b, c, d}) /\ Cardinality({a, b, c, d}) \in Nat /\ Cardinality({a, b, c, d}) <= 4
    <2> DEFINE S == {a, b, c}
    <2>1. IsFiniteSet(S) /\ Cardinality(S) <= 3
      BY <1>5
    <2>2. {a, b, c, d} = S \cup {d}
      BY <1>3
    <2> HIDE DEF S
    <2>3. /\ IsFiniteSet(S \cup {d}) /\ Cardinality(S) \in Nat
          /\ Cardinality(S \cup {d}) <= Cardinality(S) + 1
          /\ Cardinality(S \cup {d}) \in Nat
      BY <1>2, <2>1
    <2>4. Cardinality(S \cup {d}) <= 4
      BY <2>1, <2>3
    <2> QED
      BY <2>2, <2>3, <2>4
  <1> QED
    BY <1>1, <1>4, <1>5, <1>6

LEMMA WhitelistIsConsistent ==
    ASSUME NEW table \in DOMAIN Allowed
    PROVE  Consistent(table) /\ Small(table)
  <1>1. DOMAIN Allowed = {"incidents", "tickets", "metrics_daily", "customers", "slas"}
    BY DEF Allowed
  <1>2. Consistent("incidents")
    BY DEF Consistent, Allowed, Columns
  <1>3. Consistent("tickets")
    BY DEF Consistent, Allowed, Columns
  <1>4. Consistent("metrics_daily")
    BY DEF Consistent, Allowed, Columns
  <1>5. Consistent("customers")
    BY DEF Consistent, Allowed, Columns
  <1>6. Consistent("slas")
    BY DEF Consistent, Allowed, Columns
  <1>7. IsFiniteSet(Allowed[table].group_by) /\ Cardinality(Allowed[table].group_by) <= 3
    <2>1. CASE table = "incidents"
      <3>1. Allowed[table].group_by = {"severity", "service", "root_cause_category"}
        BY <2>1 DEF Allowed
      <3>2. IsFiniteSet({"severity", "service", "root_cause_category"}) /\ Cardinality({"severity", "service", "root_cause_category"}) <= 3
        BY SmallSets
      <3> QED
        BY <3>1, <3>2, FS_CardinalityType
    <2>2. CASE table = "tickets"
      <3>1. Allowed[table].group_by = {"priority", "status"}
        BY <2>2 DEF Allowed
      <3>2. IsFiniteSet({"priority", "status"}) /\ Cardinality({"priority", "status"}) <= 2
        BY SmallSets
      <3> QED
        BY <3>1, <3>2, FS_CardinalityType
    <2>3. CASE table = "metrics_daily"
      <3>1. Allowed[table].group_by = {"service", "metric_name"}
        BY <2>3 DEF Allowed
      <3>2. IsFiniteSet({"service", "metric_name"}) /\ Cardinality({"service", "metric_name"}) <= 2
        BY SmallSets
      <3> QED
        BY <3>1, <3>2, FS_CardinalityType
    <2>4. CASE table = "customers"
      <3>1. Allowed[table].group_by = {"plan", "region"}
        BY <2>4 DEF Allowed
      <3>2. IsFiniteSet({"plan", "region"}) /\ Cardinality({"plan", "region"}) <= 2
        BY SmallSets
      <3> QED
        BY <3>1, <3>2, FS_CardinalityType
    <2>5. CASE table = "slas"
      <3>1. Allowed[table].group_by = {"tier"}
        BY <2>5 DEF Allowed
      <3>2. IsFiniteSet({"tier"}) /\ Cardinality({"tier"}) <= 1
        BY SmallSets
      <3> QED
        BY <3>1, <3>2, FS_CardinalityType
    <2> QED
      BY <1>1, <2>1, <2>2, <2>3, <2>4, <2>5
  <1>8. IsFiniteSet(Allowed[table].filter_columns) /\ Cardinality(Allowed[table].filter_columns) <= 4
    <2>1. CASE table = "incidents"
      <3>1. Allowed[table].filter_columns = {"severity", "service", "root_cause_category", "customer_id"}
        BY <2>1 DEF Allowed
      <3>2. IsFiniteSet({"severity", "service", "root_cause_category", "customer_id"}) /\ Cardinality({"severity", "service", "root_cause_category", "customer_id"}) <= 4
        BY SmallSets
      <3> QED
        BY <3>1, <3>2, FS_CardinalityType
    <2>2. CASE table = "tickets"
      <3>1. Allowed[table].filter_columns = {"priority", "status", "customer_id"}
        BY <2>2 DEF Allowed
      <3>2. IsFiniteSet({"priority", "status", "customer_id"}) /\ Cardinality({"priority", "status", "customer_id"}) <= 3
        BY SmallSets
      <3> QED
        BY <3>1, <3>2, FS_CardinalityType
    <2>3. CASE table = "metrics_daily"
      <3>1. Allowed[table].filter_columns = {"service", "metric_name"}
        BY <2>3 DEF Allowed
      <3>2. IsFiniteSet({"service", "metric_name"}) /\ Cardinality({"service", "metric_name"}) <= 2
        BY SmallSets
      <3> QED
        BY <3>1, <3>2, FS_CardinalityType
    <2>4. CASE table = "customers"
      <3>1. Allowed[table].filter_columns = {"plan", "region", "sla_id"}
        BY <2>4 DEF Allowed
      <3>2. IsFiniteSet({"plan", "region", "sla_id"}) /\ Cardinality({"plan", "region", "sla_id"}) <= 3
        BY SmallSets
      <3> QED
        BY <3>1, <3>2, FS_CardinalityType
    <2>5. CASE table = "slas"
      <3>1. Allowed[table].filter_columns = {"tier"}
        BY <2>5 DEF Allowed
      <3>2. IsFiniteSet({"tier"}) /\ Cardinality({"tier"}) <= 1
        BY SmallSets
      <3> QED
        BY <3>1, <3>2, FS_CardinalityType
    <2> QED
      BY <1>1, <2>1, <2>2, <2>3, <2>4, <2>5
  <1>9. Small(table)
    <2>1. Cardinality(Allowed[table].filter_columns) \in Nat
      BY <1>8, FS_CardinalityType
    <2> QED
      BY <1>7, <1>8, <2>1 DEF Small, MaxGroupBy, MaxFilters
  <1> QED
    BY <1>1, <1>2, <1>3, <1>4, <1>5, <1>6, <1>9

\* A list of distinct columns is no longer than the set they are from.
LEMMA DistinctColumns ==
    ASSUME NEW columns, columns \in Seq(Range(columns)), IsInjective(columns),
           NEW S, Range(columns) \subseteq S, IsFiniteSet(S)
    PROVE  Len(columns) <= Cardinality(S)
  <1> DEFINE n == Len(columns)
  <1>1. n \in Nat /\ DOMAIN columns = 1..n /\ \A i \in 1..n : columns[i] \in Range(columns)
    BY DEF Range
  <1>2. \A i, j \in 1..n : columns[i] = columns[j] => i = j
    BY <1>1 DEF IsInjective
  <1> DEFINE f == [i \in 1..n |-> columns[i]]
  <1> HIDE DEF n
  <1>3. f \in Injection(1..n, S)
    BY <1>1, <1>2 DEF Injection, IsInjective
  <1> HIDE DEF f
  <1>4. IsFiniteSet(1..n) /\ Cardinality(1..n) = n
    BY <1>1, FS_Interval
  <1>5. Cardinality(1..n) <= Cardinality(S)
    BY <1>3, FS_Injection
  <1> QED
    BY <1>4, <1>5 DEF n

\* What the database makes of an aggregate that passes validation: it runs, if its filter
\* values are texts.
LEMMA AcceptedAggregatesRun ==
    ASSUME NEW c, AggregateAccepted(c)
    PROVE  AggregateRuns(c) <=> NotText \notin Range(c.filters)
  <1> DEFINE table == c.table
  <1>1. table \in DOMAIN Allowed /\ Consistent(table)
    BY WhitelistIsConsistent DEF AggregateAccepted
  <1>2. /\ Range(c.group_by) \subseteq Allowed[table].group_by
        /\ DOMAIN c.filters \subseteq Allowed[table].filter_columns
        /\ c.agg_fn # "count" => c.column \in Allowed[table].numeric_columns
        /\ c.agg_fn \in AllowedAgg
        /\ c.start \cup c.end # {} => Allowed[table].time_column # {}
    BY DEF AggregateAccepted, GroupByAllowed, FilterKeysAllowed, NumericColumnAllowed, TimeAccepted
  <1>3. c.agg_fn \in {"sum", "avg"} => c.agg_fn # "count"
    OBVIOUS
  <1>4. (\A f \in DOMAIN c.filters : c.filters[f] # NotText) <=> NotText \notin Range(c.filters)
    BY DEF Range
  <1> QED
    BY <1>1, <1>2, <1>3, <1>4 DEF AggregateRuns, Consistent

\* An aggregate made of what list_schema offers passes validation.
LEMMA OfferedAggregatesPass ==
    ASSUME NEW c \in Calls, c.tool = "aggregate", Offered(c)
    PROVE  AggregateAccepted(c)
  <1> DEFINE table == c.table
  <1>1. /\ table \in DOMAIN Allowed
        /\ IsInjective(c.group_by) /\ Range(c.group_by) \subseteq Allowed[table].group_by
        /\ DOMAIN c.filters \subseteq Allowed[table].filter_columns
        /\ c.agg_fn \in AllowedAgg
        /\ c.agg_fn # "count" => c.column \in Allowed[table].numeric_columns
        /\ c.start \cup c.end # {} => Allowed[table].time_column # {}
        /\ Unparsable \notin c.start \cup c.end
    BY DEF Offered
  <1>2. c.group_by \in Seq(Range(c.group_by))
    BY CallsAreCalls
  <1>3. /\ IsFiniteSet(Allowed[table].group_by) /\ Cardinality(Allowed[table].group_by) <= MaxGroupBy
        /\ IsFiniteSet(Allowed[table].filter_columns)
        /\ Cardinality(Allowed[table].filter_columns) <= MaxFilters
    BY <1>1, WhitelistIsConsistent DEF Small
  <1>4. Len(c.group_by) <= MaxGroupBy
    <2>1. Len(c.group_by) <= Cardinality(Allowed[table].group_by)
      BY <1>1, <1>2, <1>3, DistinctColumns
    <2>2. Len(c.group_by) \in Nat /\ Cardinality(Allowed[table].group_by) \in Nat
      BY <1>2, <1>3, FS_CardinalityType
    <2> QED
      BY <1>3, <2>1, <2>2 DEF MaxGroupBy
  <1>5. Cardinality(DOMAIN c.filters) <= MaxFilters
    <2>1. /\ Cardinality(DOMAIN c.filters) \in Nat
          /\ Cardinality(DOMAIN c.filters) <= Cardinality(Allowed[table].filter_columns)
      BY <1>1, <1>3, FS_Subset, FS_CardinalityType
    <2>2. Cardinality(Allowed[table].filter_columns) \in Nat
      BY <1>3, FS_CardinalityType
    <2> QED
      BY <1>3, <2>1, <2>2 DEF MaxFilters
  <1>6. TimeAccepted(table, c.start, c.end)
    BY <1>1 DEF TimeAccepted
  <1> QED
    BY <1>1, <1>4, <1>5, <1>6
       DEF AggregateAccepted, GroupByAllowed, FilterKeysAllowed, NumericColumnAllowed

LEMMA OfferedCallsAreServed ==
    ASSUME NEW c \in Calls
    PROVE  /\ Offered(c) => Outcome(c) = IF Unchecked(c) THEN "failed" ELSE "answered"
           /\ Outcome(c) = "failed" => Unchecked(c)
  <1>1. CASE c.tool = "aggregate"
    <2>1. (Accepted(c) <=> AggregateAccepted(c)) /\ (Runs(c) <=> AggregateRuns(c))
      BY <1>1 DEF Accepted, Runs
    <2> QED
      BY <1>1, <2>1, AcceptedAggregatesRun, OfferedAggregatesPass DEF Outcome, Unchecked
  <1>2. CASE c.tool = "query_metrics"
    <2>1. (Accepted(c) <=> MetricAccepted(c)) /\ Runs(c)
      BY <1>2 DEF Accepted, Runs
    <2>2. Allowed["incidents"].time_column # {}
      BY DEF Allowed
    <2>3. Offered(c) => c.metric \in AllowedMetrics /\ Unparsable \notin c.start \cup c.end
      BY <1>2 DEF Offered
    <2>4. Offered(c) => Accepted(c)
      BY <2>1, <2>2, <2>3 DEF MetricAccepted, TimeAccepted
    <2> QED
      BY <1>2, <2>1, <2>4 DEF Outcome, Unchecked
  <1>3. CASE c.tool = "get_timeseries"
    <2>1. (Accepted(c) <=> SeriesAccepted(c)) /\ Runs(c)
      BY <1>3 DEF Accepted, Runs
    <2>2. Allowed["metrics_daily"].time_column # {}
      BY DEF Allowed
    <2>3. Offered(c) => c.granularity \in AllowedGranularity /\ Unparsable \notin c.start \cup c.end
      BY <1>3 DEF Offered
    <2>4. Offered(c) => Accepted(c)
      BY <2>1, <2>2, <2>3 DEF SeriesAccepted, TimeAccepted
    <2> QED
      BY <1>3, <2>1, <2>4 DEF Outcome, Unchecked
  <1>4. CASE c.tool = "get_record"
    <2>1. /\ Accepted(c) <=> c.table \in DOMAIN Allowed
          /\ Runs(c) <=> Columns[c.table]["id"] = "text"
      BY <1>4 DEF Accepted, Runs, RecordAccepted, RecordRuns
    <2>2. Offered(c) => c.table \in DOMAIN Allowed
      BY <1>4 DEF Offered
    <2>3. c.table \in DOMAIN Allowed => (Runs(c) <=> c.table # "metrics_daily")
      BY <2>1, WhitelistIsConsistent DEF Consistent
    <2> QED
      BY <1>4, <2>1, <2>2, <2>3 DEF Outcome, Unchecked
  <1> QED
    BY <1>1, <1>2, <1>3, <1>4, CallsAreCalls

\* A reply is what the server makes of a call.
RepliesAreOutcomes ==
    \A r \in reply : r.call \in Calls /\ r.outcome = Outcome(r.call)

LEMMA RepliesAreOfCalls == ServerSpec => []RepliesAreOutcomes
  <1>1. ServerInit => RepliesAreOutcomes
    BY DEF ServerInit, RepliesAreOutcomes
  <1>2. ASSUME RepliesAreOutcomes, [ServerNext]_serverVars PROVE RepliesAreOutcomes'
    <2>1. CASE ScriptSteps
      BY <2>1 DEF ScriptSteps, RepliesAreOutcomes
    <2>2. ASSUME NEW c \in Calls, CallTool(c) PROVE RepliesAreOutcomes'
      BY <2>2 DEF CallTool, RepliesAreOutcomes
    <2>3. CASE UNCHANGED serverVars
      BY <1>2, <2>3 DEF serverVars, RepliesAreOutcomes
    <2> QED
      BY <1>2, <2>1, <2>2, <2>3 DEF ServerNext
  <1> QED
    BY <1>1, <1>2, PTL DEF ServerSpec

\* The client that keeps to list_schema is served, and of all calls that pass the
\* validation of app/security/whitelist.py only get_record on metrics_daily and aggregates
\* with a filter value that is no text fail in the database: for any calls, with any
\* columns, filters and times.
THEOREM ServerServesOffers == ServerSpec => []OffersAreServed
  <1>1. RepliesAreOutcomes => OffersAreServed
    BY OfferedCallsAreServed DEF RepliesAreOutcomes, OffersAreServed
  <1> QED
    BY <1>1, RepliesAreOfCalls, PTL
-----------------------------------------------------------------------------
\* What SumFunction defines by recursion, element by element.
Sums(sum, f) == sum = [s \in SUBSET DOMAIN f |->
                          IF s = {} THEN 0
                          ELSE LET x == CHOOSE x \in s : TRUE IN f[x] + sum[s \ {x}]]

\* The recursion is true of the sets of at most n elements.
SumsUpTo(sum, f, n) ==
    \A s \in SUBSET DOMAIN f :
       Cardinality(s) <= n =>
          sum[s] = IF s = {} THEN 0
                   ELSE LET x == CHOOSE x \in s : TRUE IN f[x] + sum[s \ {x}]

\* A finite set without one of its elements.
LEMMA PickedIsOne ==
  ASSUME NEW S, IsFiniteSet(S), S # {}
  PROVE  /\ (CHOOSE x \in S : TRUE) \in S
         /\ Cardinality(S) \in Nat \ {0}
         /\ \A x \in S : /\ IsFiniteSet(S \ {x})
                         /\ Cardinality(S \ {x}) = Cardinality(S) - 1
<1>1. (CHOOSE x \in S : TRUE) \in S
  OBVIOUS
<1>2. Cardinality(S) \in Nat /\ Cardinality(S) # 0
  BY FS_CardinalityType, FS_EmptySet
<1>3. \A x \in S : IsFiniteSet(S \ {x}) /\ Cardinality(S \ {x}) = Cardinality(S) - 1
  BY FS_RemoveElement
<1> QED
  BY <1>1, <1>2, <1>3

\* One more element: sums up to n give sums up to n + 1.
LEMMA SumsGoOn ==
  ASSUME NEW f, IsFiniteSet(DOMAIN f), NEW n \in Nat, \E sum : SumsUpTo(sum, f, n)
  PROVE  \E sum : SumsUpTo(sum, f, n + 1)
<1>1. PICK low : SumsUpTo(low, f, n)
  OBVIOUS
<1> DEFINE pick(s) == CHOOSE x \in s : TRUE
           high == [s \in SUBSET DOMAIN f |->
                      IF s = {} THEN 0 ELSE f[pick(s)] + low[s \ {pick(s)}]]
<1>2. ASSUME NEW s \in SUBSET DOMAIN f, s # {}, Cardinality(s) <= n + 1
      PROVE  high[s] = f[pick(s)] + high[s \ {pick(s)}]
  <2> DEFINE rest == s \ {pick(s)}
  <2>1. IsFiniteSet(s)
    BY FS_Subset
  <2>2. pick(s) \in s /\ Cardinality(s) \in Nat \ {0} /\ Cardinality(rest) = Cardinality(s) - 1
    BY <1>2, <2>1, PickedIsOne
  <2>3. rest \in SUBSET DOMAIN f /\ Cardinality(rest) <= n
    BY <1>2, <2>2
  <2>4. low[rest] = IF rest = {} THEN 0 ELSE f[pick(rest)] + low[rest \ {pick(rest)}]
    BY <1>1, <2>3 DEF SumsUpTo
  <2>5. high[rest] = IF rest = {} THEN 0 ELSE f[pick(rest)] + low[rest \ {pick(rest)}]
    BY <2>3
  <2>6. high[s] = f[pick(s)] + low[rest]
    BY <1>2
  <2> QED
    BY <2>4, <2>5, <2>6
<1>3. \A s \in SUBSET DOMAIN f : s = {} => high[s] = 0
  OBVIOUS
<1>4. SumsUpTo(high, f, n + 1)
  BY <1>2, <1>3 DEF SumsUpTo
<1> QED
  BY <1>4

\* The sum of a function on a finite set exists: that of a set is that of the set without
\* an element, and this element.
LEMMA SumExists ==
  ASSUME NEW f, IsFiniteSet(DOMAIN f)
  PROVE  \E sum : /\ SumFunction(f) = sum[DOMAIN f]
                  /\ sum[{}] = 0
                  /\ \A s \in SUBSET DOMAIN f :
                        s # {} => \E x \in s : sum[s] = f[x] + sum[s \ {x}]
<1> DEFINE Some == {n \in Nat : \E sum : SumsUpTo(sum, f, n)}
<1>1. 0 \in Some
  <2> DEFINE zero == [s \in SUBSET DOMAIN f |-> 0]
  <2>1. ASSUME NEW s \in SUBSET DOMAIN f, Cardinality(s) <= 0 PROVE s = {}
    BY <2>1, FS_Subset, PickedIsOne
  <2>2. SumsUpTo(zero, f, 0)
    BY <2>1 DEF SumsUpTo
  <2> QED
    BY <2>2
<1>2. \A n \in Some : n + 1 \in Some
  BY SumsGoOn
<1>3. Some = Nat
  <2> HIDE DEF Some
  <2>1. Some \subseteq Nat
    BY DEF Some
  <2> QED
    BY <1>1, <1>2, <2>1, CountingUp
<1>4. \E sum : Sums(sum, f)
  <2>1. Cardinality(DOMAIN f) \in Nat
    BY FS_CardinalityType
  <2>2. PICK sum : SumsUpTo(sum, f, Cardinality(DOMAIN f))
    BY <1>3, <2>1
  <2> DEFINE pick(s) == CHOOSE x \in s : TRUE
             all == [s \in SUBSET DOMAIN f |-> sum[s]]
  <2>3. ASSUME NEW s \in SUBSET DOMAIN f
        PROVE  sum[s] = IF s = {} THEN 0 ELSE f[pick(s)] + sum[s \ {pick(s)}]
    <3>1. Cardinality(s) <= Cardinality(DOMAIN f)
      BY FS_Subset
    <3> QED
      BY <2>2, <3>1 DEF SumsUpTo
  <2>4. ASSUME NEW s \in SUBSET DOMAIN f
        PROVE  all[s] = IF s = {} THEN 0 ELSE f[pick(s)] + all[s \ {pick(s)}]
    BY <2>3
  <2>5. all = [s \in SUBSET DOMAIN f |->
                  IF s = {} THEN 0 ELSE f[pick(s)] + all[s \ {pick(s)}]]
    <3> DEFINE g == [s \in SUBSET DOMAIN f |->
                  IF s = {} THEN 0 ELSE f[pick(s)] + all[s \ {pick(s)}]]
    <3>1. \A s \in SUBSET DOMAIN f :
             g[s] = IF s = {} THEN 0 ELSE f[pick(s)] + all[s \ {pick(s)}]
      OBVIOUS
    <3>2. \A s \in SUBSET DOMAIN f : all[s] = g[s]
      BY <2>4, <3>1, Zenon
    <3>3. DOMAIN all = SUBSET DOMAIN f /\ DOMAIN g = SUBSET DOMAIN f
      OBVIOUS
    <3>4. all = [s \in DOMAIN all |-> all[s]] /\ g = [s \in DOMAIN g |-> g[s]]
      OBVIOUS
    <3> QED
      BY <3>2, <3>3, <3>4
  <2> QED
    BY <2>5 DEF Sums
<1>5. SumFunction(f) = (CHOOSE sum : Sums(sum, f))[DOMAIN f]
  BY DEF SumFunction, SumFunctionOnSet, FoldFunctionOnSet, MapThenFoldSet, Sums
<1>6. PICK sum : SumFunction(f) = sum[DOMAIN f] /\ Sums(sum, f)
  BY <1>4, <1>5
<1>7. sum[{}] = 0
  BY <1>6 DEF Sums
<1>8. ASSUME NEW s \in SUBSET DOMAIN f, s # {}
      PROVE  \E x \in s : sum[s] = f[x] + sum[s \ {x}]
  <2>1. PICK x \in s : x = CHOOSE y \in s : TRUE
    BY <1>8
  <2>2. sum[s] = f[x] + sum[s \ {x}]
    BY <1>6, <1>8, <2>1 DEF Sums
  <2> QED
    BY <2>2
<1> QED
  BY <1>6, <1>7, <1>8

\* A sum of numbers lies between its number of terms times the bounds of the terms.
LEMMA SumIsBetween ==
  ASSUME NEW f, IsFiniteSet(DOMAIN f), NEW low \in Int, NEW high \in Int,
         \A x \in DOMAIN f : f[x] \in Int /\ low <= f[x] /\ f[x] <= high
  PROVE  /\ SumFunction(f) \in Int
         /\ Cardinality(DOMAIN f) * low <= SumFunction(f)
         /\ SumFunction(f) <= Cardinality(DOMAIN f) * high
<1>1. PICK sum : /\ SumFunction(f) = sum[DOMAIN f]
                 /\ sum[{}] = 0
                 /\ \A s \in SUBSET DOMAIN f :
                       s # {} => \E x \in s : sum[s] = f[x] + sum[s \ {x}]
  BY SumExists
<1> DEFINE Within(s) == /\ sum[s] \in Int
                        /\ Cardinality(s) * low <= sum[s]
                        /\ sum[s] <= Cardinality(s) * high
           Good == {n \in Nat : \A s \in SUBSET DOMAIN f : Cardinality(s) = n => Within(s)}
<1>2. 0 \in Good
  <2>1. ASSUME NEW s \in SUBSET DOMAIN f, Cardinality(s) = 0 PROVE s = {}
    BY <2>1, FS_Subset, FS_EmptySet
  <2>2. Cardinality({}) = 0
    BY FS_EmptySet
  <2>3. 0 * low = 0 /\ 0 * high = 0
    OBVIOUS
  <2>4. Within({})
    BY <1>1, <2>2, <2>3
  <2> QED
    BY <2>1, <2>4
<1>3. ASSUME NEW n \in Good PROVE n + 1 \in Good
  <2> SUFFICES ASSUME NEW s \in SUBSET DOMAIN f, Cardinality(s) = n + 1 PROVE Within(s)
    OBVIOUS
  <2>1. IsFiniteSet(s) /\ s # {}
    BY FS_Subset, FS_EmptySet
  <2>2. PICK x \in s : sum[s] = f[x] + sum[s \ {x}]
    BY <1>1, <2>1
  <2>3. n \in Nat /\ Cardinality(s \ {x}) = n
    <3>1. Cardinality(s \ {x}) = Cardinality(s) - 1
      BY <2>1, PickedIsOne
    <3>2. n \in Nat
      OBVIOUS
    <3> QED
      BY <3>1, <3>2
  <2>4. Within(s \ {x})
    BY <2>3
  <2> DEFINE a == f[x]
             b == sum[s \ {x}]
  <2>5. a \in Int /\ low <= a /\ a <= high
    OBVIOUS
  <2>6. b \in Int /\ n * low <= b /\ b <= n * high
    BY <2>3, <2>4
  <2>7. (n + 1) * low = n * low + low /\ (n + 1) * high = n * high + high
    OBVIOUS
  <2>8. n * low \in Int /\ n * high \in Int
    OBVIOUS
  <2> HIDE DEF a, b
  <2>9. a + b \in Int /\ (n + 1) * low <= a + b /\ a + b <= (n + 1) * high
    <3> DEFINE p == n * low
               q == n * high
    <3>1. p \in Int /\ q \in Int /\ p <= b /\ b <= q
      BY <2>6, <2>8
    <3>2. (n + 1) * low = p + low /\ (n + 1) * high = q + high
      BY <2>7
    <3> HIDE DEF p, q
    <3>3. a + b \in Int /\ p + low <= a + b /\ a + b <= q + high
      BY <2>5, <2>6, <3>1
    <3> QED
      BY <3>2, <3>3
  <2>10. sum[s] = a + b
    BY <2>2 DEF a, b
  <2> QED
    BY <2>9, <2>10
<1>4. Good = Nat
  <2> HIDE DEF Good
  <2>1. Good \subseteq Nat
    BY DEF Good
  <2> QED
    BY <1>2, <1>3, <2>1, CountingUp
<1>5. Cardinality(DOMAIN f) \in Good
  BY <1>4, FS_CardinalityType
<1> QED
  BY <1>1, <1>5

\* Sets that have no element in common, counted one by one.
LEMMA DisjointSetsAddUp ==
  ASSUME NEW A, IsFiniteSet(A), \A g \in A : IsFiniteSet(g),
         \A g, h \in A : g # h => g \cap h = {}
  PROVE  /\ IsFiniteSet(UNION A)
         /\ SumFunction([g \in A |-> Cardinality(g)]) = Cardinality(UNION A)
<1> DEFINE f == [g \in A |-> Cardinality(g)]
<1>0. DOMAIN f = A
  OBVIOUS
<1>1. PICK sum : /\ SumFunction(f) = sum[A]
                 /\ sum[{}] = 0
                 /\ \A s \in SUBSET A :
                       s # {} => \E g \in s : sum[s] = f[g] + sum[s \ {g}]
  <2> HIDE DEF f
  <2>1. IsFiniteSet(DOMAIN f)
    BY <1>0
  <2>2. \E sum : /\ SumFunction(f) = sum[DOMAIN f]
                 /\ sum[{}] = 0
                 /\ \A s \in SUBSET DOMAIN f :
                       s # {} => \E g \in s : sum[s] = f[g] + sum[s \ {g}]
    BY <2>1, SumExists
  <2>3. DOMAIN f = A
    BY <1>0
  <2> QED
    BY ONLY <2>2, <2>3
<1> DEFINE Counted(s) == IsFiniteSet(UNION s) /\ sum[s] = Cardinality(UNION s)
           Good == {n \in Nat : \A s \in SUBSET A : Cardinality(s) = n => Counted(s)}
<1>2. 0 \in Good
  <2>1. ASSUME NEW s \in SUBSET A, Cardinality(s) = 0 PROVE s = {}
    BY <2>1, FS_Subset, FS_EmptySet
  <2>2. UNION {} = {} /\ IsFiniteSet({}) /\ Cardinality({}) = 0
    BY FS_EmptySet
  <2> QED
    BY <1>1, <2>1, <2>2
<1>3. ASSUME NEW n \in Good PROVE n + 1 \in Good
  <2> HIDE DEF Counted
  <2> SUFFICES ASSUME NEW s \in SUBSET A, Cardinality(s) = n + 1 PROVE Counted(s)
    OBVIOUS
  <2>1. IsFiniteSet(s) /\ s # {}
    BY FS_Subset, FS_EmptySet
  <2>2. PICK g \in s : sum[s] = f[g] + sum[s \ {g}]
    BY <1>1, <2>1
  <2>3. n \in Nat /\ Cardinality(s \ {g}) = n
    <3>1. Cardinality(s \ {g}) = Cardinality(s) - 1
      BY <2>1, PickedIsOne
    <3>2. n \in Nat
      OBVIOUS
    <3> QED
      BY <3>1, <3>2
  <2>4. Counted(s \ {g})
    BY <2>3
  <2> DEFINE others == UNION (s \ {g})
  <2>5. g \cap others = {} /\ UNION s = g \cup others
    OBVIOUS
  <2>6. IsFiniteSet(g) /\ f[g] = Cardinality(g)
    OBVIOUS
  <2>7. IsFiniteSet(others) /\ sum[s \ {g}] = Cardinality(others)
    BY <2>4 DEF Counted
  <2> HIDE DEF others
  <2>8. /\ IsFiniteSet(g \cup others)
        /\ Cardinality(g \cup others) =
              Cardinality(g) + Cardinality(others) - Cardinality(g \cap others)
    BY <2>6, <2>7, FS_Union
  <2>9. Cardinality(g \cap others) = 0 /\ Cardinality(g) \in Nat /\ Cardinality(others) \in Nat
    BY <2>5, <2>6, <2>7, FS_EmptySet, FS_CardinalityType
  <2>10. Cardinality(UNION s) = Cardinality(g) + Cardinality(others)
    <3> DEFINE a == Cardinality(g)
               b == Cardinality(others)
               c == Cardinality(g \cap others)
    <3>1. a \in Nat /\ b \in Nat /\ c = 0 /\ Cardinality(UNION s) = a + b - c
      BY <2>5, <2>8, <2>9
    <3> HIDE DEF a, b, c
    <3>2. Cardinality(UNION s) = a + b
      BY <3>1
    <3> QED
      BY <3>2 DEF a, b
  <2>11. sum[s] = Cardinality(g) + Cardinality(others)
    BY <2>2, <2>6, <2>7
  <2>12. IsFiniteSet(UNION s)
    BY <2>5, <2>8
  <2> QED
    BY <2>10, <2>11, <2>12 DEF Counted
<1>4. Good = Nat
  <2> HIDE DEF Good
  <2>1. Good \subseteq Nat
    BY DEF Good
  <2> QED
    BY <1>2, <1>3, <2>1, CountingUp
<1>5. Cardinality(A) \in Good
  BY <1>4, FS_CardinalityType
<1> QED
  BY <1>1, <1>5

\* A finite set of numbers has a least and a largest, which Min and Max choose.
LEMMA ExtremesExist ==
  ASSUME NEW T \in SUBSET Int, IsFiniteSet(T), T # {}
  PROVE  /\ Min(T) \in T /\ \A y \in T : Min(T) <= y
         /\ Max(T) \in T /\ \A y \in T : Max(T) >= y
<1> DEFINE Has(s) == /\ \E x \in s : \A y \in s : x <= y
                     /\ \E x \in s : \A y \in s : x >= y
           Good == {n \in Nat : \A s \in SUBSET T : Cardinality(s) = n /\ s # {} => Has(s)}
<1>1. 0 \in Good
  BY FS_Subset, PickedIsOne
<1>2. ASSUME NEW n \in Good PROVE n + 1 \in Good
  <2> SUFFICES ASSUME NEW s \in SUBSET T, Cardinality(s) = n + 1, s # {} PROVE Has(s)
    OBVIOUS
  <2>1. IsFiniteSet(s)
    BY FS_Subset
  <2>2. PICK x \in s : TRUE
    OBVIOUS
  <2>3. Cardinality(s \ {x}) = n
    BY <2>1, PickedIsOne
  <2>4. CASE s \ {x} = {}
    <3>1. ASSUME NEW y \in s PROVE y = x
      <4>1. y # x => y \in s \ {x}
        OBVIOUS
      <4> QED
        BY <2>4, <4>1, Zenon
    <3>4. x \in Int
      OBVIOUS
    <3>2. \A y \in s : y = x
      BY <3>1
    <3>3. x <= x /\ x >= x
      BY <3>4
    <3> QED
      BY <2>2, <3>2, <3>3
  <2>5. CASE s \ {x} # {}
    <3>1. Has(s \ {x})
      BY <2>3, <2>5
    <3>2. PICK a \in s \ {x} : \A y \in s \ {x} : a <= y
      BY <3>1
    <3>3. PICK b \in s \ {x} : \A y \in s \ {x} : b >= y
      BY <3>1
    <3>4. \A y \in s : y \in Int
      OBVIOUS
    <3>5. \E m \in s : \A y \in s : m <= y
      <4>1. CASE x <= a
        BY <3>2, <3>4, <4>1
      <4>2. CASE ~(x <= a)
        BY <3>2, <3>4, <4>2
      <4> QED
        BY <4>1, <4>2
    <3>6. \E m \in s : \A y \in s : m >= y
      <4>1. CASE x >= b
        BY <3>3, <3>4, <4>1
      <4>2. CASE ~(x >= b)
        BY <3>3, <3>4, <4>2
      <4> QED
        BY <4>1, <4>2
    <3> QED
      BY <3>5, <3>6
  <2> QED
    BY <2>4, <2>5
<1>3. Good = Nat
  <2> HIDE DEF Good
  <2>1. Good \subseteq Nat
    BY DEF Good
  <2> QED
    BY <1>1, <1>2, <2>1, CountingUp
<1>4. Has(T)
  <2>1. Cardinality(T) \in Good
    BY <1>3, FS_CardinalityType
  <2> QED
    BY <2>1
<1> QED
  BY <1>4 DEF Min, Max

-----------------------------------------------------------------------------
\* The incidents that are loaded: finitely many, their times numbers.
LEMMA IncidentsHaveTimes ==
  ASSUME DrawsFixed, CommittedIsOne
  PROVE  /\ IsFiniteSet(tables["incidents"])
         /\ \A r \in tables["incidents"] : r.opened_at \in Int /\ r.resolved_at \in Int
<1>1. CASE tables = EmptyTables
  <2>1. tables["incidents"] = {}
    BY <1>1 DEF EmptyTables, TableNames
  <2> QED
    BY <2>1, FS_EmptySet
<1>2. ASSUME NEW s \in Seeds, tables = Loaded(DataOf(s))
      PROVE  /\ IsFiniteSet(tables["incidents"])
             /\ \A r \in tables["incidents"] : r.opened_at \in Int /\ r.resolved_at \in Int
  <2> DEFINE rows == Incidents(drawn[s])
  <2>1. IsDraw(drawn[s])
    BY DrawsAreDraws DEF DrawsFixed
  <2>2. tables["incidents"] = Range(rows)
    BY <1>2 DEF Loaded, DataOf, Dataset, TableNames
  <2>3. DOMAIN rows = 1..NIncidents /\ Dataset(drawn[s])["incidents"] = rows
    BY DEF Incidents, Dataset
  <2>4. ASSUME NEW i \in 1..NIncidents
        PROVE  rows[i].opened_at \in Int /\ rows[i].resolved_at \in Int
    <3> DEFINE chosen == drawn[s].incidents[i]
               opened == Reference - chosen.age * Day
               length == IF chosen.minutes > 15 THEN chosen.minutes ELSE 15
    <3>1. chosen.age \in Nat /\ chosen.minutes \in Nat
      BY <2>1 DEF IsDraw
    <3>2. Reference \in Nat /\ Day \in Nat /\ Null \in Int
      BY SizesAreCounts DEF Day, Null
    <3>3. /\ rows[i].opened_at = opened
          /\ rows[i].resolved_at = IF chosen.age < 4 /\ chosen.open THEN Null ELSE opened + length
      BY DEF Incidents
    <3>4. length \in Int
      BY <3>1
    <3>5. opened \in Int
      BY <3>1, <3>2
    <3> HIDE DEF opened, length, chosen, rows
    <3>6. opened + length \in Int
      BY <3>4, <3>5
    <3> QED
      BY <3>2, <3>3, <3>5, <3>6
  <2>5. \A r \in Range(rows) : \E i \in 1..NIncidents : r = rows[i]
    BY <2>3 DEF Range
  <2>6. IsFiniteSet(Range(rows))
    <3>1. rows \in [DOMAIN rows -> Range(rows)] /\ IsFiniteSet(DOMAIN rows)
      BY <2>3, TablesAreFinite DEF TableNames
    <3> HIDE DEF rows
    <3>2. rows \in Surjection(DOMAIN rows, Range(rows))
      BY <3>1 DEF Surjection, Range
    <3> QED
      BY <3>1, <3>2, FS_Surjection
  <2> HIDE DEF rows
  <2> QED
    BY <2>2, <2>4, <2>5, <2>6
<1> QED
  BY <1>1, <1>2 DEF CommittedIsOne

\* A query selects finitely many of them.
LEMMA SelectedAreRows ==
  ASSUME DrawsFixed, CommittedIsOne, NEW filters, NEW start, NEW end
  PROVE  LET rows == Selected(tables, "incidents", filters, start, end)
         IN  rows \subseteq tables["incidents"] /\ IsFiniteSet(rows)
<1>1. Selected(tables, "incidents", filters, start, end) \subseteq tables["incidents"]
  BY DEF Selected
<1> QED
  BY <1>1, IncidentsHaveTimes, FS_Subset

\* GROUP BY: every row is in one group, and only without it may a group have no rows.
LEMMA GroupsPartition ==
  ASSUME NEW columns, NEW rows, IsFiniteSet(rows)
  PROVE  LET groups == Groups(columns, rows)
         IN  /\ IsFiniteSet(groups) /\ UNION groups = rows
             /\ \A g \in groups : g \subseteq rows /\ IsFiniteSet(g)
             /\ \A g, h \in groups : g # h => g \cap h = {}
             /\ {} \in groups => groups = {rows}
<1> DEFINE groups == Groups(columns, rows)
<1>1. CASE columns = <<>>
  <2>1. groups = {rows}
    BY <1>1 DEF Groups
  <2> HIDE DEF groups
  <2>2. IsFiniteSet(groups)
    BY <2>1, FS_Singleton
  <2>3. UNION groups = rows
    BY <2>1
  <2> QED
    BY <2>1, <2>2, <2>3 DEF groups
<1>2. CASE columns # <<>>
  <2> DEFINE key(r) == [col \in Range(columns) |-> r[col]]
             of(k)  == {r \in rows : key(r) = k}
  <2>1. groups = {of(k) : k \in {key(r) : r \in rows}}
    BY <1>2 DEF Groups
  <2>2. \A g \in groups : \E r \in rows : g = of(key(r))
    BY <2>1
  <2>3. \A r \in rows : of(key(r)) \in groups /\ r \in of(key(r))
    BY <2>1
  <2>4. \A k : \A r \in of(k) : r \in rows /\ key(r) = k
    OBVIOUS
  <2> HIDE DEF groups, key, of
  <2>5. \A g \in groups : g \subseteq rows /\ g # {}
    BY <2>2, <2>3, <2>4
  <2>6. \A g \in groups : IsFiniteSet(g)
    BY <2>5, FS_Subset
  <2>7. UNION groups = rows
    BY <2>3, <2>5
  <2>8. ASSUME NEW g \in groups, NEW h \in groups, NEW r \in g \cap h PROVE g = h
    <3>1. PICK a \in rows : g = of(key(a))
      BY <2>2
    <3>2. PICK b \in rows : h = of(key(b))
      BY <2>2
    <3>3. key(r) = key(a) /\ key(r) = key(b)
      BY <2>4, <3>1, <3>2
    <3> QED
      BY <3>1, <3>2, <3>3
  <2>9. IsFiniteSet(groups)
    <3>1. groups \subseteq SUBSET rows
      BY <2>5
    <3>2. IsFiniteSet(SUBSET rows)
      BY FS_SUBSET
    <3> QED
      BY <3>1, <3>2, FS_Subset
  <2> QED
    BY <2>5, <2>6, <2>7, <2>8, <2>9 DEF groups
<1> QED
  BY <1>1, <1>2

\* Which groups of incidents run_aggregate returns when it counts.
LEMMA LargestAreKept ==
  ASSUME NEW c, c.table = "incidents", c.agg_fn = "count",
         NEW answer \in Aggregate(tables, c),
         NEW rows, rows = Selected(tables, "incidents", c.filters, c.start, c.end),
         NEW groups, groups = Groups(c.group_by, rows), IsFiniteSet(groups),
         \A g \in groups : IsFiniteSet(g)
  PROVE  /\ answer \subseteq groups /\ Cardinality(answer) <= Cap
         /\ answer # groups => Cardinality(answer) = Cap
         /\ \A g \in answer, h \in groups \ answer : Cardinality(h) <= Cardinality(g)
<1> DEFINE figure == [g \in groups |-> Figure("count", c.column, g)]
           n == Cardinality(groups)
<1>1. answer \in {kept \in SUBSET groups :
                    /\ Cardinality(kept) = Min({n, Cap})
                    /\ \A g \in kept, h \in groups \ kept : ~Larger(figure[h], figure[g])}
  BY DEF Aggregate
<1>2. /\ answer \subseteq groups
      /\ Cardinality(answer) = Min({n, Cap})
      /\ \A g \in answer, h \in groups \ answer : ~Larger(figure[h], figure[g])
  BY <1>1
<1>3. \A g \in groups : figure[g] = <<Cardinality(g), 1>> /\ Cardinality(g) \in Nat
  BY FS_CardinalityType DEF Figure
<1>4. ASSUME NEW g \in answer, NEW h \in groups \ answer
      PROVE  Cardinality(h) <= Cardinality(g)
  <2>1. figure[g] = <<Cardinality(g), 1>> /\ figure[h] = <<Cardinality(h), 1>>
    BY <1>2, <1>3
  <2>2. ~Larger(figure[h], figure[g])
    BY <1>2
  <2>3. ~(Cardinality(h) * 1 > Cardinality(g) * 1)
    BY <2>1, <2>2 DEF Larger
  <2>4. Cardinality(g) \in Nat /\ Cardinality(h) \in Nat
    BY <1>2, <1>3
  <2> QED
    BY <2>3, <2>4
<1>5. n \in Nat /\ Cap \in Nat
  BY FS_CardinalityType, CapIsPositive
<1> HIDE DEF n
<1>6. Min({n, Cap}) \in {n, Cap} /\ Min({n, Cap}) <= n /\ Min({n, Cap}) <= Cap
  <2>1. {n, Cap} \in SUBSET Int /\ {n, Cap} # {}
    BY <1>5
  <2>2. {n, Cap} = {n} \cup {Cap} /\ IsFiniteSet({n})
    BY FS_Singleton
  <2>3. IsFiniteSet({n} \cup {Cap})
    BY <2>2, FS_AddElement
  <2> DEFINE both == {n, Cap}
  <2>4. both \in SUBSET Int /\ both # {} /\ IsFiniteSet(both) /\ n \in both /\ Cap \in both
    BY <2>1, <2>2, <2>3
  <2> HIDE DEF both
  <2>5. Min(both) \in both /\ \A y \in both : Min(both) <= y
    BY <2>4, ExtremesExist
  <2> QED
    BY <2>4, <2>5 DEF both
<1>7. ASSUME answer # groups PROVE Cardinality(answer) # n
  BY <1>2, <1>7, FS_Subset DEF n
<1> QED
  BY <1>2, <1>4, <1>6, <1>7

-----------------------------------------------------------------------------
\* The metric that counts incidents, and the one that counts open incidents.
LEMMA CountMetrics ==
  ASSUME NEW filters, NEW c
  PROVE  /\ Metric("incident_count", filters, c) =
               <<Cardinality(Selected(tables, "incidents", filters, c.start, c.end)), 1>>
         /\ Metric("unresolved_count", filters, c) =
               LET rows == Selected(tables, "incidents", filters, c.start, c.end)
               IN  <<Cardinality(rows \ {r \in rows : r.resolved_at # Unresolved}), 1>>
<1> DEFINE q(name) == [metric |-> name, filters |-> filters, start |-> c.start, end |-> c.end]
<1>1. \A name : /\ q(name).metric = name /\ q(name).filters = filters
                /\ q(name).start = c.start /\ q(name).end = c.end
  OBVIOUS
<1>2. \A name : Metric(name, filters, c) = QueryMetric(tables, q(name))
  BY DEF Metric
<1> HIDE DEF q
<1>3. /\ q("incident_count").metric = "incident_count"
      /\ q("unresolved_count").metric = "unresolved_count"
  BY <1>1
<1> QED
  BY <1>1, <1>2, <1>3 DEF QueryMetric

\* The rows with a value in a column, counted by incident_count, are a group of the
\* aggregate over that column.
LEMMA ValuesAreGroups ==
  ASSUME NEW c, NEW col, c.group_by = <<col>>, col \notin DOMAIN c.filters, NEW v,
         NEW rows, rows = Selected(tables, "incidents", c.filters, c.start, c.end),
         NEW some, some = Selected(tables, "incidents", Narrowed(c, v), c.start, c.end)
  PROVE  some = {} \/ some \in Groups(c.group_by, rows)
<1> DEFINE narrow == Narrowed(c, v)
<1>1. /\ DOMAIN narrow = {col} \cup DOMAIN c.filters
      /\ narrow[col] = v /\ \A f \in DOMAIN c.filters : narrow[f] = c.filters[f]
  BY DEF Narrowed
<1> HIDE DEF narrow
<1>2. \A r : (\A f \in DOMAIN narrow : r[f] = narrow[f])
                <=> (r[col] = v /\ \A f \in DOMAIN c.filters : r[f] = c.filters[f])
  BY <1>1
<1>3. some = {r \in rows : r[col] = v}
  BY <1>2 DEF Selected, narrow
<1> DEFINE key(r) == [x \in Range(c.group_by) |-> r[x]]
<1>4. Range(c.group_by) = {col}
  BY DEF Range
<1>5. \A r, s : key(r) = key(s) <=> r[col] = s[col]
  BY <1>4
<1>6. Groups(c.group_by, rows) = {{r \in rows : key(r) = k} : k \in {key(r) : r \in rows}}
  BY DEF Groups
<1> HIDE DEF key
<1>7. ASSUME NEW s \in some PROVE some \in Groups(c.group_by, rows)
  <2>1. s \in rows /\ s[col] = v
    BY <1>3
  <2>2. {r \in rows : key(r) = key(s)} = {r \in rows : r[col] = v}
    BY <1>5, <2>1
  <2> QED
    BY <1>3, <1>6, <2>1, <2>2
<1> QED
  BY <1>7

\* Groups have no row in common, so that their counts add up; what the cap cuts off was
\* not larger.
LEMMA CountsAddUp ==
  ASSUME DrawsFixed, CommittedIsOne, NEW c, c.table = "incidents", c.agg_fn = "count",
         c.group_by \in Seq(Range(c.group_by))
  PROVE  CountsAgree(c)
<1> SUFFICES ASSUME NEW answer \in Aggregate(tables, c)
             PROVE  LET counted == SumFunction([g \in answer |-> Cardinality(g)])
                        total   == Metric("incident_count", c.filters, c)[1]
                    IN  /\ counted = total \/ (counted < total /\ Cardinality(answer) = Cap)
                        /\ Len(c.group_by) = 1 /\ Head(c.group_by) \notin DOMAIN c.filters =>
                              \A i \in tables.incidents :
                                 Metric("incident_count", Narrowed(c, i[Head(c.group_by)]), c)[1]
                                    <= Max({0} \cup {Cardinality(g) : g \in answer})
  BY DEF CountsAgree
<1> DEFINE rows   == Selected(tables, "incidents", c.filters, c.start, c.end)
           groups == Groups(c.group_by, rows)
           counted == SumFunction([g \in answer |-> Cardinality(g)])
<1>1. IsFiniteSet(rows)
  BY SelectedAreRows
<1>2. /\ IsFiniteSet(groups) /\ UNION groups = rows
      /\ \A g \in groups : g \subseteq rows /\ IsFiniteSet(g)
      /\ \A g, h \in groups : g # h => g \cap h = {}
      /\ {} \in groups => groups = {rows}
  <2> HIDE DEF rows
  <2> QED
    BY <1>1, GroupsPartition
<1>3. /\ answer \subseteq groups /\ Cardinality(answer) <= Cap
      /\ answer # groups => Cardinality(answer) = Cap
      /\ \A g \in answer, h \in groups \ answer : Cardinality(h) <= Cardinality(g)
  BY <1>2, LargestAreKept
<1>4. Metric("incident_count", c.filters, c)[1] = Cardinality(rows)
  <2>1. Metric("incident_count", c.filters, c) = <<Cardinality(rows), 1>>
    BY CountMetrics
  <2> HIDE DEF rows
  <2> QED
    BY <2>1
<1>5. IsFiniteSet(answer) /\ Cardinality(answer) \in Nat /\ Cap \in Nat \ {0}
  BY <1>2, <1>3, FS_Subset, FS_CardinalityType, CapIsPositive
<1> HIDE DEF rows, groups
<1>6. IsFiniteSet(UNION answer) /\ counted = Cardinality(UNION answer)
  BY <1>2, <1>3, <1>5, DisjointSetsAddUp
<1>7. counted = Cardinality(rows) \/ (counted < Cardinality(rows) /\ Cardinality(answer) = Cap)
  <2>1. CASE answer = groups
    BY <1>2, <1>6, <2>1
  <2>2. CASE answer # groups
    <3>1. PICK h \in groups : h \notin answer
      BY <1>3, <2>2
    <3>2. h # {}
      <4>1. SUFFICES ASSUME h = {} PROVE FALSE
        OBVIOUS
      <4>2. groups = {rows} /\ answer = {}
        BY <1>2, <1>3, <3>1, <4>1
      <4>3. Cardinality(answer) = 0
        BY <4>2, FS_EmptySet
      <4> QED
        BY <1>3, <1>5, <2>2, <4>3
    <3>3. PICK r \in h : TRUE
      BY <3>2
    <3>4. r \in rows /\ r \notin UNION answer /\ UNION answer \subseteq rows
      BY <1>2, <1>3, <3>1
    <3>5. Cardinality(UNION answer) <= Cardinality(rows) /\ Cardinality(UNION answer) # Cardinality(rows)
      BY <1>1, <3>4, FS_Subset
    <3>6. Cardinality(UNION answer) \in Nat /\ Cardinality(rows) \in Nat
      BY <1>1, <1>6, FS_CardinalityType
    <3> QED
      BY <1>3, <1>6, <2>2, <3>5, <3>6
  <2> QED
    BY <2>1, <2>2
<1>8. ASSUME Len(c.group_by) = 1, Head(c.group_by) \notin DOMAIN c.filters, NEW v
      PROVE  Metric("incident_count", Narrowed(c, v), c)[1]
                <= Max({0} \cup {Cardinality(g) : g \in answer})
  <2> DEFINE col   == Head(c.group_by)
             some  == Selected(tables, "incidents", Narrowed(c, v), c.start, c.end)
             sizes == {0} \cup {Cardinality(g) : g \in answer}
  <2>1. c.group_by = <<col>>
    BY <1>8
  <2>2. Metric("incident_count", Narrowed(c, v), c)[1] = Cardinality(some)
    <3> DEFINE narrow == Narrowed(c, v)
    <3> HIDE DEF narrow
    <3>1. Metric("incident_count", narrow, c)
             = <<Cardinality(Selected(tables, "incidents", narrow, c.start, c.end)), 1>>
      BY CountMetrics
    <3> QED
      BY <3>1 DEF narrow
  <2>3. some = {} \/ some \in groups
    BY <1>8, <2>1, ValuesAreGroups DEF groups, rows
  <2> HIDE DEF col, some
  <2>4. /\ sizes \in SUBSET Int /\ IsFiniteSet(sizes) /\ 0 \in sizes
        /\ \A g \in answer : Cardinality(g) \in sizes
    <3> DEFINE size == [g \in answer |-> Cardinality(g)]
               of == {Cardinality(g) : g \in answer}
    <3>1. size \in Surjection(answer, of)
      BY DEF Surjection
    <3>2. IsFiniteSet(of)
      <4> HIDE DEF of, size
      <4> QED
        BY <1>5, <3>1, FS_Surjection
    <3>3. of \subseteq Int
      <4>1. \A g \in answer : Cardinality(g) \in Int
        BY <1>2, <1>3, FS_CardinalityType
      <4> QED
        BY <4>1
    <3>4. sizes = of \cup {0}
      OBVIOUS
    <3>5. \A g \in answer : Cardinality(g) \in of
      OBVIOUS
    <3> HIDE DEF of, sizes
    <3>6. IsFiniteSet(of \cup {0})
      BY <3>2, FS_AddElement
    <3> QED
      BY <3>3, <3>4, <3>5, <3>6
  <2> HIDE DEF sizes
  <2>5. Max(sizes) \in Int /\ \A n \in sizes : Max(sizes) >= n
    BY <2>4, ExtremesExist
  <2>6. Cardinality(some) <= Max(sizes)
    <3>1. CASE some = {}
      BY <2>4, <2>5, <3>1, FS_EmptySet
    <3>2. CASE some \in answer
      BY <2>4, <2>5, <3>2
    <3>3. CASE some \in groups \ answer
      <4>1. answer # {}
        BY <1>3, <1>5, <3>3, FS_EmptySet
      <4>2. PICK g \in answer : TRUE
        BY <4>1
      <4>3. Cardinality(some) <= Cardinality(g)
        BY <1>3, <3>3, <4>2
      <4>4. Cardinality(g) <= Max(sizes)
        BY <2>4, <2>5, <4>2
      <4>5. Cardinality(some) \in Nat /\ Cardinality(g) \in Nat
        BY <1>2, <1>3, <3>3, <4>2, FS_CardinalityType
      <4> QED
        BY <2>5, <4>3, <4>4, <4>5
    <3> QED
      BY <2>3, <3>1, <3>2, <3>3
  <2> QED
    BY <2>2, <2>6 DEF sizes, col
<1> QED
  BY <1>4, <1>7, <1>8

-----------------------------------------------------------------------------
\* The n-th row by resolution time exists.
LEMMA NthTimeExists ==
  ASSUME NEW rows, IsFiniteSet(rows), \A r \in rows : Minutes(r) \in Int,
         NEW n \in 1..Cardinality(rows)
  PROVE  \E v \in {Minutes(r) : r \in rows} :
            /\ Cardinality({r \in rows : Minutes(r) < v}) < n
            /\ Cardinality({r \in rows : Minutes(r) <= v}) >= n
<1> DEFINE times    == {Minutes(r) : r \in rows}
           below(v) == {r \in rows : Minutes(r) < v}
           upTo(v)  == {r \in rows : Minutes(r) <= v}
           enough   == {v \in times : Cardinality(upTo(v)) >= n}
<1>1. /\ times \in SUBSET Int /\ IsFiniteSet(times)
      /\ \A r \in rows : Minutes(r) \in times
      /\ \A v \in times : \E r \in rows : v = Minutes(r)
  <2> DEFINE f == [r \in rows |-> Minutes(r)]
  <2>1. f \in Surjection(rows, times)
    BY DEF Surjection
  <2>2. IsFiniteSet(times)
    <3> HIDE DEF f, times
    <3> QED
      BY <2>1, FS_Surjection
  <2> QED
    BY <2>2
<1>2. Cardinality(rows) \in Nat /\ n \in Nat \ {0} /\ n <= Cardinality(rows)
  BY FS_CardinalityType
<1>3. \A v : below(v) \subseteq rows /\ upTo(v) \subseteq rows
  OBVIOUS
<1>4. \A v : Cardinality(below(v)) \in Nat /\ Cardinality(upTo(v)) \in Nat
  <2> HIDE DEF below, upTo
  <2> QED
    BY <1>3, FS_Subset, FS_CardinalityType
<1>5. \A v, r : /\ r \in below(v) <=> r \in rows /\ Minutes(r) < v
                /\ r \in upTo(v) <=> r \in rows /\ Minutes(r) <= v
  OBVIOUS
<1>6. times # {}
  <2>1. rows # {}
    BY <1>2, FS_EmptySet
  <2> QED
    BY <1>1, <2>1
<1>7. /\ enough \subseteq times
      /\ \A v \in times : v \in enough <=> Cardinality(upTo(v)) >= n
  OBVIOUS
<1> HIDE DEF times, below, upTo, enough
<1>8. enough # {}
  <2>1. Max(times) \in times /\ \A y \in times : Max(times) >= y
    BY <1>1, <1>6, ExtremesExist
  <2>2. \A r \in rows : Minutes(r) <= Max(times)
    BY <1>1, <2>1
  <2>3. upTo(Max(times)) = rows
    BY <1>3, <1>5, <2>2
  <2> QED
    BY <1>2, <1>7, <2>1, <2>3
<1>9. Min(enough) \in enough /\ \A y \in enough : Min(enough) <= y
  <2>1. IsFiniteSet(enough) /\ enough \in SUBSET Int
    BY <1>1, <1>7, FS_Subset
  <2> QED
    BY <1>8, <2>1, ExtremesExist
<1>10. PICK v \in enough : \A y \in enough : v <= y
  BY <1>9
<1>11. Cardinality(below(v)) < n
  <2> DEFINE lower == {t \in times : t < v}
  <2>1. /\ \A t \in times : t < v => t \in lower
        /\ \A t \in lower : t \in times /\ t < v
    OBVIOUS
  <2> HIDE DEF lower
  <2>2. CASE lower = {}
    <3>1. below(v) = {}
      BY <1>1, <1>5, <2>1, <2>2
    <3> QED
      BY <1>2, <3>1, FS_EmptySet
  <2>3. CASE lower # {}
    <3>1. IsFiniteSet(lower) /\ lower \in SUBSET Int
      BY <1>1, <2>1, FS_Subset
    <3>2. Max(lower) \in lower /\ \A y \in lower : Max(lower) >= y
      BY <2>3, <3>1, ExtremesExist
    <3>3. PICK w \in lower : \A y \in lower : w >= y
      BY <3>2
    <3>4. /\ v \in Int /\ w \in Int /\ w \in times /\ w < v
          /\ \A t \in times : t \in Int
      BY <1>1, <1>7, <1>10, <2>1
    <3>5. \A t \in times : t < v => w >= t
      BY <2>1, <3>3
    <3>6. \A t \in times : t < v <=> t <= w
      BY <3>4, <3>5
    <3>7. below(v) = upTo(w)
      BY <1>1, <1>3, <1>5, <3>6
    <3>8. ~(v <= w)
      BY <3>4
    <3>9. ~(Cardinality(upTo(w)) >= n)
      BY <1>7, <1>10, <3>4, <3>8
    <3> QED
      BY <1>2, <1>4, <3>7, <3>9
  <2> QED
    BY <2>2, <2>3
<1>12. v \in times /\ Cardinality(upTo(v)) >= n
  BY <1>7, <1>10
<1> QED
  BY <1>11, <1>12 DEF times, below, upTo

\* The average and the median of some times are between the shortest and the longest.
LEMMA FiguresLieBetween ==
  ASSUME NEW rows, IsFiniteSet(rows), rows # {}, \A r \in rows : Minutes(r) \in Int,
         NEW times, times = {Minutes(r) : r \in rows},
         NEW figure \in {Average(rows), Median(rows)}
  PROVE  /\ figure[1] >= figure[2] * Min(times)
         /\ figure[1] <= figure[2] * Max(times)
<1>1. /\ times \in SUBSET Int /\ IsFiniteSet(times) /\ times # {}
      /\ \A r \in rows : Minutes(r) \in times
  <2> DEFINE f == [r \in rows |-> Minutes(r)]
  <2>1. f \in Surjection(rows, times)
    BY DEF Surjection
  <2>2. IsFiniteSet(times)
    <3> HIDE DEF f
    <3> QED
      BY <2>1, FS_Surjection
  <2> QED
    BY <2>2
<1>2. PICK low \in Int, high \in Int :
         /\ low = Min(times) /\ high = Max(times)
         /\ \A y \in times : low <= y /\ y <= high
  <2>1. /\ Min(times) \in times /\ \A y \in times : Min(times) <= y
        /\ Max(times) \in times /\ \A y \in times : Max(times) >= y
    BY <1>1, ExtremesExist
  <2>2. \A y \in times : y \in Int
    BY <1>1
  <2>3. \A y \in times : Max(times) >= y => y <= Max(times)
    BY <2>1, <2>2
  <2> QED
    BY <2>1, <2>2, <2>3
<1>3. CASE figure = Average(rows)
  <2> DEFINE f == [r \in rows |-> Minutes(r)]
  <2>1. DOMAIN f = rows /\ \A r \in rows : f[r] = Minutes(r)
    OBVIOUS
  <2>2. figure[1] = SumFunction(f) /\ figure[2] = Cardinality(rows)
    BY <1>3 DEF Average
  <2> HIDE DEF f
  <2>3. \A r \in DOMAIN f : f[r] \in Int /\ low <= f[r] /\ f[r] <= high
    BY <1>1, <1>2, <2>1
  <2>4. /\ SumFunction(f) \in Int
        /\ Cardinality(rows) * low <= SumFunction(f)
        /\ SumFunction(f) <= Cardinality(rows) * high
    BY <2>1, <2>3, SumIsBetween
  <2>5. Cardinality(rows) * low \in Int
    BY FS_CardinalityType
  <2>6. SumFunction(f) >= Cardinality(rows) * low
    BY <2>4, <2>5
  <2> QED
    BY <1>2, <2>2, <2>4, <2>6
<1>4. CASE figure = Median(rows)
  <2> DEFINE size   == Cardinality(rows)
             nth(n) == CHOOSE v \in {Minutes(r) : r \in rows} :
                          /\ Cardinality({r \in rows : Minutes(r) < v}) < n
                          /\ Cardinality({r \in rows : Minutes(r) <= v}) >= n
  <2>1. /\ figure[1] = nth((size + 1) \div 2) + nth((size + 2) \div 2)
        /\ figure[2] = 2
    BY <1>4 DEF Median
  <2>2. ASSUME NEW n \in 1..size PROVE nth(n) \in times
    <3>1. \E v \in {Minutes(r) : r \in rows} :
             /\ Cardinality({r \in rows : Minutes(r) < v}) < n
             /\ Cardinality({r \in rows : Minutes(r) <= v}) >= n
      BY NthTimeExists
    <3> QED
      BY <3>1
  <2>3. size \in Nat \ {0}
    BY FS_CardinalityType, FS_EmptySet
  <2> HIDE DEF size, nth
  <2>4. (size + 1) \div 2 \in 1..size /\ (size + 2) \div 2 \in 1..size
    BY <2>3
  <2> DEFINE a == nth((size + 1) \div 2)
             b == nth((size + 2) \div 2)
  <2>5. a \in times /\ b \in times
    BY <2>2, <2>4
  <2>6. figure[1] = a + b
    BY <2>1
  <2> HIDE DEF a, b
  <2>7. a \in Int /\ b \in Int /\ low <= a /\ a <= high /\ low <= b /\ b <= high
    BY <1>1, <1>2, <2>5
  <2>8. a + b >= 2 * low /\ a + b <= 2 * high
    BY <2>7
  <2> QED
    BY <1>2, <2>1, <2>6, <2>8
<1> QED
  BY <1>3, <1>4

\* The metrics of resolution times, by what they are computed from.
LEMMA TimeMetrics ==
  ASSUME NEW filters, NEW c,
         NEW rows, rows = Selected(tables, "incidents", filters, c.start, c.end),
         NEW resolved, resolved = {r \in rows : r.resolved_at # Unresolved},
         NEW name \in {"avg_resolution_minutes", "p50_resolution_minutes"}
  PROVE  /\ resolved = {} => Metric(name, filters, c) = NoFigure
         /\ resolved # {} => Metric(name, filters, c) \in {Average(resolved), Median(resolved)}
<1> DEFINE q == [metric |-> name, filters |-> filters, start |-> c.start, end |-> c.end]
<1>1. q.metric = name /\ q.filters = filters /\ q.start = c.start /\ q.end = c.end
  OBVIOUS
<1>2. Metric(name, filters, c) = QueryMetric(tables, q)
  BY DEF Metric
<1> HIDE DEF q
<1>3. name # "incident_count" /\ name # "unresolved_count"
  OBVIOUS
<1>4. CASE name = "avg_resolution_minutes"
  <2>1. QueryMetric(tables, q) = IF resolved = {} THEN NoFigure ELSE Average(resolved)
    BY <1>1, <1>4 DEF QueryMetric
  <2> QED
    BY <1>2, <2>1
<1>5. CASE name = "p50_resolution_minutes"
  <2>1. QueryMetric(tables, q) = IF resolved = {} THEN NoFigure ELSE Median(resolved)
    BY <1>1, <1>5 DEF QueryMetric
  <2> QED
    BY <1>2, <2>1
<1> QED
  BY <1>4, <1>5

\* The same of the incidents of a call.
LEMMA TimesLieBetween ==
  ASSUME DrawsFixed, CommittedIsOne, NEW c
  PROVE  TimesAgree(c)
<1> DEFINE rows     == Selected(tables, "incidents", c.filters, c.start, c.end)
           resolved == {r \in rows : r.resolved_at # Unresolved}
           times    == {Minutes(r) : r \in resolved}
           figure(name) == Metric(name, c.filters, c)
<1>1. IsFiniteSet(rows) /\ rows \subseteq tables["incidents"]
  BY SelectedAreRows
<1>2. \A r \in rows : Minutes(r) \in Int
  BY <1>1, IncidentsHaveTimes DEF Minutes
<1>3. /\ figure("incident_count") = <<Cardinality(rows), 1>>
      /\ figure("unresolved_count") = <<Cardinality(rows \ resolved), 1>>
  BY CountMetrics
<1>4. ASSUME NEW name \in {"avg_resolution_minutes", "p50_resolution_minutes"}
      PROVE  /\ resolved = {} => figure(name) = NoFigure
             /\ resolved # {} => figure(name) \in {Average(resolved), Median(resolved)}
  BY TimeMetrics
<1>5. resolved \subseteq rows
  OBVIOUS
<1> HIDE DEF rows, resolved, figure
<1>6. figure("unresolved_count") = figure("incident_count") <=> resolved = {}
  <2>1. CASE resolved = {}
    <3>1. rows \ resolved = rows
      BY <2>1
    <3> QED
      BY <1>3, <2>1, <3>1
  <2>2. CASE resolved # {}
    <3>1. PICK r \in resolved : TRUE
      BY <2>2
    <3>2. r \in rows /\ r \notin rows \ resolved /\ rows \ resolved \subseteq rows
      BY <1>5, <3>1
    <3>3. Cardinality(rows \ resolved) # Cardinality(rows)
      BY <1>1, <3>2, FS_Subset
    <3> QED
      BY <1>3, <2>2, <3>3
  <2> QED
    BY <2>1, <2>2
<1>7. ASSUME NEW name \in {"avg_resolution_minutes", "p50_resolution_minutes"}
      PROVE  IF figure("unresolved_count") = figure("incident_count")
             THEN figure(name) = NoFigure
             ELSE /\ figure(name)[1] >= figure(name)[2] * Min(times)
                  /\ figure(name)[1] <= figure(name)[2] * Max(times)
  <2>1. CASE resolved = {}
    BY <1>4, <1>6, <2>1
  <2>2. CASE resolved # {}
    <3>1. IsFiniteSet(resolved) /\ \A r \in resolved : Minutes(r) \in Int
      BY <1>1, <1>2, <1>5, FS_Subset
    <3>2. figure(name) \in {Average(resolved), Median(resolved)}
      BY <1>4, <2>2
    <3>3. times = {Minutes(r) : r \in resolved}
      OBVIOUS
    <3> HIDE DEF times
    <3>4. /\ figure(name)[1] >= figure(name)[2] * Min(times)
          /\ figure(name)[1] <= figure(name)[2] * Max(times)
      BY <2>2, <3>1, <3>2, <3>3, FiguresLieBetween
    <3> QED
      BY <1>6, <2>2, <3>4
  <2> QED
    BY <2>1, <2>2
<1> QED
  BY <1>7 DEF TimesAgree, times, rows, resolved, figure

\* The columns of incidents have no number to aggregate, so that an accepted aggregate of
\* them counts.
LEMMA AcceptedCallsAgree ==
  ASSUME DrawsFixed, CommittedIsOne, NEW c \in Calls, Outcome(c) = "answered"
  PROVE  /\ c.tool = "aggregate" /\ c.table = "incidents" => CountsAgree(c)
         /\ c.tool = "query_metrics" => TimesAgree(c)
<1>1. ASSUME c.tool = "aggregate", c.table = "incidents" PROVE CountsAgree(c)
  <2>1. Accepted(c)
    BY DEF Outcome
  <2>2. AggregateAccepted(c)
    BY <1>1, <2>1 DEF Accepted
  <2>3. c.agg_fn # "count" => c.column \in Allowed["incidents"].numeric_columns
    BY <1>1, <2>2 DEF AggregateAccepted, NumericColumnAllowed
  <2>4. Allowed["incidents"].numeric_columns = {}
    BY DEF Allowed
  <2>5. c.agg_fn = "count"
    BY <2>3, <2>4
  <2>6. c.group_by \in Seq(Range(c.group_by))
    BY <1>1, CallsAreCalls
  <2> QED
    BY <1>1, <2>5, <2>6, CountsAddUp
<1> QED
  BY <1>1, TimesLieBetween

\* The tools that answer one question of the incidents agree, whatever was seeded and
\* whichever columns, filters, times and cap: the counts of an aggregate add up to the
\* metric unless the cap cut groups off, the first group is the largest, and the average
\* and the median lie between the shortest and the longest resolution.
THEOREM ToolsAgree == ServerSpec => []FiguresAgree
<1>1. SeedSpec => []TablesInv
  <2>1. Init => TablesInv
    BY DEF Init, TablesInv, DrawsFixed, RunIsKnown, CommittedIsOne, TransactionIsPart,
           OutcomeIsTrue, Loading, TableNames
  <2> QED
    BY <2>1, StepsKeepTables, PTL DEF SeedSpec
<1>2. TablesInv /\ RepliesAreOutcomes => FiguresAgree
  BY AcceptedCallsAgree DEF TablesInv, RepliesAreOutcomes, FiguresAgree
<1> QED
  BY <1>1, <1>2, CallsChangeNothing, RepliesAreOfCalls, PTL
=============================================================================
