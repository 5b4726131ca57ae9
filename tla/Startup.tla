------------------------------ MODULE Startup ------------------------------
(***************************************************************************)
(* The start of the backend (main.py, bootstrap.py, db.py, kafka_setup.py, *)
(* config.py): settings, schema and CDC publication, seed of the empty     *)
(* tables, seed of the topics; then requests on a bounded connection pool. *)
(* Several instances may start, crash and start again on one database.     *)
(*                                                                         *)
(* PostgreSQL is external: what a transaction creates is invisible until   *)
(* its commit; a second transaction that creates the same object waits for *)
(* the first to end, and fails when it has committed.                      *)
(***************************************************************************)
EXTENDS Naturals, Sequences, FiniteSets

CONSTANTS
    Instances, Workers,  \* processes; threads that serve requests in each
    TableSeq,            \* the tables, in the order of init_and_seed
    Listed,              \* tables whose service keeps a list with SINK=kafka
    Keys, TableOf,       \* row ids; TableOf[k]: the table of the row k
    Parents,             \* Parents[k]: the rows k refers to
    Settings,            \* settings the instances may share
    LocalHosts,          \* _LOCAL_HOSTS
    RemoteHosts,         \* hosts of databases a CDC connector reads
    None,
    PoolSize,            \* maxconn
    MaxFaults,           \* bound: failures and crashes
    MaxWrites            \* bound: writes by requests

Tables == {TableSeq[i] : i \in DOMAIN TableSeq}
Publication == <<"publication">>
Objects == {<<t>> : t \in Tables} \cup {<<"in publication", t>> : t \in Tables}
              \cup {Publication}
Resources == Tables \X (1..3)

ASSUME StartupConstantsOK ==
    /\ TableSeq \in Seq(Tables) /\ TableSeq # <<>> /\ Listed \subseteq Tables
    /\ TableOf \in [Keys -> Tables] /\ Parents \in [Keys -> SUBSET Keys]
    /\ \A k \in Keys : \A p \in Parents[k] : \A n \in DOMAIN TableSeq :   \* parents first
          TableSeq[n] = TableOf[k] => \E m \in 1..(n - 1) : TableSeq[m] = TableOf[p]
    /\ None \notin RemoteHosts \cup {"seed", "written"}
    /\ \A s \in Settings : s.sink \in {"postgres", "kafka"}
    /\ RemoteHosts \cap LocalHosts = {}
    /\ "publication" \notin Tables
    /\ PoolSize \in Nat \ {0} /\ MaxFaults \in Nat /\ MaxWrites \in Nat

VARIABLES
    settings,   \* the environment the instances start with
    objects,    \* committed objects of the database
    creating,   \* creating[i]: objects in the open transaction of i
    rows,       \* rows[k]: None, "seed", or "written" by a request
    deleted,    \* a request has deleted a row
    resources,  \* topic (1), key schema (2), value schema (3) of each table
    origins,    \* who has published to the topic of a table: <<who, table>>
    pc, at,     \* pc[i]: step of instance i; at[i]: its table and sub-step
    producers,  \* producers[i]: tables whose producer i has initialised
    used,       \* used[i]: connections i has taken from its pool
    working,    \* working[i]: threads of i within a transaction
    faults, writes
vars == <<settings, objects, creating, rows, deleted, resources, origins, pc, at,
          producers, used, working, faults, writes>>

Init ==
    /\ settings \in Settings
    /\ \/ objects = {} /\ rows = [k \in Keys |-> None]
       \/ objects = Objects /\ rows = [k \in Keys |-> "seed"]   \* already in use
    /\ creating = [i \in Instances |-> {}] /\ deleted = FALSE
    /\ resources = {} /\ origins = {}
    /\ pc = [i \in Instances |-> "off"] /\ at = [i \in Instances |-> <<1, 1>>]
    /\ producers = [i \in Instances |-> {}]
    /\ used = [i \in Instances |-> 0] /\ working = [i \in Instances |-> {}]
    /\ faults = 0 /\ writes = 0
-----------------------------------------------------------------------------
\* Any host that is not explicitly local has a connector.
OwnsUnlessRemote(host) == host = "rds"         \* mutant: only RDS has one
HostOwnsCdc(host) == host # None /\ host \notin LocalHosts
ConnectorEnabled ==
    IF settings.connector = None THEN HostOwnsCdc(settings.host) ELSE settings.connector
ConnectorRuns == settings.host \in RemoteHosts            \* external

Goto(i, step) == pc' = [pc EXCEPT ![i] = step]
Move(i, table, sub) == at' = [at EXCEPT ![i] = <<table, sub>>]
Database == UNCHANGED <<objects, creating, rows, deleted>>
Kafka == UNCHANGED <<resources, origins, producers>>
Requests == UNCHANGED <<working, deleted, writes>>
Env == UNCHANGED <<settings, faults>>
Take(i) == used' = [used EXCEPT ![i] = @ + 1]
PutBack(i) == used' = [used EXCEPT ![i] = @ - 1]

\* An exception that reaches lifespan ends the process; its transaction is
\* rolled back and its connections are closed.
Exit(i) ==
    /\ Goto(i, "off") /\ Move(i, 1, 1)
    /\ creating' = [creating EXCEPT ![i] = {}]
    /\ producers' = [producers EXCEPT ![i] = {}]
    /\ used' = [used EXCEPT ![i] = 0]
    /\ working' = [working EXCEPT ![i] = {}]

\* lifespan: what to do with SINK, and then with KAFKA_SEED_ON_START.
AfterSink == IF settings.seed /\ ~ConnectorEnabled THEN "ensure" ELSE "serving"
Start(i) ==
    /\ pc[i] = "off"
    /\ \/ settings.sink = "postgres" /\ Goto(i, "look")
       \/ settings.sink = "kafka" /\ Goto(i, AfterSink)
    /\ Database /\ Kafka /\ Requests /\ Env /\ UNCHANGED <<at, used>>
-----------------------------------------------------------------------------
\* Customers before accounts before transactions.
TableAtReversed(i) == TableSeq[Len(TableSeq) + 1 - at[i][1]]   \* mutant: children first
TableAt(i) == TableSeq[at[i][1]]

\* init_schema: the table, the publication, the table's place in it, each looked
\* for and created when absent, in one transaction.
Wanted(i) ==
    <<<<TableAt(i)>>, Publication, <<"in publication", TableAt(i)>>>>[at[i][2]]
NextObject(i) ==
    IF at[i][2] = 3 THEN Goto(i, "commit") /\ UNCHANGED at
                    ELSE Goto(i, "look") /\ Move(i, at[i][1], at[i][2] + 1)
Look(i) ==
    /\ pc[i] = "look"
    /\ \/ Wanted(i) \in objects \cup creating[i] /\ NextObject(i)
       \/ /\ Wanted(i) \notin objects \cup creating[i]
          /\ Goto(i, "create") /\ UNCHANGED at
    /\ IF at[i][2] = 1 THEN Take(i) ELSE UNCHANGED used
    /\ Database /\ Kafka /\ Requests /\ Env

Create(i) ==
    /\ pc[i] = "create"
    /\ \A j \in Instances \ {i} : Wanted(i) \notin creating[j]
    /\ \/ /\ Wanted(i) \notin objects
          /\ creating' = [creating EXCEPT ![i] = @ \cup {Wanted(i)}]
          /\ NextObject(i)
          /\ UNCHANGED <<producers, used, working>>
       \/ Wanted(i) \in objects /\ Exit(i)     \* created meanwhile
    /\ Env /\ UNCHANGED <<objects, rows, deleted, resources, origins, writes>>

CommitSchema(i) ==
    /\ pc[i] = "commit"
    /\ objects' = objects \cup creating[i]
    /\ creating' = [creating EXCEPT ![i] = {}]
    /\ Goto(i, "count")
    /\ PutBack(i)
    /\ Kafka /\ Requests /\ Env /\ UNCHANGED <<rows, at>>

\* seed_if_empty: the count and the inserts are one transaction, ON CONFLICT DO
\* NOTHING; a row whose parent is missing rolls it back and is logged.
InTable(t) == {k \in Keys : TableOf[k] = t}
NextTable(i) ==
    IF at[i][1] = Len(TableSeq) THEN Goto(i, AfterSink) /\ Move(i, 1, 1)
    ELSE Goto(i, "look") /\ Move(i, at[i][1] + 1, 1)
Count(i) ==
    /\ pc[i] = "count"
    /\ \/ /\ \A k \in InTable(TableAt(i)) : rows[k] = None
          /\ Goto(i, "insert") /\ Take(i) /\ UNCHANGED at
       \/ /\ \E k \in InTable(TableAt(i)) : rows[k] # None
          /\ NextTable(i) /\ UNCHANGED used
    /\ Database /\ Kafka /\ Requests /\ Env

SeededOver(row) == "seed"                      \* mutant: DO UPDATE
Seeded(row) == IF row = None THEN "seed" ELSE row
Insert(i) ==
    /\ pc[i] = "insert"
    /\ \/ /\ \A k \in InTable(TableAt(i)) : \A p \in Parents[k] : rows[p] # None
          /\ rows' = [k \in Keys |-> IF k \in InTable(TableAt(i)) THEN Seeded(rows[k])
                                                                  ELSE rows[k]]
       \/ /\ \E k \in InTable(TableAt(i)) : \E p \in Parents[k] : rows[p] = None
          /\ UNCHANGED rows
    /\ NextTable(i) /\ PutBack(i)
    /\ Kafka /\ Requests /\ Env /\ UNCHANGED <<objects, creating>>

\* The database or the CSV file fails: startup raises.
StartFails(i) ==
    /\ pc[i] \in {"look", "create", "commit", "count", "insert"} /\ faults < MaxFaults
    /\ faults' = faults + 1
    /\ Exit(i)
    /\ UNCHANGED <<settings, objects, rows, deleted, resources, origins, writes>>
-----------------------------------------------------------------------------
\* seed_kafka: the producer of each table is initialised (topic and schemas
\* ensured), the records are produced and flushed for 5 seconds.
PutBefore(i) ==                                \* mutant: cached, then provisioned
    /\ pc[i] = "ensure"
    /\ producers' = [producers EXCEPT ![i] = @ \cup {TableAt(i)}]
    /\ resources' = resources \cup {<<TableAt(i), at[i][2]>>}
    /\ \/ at[i][2] < 3 /\ Move(i, at[i][1], at[i][2] + 1) /\ UNCHANGED pc
       \/ at[i][2] = 3 /\ Goto(i, "produce") /\ Move(i, at[i][1], 1)
    /\ Database /\ Requests /\ Env /\ UNCHANGED <<origins, used>>
Ensure(i) ==
    /\ pc[i] = "ensure"
    /\ \/ /\ TableAt(i) \notin producers[i]
          /\ resources' = resources \cup {<<TableAt(i), at[i][2]>>}
          /\ \/ at[i][2] < 3 /\ Move(i, at[i][1], at[i][2] + 1) /\ UNCHANGED <<pc, producers>>
             \/ /\ at[i][2] = 3
                /\ producers' = [producers EXCEPT ![i] = @ \cup {TableAt(i)}]
                /\ Goto(i, "produce") /\ Move(i, at[i][1], 1)
       \/ /\ TableAt(i) \in producers[i]
          /\ Goto(i, "produce")
          /\ UNCHANGED <<resources, producers, at>>
    /\ Database /\ Requests /\ Env /\ UNCHANGED <<origins, used>>

ProduceRetried(i) ==                           \* mutant: until it is delivered
    /\ pc[i] = "produce"
    /\ \/ /\ origins' = origins \cup {<<"app", TableAt(i)>>}
          /\ IF at[i][1] = Len(TableSeq) THEN Goto(i, "serving") /\ Move(i, 1, 1)
             ELSE Goto(i, "ensure") /\ Move(i, at[i][1] + 1, 1)
       \/ Goto(i, "ensure") /\ UNCHANGED <<origins, at>>
    /\ Database /\ Requests /\ Env /\ UNCHANGED <<resources, producers, used>>
Produce(i) ==
    /\ pc[i] = "produce"
    /\ \/ origins' = origins \cup {<<"app", TableAt(i)>>}
       \/ UNCHANGED origins                    \* the broker has not answered
    /\ IF at[i][1] = Len(TableSeq) THEN Goto(i, "serving") /\ Move(i, 1, 1)
       ELSE Goto(i, "ensure") /\ Move(i, at[i][1] + 1, 1)
    /\ Database /\ Requests /\ Env /\ UNCHANGED <<resources, producers, used>>

\* Whatever raises is logged; the rest of the seed is skipped.
SeedKafkaFails(i) ==
    /\ pc[i] \in {"ensure", "produce"} /\ faults < MaxFaults
    /\ faults' = faults + 1
    /\ Goto(i, "serving") /\ Move(i, 1, 1)
    /\ Database /\ Kafka /\ Requests /\ UNCHANGED <<settings, used>>
-----------------------------------------------------------------------------
\* A request: get_conn raises when the pool is exhausted (500, and no change).
BeginUncapped(i, w) ==                         \* mutant: a pool without maxconn
    /\ pc[i] = "serving" /\ settings.sink = "postgres" /\ w \notin working[i]
    /\ writes < MaxWrites
    /\ writes' = writes + 1
    /\ working' = [working EXCEPT ![i] = @ \cup {w}]
    /\ Take(i)
    /\ Database /\ Kafka /\ Env /\ UNCHANGED <<pc, at>>
Begin(i, w) ==
    /\ pc[i] = "serving" /\ settings.sink = "postgres" /\ w \notin working[i]
    /\ used[i] < PoolSize /\ writes < MaxWrites
    /\ writes' = writes + 1
    /\ working' = [working EXCEPT ![i] = @ \cup {w}]
    /\ Take(i)
    /\ Database /\ Kafka /\ Env /\ UNCHANGED <<pc, at>>

\* cursor: commit or roll back, and give the connection back.
PutOnCommit(i, committed) ==                   \* mutant: kept after an error
    IF committed THEN PutBack(i) ELSE UNCHANGED used
Finish(i, committed) == PutBack(i)
ForeignKeysHold(k, row) ==                     \* external: PostgreSQL
    IF row = None THEN \A c \in Keys : k \in Parents[c] => rows[c] = None
                  ELSE \A p \in Parents[k] : rows[p] # None
\* The event of a write, from the producer of the table. The first use makes the
\* producer; what raises on the way leaves the topic, and perhaps schemas, behind.
Publish(i, t) ==
    \/ /\ \/ UNCHANGED resources
          \/ /\ t \notin producers[i]
             /\ \E n \in 1..3 : resources' = resources \cup ({t} \X (1..n))
       /\ UNCHANGED <<producers, origins>>
    \/ /\ producers' = [producers EXCEPT ![i] = @ \cup {t}]
       /\ resources' = IF t \in producers[i] THEN resources ELSE resources \cup ({t} \X (1..3))
       /\ origins' \in {origins, origins \cup {<<"app", t>>}}
MaybeEmit(i, t) ==
    IF settings.produce /\ ~ConnectorEnabled THEN Publish(i, t) ELSE Kafka
Commit(i, w) ==
    /\ w \in working[i]
    /\ working' = [working EXCEPT ![i] = @ \ {w}]
    /\ \E k \in Keys, row \in {None, "written"} :
          /\ ForeignKeysHold(k, row)
          /\ rows' = [rows EXCEPT ![k] = row]
          /\ deleted' = (deleted \/ row = None)
          /\ MaybeEmit(i, TableOf[k])
    /\ Finish(i, TRUE)
    /\ Env /\ UNCHANGED <<objects, creating, pc, at, writes>>
\* With SINK=kafka a write goes to the list in memory and is published whatever
\* the flags say; no connection is taken.
ListWrite(i, t) ==
    /\ pc[i] = "serving" /\ settings.sink = "kafka" /\ writes < MaxWrites
    /\ writes' = writes + 1
    /\ Publish(i, t)
    /\ Database /\ Env /\ UNCHANGED <<pc, at, used, working>>
Rollback(i, w) ==
    /\ w \in working[i]
    /\ working' = [working EXCEPT ![i] = @ \ {w}]
    /\ Finish(i, FALSE)
    /\ Database /\ Kafka /\ Env /\ UNCHANGED <<pc, at, writes>>

Crash(i) ==
    /\ pc[i] # "off" /\ faults < MaxFaults
    /\ faults' = faults + 1
    /\ Exit(i)
    /\ UNCHANGED <<settings, objects, rows, deleted, resources, origins, writes>>

\* External: the connector publishes what the database holds.
Connector ==
    /\ ConnectorRuns
    /\ \E k \in Keys : /\ rows[k] # None /\ <<"in publication", TableOf[k]>> \in objects
                      /\ origins' = origins \cup {<<"connector", TableOf[k]>>}
    /\ Database /\ Requests /\ Env /\ UNCHANGED <<pc, at, resources, producers, used>>

Step(i) ==
    \/ Look(i) \/ Create(i) \/ CommitSchema(i) \/ Count(i) \/ Insert(i)
    \/ Ensure(i) \/ Produce(i)
Next ==
    \/ Connector
    \/ \E i \in Instances :
         \/ Start(i) \/ Step(i) \/ StartFails(i) \/ SeedKafkaFails(i) \/ Crash(i)
         \/ \E w \in Workers : Begin(i, w) \/ Commit(i, w) \/ Rollback(i, w)
         \/ \E t \in Listed : ListWrite(i, t)

Spec == Init /\ [][Next]_vars
FairSpec == Spec /\ \A i \in Instances : WF_vars(Step(i))
-----------------------------------------------------------------------------
(* Properties *)
Serving == {i \in Instances : pc[i] = "serving"}
OnPostgres == settings.sink = "postgres"

\* Every variable has its type.
TypeOK ==
    /\ settings \in Settings /\ objects \subseteq Objects
    /\ creating \in [Instances -> SUBSET Objects]
    /\ rows \in [Keys -> {None, "seed", "written"}] /\ deleted \in BOOLEAN
    /\ resources \subseteq Resources /\ origins \subseteq ({"app", "connector"} \X Tables)
    /\ pc \in [Instances -> {"off", "look", "create", "commit", "count", "insert",
                             "ensure", "produce", "serving"}]
    /\ at \in [Instances -> (1..Len(TableSeq)) \X (1..3)]
    /\ producers \in [Instances -> SUBSET Tables]
    /\ used \in [Instances -> 0..PoolSize] /\ working \in [Instances -> SUBSET Workers]
    /\ faults \in 0..MaxFaults /\ writes \in 0..MaxWrites

\* Whatever failed and whoever started at the same time, an instance that answers
\* requests has every table, each in the CDC publication, and every row of the CSV
\* files unless a request has deleted one ("customers before accounts before
\* transactions so the foreign keys resolve", bootstrap.py:42).
ServesReady ==
    Serving # {} /\ OnPostgres =>
        /\ objects = Objects
        /\ ~deleted => \A k \in Keys : rows[k] # None

\* Of several instances that found a table empty, none puts the seed over what
\* a request has written since ("ON CONFLICT DO NOTHING", db.py:122).
SeedKeepsWrites == [][\A k \in Keys : rows[k] = "written" => rows'[k] # "seed"]_vars

\* With the inferred setting and SINK=postgres, the topic of a table has one
\* origin, the connector or the backend ("must NOT also dual-write",
\* config.py:72). Requests of SINK=kafka publish whatever the setting is and are
\* the subject of ConnectorOnlyWriter.
SingleProducer ==
    settings.connector = None /\ OnPostgres =>
        \A t \in Tables : ~({<<"app", t>>, <<"connector", t>>} \subseteq origins)

\* Where the flag says that a connector owns the topics, the backend is never a
\* second writer, whatever its sink ("Once the CDC connector is running, it is
\* the only writer", docs/sre_aws.md:195; the code does not keep this).
ConnectorOnlyWriter ==
    ConnectorEnabled =>
        \A t \in Tables : <<"connector", t>> \in origins => <<"app", t>> \notin origins

\* The backend publishes only to a topic it has provisioned with both schemas,
\* whatever failed while it provisioned them (kafka_setup.py).
EventsProvisioned ==
    \A t \in Tables : <<"app", t>> \in origins => {t} \X (1..3) \subseteq resources

\* A connection is out of the pool only while its transaction is open: errors do
\* not eat up the pool (db.py: cursor, init_schema, seed_if_empty).
NoLeak ==
    \A i \in Instances :
        LET starting == \/ pc[i] \in {"create", "commit", "insert"}
                        \/ pc[i] = "look" /\ at[i][2] > 1
        IN used[i] = Cardinality(working[i]) + (IF starting THEN 1 ELSE 0)

\* A start ends: instances that wait for each other's schema do not wait for ever.
StartupEnds ==
    \A i \in Instances :
        pc[i] \notin {"off", "serving"} ~> pc[i] \in {"off", "serving"}
=============================================================================
