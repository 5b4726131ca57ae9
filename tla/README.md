# Verification of the C360 streaming demo

TLA+ models, TLC runs and TLAPS proofs about the backend of this repository: a
FastAPI service over customers, accounts and transactions that writes to
PostgreSQL or to Kafka, publishes change events, answers chat questions through
an LLM agent connected to a remote MCP server, and shows dashboards read from
Confluent Cloud.

| file | content |
|---|---|
| `ChatSessions.tla` | the session cache of the chat agent, with its properties |
| `ConnectionOwnership.tla` | the abstract specification the cache implements: who owns an MCP connection |
| `ChatSessionsProofs.tla` | inductive invariant of the cache, the theorems that follow, the refinement of `ConnectionOwnership`, the bound of `ChatSessionCap` |
| `MCChatSessions.tla`, `ChatSessions_liveness.cfg` | its instance for the temporal properties |
| `ChatSessionCap.tla`, `MCChatSessionCap.tla`, `ChatSessionCap.cfg` | the cache with a history variable (how far it outgrows `_MAX_SESSIONS`); the instance for the invariants |
| `ConversationLog.tla`, `MCConversationLog.tla`, `ConversationLog.cfg`; `ConversationLogProofs.tla` | chat replies and the events of their turns; proofs |
| `DualWrite.tla`, `MCDualWrite.tla`, `DualWrite_*.cfg` | writes with `SINK=postgres` and the change events they publish |
| `DualWriteProofs.tla` | inductive invariant of the writes and the theorems that follow |
| `Startup.tla`, `MCStartup.tla`, `Startup*.cfg`; `StartupProofs.tla` | schema, seed, topics, configuration, connection pool; proofs |
| `KafkaSinkStore.tla`, `MCKafkaSinkStore.tla`, `KafkaSinkStore*.cfg`; `KafkaSinkStoreProofs.tla` | `SINK=kafka`: list, CSV file and events; proofs |
| `RowStore.tla` | the abstract specification they implement: a row changes at one moment, is published, and outlives a crash once answered |
| `ProductGraph.tla`, `DataProducts.tla`, `MCDataProducts.tla`, `DataProducts.cfg`; `DataProductsProofs.tla` | graphs of the data products; their status, metrics and cost; proofs |
| `Analytics.tla`, `MCAnalytics.tla`, `Analytics.cfg`; `AnalyticsProofs.tla` | the dashboard and the profile lookups; proofs |
| `SequenceFilter.tla` | list comprehensions with a condition |
| `DataLemmas.tla` | lemmas about sums over finite sets and filtered lists, used by the last three modules of proofs |
| `PROJECT.json` | components, runs, mutants, source map, findings, hazards, theorems |

Run `tlc -config <cfg> <module>` for a model and `tlapm <module>` for
the eight modules of proofs (`*Proofs.tla` and `DataLemmas.tla`).

## 1. Inventory

All paths are relative to `src/apps/backend` unless they start with `src/`.

| component | state | operations | interacts with |
|---|---|---|---|
| Chat agent `chat/agent.py`, `chat/service.py` | `_sessions` (session id -> agent, MCP connection, lock, last use), all on one event loop | `run_agent` (a turn, with retries), `reset_session`, `shutdown`, stateless turns | MCP server, LLM, application lifespan |
| Conversation events `chat/conversation_producer.py` | lazy producer | `produce_turn`: request and response event | Kafka, the chat handler |
| Services `customers/`, `accounts/`, `transactions/` with `db_sink.py` | rows in PostgreSQL | create, update, delete, generate a batch | connection pool, producers |
| Kafka producers `*/kafka_producer.py`, `kafka_setup.py` | lazy module-level producer, its queue; topics and schemas | produce, bounded or unbounded flush, create topic and schema | Kafka, schema registry |
| CSV store `*/inventory.py` (`SINK=kafka`) | list in memory, CSV file | load, create, update, delete | services |
| Startup `main.py`, `bootstrap.py`, `config.py` | tables, publication, flags | create schema, seed tables, seed Kafka | everything above |
| Pool `db.py` | ten connections, lazily created pool | cursor with commit and rollback, seed if empty, schema | all PostgreSQL code |
| Data products `data_products/` | descriptors built from the dbt manifest; else remote state | build graphs, list collections page by page, merge status, query metrics, sum costs | Confluent Cloud APIs |
| Analytics `analytics/` | none | result sets from several queries, assembly | Lightning, Confluent SQL |
| Pipeline `src/pipelines/`, `src/flink_sqls/` | views over the event topics | deduplicate, filter, join | topics written above |
| Frontend `src/apps/frontend/` | page state, requests in flight | lookup, forms, polling, chat | the HTTP API |

What is hard, and what correctness means, per component:

* **Chat agent.** Coroutines interleave at every `await`: eviction, a concurrent
  dial for the same session, waiting on an entry's lock, closing, backing off.
  Every open connection must have exactly one owner (else it leaks, or is closed
  under a running turn), sessions must not see each other's agent, the agent must
  not be run by two turns at once, every turn must be answered, and shutdown must
  close everything.
* **Dual write.** Handlers are synchronous and run on a thread pool. Commit and
  event are separate steps; flushes time out and leave events behind; a delete
  reads and deletes in two transactions; a stop loses what is queued. Events must
  describe committed rows only, consumers must converge to the table, Kafka must
  never fail or hang a committed write, and nothing may be published beside a
  CDC connector.
* **Conversation log.** The two events of a turn are published best effort, on the
  event loop, through a bounded queue: a consumer must never join two turns, the log
  must hold what the user saw, and the reply must not depend on Kafka.
* **CSV store.** Lists and files shared by threads without a lock, ids that
  change when the file is read back, a store that is ahead of a failed event.
* **Startup.** Two instances that seed or create the publication at once, a crash
  between steps, a seed that is published again after a restart.
  Whoever answers requests has the whole schema and seed, the seed never replaces a
  write, a topic has one producer (with `SINK=kafka` it may have two), and a start ends.
* **Pool and producers.** Exhaustion that raises, connections an error path keeps,
  lazy creation by two threads.
* **Data products and analytics.** Collections that change between pages, cursors that
  lead back, five queries at five moments, any of which fails: what is shown must be
  right for the part it stands for, and a failure must hide nothing else.
* **Frontend.** Answers that arrive out of order.

The full list, at the lines where each bites, is `hazards` in `PROJECT.json`.

## 2. Plan

1. `ChatSessions` with `ConnectionOwnership`, `ChatSessionCap` and proofs: **done**;
   `ConversationLog` for the events of a turn, and proofs: **done**.
2. `DualWrite` and proofs: **done**. Next: an abstract change feed (commit order per
   row) that the connector mode implements.
3. `Startup` (with the pool and the inference of the CDC flag) and proofs: **done**.
4. `KafkaSinkStore` with `RowStore` and proofs: **done**.
5. `ProductGraph`, `DataProducts`, `Analytics` and proofs: **done**.
6. Lazily built producers with two threads; the transactions of `SINK=kafka`.

Abstract specifications worth stating: connection ownership (done), an atomic
store of rows for the CSV store (done), a change feed per row. Theorems worth proving:
the invariants of 1 to 5 and the refinements to the first two (all done).

## 3. ChatSessions

One action is what a coroutine does between two suspensions, so each `await` that
can block is a value of `pc`:

| `pc` | suspended in |
|---|---|
| `evicting` | `_close` of an evicted entry in `_get_or_create` |
| `connecting` | `_connect`, or entering `MCPTools` in `_run_stateless` |
| `losing` | `_close` of the connection that another turn made superfluous |
| `waiting` | `async with entry.lock` behind another turn |
| `running` | the agent's run |
| `leaving`, `leavingErr` | leaving `async with MCPTools` of a stateless turn |
| `dropping` | `_close` in `_evict`, of a failed turn or a reset |
| `backoff` | `asyncio.sleep` before the next attempt |

`cache`, `entry`, `lock` and `attempt` are `_sessions`, the local variable, the
entry's lock with its queue, and the loop counter. `older` is the order of
`last_used`, which is all eviction looks at; how much time has passed is a choice,
so any prefix of that order may be past the TTL. `debt[p]` is what the code holds
in local variables: connections popped from the cache, or private, which party `p`
still has to close. A connection is named by the turn and attempt that dials it.

External, modelled from its use: a connect, a run and a close return or raise;
`asyncio.Lock` is first come first served and a free one is taken without
yielding. Assumed: the server drains the requests in flight before the lifespan
ends (uvicorn's graceful shutdown), and no handler is cancelled; an abandoned
request would otherwise leave its connections behind.

| run | instance | shows |
|---|---|---|
| `chat_safety` | 3 turns (with and without id), 1 reset, 3 sessions, cap 1, 2 attempts | `TypeOK`, `OneOwner`, `SessionIsolation`, `LockExcludes`, `ShutdownClosesAll`; `GrowthBounded`: the cap is outgrown by no more than the attempts that overlapped |
| `chat_liveness` | 2 turns, 2 sessions, 1 reset, up to 3 attempts | `EveryTurnAnswered`, `EvictedIsClosed`; every step is one of `ConnectionOwnership`, or a stutter (`ImplementsOwnership`) |

The bounds: three turns are needed for a holder, a waiter and a turn that evicts,
two attempts for a retry that meets another turn's entry, a cap of one so that
eviction happens with two sessions. The last request id and turn ids are
interchangeable, hence the symmetry in the safety run, never in the liveness run.

Fairness (`FairSpec`): weak fairness of the continuation of each turn and reset in
flight and of a shutdown that has begun, because connects, queries and closes have
time limits (`_MCP_TIMEOUT_SECONDS`, the LLM client's) and sleeps end. Nothing makes
a client send a request or stop the application.

What the documentation says of the cache and the code does not keep: the lock belongs
to the entry and not to the session, so after an eviction or reset two turns of one
session run at once (docs/web_app_design.md:250 promises one). The entry is not looked
up again after waiting for its lock, so a turn may start on a connection that was
closed while it waited. A failed turn pops whatever is cached, which can be the healthy
connection of another turn. The cap is checked before dialling and not when the entry
is stored, so one entry may exceed it, and overlapping turns more. None of these
disturbs `OneOwner` or `EveryTurnAnswered`: the turn that suffers fails and is retried.
`ChatSessionCap` adds one history variable: `peak`, the most attempts that were ever
between the check and the store at the same time; `GrowthBounded` bounds the overshoot
with it.

### What is proved

`ChatSessionsProofs` proves, for every number of turns, resets, sessions and
attempts and every cap, from the assumption `ConstantsOK` alone:

| theorem | property |
|---|---|
| `Invariance` | the inductive invariant `IInv` |
| `TypeCorrect` | `TypeOK` |
| `EveryConnectionOwned` | `OneOwner` |
| `SessionsStayApart` | `SessionIsolation` |
| `LocksExclude` | `LockExcludes` |
| `NothingLeftOpen` | `ShutdownClosesAll` |
| `CacheGrowthBounded` (over `ChatSessionCap`) | `GrowthBounded` |
| `CacheImplementsOwnership` | `ImplementsOwnership` |

`OneOwner` is not inductive: to know that `CloseLoser` closes a connection that is
open and owned by nobody else one must know what each suspension point owes. `IInv`
says it: `Placed` and `Kept` relate open connections to the one place that holds
them, `Dialled(t)` says which of a turn's connections exist, `Owed(t)` and
`OwedElsewhere` what each party holds at each `pc`, `Entered(t)` whose session the
local entry belongs to, `Queued` that the running turn heads its lock's queue, and
`Drained` that nothing is in flight once the shutdown has begun. Lemmas about
moving connections between places (`PopPlaces`, `ClosePlaces`, `OpenPlaces`,
`InstallPlaces`) and about what a step leaves alone (`OthersKeep`) carry most of the
work; each action then has one lemma.

The refinement reads the owner of a connection off the one place that `IInv` gives it
(`AllKnown`), before and after the step. What is left to show, action by action, is that
all connections that change owner or state were moved by one party (`OneMover`), which
is what a step of `ConnectionOwnership` is.

## 4. DualWrite

One action is a database transaction, a call of the Kafka client, or a step of the
client's delivery thread. Customers, accounts and transactions are three tables
with the same protocol, foreign keys and a producer each.

| variable | in the code |
|---|---|
| `connectorEnabled` | `CDC_CONNECTOR_ENABLED`, either value at first and never changed (`Settings`): one run has both modes |
| `table`, `changes` | committed rows; their history, in commit order |
| `todo`, `pc` | local variables of the handler's thread: events it still has to produce, and where it is |
| `flushing` | the producer whose `flush(timeout)` it is in |
| `queue`, `log` | queue of the producer and topic, per key (a key has one partition) |
| `raced`, `lost` | history: keys whose writers overlapped, or of which an event was lost |

`Commit` has the outcome where the connection breaks during the commit: the rows
are stored and the request fails without an event. `DbFail` is an exhausted pool or
a transaction rolled back. `GenerateRead` and `GenerateInsert` are the two
transactions of `POST /transactions/generate`, `DeleteRead` and `DeleteRow` those of
a delete. `Stop` is a crash or a shutdown: nothing flushes the producers.

A row is abstracted to its unique field, status, close date (given or not) and
references; a body is a choice from a small set that contains the empty one. The
Kafka client and the connector are external: the first message of a partition is
delivered, delivered twice, or given up. Two simplifications are deliberate and
make the model kinder than reality: the client does not reorder a partition on its
own, and producers exist before the first request, as they do after the Kafka
seed. Both would add races that the modelled code does not cause.

| run | instance | shows |
|---|---|---|
| `write_safety` | 3 requests of any kind, 2 customers, an account, a generated transaction; in bypass mode and with a connector | `TypeOK`, `NoPhantomEvents`, `QuietKeysConverge`, `ConnectorOwnsKafka` |
| `write_answered` | 2 requests, a batch of two transactions | `CommittedIsAnswered` |
| `write_bypass` | 2 writers of one customer, prompt delivery | events published in the opposite order of the commits |

Observed and left without a run: a PUT between the two transactions of a delete makes
the before image of the tombstone older than the row deleted; only `update` stamps the
close date of an account, so one created as closed has none.

Three requests suffice for a delete's two transactions with a writer in between
and a third that holds an event; `MaxLog = 2` lets the seeded event's successor be
repeated. Rows seeded in the table are in the topic from the start
(`KAFKA_SEED_ON_START`, or the connector's snapshot).

Fairness: weak fairness of each request's own next step. The database answers or
fails, and `flush` has a timeout; the broker is never assumed to answer.

### What is proved

`DualWriteProofs` proves, for every set of requests and rows, all bodies and any
seed, from `ConstantsOK` alone:

| theorem | property |
|---|---|
| `Invariance` | the inductive invariant `IInv` |
| `TypeCorrect` | `TypeOK` |
| `NoPhantoms` | `NoPhantomEvents` |
| `QuietRowsConverge` | `QuietKeysConverge` |
| `ConnectorIsTheOnlyWriter` | `ConnectorOwnsKafka` |

`QuietKeysConverge` only speaks of a row whose events are through. To carry it there
`IInv` says, with `InStep(k)`, where the newest event of a row is before that: with
the one request that holds it, else last in the queue, else last in the topic.
`NoPhantomEvents` needs `Holds(r)`: what a request may have in hand before its
transaction has committed, in particular that the row a delete has read was in the
table, and that a batch holds one event per row. `Consistent` ties the table to the
histories, and `TruthKept` says that histories only grow. Every handler reduces to
four lemmas: it refuses (`RefuseInv`), takes events in hand (`TakeInv`), commits and
tells (`TellInv`), or commits and is cut off (`CutInv`). The connector's theorem has
an invariant of its own, `Owned`.

## 5. ConversationLog

One action is a call of the Kafka client or what a chat does between two awaits.
`loop` is the chat that holds the event loop: from the agent's answer on, `get_reply`
and `produce_turn` await nothing, so no other chat moves until the reply, while
`Deliver` and `Expire` (librdkafka's thread, external) go on. `Hand` is `produce`,
which raises when the queue is full; every failure ends the turn's log (`GivenUp`) and
not its reply. `answered` and `sent` are history. The topic is a set: copies and their
order play no part in the properties, the order in which events are handed over does.

| run | instance | shows |
|---|---|---|
| `conversation_log` | 3 chats, two of one session and one without; 3 places in the queue; one fault (failed call, lost acknowledgement, expiry or crash); live, stub, log on and off | `TurnsNeverMix`, `AnsweredAsLogged`, `LogFollowsAnswers`, `EveryChatReplied` |

A full queue leaves half turns without a fault, so one fault is enough to combine
two causes. Fairness: every task that is ready runs and the agent's calls have
timeouts; nothing is assumed of the broker, so `EveryChatReplied` rests on the
limit of `flush`. A flush holds the loop for up to five seconds, in which no
chat is served: delays are not modelled.

### What is proved

`ConversationLogProofs` proves, for any chats, sessions, texts, size of the queue and
number of faults, from `ConversationConstantsOK` alone:

| theorem | property |
|---|---|
| `TypeCorrect` | `TypeOK` |
| `TurnsStayApart` | `TurnsNeverMix` |
| `LogHoldsReplies` | `AnsweredAsLogged` |
| `LogInOrder` | `LogFollowsAnswers` |

`IInv` says of every event ever handed over, wherever it is now, that it is the question
of a chat or the answer that chat's user is or will be shown (`Told`). That rests on
`Progress(c)`: whoever is between its answer and its reply holds the event loop and has
not replied. For the order, the chat that holds the loop is the last that the agent has
answered (`Latest`), and nobody hands over events before (`OnlyAnswered`).

## 6. Startup

| variable | in the code |
|---|---|
| `settings` | the environment, shared by the instances |
| `objects`, `creating` | tables, publication and its tables: committed, and in the open transaction of an instance |
| `rows`, `deleted` | rows: absent, from the seed, or written by a request |
| `resources`, `origins` | topics and schemas; who has published to each topic |
| `pc`, `at` | step of `lifespan`, its table and sub-step |
| `producers`, `used`, `working` | lazily built producers, connections out of the pool, threads in a transaction |

PostgreSQL is external: an object is invisible until the commit, a second transaction
that creates it waits (`Create`) and fails when the first commits. `Insert` is the
insert and commit of `seed_if_empty`, which rolls back when a parent is missing.
`StartFails` is any error of the database or a file; of `seed_kafka` errors are only
logged (`SeedKafkaFails`). `Begin` to `Rollback` are requests with `SINK=postgres`: a pool
without a free connection raises and changes nothing. Their event is published behind the
flags (`MaybeEmit`). `ListWrite` is a write with `SINK=kafka` to a table whose service keeps
a list (`Listed`: customers and accounts): it takes no connection and is published whatever
the flags say. `Publish` makes the producer at its first use; when that raises on the way
the topic, and perhaps schemas, stay behind without a producer. The database is empty at
first or in use already, so that a connector may publish where no instance with
`SINK=postgres` ever ran.

| run | instance | shows |
|---|---|---|
| `startup` | 2 instances, 2 tables with a foreign key, 2 threads over a pool of one, 2 faults or crashes, 2 writes; local, remote and socket databases, the flag inferred or set by hand, both sinks, `SINK=kafka` with a remote database too | `ServesReady`, `SeedKeepsWrites`, `SingleProducer`, `EventsProvisioned`, `NoLeak`, `StartupEnds` |
| `startup_kafka_sink` | the same | `ConnectorOnlyWriter` is violated: with `SINK=kafka` and a remote database a topic has two writers |

Two instances are enough for each race (a look-up and a create, a count and an
insert); two tables for their order; the pool is smaller than the threads. Indexes and
triggers go with their table. Fairness: a start goes on, because each step is a call
that returns or raises; requests, faults and restarts are not forced.

`SingleProducer` speaks of `SINK=postgres` and the inferred flag: with
`CDC_CONNECTOR_ENABLED=false` on a database that has a connector both publish, as configured.
With `SINK=kafka` the services do not look at the flag (customers/service.py:66, 87, 122).
`main.py` then logs that a connector owns the topics, docs/sre_aws.md:194 calls it the only
writer, and a request publishes all the same; apps/backend/README.md:97-98 takes for granted that this
sink has no connector, which nothing enforces. `ConnectorOnlyWriter` states the promise
without regard to the sink, and TLC refutes it. `SeedKeepsWrites` speaks of rows that are
written: an absent row, be it one that a request has deleted, may be seeded again by an
instance that counted the table before. A restart with
`KAFKA_SEED_ON_START` publishes the seed again, over newer events of the same rows:
no property claims otherwise.

### What is proved

`StartupProofs` proves, for any instances, threads, settings, tables and rows, size of the
pool and number of faults, from `StartupConstantsOK`:

| theorem | property |
|---|---|
| `TypeCorrect` | `TypeOK` |
| `PoolKept` | `NoLeak` |
| `OneProducer` | `SingleProducer`: with `SINK=postgres` and the inferred flag |
| `TopicsProvisioned` | `EventsProvisioned` |
| `ReadyWhenServing` | `ServesReady` |
| `WritesSurviveSeed` | `SeedKeepsWrites`: of rows that are written |

The invariant has three layers. `TypeInv`: the settings an instance at a step runs with
(`Placed`), and its connections counted one by one (`Pooled`). `TopicInv`: who may have
published (`Origins`) and which of the three resources of its topic an instance has
ensured (`Provisioned`). `ReadyInv`: which tables an instance knows to be complete, and
what its open transaction has added (`Built`); and, unless a request has deleted a row,
that a table is empty or holds its whole seed (`AllOrNone`), which is why a count that
finds one row may skip the seed. The assumption that tables come after those they refer
to is needed here: in another order the seed of a table would fail on its foreign key and
be skipped, and the instance would serve without it.

## 7. KafkaSinkStore

Deletes bind the module's name to a new list, so the lists are objects (`heap`, `cur`);
the file is rewritten line by line, and a crash may leave any part of it. The actions
are the steps of a request between which another thread may run: find the row, merge,
replace or filter, truncate, write each line, publish. `tangled` says that a request
other than a create overlapped another, `torn` that the process ended within a
rewrite, `missed` whose events were given up. When requests overlap no others follow,
which bounds the tangle.

| run | instance | shows |
|---|---|---|
| `sink_store` | customers or accounts, 2 threads, 3 requests, 2 restarts | `CacheOnFile`: a restart serves what was served; `TopicMirrorsStore`; every step is one of `RowStore`, or a stutter (`ImplementsStore`) |
| `sink_store_overlap` | 2 threads, an update and a delete | the update replaces the row of another customer |

Accounts get their id from the account number when the file is read, so one that a
request created has another id after a restart; `CacheOnFile` says what is kept. An
event that is given up after librdkafka's message timeout is answered with success.

### What is proved

`KafkaSinkStoreProofs` proves, for any threads, ids, rows, seed files, bodies and number of
requests and restarts, from `StoreConstantsOK`:

| theorem | property |
|---|---|
| `TypeCorrect` | `TypeOK`, whatever overlaps |
| `TopicFollows` | `TopicMirrorsStore` |
| `Untouched` | `OthersUntouched`: no step changes a row that no request at work is about (no run states it) |
| `StoreImplemented` | `ImplementsStore` |
| `CacheKept` | `CacheOnFile` |
| `StartsUnlessTorn` | a start fails on the file only after a crash within a rewrite (no run states it) |

None of these is inductive. `Typed` holds always. Until requests tangle, `Calm` does: those
at work at once are creates of different rows (`Apart`); each finds the list as it left it
at its step before (`Place`: a delete still holds the list without its row, an update still
knows the position); and the topic differs from the list only in rows of requests that have
changed the list and not yet published (`Mirrored`). `OnFile` says the same of the
file: it lacks the rows that creates have appended to the list and not yet written (`Waiting`),
unless it is being rewritten; what has been written of it then is a prefix of the list
(`Written`). Creates may write in another order than they appended, so `Kept` compares the
lengths and the sets of rows as they would be read back, and not the lists. That deleting
by a comprehension keeps every other row, the first of an id still first, is `OthersKeep`.

`RowStore` says what callers and consumers may rely on, without list, file or topic. Under
the mapping a row is what `get_by_id` finds first in the list, what consumers hold is the
last event of its key; the row of a request is `asked` while it is at work, and `owed` from its
change to its event (`Changed`). Then the append, the assignment and the binding of the
shorter list are each the one `Change`, the event or its loss is `Tell` or `GiveUp`, and
everything between, the rewriting of the file line by line included, is a stutter. Requests
that overlap, and are not all creates, turn it `off`: from there on nothing is promised. The
step that needs an invariant of its own is `Recover`: after a restart the rows are those of
the file, so for customers, whose ids are in the file, `RowByRow` compares file and list
row by row (`Durable`). They agree but for rows of requests between list and file, which a
crash gives up; and a row not yet written is not in the file at all (`Absent`), so a line
appended out of order hides no other. An account that a request created has another id
after a restart, so `safe` holds for customers only.

## 8. ProductGraph, DataProducts, Analytics

`ProductGraph` visits the models of a manifest in path order and adds nodes and edges
to the graph of each product. `DataProducts` extends it: a request (status, metrics
or cost, in mock, lagging or live mode) reads collections page by page while `Change`
alters them, and every call may fail. Requests share no state, so one at a time shows
all they can do. `held` is history: what each entry was during the request.

| run | instance | shows |
|---|---|---|
| `data_products` | 8 manifests (models of two products that depend on each other, a seed, sources); statements of four pages under a cap of three, tables of two with a cyclic cursor, one change; every call fails or not | `GraphsComplete`, `PoolsChargedToOwner`, `StatusFaithful`, `MetricsIsolated`, `CostOfWholePages`, `RequestsAnswered` |
| `analytics` | 3 customers, 2 categories, one write while the five queries run, any of which fails; both lookups, columns all named, partly named or not named | `PartsAgree`, `ProfileFaithful` |

`Analytics` takes the mock fold (`aggregate.py`) as the reference of the live
assembly (`crm_aggregate.py` over the tables of the pipeline): each part of a live
payload is the fold of the profiles its table stood for when it was read, with its
"Unknown" and "Other" bars, balances and averages. So with tables of one moment and no
failure the modes agree. With a failed query `row_count` may be positive although a
distribution is empty, where api/analytics_resource.py:19-20 promises an empty payload;
no run states that promise. `Groups` keeps a row for null, such as tests/test_crm_aggregate.py:65
feeds to the assembly, beside the one for the empty string. The pipeline's yml files declare
the group columns `not_null`: tables that keep to it are those of profiles without null.

`NamesOf` drops the nameless columns of a Lightning answer one by one, and `zip` then gives
their cells to the names that follow. An API that names some columns only so shifts the
values of a profile: `ProfileFaithful` speaks of answers that name all columns or none.
An answer that is JSON but no object is read outside the `try` and raises, so the lookup ends
in a 500 (`NotFound`), although the docstring of `query` says it returns `[]` on any failure.

An entry that is read again replaces the one before it, but one that has gone leaves it in
place (`Kept`): what a cyclic cursor collects is never taken back. The cost of a product is
hidden when a page of the report fails. A page that is no object ends the report instead
(confluent_client.py:606, 616) and the sum of the pages before it is shown as the cost:
`CostOfWholePages` says that the amount is that of whole pages, and of all of them but in
that case.

Fairness (`data_products`): a request goes on, since every call has a timeout. The
cost report's `next` links are followed without a cap; the model takes reports of
finitely many pages.

### What is proved of the data products

`DataProductsProofs` proves, for every manifest, and for collections of any number of
pages, any cap, any cyclic cursors and any changes and failures:

| theorem | property |
|---|---|
| `TypeCorrect` | `TypeOK` |
| `GraphsAreComplete` | `GraphsComplete` |
| `PoolsStayCharged` | `PoolsChargedToOwner` |
| `StatusStaysFaithful` | `StatusFaithful` |
| `MetricsStayIsolated` | `MetricsIsolated` |
| `CostStaysWhole` | `CostOfWholePages` |

`GraphInv` says where each node and edge of a graph comes from and what each visited model
has left in it. `RequestInv` follows a request: what was read is among what was held
(`Collections`); of a list of which `read` pages were got, what entries on them have said is
known (`Heard`; one without a phase says what an absent one does) unless the list is `broken`, and the page to come is the next or the cursor has led back
(`Reading`, `Done`); each metric has a value, was dropped, or is still to be queried
(`Querying`, `Accounted`). `CostInv` follows the totals: before page n of the report they are
the bill of the pages before it (`Upto`), and at the end of all pages, of none or, after a page
that is no object, of those before it. Assumed of the constants: model names are unique, which dbt
enforces; the id `topic_<n>` of a source is not the name of a model; statement names and
table names differ; a collection lists an entry on one of its pages. Without the second a
source and a model could share an id, and the descriptor would have two nodes of that id.

### What is proved of the analytics

`AnalyticsProofs` proves, for any customers, profiles, labels, tables and writes, from
`AnalyticsConstantsOK`:

| theorem | property |
|---|---|
| `FoldsAgree` | on tables of one moment, mock and live payload are equal (an equation of operators: no run states it) |
| `TypeCorrect` | `TypeOK` |
| `PayloadsAgree` | `PartsAgree` |
| `ProfilesFaithful` | `ProfileFaithful`: all columns named, or none |

The heart is that a distribution made from the bars of another is the same: the pipeline
groups by two columns and the dashboard adds up the groups of each label (`BarsRegroup`,
`GroupsGiveBars`), and that the flags it sums count the customers the fold counts
(`FlagsCounted`). The state adds little: what a query returned is what it saw, and nobody
when it failed (`QueriesInv`).

`DataLemmas` has what these proofs need of the data. A sum over a finite set is a fold that
takes the elements in an order nobody knows; that it is the sum of its parts, whatever the
order (`SumWithout`, `SumOfParts`), and what a filter keeps (`FilterKeeps`), is shown by a
least counterexample: among the finite sets for which it fails one has no other below it
(`LeastSet`), and the step of the fold refutes that one.

## 9. Findings

| run | what |
|---|---|
| `write_bypass` | events of two writers of a row are published in the opposite order of their commits |
| `sink_store_overlap` | an update that overlaps a delete replaces another customer's row |
| `startup_kafka_sink` | with `SINK=kafka` the backend publishes to topics that a connector owns |

Some hazards are no more than what the code does, and no property can say otherwise: a stop
loses events, a rewrite cut short loses rows, an account changes its id at a restart, an event
is given up while the change stays. The models have these steps, record them (`lost`,
`torn`, `missed`) and the properties speak of all other rows; `hazards` in `PROJECT.json`
lists them with a note and without a property.

## 10. What stays with TLC, and what is not modelled

Model-checked only:

* liveness (`EveryTurnAnswered`, `EvictedIsClosed`, `CommittedIsAnswered`,
  `EveryChatReplied`, `StartupEnds`, `RequestsAnswered`): fairness and ENABLED are beyond
  the proof system.

Every invariant and every other action property of the passing runs is a theorem, and so
are the refinements `ImplementsOwnership` and `ImplementsStore`. The three findings are counterexamples and have no proof.
The provers cannot use the library's induction theorems, whose parameter is an operator:
what is proved of folds and filters goes by least counterexamples (section 8).

Not modelled:

* the transactions of `SINK=kafka`: `create` raises a `TypeError` before it stores
  anything (its PostgreSQL paths are in `DualWrite`),
  and reads go to PostgreSQL whatever the sink;
* lazily built producers under two threads: the writes begin when producers exist;
* the frontend: React components whose only state of interest is requests in flight;
* the SQL of the pipeline other than the two facts in `Analytics`: it is declarative
  and runs in Flink;
* Terraform and scripts (declarative, or run once by hand), `clean_env.py`;
* reading the environment file, masking, logging, wording, layout, Avro encoding,
  timings, mock fixtures.
