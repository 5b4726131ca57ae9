----------------------------- MODULE DualWrite -----------------------------
(***************************************************************************)
(* Writes with SINK=postgres: the services of customers, accounts and      *)
(* transactions commit to PostgreSQL first and, in bypass mode, publish a  *)
(* Debezium-shaped event afterwards; with a CDC connector the connector    *)
(* publishes instead.  Handlers are plain functions, so requests run on    *)
(* concurrent threads.  An action is a database transaction, one call of   *)
(* the Kafka client, or a step of the client's own delivery thread.        *)
(*                                                                         *)
(* The producers exist from the start (KAFKA_SEED_ON_START publishes the   *)
(* seed before any request) and each partition keeps its order; what goes  *)
(* wrong here is the program's own doing.                                  *)
(***************************************************************************)
EXTENDS Naturals, Sequences

CONSTANTS
    Requests,          \* writing requests
    Customers, Accounts, Txns,   \* row ids; a create draws one never used
    Uniqs,             \* emails and account numbers, UNIQUE in their tables
    None,              \* no row, null, field not given
    NewRows,           \* NewRows[k]: bodies of a POST that creates row k
    Patches,           \* Patches[k]: bodies of a PUT on row k
    Seeds,             \* tables as seeding may leave them
    ProduceEnabled,    \* KAFKA_PRODUCE_ENABLED
    MaxLog             \* bound: no repeated delivery beyond this length

Keys == Customers \cup Accounts \cup Txns
Tables == {Customers, Accounts, Txns}
Statuses == {"ACTIVE", "CLOSED", "COMPLETED"}
Row == [uniq: Uniqs \cup {None}, status: Statuses, closed: BOOLEAN,
        refs: SUBSET (Customers \cup Accounts)]
Patch == [uniq: Uniqs \cup {None}, status: Statuses \cup {None}, closed: BOOLEAN,
          owner: Customers \cup {None}]
Event == [key: Keys, after: Row \cup {None}, before: Row \cup {None}]

ASSUME ConstantsOK ==
    /\ \A S, T \in Tables : S # T => S \cap T = {}
    /\ None \notin Row \cup Uniqs \cup Statuses \cup Customers
    /\ NewRows \in [Keys -> SUBSET Row]
    /\ Patches \in [Customers \cup Accounts -> SUBSET Patch]
    /\ Seeds \subseteq [Keys -> Row \cup {None}]
    /\ ProduceEnabled \in BOOLEAN
    /\ MaxLog \in Nat

VARIABLES
    connectorEnabled,  \* CDC_CONNECTOR_ENABLED, the same for all instances
    table,     \* table[k]: the committed row, or None
    changes,   \* changes[k]: the rows k has had, in commit order (None: deleted)
    pc,        \* pc[r]: where the thread of the request is
    todo,      \* todo[r]: events the request holds and has not produced yet
    flushing,  \* flushing[r]: the table whose producer it will flush, or {}
    queue,     \* queue[k]: events in the producer's queue for the key
    log,       \* log[k]: events of the key in the topic
    raced,     \* keys written while another request still held an event of theirs
    lost       \* keys of which an event was lost

vars == <<connectorEnabled, table, changes, pc, todo, flushing, queue, log, raced, lost>>

Done == {"ok", "missing", "conflict", "error", "gone"}
PC == {"new", "deleting", "inserting", "emitting", "flushing"} \cup Done

\* A connector owns Kafka, or production is switched off: no event.
EmitsAnyway == ProduceEnabled                  \* mutant: connector not asked
Emits == ~connectorEnabled /\ ProduceEnabled

Init ==
    /\ connectorEnabled \in BOOLEAN
    /\ table \in Seeds
    /\ changes = [k \in Keys |-> IF table[k] = None THEN << >> ELSE <<table[k]>>]
    /\ pc = [r \in Requests |-> "new"]
    /\ todo = [r \in Requests |-> {}]
    /\ flushing = [r \in Requests |-> {}]
    /\ queue = [k \in Keys |-> << >>]
    /\ log = [k \in Keys |->
                IF table[k] = None THEN << >>
                ELSE << [key |-> k, after |-> table[k], before |-> None] >>]
    /\ raced = {}
    /\ lost = {}
-----------------------------------------------------------------------------
Present(k) == table[k] # None
Siblings(k) == UNION {T \in Tables : k \in T}

\* Requests that have written k and not yet produced the event.
Owing(k) == {r \in Requests : pc[r] = "emitting" /\ \E e \in todo[r] : e.key = k}
Known(k) == changes[k] # << >>
Fresh(k) == ~Known(k) /\ \A r \in Requests : \A e \in todo[r] : e.key # k

\* The constraints of the DDL: UNIQUE and REFERENCES.
Unique(k, row) ==
    row.uniq # None =>
        \A j \in Siblings(k) \ {k} : Present(j) => table[j].uniq # row.uniq
ParentsPresent(row) == \A p \in row.refs : Present(p)
Referenced(k) == \E j \in Keys : Present(j) /\ k \in table[j].refs

\* SET clause of the fields given; a closed account gets its date.
GivenAlways(new, old) == new                   \* mutant: absent fields are set too
Given(new, old) == IF new = None THEN old ELSE new
Merged(k, p) ==
    LET row == table[k] IN
    [uniq |-> Given(p.uniq, row.uniq),
     status |-> Given(p.status, row.status),
     closed |-> row.closed \/ p.closed \/ (k \in Accounts /\ p.status = "CLOSED"),
     refs |-> IF p.owner = None THEN row.refs ELSE {p.owner}]
Empty(p) == p = [uniq |-> None, status |-> None, closed |-> FALSE, owner |-> None]

Upsert(k, row) == [key |-> k, after |-> row, before |-> None]
Tombstone(k, row) == [key |-> k, after |-> None, before |-> row]

\* _maybe_emit(op, row): hold the events, or answer when there is none to send.
EmitNoDeletes(r, told) ==                      \* mutant: op "d" is not known
    LET kept == {e \in told : e.after # None} IN
    /\ todo' = [todo EXCEPT ![r] = IF Emits THEN kept ELSE {}]
    /\ pc' = [pc EXCEPT ![r] = IF Emits /\ kept # {} THEN "emitting" ELSE "ok"]
    /\ raced' = raced \cup {k \in Keys : Owing(k) # {} /\ \E e \in told : e.key = k}
    /\ UNCHANGED lost
Emit(r, told) ==
    /\ todo' = [todo EXCEPT ![r] = IF Emits THEN told ELSE {}]
    /\ pc' = [pc EXCEPT ![r] = IF Emits /\ told # {} THEN "emitting" ELSE "ok"]
    /\ raced' = raced \cup {k \in Keys : Owing(k) # {} /\ \E e \in told : e.key = k}
    /\ UNCHANGED lost

Refuse(r, answer) ==
    /\ pc' = [pc EXCEPT ![r] = answer]
    /\ todo' = [todo EXCEPT ![r] = {}]

\* A transaction that writes new and commits.  The connection may break during
\* the commit: then the request fails although the rows are written.
CommitTold(r, new, told) ==                    \* mutant: told without a commit
    /\ UNCHANGED <<table, changes>>
    /\ Emit(r, told)
Commit(r, new, told) ==
    /\ table' = [k \in Keys |-> IF k \in DOMAIN new THEN new[k] ELSE table[k]]
    /\ changes' = [k \in Keys |-> IF k \in DOMAIN new THEN Append(changes[k], new[k])
                                                      ELSE changes[k]]
    /\ \/ Emit(r, told)
       \/ /\ Refuse(r, "error")
          /\ lost' = lost \cup DOMAIN new
          /\ UNCHANGED raced

NoWrite == UNCHANGED <<table, changes, raced, lost>>
Kafka == UNCHANGED <<flushing, queue, log>>
-----------------------------------------------------------------------------
\* POST /customers, /accounts, /transactions.
Create(r, k, row) ==
    /\ pc[r] = "new" /\ Fresh(k) /\ row \in NewRows[k]
    /\ \/ /\ Unique(k, row) /\ ParentsPresent(row)
          /\ Commit(r, [j \in {k} |-> row], {Upsert(k, row)})
       \/ ~Unique(k, row) /\ Refuse(r, "conflict") /\ NoWrite
       \/ Unique(k, row) /\ ~ParentsPresent(row) /\ Refuse(r, "error") /\ NoWrite
    /\ Kafka

\* PUT: one UPDATE ... RETURNING; with no field given the row is only read,
\* and told all the same.
Update(r, k, p) ==
    /\ pc[r] = "new" /\ Known(k) /\ k \notin Txns /\ p \in Patches[k]
    /\ \/ ~Present(k) /\ Refuse(r, "missing") /\ NoWrite
       \/ /\ Present(k) /\ Empty(p)
          /\ Emit(r, {Upsert(k, table[k])})
          /\ UNCHANGED <<table, changes>>
       \/ /\ Present(k) /\ ~Empty(p)
          /\ LET row == Merged(k, p) IN
             \/ /\ Unique(k, row) /\ ParentsPresent(row)
                /\ Commit(r, [j \in {k} |-> row], {Upsert(k, row)})
             \/ /\ ~(Unique(k, row) /\ ParentsPresent(row))
                /\ Refuse(r, "error") /\ NoWrite
    /\ Kafka

\* DELETE reads the row in one transaction and deletes it in another.
DeleteRead(r, k) ==
    /\ pc[r] = "new" /\ Known(k) /\ k \notin Txns
    /\ \/ /\ Present(k)
          /\ pc' = [pc EXCEPT ![r] = "deleting"]
          /\ todo' = [todo EXCEPT ![r] = {Tombstone(k, table[k])}]
       \/ ~Present(k) /\ Refuse(r, "missing")
    /\ NoWrite /\ Kafka

DeleteRow(r) ==
    /\ pc[r] = "deleting"
    /\ \E e \in todo[r] :
          \/ ~Present(e.key) /\ Refuse(r, "missing") /\ NoWrite
          \/ Present(e.key) /\ Referenced(e.key) /\ Refuse(r, "error") /\ NoWrite
          \/ /\ Present(e.key) /\ ~Referenced(e.key)
             /\ Commit(r, [j \in {e.key} |-> None], {e})
    /\ Kafka

\* POST /transactions/generate lists the accounts, draws a batch on the
\* eligible ones and inserts it in one transaction.
Eligible == {a \in Accounts : /\ Present(a)
                              /\ table[a].status = "ACTIVE" /\ ~table[a].closed}
Generated(a) ==
    [uniq |-> None, status |-> "COMPLETED", closed |-> FALSE,
     refs |-> {a} \cup table[a].refs]

GenerateRead(r, batch) ==
    /\ pc[r] = "new" /\ batch # {} /\ \A k \in batch : k \in Txns /\ Fresh(k)
    /\ \/ \E on \in [batch -> Eligible] :
             /\ pc' = [pc EXCEPT ![r] = "inserting"]
             /\ todo' = [todo EXCEPT ![r] = {Upsert(k, Generated(on[k])) : k \in batch}]
       \/ Eligible = {} /\ Refuse(r, "conflict")
    /\ NoWrite /\ Kafka

GenerateInsert(r) ==
    /\ pc[r] = "inserting"
    /\ LET events == todo[r]
           batch == {e.key : e \in events} IN
       \/ /\ \A e \in events : ParentsPresent(e.after)
          /\ Commit(r, [k \in batch |-> (CHOOSE e \in events : e.key = k).after], events)
       \/ /\ \E e \in events : ~ParentsPresent(e.after)
          /\ Refuse(r, "error") /\ NoWrite
    /\ Kafka

\* No connection in the pool, or a transaction that fails and is rolled back.
DbFail(r) ==
    /\ pc[r] \in {"new", "deleting", "inserting"}
    /\ Refuse(r, "error")
    /\ NoWrite /\ Kafka

\* producer.produce: the event is queued.
Produce(r) ==
    /\ pc[r] = "emitting"
    /\ \E e \in todo[r] :
          /\ queue' = [queue EXCEPT ![e.key] = Append(@, e)]
          /\ todo' = [todo EXCEPT ![r] = @ \ {e}]
          /\ flushing' = [flushing EXCEPT ![r] = Siblings(e.key)]
          /\ pc' = [pc EXCEPT ![r] = IF todo[r] = {e} THEN "flushing" ELSE "emitting"]
    /\ UNCHANGED <<table, changes, log, raced, lost>>

\* The rest of _produce has raised: logged and swallowed by _maybe_emit.
ProduceFail(r) ==
    /\ pc[r] = "emitting"
    /\ lost' = lost \cup {e.key : e \in todo[r]}
    /\ todo' = [todo EXCEPT ![r] = {}]
    /\ flushing' = [flushing EXCEPT ![r] = {}]
    /\ pc' = [pc EXCEPT ![r] = "ok"]
    /\ UNCHANGED <<table, changes, queue, log, raced>>

\* producer.flush(timeout) returns: the queue has drained, or the time is up.
FlushUnbounded(r) ==                           \* mutant: flush() without a limit
    /\ pc[r] = "flushing" /\ \A k \in flushing[r] : queue[k] = << >>
    /\ pc' = [pc EXCEPT ![r] = "ok"]
    /\ flushing' = [flushing EXCEPT ![r] = {}]
    /\ UNCHANGED <<table, changes, todo, queue, log, raced, lost>>
Flush(r) ==
    /\ pc[r] = "flushing"
    /\ pc' = [pc EXCEPT ![r] = "ok"]
    /\ flushing' = [flushing EXCEPT ![r] = {}]
    /\ UNCHANGED <<table, changes, todo, queue, log, raced, lost>>
-----------------------------------------------------------------------------
\* The delivery thread of the producer: the first event of a partition is
\* acknowledged, delivered with the acknowledgement lost (it is sent again), or
\* given up after message.timeout.ms.
Deliver(k) ==
    /\ queue[k] # << >>
    /\ log' = [log EXCEPT ![k] = Append(@, Head(queue[k]))]
    /\ queue' = [queue EXCEPT ![k] = Tail(@)]
    /\ UNCHANGED <<table, changes, pc, todo, flushing, raced, lost>>

Redeliver(k) ==
    /\ queue[k] # << >> /\ Len(log[k]) < MaxLog
    /\ log' = [log EXCEPT ![k] = Append(@, Head(queue[k]))]
    /\ UNCHANGED <<table, changes, pc, todo, flushing, queue, raced, lost>>

GiveUp(k) ==
    /\ queue[k] # << >>
    /\ queue' = [queue EXCEPT ![k] = Tail(@)]
    /\ lost' = lost \cup {k}
    /\ UNCHANGED <<table, changes, pc, todo, flushing, log, raced>>

\* The CDC connector publishes the next committed change of a row.
Stream(k) ==
    /\ connectorEnabled /\ Len(log[k]) < Len(changes[k])
    /\ log' = [log EXCEPT ![k] = Append(@, Upsert(k, changes[k][Len(@) + 1]))]
    /\ UNCHANGED <<table, changes, pc, todo, flushing, queue, raced, lost>>

Idle ==
    /\ \A r \in Requests : pc[r] \in Done
    /\ \A k \in Keys : queue[k] = << >>

\* The process ends, by a crash or a shutdown: no producer is flushed then.
Stop ==
    /\ ~Idle
    /\ pc' = [r \in Requests |-> IF pc[r] \in Done THEN pc[r] ELSE "gone"]
    /\ lost' = lost \cup {k \in Keys : queue[k] # << >> \/ Owing(k) # {}}
    /\ todo' = [r \in Requests |-> {}]
    /\ flushing' = [r \in Requests |-> {}]
    /\ queue' = [k \in Keys |-> << >>]
    /\ UNCHANGED <<table, changes, log, raced>>

Resting == Idle /\ UNCHANGED vars
-----------------------------------------------------------------------------
Begin(r) ==
    \/ \E k \in Keys : \E row \in NewRows[k] : Create(r, k, row)
    \/ \E k \in Customers \cup Accounts :
          DeleteRead(r, k) \/ \E p \in Patches[k] : Update(r, k, p)
    \/ \E batch \in SUBSET Txns : GenerateRead(r, batch)
    \/ pc[r] = "new" /\ DbFail(r)

\* A request that has begun: neither the database nor the Kafka client blocks
\* for ever (flush has a timeout).
Continue(r) ==
    \/ DeleteRow(r) \/ GenerateInsert(r)
    \/ pc[r] # "new" /\ DbFail(r)
    \/ Produce(r) \/ ProduceFail(r) \/ Flush(r)

Settings == UNCHANGED connectorEnabled

Next ==
    /\ \/ \E r \in Requests : Begin(r) \/ Continue(r)
       \/ \E k \in Keys : Deliver(k) \/ Redeliver(k) \/ GiveUp(k) \/ Stream(k)
       \/ Stop \/ Resting
    /\ Settings

Spec == Init /\ [][Next]_vars
FairSpec == Spec /\ \A r \in Requests : WF_vars(Continue(r) /\ Settings)
-----------------------------------------------------------------------------
TypeOK ==
    /\ connectorEnabled \in BOOLEAN
    /\ table \in [Keys -> Row \cup {None}]
    /\ changes \in [Keys -> Seq(Row \cup {None})]
    /\ pc \in [Requests -> PC]
    /\ todo \in [Requests -> SUBSET Event]
    /\ flushing \in [Requests -> Tables \cup {{}}]
    /\ queue \in [Keys -> Seq(Event)]
    /\ log \in [Keys -> Seq(Event)]
    /\ raced \in SUBSET Keys
    /\ lost \in SUBSET Keys

Was(k, row) == \E i \in DOMAIN changes[k] : changes[k][i] = row

\* No phantom: whatever is held to be told, queued or in the topic describes a
\* row the table has held, and a deletion that has been committed - although
\* events are read, held and sent outside the transaction they are about.
Truthful(e) ==
    IF e.after # None THEN Was(e.key, e.after)
                      ELSE Was(e.key, None) /\ (e.before # None => Was(e.key, e.before))
NoPhantomEvents ==
    /\ \A k \in Keys : /\ \A i \in DOMAIN log[k] : Truthful(log[k][i])
                       /\ \A i \in DOMAIN queue[k] : Truthful(queue[k][i])
    /\ \A r \in Requests : pc[r] = "emitting" => \A e \in todo[r] : Truthful(e)

\* What a consumer that upserts by key holds for k.
View(k) == IF log[k] = << >> THEN None ELSE log[k][Len(log[k])].after
Settled(k) == queue[k] = << >> /\ Owing(k) = {}

\* Bypass mode is as good as CDC for a row whose writers did not overlap and
\* of which no event was lost: once its events are through, consumers hold the
\* row of the table, whatever was delayed, repeated or left over by a flush.
QuietKeysConverge ==
    Emits => \A k \in Keys \ (raced \cup lost) : Settled(k) => View(k) = table[k]

\* With a connector the application adds nothing to the topics: what they hold
\* of a row is the beginning of the row's history, each change once.
ConnectorOwnsKafka ==
    connectorEnabled =>
        \A k \in Keys : \A i \in DOMAIN log[k] :
            i \in DOMAIN changes[k] /\ log[k][i].after = changes[k][i]

\* "the DB operation must not fail (or hang) because Kafka is unavailable": a
\* committed write is answered with success although the broker never answers.
CommittedIsAnswered ==
    \A r \in Requests : pc[r] \in {"emitting", "flushing"} ~> pc[r] \in {"ok", "gone"}
-----------------------------------------------------------------------------
\* What the documentation says and the code does not keep.

\* "lets downstream consumers treat bypass-mode events identically to CDC
\* events": when everything written was delivered, consumers hold the table.
ConsumersHoldTheTable ==
    Emits => \A k \in Keys \ lost : Settled(k) => View(k) = table[k]
=============================================================================
