--------------------------- MODULE KafkaSinkStore ---------------------------
(***************************************************************************)
(* SINK=kafka: customers and accounts live in a module-level list and a    *)
(* CSV file (customers/inventory.py, accounts/inventory.py); each change   *)
(* is then published to Kafka with an unbounded flush.  Handlers are plain *)
(* functions on worker threads and nothing locks the list or the file.     *)
(*                                                                         *)
(* A delete binds the name to a new list, so the lists are objects: `heap` *)
(* holds those in use and `cur` is the one the name is bound to.           *)
(***************************************************************************)
EXTENDS Naturals, Sequences, FiniteSets, SequenceFilter

CONSTANTS
    Threads,
    Ids,          \* row ids
    Numbers,      \* account numbers; for customers the rest of the row
    DerivedId,    \* DerivedId[n]: uuid5 of the account number n
    Seeds,        \* files to start from: sequences of rows
    Patches,      \* bodies of a PUT
    None, Junk,   \* absent; a hole or a half line in the file
    MaxRequests,  \* bound: requests, all begun before an overlap
    MaxRestarts   \* bound: restarts, none after an overlap

Kinds == {"customers", "accounts"}
Row == [id: Ids, number: Numbers, status: {"ACTIVE", "CLOSED"}, dated: BOOLEAN]
Patch == [status: {"ACTIVE", "CLOSED", None}, dated: BOOLEAN]
Rows == Seq(Row)

ASSUME StoreConstantsOK ==
    /\ DerivedId \in [Numbers -> Ids] /\ Seeds \subseteq Rows
    /\ Patches \subseteq Patch /\ IsFiniteSet(Threads)
    /\ None \notin Ids /\ Junk \notin Row
    /\ MaxRequests \in Nat /\ MaxRestarts \in Nat

VARIABLES
    kind,      \* which inventory this is
    up,        \* "up", "down", or "failed": load() raised
    heap, cur, \* list objects; the one the name is bound to
    file,      \* the CSV file: its header line and its rows
    pc, req,   \* pc[t], req[t]: step and request of thread t
    at,        \* at[t]: a list object and a position in it
    held,      \* held[t]: a list computed and not yet bound, or a length
    log,       \* log[i]: events of the row i in the topic
    missed,    \* ids of which an event was not delivered, or the row not kept
    torn,      \* a crash has interrupted a rewrite of the file
    tangled,   \* two requests have overlapped that were not both creates
    requests, restarts
vars == <<kind, up, heap, cur, file, pc, req, at, held, log, missed, torn,
          tangled, requests, restarts>>

Cache == heap[cur]
Find(rows, i) == {k \in DOMAIN rows : rows[k].id = i}
First(S) == CHOOSE k \in S : \A j \in S : k <= j
RowOf(rows, i) == IF Find(rows, i) = {} THEN None ELSE rows[First(Find(rows, i))]
\* [c for c in _customers if c.id != customer_id]
Others(rows, i) == Without(rows, {rows[k] : k \in Find(rows, i)})
NoRequest == [op |-> None, id |-> None, row |-> None]

\* The cells of a row in the file and back: a customer's id is one of them, an
\* account's is computed from its number.
LoadedRow(row) ==
    IF kind = "accounts" THEN [row EXCEPT !.id = DerivedId[row.number]] ELSE row
\* DictReader takes the first line for the header, whatever it is; a row read
\* under other names, or junk, does not validate.
Readable(f) ==
    IF f.header THEN \A k \in DOMAIN f.rows : f.rows[k] # Junk ELSE Len(f.rows) <= 1
Loaded(f) ==
    IF f.header THEN [k \in DOMAIN f.rows |-> LoadedRow(f.rows[k])] ELSE << >>

Init ==
    /\ kind \in Kinds
    /\ \E seed \in Seeds :
          /\ file = [header |-> TRUE, rows |-> seed]
          /\ heap = <<Loaded(file)>>
          /\ log = [i \in Ids |->
                      IF Find(Loaded(file), i) = {} THEN << >> ELSE <<RowOf(Loaded(file), i)>>]
    /\ up = "up" /\ cur = 1
    /\ pc = [t \in Threads |-> "idle"] /\ req = [t \in Threads |-> NoRequest]
    /\ at = [t \in Threads |-> <<0, 0>>] /\ held = [t \in Threads |-> None]
    /\ missed = {} /\ torn = FALSE /\ tangled = FALSE /\ requests = 0 /\ restarts = 0
-----------------------------------------------------------------------------
Goto(t, next) == pc' = [pc EXCEPT ![t] = next]
Env == UNCHANGED <<kind, up, requests, restarts, torn, tangled>>
Store == UNCHANGED <<heap, cur, file>>
Kafka == UNCHANGED <<log, missed>>
Locals == UNCHANGED <<req, at, held>>

\* 404, or the answer after the event.
Answer(t) ==
    /\ Goto(t, "idle")
    /\ req' = [req EXCEPT ![t] = NoRequest]
    /\ at' = [at EXCEPT ![t] = <<0, 0>>]
    /\ held' = [held EXCEPT ![t] = None]

Begin(t, op, i, row, next) ==
    /\ up = "up" /\ pc[t] = "idle" /\ requests < MaxRequests /\ ~tangled
    /\ tangled' = \E s \in Threads : pc[s] # "idle" /\ {op, req[s].op} # {"c"}
    /\ requests' = requests + 1
    /\ req' = [req EXCEPT ![t] = [op |-> op, id |-> i, row |-> row]]
    /\ Goto(t, next)
    /\ Store /\ Kafka
    /\ UNCHANGED <<kind, up, at, held, torn, restarts>>

Used == {i \in Ids : log[i] # << >>} \cup missed \cup {DerivedId[n] : n \in Numbers}
         \cup {req[t].id : t \in Threads} \cup {Cache[k].id : k \in DOMAIN Cache}

\* POST: an id never used (uuid4), for an account too; no number is refused.
Create(t) ==
    \E n \in Numbers :
        /\ Ids \ Used # {}
        /\ LET i == CHOOSE i \in Ids \ Used : TRUE IN
           Begin(t, "c", i, [id |-> i, number |-> n, status |-> "ACTIVE", dated |-> FALSE],
                 "append")

GivenAlways(new, old) == new                   \* mutant: absent fields are set too
Given(new, old) == IF new = None THEN old ELSE new
Merged(row, p) ==
    [row EXCEPT !.status = Given(p.status, row.status),
                !.dated = row.dated \/ p.dated
                            \/ (kind = "accounts" /\ p.status = "CLOSED")]

\* PUT and DELETE look the row up first; without it, 404 and nothing changes.
Update(t) ==
    \E i \in Ids, p \in Patches :
        /\ Find(Cache, i) # {}
        /\ Begin(t, "u", i, Merged(RowOf(Cache, i), p), "locate")
Delete(t) ==
    \E i \in Ids :
        /\ Find(Cache, i) # {}
        /\ Begin(t, "d", i, RowOf(Cache, i), "count")
-----------------------------------------------------------------------------
\* inventory.create: to the list, then to the end of the file.
AppendRow(t) ==
    /\ pc[t] = "append"
    /\ heap' = [heap EXCEPT ![cur] = Append(@, req[t].row)]
    /\ Goto(t, "append line")
    /\ UNCHANGED <<cur, file>> /\ Kafka /\ Locals /\ Env
AppendLine(t) ==
    /\ pc[t] = "append line"
    /\ file' = [file EXCEPT !.rows = Append(@, req[t].row)]
    /\ Goto(t, "produce")
    /\ UNCHANGED <<heap, cur>> /\ Kafka /\ Locals /\ Env

\* inventory.update: the position is found in the list the loop runs over and
\* used in the list the name is bound to afterwards.
PositionLast(rows, i) == Len(rows)             \* mutant: the last row
Position(rows, i) == IF Find(rows, i) = {} THEN 0 ELSE First(Find(rows, i))
Locate(t) ==
    /\ pc[t] = "locate"
    /\ LET k == Position(Cache, req[t].id) IN
       /\ at' = [at EXCEPT ![t] = <<cur, k>>]
       /\ Goto(t, IF k = 0 THEN "truncate" ELSE "replace")
    /\ Store /\ Kafka /\ Env /\ UNCHANGED <<req, held>>
Replace(t) ==
    /\ pc[t] = "replace"
    /\ \/ /\ at[t][2] <= Len(Cache)
          /\ heap' = [heap EXCEPT ![cur][at[t][2]] = req[t].row]
          /\ Goto(t, "truncate")
          /\ Locals
       \/ /\ at[t][2] > Len(Cache)             \* IndexError: 500
          /\ Answer(t)
          /\ UNCHANGED heap
    /\ UNCHANGED <<cur, file>> /\ Kafka /\ Env

\* inventory.delete_by_id: the length, a list without the row, the name bound
\* to it, the lengths compared.
Count(t) ==
    /\ pc[t] = "count"
    /\ at' = [at EXCEPT ![t] = <<cur, Len(Cache)>>]
    /\ Goto(t, "filter")
    /\ Store /\ Kafka /\ Env /\ UNCHANGED <<req, held>>
Filter(t) ==
    /\ pc[t] = "filter"
    /\ held' = [held EXCEPT ![t] = Others(Cache, req[t].id)]
    /\ Goto(t, "bind")
    /\ Store /\ Kafka /\ Env /\ UNCHANGED <<req, at>>
Bind(t) ==
    /\ pc[t] = "bind"
    /\ LET others == {s \in Threads \ {t} : pc[s] # "idle"} IN
       heap' = IF others = {} THEN <<held[t]>> ELSE Append(heap, held[t])
    /\ cur' = Len(heap')
    /\ held' = [held EXCEPT ![t] = None]
    /\ Goto(t, "compare")
    /\ UNCHANGED <<file, req, at>> /\ Kafka /\ Env
CompareOnly(t) ==                              \* mutant: the file is not rewritten
    /\ pc[t] = "compare"
    /\ Goto(t, "produce")
    /\ Store /\ Kafka /\ Env /\ Locals
Compare(t) ==
    /\ pc[t] = "compare"
    /\ \/ Len(Cache) = at[t][2] /\ Answer(t)
       \/ Len(Cache) # at[t][2] /\ Goto(t, "truncate") /\ Locals
    /\ Store /\ Kafka /\ Env

\* _rewrite_csv: open(..., "w") empties the file; then the header and the rows of
\* the list it found, each at the place this handle has reached.
Truncate(t) ==
    /\ pc[t] = "truncate"
    /\ file' = [header |-> FALSE, rows |-> << >>]
    /\ Goto(t, "header")
    /\ UNCHANGED <<heap, cur>> /\ Kafka /\ Locals /\ Env
Header(t) ==
    /\ pc[t] = "header"
    /\ file' = [file EXCEPT !.header = TRUE]
    /\ at' = [at EXCEPT ![t] = <<cur, 1>>]
    /\ Goto(t, "rows")
    /\ UNCHANGED <<heap, cur, req, held>> /\ Kafka /\ Env
WrittenAt(rows, k, row) ==
    [j \in 1 .. (IF k > Len(rows) THEN k ELSE Len(rows)) |->
        IF j = k THEN row ELSE IF j <= Len(rows) THEN rows[j] ELSE Junk]
WriteRow(t) ==
    /\ pc[t] = "rows"
    /\ LET l == at[t][1]  k == at[t][2] IN
       \/ /\ k <= Len(heap[l])
          /\ file' = [file EXCEPT !.rows = WrittenAt(@, k, heap[l][k])]
          /\ at' = [at EXCEPT ![t] = <<l, k + 1>>]
          /\ UNCHANGED <<pc, req, held>>
       \/ /\ k > Len(heap[l])
          /\ Goto(t, "produce")
          /\ UNCHANGED file /\ Locals
    /\ UNCHANGED <<heap, cur>> /\ Kafka /\ Env
-----------------------------------------------------------------------------
\* produce_create, produce_update, produce_delete; flush() without a limit comes
\* back when the event is delivered or librdkafka has given it up.
AfterRow(t) == req[t].row                      \* mutant: a delete carries its row
After(t) == IF req[t].op = "d" THEN None ELSE req[t].row
Delivered(t) ==
    /\ pc[t] = "produce"
    /\ log' = [log EXCEPT ![req[t].id] = Append(@, After(t))]
    /\ Answer(t)
    /\ Store /\ Env /\ UNCHANGED missed

\* _on_delivery logs an event given up and the request succeeds; what _produce
\* raises fails the request.  The list and the file are changed in both cases.
NotDelivered(t) ==
    /\ pc[t] = "produce"
    /\ missed' = missed \cup {req[t].id}
    /\ Answer(t)
    /\ Store /\ Env /\ UNCHANGED log

Busy(t) == pc[t] # "idle"
Rewriting(t) == pc[t] \in {"header", "rows"}

Crash ==
    /\ up = "up" /\ restarts < MaxRestarts /\ ~tangled
    /\ up' = "down"
    /\ heap' = <<Cache>> /\ cur' = 1           \* kept to compare with what is loaded
    /\ torn' = (torn \/ \E t \in Threads : Rewriting(t))
    /\ missed' = missed \cup {req[t].id : t \in {s \in Threads : Busy(s)}}
    /\ pc' = [t \in Threads |-> "idle"] /\ req' = [t \in Threads |-> NoRequest]
    /\ at' = [t \in Threads |-> <<0, 0>>] /\ held' = [t \in Threads |-> None]
    /\ UNCHANGED <<kind, file, log, tangled, requests, restarts>>

\* lifespan: load() both inventories; what it raises ends the startup.
Restart ==
    /\ up = "down"
    /\ restarts' = restarts + 1
    /\ \/ /\ Readable(file)
          /\ up' = "up"
          /\ heap' = <<Loaded(file)>> /\ cur' = 1
          /\ missed' = missed \cup {i \in Ids : RowOf(Cache, i) # RowOf(Loaded(file), i)}
       \/ /\ ~Readable(file)
          /\ up' = "failed"
          /\ UNCHANGED <<heap, cur, missed>>
    /\ UNCHANGED <<kind, file, pc, log, torn, tangled, requests>> /\ Locals

Work(t) ==
    \/ AppendRow(t) \/ AppendLine(t)
    \/ Locate(t) \/ Replace(t)
    \/ Count(t) \/ Filter(t) \/ Bind(t) \/ Compare(t)
    \/ Truncate(t) \/ Header(t) \/ WriteRow(t)
    \/ Delivered(t) \/ NotDelivered(t)
Next ==
    \/ \E t \in Threads : Create(t) \/ Update(t) \/ Delete(t) \/ Work(t)
    \/ Crash \/ Restart

Spec == Init /\ [][Next]_vars
-----------------------------------------------------------------------------
TypeOK ==
    /\ kind \in Kinds /\ up \in {"up", "down", "failed"}
    /\ heap \in Seq(Rows) /\ cur \in DOMAIN heap
    /\ file \in [header: BOOLEAN, rows: Seq(Row \cup {Junk})]
    /\ req \in [Threads -> [op: {"c", "u", "d", None}, id: Ids \cup {None},
                            row: Row \cup {None}]]
    /\ log \in [Ids -> Seq(Row \cup {None})]
    /\ missed \subseteq Ids /\ torn \in BOOLEAN

AtRest == up = "up" /\ \A t \in Threads : ~Busy(t)

\* A restart would serve what is served now, whatever creates overlapped and
\* however often the process was restarted; of an account created meanwhile
\* only the id changes.  (Not after a crash within a rewrite.)
CacheOnFile ==
    AtRest /\ ~torn /\ ~tangled =>
        /\ Readable(file) /\ Len(Loaded(file)) = Len(Cache)
        /\ {LoadedRow(Cache[k]) : k \in DOMAIN Cache} =
              {Loaded(file)[k] : k \in DOMAIN Cache}

\* As long as no event of a row was given up and the row kept its id over the
\* restarts, consumers that upsert by key hold the row of the store.
View(i) == IF log[i] = << >> THEN None ELSE log[i][Len(log[i])]
TopicMirrorsStore ==
    AtRest /\ ~tangled => \A i \in Ids \ missed : View(i) = RowOf(Cache, i)

\* No row changes or disappears while the process runs unless a request about
\* that row is at work.
OnlyAsked ==
    up = "up" /\ up' = "up" =>
        \A i \in Ids : RowOf(Cache, i) # RowOf(Cache', i) => \E t \in Threads : req[t].id = i
OthersUntouched == [][~tangled => OnlyAsked]_vars

\* Each request, for all its steps, changes one row at one moment and then has it
\* published; a change that was answered is there after a restart, if it is of a
\* customer and no crash was within a rewrite (get_by_id, list and topic together).
Changed(t) == pc[t] \in {"append line", "compare", "truncate", "header", "rows", "produce"}
Promise == INSTANCE RowStore WITH
    store <- [i \in Ids |-> RowOf(Cache, i)],
    told <- [i \in Ids |-> View(i)],
    asked <- {req[t].id : t \in {s \in Threads : Busy(s)}},
    owed <- {req[t].id : t \in {s \in Threads : Changed(s)}},
    safe <- kind = "customers" /\ ~torn,
    off <- tangled
ImplementsStore == Promise!Spec

\* "Replace an existing customer in the cache" (inventory.py): the same of
\* requests that overlap.
OverlapsHarmless == [][OnlyAsked]_vars
=============================================================================
