---------------------------- MODULE DataProducts ----------------------------
(***************************************************************************)
(* A request of the data products page, from the graph of its product to   *)
(* the answer (data_products/service.py, providers.py, confluent_client.py)*)
(* over a Confluent Cloud that changes while it is read, page by page and  *)
(* call by call, and of which any call may fail.  Requests share nothing,  *)
(* so one request at a time shows all they can do.                         *)
(***************************************************************************)
EXTENDS ProductGraph, Sequences, Functions, FiniteSetsExt

CONSTANTS
    Phases,          \* phases Flink reports, those the page knows among them
    KnownPhases,     \* _VALID_PHASES
    Pages,           \* Pages[l]: pages of collection l
    PageOf,          \* PageOf[n]: the page on which n is listed
    Cyclic,          \* collections whose last page leads back to the first
    MaxPages,        \* _FLINK_MAX_PAGES
    Bills,           \* Bills[i]: line items on page i of the cost report
    Clouds,          \* what the two collections may hold when it is asked
    Changes,         \* <<l, n, e>>: what may become of entry n of collection l
    Modes,           \* values of GRAPH_DATA_MODE
    LaggingNode,     \* LAGGING_NODE_ID
    Fixtures,        \* the node ids of STATEMENT_FIXTURES
    MaxChanges       \* bound: changes of the cloud during the request

Cloud == {"statements", "tables"}
Listed == Range(StatementName) \cup Names
Entry == [phase: Phases \cup {None}, started: BOOLEAN]
Lists == Cloud \cup {"details"}     \* list_statements, for the SQL
Details == {"sql", "uptime_seconds"}
Metrics == {"pending_records", "compute_pool_cfu", "messages_in_per_sec",
            "messages_out_per_sec"}
\* A line item of the cost report, of which FLINK items are totalled by pool.
Item == [day: Nat, flink: BOOLEAN, pool: Pools \cup {None}, amount: Nat]
\* Where collection l may list n.
ListedIn(l, n) ==
    /\ PageOf[n] <= Pages[l]
    /\ n \in IF l = "tables" THEN Names ELSE Range(StatementName)

ASSUME RequestConstantsOK ==
    /\ KnownPhases \subseteq Phases /\ None \notin Phases
    /\ Pages \in [Lists -> Nat \ {0}] /\ PageOf \in [Listed -> Nat \ {0}]
    /\ MaxPages \in Nat \ {0} /\ Cyclic \subseteq Lists
    /\ IsFiniteSet(Pools) /\ Bills \in Seq(SUBSET Item) /\ Bills # << >>
    /\ \A i \in DOMAIN Bills : IsFiniteSet(Bills[i])
    /\ Modes \subseteq {"mock", "mock-lag", "live"}
    /\ Clouds \subseteq [Cloud -> [Listed -> Entry \cup {None}]]
    /\ Changes \subseteq Cloud \X Listed \X (Entry \cup {None})
    /\ \A c \in Clouds, l \in Cloud, n \in Listed : c[l][n] # None => ListedIn(l, n)
    /\ \A x \in Changes : x[3] # None => ListedIn(x[1], x[2])
    /\ Names \cap Range(StatementName) = {} /\ None \notin Listed
    /\ MaxChanges \in Nat

VARIABLES
    cloud,      \* cloud[l][n]: the entry named n of collection l, or None
    pc,         \* the next call of the request
    mode,       \* GRAPH_DATA_MODE
    request,    \* what is asked: kind, product, node
    page, read, \* page of the collection (or report) to get, pages got
    got,        \* got[l][n]: the entries of collection l collected so far
    todo,       \* metrics still to query
    raw,        \* metrics that have a value
    sum,        \* sum[p]: amount billed for pool p, as totalled so far
    answer      \* the answer
requestVars == <<pc, mode, request, page, read, got, todo, raw, sum, answer>>
\* What happened during the request:
VARIABLES
    held,       \* held[l][n]: entries n has had in collection l
    broken,     \* lists (and the report) of which a page was not read
    dropped     \* metrics whose query gave no value, or was never made
history == <<held, broken, dropped>>
vars == <<graphVars, cloud, requestVars, history>>

Nothing == [l \in Lists |-> [n \in Listed |-> None]]
NoRequest == [kind |-> "none", product |-> None, node |-> None]

Init ==
    /\ GraphInit
    /\ cloud = [l \in Cloud |-> Nothing[l]] /\ mode = None
    /\ pc = "idle" /\ request = NoRequest /\ answer = None
    /\ page = 1 /\ read = 0 /\ got = Nothing
    /\ todo = << >> /\ raw = {} /\ sum = [p \in Pools |-> 0]
    /\ held = [l \in Cloud |-> [n \in Listed |-> {}]]
    /\ broken = {} /\ dropped = {}
-----------------------------------------------------------------------------
Graph == nodes[request.product]
Statements == {n \in Graph : n.type = "statement"}
\* next(n for n in graph.nodes if n.id == node_id): sources come first.
Asked == LET found == {n \in Graph : n.id = request.node} IN
    IF \E n \in found : n.type = "source" THEN CHOOSE n \in found : n.type = "source"
    ELSE CHOOSE n \in found : TRUE

Phase(l, n) == IF n = None \/ got[l][n] = None THEN None ELSE got[l][n].phase
Normalized(phase) == IF phase \in KnownPhases THEN phase ELSE "UNKNOWN"

\* One lookup for both collections: a table's phase hides a statement's of the
\* same name; the node is found by its id, then by its statement name.
StatementsOnly(n) == Phase("statements", n)    \* mutant: tables are not merged
Merged(n) == IF Phase("tables", n) # None THEN Phase("tables", n)
             ELSE Phase("statements", n)
PhaseOf(node) ==
    Normalized(IF Merged(node.id) # None THEN Merged(node.id)
               ELSE Merged(node.statement_name))

Streaming(node) == node.table_type = "streaming_table"
TableOf(node) == got["tables"][node.id]

Measurable(node) == Streaming(node) \/ TableOf(node) # None

StatementQueries == <<"pending_records", "compute_pool_cfu", "messages_in_per_sec",
                      "messages_out_per_sec">>
TableQueries == <<"compute_pool_cfu", "messages_in_per_sec", "messages_out_per_sec">>
Queries(node) == IF Streaming(node) THEN StatementQueries ELSE TableQueries
-----------------------------------------------------------------------------
Unknown == [phase |-> "UNKNOWN", metrics |-> {}]
Owned == OwnedPools(request.product)
Reply(a) == pc' = "done" /\ answer' = a
StatusAnswer(phase) ==
    [node \in Statements |-> [phase |-> phase[node],
                              lagging |-> mode = "mock-lag" /\ node.id = LaggingNode]]

\* get_provider: GRAPH_DATA_MODE is read for each request.
FirstCall(kind) == IF mode' # "live" THEN "mock"
                   ELSE IF kind = "cost" THEN "pools"
                   ELSE IF kind = "metrics" THEN "find" ELSE "statements"

\* The handler of the router: 404 for a product or a node that is not there.
Ask(kind, p, id) ==
    /\ pc = "idle" /\ Built
    /\ mode' \in Modes
    /\ cloud' \in Clouds
    /\ held' = [l \in Cloud |-> [n \in Listed |-> {cloud'[l][n]}]]
    /\ request' = [kind |-> kind, product |-> p, node |-> id]
    /\ \/ /\ nodes[p] = {} \/ (kind = "metrics" /\ \A n \in nodes[p] : n.id # id)
          /\ pc' = "404" /\ UNCHANGED answer
       \/ /\ nodes[p] # {} /\ (kind = "metrics" => \E n \in nodes[p] : n.id = id)
          /\ pc' = FirstCall(kind)
          /\ UNCHANGED answer
    /\ UNCHANGED <<page, read, got, todo, raw, sum, broken, dropped>>

\* MockProvider: fixtures, every statement running.
Mock ==
    /\ pc = "mock"
    /\ Reply(CASE request.kind = "status" ->
                    StatusAnswer([node \in Statements |-> "RUNNING"])
               [] request.kind = "metrics" ->
                    IF request.node \in Fixtures
                    THEN [phase |-> "RUNNING", metrics |-> Metrics \cup Details]
                    ELSE Unknown
               [] request.kind = "cost" ->
                    LET own == {n \in Statements : ~n.external} IN
                    [available |-> own # {}, pools |-> Owned,
                     amount |-> Cardinality(own), cfu |-> own])
    /\ UNCHANGED <<mode, request, page, read, got, todo, raw, sum, history>>

\* _get_flink_collection, a page at a time, and the dict made of its items
\* (entries without a phase resolve to nothing).  A call that fails raises, so
\* the collection is {}; a payload that is no object ends it with what there is.
Of(l) == IF l = "details" THEN "statements" ELSE l
\* A later item replaces the one of its name, of statements if it has a phase.
Kept(l, e) == e # None /\ (l = "statements" => e.phase # None)
PageGot(l) == got' = [got EXCEPT ![l] = [n \in Listed |->
                        IF PageOf[n] = page /\ Kept(l, cloud[Of(l)][n])
                        THEN cloud[Of(l)][n] ELSE @[n]]]
More(l) == page < Pages[l] \/ l \in Cyclic
NextPage(l) == page' = IF page < Pages[l] THEN page + 1 ELSE 1
EndList(next) == pc' = next /\ page' = 1 /\ read' = 0

CountNone == UNCHANGED read                    \* mutant: pages are not counted
Count == read' = read + 1

UnderCapOrAt == read < MaxPages                \* mutant: one page too many
UnderCap == read + 1 < MaxPages

GetPage(l, next) ==
    /\ PageGot(l)
    /\ \/ More(l) /\ UnderCap /\ NextPage(l) /\ Count /\ UNCHANGED pc
       \/ ~(More(l) /\ UnderCap) /\ EndList(next)
    /\ UNCHANGED broken

List(l, next) ==
    /\ pc = l
    /\ \/ GetPage(l, next)
       \/ /\ got' = [got EXCEPT ![l] = [n \in Listed |-> None]] \/ UNCHANGED got
          /\ EndList(next) /\ broken' = broken \cup {l}
    /\ UNCHANGED <<mode, request, todo, raw, sum, answer, held, dropped>>

ListStatements == List("statements", "tables")
ListTables == List("tables", IF request.kind = "status" THEN "status" ELSE "route")
ListDetails == List("details", "metrics")

Status ==
    /\ pc = "status"
    /\ Reply(StatusAnswer([node \in Statements |-> PhaseOf(node)]))
    /\ UNCHANGED <<mode, request, page, read, got, todo, raw, sum, history>>
-----------------------------------------------------------------------------
\* get_metrics: a streaming table is queried by statement name, any other by
\* the uid its materialized table was listed with; a source by nothing.
Find ==
    /\ pc = "find"
    /\ \/ Asked.type = "source" /\ Reply(Unknown)
       \/ Asked.type = "statement" /\ pc' = "statements" /\ UNCHANGED answer
    /\ UNCHANGED <<mode, request, page, read, got, todo, raw, sum, history>>

Route ==
    /\ pc = "route"
    /\ \/ /\ ~Measurable(Asked)
          /\ pc' = "metrics"
          /\ dropped' = Metrics /\ UNCHANGED todo
       \/ /\ Measurable(Asked)
          /\ todo' = Queries(Asked)
          /\ pc' = "query" /\ UNCHANGED dropped
    /\ UNCHANGED <<mode, request, page, read, got, raw, sum, answer, held, broken>>

\* One query of the Metrics API: a value, no points for this node, or an error
\* that is isolated - or one that is not, such as an ill-formed point, which
\* takes the values already there with it.
QueryAborting ==                               \* mutant: queries not isolated
    \/ /\ raw' = raw \cup {Head(todo)} /\ todo' = Tail(todo)
       /\ UNCHANGED dropped
    \/ raw' = {} /\ todo' = << >> /\ dropped' = dropped \cup {Head(todo)}
Query ==
    \/ /\ raw' = raw \cup {Head(todo)} /\ todo' = Tail(todo)
       /\ UNCHANGED dropped
    \/ /\ dropped' = dropped \cup {Head(todo)} /\ todo' = Tail(todo)
       /\ UNCHANGED raw
    \/ raw' = {} /\ todo' = << >> /\ dropped' = Metrics
QueryNext ==
    /\ pc = "query"
    /\ Query
    /\ pc' = CASE todo' # << >> -> "query"
               [] todo' = << >> /\ Streaming(Asked) -> "details"
               [] todo' = << >> /\ ~Streaming(Asked) -> "metrics"
    /\ UNCHANGED <<mode, request, page, read, got, sum, answer, held, broken>>

\* The SQL and, unless created_at is absent or to come, the uptime.
Described(node) ==
    LET entry == IF Streaming(node) THEN got["details"][node.statement_name]
                 ELSE TableOf(node) IN
    IF entry = None THEN {}
    ELSE {d \in Details : d = "uptime_seconds" => entry.started}

Measured ==
    /\ pc = "metrics"
    /\ Reply([phase |-> PhaseOf(Asked), metrics |-> raw \cup Described(Asked)])
    /\ UNCHANGED <<mode, request, page, read, got, todo, raw, sum, history>>
-----------------------------------------------------------------------------
\* get_cost: nothing is asked for a product without pools; the report is
\* totalled page by page over all pools, FLINK items only.
Amount(items, p) ==
    SumFunction([i \in {x \in items : x.flink /\ x.pool = p} |-> i.amount])
PoolsOwned ==
    /\ pc = "pools"
    /\ \/ Owned = {} /\ Reply([available |-> FALSE, pools |-> {}, amount |-> 0, cfu |-> {}])
       \/ Owned # {} /\ pc' = "bill" /\ UNCHANGED answer
    /\ UNCHANGED <<mode, request, page, read, got, todo, raw, sum, history>>

BillFailKeeping == UNCHANGED sum               \* mutant: totals so far are kept
BillFail == sum' = [p \in Pools |-> 0]

Bill ==
    /\ pc = "bill"
    /\ \/ /\ sum' = [p \in Pools |-> sum[p] + Amount(Bills[page], p)]
          /\ \/ page < Len(Bills) /\ page' = page + 1 /\ UNCHANGED <<pc, read>>
             \/ page = Len(Bills) /\ EndList("cost")
          /\ UNCHANGED broken
       \/ BillFail /\ EndList("cost") /\ UNCHANGED broken
       \/ UNCHANGED sum /\ EndList("cost") /\ broken' = broken \cup {"bill"}
    /\ UNCHANGED <<mode, request, got, todo, raw, answer, held, dropped>>

\* Whole cents, so that noise is no cost.  The CFUs are those of the pools that
\* could be asked for them.
Rounded(x) == (x + 5) \div 10
Cost ==
    /\ pc = "cost"
    /\ \E up \in SUBSET Owned :
          LET amount == Rounded(SumFunctionOnSet(sum, Owned)) IN
          Reply([available |-> amount > 0, pools |-> Owned, amount |-> amount,
                 cfu |-> up])
    /\ UNCHANGED <<mode, request, page, read, got, todo, raw, sum, history>>

-----------------------------------------------------------------------------
Serve ==
    /\ \/ Mock \/ ListStatements \/ ListTables \/ ListDetails \/ Status \/ Find \/ Route
       \/ QueryNext \/ Measured \/ PoolsOwned \/ Bill \/ Cost
    /\ UNCHANGED <<graphVars, cloud>>

\* A statement or a table is created, dropped, or changes phase.
Change(l, n, e) ==
    /\ pc \in Lists /\ e \notin held[l][n]
    /\ MapThenSumSet(LAMBDA x : Cardinality(held[x[1]][x[2]]) - 1, Cloud \X Listed)
          < MaxChanges
    /\ cloud' = [cloud EXCEPT ![l][n] = e]
    /\ held' = [held EXCEPT ![l][n] = @ \cup {e}]
    /\ UNCHANGED <<graphVars, requestVars, broken, dropped>>

Answered == pc \in {"done", "404"} /\ UNCHANGED vars

Next ==
    \/ /\ \E m \in Models : Visit(m)
       /\ UNCHANGED <<cloud, requestVars, history>>
    \/ /\ \E p \in Products :
             \/ Ask("status", p, None) \/ Ask("cost", p, None)
             \/ \E id \in Ids : Ask("metrics", p, id)
       /\ UNCHANGED graphVars
    \/ Serve
    \/ \E c \in Changes : Change(c[1], c[2], c[3])
    \/ Answered

Spec == Init /\ [][Next]_vars
\* Calls have a time limit, so a request that is being served goes on.
FairSpec == Spec /\ WF_vars(Serve)
-----------------------------------------------------------------------------
TypeOK ==
    /\ left \subseteq Models
    /\ \A p \in Products : nodes[p] \subseteq Node /\ edges[p] \subseteq Ids \X Ids
    /\ cloud \in [Cloud -> [Listed -> Entry \cup {None}]]
    /\ pc \in Lists \cup {"idle", "mock", "status", "find", "route", "query", "metrics",
                          "pools", "bill", "cost", "done", "404"}
    /\ mode \in Modes \cup {None}
    /\ got \in [Lists -> [Listed -> Entry \cup {None}]]
    /\ read < MaxPages /\ page \in Nat \ {0}
    /\ raw \subseteq Metrics /\ dropped \subseteq Metrics
    /\ sum \in [Pools -> Nat]

LiveAnswer(kind) ==
    pc = "done" /\ mode = "live" /\ request.kind = kind

\* A collection was read whole as far as n is concerned.
Visible(l, n) == l \notin broken /\ PageOf[n] <= MaxPages
Steady(l, n) == Cardinality(held[l][n]) = 1
Told(l, n) == LET e == CHOOSE e \in held[l][n] : TRUE IN
    IF e = None THEN None ELSE e.phase

\* Best effort, but no less: a statement's phase is what its table's entry said
\* throughout the request or, where no table had its name, the statement's own
\* entry - whatever happened to the other collection and to other entries, and
\* even if what is read on several pages never held at one time.
StatusFaithful ==
    LiveAnswer("status") => \A n \in Statements :
        /\ /\ Visible("tables", n.id) /\ Steady("tables", n.id)
           /\ Told("tables", n.id) # None
           => answer[n].phase = Normalized(Told("tables", n.id))
        /\ /\ held["tables"][n.id] = {None} /\ Visible("statements", n.statement_name)
           /\ Steady("statements", n.statement_name)
           => answer[n].phase = Normalized(Told("statements", n.statement_name))

\* "Each query is isolated so one failing doesn't drop the others": a metric is
\* missing only if its own query gave nothing, or an error got past the
\* isolation; a streaming table does not need the list of tables.
MetricsIsolated ==
    LiveAnswer("metrics") /\ Asked.type = "statement" =>
        /\ dropped # Metrics
              => Range(Queries(Asked)) \ dropped \subseteq answer.metrics
        /\ answer.metrics \cap dropped = {}
        /\ Streaming(Asked) /\ dropped = {}
              => Metrics \subseteq answer.metrics

\* The banner shows the bill of whole pages and, as a page that fails hides the
\* pages before it, of all of them - unless a page was no object: that ends the
\* report, with the sum of the pages before it on show.
CostOfWholePages ==
    LiveAnswer("cost") /\ answer.available =>
        \E k \in 1..Len(Bills) :
            /\ "bill" \notin broken => k = Len(Bills)
            /\ answer.amount = Rounded(SumFunction([p \in Owned |-> SumFunctionOnSet(
                                   [i \in DOMAIN Bills |-> Amount(Bills[i], p)], 1..k)]))

\* Every request is answered, also when a cursor leads back to a page already
\* read ("capped against a cyclic cursor").
RequestsAnswered == pc \notin {"idle", "404"} ~> pc = "done"
=============================================================================
