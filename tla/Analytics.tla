----------------------------- MODULE Analytics -----------------------------
(***************************************************************************)
(* The C360 dashboard (analytics/): mock mode folds customer profiles into *)
(* the payload; live mode folds five tables which Flink keeps aggregated   *)
(* from the profiles, each read by a query of its own while profiles and   *)
(* tables go on changing.  One customer's profile is looked up by a        *)
(* snapshot query or by a point lookup (Lightning).                        *)
(***************************************************************************)
EXTENDS Naturals, Sequences, FiniteSets, Functions, SequenceFilter

CONSTANTS
    Customers,
    Dims,            \* the categories with a table of their own: segment, country...
    Profiles,        \* rows of fct_c360_profile
    Starts,          \* the rows of each customer when the request arrives
    Labels,          \* categories, as numbers in the order of their names
    Unknown, Other,  \* the labels "Unknown" and "Other"
    Blank, None,     \* the empty string, null
    TopN,            \* _COUNTRY_TOP_N
    Schemas,         \* how Lightning names the columns: all, some or none of them
    Lower,           \* Lower[n]: the name n in lower case
    MaxWrites        \* bound: writes to the profiles

Tables == Dims \cup {"summary"}
Profile == [category: [Dims -> Labels \cup {Blank, None}], balance: Nat \cup {None},
            age: Nat \cup {None}, no_email: 0..1, no_phone: 0..1]
\* _PROFILE_COLUMNS, of each type one.
Columns == <<"customer_id", "total_balance", "age_years">>
Snapshot == [Customers -> Profiles \cup {None}]

ASSUME AnalyticsConstantsOK ==
    /\ {"segment", "country"} \subseteq Dims /\ "summary" \notin Dims
    /\ IsFiniteSet(Customers) /\ Starts \subseteq Snapshot
    /\ Labels \subseteq Nat /\ Unknown \in Labels /\ Other \in Nat
    /\ \A p \in Profiles : p \in Profile
    /\ Blank \notin Labels /\ None \notin Labels
    /\ \A schema \in Schemas \ {<< >>} :
          /\ schema \in Seq(DOMAIN Lower \cup {None}) /\ Len(schema) = Len(Columns)
          /\ \A i \in DOMAIN schema : schema[i] # None => Lower[schema[i]] = Columns[i]
    /\ None \notin DOMAIN Lower
    /\ TopN \in Nat \ {0} /\ MaxWrites \in Nat

VARIABLES
    profiles,   \* fct_c360_profile
    table,      \* table[t]: the profiles that table t is the aggregate of
    writes,     \* writes to the profiles so far
    query,      \* query[t]: state of the query of t for the dashboard
    result,     \* result[t]: the profiles that the rows kept for t stand for
    seen,       \* seen[t]: those t stood for when read (history)
    payload,    \* the answer to the dashboard, or None
    shown       \* a lookup: status, row, the columns it came with, answer
vars == <<profiles, table, writes, query, result, seen, payload, shown>>

Nobody == [c \in Customers |-> None]
Init ==
    /\ profiles \in Starts
    /\ table = [t \in Tables |-> profiles]
    /\ writes = 0
    /\ query = [t \in Tables |-> "none"]
    /\ result = [t \in Tables |-> Nobody] /\ seen = result
    /\ payload = None
    /\ shown = None
-----------------------------------------------------------------------------
Present(rs) == {c \in Customers : rs[c] # None}
Num(cell) == IF cell \in Nat THEN cell ELSE 0
Label(cell) == IF cell \in {None, Blank} THEN Unknown ELSE cell

\* Largest first, ties by label: the kth bar has k - 1 before it.
Before(a, b) == a.n > b.n \/ (a.n = b.n /\ a.label < b.label)
Ordered(bars) ==
    [k \in 1 .. Cardinality(bars) |->
        CHOOSE b \in bars : Cardinality({a \in bars : Before(a, b)}) = k - 1]
Capped(seq) ==
    IF Len(seq) <= TopN THEN seq
    ELSE Append(SubSeq(seq, 1, TopN),
                [label |-> Other,
                 n |-> SumFunction([i \in TopN + 1 .. Len(seq) |-> seq[i].n])])
\* A bar for each label, with the sum of n over the rows that have it.
Bars(label, n) ==
    Ordered({[label |-> l, n |-> SumFunctionOnSet(n, {r \in DOMAIN n : label[r] = l})] :
                l \in Range(label)})
CappedIf(d, seq) == IF d = "country" THEN Capped(seq) ELSE seq

\* The mean is kept as a sum and a count.
MeanAge(rs) ==
    LET ages == {c \in Present(rs) : rs[c].age # None} IN
    IF ages = {} THEN None
    ELSE <<SumFunction([c \in ages |-> rs[c].age]), Cardinality(ages)>>

Ones(rs) == [c \in Present(rs) |-> 1]
Balances(rs) == [c \in Present(rs) |-> Num(rs[c].balance)]
LabelsOf(rs, d) == [c \in Present(rs) |-> Label(rs[c].category[d])]

\* mock_aggregate: the payload folded from the profiles themselves.
Fold(rs) ==
    LET cs == Present(rs) IN
    [customers |-> Cardinality(cs),
     balance |-> SumFunction(Balances(rs)),
     age |-> MeanAge(rs),
     quality |-> [complete |-> Cardinality({c \in cs : rs[c].no_email = 0 /\ rs[c].no_phone = 0}),
                  no_email |-> SumFunction([c \in cs |-> rs[c].no_email]),
                  no_phone |-> SumFunction([c \in cs |-> rs[c].no_phone])],
     by |-> [d \in Dims |-> CappedIf(d, Bars(LabelsOf(rs, d), Ones(rs)))],
     balances |-> Bars(LabelsOf(rs, "segment"), Balances(rs))]

\* The rows of fct_crm_by_<d>: GROUP BY keeps null and '' apart.
Groups(rs, d) ==
    LET In(v) == {c \in Present(rs) : rs[c].category[d] = v} IN
    {[value |-> v, count |-> Cardinality(In(v)),
      balance |-> SumFunctionOnSet(Balances(rs), In(v))] :
        v \in {rs[c].category[d] : c \in Present(rs)}}

\* The row of fct_crm_summary; without customers there is none, and each cell
\* is read as 0.
Summary(rs) ==
    LET cs == Present(rs) IN
    [customers |-> Cardinality(cs),
     balance |-> SumFunction(Balances(rs)),
     age |-> MeanAge(rs),
     complete |-> Cardinality({c \in cs : rs[c].no_email + rs[c].no_phone = 0}),
     no_email |-> Cardinality({c \in cs : rs[c].no_email = 1}),
     no_phone |-> Cardinality({c \in cs : rs[c].no_phone = 1})]

\* _counts of crm_aggregate, of the column n: null and '' meet again under one
\* label.
BarOfEach(groups, n) ==                        \* mutant: one bar per row
    Ordered({[label |-> Label(g.value), n |-> n[g]] : g \in groups})
BarOf(groups, n) == Bars([g \in groups |-> Label(g.value)], n)

\* assemble: the payload folded from the five result sets.
Assemble(rs) ==
    LET s == Summary(rs["summary"])
        Rows(d) == Groups(rs[d], d) IN
    [customers |-> s.customers, balance |-> s.balance, age |-> s.age,
     quality |-> [complete |-> s.complete, no_email |-> s.no_email,
                  no_phone |-> s.no_phone],
     by |-> [d \in Dims |-> CappedIf(d, BarOf(Rows(d), [g \in Rows(d) |-> g.count]))],
     balances |-> BarOf(Rows("segment"), [g \in Rows("segment") |-> g.balance])]
-----------------------------------------------------------------------------
\* Flink: a profile is upserted or deleted; later a table catches up.
Write(c, p) ==
    /\ writes < MaxWrites /\ p # profiles[c]
    /\ profiles' = [profiles EXCEPT ![c] = p]
    /\ writes' = writes + 1
    /\ UNCHANGED <<table, query, result, seen, payload, shown>>

Refresh(t) ==
    /\ table[t] # profiles
    /\ table' = [table EXCEPT ![t] = profiles]
    /\ UNCHANGED <<profiles, writes, query, result, seen, payload, shown>>

\* Requests share nothing, so one is enough.
Idle == query["summary"] = "none" /\ payload = None /\ shown = None

\* GET /analytics/c360-profile: the mode decides.
Mock ==
    /\ Idle
    /\ payload' = [mode |-> "mock", of |-> Fold(profiles)]
    /\ UNCHANGED <<profiles, table, writes, query, result, seen, shown>>

Live ==
    /\ Idle
    /\ query' = [t \in Tables |-> "running"]
    /\ UNCHANGED <<profiles, table, writes, result, seen, payload, shown>>

\* One of the five workers: a snapshot of its table, or [] on any failure.
QueryOk(t) ==
    /\ query[t] = "running"
    /\ query' = [query EXCEPT ![t] = "ok"]
    /\ result' = [result EXCEPT ![t] = table[t]]
    /\ seen' = [seen EXCEPT ![t] = table[t]]
    /\ UNCHANGED <<profiles, table, writes, payload, shown>>

FailNull(t) == result' = [result EXCEPT ![t] = None] \* mutant: no empty list
FailOne(t) == result' = [result EXCEPT ![t] = Nobody]
\* Unset settings, a connection or a statement that fails.
QueryFail(t) ==
    /\ query[t] = "running"
    /\ query' = [query EXCEPT ![t] = "failed"]
    /\ FailOne(t)
    /\ UNCHANGED <<profiles, table, writes, seen, payload, shown>>

Join ==
    /\ \A t \in Tables : query[t] \in {"ok", "failed"}
    /\ payload = None
    /\ payload' = [mode |-> "live", of |-> Assemble(result)]
    /\ UNCHANGED <<profiles, table, writes, query, result, seen, shown>>
-----------------------------------------------------------------------------
\* The cells of a profile row, in the order of the SELECT.
Cells(c) == IF profiles[c] = None THEN << >>
            ELSE <<c, profiles[c].balance, profiles[c].age>>

\* LightningClient._rows: names from the schema, in lower case and without the
\* nameless, or those of the SELECT; zip stops at the shorter. A column without
\* a name among named ones so gives its cell to the name after it.
NamesAsGiven(schema) ==                        \* mutant: upper case stays
    IF schema # << >> THEN schema ELSE Columns
NamesOf(schema) ==
    LET named == Without(schema, {None}) IN
    IF named # << >> THEN [i \in DOMAIN named |-> Lower[named[i]]] ELSE Columns

\* _to_profile: a number that is absent, null or no number is None or 0.
Age(cell) == IF cell \in Nat THEN cell ELSE None
ToProfile(names, cells) ==
    LET Cell(name) == LET at == {i \in DOMAIN names : names[i] = name} IN
            IF at = {} THEN None ELSE cells[CHOOSE i \in at : TRUE] IN
    [id |-> Cell("customer_id"), balance |-> Num(Cell("total_balance")),
     age |-> Age(Cell("age_years"))]

\* GET .../customer/{id} and .../rtce/customer/{id}.
Found(c, schema) ==
    /\ Idle /\ profiles[c] # None
    /\ shown' = [status |-> 200, row |-> Cells(c), schema |-> schema,
                 answer |-> ToProfile(NamesOf(schema), Cells(c))]
    /\ UNCHANGED <<profiles, table, writes, query, result, seen, payload>>

\* No such row, a malformed id, or a query that fails: 404. An answer of
\* Lightning that is JSON but no object is read outside the try, and raises: 500.
NotFound(c) ==
    /\ Idle
    /\ \E status \in {404, 500} :
          shown' = [status |-> status, row |-> Cells(c), schema |-> << >>, answer |-> None]
    /\ UNCHANGED <<profiles, table, writes, query, result, seen, payload>>

Next ==
    \/ \E c \in Customers, p \in Profiles \cup {None} : Write(c, p)
    \/ \E t \in Tables : Refresh(t) \/ QueryOk(t) \/ QueryFail(t)
    \/ Mock \/ Live \/ Join
    \/ \E c \in Customers, schema \in Schemas : Found(c, schema)
    \/ \E c \in Customers : NotFound(c)

Spec == Init /\ [][Next]_vars

\* DataAnalytics.
Series == Seq([label: Labels \cup {Other}, n: Nat])
IsPayload(p) ==
    /\ {p.customers, p.balance} \cup {p.quality[q] : q \in DOMAIN p.quality} \subseteq Nat
    /\ p.age \in (Nat \X Nat) \cup {None}
    /\ {p.by[d] : d \in Dims} \cup {p.balances} \subseteq Series
-----------------------------------------------------------------------------
TypeOK ==
    /\ profiles \in Snapshot
    /\ {table, result, seen} \subseteq [Tables -> Snapshot]
    /\ writes \in 0..MaxWrites
    /\ query \in [Tables -> {"none", "running", "ok", "failed"}]
    /\ payload # None => IsPayload(payload.of)

\* "so mock and live never silently diverge", "one worker's failure must not
\* sink the rest": each part of the live payload is what mock_aggregate makes of
\* the profiles its table stood for when read, whichever moment that was and
\* whatever became of the other queries (of nobody, if its own failed); so with
\* five tables of one moment the two payloads are equal.
PartsAgree ==
    payload # None /\ payload.mode = "live" =>
        LET reference(t) == Fold(seen[t]) IN
        /\ \A d \in Dims : payload.of.by[d] = reference(d).by[d]
        /\ payload.of.balances = reference("segment").balances
        /\ \A part \in {"customers", "balance", "age", "quality"} :
              payload.of[part] = reference("summary")[part]

\* A profile found is the row of that customer, column by column, whether the
\* API names all columns, in whatever case, or none of them. (With a name missing
\* among others the values are shifted, lightning_client.py:148-149.)
Uniform(schema) == \A i, j \in DOMAIN schema : schema[i] = None <=> schema[j] = None
ProfileFaithful ==
    shown # None /\ shown.status = 200 /\ Uniform(shown.schema) =>
        shown.answer = [id |-> shown.row[1], balance |-> Num(shown.row[2]),
                        age |-> shown.row[3]]
=============================================================================
