------------------------ MODULE KafkaSinkStoreProofs ------------------------
(***************************************************************************)
(* Proofs about the list and the file of SINK=kafka, for any threads, rows *)
(* and files: until requests other than creates overlap, no request        *)
(* touches another row, the topic holds what the list holds, and the file  *)
(* would bring the list back.                                              *)
(***************************************************************************)
EXTENDS KafkaSinkStore, DataLemmas

(* Rows of a list                                                          *)

\* The first of some positions.
LEMMA FirstIs ==
    ASSUME NEW S, S \subseteq Nat, S # {}
    PROVE  First(S) \in S /\ \A j \in S : First(S) <= j
  <1>1. \E k \in S : \A j \in S : k <= j
    BY LeastNumber
  <1> QED BY <1>1 DEF First

\* The lookup by id finds the first row of that id, or none.
LEMMA Found ==
    ASSUME NEW A, NEW rows \in Seq(A), NEW i
    PROVE  /\ Find(rows, i) = {k \in 1 .. Len(rows) : rows[k].id = i}
           /\ Find(rows, i) # {} =>
                /\ First(Find(rows, i)) \in Find(rows, i)
                /\ \A j \in Find(rows, i) : First(Find(rows, i)) <= j
                /\ RowOf(rows, i) = rows[First(Find(rows, i))]
                /\ RowOf(rows, i) \in A /\ RowOf(rows, i).id = i
           /\ Find(rows, i) = {} => RowOf(rows, i) = None
  <1>1. Find(rows, i) = {k \in 1 .. Len(rows) : rows[k].id = i}
    BY LenProperties DEF Find
  <1>2. Find(rows, i) \subseteq Nat
    BY <1>1
  <1>3. ASSUME Find(rows, i) # {}
        PROVE  /\ First(Find(rows, i)) \in Find(rows, i)
               /\ \A j \in Find(rows, i) : First(Find(rows, i)) <= j
    BY <1>2, <1>3, FirstIs
  <1>4. RowOf(rows, i) = IF Find(rows, i) = {} THEN None ELSE rows[First(Find(rows, i))]
    BY DEF RowOf
  <1>5. \A k \in Find(rows, i) : rows[k] \in A /\ rows[k].id = i
    BY <1>1, ElementOfSeq
  <1> QED BY <1>1, <1>3, <1>4, <1>5

\* A row of the id with none before it is the one that is found.
LEMMA RowOfIs ==
    ASSUME NEW A, NEW rows \in Seq(A), NEW i, NEW k \in 1 .. Len(rows), rows[k].id = i,
           \A j \in 1 .. Len(rows) : rows[j].id = i => k <= j
    PROVE  Find(rows, i) # {} /\ First(Find(rows, i)) = k /\ RowOf(rows, i) = rows[k]
  <1>1. k \in Find(rows, i) /\ \A j \in Find(rows, i) : k <= j /\ j \in Nat
    BY Found
  <1>2. First(Find(rows, i)) \in Find(rows, i) /\ First(Find(rows, i)) <= k
    BY <1>1, Found
  <1>3. First(Find(rows, i)) = k
    <2> SUFFICES ASSUME NEW f, f = First(Find(rows, i)) PROVE f = k
      OBVIOUS
    <2>1. f \in Nat /\ k \in Nat /\ k <= f /\ f <= k
      BY <1>1, <1>2
    <2> QED BY <2>1
  <1> QED BY <1>1, <1>3, Found

\* create(): the rows of other ids stay, and a new id gets the new row.
LEMMA AppendKeeps ==
    ASSUME NEW A, NEW rows \in Seq(A), NEW row \in A
    PROVE  /\ Append(rows, row) \in Seq(A) /\ Len(Append(rows, row)) = Len(rows) + 1
           /\ \A i : Find(rows, i) # {} \/ row.id # i => RowOf(Append(rows, row), i) = RowOf(rows, i)
           /\ \A i : Find(rows, i) # {} => Find(Append(rows, row), i) # {}
           /\ \A i : row.id # i /\ Find(rows, i) = {} => Find(Append(rows, row), i) = {}
           /\ Find(rows, row.id) = {} => RowOf(Append(rows, row), row.id) = row
  <1> DEFINE new == Append(rows, row)
             n == Len(rows)
  <1>1. /\ new \in Seq(A) /\ Len(new) = n + 1 /\ n \in Nat
        /\ new[n + 1] = row /\ \A k \in 1 .. n : new[k] = rows[k]
    BY AppendProperties, LenProperties
  <1> HIDE DEF new
  <1>2. \A i : /\ Find(rows, i) = {k \in 1 .. n : rows[k].id = i}
              /\ Find(new, i) = {k \in 1 .. n + 1 : new[k].id = i}
    BY <1>1, Found
  <1>3. ASSUME NEW i, Find(rows, i) # {}
        PROVE  RowOf(new, i) = RowOf(rows, i) /\ Find(new, i) # {}
    <2>1. PICK k \in Find(rows, i) : /\ \A j \in Find(rows, i) : k <= j
                                     /\ RowOf(rows, i) = rows[k]
      BY <1>3, Found
    <2>2. k \in 1 .. Len(new) /\ new[k].id = i
      BY <1>1, <1>2, <2>1
    <2>3. \A j \in 1 .. Len(new) : new[j].id = i => k <= j
      BY <1>1, <1>2, <2>1
    <2> QED BY <1>1, <1>2, <2>1, <2>2, <2>3, RowOfIs
  <1>4. ASSUME NEW i, row.id # i, Find(rows, i) = {}
        PROVE  RowOf(new, i) = RowOf(rows, i) /\ Find(new, i) = {}
    <2>1. ASSUME NEW k \in 1 .. n + 1, new[k].id = i PROVE FALSE
      <3>1. k = n + 1 \/ k \in 1 .. n
        BY <1>1
      <3>2. k \in 1 .. n => rows[k].id = i
        BY <1>1, <2>1
      <3> QED BY <1>1, <1>2, <1>4, <2>1, <3>1, <3>2
    <2>2. Find(new, i) = {}
      BY <1>2, <2>1
    <2> QED BY <1>1, <1>4, <2>2, Found
  <1>5. ASSUME Find(rows, row.id) = {} PROVE RowOf(new, row.id) = row
    <2>1. n + 1 \in 1 .. Len(new) /\ new[n + 1].id = row.id
      BY <1>1
    <2>2. \A j \in 1 .. Len(new) : new[j].id = row.id => n + 1 <= j
      <3> SUFFICES ASSUME NEW j \in 1 .. n + 1, new[j].id = row.id PROVE n + 1 <= j
        BY <1>1
      <3>1. j \notin 1 .. n
        BY <1>1, <1>2, <1>5
      <3> QED BY <1>1, <3>1
    <2> QED BY <1>1, <2>1, <2>2, RowOfIs
  <1> QED BY <1>1, <1>3, <1>4, <1>5 DEF new

\* update(): the first row of an id is replaced by one of the same id.
Replaced(new, rows, k, row) ==
    /\ k \in 1 .. Len(rows) /\ rows[k].id = row.id /\ k = First(Find(rows, row.id))
    /\ new = [rows EXCEPT ![k] = row]
LEMMA ReplaceKeeps ==
    ASSUME NEW A, NEW rows \in Seq(A), NEW row \in A, NEW k, NEW new,
           Replaced(new, rows, k, row)
    PROVE  /\ new \in Seq(A) /\ Len(new) = Len(rows)
           /\ \A i : i # row.id => RowOf(new, i) = RowOf(rows, i)
           /\ RowOf(new, row.id) = row
  <1>1. k \in 1 .. Len(rows) /\ rows[k].id = row.id /\ k = First(Find(rows, row.id))
    BY DEF Replaced
  <1>2. /\ new \in Seq(A) /\ Len(new) = Len(rows)
        /\ \A j \in 1 .. Len(rows) : new[j] = IF j = k THEN row ELSE rows[j]
    BY <1>1, ExceptSeq DEF Replaced
  <1>3. ASSUME NEW i PROVE Find(new, i) = Find(rows, i)
    <2>1. /\ Find(new, i) = {j \in 1 .. Len(rows) : new[j].id = i}
          /\ Find(rows, i) = {j \in 1 .. Len(rows) : rows[j].id = i}
      BY <1>2, Found
    <2>2. \A j \in 1 .. Len(rows) : new[j].id = rows[j].id
      BY <1>1, <1>2
    <2> QED BY <2>1, <2>2
  <1>4. \A i : i # row.id => RowOf(new, i) = RowOf(rows, i)
    <2> SUFFICES ASSUME NEW i, i # row.id, Find(rows, i) # {} PROVE RowOf(new, i) = RowOf(rows, i)
      BY <1>3, <1>2, Found
    <2>1. First(Find(rows, i)) \in 1 .. Len(rows) /\ rows[First(Find(rows, i))].id = i
      BY <1>1, Found
    <2> QED BY <1>1, <1>2, <1>3, <2>1, Found
  <1>5. RowOf(new, row.id) = row
    <2>1. Find(rows, row.id) # {}
      BY <1>1, Found
    <2> QED BY <1>1, <1>2, <1>3, <2>1, Found
  <1> QED BY <1>2, <1>4, <1>5

\* delete_by_id(): the rows of the id go, the others stay as they were.
LEMMA OthersKeep ==
    ASSUME NEW A, NEW rows \in Seq(A), NEW i
    PROVE  LET new == Others(rows, i) IN
           /\ new \in Seq(A)
           /\ \A j : j # i => RowOf(new, j) = RowOf(rows, j)
           /\ RowOf(new, i) = None
           /\ Find(rows, i) # {} => Len(new) < Len(rows)
  <1> DEFINE new == Others(rows, i)
             drop == {rows[k] : k \in Find(rows, i)}
  <1>1. \A k \in 1 .. Len(rows) : rows[k] \in drop <=> rows[k].id = i
    BY Found
  <1>2. new = Without(rows, drop)
    BY DEF Others
  <1> HIDE DEF new, drop
  <1>3. /\ new \in Seq(A) /\ \E pos : Places(pos, new, rows, Len(rows), drop)
        /\ (\E k \in 1 .. Len(rows) : rows[k] \in drop) => Len(new) < Len(rows)
    BY <1>2, FilterKeeps
  <1>4. PICK pos : Places(pos, new, rows, Len(rows), drop)
    BY <1>3
  <1>5. ASSUME NEW k \in 1 .. Len(new)
        PROVE  /\ pos[k] \in 1 .. Len(rows) /\ new[k] = rows[pos[k]] /\ rows[pos[k]].id # i
    BY <1>1, <1>4 DEF Places
  <1>6. RowOf(new, i) = None
    <2>1. Find(new, i) = {}
      BY <1>3, <1>5, Found
    <2> QED BY <1>3, <2>1, Found
  <1>7. ASSUME NEW j, j # i PROVE RowOf(new, j) = RowOf(rows, j)
    <2>1. CASE Find(rows, j) = {}
      <3>1. Find(new, j) = {}
        BY <1>3, <1>5, <2>1, Found
      <3> QED BY <1>3, <2>1, <3>1, Found
    <2>2. CASE Find(rows, j) # {}
      <3>1. PICK m \in 1 .. Len(rows) : /\ rows[m].id = j /\ RowOf(rows, j) = rows[m]
                                        /\ \A l \in 1 .. Len(rows) : rows[l].id = j => m <= l
        BY <2>2, Found
      <3>2. PICK k \in 1 .. Len(new) : pos[k] = m
        BY <1>1, <1>4, <1>7, <3>1 DEF Places
      <3>3. new[k] = rows[m] /\ new[k].id = j
        BY <1>5, <3>1, <3>2
      <3>4. \A l \in 1 .. Len(new) : new[l].id = j => k <= l
        <4> SUFFICES ASSUME NEW l \in 1 .. Len(new), new[l].id = j, ~(k <= l) PROVE FALSE
          OBVIOUS
        <4>1. pos[l] < pos[k]
          <5>1. l < k
            BY <1>3, LenProperties
          <5> QED BY <1>4, <5>1 DEF Places
        <4>2. m <= pos[l] /\ pos[l] \in Nat /\ m \in Nat
          BY <1>5, <3>1
        <4> QED BY <3>2, <4>1, <4>2
      <3> QED BY <1>3, <3>1, <3>3, <3>4, RowOfIs
    <2> QED BY <2>1, <2>2
  <1>8. ASSUME Find(rows, i) # {} PROVE Len(new) < Len(rows)
    <2>1. \E k \in 1 .. Len(rows) : rows[k] \in drop
      BY <1>1, <1>8, Found
    <2> QED BY <1>3, <2>1
  <1> QED BY <1>3, <1>6, <1>7, <1>8 DEF new

(* The inductive invariant                                                 *)

Steps == {"idle", "append", "append line", "locate", "replace", "count", "filter",
          "bind", "compare", "truncate", "header", "rows", "produce"}
Ops(step) ==
    CASE step \in {"append", "append line"} -> {"c"}
      [] step \in {"locate", "replace"} -> {"u"}
      [] step \in {"count", "filter", "bind", "compare"} -> {"d"}
      [] step \in {"truncate", "header", "rows"} -> {"u", "d"}
      [] step = "produce" -> {"c", "u", "d"}

\* What is where holds of every state, whatever overlaps.
StoreTyped ==
    /\ kind \in Kinds /\ up \in {"up", "down", "failed"}
    /\ heap \in Seq(Rows) /\ cur \in 1 .. Len(heap)
    /\ file \in [header: BOOLEAN, rows: Seq(Row \cup {Junk})]
    /\ log \in [Ids -> Seq(Row \cup {None})]
    /\ missed \subseteq Ids /\ torn \in BOOLEAN /\ tangled \in BOOLEAN
RequestTyped(t) ==
    IF pc[t] = "idle" THEN req[t] = NoRequest
    ELSE req[t] \in [op: Ops(pc[t]), id: Ids, row: Row] /\ req[t].row.id = req[t].id
PlaceTyped(t) ==
    /\ pc[t] \in {"replace", "rows"} => at[t][2] # 0
    /\ pc[t] = "rows" => at[t][1] \in 1 .. Len(heap)
    /\ pc[t] = "bind" => held[t] \in Rows
ThreadsTyped ==
    /\ pc \in [Threads -> Steps] /\ at \in [Threads -> Nat \X Nat]
    /\ DOMAIN held = Threads
    /\ req \in [Threads -> [op: {"c", "u", "d", None}, id: Ids \cup {None},
                            row: Row \cup {None}]]
    /\ \A t \in Threads : RequestTyped(t) /\ PlaceTyped(t)
    /\ up # "up" => \A t \in Threads : pc[t] = "idle"
Typed == StoreTyped /\ ThreadsTyped

\* Until then: only creates overlap, of rows with ids of their own; ...
Apart ==
    \A s, t \in Threads : s # t /\ Busy(s) /\ Busy(t) =>
        req[s].op = "c" /\ req[t].op = "c" /\ req[s].id # req[t].id
\* ... a request finds the list as it left it at its step before; ...
Place(t) ==
    LET i == req[t].id IN
    /\ pc[t] = "append" => Find(Cache, i) = {}
    /\ pc[t] \in {"locate", "replace", "count", "filter", "bind"} => Find(Cache, i) # {}
    /\ pc[t] = "replace" => at[t][2] = First(Find(Cache, i))
    /\ pc[t] \in {"filter", "bind"} => at[t][2] = Len(Cache)
    /\ pc[t] = "bind" => held[t] = Others(Cache, i)
    /\ pc[t] = "compare" => Len(Cache) < at[t][2]
    /\ Changed(t) => RowOf(Cache, i) = After(t)
\* ... what consumers hold lags behind the list by the requests at work; ...
Mirrored ==
    \A i \in Ids \ missed :
        (\A t \in Threads : Changed(t) => req[t].id # i) => View(i) = RowOf(Cache, i)
Calm == Apart /\ (\A t \in Threads : Place(t)) /\ Mirrored

\* ... and so does the file, unless it is being rewritten, by a request that is
\* then alone; a crash in the middle of that is what a restart may fail on.
Waiting == {t \in Threads : pc[t] = "append line"}
Stale(t) == pc[t] \in {"compare", "truncate", "header", "rows"}
Images(rows) == {LoadedRow(rows[k]) : k \in DOMAIN rows}
Whole == file.header /\ file.rows \in Seq(Row)
Kept ==
    /\ Len(Cache) = Len(file.rows) + Cardinality(Waiting)
    /\ Images(Cache) = Images(file.rows) \cup {LoadedRow(req[t].row) : t \in Waiting}
Written(t) ==
    /\ pc[t] = "header" => file.rows = << >>
    /\ pc[t] = "rows" =>
         /\ at[t][1] = cur /\ file.header
         /\ Len(file.rows) = at[t][2] - 1 /\ Len(file.rows) <= Len(Cache)
         /\ \A k \in 1 .. Len(file.rows) : file.rows[k] = Cache[k]
OnFile ==
    /\ (\A t \in Threads : ~Rewriting(t)) => Whole
    /\ up = "up" /\ (\A t \in Threads : ~Stale(t)) => Kept
    /\ \A t \in Threads : Written(t)
FileInv == ~torn /\ ~tangled => OnFile
Stopped == (up # "up" => ~tangled) /\ (up = "failed" => torn)

(* Everything keeps its type                                               *)

\* Which operations come through a step.
LEMMA OpsOf ==
    /\ Ops("append") = {"c"} /\ Ops("append line") = {"c"}
    /\ Ops("locate") = {"u"} /\ Ops("replace") = {"u"}
    /\ Ops("count") = {"d"} /\ Ops("filter") = {"d"} /\ Ops("bind") = {"d"}
    /\ Ops("compare") = {"d"}
    /\ Ops("truncate") = {"u", "d"} /\ Ops("header") = {"u", "d"} /\ Ops("rows") = {"u", "d"}
    /\ Ops("produce") = {"c", "u", "d"}
  BY DEF Ops

LEMMA OpsAre ==
    ASSUME NEW step \in Steps \ {"idle"}
    PROVE  Ops(step) \subseteq {"c", "u", "d"}
  BY OpsOf DEF Steps

LEMMA CacheTyped ==
    ASSUME Typed
    PROVE  /\ Cache \in Rows /\ Len(Cache) \in Nat /\ DOMAIN Cache = 1 .. Len(Cache)
           /\ \A k \in 1 .. Len(Cache) : Cache[k] \in Row
           /\ heap \in Seq(Rows) /\ cur \in 1 .. Len(heap) /\ Len(heap) \in Nat
           /\ cur \in Nat
  <1>1. heap \in Seq(Rows) /\ cur \in 1 .. Len(heap)
    BY DEF Typed, StoreTyped
  <1>2. Cache \in Rows
    BY <1>1, ElementOfSeq DEF Cache
  <1> QED BY <1>1, <1>2, LenProperties, ElementOfSeq DEF Rows

\* A step of t leaves the other threads alone.
Elsewhere(t) ==
    /\ DOMAIN pc' = Threads /\ DOMAIN req' = Threads
    /\ DOMAIN at' = Threads /\ DOMAIN held' = Threads
    /\ pc' = [s \in Threads |-> pc'[s]] /\ req' = [s \in Threads |-> req'[s]]
    /\ at' = [s \in Threads |-> at'[s]]
    /\ \A s \in Threads \ {t} : /\ pc'[s] = pc[s] /\ req'[s] = req[s]
                                 /\ at'[s] = at[s] /\ held'[s] = held[s]

\* Nothing else is to be shown of a step that is the work of one thread.
LEMMA StepTyped ==
    ASSUME Typed, NEW t \in Threads, Elsewhere(t), StoreTyped',
           up' = up, up = "up" \/ pc[t] # "idle",
           \A s \in Threads \ {t} :
               pc[s] # "rows" \/ Len(heap') = Len(heap) \/ Len(heap) <= Len(heap'),
           pc'[t] \in Steps, at'[t] \in Nat \X Nat, RequestTyped(t)', PlaceTyped(t)'
    PROVE  Typed'
  <1> USE DEF Typed, ThreadsTyped
  <1>1. ASSUME NEW s \in Threads \ {t}
        PROVE  /\ pc'[s] \in Steps /\ at'[s] \in Nat \X Nat
               /\ RequestTyped(s)' /\ PlaceTyped(s)'
               /\ req'[s] \in [op: {"c", "u", "d", None}, id: Ids \cup {None}, row: Row \cup {None}]
    <2>1. /\ pc'[s] = pc[s] /\ req'[s] = req[s] /\ at'[s] = at[s] /\ held'[s] = held[s]
          /\ RequestTyped(s) /\ PlaceTyped(s)
      BY DEF Elsewhere
    <2>2. pc[s] = "rows" => at[s][1] \in 1 .. Len(heap')
      <3>1. Len(heap) \in Nat /\ Len(heap') \in Nat
        BY LenProperties DEF StoreTyped
      <3> HIDE DEF Typed, ThreadsTyped
      <3>2. CASE Len(heap') = Len(heap)
        BY <2>1, <3>2 DEF PlaceTyped
      <3>3. CASE Len(heap) <= Len(heap')
        BY <2>1, <3>1, <3>3 DEF PlaceTyped
      <3>4. CASE pc[s] # "rows"
        BY <3>4
      <3> QED BY <3>2, <3>3, <3>4
    <2> QED BY <2>1, <2>2 DEF RequestTyped, PlaceTyped
  <1>2. req'[t] \in [op: {"c", "u", "d", None}, id: Ids \cup {None}, row: Row \cup {None}]
    <2>1. CASE pc'[t] = "idle"
      BY <2>1 DEF RequestTyped, NoRequest
    <2>2. CASE pc'[t] # "idle"
      <3>1. Ops(pc'[t]) \subseteq {"c", "u", "d", None}
        BY <2>2, OpsAre
      <3> QED BY <2>2, <3>1 DEF RequestTyped
    <2> QED BY <2>1, <2>2
  <1>3. \A s \in Threads :
          /\ pc'[s] \in Steps /\ at'[s] \in Nat \X Nat
          /\ RequestTyped(s)' /\ PlaceTyped(s)'
          /\ req'[s] \in [op: {"c", "u", "d", None}, id: Ids \cup {None}, row: Row \cup {None}]
    BY <1>1, <1>2
  <1>4. pc' \in [Threads -> Steps] /\ at' \in [Threads -> Nat \X Nat]
    BY <1>3 DEF Elsewhere
  <1>5. req' \in [Threads -> [op: {"c", "u", "d", None}, id: Ids \cup {None},
                             row: Row \cup {None}]]
    BY <1>3 DEF Elsewhere
  <1>6. up' = "up"
    OBVIOUS
  <1> QED BY <1>3, <1>4, <1>5, <1>6 DEF Elsewhere

\* The id of an account is computed again, with the same result.
LEMMA LoadedRowTyped ==
    ASSUME NEW row \in Row
    PROVE  /\ LoadedRow(row) \in Row
           /\ LoadedRow(LoadedRow(row)) = LoadedRow(row)
  <1>1. row.number \in Numbers /\ DerivedId[row.number] \in Ids
    BY StoreConstantsOK DEF Row
  <1>2. [row EXCEPT !.id = DerivedId[row.number]] \in Row
    BY <1>1 DEF Row
  <1>3. LET new == [row EXCEPT !.id = DerivedId[row.number]] IN
        [new EXCEPT !.id = DerivedId[new.number]] = new
    BY DEF Row
  <1> QED BY <1>2, <1>3 DEF LoadedRow

\* load() of a file of rows gives as many rows, each as it is read back.
LEMMA LoadedTyped ==
    ASSUME NEW f, f.rows \in Seq(Row)
    PROVE  /\ Loaded(f) \in Rows
           /\ f.header => /\ Len(Loaded(f)) = Len(f.rows)
                          /\ \A k \in 1 .. Len(f.rows) : Loaded(f)[k] = LoadedRow(f.rows[k])
  <1>1. Len(f.rows) \in Nat /\ DOMAIN f.rows = 1 .. Len(f.rows)
    BY LenProperties
  <1>2. CASE f.header
    <2> DEFINE rows == [k \in 1 .. Len(f.rows) |-> LoadedRow(f.rows[k])]
    <2>1. Loaded(f) = rows
      BY <1>1, <1>2 DEF Loaded
    <2>2. rows \in [1 .. Len(f.rows) -> Row]
      <3>1. \A k \in 1 .. Len(f.rows) : LoadedRow(f.rows[k]) \in Row
        BY ElementOfSeq, LoadedRowTyped
      <3> QED BY <3>1
    <2>3. \A k \in 1 .. Len(f.rows) : rows[k] = LoadedRow(f.rows[k])
      OBVIOUS
    <2> HIDE DEF rows
    <2>4. rows \in Seq(Row) /\ Len(rows) = Len(f.rows)
      BY <1>1, <2>2, FunctionIsSeq
    <2> QED BY <2>1, <2>3, <2>4 DEF Rows
  <1>3. CASE ~f.header
    BY <1>3, EmptySeq DEF Loaded, Rows
  <1> QED BY <1>2, <1>3

LEMMA MergedTyped ==
    ASSUME NEW row \in Row, NEW p \in Patches
    PROVE  Merged(row, p) \in Row /\ Merged(row, p).id = row.id
  <1>1. p \in Patch
    BY StoreConstantsOK
  <1>2. Given(p.status, row.status) \in {"ACTIVE", "CLOSED"}
    BY <1>1 DEF Given, Patch, Row
  <1> DEFINE dated == row.dated \/ p.dated \/ (kind = "accounts" /\ p.status = "CLOSED")
  <1>3. dated \in BOOLEAN
    OBVIOUS
  <1>4. Merged(row, p) = [row EXCEPT !.status = Given(p.status, row.status), !.dated = dated]
    BY DEF Merged
  <1> HIDE DEF dated
  <1> QED BY <1>2, <1>3, <1>4 DEF Row

LEMMA InitTyped == Init => Typed
  <1> SUFFICES ASSUME Init PROVE Typed
    OBVIOUS
  <1>1. PICK seed \in Seeds :
          /\ file = [header |-> TRUE, rows |-> seed]
          /\ heap = <<Loaded(file)>>
          /\ log = [i \in Ids |->
                IF Find(Loaded(file), i) = {} THEN << >> ELSE <<RowOf(Loaded(file), i)>>]
    BY DEF Init
  <1>2. seed \in Seq(Row) /\ file.rows = seed /\ file.header
    BY <1>1, StoreConstantsOK DEF Rows
  <1>3. Loaded(file) \in Seq(Row)
    BY <1>2, LoadedTyped DEF Rows
  <1>4. heap \in Seq(Rows) /\ 1 \in 1 .. Len(heap)
    <2> HIDE DEF Loaded
    <2> QED BY <1>1, <1>3 DEF Rows
  <1>5. file \in [header: BOOLEAN, rows: Seq(Row \cup {Junk})]
    <2>1. seed \in Seq(Row \cup {Junk})
      BY <1>2, SeqMonotonic
    <2> QED BY <1>1, <2>1
  <1>6. log \in [Ids -> Seq(Row \cup {None})]
    <2> SUFFICES ASSUME NEW i \in Ids PROVE log[i] \in Seq(Row \cup {None})
      BY <1>1
    <2>1. Find(Loaded(file), i) # {} => RowOf(Loaded(file), i) \in Row
      BY <1>3, Found
    <2>2. \A row \in Row : <<row>> \in Seq(Row \cup {None})
      OBVIOUS
    <2>3. << >> \in Seq(Row \cup {None})
      BY EmptySeq
    <2> QED BY <1>1, <2>1, <2>2, <2>3
  <1>7. StoreTyped
    BY <1>4, <1>5, <1>6 DEF Init, StoreTyped
  <1>8. ThreadsTyped
    BY DEF Init, ThreadsTyped, RequestTyped, PlaceTyped, Steps, NoRequest
  <1> QED BY <1>7, <1>8 DEF Typed

LEMMA BeginTyped ==
    ASSUME Typed, NEW t \in Threads, NEW op, NEW i \in Ids, NEW row \in Row, row.id = i,
           NEW next \in Steps \ {"idle", "replace", "rows", "bind"}, op \in Ops(next),
           Begin(t, op, i, row, next)
    PROVE  Typed'
  <1> USE DEF Begin, Goto, Store, Kafka
  <1>1. /\ pc' = [pc EXCEPT ![t] = next] /\ pc'[t] = next
        /\ req' = [req EXCEPT ![t] = [op |-> op, id |-> i, row |-> row]]
        /\ req'[t] = [op |-> op, id |-> i, row |-> row]
        /\ at' = at /\ held' = held
    BY DEF Typed, ThreadsTyped
  <1>2. StoreTyped'
    BY DEF Typed, StoreTyped
  <1>3. Elsewhere(t)
    BY <1>1 DEF Typed, ThreadsTyped, Elsewhere
  <1>4. RequestTyped(t)' /\ PlaceTyped(t)'
    BY <1>1 DEF RequestTyped, PlaceTyped
  <1>5. at'[t] \in Nat \X Nat /\ heap' = heap /\ up = "up" /\ up' = up
    BY <1>1 DEF Typed, ThreadsTyped
  <1> QED BY <1>1, <1>2, <1>3, <1>4, <1>5, StepTyped

NewRow(i, n) == [id |-> i, number |-> n, status |-> "ACTIVE", dated |-> FALSE]
\* A created row has an id that was never used.
LEMMA CreateIs ==
    ASSUME NEW t, Create(t)
    PROVE  \E i \in Ids \ Used, n \in Numbers :
             NewRow(i, n) \in Row /\ Begin(t, "c", i, NewRow(i, n), "append")
  <1> DEFINE i == CHOOSE i \in Ids \ Used : TRUE
  <1>1. PICK n \in Numbers :
          Ids \ Used # {} /\ Begin(t, "c", i, NewRow(i, n), "append")
    BY DEF Create, NewRow
  <1>2. i \in Ids \ Used
    BY <1>1
  <1> HIDE DEF i
  <1>3. NewRow(i, n) \in Row
    BY <1>2 DEF NewRow, Row
  <1> QED BY <1>1, <1>2, <1>3

LEMMA RequestsTyped ==
    ASSUME Typed, NEW t \in Threads, Create(t) \/ Update(t) \/ Delete(t)
    PROVE  Typed'
  <1>1. CASE Create(t)
    <2>1. PICK i \in Ids \ Used, n \in Numbers :
            NewRow(i, n) \in Row /\ Begin(t, "c", i, NewRow(i, n), "append")
      BY <1>1, CreateIs
    <2>2. "append" \in Steps \ {"idle", "replace", "rows", "bind"} /\ "c" \in Ops("append")
      BY OpsOf DEF Steps
    <2>3. NewRow(i, n).id = i
      BY DEF NewRow
    <2> QED BY <2>1, <2>2, <2>3, BeginTyped
  <1>2. CASE Update(t)
    <2>1. PICK i \in Ids, p \in Patches :
            Find(Cache, i) # {} /\ Begin(t, "u", i, Merged(RowOf(Cache, i), p), "locate")
      BY <1>2 DEF Update
    <2>2. "locate" \in Steps \ {"idle", "replace", "rows", "bind"} /\ "u" \in Ops("locate")
      BY OpsOf DEF Steps
    <2>3. RowOf(Cache, i) \in Row /\ RowOf(Cache, i).id = i
      BY <2>1, CacheTyped, Found DEF Rows
    <2>4. Merged(RowOf(Cache, i), p) \in Row /\ Merged(RowOf(Cache, i), p).id = i
      BY <2>3, MergedTyped
    <2> QED BY <2>1, <2>2, <2>4, BeginTyped
  <1>3. CASE Delete(t)
    <2>1. PICK i \in Ids : Find(Cache, i) # {} /\ Begin(t, "d", i, RowOf(Cache, i), "count")
      BY <1>3 DEF Delete
    <2>2. "count" \in Steps \ {"idle", "replace", "rows", "bind"} /\ "d" \in Ops("count")
      BY OpsOf DEF Steps
    <2>3. RowOf(Cache, i) \in Row /\ RowOf(Cache, i).id = i
      BY <2>1, CacheTyped, Found DEF Rows
    <2> QED BY <2>1, <2>2, <2>3, BeginTyped
  <1> QED BY <1>1, <1>2, <1>3

\* A request that is answered leaves nothing behind.
LEMMA AnswerTyped ==
    ASSUME Typed, NEW t \in Threads, Answer(t)
    PROVE  Elsewhere(t) /\ pc'[t] \in Steps /\ at'[t] \in Nat \X Nat
           /\ RequestTyped(t)' /\ PlaceTyped(t)'
  <1>1. /\ pc'[t] = "idle" /\ req'[t] = NoRequest /\ at'[t] = <<0, 0>>
    BY DEF Answer, Goto, Typed, ThreadsTyped
  <1>2. Elsewhere(t)
    BY DEF Answer, Goto, Typed, ThreadsTyped, Elsewhere
  <1> QED BY <1>1, <1>2 DEF Steps, RequestTyped, PlaceTyped

\* A step of t to another step of the same request.
LEMMA GoesOn ==
    ASSUME Typed, NEW t \in Threads, pc[t] # "idle", NEW next \in Steps \ {"idle"},
           Ops(pc[t]) \subseteq Ops(next), Goto(t, next), req' = req
    PROVE  RequestTyped(t)' /\ pc'[t] = next
  <1>1. pc'[t] = next
    BY DEF Goto, Typed, ThreadsTyped
  <1>2. RequestTyped(t)
    BY DEF Typed, ThreadsTyped
  <1> QED BY <1>1, <1>2 DEF RequestTyped

LEMMA ListReplaced ==
    ASSUME Typed, NEW new \in Rows
    PROVE  LET now == [heap EXCEPT ![cur] = new] IN
           now \in Seq(Rows) /\ Len(now) = Len(heap) /\ now[cur] = new
  <1>1. heap \in Seq(Rows) /\ cur \in 1 .. Len(heap)
    BY CacheTyped
  <1> QED BY <1>1, ExceptSeq

LEMMA ListStepsTyped ==
    ASSUME Typed, NEW t \in Threads,
           AppendRow(t) \/ Replace(t) \/ Bind(t)
    PROVE  Typed'
  <1> USE CacheTyped
  <1> USE DEF Goto, Store, Kafka, Locals, Env
  <1>1. CASE AppendRow(t)
    <2> USE <1>1 DEF AppendRow
    <2>1. req[t].row \in Row
      BY OpsOf DEF Typed, ThreadsTyped, RequestTyped
    <2>2. Append(Cache, req[t].row) \in Rows
      BY <2>1, AppendProperties DEF Rows
    <2>3. heap' = [heap EXCEPT ![cur] = Append(Cache, req[t].row)]
      BY DEF Cache
    <2>4. heap' \in Seq(Rows) /\ Len(heap') = Len(heap)
      <3> HIDE DEF AppendRow
      <3> QED BY <2>2, <2>3, ListReplaced
    <2>5. StoreTyped'
      BY <2>4 DEF Typed, StoreTyped
    <2>6. Elsewhere(t) /\ at'[t] \in Nat \X Nat
      BY DEF Typed, ThreadsTyped, Elsewhere
    <2>7. RequestTyped(t)' /\ pc'[t] = "append line"
      BY GoesOn, OpsOf DEF Steps
    <2>8. PlaceTyped(t)' /\ pc'[t] \in Steps
      BY <2>7 DEF PlaceTyped, Steps
    <2> QED BY <2>4, <2>5, <2>6, <2>7, <2>8, StepTyped
  <1>2. CASE Replace(t)
    <2> USE <1>2 DEF Replace
    <2>1. CASE at[t][2] > Len(Cache)
      <3>1. Answer(t) /\ heap' = heap
        BY <2>1 DEF Typed, ThreadsTyped
      <3>2. StoreTyped'
        BY <3>1 DEF Typed, StoreTyped
      <3>3. /\ Elsewhere(t) /\ pc'[t] \in Steps /\ at'[t] \in Nat \X Nat
            /\ RequestTyped(t)' /\ PlaceTyped(t)'
        BY <3>1, AnswerTyped
      <3> QED BY <3>1, <3>2, <3>3, StepTyped
    <2>2. CASE at[t][2] <= Len(Cache)
      <3> DEFINE new == [Cache EXCEPT ![at[t][2]] = req[t].row]
      <3>1. /\ heap' = [heap EXCEPT ![cur][at[t][2]] = req[t].row]
            /\ Goto(t, "truncate") /\ Locals
        BY <2>2 DEF Typed, ThreadsTyped
      <3>2. req[t].row \in Row /\ at[t][2] \in 1 .. Len(Cache)
        <4>1. at[t] \in Nat \X Nat /\ RequestTyped(t) /\ PlaceTyped(t)
          BY DEF Typed, ThreadsTyped
        <4>2. at[t][2] \in Nat \ {0}
          BY <4>1 DEF PlaceTyped
        <4>3. req[t].row \in Row
          BY <4>1 DEF RequestTyped
        <4> QED BY <2>2, <4>2, <4>3
      <3>3. new \in Rows
        BY <3>2, ExceptSeq DEF Rows
      <3>4. heap' = [heap EXCEPT ![cur] = new]
        BY <3>1 DEF Cache
      <3> HIDE DEF new
      <3>5. heap' \in Seq(Rows) /\ Len(heap') = Len(heap)
        BY <3>3, <3>4, ExceptSeq DEF Typed, StoreTyped
      <3>6. StoreTyped'
        BY <3>5 DEF Typed, StoreTyped
      <3>7. Elsewhere(t) /\ at'[t] \in Nat \X Nat
        BY <3>1 DEF Typed, ThreadsTyped, Elsewhere
      <3>8. RequestTyped(t)' /\ pc'[t] = "truncate"
        BY <3>1, GoesOn, OpsOf DEF Steps
      <3>9. PlaceTyped(t)' /\ pc'[t] \in Steps
        BY <3>8 DEF PlaceTyped, Steps
      <3> QED BY <3>5, <3>6, <3>7, <3>8, <3>9, StepTyped
    <2> QED BY <2>1, <2>2 DEF Typed, ThreadsTyped
  <1>3. CASE Bind(t)
    <2> USE <1>3 DEF Bind
    <2> DEFINE others == {s \in Threads \ {t} : pc[s] # "idle"}
    <2>1. held[t] \in Rows
      BY DEF Typed, ThreadsTyped, PlaceTyped
    <2>2. heap' = IF others = {} THEN <<held[t]>> ELSE Append(heap, held[t])
      OBVIOUS
    <2>3. /\ heap' \in Seq(Rows) /\ cur' \in 1 .. Len(heap')
          /\ others = {} \/ Len(heap) <= Len(heap')
      <3>1. CASE others = {}
        <4>1. <<held[t]>> \in Seq(Rows) /\ Len(<<held[t]>>) = 1
          BY <2>1
        <4> QED BY <2>2, <3>1, <4>1
      <3>2. CASE others # {}
        <4>1. /\ Append(heap, held[t]) \in Seq(Rows)
              /\ Len(Append(heap, held[t])) = Len(heap) + 1 /\ Len(heap) \in Nat
          BY <2>1, AppendProperties DEF Typed, StoreTyped
        <4> QED BY <2>2, <3>2, <4>1
      <3> QED BY <3>1, <3>2
    <2>4. StoreTyped'
      BY <2>3 DEF Typed, StoreTyped
    <2>5. Elsewhere(t) /\ at'[t] \in Nat \X Nat
      BY DEF Typed, ThreadsTyped, Elsewhere
    <2>6. RequestTyped(t)' /\ pc'[t] = "compare"
      BY GoesOn, OpsOf DEF Steps
    <2>7. \A s \in Threads \ {t} : pc[s] # "rows" \/ Len(heap) <= Len(heap')
      BY <2>3
    <2> QED BY <2>4, <2>5, <2>6, <2>7, StepTyped DEF PlaceTyped, Steps
  <1> QED BY <1>1, <1>2, <1>3

LEMMA LookingStepsTyped ==
    ASSUME Typed, NEW t \in Threads,
           Locate(t) \/ Count(t) \/ Filter(t) \/ Compare(t)
    PROVE  Typed'
  <1> USE CacheTyped
  <1> USE DEF Goto, Store, Kafka, Locals, Env
  <1>1. CASE Locate(t)
    <2> USE <1>1 DEF Locate
    <2> DEFINE k == Position(Cache, req[t].id)
    <2>1. k \in Nat
      BY Found DEF Position, Rows
    <2>2. at' = [at EXCEPT ![t] = <<cur, k>>] /\ Goto(t, IF k = 0 THEN "truncate" ELSE "replace")
      OBVIOUS
    <2> HIDE DEF k
    <2>3. StoreTyped'
      BY DEF Typed, StoreTyped
    <2>4. Elsewhere(t)
      BY <2>2 DEF Typed, ThreadsTyped, Elsewhere
    <2>5. at'[t] = <<cur, k>> /\ at'[t] \in Nat \X Nat
      BY <2>1, <2>2 DEF Typed, ThreadsTyped
    <2>6. RequestTyped(t)' /\ pc'[t] = IF k = 0 THEN "truncate" ELSE "replace"
      BY <2>2, GoesOn, OpsOf DEF Steps
    <2>7. pc'[t] \in Steps /\ PlaceTyped(t)'
      <3> HIDE DEF Locate
      <3>1. CASE k = 0
        BY <2>6, <3>1 DEF Steps, PlaceTyped
      <3>2. CASE k # 0
        BY <2>5, <2>6, <3>2 DEF Steps, PlaceTyped
      <3> QED BY <3>1, <3>2
    <2> QED BY <2>3, <2>4, <2>5, <2>6, <2>7, StepTyped
  <1>2. CASE Count(t)
    <2> USE <1>2 DEF Count
    <2>1. StoreTyped'
      BY DEF Typed, StoreTyped
    <2>2. Elsewhere(t)
      BY DEF Typed, ThreadsTyped, Elsewhere
    <2>3. at'[t] \in Nat \X Nat
      BY DEF Typed, ThreadsTyped
    <2>4. RequestTyped(t)' /\ pc'[t] = "filter"
      BY GoesOn, OpsOf DEF Steps
    <2>5. PlaceTyped(t)' /\ pc'[t] \in Steps
      BY <2>4 DEF PlaceTyped, Steps
    <2> QED BY <2>1, <2>2, <2>3, <2>4, <2>5, StepTyped
  <1>3. CASE Filter(t)
    <2> USE <1>3 DEF Filter
    <2>1. StoreTyped'
      BY DEF Typed, StoreTyped
    <2>2. Elsewhere(t) /\ at'[t] \in Nat \X Nat /\ held'[t] = Others(Cache, req[t].id)
      BY DEF Typed, ThreadsTyped, Elsewhere
    <2>3. Others(Cache, req[t].id) \in Rows
      BY OthersKeep DEF Rows
    <2>4. RequestTyped(t)' /\ pc'[t] = "bind"
      BY GoesOn, OpsOf DEF Steps
    <2>5. PlaceTyped(t)' /\ pc'[t] \in Steps
      BY <2>2, <2>3, <2>4 DEF PlaceTyped, Steps
    <2> QED BY <2>1, <2>2, <2>4, <2>5, StepTyped
  <1>4. CASE Compare(t)
    <2> USE <1>4 DEF Compare
    <2>1. StoreTyped'
      BY DEF Typed, StoreTyped
    <2>2. CASE Answer(t)
      <3>1. /\ Elsewhere(t) /\ pc'[t] \in Steps /\ at'[t] \in Nat \X Nat
            /\ RequestTyped(t)' /\ PlaceTyped(t)'
        BY <2>2, AnswerTyped
      <3> QED BY <2>1, <3>1, StepTyped
    <2>3. CASE Goto(t, "truncate") /\ Locals
      <3>1. Elsewhere(t) /\ at'[t] \in Nat \X Nat
        BY <2>3 DEF Typed, ThreadsTyped, Elsewhere
      <3>2. RequestTyped(t)' /\ pc'[t] = "truncate"
        BY <2>3, GoesOn, OpsOf DEF Steps
      <3>3. PlaceTyped(t)' /\ pc'[t] \in Steps
        BY <3>2 DEF PlaceTyped, Steps
      <3> QED BY <2>1, <3>1, <3>2, <3>3, StepTyped
    <2> QED BY <2>2, <2>3
  <1> QED BY <1>1, <1>2, <1>3, <1>4

\* Writing a row at a place leaves every other row, and holes before the place.
LEMMA WrittenIs ==
    ASSUME NEW A, NEW rows \in Seq(A), NEW k \in Nat \ {0}, NEW row \in A, Junk \in A
    PROVE  LET new == WrittenAt(rows, k, row)
               n == IF k > Len(rows) THEN k ELSE Len(rows) IN
           /\ new \in Seq(A) /\ Len(new) = n
           /\ \A j \in 1 .. n : new[j] = IF j = k THEN row ELSE IF j <= Len(rows) THEN rows[j] ELSE Junk
  <1> DEFINE n == IF k > Len(rows) THEN k ELSE Len(rows)
             new == [j \in 1 .. n |-> IF j = k THEN row ELSE IF j <= Len(rows) THEN rows[j] ELSE Junk]
  <1>1. n \in Nat /\ Len(rows) \in Nat
    BY LenProperties
  <1>2. \A j \in 1 .. n : new[j] \in A
    <2> SUFFICES ASSUME NEW j \in 1 .. n PROVE new[j] \in A
      OBVIOUS
    <2>1. j <= Len(rows) => rows[j] \in A
      BY <1>1, ElementOfSeq
    <2> QED BY <2>1
  <1>3. WrittenAt(rows, k, row) = new /\ new = [j \in 1 .. n |-> new[j]]
    BY DEF WrittenAt
  <1>4. \A j \in 1 .. n : new[j] = IF j = k THEN row ELSE IF j <= Len(rows) THEN rows[j] ELSE Junk
    OBVIOUS
  <1>5. new \in Seq(A) /\ Len(new) = n
    <2> HIDE DEF new, n
    <2> QED BY <1>1, <1>2, <1>3, FunctionIsSeq
  <1> QED BY <1>3, <1>4, <1>5

\* A row written right after the others.
LEMMA WrittenNext ==
    ASSUME NEW A, NEW rows \in Seq(A), NEW row \in A, Junk \in A, NEW k, k = Len(rows) + 1
    PROVE  /\ Len(WrittenAt(rows, k, row)) = k
           /\ \A j \in 1 .. k : WrittenAt(rows, k, row)[j] = IF j = k THEN row ELSE rows[j]
  <1>1. k \in Nat \ {0} /\ k > Len(rows) /\ \A j \in 1 .. k : j # k => j <= Len(rows)
    BY LenProperties
  <1> DEFINE f == [j \in 1 .. k |-> IF j = k THEN row
                                    ELSE IF j <= Len(rows) THEN rows[j] ELSE Junk]
  <1>2. WrittenAt(rows, k, row) = f
    BY <1>1 DEF WrittenAt
  <1>3. \A j \in 1 .. k : f[j] = IF j = k THEN row ELSE rows[j]
    BY <1>1
  <1>4. Len(f) = k
    <2>1. \A j \in 1 .. k : j # k => rows[j] \in A
      BY <1>1, LenProperties, ElementOfSeq
    <2>2. f = [j \in 1 .. k |-> f[j]] /\ \A j \in 1 .. k : f[j] \in A
      BY <1>3, <2>1
    <2> HIDE DEF f
    <2> QED BY <1>1, <2>2, FunctionIsSeq
  <1> QED BY <1>2, <1>3, <1>4

LEMMA FileTyped ==
    ASSUME Typed
    PROVE  /\ file.rows \in Seq(Row \cup {Junk}) /\ file.header \in BOOLEAN
           /\ Len(file.rows) \in Nat
           /\ \A k \in 1 .. Len(file.rows) : file.rows[k] \in Row \cup {Junk}
  <1>1. file.rows \in Seq(Row \cup {Junk}) /\ file.header \in BOOLEAN
    BY DEF Typed, StoreTyped
  <1> QED BY <1>1, LenProperties, ElementOfSeq

LEMMA FileStepsTyped ==
    ASSUME Typed, NEW t \in Threads,
           AppendLine(t) \/ Truncate(t) \/ Header(t) \/ WriteRow(t)
    PROVE  Typed'
  <1>1. Len(heap) \in Nat /\ cur \in 1 .. Len(heap) /\ cur \in Nat /\ heap \in Seq(Rows)
    BY CacheTyped
  <1> USE DEF Goto, Store, Kafka, Locals, Env
  <1>2. CASE AppendLine(t)
    <2> USE <1>2 DEF AppendLine
    <2>1. req[t].row \in Row
      BY OpsOf DEF Typed, ThreadsTyped, RequestTyped
    <2>2. Append(file.rows, req[t].row) \in Seq(Row \cup {Junk})
      BY <2>1, FileTyped, AppendProperties
    <2>3. StoreTyped'
      BY <2>2 DEF Typed, StoreTyped
    <2>4. Elsewhere(t) /\ at'[t] \in Nat \X Nat
      BY DEF Typed, ThreadsTyped, Elsewhere
    <2>5. RequestTyped(t)' /\ pc'[t] = "produce"
      BY GoesOn, OpsOf DEF Steps
    <2>6. PlaceTyped(t)' /\ pc'[t] \in Steps
      BY <2>5 DEF PlaceTyped, Steps
    <2> QED BY <2>3, <2>4, <2>5, <2>6, StepTyped
  <1>3. CASE Truncate(t)
    <2> USE <1>3 DEF Truncate
    <2>1. StoreTyped'
      <3>1. << >> \in Seq(Row \cup {Junk})
        BY EmptySeq
      <3> QED BY <3>1 DEF Typed, StoreTyped
    <2>2. Elsewhere(t) /\ at'[t] \in Nat \X Nat
      BY DEF Typed, ThreadsTyped, Elsewhere
    <2>3. RequestTyped(t)' /\ pc'[t] = "header"
      BY GoesOn, OpsOf DEF Steps
    <2>4. PlaceTyped(t)' /\ pc'[t] \in Steps
      BY <2>3 DEF PlaceTyped, Steps
    <2> QED BY <2>1, <2>2, <2>3, <2>4, StepTyped
  <1>4. CASE Header(t)
    <2> USE <1>4 DEF Header
    <2>1. StoreTyped'
      BY DEF Typed, StoreTyped
    <2>2. Elsewhere(t)
      BY DEF Typed, ThreadsTyped, Elsewhere
    <2>3. at'[t] = <<cur, 1>> /\ at'[t] \in Nat \X Nat
      BY <1>1 DEF Typed, ThreadsTyped
    <2>4. RequestTyped(t)' /\ pc'[t] = "rows"
      BY GoesOn, OpsOf DEF Steps
    <2>5. PlaceTyped(t)' /\ pc'[t] \in Steps
      <3>1. at'[t][1] = cur /\ at'[t][2] = 1 /\ heap' = heap
        BY <2>3
      <3> HIDE DEF Header
      <3> QED BY <1>1, <2>4, <3>1 DEF PlaceTyped, Steps
    <2> QED BY <2>1, <2>2, <2>3, <2>4, <2>5, StepTyped
  <1>5. CASE WriteRow(t)
    <2> DEFINE l == at[t][1]
               k == at[t][2]
    <2>1. /\ pc[t] = "rows" /\ l \in 1 .. Len(heap) /\ k \in Nat \ {0}
          /\ heap[l] \in Rows
      <3>1. pc[t] = "rows" /\ at[t] \in Nat \X Nat /\ PlaceTyped(t)
        BY <1>5 DEF WriteRow, Typed, ThreadsTyped
      <3>2. l \in 1 .. Len(heap) /\ k \in Nat \ {0}
        BY <3>1 DEF PlaceTyped
      <3> QED BY <1>1, <3>1, <3>2, ElementOfSeq
    <2>2. CASE k <= Len(heap[l])
      <3>1. /\ file' = [file EXCEPT !.rows = WrittenAt(file.rows, k, heap[l][k])]
            /\ at' = [at EXCEPT ![t] = <<l, k + 1>>]
            /\ UNCHANGED <<pc, req, held, heap, cur, log, missed, kind, up, requests,
                          restarts, torn, tangled>>
        BY <1>5, <2>1, <2>2 DEF WriteRow, Rows
      <3>2. heap[l][k] \in Row
        BY <2>1, <2>2, ElementOfSeq DEF Rows
      <3>3. WrittenAt(file.rows, k, heap[l][k]) \in Seq(Row \cup {Junk})
        BY <2>1, <3>2, FileTyped, WrittenIs
      <3>4. StoreTyped'
        BY <3>1, <3>3 DEF Typed, StoreTyped
      <3>5. at'[t] = <<l, k + 1>> /\ at'[t] \in Nat \X Nat
        BY <2>1, <3>1 DEF Typed, ThreadsTyped
      <3>6. Elsewhere(t)
        BY <3>1 DEF Typed, ThreadsTyped, Elsewhere
      <3>7. RequestTyped(t)' /\ PlaceTyped(t)' /\ pc'[t] \in Steps
        <4>1. at'[t][1] = l /\ at'[t][2] = k + 1
          BY <3>5
        <4>2. PlaceTyped(t)'
          <5> HIDE DEF l, k
          <5> QED BY <2>1, <3>1, <4>1 DEF PlaceTyped
        <4> QED BY <2>1, <3>1, <4>2 DEF Typed, ThreadsTyped, RequestTyped, Steps
      <3> QED BY <2>1, <3>1, <3>4, <3>5, <3>6, <3>7, StepTyped
    <2>3. CASE ~(k <= Len(heap[l]))
      <3>1. /\ Goto(t, "produce")
            /\ UNCHANGED <<file, req, at, held, heap, cur, log, missed, kind, up, requests,
                          restarts, torn, tangled>>
        BY <1>5, <2>1, <2>3 DEF WriteRow, Rows
      <3>2. StoreTyped'
        BY <3>1 DEF Typed, StoreTyped
      <3>3. Elsewhere(t) /\ at'[t] \in Nat \X Nat
        BY <3>1 DEF Typed, ThreadsTyped, Elsewhere
      <3>4. RequestTyped(t)' /\ pc'[t] = "produce"
        BY <2>1, <3>1, GoesOn, OpsOf DEF Steps
      <3>5. PlaceTyped(t)' /\ pc'[t] \in Steps
        BY <3>4 DEF PlaceTyped, Steps
      <3> QED BY <2>1, <3>1, <3>2, <3>3, <3>4, <3>5, StepTyped
    <2> QED BY <2>2, <2>3
  <1> QED BY <1>2, <1>3, <1>4, <1>5

LEMMA EventsTyped ==
    ASSUME Typed, NEW t \in Threads, Delivered(t) \/ NotDelivered(t)
    PROVE  Typed'
  <1>1. /\ Answer(t) /\ pc[t] = "produce" /\ heap' = heap /\ up' = up
    BY DEF Delivered, NotDelivered, Store, Env
  <1>2. req[t].id \in Ids /\ After(t) \in Row \cup {None}
    BY <1>1, OpsOf DEF Typed, ThreadsTyped, RequestTyped, After
  <1>3. StoreTyped'
    <2>1. CASE Delivered(t)
      <3>1. log' = [log EXCEPT ![req[t].id] = Append(log[req[t].id], After(t))]
        BY <2>1 DEF Delivered
      <3>2. Append(log[req[t].id], After(t)) \in Seq(Row \cup {None})
        BY <1>2, AppendProperties DEF Typed, StoreTyped
      <3>3. log' \in [Ids -> Seq(Row \cup {None})]
        BY <3>1, <3>2 DEF Typed, StoreTyped
      <3> QED BY <2>1, <3>3 DEF Delivered, Store, Env, Typed, StoreTyped
    <2>2. CASE NotDelivered(t)
      BY <1>2, <2>2 DEF NotDelivered, Store, Env, Typed, StoreTyped
    <2> QED BY <2>1, <2>2
  <1>4. /\ Elsewhere(t) /\ pc'[t] \in Steps /\ at'[t] \in Nat \X Nat
        /\ RequestTyped(t)' /\ PlaceTyped(t)'
    BY <1>1, AnswerTyped
  <1> QED BY <1>1, <1>3, <1>4, StepTyped

LEMMA ProcessTyped ==
    ASSUME Typed, Crash \/ Restart
    PROVE  Typed'
  <1>1. CASE Crash
    <2> USE <1>1 DEF Crash
    <2>1. <<Cache>> \in Seq(Rows) /\ Len(<<Cache>>) = 1
      BY CacheTyped
    <2>2. {req[t].id : t \in {s \in Threads : Busy(s)}} \subseteq Ids
      <3>1. \A t \in Threads : Busy(t) => req[t].id \in Ids
        BY DEF Busy, Typed, ThreadsTyped, RequestTyped
      <3> QED BY <3>1
    <2>3. StoreTyped'
      BY <2>1, <2>2 DEF Typed, StoreTyped
    <2>4. ThreadsTyped'
      BY DEF ThreadsTyped, RequestTyped, PlaceTyped, Steps, NoRequest
    <2> QED BY <2>3, <2>4 DEF Typed
  <1>2. CASE Restart
    <2> USE <1>2 DEF Restart, Locals
    <2>1. CASE ~Readable(file)
      BY <2>1 DEF Typed, StoreTyped, ThreadsTyped, RequestTyped, PlaceTyped
    <2>2. CASE Readable(file)
      <3>1. heap' = <<Loaded(file)>> /\ cur' = 1
        BY <2>2
      <3>2. Loaded(file) \in Rows
        <4>1. CASE file.header
          <5>1. \A k \in 1 .. Len(file.rows) : file.rows[k] \in Row
            <6>1. DOMAIN file.rows = 1 .. Len(file.rows)
              BY FileTyped, LenProperties
            <6> QED BY <2>2, <4>1, <6>1, FileTyped DEF Readable
          <5>2. file.rows \in Seq(Row)
            <6>1. file.rows \in [1 .. Len(file.rows) -> Row]
              BY <5>1, FileTyped, LenProperties
            <6> QED BY <6>1, FileTyped, FunctionIsSeq
          <5> QED BY <5>2, LoadedTyped
        <4>2. CASE ~file.header
          BY <4>2, EmptySeq DEF Loaded, Rows
        <4> QED BY <4>1, <4>2
      <3>3. <<Loaded(file)>> \in Seq(Rows) /\ Len(<<Loaded(file)>>) = 1
        BY <3>2
      <3>4. StoreTyped'
        BY <2>2, <3>1, <3>3 DEF Typed, StoreTyped
      <3>5. ThreadsTyped'
        <4>1. /\ \A t \in Threads : pc[t] = "idle" /\ RequestTyped(t)
              /\ UNCHANGED <<pc, req, at, held>>
          BY DEF Typed, ThreadsTyped
        <4> QED BY <4>1 DEF Typed, ThreadsTyped, RequestTyped, PlaceTyped
      <3> QED BY <3>4, <3>5 DEF Typed
    <2> QED BY <2>1, <2>2
  <1> QED BY <1>1, <1>2

LEMMA NextTyped ==
    ASSUME Typed, [Next]_vars
    PROVE  Typed'
  <1>1. CASE UNCHANGED vars
    BY <1>1 DEF vars, Typed, StoreTyped, ThreadsTyped, RequestTyped, PlaceTyped
  <1>2. ASSUME NEW t \in Threads, Work(t) PROVE Typed'
    BY <1>2, ListStepsTyped, LookingStepsTyped, FileStepsTyped, EventsTyped DEF Work
  <1> QED BY <1>1, <1>2, RequestsTyped, ProcessTyped DEF Next

LEMMA AlwaysTyped == Spec => []Typed
  BY InitTyped, NextTyped, PTL DEF Spec

\* The list, the file and the topic have their types in every state, also where
\* requests overlap: an update or a rewrite at work refers to a list that is
\* still there, and to a place in it.
THEOREM TypeCorrect == Spec => []TypeOK
  <1>1. Typed => TypeOK
    BY CacheTyped, LenProperties DEF Typed, StoreTyped, ThreadsTyped, TypeOK
  <1> QED BY <1>1, AlwaysTyped, PTL

(* Until requests overlap that are not both creates                        *)

LEMMA BusyTyped ==
    ASSUME Typed, NEW t \in Threads, Busy(t)
    PROVE  /\ req[t] \in [op: Ops(pc[t]), id: Ids, row: Row] /\ req[t].row.id = req[t].id
           /\ pc[t] \in Steps \ {"idle"} /\ up = "up"
  BY DEF Busy, Typed, ThreadsTyped, RequestTyped

\* An update or a delete is alone; only creates are beside a create.
LEMMA Alone ==
    ASSUME Typed, Apart, NEW t \in Threads, Busy(t)
    PROVE  /\ req[t].op # "c" => \A s \in Threads \ {t} : ~Busy(s)
           /\ \A s \in Threads \ {t} : Busy(s) =>
                /\ pc[s] \in {"append", "append line", "produce"}
                /\ req[s].op = "c" /\ req[t].op = "c" /\ req[s].id # req[t].id
  <1>1. ASSUME NEW s \in Threads \ {t}, Busy(s)
        PROVE  /\ pc[s] \in {"append", "append line", "produce"}
               /\ req[s].op = "c" /\ req[t].op = "c" /\ req[s].id # req[t].id
    <2>1. req[s].op = "c" /\ req[t].op = "c" /\ req[s].id # req[t].id
      BY <1>1 DEF Apart
    <2>2. "c" \in Ops(pc[s]) /\ pc[s] \in Steps \ {"idle"}
      BY <1>1, <2>1, BusyTyped
    <2> QED BY <2>1, <2>2, OpsOf DEF Steps
  <1> QED BY <1>1

\* A step of a request under way: what it may do to its own row and must leave
\* to the others.
LEMMA CalmStep ==
    ASSUME Typed, Typed', Calm, NEW t \in Threads, Busy(t), Elsewhere(t),
           req'[t] = req[t] \/ pc'[t] = "idle",
           NEW id \in Ids, id = req[t].id,
           \A i \in Ids : i # id => RowOf(Cache', i) = RowOf(Cache, i) /\ View(i)' = View(i),
           \A s \in Threads \ {t} : Busy(s) /\ Find(Cache, req[s].id) = {} =>
                                       Find(Cache', req[s].id) = {},
           missed \subseteq missed', Place(t)',
           Changed(t)' \/ id \in missed' \/ View(id)' = RowOf(Cache', id)
    PROVE  Calm'
  <1> USE DEF Calm
  <1>1. ASSUME NEW s \in Threads \ {t}
        PROVE  /\ pc'[s] = pc[s] /\ req'[s] = req[s] /\ at'[s] = at[s] /\ held'[s] = held[s]
               /\ Busy(s)' = Busy(s) /\ Changed(s)' = Changed(s) /\ After(s)' = After(s)
    BY DEF Elsewhere, Busy, Changed, After
  <1>2. Apart'
    <2> SUFFICES ASSUME NEW s \in Threads, NEW u \in Threads, s # u, Busy(s)', Busy(u)'
                 PROVE  req'[s].op = "c" /\ req'[u].op = "c" /\ req'[s].id # req'[u].id
      BY DEF Apart
    <2>1. Busy(t)' => req'[t] = req[t]
      BY DEF Busy
    <2>2. Busy(s) /\ Busy(u) /\ req'[s] = req[s] /\ req'[u] = req[u]
      BY <1>1, <2>1
    <2> QED BY <2>2 DEF Apart
  <1>3. ASSUME NEW s \in Threads PROVE Place(s)'
    <2>1. CASE s # t /\ Busy(s)
      <3>1. /\ pc[s] \in {"append", "append line", "produce"} /\ req[s].id # req[t].id
            /\ req[s].id \in Ids
        BY <2>1, Alone, BusyTyped
      <3>2. RowOf(Cache', req[s].id) = RowOf(Cache, req[s].id)
        BY <3>1
      <3>3. Find(Cache, req[s].id) = {} => Find(Cache', req[s].id) = {}
        BY <2>1
      <3>4. Place(s)
        OBVIOUS
      <3> QED BY <1>1, <2>1, <3>1, <3>2, <3>3, <3>4 DEF Place, Changed
    <2>2. CASE s # t /\ ~Busy(s)
      <3>1. pc'[s] = "idle"
        BY <1>1, <2>2 DEF Busy
      <3> QED BY <3>1 DEF Place, Changed
    <2> QED BY <2>1, <2>2
  <1>4. Mirrored'
    <2> SUFFICES ASSUME NEW i \in Ids, i \notin missed',
                        \A s \in Threads : Changed(s)' => req'[s].id # i
                 PROVE  View(i)' = RowOf(Cache', i)
      BY DEF Mirrored
    <2>1. CASE i = req[t].id
      <3>1. ~Changed(t)'
        <4>1. Changed(t)' => req'[t] = req[t]
          BY DEF Changed
        <4> QED BY <2>1, <4>1
      <3> QED BY <2>1, <3>1
    <2>2. CASE i # req[t].id
      <3>1. \A s \in Threads : Changed(s) => req[s].id # i
        BY <1>1, <2>2
      <3>2. View(i) = RowOf(Cache, i)
        BY <3>1 DEF Mirrored
      <3> QED BY <2>2, <3>2
    <2> QED BY <2>1, <2>2
  <1> QED BY <1>2, <1>3, <1>4

\* Before its change a request finds its row as consumers have it.
LEMMA MirroredAt ==
    ASSUME Typed, Calm, NEW t \in Threads, Busy(t), ~Changed(t), req[t].id \notin missed
    PROVE  View(req[t].id) = RowOf(Cache, req[t].id)
  <1>1. \A s \in Threads : Changed(s) => req[s].id # req[t].id
    <2>1. \A s \in Threads : Changed(s) => Busy(s)
      BY DEF Changed, Busy
    <2> QED BY <2>1, Alone DEF Calm
  <1> QED BY <1>1, BusyTyped DEF Calm, Mirrored

\* A request at work changes nothing of the others.
LEMMA WorkElsewhere ==
    ASSUME Typed, NEW t \in Threads, Work(t)
    PROVE  /\ Elsewhere(t) /\ Busy(t)
           /\ req' = req \/ pc'[t] = "idle"
           /\ tangled' = tangled /\ torn' = torn /\ up' = up /\ kind' = kind
  <1> USE DEF Typed, ThreadsTyped, Elsewhere, Busy, Goto, Locals, Env, Answer
  <1>1. CASE AppendRow(t)
    BY <1>1 DEF AppendRow
  <1>2. CASE AppendLine(t)
    BY <1>2 DEF AppendLine
  <1>3. CASE Locate(t)
    BY <1>3 DEF Locate
  <1>4. CASE Replace(t)
    <2>1. CASE Locals /\ Goto(t, "truncate")
      BY <1>4, <2>1 DEF Replace
    <2>2. CASE Answer(t)
      BY <1>4, <2>2 DEF Replace
    <2> QED BY <1>4, <2>1, <2>2 DEF Replace
  <1>5. CASE Count(t)
    BY <1>5 DEF Count
  <1>6. CASE Filter(t)
    BY <1>6 DEF Filter
  <1>7. CASE Bind(t)
    BY <1>7 DEF Bind
  <1>8. CASE Compare(t)
    BY <1>8 DEF Compare
  <1>9. CASE Truncate(t)
    BY <1>9 DEF Truncate
  <1>10. CASE Header(t)
    BY <1>10 DEF Header
  <1>11. CASE WriteRow(t)
    BY <1>11 DEF WriteRow
  <1>12. CASE Delivered(t)
    BY <1>12 DEF Delivered
  <1>13. CASE NotDelivered(t)
    BY <1>13 DEF NotDelivered
  <1> QED BY <1>1, <1>2, <1>3, <1>4, <1>5, <1>6, <1>7, <1>8, <1>9, <1>10, <1>11, <1>12,
             <1>13 DEF Work

\* A step that leaves the list and the topic alone.
LEMMA QuietStep ==
    ASSUME Typed, Typed', Calm, NEW t \in Threads, Work(t), pc'[t] # "idle",
           UNCHANGED <<heap, cur, log, missed>>, Place(t)', Changed(t)' \/ ~Changed(t)
    PROVE  Calm'
  <1>1. Busy(t) /\ Elsewhere(t) /\ req' = req
    BY WorkElsewhere
  <1>2. PICK id \in Ids : id = req[t].id
    BY <1>1, BusyTyped
  <1>3. /\ Cache' = Cache /\ \A i : View(i)' = View(i)
    BY DEF Cache, View
  <1>4. Changed(t)' \/ id \in missed' \/ View(id)' = RowOf(Cache', id)
    BY <1>1, <1>2, <1>3, MirroredAt
  <1> QED BY <1>1, <1>2, <1>3, <1>4, CalmStep

LEMMA QuietStepsCalm ==
    ASSUME Typed, Typed', Calm, NEW t \in Threads, Work(t),
           \/ AppendLine(t) \/ Locate(t) \/ Count(t) \/ Filter(t)
           \/ Compare(t) \/ Truncate(t) \/ Header(t) \/ WriteRow(t)
    PROVE  Calm'
  <1>1. Place(t) /\ Busy(t) /\ req[t].id \in Ids /\ at[t] \in Nat \X Nat
    BY WorkElsewhere, BusyTyped DEF Calm, Typed, ThreadsTyped
  <1> USE DEF Store, Kafka, Locals, Env
  <1>2. CASE AppendLine(t)
    <2>1. pc[t] = "append line" /\ pc'[t] = "produce" /\ UNCHANGED <<heap, cur, log, missed, req>>
      BY <1>2 DEF AppendLine, Goto, Typed, ThreadsTyped
    <2>2. Place(t)' /\ Changed(t)'
      BY <1>1, <2>1 DEF Place, Changed, After, Cache
    <2> QED BY <2>1, <2>2, QuietStep
  <1>3. CASE Locate(t)
    <2>1. /\ pc[t] = "locate" /\ UNCHANGED <<heap, cur, log, missed, req>>
          /\ Find(Cache, req[t].id) # {}
      BY <1>1, <1>3 DEF Locate, Place
    <2>2. /\ Position(Cache, req[t].id) = First(Find(Cache, req[t].id))
          /\ Position(Cache, req[t].id) \in Nat \ {0}
      BY <2>1, CacheTyped, Found DEF Position, Rows
    <2>3. pc'[t] = "replace" /\ at'[t] = <<cur, First(Find(Cache, req[t].id))>>
      BY <1>3, <2>2 DEF Locate, Goto, Typed, ThreadsTyped
    <2>4. at'[t][2] = First(Find(Cache, req[t].id))
      BY <2>3
    <2>5. Place(t)' /\ ~Changed(t)
      BY <1>1, <2>1, <2>3, <2>4 DEF Place, Changed, After, Cache
    <2> QED BY <2>1, <2>3, <2>5, QuietStep
  <1>4. CASE Count(t)
    <2>1. /\ pc[t] = "count" /\ pc'[t] = "filter" /\ UNCHANGED <<heap, cur, log, missed, req>>
          /\ at'[t] = <<cur, Len(Cache)>>
      BY <1>4 DEF Count, Goto, Typed, ThreadsTyped
    <2>2. at'[t][2] = Len(Cache)
      BY <2>1
    <2>3. Place(t)' /\ ~Changed(t)
      BY <1>1, <2>1, <2>2 DEF Place, Changed, After, Cache
    <2> QED BY <2>1, <2>3, QuietStep
  <1>5. CASE Filter(t)
    <2>1. /\ pc[t] = "filter" /\ pc'[t] = "bind"
          /\ UNCHANGED <<heap, cur, log, missed, req, at>>
          /\ held'[t] = Others(Cache, req[t].id)
      BY <1>5 DEF Filter, Goto, Typed, ThreadsTyped
    <2>2. Place(t)' /\ ~Changed(t)
      BY <1>1, <2>1 DEF Place, Changed, After, Cache
    <2> QED BY <2>1, <2>2, QuietStep
  <1>6. CASE Compare(t)
    <2>1. pc[t] = "compare" /\ Len(Cache) < at[t][2] /\ Len(Cache) \in Nat
      BY <1>1, <1>6, CacheTyped DEF Compare, Place
    <2>2. pc'[t] = "truncate" /\ UNCHANGED <<heap, cur, log, missed, req>>
      BY <1>1, <1>6, <2>1 DEF Compare, Goto, Typed, ThreadsTyped
    <2>3. Place(t)' /\ Changed(t)'
      BY <1>1, <2>1, <2>2 DEF Place, Changed, After, Cache
    <2> QED BY <2>2, <2>3, QuietStep
  <1>7. CASE Truncate(t)
    <2>1. pc[t] = "truncate" /\ pc'[t] = "header" /\ UNCHANGED <<heap, cur, log, missed, req>>
      BY <1>7 DEF Truncate, Goto, Typed, ThreadsTyped
    <2>2. Place(t)' /\ Changed(t)'
      BY <1>1, <2>1 DEF Place, Changed, After, Cache
    <2> QED BY <2>1, <2>2, QuietStep
  <1>8. CASE Header(t)
    <2>1. pc[t] = "header" /\ pc'[t] = "rows" /\ UNCHANGED <<heap, cur, log, missed, req>>
      BY <1>8 DEF Header, Goto, Typed, ThreadsTyped
    <2>2. Place(t)' /\ Changed(t)'
      BY <1>1, <2>1 DEF Place, Changed, After, Cache
    <2> QED BY <2>1, <2>2, QuietStep
  <1>9. CASE WriteRow(t)
    <2>1. /\ pc[t] = "rows" /\ pc'[t] \in {"rows", "produce"}
          /\ UNCHANGED <<heap, cur, log, missed, req>>
      BY <1>9 DEF WriteRow, Goto, Typed, ThreadsTyped
    <2>2. Place(t)' /\ Changed(t)'
      BY <1>1, <2>1 DEF Place, Changed, After, Cache
    <2> QED BY <2>1, <2>2, QuietStep
  <1> QED BY <1>2, <1>3, <1>4, <1>5, <1>6, <1>7, <1>8, <1>9

\* What the three steps make of the list.
LEMMA AppendRowIs ==
    ASSUME Typed, NEW t \in Threads, AppendRow(t)
    PROVE  /\ Cache' = Append(Cache, req[t].row) /\ pc'[t] = "append line" /\ req' = req
           /\ req[t].op = "c" /\ req[t].row \in Row /\ req[t].row.id = req[t].id
           /\ log' = log /\ missed' = missed /\ cur' = cur /\ file' = file
  <1>1. /\ heap' = [heap EXCEPT ![cur] = Append(Cache, req[t].row)] /\ cur' = cur
        /\ pc[t] = "append" /\ Busy(t)
    BY DEF AppendRow, Cache, Busy
  <1>2. req[t].op = "c" /\ req[t].row \in Row /\ req[t].row.id = req[t].id
    BY <1>1, BusyTyped, OpsOf
  <1>3. Append(Cache, req[t].row) \in Rows
    BY <1>2, CacheTyped, AppendProperties DEF Rows
  <1>4. Cache' = Append(Cache, req[t].row)
    <2>1. heap'[cur] = Append(Cache, req[t].row)
      BY <1>1, <1>3, ListReplaced
    <2> QED BY <1>1, <2>1 DEF Cache
  <1> QED BY <1>1, <1>2, <1>4 DEF AppendRow, Goto, Kafka, Locals, Typed, ThreadsTyped

LEMMA ReplaceIs ==
    ASSUME Typed, Calm, NEW t \in Threads, Replace(t)
    PROVE  LET k == First(Find(Cache, req[t].id)) IN
           /\ k \in 1 .. Len(Cache) /\ Cache[k].id = req[t].id
           /\ Cache' = [Cache EXCEPT ![k] = req[t].row] /\ pc'[t] = "truncate" /\ req' = req
           /\ req[t].op = "u" /\ req[t].row \in Row /\ req[t].row.id = req[t].id
           /\ log' = log /\ missed' = missed /\ cur' = cur /\ file' = file
  <1> DEFINE k == First(Find(Cache, req[t].id))
  <1>1. pc[t] = "replace" /\ Busy(t) /\ Place(t)
    BY DEF Replace, Busy, Calm
  <1>2. req[t].op = "u" /\ req[t].row \in Row /\ req[t].row.id = req[t].id
    BY <1>1, BusyTyped, OpsOf
  <1>3. k \in 1 .. Len(Cache) /\ Cache[k].id = req[t].id /\ at[t][2] = k
    <2>1. Find(Cache, req[t].id) # {} /\ at[t][2] = k
      BY <1>1 DEF Place
    <2>2. Cache \in Seq(Row)
      BY CacheTyped DEF Rows
    <2> QED BY <2>1, <2>2, Found
  <1>4. at[t][2] <= Len(Cache) /\ ~(at[t][2] > Len(Cache))
    BY <1>3, CacheTyped
  <1>5. /\ heap' = [heap EXCEPT ![cur][k] = req[t].row] /\ cur' = cur
        /\ Goto(t, "truncate") /\ Locals /\ log' = log /\ missed' = missed /\ file' = file
    BY <1>3, <1>4 DEF Replace, Kafka
  <1>6. [Cache EXCEPT ![k] = req[t].row] \in Rows
    BY <1>2, <1>3, CacheTyped, ExceptSeq DEF Rows
  <1>7. heap' = [heap EXCEPT ![cur] = [Cache EXCEPT ![k] = req[t].row]]
    BY <1>5 DEF Cache
  <1> HIDE DEF k
  <1>8. Cache' = [Cache EXCEPT ![k] = req[t].row]
    <2>1. heap'[cur] = [Cache EXCEPT ![k] = req[t].row]
      BY <1>6, <1>7, ListReplaced
    <2> QED BY <1>5, <2>1 DEF Cache
  <1> QED BY <1>2, <1>3, <1>5, <1>8 DEF Goto, Locals, Typed, ThreadsTyped, k

LEMMA BindIs ==
    ASSUME Typed, Calm, NEW t \in Threads, Bind(t)
    PROVE  /\ Cache' = Others(Cache, req[t].id) /\ pc'[t] = "compare" /\ req' = req /\ at' = at
           /\ req[t].op = "d" /\ Find(Cache, req[t].id) # {} /\ at[t][2] = Len(Cache)
           /\ log' = log /\ missed' = missed /\ file' = file
  <1>1. pc[t] = "bind" /\ Busy(t) /\ Place(t)
    BY DEF Bind, Busy, Calm
  <1>2. /\ req[t].op = "d" /\ held[t] = Others(Cache, req[t].id)
        /\ Find(Cache, req[t].id) # {} /\ at[t][2] = Len(Cache)
    BY <1>1, BusyTyped, OpsOf DEF Place
  <1>3. Cache' = held[t]
    <2>1. heap' = <<held[t]>> \/ heap' = Append(heap, held[t])
      BY DEF Bind
    <2>2. CASE heap' = <<held[t]>>
      <3>1. cur' = 1
        BY <2>2 DEF Bind
      <3> QED BY <2>2, <3>1 DEF Cache
    <2>3. CASE heap' = Append(heap, held[t])
      <3>1. heap \in Seq(Rows) /\ held[t] \in Rows
        BY <1>1, CacheTyped DEF Typed, ThreadsTyped, PlaceTyped
      <3>2. Len(heap') = Len(heap) + 1 /\ heap'[Len(heap) + 1] = held[t]
        BY <2>3, <3>1, AppendProperties
      <3>3. cur' = Len(heap')
        BY DEF Bind
      <3> QED BY <3>2, <3>3 DEF Cache
    <2> QED BY <2>1, <2>2, <2>3
  <1> QED BY <1>1, <1>2, <1>3 DEF Bind, Goto, Kafka, Env, Typed, ThreadsTyped

LEMMA ListStepsCalm ==
    ASSUME Typed, Typed', Calm, NEW t \in Threads, Work(t),
           AppendRow(t) \/ Replace(t) \/ Bind(t)
    PROVE  Calm'
  <1>1. Place(t) /\ Busy(t) /\ Elsewhere(t) /\ Apart
    BY WorkElsewhere DEF Calm
  <1>2. PICK id \in Ids : id = req[t].id
    BY <1>1, BusyTyped
  <1>3. CASE AppendRow(t)
    <2>1. Find(Cache, id) = {} /\ pc[t] = "append"
      BY <1>1, <1>2, <1>3 DEF AppendRow, Place
    <2>2. /\ Cache' = Append(Cache, req[t].row) /\ pc'[t] = "append line" /\ req' = req
          /\ req[t].op = "c" /\ req[t].row \in Row /\ req[t].row.id = id
          /\ log' = log /\ missed' = missed
      BY <1>2, <1>3, AppendRowIs
    <2>3. /\ \A i : i # id => RowOf(Cache', i) = RowOf(Cache, i)
          /\ \A i : i # id /\ Find(Cache, i) = {} => Find(Cache', i) = {}
          /\ RowOf(Cache', id) = req[t].row
      <3>1. PICK row \in Row : row = req[t].row /\ row.id = id
        BY <2>2
      <3>2. Cache \in Seq(Row) /\ Cache' = Append(Cache, row)
        BY <2>2, <3>1, CacheTyped DEF Rows
      <3>3. Find(Cache, row.id) = {}
        BY <2>1, <3>1
      <3> HIDE DEF Cache
      <3> QED BY <3>1, <3>2, <3>3, AppendKeeps
    <2>4. Place(t)' /\ Changed(t)'
      BY <1>2, <2>2, <2>3 DEF Place, Changed, After
    <2>5. \A i : View(i)' = View(i)
      BY <2>2 DEF View
    <2>6. \A s \in Threads \ {t} : Busy(s) => req[s].id # id
      BY <1>1, <1>2, Alone
    <2> QED BY <1>1, <1>2, <2>2, <2>3, <2>4, <2>5, <2>6, CalmStep
  <1>4. CASE Replace(t)
    <2> DEFINE k == First(Find(Cache, id))
    <2>1. /\ k \in 1 .. Len(Cache) /\ Cache[k].id = id
          /\ Cache' = [Cache EXCEPT ![k] = req[t].row] /\ pc'[t] = "truncate" /\ req' = req
          /\ req[t].op = "u" /\ req[t].row \in Row /\ req[t].row.id = id
          /\ log' = log /\ missed' = missed
      BY <1>2, <1>4, ReplaceIs
    <2>2. /\ \A i : i # id => RowOf(Cache', i) = RowOf(Cache, i)
          /\ RowOf(Cache', id) = req[t].row
      <3>1. PICK row \in Row : row = req[t].row /\ row.id = id
        BY <2>1
      <3>2. Cache \in Seq(Row) /\ Cache' = [Cache EXCEPT ![k] = row]
        BY <2>1, <3>1, CacheTyped DEF Rows
      <3>3. k \in 1 .. Len(Cache) /\ Cache[k].id = row.id /\ k = First(Find(Cache, row.id))
        BY <2>1, <3>1
      <3>4. Replaced(Cache', Cache, k, row)
        BY <3>2, <3>3 DEF Replaced
      <3> QED BY <3>1, <3>2, <3>4, ReplaceKeeps
    <2>3. Place(t)' /\ Changed(t)'
      BY <1>2, <2>1, <2>2 DEF Place, Changed, After
    <2>4. \A i : View(i)' = View(i)
      BY <2>1 DEF View
    <2>5. \A s \in Threads \ {t} : ~Busy(s)
      BY <1>1, <2>1, Alone
    <2> HIDE DEF k
    <2> QED BY <1>1, <1>2, <2>1, <2>2, <2>3, <2>4, <2>5, CalmStep
  <1>5. CASE Bind(t)
    <2>1. /\ Cache' = Others(Cache, id) /\ pc'[t] = "compare" /\ req' = req /\ at' = at
          /\ req[t].op = "d" /\ Find(Cache, id) # {} /\ at[t][2] = Len(Cache)
          /\ log' = log /\ missed' = missed
      BY <1>2, <1>5, BindIs
    <2>2. /\ \A i : i # id => RowOf(Cache', i) = RowOf(Cache, i)
          /\ RowOf(Cache', id) = None /\ Len(Cache') < Len(Cache)
      BY <2>1, CacheTyped, OthersKeep DEF Rows
    <2>3. Place(t)' /\ Changed(t)'
      BY <1>2, <2>1, <2>2 DEF Place, Changed, After
    <2>4. \A i : View(i)' = View(i)
      BY <2>1 DEF View
    <2>5. \A s \in Threads \ {t} : ~Busy(s)
      BY <1>1, <2>1, Alone
    <2> QED BY <1>1, <1>2, <2>1, <2>2, <2>3, <2>4, <2>5, CalmStep
  <1> QED BY <1>3, <1>4, <1>5

LEMMA EventsCalm ==
    ASSUME Typed, Typed', Calm, NEW t \in Threads, Work(t), Delivered(t) \/ NotDelivered(t)
    PROVE  Calm'
  <1>1. /\ Busy(t) /\ Elsewhere(t) /\ Place(t)
        /\ pc[t] = "produce" /\ pc'[t] = "idle"
        /\ heap' = heap /\ cur' = cur
    BY WorkElsewhere DEF Calm, Delivered, NotDelivered, Answer, Goto, Store, Typed, ThreadsTyped
  <1>2. PICK id \in Ids : id = req[t].id
    BY <1>1, BusyTyped
  <1>3. Cache' = Cache /\ RowOf(Cache, id) = After(t)
    BY <1>1, <1>2 DEF Cache, Place, Changed
  <1>4. Place(t)'
    BY <1>1 DEF Place, Changed
  <1>5. CASE Delivered(t)
    <2>1. log' = [log EXCEPT ![id] = Append(log[id], After(t))] /\ missed' = missed
      BY <1>2, <1>5 DEF Delivered
    <2>2. \A i \in Ids : i # id => View(i)' = View(i)
      BY <2>1 DEF View, Typed, StoreTyped
    <2>3. View(id)' = After(t)
      <3>1. log[id] \in Seq(Row \cup {None}) /\ After(t) \in Row \cup {None}
        BY <1>1, BusyTyped DEF Typed, StoreTyped, After
      <3>2. /\ log'[id] = Append(log[id], After(t)) /\ Len(log'[id]) = Len(log[id]) + 1
            /\ log'[id][Len(log'[id])] = After(t) /\ log'[id] # << >>
        <4>1. log'[id] = Append(log[id], After(t))
          BY <2>1 DEF Typed, StoreTyped
        <4> QED BY <3>1, <4>1, AppendProperties
      <3> QED BY <3>2 DEF View
    <2> QED BY <1>1, <1>2, <1>3, <1>4, <2>1, <2>2, <2>3, CalmStep
  <1>6. CASE NotDelivered(t)
    <2>1. missed' = missed \cup {id} /\ \A i : View(i)' = View(i)
      BY <1>2, <1>6 DEF NotDelivered, View
    <2> QED BY <1>1, <1>2, <1>3, <1>4, <2>1, CalmStep
  <1> QED BY <1>5, <1>6

\* A request begins: a create with an id that nothing has, or the only request.
LEMMA BeginCalm ==
    ASSUME Typed, Typed', Calm, ~tangled', NEW t \in Threads, NEW op, NEW i \in Ids, NEW row,
           NEW next, Begin(t, op, i, row, next),
           \/ op = "c" /\ next = "append" /\ i \notin Used
           \/ op = "u" /\ next = "locate" /\ Find(Cache, i) # {}
           \/ op = "d" /\ next = "count" /\ Find(Cache, i) # {}
    PROVE  Calm'
  <1>1. /\ pc[t] = "idle" /\ pc' = [pc EXCEPT ![t] = next] /\ at' = at /\ held' = held
        /\ req' = [req EXCEPT ![t] = [op |-> op, id |-> i, row |-> row]]
        /\ heap' = heap /\ cur' = cur /\ log' = log /\ missed' = missed
    BY DEF Begin, Goto, Store, Kafka
  <1>2. /\ pc'[t] = next /\ req'[t].op = op /\ req'[t].id = i
        /\ \A s \in Threads \ {t} : pc'[s] = pc[s] /\ req'[s] = req[s]
    BY <1>1 DEF Typed, ThreadsTyped
  <1>3. ASSUME NEW s \in Threads \ {t}, Busy(s)
        PROVE  op = "c" /\ req[s].op = "c" /\ req[s].id # i
    <2>1. {op, req[s].op} = {"c"}
      BY <1>3 DEF Begin, Busy
    <2>2. op = "c" /\ req[s].op = "c"
      BY <2>1
    <2>3. req[s].id # i
      BY <2>2 DEF Used
    <2> QED BY <2>2, <2>3
  <1>4. Cache' = Cache /\ \A j : View(j)' = View(j)
    BY <1>1 DEF Cache, View
  <1>5. Apart'
    <2> SUFFICES ASSUME NEW s \in Threads, NEW u \in Threads, s # u, Busy(s)', Busy(u)'
                 PROVE  req'[s].op = "c" /\ req'[u].op = "c" /\ req'[s].id # req'[u].id
      BY DEF Apart
    <2>1. \A v \in Threads \ {t} : Busy(v)' = Busy(v)
      BY <1>2 DEF Busy
    <2>2. CASE s # t /\ u # t
      BY <1>2, <2>1, <2>2 DEF Calm, Apart
    <2>3. CASE s = t
      BY <1>2, <1>3, <2>1, <2>3
    <2>4. CASE u = t
      BY <1>2, <1>3, <2>1, <2>4
    <2> QED BY <2>2, <2>3, <2>4
  <1>6. ASSUME NEW s \in Threads PROVE Place(s)'
    <2>1. CASE s # t
      BY <1>1, <1>2, <1>4, <2>1 DEF Calm, Place, Changed, After
    <2>2. CASE s = t
      <3>1. op = "c" => Find(Cache, i) = {}
        <4>1. i \notin Used => i \notin {Cache[k].id : k \in DOMAIN Cache}
          BY DEF Used
        <4>2. ASSUME op = "c" PROVE i \notin {Cache[k].id : k \in DOMAIN Cache}
          BY <4>1, <4>2
        <4> QED BY <4>2 DEF Find
      <3> QED BY <1>2, <1>4, <2>2, <3>1 DEF Place, Changed
    <2> QED BY <2>1, <2>2
  <1>7. Mirrored'
    <2> SUFFICES ASSUME NEW j \in Ids, j \notin missed',
                        \A s \in Threads : Changed(s)' => req'[s].id # j
                 PROVE  View(j)' = RowOf(Cache', j)
      BY DEF Mirrored
    <2>1. \A s \in Threads : Changed(s) => req[s].id # j
      <3> SUFFICES ASSUME NEW s \in Threads, Changed(s) PROVE req[s].id # j
        OBVIOUS
      <3>1. s # t
        BY <1>1 DEF Changed
      <3>2. Changed(s)' /\ req'[s] = req[s]
        BY <1>2, <3>1 DEF Changed
      <3> QED BY <3>2
    <2>2. View(j) = RowOf(Cache, j)
      BY <1>1, <2>1 DEF Calm, Mirrored
    <2> QED BY <1>4, <2>2
  <1> QED BY <1>5, <1>6, <1>7 DEF Calm

LEMMA RequestsCalm ==
    ASSUME Typed, Typed', Calm, ~tangled', NEW t \in Threads, Create(t) \/ Update(t) \/ Delete(t)
    PROVE  Calm'
  <1>1. CASE Create(t)
    <2>1. PICK i \in Ids \ Used, n \in Numbers : Begin(t, "c", i, NewRow(i, n), "append")
      BY <1>1, CreateIs
    <2> QED BY <2>1, BeginCalm
  <1>2. CASE Update(t)
    <2>1. PICK i \in Ids, p \in Patches :
            Find(Cache, i) # {} /\ Begin(t, "u", i, Merged(RowOf(Cache, i), p), "locate")
      BY <1>2 DEF Update
    <2> QED BY <2>1, BeginCalm
  <1>3. CASE Delete(t)
    <2>1. PICK i \in Ids : Find(Cache, i) # {} /\ Begin(t, "d", i, RowOf(Cache, i), "count")
      BY <1>3 DEF Delete
    <2> QED BY <2>1, BeginCalm
  <1> QED BY <1>1, <1>2, <1>3

\* A crash gives up what was at work; a restart notes the rows it lost.
LEMMA ProcessCalm ==
    ASSUME Typed, Typed', Calm, Crash \/ Restart
    PROVE  Calm'
  <1>1. \A t \in Threads : pc'[t] = "idle"
    BY DEF Crash, Restart, Locals, Typed, ThreadsTyped
  <1>2. Apart' /\ \A t \in Threads : Place(t)'
    BY <1>1 DEF Apart, Busy, Place, Changed
  <1>3. ASSUME NEW i \in Ids, i \notin missed' PROVE View(i)' = RowOf(Cache', i)
    <2>1. View(i)' = View(i)
      BY DEF View, Crash, Restart
    <2>2. CASE Crash
      <3>1. i \notin missed /\ \A t \in Threads : Busy(t) => req[t].id # i
        BY <1>3, <2>2 DEF Crash
      <3>2. \A t \in Threads : Changed(t) => Busy(t)
        BY DEF Changed, Busy
      <3>3. View(i) = RowOf(Cache, i)
        BY <3>1, <3>2 DEF Calm, Mirrored
      <3>4. Cache' = Cache
        BY <2>2 DEF Crash, Cache
      <3> QED BY <2>1, <3>3, <3>4
    <2>3. CASE Restart
      <3>1. \A t \in Threads : ~Changed(t)
        BY <2>3 DEF Restart, Typed, ThreadsTyped, Changed
      <3>2. CASE Readable(file)
        <4>1. /\ heap' = <<Loaded(file)>> /\ cur' = 1
              /\ missed' = missed \cup {j \in Ids : RowOf(Cache, j) # RowOf(Loaded(file), j)}
          BY <2>3, <3>2 DEF Restart
        <4>2. Cache' = Loaded(file)
          BY <4>1 DEF Cache
        <4>3. i \notin missed /\ RowOf(Cache, i) = RowOf(Loaded(file), i)
          BY <1>3, <4>1
        <4> QED BY <2>1, <3>1, <4>2, <4>3 DEF Calm, Mirrored
      <3>3. CASE ~Readable(file)
        <4>1. Cache' = Cache /\ missed' = missed
          BY <2>3, <3>3 DEF Restart, Cache
        <4> QED BY <1>3, <2>1, <3>1, <4>1 DEF Calm, Mirrored
      <3> QED BY <3>2, <3>3
    <2> QED BY <2>2, <2>3
  <1> QED BY <1>2, <1>3 DEF Calm, Mirrored

\* List and topic agree at first ...
LEMMA InitCalm == Init => Calm
  <1> SUFFICES ASSUME Init PROVE Calm
    OBVIOUS
  <1>1. Apart /\ \A t \in Threads : Place(t)
    BY DEF Init, Apart, Busy, Place, Changed
  <1>2. Cache = Loaded(file)
    BY DEF Init, Cache
  <1>3. ASSUME NEW i \in Ids PROVE View(i) = RowOf(Cache, i)
    <2>1. log[i] = IF Find(Cache, i) = {} THEN << >> ELSE <<RowOf(Cache, i)>>
      BY <1>2 DEF Init
    <2>2. CASE Find(Cache, i) = {}
      BY <2>1, <2>2 DEF View, RowOf
    <2>3. CASE Find(Cache, i) # {}
      <3>1. log[i] = <<RowOf(Cache, i)>>
        BY <2>1, <2>3
      <3> QED BY <3>1 DEF View
    <2> QED BY <2>2, <2>3
  <1> QED BY <1>1, <1>3 DEF Calm, Mirrored

\* ... and through every step.
LEMMA NextCalm ==
    ASSUME Typed, Typed', ~tangled => Calm, [Next]_vars
    PROVE  ~tangled' => Calm'
  <1> SUFFICES ASSUME ~tangled' PROVE Calm'
    OBVIOUS
  <1>1. CASE UNCHANGED vars
    BY <1>1 DEF vars, Calm, Apart, Busy, Place, Changed, After, Mirrored, View, Cache
  <1>2. ASSUME NEW t \in Threads, Work(t) PROVE Calm'
    <2>1. Calm
      BY <1>2, WorkElsewhere
    <2> QED BY <1>2, <2>1, QuietStepsCalm, ListStepsCalm, EventsCalm DEF Work
  <1>3. ASSUME NEW t \in Threads, Create(t) \/ Update(t) \/ Delete(t) PROVE Calm'
    <2>1. Calm
      BY <1>3 DEF Create, Update, Delete, Begin
    <2> QED BY <1>3, <2>1, RequestsCalm
  <1>4. CASE Crash \/ Restart
    <2>1. Calm
      BY <1>4 DEF Crash, Restart
    <2> QED BY <1>4, <2>1, ProcessCalm
  <1> QED BY <1>1, <1>2, <1>3, <1>4 DEF Next

LEMMA AlwaysCalm == Spec => [](~tangled => Calm)
  <1>1. Init => (~tangled => Calm)
    BY InitCalm
  <1>2. Typed /\ Typed' /\ (~tangled => Calm) /\ [Next]_vars => (~tangled => Calm)'
    BY NextCalm
  <1> QED BY <1>1, <1>2, AlwaysTyped, PTL DEF Spec

\* Each change is published after the list and the file have it (service.py, "CSV
\* read store" and "topic write"): at rest, a row none of whose events was given
\* up, and which no restart lost or renamed, is for consumers that upsert by key
\* what it is in the list, for as long as no two requests overlapped that were
\* not both creates.
THEOREM TopicFollows == Spec => []TopicMirrorsStore
  <1>1. Typed /\ (~tangled => Calm) => TopicMirrorsStore
    BY DEF Calm, Mirrored, Changed, Busy, AtRest, TopicMirrorsStore
  <1> QED BY <1>1, AlwaysTyped, AlwaysCalm, PTL

\* No step of a request, nor any other step while the process runs, changes or
\* removes a row that no request at work is about (inventory.py: update and
\* delete_by_id, which find the row by its id).
LEMMA StepUntouched ==
    ASSUME Typed, ~tangled => Calm, [Next]_vars
    PROVE  ~tangled => OnlyAsked
  <1> SUFFICES ASSUME ~tangled, up = "up", up' = "up", NEW i \in Ids,
                      \A t \in Threads : req[t].id # i
               PROVE  RowOf(Cache, i) = RowOf(Cache', i)
    BY DEF OnlyAsked
  <1>1. CASE heap' = heap /\ cur' = cur
    BY <1>1 DEF Cache
  <1>2. ASSUME NEW t \in Threads, AppendRow(t) PROVE RowOf(Cache, i) = RowOf(Cache', i)
    <2>1. PICK row \in Row : Cache' = Append(Cache, row) /\ row.id # i
      BY <1>2, AppendRowIs
    <2>2. Cache \in Seq(Row)
      BY CacheTyped DEF Rows
    <2> QED BY <2>1, <2>2, AppendKeeps
  <1>3. ASSUME NEW t \in Threads, Replace(t) PROVE RowOf(Cache, i) = RowOf(Cache', i)
    <2>1. PICK row \in Row : row = req[t].row /\ row.id = req[t].id
      BY <1>3, ReplaceIs
    <2>2. Replaced(Cache', Cache, First(Find(Cache, row.id)), row)
      BY <1>3, <2>1, ReplaceIs DEF Replaced
    <2>3. Cache \in Seq(Row) /\ row.id # i
      BY <2>1, CacheTyped DEF Rows
    <2> QED BY <2>2, <2>3, ReplaceKeeps
  <1>4. ASSUME NEW t \in Threads, Bind(t) PROVE RowOf(Cache, i) = RowOf(Cache', i)
    <2>1. Cache' = Others(Cache, req[t].id) /\ req[t].id # i
      BY <1>4, BindIs
    <2>2. Cache \in Seq(Row)
      BY CacheTyped DEF Rows
    <2> QED BY <2>1, <2>2, OthersKeep
  <1>5. ASSUME NEW t \in Threads, Work(t) PROVE RowOf(Cache, i) = RowOf(Cache', i)
    BY <1>1, <1>2, <1>3, <1>4, <1>5 DEF Work, AppendLine, Locate, Count, Filter, Compare,
         Truncate, Header, WriteRow, Delivered, NotDelivered, Store
  <1>6. ASSUME NEW t \in Threads, Create(t) \/ Update(t) \/ Delete(t)
        PROVE  RowOf(Cache, i) = RowOf(Cache', i)
    BY <1>1, <1>6 DEF Create, Update, Delete, Begin, Store
  <1>7. ~Crash /\ ~Restart
    BY DEF Crash, Restart
  <1>8. CASE UNCHANGED vars
    BY <1>1, <1>8 DEF vars
  <1> QED BY <1>5, <1>6, <1>7, <1>8 DEF Next

\* Replacing the row found by its id, and rebinding the list without it, leave
\* every other row (inventory.py): the same of the whole run.
THEOREM Untouched == Spec => OthersUntouched
  <1>1. Typed /\ (~tangled => Calm) /\ [Next]_vars => [~tangled => OnlyAsked]_vars
    BY StepUntouched
  <1> QED BY <1>1, AlwaysTyped, AlwaysCalm, PTL DEF Spec, OthersUntouched

(* The file                                                                *)

\* The rows of a list as they would be read back, with one more.
LEMMA ImagesOfAppend ==
    ASSUME NEW A, NEW rows \in Seq(A), NEW row \in A
    PROVE  Images(Append(rows, row)) = Images(rows) \cup {LoadedRow(row)}
  <1> DEFINE new == Append(rows, row)
             n == Len(rows)
  <1>1. /\ n \in Nat /\ DOMAIN rows = 1 .. n /\ DOMAIN new = 1 .. n + 1
        /\ new[n + 1] = row /\ \A k \in 1 .. n : new[k] = rows[k]
    BY AppendProperties, LenProperties
  <1> HIDE DEF new
  <1>2. ASSUME NEW r \in Images(new) PROVE r \in Images(rows) \cup {LoadedRow(row)}
    <2>1. PICK k \in 1 .. n + 1 : r = LoadedRow(new[k])
      BY <1>1, <1>2 DEF Images
    <2>2. CASE k = n + 1
      BY <1>1, <2>1, <2>2
    <2>3. CASE k \in 1 .. n
      BY <1>1, <2>1, <2>3 DEF Images
    <2> QED BY <1>1, <2>2, <2>3
  <1>3. ASSUME NEW r \in Images(rows) \cup {LoadedRow(row)} PROVE r \in Images(new)
    <2>1. n + 1 \in 1 .. n + 1 /\ \A k \in 1 .. n : k \in 1 .. n + 1
      BY <1>1
    <2>2. CASE r = LoadedRow(row)
      BY <1>1, <2>1, <2>2 DEF Images
    <2>3. CASE r \in Images(rows)
      <3>1. PICK k \in 1 .. n : r = LoadedRow(rows[k])
        BY <1>1, <2>3 DEF Images
      <3> QED BY <1>1, <2>1, <3>1 DEF Images
    <2> QED BY <1>3, <2>2, <2>3
  <1> QED BY <1>2, <1>3 DEF new

\* Loading again gives the same.
LEMMA ImagesOfLoaded ==
    ASSUME NEW f, f.header, f.rows \in Seq(Row)
    PROVE  Len(Loaded(f)) = Len(f.rows) /\ Images(Loaded(f)) = Images(f.rows)
  <1>1. /\ Len(Loaded(f)) = Len(f.rows)
        /\ DOMAIN Loaded(f) = 1 .. Len(f.rows) /\ DOMAIN f.rows = 1 .. Len(f.rows)
        /\ \A k \in 1 .. Len(f.rows) : Loaded(f)[k] = LoadedRow(f.rows[k])
    BY LoadedTyped, LenProperties DEF Rows
  <1>2. \A k \in 1 .. Len(f.rows) : LoadedRow(Loaded(f)[k]) = LoadedRow(f.rows[k])
    <2> SUFFICES ASSUME NEW k \in 1 .. Len(f.rows)
                 PROVE  LoadedRow(Loaded(f)[k]) = LoadedRow(f.rows[k])
      OBVIOUS
    <2>1. f.rows[k] \in Row
      BY ElementOfSeq
    <2> QED BY <1>1, <2>1, LoadedRowTyped
  <1> HIDE DEF Loaded
  <1> QED BY <1>1, <1>2 DEF Images

LEMMA WaitingFinite ==
    IsFiniteSet(Waiting) /\ Cardinality(Waiting) \in Nat /\ (Waiting = {} => Cardinality(Waiting) = 0)
  BY StoreConstantsOK, FS_Subset, FS_CardinalityType, FS_EmptySet DEF Waiting

LEMMA InitFile == Init => OnFile
  <1> SUFFICES ASSUME Init PROVE OnFile
    OBVIOUS
  <1>1. PICK seed \in Seeds :
          file = [header |-> TRUE, rows |-> seed] /\ heap = <<Loaded(file)>>
    BY DEF Init
  <1>2. Whole /\ Cache = Loaded(file) /\ \A t \in Threads : pc[t] = "idle"
    BY <1>1, StoreConstantsOK DEF Init, Whole, Cache, Rows
  <1>3. Waiting = {} /\ \A t \in Threads : Written(t)
    BY <1>2 DEF Waiting, Written
  <1>4. Kept
    <2>1. Len(Cache) = Len(file.rows) /\ Images(Cache) = Images(file.rows)
      BY <1>2, ImagesOfLoaded DEF Whole
    <2>2. Cardinality(Waiting) = 0 /\ {LoadedRow(req[t].row) : t \in Waiting} = {}
      BY <1>3, WaitingFinite
    <2>3. Len(file.rows) \in Nat
      BY <1>2, LenProperties DEF Whole
    <2> QED BY <2>1, <2>2, <2>3 DEF Kept
  <1> QED BY <1>2, <1>3, <1>4 DEF OnFile

\* `Kept` of the next state, with the primes where the state is.
LEMMA KeptNext ==
    ASSUME kind' = kind,
           Len(Cache') = Len(file'.rows) + Cardinality(Waiting'),
           Images(Cache') = Images(file'.rows) \cup {LoadedRow(req'[t].row) : t \in Waiting'}
    PROVE  Kept'
  <1>1. Images(Cache)' = Images(Cache') /\ Images(file.rows)' = Images(file'.rows)
    BY DEF Images, LoadedRow
  <1>2. {LoadedRow(req[t].row) : t \in Waiting}' = {LoadedRow(req'[t].row) : t \in Waiting'}
    BY DEF LoadedRow
  <1> QED BY <1>1, <1>2 DEF Kept

\* Steps that touch neither the list nor the file.
Neither == {"idle", "append", "locate", "replace", "count", "filter", "bind", "produce"}
LEMMA NeitherFile ==
    ASSUME OnFile, NEW t \in Threads,
           \A s \in Threads \ {t} : pc'[s] = pc[s] /\ req'[s] = req[s] /\ at'[s] = at[s],
           pc[t] \in Neither, pc'[t] \in Neither,
           UNCHANGED <<heap, cur, file, up, kind>>
    PROVE  OnFile'
  <1>1. Cache' = Cache /\ Whole' = Whole
    BY DEF Cache, Whole
  <1>2. ASSUME NEW s \in Threads
        PROVE  /\ (Rewriting(s)' <=> Rewriting(s)) /\ (Stale(s)' <=> Stale(s))
               /\ pc'[s] = "append line" <=> pc[s] = "append line"
               /\ Written(s)'
    <2>1. CASE s = t
      <3>1. /\ pc[s] \notin {"append line", "compare", "truncate", "header", "rows"}
            /\ pc'[s] \notin {"append line", "compare", "truncate", "header", "rows"}
        BY <2>1 DEF Neither
      <3>2. ~Rewriting(s) /\ ~Stale(s) /\ ~Rewriting(s)' /\ ~Stale(s)'
        BY <3>1 DEF Rewriting, Stale
      <3>3. Written(s)'
        BY <3>1 DEF Written
      <3> QED BY <3>1, <3>2, <3>3
    <2>2. CASE s # t
      <3>1. pc'[s] = pc[s] /\ at'[s] = at[s] /\ Written(s)
        BY <1>2, <2>2 DEF OnFile
      <3> QED BY <1>1, <3>1 DEF Rewriting, Stale, Written
    <2> QED BY <2>1, <2>2
  <1>3. Waiting' = Waiting /\ t \notin Waiting
    <2>1. pc[t] # "append line"
      BY DEF Neither
    <2> QED BY <1>2, <2>1 DEF Waiting
  <1>4. ASSUME Kept PROVE Kept'
    <2>1. \A s \in Waiting : req'[s] = req[s]
      BY <1>3 DEF Waiting
    <2>2. {LoadedRow(req'[s].row) : s \in Waiting'} = {LoadedRow(req[s].row) : s \in Waiting}
      BY <1>3, <2>1
    <2>3. Len(Cache') = Len(file'.rows) + Cardinality(Waiting')
      BY <1>1, <1>3, <1>4 DEF Kept
    <2>4. Images(Cache') = Images(file'.rows) \cup {LoadedRow(req'[s].row) : s \in Waiting'}
      BY <1>1, <1>4, <2>2 DEF Kept
    <2> QED BY <2>3, <2>4, KeptNext
  <1> QED BY <1>1, <1>2, <1>4 DEF OnFile

\* Lengths, when a row goes to the list or to the file.
LEMMA OneMore == \A l, c \in Nat : (l + c) + 1 = l + (c + 1) /\ l + c = (l + 1) + (c - 1)
  OBVIOUS

\* create(), first the list and then the file: the request waits in between.
LEMMA CreateFile ==
    ASSUME Typed, Calm, OnFile, NEW t \in Threads, Work(t), AppendRow(t) \/ AppendLine(t)
    PROVE  OnFile'
  <1>1. Busy(t) /\ Elsewhere(t) /\ req' = req /\ kind' = kind /\ up' = up
    BY WorkElsewhere DEF AppendRow, AppendLine, Locals
  <1>2. up = "up" /\ req[t].op = "c" /\ req[t].row \in Row
    BY <1>1, BusyTyped, OpsOf DEF AppendRow, AppendLine
  <1>3. ASSUME NEW s \in Threads
        PROVE  ~Stale(s) /\ ~Stale(s)' /\ ~Rewriting(s) /\ ~Rewriting(s)' /\ Written(s)'
    <2>1. CASE s = t
      <3>1. pc[s] \in {"append", "append line"}
        BY <2>1 DEF AppendRow, AppendLine
      <3>2. pc'[s] \in {"append line", "produce"}
        BY <2>1 DEF AppendRow, AppendLine, Goto, Typed, ThreadsTyped
      <3> QED BY <3>1, <3>2 DEF Stale, Rewriting, Written
    <2>2. CASE s # t
      <3>1. pc[s] \in {"idle", "append", "append line", "produce"} /\ pc'[s] = pc[s]
        BY <1>1, <2>2, Alone DEF Calm, Busy, Elsewhere
      <3> QED BY <3>1 DEF Stale, Rewriting, Written
    <2> QED BY <2>1, <2>2
  <1>4. Kept /\ Whole
    BY <1>2, <1>3 DEF OnFile
  <1>5. CASE AppendRow(t)
    <2>1. Cache' = Append(Cache, req[t].row) /\ pc'[t] = "append line" /\ file' = file
      BY <1>5, AppendRowIs
    <2>2. Waiting' = Waiting \cup {t} /\ t \notin Waiting
      <3>1. pc[t] = "append" /\ \A s \in Threads \ {t} : pc'[s] = pc[s]
        BY <1>1, <1>5 DEF AppendRow, Elsewhere
      <3> QED BY <2>1, <3>1 DEF Waiting
    <2>3. Cardinality(Waiting') = Cardinality(Waiting) + 1
      BY <2>2, WaitingFinite, FS_AddElement
    <2>4. Cache \in Seq(Row) /\ Len(Cache) \in Nat
      BY CacheTyped DEF Rows
    <2>5. /\ Len(Cache') = Len(Cache) + 1
          /\ Images(Cache') = Images(Cache) \cup {LoadedRow(req[t].row)}
      <3> PICK row \in Row : row = req[t].row
        BY <1>2
      <3>1. Cache' = Append(Cache, row)
        BY <2>1
      <3>2. Images(Append(Cache, row)) = Images(Cache) \cup {LoadedRow(row)}
        BY <2>4, ImagesOfAppend
      <3>3. Len(Append(Cache, row)) = Len(Cache) + 1
        BY <2>4, AppendProperties
      <3> QED BY <3>1, <3>2, <3>3
    <2>6. Len(Cache') = Len(file'.rows) + Cardinality(Waiting')
      <3>1. Len(file.rows) \in Nat /\ Cardinality(Waiting) \in Nat
        BY <1>4, WaitingFinite, LenProperties DEF Whole
      <3>2. Len(Cache) = Len(file.rows) + Cardinality(Waiting)
        BY <1>4 DEF Kept
      <3>3. Len(Cache) + 1 = Len(file.rows) + (Cardinality(Waiting) + 1)
        BY <3>1, <3>2, OneMore
      <3> QED BY <2>1, <2>3, <2>5, <3>3
    <2>7. Images(Cache') = Images(file'.rows) \cup {LoadedRow(req'[s].row) : s \in Waiting'}
      <3>1. {LoadedRow(req'[s].row) : s \in Waiting'} =
              {LoadedRow(req[s].row) : s \in Waiting} \cup {LoadedRow(req[t].row)}
        BY <1>1, <2>2
      <3> QED BY <1>4, <2>1, <2>5, <3>1 DEF Kept
    <2>8. Kept' /\ Whole'
      BY <1>1, <1>4, <2>1, <2>6, <2>7, KeptNext DEF Whole
    <2> QED BY <1>3, <2>8 DEF OnFile
  <1>6. CASE AppendLine(t)
    <2>1. /\ Cache' = Cache /\ pc'[t] = "produce" /\ pc[t] = "append line"
          /\ file' = [file EXCEPT !.rows = Append(file.rows, req[t].row)]
      BY <1>6 DEF AppendLine, Cache, Goto, Typed, ThreadsTyped
    <2>2. file.rows \in Seq(Row) /\ file.header /\ Len(file.rows) \in Nat
      BY <1>4, LenProperties DEF Whole
    <2>3. file'.rows = Append(file.rows, req[t].row) /\ file'.header
      BY <2>1, <2>2 DEF Typed, StoreTyped
    <2>4. /\ file'.rows \in Seq(Row) /\ Len(file'.rows) = Len(file.rows) + 1
          /\ Images(file'.rows) = Images(file.rows) \cup {LoadedRow(req[t].row)}
      BY <1>2, <2>2, <2>3, AppendProperties, ImagesOfAppend
    <2>5. Waiting' = Waiting \ {t} /\ t \in Waiting
      <3>1. \A s \in Threads \ {t} : pc'[s] = pc[s]
        BY <1>1 DEF Elsewhere
      <3> QED BY <2>1, <3>1 DEF Waiting
    <2>6. Cardinality(Waiting') = Cardinality(Waiting) - 1
      BY <2>5, WaitingFinite, FS_RemoveElement
    <2>7. Len(Cache') = Len(file'.rows) + Cardinality(Waiting')
      <3>1. Len(Cache) = Len(file.rows) + Cardinality(Waiting) /\ Cardinality(Waiting) \in Nat
        BY <1>4, WaitingFinite DEF Kept
      <3>2. Len(Cache) = (Len(file.rows) + 1) + (Cardinality(Waiting) - 1)
        BY <2>2, <3>1, OneMore
      <3> QED BY <2>1, <2>4, <2>6, <3>2
    <2>8. Images(Cache') = Images(file'.rows) \cup {LoadedRow(req'[s].row) : s \in Waiting'}
      <3>1. {LoadedRow(req[s].row) : s \in Waiting} =
              {LoadedRow(req'[s].row) : s \in Waiting'} \cup {LoadedRow(req[t].row)}
        BY <1>1, <2>5
      <3> QED BY <1>4, <2>1, <2>4, <3>1 DEF Kept
    <2>9. Kept' /\ Whole'
      BY <1>1, <2>3, <2>4, <2>7, <2>8, KeptNext DEF Whole
    <2> QED BY <1>3, <2>9 DEF OnFile
  <1> QED BY <1>5, <1>6

\* An update or a delete leaves the others at rest.
LEMMA OthersIdle ==
    ASSUME Typed, Calm, NEW t \in Threads, Busy(t), req[t].op # "c", Elsewhere(t)
    PROVE  \A s \in Threads \ {t} :
             /\ pc[s] = "idle" /\ pc'[s] = "idle"
             /\ ~Rewriting(s) /\ ~Rewriting(s)' /\ ~Stale(s)' /\ Written(s)'
  <1> SUFFICES ASSUME NEW s \in Threads \ {t}
               PROVE  /\ pc[s] = "idle" /\ pc'[s] = "idle"
                      /\ ~Rewriting(s) /\ ~Rewriting(s)' /\ ~Stale(s)' /\ Written(s)'
    OBVIOUS
  <1>1. pc[s] = "idle" /\ pc'[s] = "idle"
    BY Alone DEF Calm, Busy, Elsewhere
  <1> QED BY <1>1 DEF Rewriting, Stale, Written

\* The list has changed and the file has not: it is whole still.
LEMMA StaleFile ==
    ASSUME Typed, Calm, OnFile, NEW t \in Threads, Work(t), req[t].op # "c",
           pc[t] \in {"replace", "bind", "compare"}, pc'[t] \in {"compare", "truncate"},
           file' = file
    PROVE  OnFile'
  <1>1. Busy(t) /\ Elsewhere(t)
    BY WorkElsewhere
  <1>2. ~Rewriting(t) /\ ~Rewriting(t)' /\ Stale(t)' /\ Written(t)'
    BY DEF Rewriting, Stale, Written
  <1>3. \A s \in Threads : ~Rewriting(s) /\ Written(s)'
    BY <1>1, <1>2, OthersIdle
  <1>4. Whole'
    BY <1>3 DEF OnFile, Whole
  <1> QED BY <1>2, <1>3, <1>4 DEF OnFile

\* A row of the list goes to the file in its turn; after the last the two agree.
LEMMA WriteRowFile ==
    ASSUME Typed, Calm, OnFile, NEW t \in Threads, Work(t), WriteRow(t)
    PROVE  OnFile' /\ (pc'[t] = "produce" => file'.rows = Cache')
  <1>1. Busy(t) /\ Elsewhere(t) /\ kind' = kind /\ up' = up
    BY WorkElsewhere
  <1>2. pc[t] = "rows" /\ req[t].op # "c" /\ heap' = heap /\ cur' = cur /\ Cache' = Cache
    BY <1>1, BusyTyped, OpsOf DEF WriteRow, Cache
  <1>3. \A s \in Threads \ {t} :
             /\ pc[s] = "idle" /\ pc'[s] = "idle"
             /\ ~Rewriting(s) /\ ~Rewriting(s)' /\ ~Stale(s)' /\ Written(s)'
    BY <1>1, <1>2, OthersIdle
  <1> DEFINE k == at[t][2]
             n == Len(file.rows)
  <1>4. /\ at[t][1] = cur /\ file.header /\ n = k - 1 /\ n <= Len(Cache)
        /\ \A j \in 1 .. n : file.rows[j] = Cache[j]
    BY <1>2 DEF OnFile, Written
  <1>5. k \in Nat \ {0} /\ n \in Nat /\ Len(Cache) \in Nat
    BY <1>2, FileTyped, CacheTyped DEF Typed, ThreadsTyped, PlaceTyped
  <1>6. heap[at[t][1]] = Cache
    BY <1>4 DEF Cache
  <1>7. CASE k <= Len(Cache)
    <2>1. /\ file' = [file EXCEPT !.rows = WrittenAt(file.rows, k, Cache[k])]
          /\ at' = [at EXCEPT ![t] = <<cur, k + 1>>] /\ pc' = pc
      BY <1>4, <1>5, <1>6, <1>7 DEF WriteRow
    <2>2. PICK row \in Row : row = Cache[k]
      BY <1>5, <1>7, CacheTyped
    <2> DEFINE new == WrittenAt(file.rows, k, row)
    <2>3. file'.rows = new /\ file'.header
      BY <1>4, <2>1, <2>2 DEF Typed, StoreTyped
    <2>4. at'[t] = <<cur, k + 1>>
      BY <2>1 DEF Typed, ThreadsTyped
    <2>5. Len(new) = k /\ \A j \in 1 .. k : new[j] = IF j = k THEN row ELSE file.rows[j]
      <3>1. PICK A : file.rows \in Seq(A) /\ row \in A /\ Junk \in A
        BY FileTyped
      <3>2. k = n + 1
        BY <1>4, <1>5
      <3> HIDE DEF k
      <3> QED BY <3>1, <3>2, WrittenNext
    <2> HIDE DEF new
    <2>6. \A j \in 1 .. Len(new) : new[j] = Cache[j]
      <3>1. \A j \in 1 .. k : j # k => j \in 1 .. n
        BY <1>4, <1>5
      <3> QED BY <1>4, <2>2, <2>5, <3>1
    <2>7. Written(t)'
      <3>1. at'[t][1] = cur' /\ at'[t][2] = k + 1 /\ pc'[t] = "rows"
        BY <1>2, <2>1, <2>4
      <3>2. Len(file'.rows) = (k + 1) - 1 /\ Len(file'.rows) <= Len(Cache')
        BY <1>2, <1>5, <1>7, <2>3, <2>5
      <3>3. \A j \in 1 .. Len(file'.rows) : file'.rows[j] = Cache'[j]
        BY <1>2, <2>3, <2>6
      <3> QED BY <2>3, <3>1, <3>2, <3>3 DEF Written
    <2>8. Rewriting(t)' /\ Stale(t)'
      BY <1>2, <2>1 DEF Rewriting, Stale
    <2>9. pc'[t] # "produce"
      BY <1>2, <2>1
    <2> QED BY <1>3, <2>7, <2>8, <2>9 DEF OnFile
  <1>8. CASE k > Len(Cache)
    <2>1. pc'[t] = "produce" /\ file' = file
      BY <1>4, <1>5, <1>6, <1>8 DEF WriteRow, Goto, Typed, ThreadsTyped
    <2>2. n = Len(Cache)
      BY <1>4, <1>5, <1>8
    <2>3. file.rows = Cache
      <3>1. file.rows \in Seq(Row \cup {Junk}) /\ Cache \in Seq(Row)
        BY FileTyped, CacheTyped DEF Rows
      <3> QED BY <1>4, <2>2, <3>1, SeqEqual
    <2>4. Whole'
      BY <1>4, <2>1, <2>3, CacheTyped DEF Whole, Rows
    <2>5. Waiting' = {}
      BY <1>3, <2>1 DEF Waiting
    <2>6. Kept'
      <3>1. Cardinality(Waiting') = 0 /\ {LoadedRow(req'[s].row) : s \in Waiting'} = {}
        BY <2>5, FS_EmptySet
      <3>2. Len(Cache') = Len(file'.rows) + 0
        BY <1>2, <1>5, <2>1, <2>3
      <3>3. Len(Cache') = Len(file'.rows) + Cardinality(Waiting')
        BY <3>1, <3>2
      <3>4. Images(Cache') = Images(file'.rows)
        BY <1>2, <2>1, <2>3
      <3> QED BY <1>1, <3>1, <3>3, <3>4, KeptNext
    <2>7. Written(t)'
      BY <2>1 DEF Written
    <2> QED BY <1>2, <1>3, <2>1, <2>3, <2>4, <2>6, <2>7 DEF OnFile
  <1> QED BY <1>5, <1>7, <1>8

\* An update or a delete, from the change of the list to the rewritten file.
LEMMA RewriteFile ==
    ASSUME Typed, Calm, OnFile, NEW t \in Threads, Work(t),
           \/ Replace(t) \/ Bind(t) \/ Compare(t)
           \/ Truncate(t) \/ Header(t) \/ WriteRow(t)
    PROVE  OnFile'
  <1>1. Busy(t) /\ Elsewhere(t) /\ Place(t)
    BY WorkElsewhere DEF Calm
  <1>2. CASE Replace(t)
    <2>1. pc[t] = "replace" /\ pc'[t] = "truncate" /\ req[t].op # "c" /\ file' = file
      BY <1>2, ReplaceIs DEF Replace
    <2> QED BY <2>1, StaleFile
  <1>3. CASE Bind(t)
    <2>1. pc[t] = "bind" /\ pc'[t] = "compare" /\ req[t].op # "c" /\ file' = file
      BY <1>3, BindIs DEF Bind
    <2> QED BY <2>1, StaleFile
  <1>4. CASE Compare(t)
    <2>1. pc[t] = "compare" /\ file' = file /\ req[t].op # "c" /\ Len(Cache) < at[t][2]
      BY <1>1, <1>4, BusyTyped, OpsOf DEF Compare, Store, Place
    <2>2. Len(Cache) # at[t][2]
      BY <2>1, CacheTyped DEF Typed, ThreadsTyped
    <2>3. pc'[t] = "truncate"
      BY <1>4, <2>2 DEF Compare, Goto, Typed, ThreadsTyped
    <2> QED BY <2>1, <2>3, StaleFile
  <1>5. CASE Truncate(t)
    <2>1. pc[t] = "truncate" /\ pc'[t] = "header" /\ file'.rows = << >> /\ req[t].op # "c"
      BY <1>1, <1>5, BusyTyped, OpsOf DEF Truncate, Goto, Typed, ThreadsTyped
    <2>2. Rewriting(t)' /\ Stale(t)' /\ Written(t)'
      BY <2>1 DEF Rewriting, Stale, Written
    <2> QED BY <1>1, <2>1, <2>2, OthersIdle DEF OnFile
  <1>6. CASE Header(t)
    <2>1. /\ pc[t] = "header" /\ pc'[t] = "rows" /\ req[t].op # "c"
          /\ heap' = heap /\ cur' = cur
          /\ file' = [file EXCEPT !.header = TRUE] /\ at'[t] = <<cur, 1>>
      BY <1>1, <1>6, BusyTyped, OpsOf DEF Header, Goto, Typed, ThreadsTyped
    <2>2. file'.rows = << >> /\ file'.header
      BY <2>1 DEF OnFile, Written, Typed, StoreTyped
    <2>3. Written(t)'
      <3>1. Len(file'.rows) = 0 /\ Len(file'.rows) <= Len(Cache')
        BY <2>1, <2>2, CacheTyped DEF Cache
      <3>2. at'[t][1] = cur' /\ at'[t][2] - 1 = 0
        BY <2>1
      <3> QED BY <2>1, <2>2, <3>1, <3>2 DEF Written
    <2>4. Rewriting(t)' /\ Stale(t)'
      BY <2>1 DEF Rewriting, Stale
    <2> QED BY <1>1, <2>1, <2>3, <2>4, OthersIdle DEF OnFile
  <1>7. CASE WriteRow(t)
    BY <1>7, WriteRowFile
  <1> QED BY <1>2, <1>3, <1>4, <1>5, <1>6, <1>7

LEMMA WorkFile ==
    ASSUME Typed, Calm, OnFile, NEW t \in Threads, Work(t)
    PROVE  OnFile'
  <1>1. CASE AppendRow(t) \/ AppendLine(t)
    BY <1>1, CreateFile
  <1>2. CASE \/ Replace(t) \/ Bind(t) \/ Compare(t)
             \/ Truncate(t) \/ Header(t) \/ WriteRow(t)
    BY <1>2, RewriteFile
  <1>3. CASE Locate(t) \/ Count(t) \/ Filter(t) \/ Delivered(t) \/ NotDelivered(t)
    <2>1. Elsewhere(t) /\ up' = up /\ kind' = kind /\ Place(t)
      BY WorkElsewhere DEF Calm
    <2>2. heap' = heap /\ cur' = cur /\ file' = file /\ pc[t] \in Neither
      BY <1>3 DEF Locate, Count, Filter, Delivered, NotDelivered, Store, Neither
    <2>3. pc'[t] \in Neither
      <3>1. CASE Locate(t)
        <4>1. Find(Cache, req[t].id) # {}
          BY <2>1, <3>1 DEF Locate, Place
        <4>2. Position(Cache, req[t].id) \in Nat \ {0}
          BY <4>1, CacheTyped, Found DEF Position, Rows
        <4>3. pc'[t] = "replace"
          BY <3>1, <4>2 DEF Locate, Goto, Typed, ThreadsTyped
        <4> QED BY <4>3 DEF Neither
      <3>2. CASE Count(t) \/ Filter(t) \/ Delivered(t) \/ NotDelivered(t)
        BY <3>2 DEF Count, Filter, Delivered, NotDelivered, Answer, Goto, Typed, ThreadsTyped,
           Neither
      <3> QED BY <1>3, <3>1, <3>2
    <2> QED BY <2>1, <2>2, <2>3, NeitherFile DEF Elsewhere
  <1> QED BY <1>1, <1>2, <1>3 DEF Work

\* A request that begins has touched neither yet.
LEMMA BeginKeeps ==
    ASSUME Typed, FileInv, Stopped, NEW t \in Threads, NEW op, NEW i, NEW row,
           NEW next \in {"append", "locate", "count"}, Begin(t, op, i, row, next)
    PROVE  FileInv' /\ Stopped'
  <1>1. pc[t] = "idle" /\ pc'[t] = next /\ UNCHANGED <<heap, cur, file, up, kind>>
    BY DEF Begin, Goto, Store, Typed, ThreadsTyped
  <1>2. \A s \in Threads \ {t} : pc'[s] = pc[s] /\ req'[s] = req[s] /\ at'[s] = at[s]
    BY DEF Begin, Goto, Typed, ThreadsTyped
  <1>3. pc[t] \in Neither /\ pc'[t] \in Neither
    BY <1>1 DEF Neither
  <1>4. OnFile => OnFile'
    BY <1>1, <1>2, <1>3, NeitherFile
  <1>5. ~tangled /\ torn' = torn /\ up = "up" /\ up' = up
    BY DEF Begin
  <1> QED BY <1>4, <1>5 DEF FileInv, Stopped

\* A file that is whole can be loaded, and loading it gives the list back.
LEMMA ProcessFile ==
    ASSUME Typed, OnFile, Crash \/ Restart
    PROVE  /\ ~torn' => OnFile'
           /\ Restart => up' # "failed"
  <1>1. \A t \in Threads : pc'[t] = "idle"
    BY DEF Crash, Restart, Typed, ThreadsTyped, Locals
  <1>2. \A t \in Threads : ~Rewriting(t)' /\ ~Stale(t)' /\ Written(t)'
    BY <1>1 DEF Rewriting, Stale, Written
  <1>3. file' = file /\ kind' = kind
    BY DEF Crash, Restart
  <1>4. CASE Crash
    <2>1. up' # "up"
      BY <1>4 DEF Crash
    <2>2. ~torn' => Whole'
      BY <1>3, <1>4 DEF Crash, OnFile, Whole
    <2>3. ~Restart
      BY <1>4 DEF Crash, Restart
    <2> QED BY <1>2, <2>1, <2>2, <2>3 DEF OnFile
  <1>5. CASE Restart
    <2>1. Whole
      BY <1>5 DEF Restart, Typed, ThreadsTyped, Rewriting, OnFile
    <2>2. Readable(file)
      <3>1. \A k \in DOMAIN file.rows : file.rows[k] \in Row
        BY <2>1, LenProperties, ElementOfSeq DEF Whole
      <3> QED BY <2>1, <3>1, StoreConstantsOK DEF Readable, Whole
    <2>3. up' = "up" /\ heap' = <<Loaded(file)>> /\ cur' = 1
      BY <1>5, <2>2 DEF Restart
    <2>4. Cache' = Loaded(file)
      BY <2>3 DEF Cache
    <2>5. /\ Len(Loaded(file)) = Len(file.rows) /\ Images(Loaded(file)) = Images(file.rows)
          /\ Len(file.rows) \in Nat
      BY <2>1, ImagesOfLoaded, LenProperties DEF Whole
    <2>6. Waiting' = {}
      BY <1>1 DEF Waiting
    <2>7. Kept'
      <3>1. Cardinality(Waiting') = 0 /\ {LoadedRow(req'[s].row) : s \in Waiting'} = {}
        BY <2>6, FS_EmptySet
      <3>2. Len(Cache') = Len(file'.rows) + 0
        BY <1>3, <2>4, <2>5
      <3>3. Len(Cache') = Len(file'.rows) + Cardinality(Waiting')
        BY <3>1, <3>2
      <3>4. Images(Cache') = Images(file'.rows)
        BY <1>3, <2>4, <2>5
      <3> QED BY <1>3, <3>1, <3>3, <3>4, KeptNext
    <2> QED BY <1>2, <1>3, <2>1, <2>3, <2>7 DEF OnFile, Whole
  <1> QED BY <1>4, <1>5

\* The file follows the list through every step.
LEMMA NextFile ==
    ASSUME Typed, ~tangled => Calm, FileInv, Stopped, [Next]_vars
    PROVE  FileInv' /\ Stopped'
  <1>1. CASE UNCHANGED vars
    <2>1. Stopped' = Stopped /\ tangled' = tangled /\ torn' = torn
      BY <1>1 DEF vars, Stopped
    <2>2. ASSUME OnFile PROVE OnFile'
      <3>1. ASSUME Kept PROVE Kept'
        <4>1. /\ Cache' = Cache /\ Waiting' = Waiting /\ req' = req
              /\ file' = file /\ kind' = kind
          BY <1>1 DEF vars, Cache, Waiting
        <4>2. Len(Cache') = Len(file'.rows) + Cardinality(Waiting')
          BY <3>1, <4>1 DEF Kept
        <4>3. Images(Cache') = Images(file'.rows) \cup {LoadedRow(req'[t].row) : t \in Waiting'}
          BY <3>1, <4>1 DEF Kept
        <4> QED BY <4>1, <4>2, <4>3, KeptNext
      <3> QED BY <1>1, <2>2, <3>1 DEF vars, OnFile, Rewriting, Stale, Written, Whole, Cache
    <2> QED BY <2>1, <2>2 DEF FileInv
  <1>2. ASSUME NEW t \in Threads, Work(t) PROVE FileInv' /\ Stopped'
    <2>1. tangled' = tangled /\ torn' = torn /\ up' = up
      BY <1>2, WorkElsewhere
    <2> QED BY <1>2, <2>1, WorkFile DEF FileInv, Stopped
  <1>3. ASSUME NEW t \in Threads, Create(t) \/ Update(t) \/ Delete(t) PROVE FileInv' /\ Stopped'
    <2>1. CASE Create(t)
      <3>1. PICK i \in Ids \ Used, n \in Numbers : Begin(t, "c", i, NewRow(i, n), "append")
        BY <2>1, CreateIs
      <3> QED BY <3>1, BeginKeeps
    <2>2. CASE Update(t)
      <3>1. PICK i \in Ids, p \in Patches :
              Begin(t, "u", i, Merged(RowOf(Cache, i), p), "locate")
        BY <2>2 DEF Update
      <3> QED BY <3>1, BeginKeeps
    <2>3. CASE Delete(t)
      <3>1. PICK i \in Ids : Begin(t, "d", i, RowOf(Cache, i), "count")
        BY <2>3 DEF Delete
      <3> QED BY <3>1, BeginKeeps
    <2> QED BY <1>3, <2>1, <2>2, <2>3
  <1>4. CASE Crash \/ Restart
    <2>1. /\ tangled' = tangled /\ ~tangled /\ torn \in BOOLEAN /\ torn' \in BOOLEAN
          /\ torn => torn'
      BY <1>4 DEF Crash, Restart, Stopped, Typed, StoreTyped
    <2>2. ~torn' => OnFile'
      BY <1>4, <2>1, ProcessFile DEF FileInv
    <2>3. up' = "failed" => torn'
      BY <1>4, <2>1, ProcessFile DEF FileInv, Crash
    <2> QED BY <2>1, <2>2, <2>3 DEF FileInv, Stopped
  <1> QED BY <1>1, <1>2, <1>3, <1>4 DEF Next

LEMMA AlwaysFile == Spec => [](FileInv /\ Stopped)
  <1>1. Init => FileInv /\ Stopped
    BY InitFile DEF FileInv, Stopped, Init
  <1>2. Typed /\ (~tangled => Calm) /\ FileInv /\ Stopped /\ [Next]_vars
        => (FileInv /\ Stopped)'
    BY NextFile
  <1> QED BY <1>1, <1>2, AlwaysTyped, AlwaysCalm, PTL DEF Spec

\* At rest nobody is rewriting and no created row waits for its line.
LEMMA LoadsAgain ==
    ASSUME Typed, FileInv
    PROVE  CacheOnFile
  <1> SUFFICES ASSUME up = "up", \A t \in Threads : ~Busy(t), ~torn, ~tangled
               PROVE  /\ Readable(file) /\ Len(Loaded(file)) = Len(Cache)
                      /\ {LoadedRow(Cache[k]) : k \in DOMAIN Cache} =
                            {Loaded(file)[k] : k \in DOMAIN Cache}
    BY DEF CacheOnFile, AtRest
  <1>1. \A t \in Threads : ~Rewriting(t) /\ ~Stale(t) /\ pc[t] # "append line"
    BY DEF Busy, Rewriting, Stale
  <1>2. Whole /\ Kept /\ Waiting = {}
    BY <1>1 DEF FileInv, OnFile, Waiting
  <1>3. Readable(file)
    <2>1. \A k \in DOMAIN file.rows : file.rows[k] \in Row
      BY <1>2, LenProperties, ElementOfSeq DEF Whole
    <2> QED BY <1>2, <2>1, StoreConstantsOK DEF Readable, Whole
  <1>4. /\ Len(Loaded(file)) = Len(file.rows) /\ Len(file.rows) \in Nat
        /\ DOMAIN Loaded(file) = 1 .. Len(file.rows) /\ DOMAIN file.rows = 1 .. Len(file.rows)
        /\ \A k \in 1 .. Len(file.rows) : Loaded(file)[k] = LoadedRow(file.rows[k])
    BY <1>2, LoadedTyped, LenProperties DEF Whole, Rows
  <1>5. Len(Cache) = Len(file.rows)
    <2>1. Len(Cache) = Len(file.rows) + 0
      BY <1>2, FS_EmptySet DEF Kept
    <2> QED BY <1>4, <2>1
  <1>6. Images(Cache) = Images(file.rows)
    BY <1>2 DEF Kept
  <1>7. DOMAIN Cache = DOMAIN file.rows
    BY <1>4, <1>5, CacheTyped
  <1>8. {Loaded(file)[k] : k \in DOMAIN Cache} = Images(file.rows)
    BY <1>4, <1>7 DEF Images
  <1> QED BY <1>3, <1>4, <1>5, <1>6, <1>8 DEF Images

\* At rest, a restart would load as many rows as are served and the same ones
\* (inventory.py: create appends, update and delete_by_id rewrite), however many
\* creates overlapped and however often the process was restarted; a crash
\* within a rewrite, and requests that overlap and are not all creates, excepted.
THEOREM CacheKept == Spec => []CacheOnFile
  <1>1. Typed /\ FileInv => CacheOnFile
    BY LoadsAgain
  <1> QED BY <1>1, AlwaysTyped, AlwaysFile, PTL

\* What load() raises ends the startup (main.py, lifespan): only after a crash has
\* interrupted _rewrite_csv(), whatever else happened before.
THEOREM StartsUnlessTorn == Spec => [](up = "failed" => torn)
  BY AlwaysFile, PTL DEF Stopped

(* What was answered outlives a crash                                      *)

\* Customers keep their ids in the file, so it can be compared row by row: a row
\* that a create has yet to write is not in it, and every other row is as in the
\* list but for those of requests between list and file.
Behind(t) == pc[t] = "append line" \/ Stale(t)
Agree(i) == RowOf(file.rows, i) = RowOf(Cache, i)
Absent(t) == pc[t] \in {"append", "append line"} => Find(file.rows, req[t].id) = {}
RowByRow ==
    /\ \A t \in Threads : Absent(t)
    /\ (\A t \in Threads : ~Rewriting(t)) =>
          \A i \in Ids \ missed : (\A t \in Threads : Behind(t) => req[t].id # i) => Agree(i)
Durable == kind = "customers" /\ ~torn /\ ~tangled => RowByRow

\* The file of the customers is read as it stands.
LEMMA CustomersLoaded ==
    ASSUME kind = "customers"
    PROVE  /\ \A row : LoadedRow(row) = row
           /\ \A f : f.header /\ f.rows \in Seq(Row) => Loaded(f) = f.rows
  <1>1. \A row : LoadedRow(row) = row
    BY DEF LoadedRow
  <1>2. ASSUME NEW f, f.header, f.rows \in Seq(Row) PROVE Loaded(f) = f.rows
    <2>1. /\ Loaded(f) \in Seq(Row) /\ Len(Loaded(f)) = Len(f.rows)
          /\ \A k \in 1 .. Len(f.rows) : Loaded(f)[k] = f.rows[k]
      BY <1>1, <1>2, LoadedTyped DEF Rows
    <2> QED BY <1>2, <2>1, SeqEqual
  <1> QED BY <1>1, <1>2

\* Steps after which no more rows are to be compared.
LEMMA NoNearer ==
    ASSUME RowByRow, file' = file, missed \subseteq missed',
           \A i \in Ids \ missed' : (\A s \in Threads : Behind(s)' => req'[s].id # i) =>
               /\ RowOf(Cache', i) = RowOf(Cache, i)
               /\ \A s \in Threads : Behind(s) => req[s].id # i,
           \A s \in Threads : pc'[s] \in {"append", "append line"} =>
               \/ pc[s] \in {"append", "append line"} /\ req'[s].id = req[s].id
               \/ Find(file.rows, req'[s].id) = {},
           \A s \in Threads : ~Rewriting(s)' => ~Rewriting(s)
    PROVE  RowByRow'
  <1>1. \A s \in Threads : Absent(s)'
    BY DEF RowByRow, Absent
  <1>2. ASSUME \A s \in Threads : ~Rewriting(s)', NEW i \in Ids \ missed',
               \A s \in Threads : Behind(s)' => req'[s].id # i
        PROVE  Agree(i)'
    <2>1. /\ RowOf(Cache', i) = RowOf(Cache, i)
          /\ \A s \in Threads : Behind(s) => req[s].id # i
      BY <1>2
    <2>2. (\A s \in Threads : ~Rewriting(s)) /\ i \in Ids \ missed
      BY <1>2
    <2>3. Agree(i)
      BY <2>1, <2>2 DEF RowByRow
    <2> QED BY <2>1, <2>3 DEF Agree
  <1> QED BY <1>1, <1>2 DEF RowByRow

\* A created row gets an id that the file has not, as the file has no id that the
\* list has not.
LEMMA BeginRowByRow ==
    ASSUME Typed, Calm, OnFile, RowByRow, kind = "customers", ~tangled',
           NEW t \in Threads, NEW op, NEW i, NEW row, NEW next,
           \/ next = "append" /\ op = "c" /\ i \notin Used
           \/ next \in {"locate", "count"},
           Begin(t, op, i, row, next)
    PROVE  RowByRow'
  <1>1. /\ pc[t] = "idle" /\ pc' = [pc EXCEPT ![t] = next] /\ pc'[t] = next /\ up = "up"
        /\ UNCHANGED <<heap, cur, file, missed>> /\ Cache' = Cache
        /\ req'[t].id = i /\ \A s \in Threads \ {t} : pc'[s] = pc[s] /\ req'[s] = req[s]
    BY DEF Begin, Goto, Store, Kafka, Cache, Typed, ThreadsTyped
  <1>2. ASSUME next = "append", i \notin Used PROVE Find(file.rows, i) = {}
    <2>1. \A s \in Threads : ~Stale(s) /\ ~Rewriting(s)
      <3> SUFFICES ASSUME NEW s \in Threads, pc[s] # "idle"
                   PROVE  pc[s] \notin {"compare", "truncate", "header", "rows"}
        BY DEF Stale, Rewriting
      <3>1. {op, req[s].op} = {"c"}
        BY DEF Begin
      <3>2. "c" \in Ops(pc[s]) /\ pc[s] \in Steps
        BY <3>1, BusyTyped DEF Busy
      <3> QED BY <3>2, OpsOf
    <2>2. Whole /\ Kept
      BY <1>1, <2>1 DEF OnFile
    <2>3. ASSUME NEW k \in Find(file.rows, i) PROVE FALSE
      <3>1. k \in DOMAIN file.rows /\ file.rows[k].id = i
        BY <2>3 DEF Find
      <3>2. file.rows[k] \in Images(file.rows)
        BY <3>1, CustomersLoaded DEF Images
      <3>3. file.rows[k] \in Images(Cache)
        BY <2>2, <3>2 DEF Kept
      <3>4. PICK j \in DOMAIN Cache : file.rows[k] = Cache[j]
        BY <3>3, CustomersLoaded DEF Images
      <3> QED BY <1>2, <3>1, <3>4 DEF Used
    <2> QED BY <2>3
  <1>3. \A s \in Threads :
          /\ Behind(s)' <=> (Behind(s) /\ s # t)
          /\ Behind(s) => s # t
          /\ ~Rewriting(s)' => ~Rewriting(s)
    <2> SUFFICES ASSUME NEW s \in Threads
                 PROVE  /\ Behind(s)' <=> (Behind(s) /\ s # t)
                        /\ Behind(s) => s # t
                        /\ ~Rewriting(s)' => ~Rewriting(s)
      OBVIOUS
    <2>1. pc'[t] \in {"append", "locate", "count"}
      BY <1>1
    <2>2. ~Behind(t) /\ ~Behind(t)' /\ ~Rewriting(t)
      BY <1>1, <2>1 DEF Behind, Stale, Rewriting
    <2>3. CASE s # t
      BY <1>1, <2>3 DEF Behind, Stale, Rewriting
    <2> QED BY <2>2, <2>3
  <1>4. ASSUME NEW j \in Ids \ missed', \A s \in Threads : Behind(s)' => req'[s].id # j
        PROVE  /\ RowOf(Cache', j) = RowOf(Cache, j)
               /\ \A s \in Threads : Behind(s) => req[s].id # j
    BY <1>1, <1>3, <1>4
  <1>5. ASSUME NEW s \in Threads, pc'[s] \in {"append", "append line"}
        PROVE  \/ pc[s] \in {"append", "append line"} /\ req'[s].id = req[s].id
               \/ Find(file.rows, req'[s].id) = {}
    <2>1. CASE s = t
      BY <1>1, <1>2, <1>5, <2>1
    <2>2. CASE s # t
      BY <1>1, <1>5, <2>2
    <2> QED BY <2>1, <2>2
  <1> QED BY <1>1, <1>3, <1>4, <1>5, NoNearer

\* A step of t that leaves the file alone: if it changes its row of the list, t is
\* behind with it.
LEMMA SameFile ==
    ASSUME RowByRow, NEW t \in Threads, Elsewhere(t), file' = file, missed \subseteq missed',
           pc'[t] # "append", pc'[t] = "append line" => pc[t] = "append",
           Rewriting(t) => Rewriting(t)', Behind(t) => Behind(t)',
           pc'[t] # "idle" => req'[t] = req[t],
           \A i : i # req[t].id \/ ~Behind(t)' => RowOf(Cache', i) = RowOf(Cache, i)
    PROVE  RowByRow'
  <1>1. ASSUME NEW s \in Threads, s # t
        PROVE  /\ pc'[s] = pc[s] /\ req'[s] = req[s]
               /\ (Behind(s)' <=> Behind(s)) /\ (Rewriting(s)' <=> Rewriting(s))
    BY <1>1 DEF Elsewhere, Behind, Stale, Rewriting
  <1>2. Behind(t)' => req'[t] = req[t]
    BY DEF Behind, Stale
  <1>3. ASSUME NEW i \in Ids \ missed', \A s \in Threads : Behind(s)' => req'[s].id # i
        PROVE  /\ RowOf(Cache', i) = RowOf(Cache, i)
               /\ \A s \in Threads : Behind(s) => req[s].id # i
    <2>1. i # req[t].id \/ ~Behind(t)'
      BY <1>2, <1>3
    <2>2. ASSUME NEW s \in Threads, Behind(s) PROVE req[s].id # i
      BY <1>1, <1>2, <1>3, <2>2
    <2> QED BY <2>1, <2>2
  <1>4. ASSUME NEW s \in Threads, pc'[s] \in {"append", "append line"}
        PROVE  pc[s] \in {"append", "append line"} /\ req'[s].id = req[s].id
    BY <1>1, <1>4
  <1>5. \A s \in Threads : ~Rewriting(s)' => ~Rewriting(s)
    BY <1>1
  <1> QED BY <1>3, <1>4, <1>5, NoNearer

\* The line of a created row is the row of its id in the file.
LEMMA LineRowByRow ==
    ASSUME Typed, Calm, OnFile, OnFile', RowByRow, kind = "customers",
           NEW t \in Threads, Work(t), AppendLine(t)
    PROVE  RowByRow'
  <1>1. /\ Elsewhere(t) /\ Busy(t) /\ req' = req /\ missed' = missed /\ Cache' = Cache
        /\ pc[t] = "append line" /\ pc'[t] = "produce"
        /\ file' = [file EXCEPT !.rows = Append(file.rows, req[t].row)]
    BY WorkElsewhere DEF AppendLine, Locals, Kafka, Cache, Goto, Typed, ThreadsTyped
  <1>2. PICK row \in Row : row = req[t].row /\ row.id = req[t].id /\ req[t].op = "c"
    BY <1>1, BusyTyped, OpsOf
  <1>3. \A s \in Threads \ {t} : /\ pc[s] \in {"idle", "append", "append line", "produce"}
                                 /\ pc'[s] = pc[s]
                                 /\ pc[s] # "idle" => req[s].id # row.id
    <2> SUFFICES ASSUME NEW s \in Threads \ {t}
                 PROVE  /\ pc[s] \in {"idle", "append", "append line", "produce"}
                        /\ pc'[s] = pc[s]
                        /\ pc[s] # "idle" => req[s].id # row.id
      OBVIOUS
    <2>1. Busy(s) => pc[s] \in {"append", "append line", "produce"} /\ req[s].id # req[t].id
      BY <1>1, Alone DEF Calm
    <2>2. pc'[s] = pc[s]
      BY <1>1 DEF Elsewhere
    <2> QED BY <1>2, <2>1, <2>2 DEF Busy
  <1>4. file.rows \in Seq(Row)
    <2>1. \A s \in Threads : ~Rewriting(s)
      BY <1>1, <1>3 DEF Rewriting
    <2> QED BY <2>1 DEF OnFile, Whole
  <1>5. file'.rows = Append(file.rows, row)
    BY <1>1, <1>2 DEF Typed, StoreTyped
  <1>6. Find(file.rows, row.id) = {} /\ RowOf(Cache, row.id) = row
    <2>1. RowOf(Cache, row.id) = After(t)
      BY <1>1, <1>2 DEF Calm, Place, Changed
    <2> QED BY <1>1, <1>2, <2>1 DEF RowByRow, Absent, After
  <1>7. /\ RowOf(file'.rows, row.id) = row
        /\ \A i : i # row.id => RowOf(file'.rows, i) = RowOf(file.rows, i)
        /\ \A i : i # row.id /\ Find(file.rows, i) = {} => Find(file'.rows, i) = {}
    BY <1>4, <1>5, <1>6, AppendKeeps
  <1>8. ASSUME NEW s \in Threads PROVE Absent(s)'
    <2>1. CASE s = t
      BY <1>1, <2>1 DEF Absent
    <2>2. CASE s # t
      <3>1. Absent(s)
        BY DEF RowByRow
      <3> QED BY <1>1, <1>3, <1>7, <2>2, <3>1 DEF Absent
    <2> QED BY <2>1, <2>2
  <1>9. ASSUME NEW i \in Ids \ missed, \A s \in Threads : Behind(s)' => req'[s].id # i
        PROVE  Agree(i)'
    <2>1. CASE i = row.id
      BY <1>1, <1>6, <1>7, <2>1 DEF Agree
    <2>2. CASE i # row.id
      <3>1. \A s \in Threads : Behind(s) => req[s].id # i
        BY <1>1, <1>2, <1>3, <1>9, <2>2 DEF Behind, Stale
      <3>2. \A s \in Threads : ~Rewriting(s)
        BY <1>1, <1>3 DEF Rewriting
      <3>3. Agree(i)
        BY <1>9, <3>1, <3>2 DEF RowByRow
      <3> QED BY <1>1, <1>7, <2>2, <3>3 DEF Agree
    <2> QED BY <2>1, <2>2
  <1> QED BY <1>1, <1>8, <1>9 DEF RowByRow

\* While the file is rewritten nothing is to be compared; then it is the list.
LEMMA RewriteRowByRow ==
    ASSUME Typed, Calm, OnFile, NEW t \in Threads, Work(t),
           Truncate(t) \/ Header(t) \/ WriteRow(t)
    PROVE  RowByRow'
  <1>1. /\ Elsewhere(t) /\ Busy(t)
        /\ pc[t] \in {"truncate", "header", "rows"} /\ pc'[t] \in {"header", "rows", "produce"}
    BY WorkElsewhere DEF Truncate, Header, WriteRow, Goto, Typed, ThreadsTyped
  <1>2. req[t].op # "c"
    BY <1>1, BusyTyped, OpsOf
  <1>3. \A s \in Threads : Absent(s)'
    BY <1>1, <1>2, OthersIdle DEF Absent
  <1>4. CASE pc'[t] \in {"header", "rows"}
    BY <1>3, <1>4 DEF RowByRow, Rewriting
  <1>5. CASE pc'[t] = "produce"
    <2>1. WriteRow(t)
      BY <1>5 DEF Truncate, Header, Goto, Typed, ThreadsTyped
    <2>2. file'.rows = Cache'
      BY <1>5, <2>1, WriteRowFile
    <2> QED BY <1>3, <2>2 DEF RowByRow, Agree
  <1> QED BY <1>1, <1>4, <1>5

LEMMA WorkRowByRow ==
    ASSUME Typed, Calm, OnFile, OnFile', RowByRow, kind = "customers",
           NEW t \in Threads, Work(t)
    PROVE  RowByRow'
  <1>1. Elsewhere(t) /\ Busy(t) /\ Place(t)
    BY WorkElsewhere DEF Calm
  <1> USE DEF Behind, Stale, Rewriting
  <1>2. CASE AppendRow(t)
    <2>1. PICK row \in Row : row = req[t].row /\ row.id = req[t].id /\ Cache' = Append(Cache, row)
      BY <1>2, AppendRowIs
    <2>2. /\ pc[t] = "append" /\ pc'[t] = "append line" /\ req' = req
          /\ file' = file /\ missed' = missed
      BY <1>2, AppendRowIs DEF AppendRow
    <2>3. \A i : i # req[t].id => RowOf(Cache', i) = RowOf(Cache, i)
      <3>1. Cache \in Seq(Row)
        BY CacheTyped DEF Rows
      <3> QED BY <2>1, <3>1, AppendKeeps
    <2> QED BY <1>1, <2>2, <2>3, SameFile
  <1>3. CASE Replace(t)
    <2>1. PICK row \in Row : row = req[t].row /\ row.id = req[t].id
      BY <1>3, ReplaceIs
    <2>2. Replaced(Cache', Cache, First(Find(Cache, row.id)), row)
      BY <1>3, <2>1, ReplaceIs DEF Replaced
    <2>3. /\ pc[t] = "replace" /\ pc'[t] = "truncate" /\ req' = req
          /\ file' = file /\ missed' = missed
      BY <1>3, ReplaceIs DEF Replace
    <2>4. \A i : i # req[t].id => RowOf(Cache', i) = RowOf(Cache, i)
      <3>1. Cache \in Seq(Row)
        BY CacheTyped DEF Rows
      <3> QED BY <2>1, <2>2, <3>1, ReplaceKeeps
    <2> QED BY <1>1, <2>3, <2>4, SameFile
  <1>4. CASE Bind(t)
    <2>1. /\ pc[t] = "bind" /\ pc'[t] = "compare" /\ req' = req
          /\ file' = file /\ missed' = missed /\ Cache' = Others(Cache, req[t].id)
      BY <1>4, BindIs DEF Bind
    <2>2. \A i : i # req[t].id => RowOf(Cache', i) = RowOf(Cache, i)
      <3>1. Cache \in Seq(Row)
        BY CacheTyped DEF Rows
      <3> QED BY <2>1, <3>1, OthersKeep
    <2> QED BY <1>1, <2>1, <2>2, SameFile
  <1>5. CASE Compare(t)
    <2>1. pc[t] = "compare" /\ Len(Cache) # at[t][2]
      BY <1>1, <1>5, CacheTyped DEF Compare, Place, Typed, ThreadsTyped
    <2>2. /\ pc'[t] = "truncate" /\ req' = req /\ file' = file /\ missed' = missed
          /\ Cache' = Cache
      BY <1>5, <2>1 DEF Compare, Goto, Locals, Store, Kafka, Cache, Typed, ThreadsTyped
    <2> QED BY <1>1, <2>1, <2>2, SameFile
  <1>6. CASE Locate(t) \/ Count(t) \/ Filter(t)
    <2>1. /\ pc[t] \in {"locate", "count", "filter"} /\ req' = req
          /\ pc'[t] \in {"replace", "truncate", "filter", "bind"}
          /\ file' = file /\ missed' = missed /\ Cache' = Cache
      BY <1>6 DEF Locate, Count, Filter, Goto, Store, Kafka, Cache, Typed, ThreadsTyped
    <2> QED BY <1>1, <2>1, SameFile
  <1>7. CASE Delivered(t) \/ NotDelivered(t)
    <2>1. /\ pc[t] = "produce" /\ pc'[t] = "idle" /\ file' = file /\ Cache' = Cache
          /\ missed \subseteq missed'
      BY <1>7 DEF Delivered, NotDelivered, Answer, Goto, Store, Cache, Typed, ThreadsTyped
    <2> QED BY <1>1, <2>1, SameFile
  <1>8. CASE AppendLine(t)
    BY <1>8, LineRowByRow
  <1>9. CASE Truncate(t) \/ Header(t) \/ WriteRow(t)
    BY <1>9, RewriteRowByRow
  <1> QED BY <1>2, <1>3, <1>4, <1>5, <1>6, <1>7, <1>8, <1>9 DEF Work

\* A crash gives up the rows that were under way; a restart reads the rest back.
LEMMA ProcessRowByRow ==
    ASSUME Typed, OnFile, RowByRow, kind = "customers", ~torn', Crash \/ Restart
    PROVE  /\ RowByRow'
           /\ Restart => missed' = missed
  <1>1. \A t \in Threads : pc'[t] = "idle"
    BY DEF Crash, Restart, Typed, ThreadsTyped, Locals
  <1>2. \A t \in Threads : Absent(t)' /\ ~Behind(t)'
    BY <1>1 DEF Absent, Behind, Stale
  <1>3. file' = file
    BY DEF Crash, Restart
  <1>4. CASE Crash
    <2>1. /\ Cache' = Cache /\ \A t \in Threads : ~Rewriting(t)
          /\ missed' = missed \cup {req[t].id : t \in {s \in Threads : Busy(s)}}
      BY <1>4 DEF Crash, Cache
    <2>2. ASSUME NEW i \in Ids \ missed' PROVE Agree(i)'
      <3>1. \A t \in Threads : Behind(t) => Busy(t)
        BY DEF Behind, Stale, Busy
      <3>2. i \in Ids \ missed /\ \A t \in Threads : Behind(t) => req[t].id # i
        BY <2>1, <2>2, <3>1
      <3>3. Agree(i)
        BY <2>1, <3>2 DEF RowByRow
      <3> QED BY <1>3, <2>1, <3>3 DEF Agree
    <2>3. ~Restart
      BY <1>4 DEF Crash, Restart
    <2> QED BY <1>2, <2>2, <2>3 DEF RowByRow
  <1>5. CASE Restart
    <2>1. \A t \in Threads : pc[t] = "idle"
      BY <1>5 DEF Restart, Typed, ThreadsTyped
    <2>2. (\A t \in Threads : ~Rewriting(t) /\ ~Behind(t)) /\ Whole
      BY <2>1 DEF Rewriting, Behind, Stale, OnFile
    <2>3. Loaded(file) = file.rows
      BY <2>2, CustomersLoaded DEF Whole
    <2>4. \A i \in Ids \ missed : RowOf(Loaded(file), i) = RowOf(Cache, i)
      BY <2>2, <2>3 DEF RowByRow, Agree
    <2>5. CASE Readable(file)
      <3>1. /\ Cache' = file.rows
            /\ missed' = missed \cup {i \in Ids : RowOf(Cache, i) # RowOf(Loaded(file), i)}
        BY <1>5, <2>3, <2>5 DEF Restart, Cache
      <3>2. missed' = missed
        BY <2>4, <3>1
      <3>3. \A i : Agree(i)'
        BY <1>3, <3>1 DEF Agree
      <3> QED BY <1>2, <3>2, <3>3 DEF RowByRow
    <2>6. CASE ~Readable(file)
      <3>1. Cache' = Cache /\ missed' = missed
        BY <1>5, <2>6 DEF Restart, Cache
      <3>2. \A i \in Ids \ missed : Agree(i)'
        BY <1>3, <2>3, <2>4, <3>1 DEF Agree
      <3> QED BY <1>2, <3>1, <3>2 DEF RowByRow
    <2> QED BY <2>5, <2>6
  <1> QED BY <1>4, <1>5

LEMMA InitRowByRow == Init => Durable
  <1> SUFFICES ASSUME Init, kind = "customers" PROVE RowByRow
    BY DEF Durable
  <1>1. Cache = Loaded(file) /\ Whole /\ \A t \in Threads : pc[t] = "idle"
    <2>1. PICK seed \in Seeds :
            file = [header |-> TRUE, rows |-> seed] /\ heap = <<Loaded(file)>>
      BY DEF Init
    <2> QED BY <2>1, StoreConstantsOK DEF Init, Whole, Cache, Rows
  <1>2. Cache = file.rows
    BY <1>1, CustomersLoaded DEF Whole
  <1> QED BY <1>1, <1>2 DEF RowByRow, Absent, Agree

LEMMA NextDurable ==
    ASSUME Typed, ~tangled => Calm, FileInv, FileInv', Stopped, Durable, [Next]_vars
    PROVE  Durable'
  <1> SUFFICES ASSUME kind' = "customers", ~torn', ~tangled' PROVE RowByRow'
    BY DEF Durable
  <1>1. CASE UNCHANGED vars
    <2>1. RowByRow
      BY <1>1 DEF vars, Durable
    <2>2. Cache' = Cache /\ file' = file /\ missed' = missed /\ pc' = pc /\ req' = req
      BY <1>1 DEF vars, Cache
    <2> QED BY <2>1, <2>2 DEF RowByRow, Absent, Behind, Stale, Rewriting, Agree
  <1>2. ASSUME NEW t \in Threads, Work(t) PROVE RowByRow'
    <2>1. kind = "customers" /\ ~torn /\ ~tangled
      BY <1>2, WorkElsewhere
    <2> QED BY <1>2, <2>1, WorkRowByRow DEF Durable, FileInv
  <1>3. ASSUME NEW t \in Threads, Create(t) \/ Update(t) \/ Delete(t) PROVE RowByRow'
    <2>1. ASSUME NEW op, NEW i, NEW row, NEW next, Begin(t, op, i, row, next),
                 \/ next = "append" /\ op = "c" /\ i \notin Used
                 \/ next \in {"locate", "count"}
          PROVE  RowByRow'
      <3>1. kind = "customers" /\ ~torn /\ ~tangled
        BY <2>1 DEF Begin
      <3> QED BY <2>1, <3>1, BeginRowByRow DEF Durable, FileInv
    <2>2. CASE Create(t)
      <3>1. PICK i \in Ids \ Used, n \in Numbers : Begin(t, "c", i, NewRow(i, n), "append")
        BY <2>2, CreateIs
      <3> QED BY <2>1, <3>1
    <2>3. CASE Update(t)
      <3>1. PICK i \in Ids, p \in Patches :
              Begin(t, "u", i, Merged(RowOf(Cache, i), p), "locate")
        BY <2>3 DEF Update
      <3> QED BY <2>1, <3>1
    <2>4. CASE Delete(t)
      <3>1. PICK i \in Ids : Begin(t, "d", i, RowOf(Cache, i), "count")
        BY <2>4 DEF Delete
      <3> QED BY <2>1, <3>1
    <2> QED BY <1>3, <2>2, <2>3, <2>4
  <1>4. CASE Crash \/ Restart
    <2>1. kind = "customers" /\ ~torn /\ ~tangled
      BY <1>4 DEF Crash, Restart, Typed, StoreTyped
    <2> QED BY <1>4, <2>1, ProcessRowByRow DEF Durable, FileInv
  <1> QED BY <1>1, <1>2, <1>3, <1>4 DEF Next

LEMMA AlwaysDurable == Spec => []Durable
  <1>1. Init => Durable
    BY InitRowByRow
  <1>2. Typed /\ (~tangled => Calm) /\ FileInv /\ FileInv' /\ Stopped /\ Durable /\ [Next]_vars
        => Durable'
    BY NextDurable
  <1> QED BY <1>1, <1>2, AlwaysTyped, AlwaysCalm, AlwaysFile, PTL DEF Spec

(* The store as its callers see it                                         *)

StoreNow == [i \in Ids |-> RowOf(Cache, i)]
ToldNow == [i \in Ids |-> View(i)]
Asked == {req[t].id : t \in {s \in Threads : Busy(s)}}
Owed == {req[t].id : t \in {s \in Threads : Changed(s)}}
Safe == kind = "customers" /\ ~torn

LEMMA StoreNowTyped ==
    ASSUME Typed
    PROVE  StoreNow \in [Ids -> Row \cup {None}] /\ Asked \subseteq Ids /\ Owed \subseteq Asked
  <1>1. \A i \in Ids : RowOf(Cache, i) \in Row \cup {None}
    <2>1. Cache \in Seq(Row)
      BY CacheTyped DEF Rows
    <2> QED BY <2>1, Found
  <1>2. \A t \in Threads : /\ Changed(t) => Busy(t)
                           /\ Busy(t) => req[t].id \in Ids
    BY BusyTyped DEF Changed, Busy
  <1> QED BY <1>1, <1>2 DEF StoreNow, Asked, Owed

\* A step of t asks for nothing more and, until its answer, is owed what it has
\* changed; with the answer its row is neither.
LEMMA AskedNext ==
    ASSUME Typed, Apart, NEW t \in Threads, Elsewhere(t), Busy(t),
           req' = req \/ pc'[t] = "idle"
    PROVE  /\ pc'[t] # "idle" =>
                /\ Asked' = Asked
                /\ (Changed(t)' <=> Changed(t)) => Owed' = Owed
                /\ Changed(t)' => Owed' = Owed \cup {req[t].id}
           /\ pc'[t] = "idle" => /\ Asked' = Asked \ {req[t].id}
                                 /\ Owed' = Owed \ {req[t].id}
           /\ Changed(t) <=> req[t].id \in Owed
           /\ req[t].id \in Asked
  <1>1. ASSUME NEW s \in Threads, s # t
        PROVE  /\ req'[s] = req[s] /\ (Busy(s)' <=> Busy(s)) /\ (Changed(s)' <=> Changed(s))
               /\ Busy(s) => req[s].id # req[t].id
               /\ Changed(s) => Busy(s)
    BY <1>1 DEF Elsewhere, Busy, Changed, Apart
  <1>2. (Changed(t) <=> req[t].id \in Owed) /\ req[t].id \in Asked
    BY <1>1 DEF Owed, Asked
  <1>3. ASSUME pc'[t] # "idle"
        PROVE  /\ Asked' = Asked
               /\ (Changed(t)' <=> Changed(t)) => Owed' = Owed
               /\ Changed(t)' => Owed' = Owed \cup {req[t].id}
    <2>1. req' = req /\ Busy(t)'
      BY <1>3 DEF Busy
    <2> QED BY <1>1, <2>1 DEF Asked, Owed
  <1>4. ASSUME pc'[t] = "idle"
        PROVE  Asked' = Asked \ {req[t].id} /\ Owed' = Owed \ {req[t].id}
    <2>1. ~Busy(t)' /\ ~Changed(t)'
      BY <1>4 DEF Busy, Changed
    <2> QED BY <1>1, <2>1 DEF Asked, Owed
  <1> QED BY <1>2, <1>3, <1>4

\* The moves of RowStore, in these terms.
Same == StoreNow' = StoreNow /\ ToldNow' = ToldNow
Asks(i) ==
    /\ i \notin Asked /\ Asked' = Asked \cup {i} /\ Owed' = Owed
    /\ Same /\ missed' = missed /\ (Safe' <=> Safe)
Changes(i, row) ==
    /\ i \in Asked \ Owed /\ Owed' = Owed \cup {i} /\ Asked' = Asked
    /\ StoreNow' = [StoreNow EXCEPT ![i] = row] /\ ToldNow' = ToldNow
    /\ missed' = missed /\ (Safe' <=> Safe)
Tells(i) ==
    /\ i \in Owed /\ Owed' = Owed \ {i} /\ Asked' = Asked \ {i}
    /\ StoreNow' = StoreNow /\ ToldNow' = [ToldNow EXCEPT ![i] = StoreNow[i]]
    /\ missed' = missed /\ (Safe' <=> Safe)
GivesUp(i) ==
    /\ i \in Owed /\ Owed' = Owed \ {i} /\ Asked' = Asked \ {i}
    /\ Same /\ missed' = missed \cup {i} /\ (Safe' <=> Safe)
Crashes ==
    /\ missed' = missed \cup Asked /\ Asked' = {} /\ Owed' = {}
    /\ Same /\ (Safe' => Safe)
Recovers ==
    /\ Asked = {} /\ Owed = {} /\ Asked' = {} /\ Owed' = {}
    /\ StoreNow' \in [Ids -> Row \cup {None}] /\ ToldNow' = ToldNow
    /\ missed' = missed \cup {i \in Ids : StoreNow'[i] # StoreNow[i]}
    /\ (Safe => missed' = missed) /\ (Safe' <=> Safe)
Nothing ==
    /\ Same /\ Asked' = Asked /\ Owed' = Owed /\ missed' = missed /\ (Safe' <=> Safe)

LEMMA Moves ==
    ASSUME tangled' = tangled,
           \/ \E i \in Ids : \/ Asks(i) \/ Tells(i) \/ GivesUp(i)
                             \/ \E row \in Row \cup {None} : Changes(i, row)
           \/ Crashes \/ Recovers \/ Nothing
    PROVE  [Promise!Next]_(Promise!vars)
  <1> USE DEF StoreNow, ToldNow, Asked, Owed, Safe, Same
  <1>1. ASSUME NEW i \in Ids, Asks(i) PROVE Promise!Next
    BY <1>1 DEF Asks, Promise!Next, Promise!Ask
  <1>2. ASSUME NEW i \in Ids, NEW row \in Row \cup {None}, Changes(i, row) PROVE Promise!Next
    BY <1>2 DEF Changes, Promise!Next, Promise!Change
  <1>3. ASSUME NEW i \in Ids, Tells(i) PROVE Promise!Next
    BY <1>3 DEF Tells, Promise!Next, Promise!Tell
  <1>4. ASSUME NEW i \in Ids, GivesUp(i) PROVE Promise!Next
    BY <1>4 DEF GivesUp, Promise!Next, Promise!GiveUp
  <1>5. CASE Crashes
    BY <1>5 DEF Crashes, Promise!Next, Promise!Crash
  <1>6. CASE Recovers
    BY <1>6 DEF Recovers, Promise!Next, Promise!Recover
  <1>7. CASE Nothing
    BY <1>7 DEF Nothing, Promise!vars
  <1> HIDE DEF StoreNow, ToldNow, Asked, Owed, Safe, Same
  <1> QED BY <1>1, <1>2, <1>3, <1>4, <1>5, <1>6, <1>7

\* A request changes its row in the list in one step, and no other.
LEMMA ChangePromise ==
    ASSUME Typed, Calm, NEW t \in Threads, Work(t),
           AppendRow(t) \/ Replace(t) \/ Bind(t)
    PROVE  \E i \in Ids, row \in Row \cup {None} : Changes(i, row)
  <1>1. /\ Elsewhere(t) /\ Busy(t) /\ Apart
        /\ kind' = kind /\ torn' = torn
    BY WorkElsewhere DEF Calm
  <1>2. PICK i \in Ids : i = req[t].id
    BY <1>1, BusyTyped
  <1>3. Cache \in Seq(Row)
    BY CacheTyped DEF Rows
  <1>4. /\ req' = req /\ pc'[t] # "idle" /\ ~Changed(t) /\ Changed(t)'
        /\ log' = log /\ missed' = missed
        /\ \E row \in Row \cup {None} :
              RowOf(Cache', i) = row /\ \A j : j # i => RowOf(Cache', j) = RowOf(Cache, j)
    <2>1. CASE AppendRow(t)
      <3>1. PICK row \in Row : row.id = i /\ Cache' = Append(Cache, row)
        BY <1>2, <2>1, AppendRowIs
      <3>2. pc[t] = "append" /\ Find(Cache, row.id) = {}
        BY <1>2, <2>1, <3>1 DEF AppendRow, Calm, Place
      <3>3. RowOf(Cache', i) = row /\ \A j : j # i => RowOf(Cache', j) = RowOf(Cache, j)
        BY <1>3, <3>1, <3>2, AppendKeeps
      <3> QED BY <2>1, <3>2, <3>3, AppendRowIs DEF Changed
    <2>2. CASE Replace(t)
      <3>1. PICK row \in Row : row = req[t].row /\ row.id = i
        BY <1>2, <2>2, ReplaceIs
      <3>2. Replaced(Cache', Cache, First(Find(Cache, row.id)), row)
        BY <1>2, <2>2, <3>1, ReplaceIs DEF Replaced
      <3>3. RowOf(Cache', i) = row /\ \A j : j # i => RowOf(Cache', j) = RowOf(Cache, j)
        BY <1>3, <3>1, <3>2, ReplaceKeeps
      <3>4. pc[t] = "replace"
        BY <2>2 DEF Replace
      <3> QED BY <2>2, <3>3, <3>4, ReplaceIs DEF Changed
    <2>3. CASE Bind(t)
      <3>1. Cache' = Others(Cache, i) /\ pc[t] = "bind"
        BY <1>2, <2>3, BindIs DEF Bind
      <3>2. RowOf(Cache', i) = None /\ \A j : j # i => RowOf(Cache', j) = RowOf(Cache, j)
        BY <1>3, <3>1, OthersKeep
      <3> QED BY <2>3, <3>1, <3>2, BindIs DEF Changed
    <2> QED BY <2>1, <2>2, <2>3
  <1>5. PICK row \in Row \cup {None} :
          RowOf(Cache', i) = row /\ \A j : j # i => RowOf(Cache', j) = RowOf(Cache, j)
    BY <1>4
  <1>6. Asked' = Asked /\ Owed' = Owed \cup {i} /\ i \in Asked \ Owed
    BY <1>1, <1>2, <1>4, AskedNext
  <1>7. StoreNow' = [StoreNow EXCEPT ![i] = row] /\ ToldNow' = ToldNow
    BY <1>2, <1>4, <1>5 DEF StoreNow, ToldNow, View
  <1> QED BY <1>1, <1>4, <1>6, <1>7 DEF Changes, Safe

\* Its event says what the row is in the list, or is given up.
LEMMA EventPromise ==
    ASSUME Typed, Calm, NEW t \in Threads, Work(t), Delivered(t) \/ NotDelivered(t)
    PROVE  \E i \in Ids : Tells(i) \/ GivesUp(i)
  <1>1. /\ Elsewhere(t) /\ Busy(t) /\ Apart
        /\ kind' = kind /\ torn' = torn
    BY WorkElsewhere DEF Calm
  <1>2. PICK i \in Ids : i = req[t].id
    BY <1>1, BusyTyped
  <1>3. pc[t] = "produce" /\ pc'[t] = "idle" /\ Cache' = Cache
    BY DEF Delivered, NotDelivered, Answer, Goto, Store, Cache, Typed, ThreadsTyped
  <1>4. Asked' = Asked \ {i} /\ Owed' = Owed \ {i} /\ i \in Owed
    BY <1>1, <1>2, <1>3, AskedNext DEF Changed
  <1>5. StoreNow' = StoreNow
    BY <1>3 DEF StoreNow
  <1>6. CASE Delivered(t)
    <2>1. /\ log' = [log EXCEPT ![i] = Append(log[i], After(t))] /\ missed' = missed
          /\ RowOf(Cache, i) = After(t)
      BY <1>2, <1>3, <1>6 DEF Delivered, Calm, Place, Changed
    <2>2. log \in [Ids -> Seq(Row \cup {None})] /\ log[i] \in Seq(Row \cup {None})
          /\ After(t) \in Row \cup {None}
      <3>1. req[t].row \in Row
        BY <1>1, BusyTyped
      <3> QED BY <3>1 DEF Typed, StoreTyped, After
    <2>3. View(i)' = After(t)
      <3>1. log'[i] = Append(log[i], After(t))
        BY <2>1, <2>2
      <3>2. /\ Append(log[i], After(t)) # << >>
            /\ Append(log[i], After(t))[Len(Append(log[i], After(t)))] = After(t)
        <4> PICK e \in Row \cup {None} : e = After(t)
          BY <2>2
        <4>1. Append(log[i], e) # << >> /\ Append(log[i], e)[Len(Append(log[i], e))] = e
          BY <2>2, AppendProperties, LenProperties
        <4> QED BY <4>1
      <3> QED BY <3>1, <3>2 DEF View
    <2>4. \A j \in Ids : j # i => View(j)' = View(j)
      BY <2>1, <2>2 DEF View
    <2>5. ToldNow' = [ToldNow EXCEPT ![i] = StoreNow[i]]
      <3>1. StoreNow[i] = After(t)
        BY <2>1 DEF StoreNow
      <3> QED BY <2>3, <2>4, <3>1 DEF ToldNow
    <2> QED BY <1>1, <1>4, <1>5, <2>1, <2>5 DEF Tells, Safe
  <1>7. CASE NotDelivered(t)
    <2>1. log' = log /\ missed' = missed \cup {i}
      BY <1>2, <1>7 DEF NotDelivered
    <2>2. ToldNow' = ToldNow
      BY <2>1 DEF ToldNow, View
    <2> QED BY <1>1, <1>4, <1>5, <2>1, <2>2 DEF GivesUp, Safe, Same
  <1> QED BY <1>6, <1>7

\* The other steps of a request show neither in the list nor in the topic.
LEMMA QuietPromise ==
    ASSUME Typed, Calm, NEW t \in Threads, Work(t),
           \/ AppendLine(t) \/ Locate(t) \/ Count(t) \/ Filter(t)
           \/ Compare(t) \/ Truncate(t) \/ Header(t) \/ WriteRow(t)
    PROVE  Nothing
  <1>1. /\ Elsewhere(t) /\ Busy(t) /\ Apart /\ Place(t)
        /\ kind' = kind /\ torn' = torn /\ (req' = req \/ pc'[t] = "idle")
    BY WorkElsewhere DEF Calm
  <1> USE DEF Goto, Store, Kafka, Locals
  <1>2. /\ UNCHANGED <<heap, cur, log, missed>> /\ pc'[t] # "idle"
        /\ (Changed(t)' <=> Changed(t))
    <2>1. CASE AppendLine(t)
      <3>1. pc[t] = "append line" /\ pc'[t] = "produce"
        BY <2>1 DEF AppendLine, Typed, ThreadsTyped
      <3>2. UNCHANGED <<heap, cur, log, missed>>
        BY <2>1 DEF AppendLine
      <3> QED BY <3>1, <3>2 DEF Changed
    <2>2. CASE Locate(t)
      <3>1. Find(Cache, req[t].id) # {}
        BY <1>1, <2>2 DEF Locate, Place
      <3>2. Position(Cache, req[t].id) # 0
        BY <3>1, CacheTyped, Found DEF Position, Rows
      <3>3. pc[t] = "locate" /\ pc'[t] = "replace"
        BY <2>2, <3>2 DEF Locate, Typed, ThreadsTyped
      <3>4. UNCHANGED <<heap, cur, log, missed>>
        BY <2>2 DEF Locate
      <3> QED BY <3>3, <3>4 DEF Changed
    <2>3. CASE Count(t)
      BY <2>3 DEF Count, Typed, ThreadsTyped, Changed
    <2>4. CASE Filter(t)
      BY <2>4 DEF Filter, Typed, ThreadsTyped, Changed
    <2>5. CASE Compare(t)
      <3>1. Len(Cache) < at[t][2] /\ Len(Cache) \in Nat /\ at[t] \in Nat \X Nat
        BY <1>1, <2>5, CacheTyped DEF Compare, Place, Typed, ThreadsTyped
      <3>2. pc[t] = "compare" /\ pc'[t] = "truncate"
        BY <2>5, <3>1 DEF Compare, Typed, ThreadsTyped
      <3> QED BY <2>5, <3>2 DEF Compare, Changed
    <2>6. CASE Truncate(t)
      BY <2>6 DEF Truncate, Typed, ThreadsTyped, Changed
    <2>7. CASE Header(t)
      BY <2>7 DEF Header, Typed, ThreadsTyped, Changed
    <2>8. CASE WriteRow(t)
      <3>1. pc[t] = "rows" /\ pc'[t] \in {"rows", "produce"}
        BY <2>8 DEF WriteRow, Typed, ThreadsTyped
      <3>2. UNCHANGED <<heap, cur, log, missed>>
        BY <2>8 DEF WriteRow
      <3> QED BY <3>1, <3>2 DEF Changed
    <2> QED BY <2>1, <2>2, <2>3, <2>4, <2>5, <2>6, <2>7, <2>8
  <1>3. Asked' = Asked /\ Owed' = Owed
    BY <1>1, <1>2, AskedNext
  <1>4. StoreNow' = StoreNow /\ ToldNow' = ToldNow
    BY <1>2 DEF StoreNow, ToldNow, View, Cache
  <1> QED BY <1>1, <1>2, <1>3, <1>4 DEF Nothing, Same, Safe

\* A request that begins, without a tangle, is about a row that no other is about.
LEMMA BeginPromise ==
    ASSUME Typed, ~tangled', NEW t \in Threads, NEW op, NEW i \in Ids, NEW row,
           NEW next \in {"append", "locate", "count"}, Begin(t, op, i, row, next),
           op # "c" \/ i \notin Used
    PROVE  Asks(i)
  <1>1. /\ pc[t] = "idle" /\ pc'[t] = next /\ req'[t].id = i
        /\ \A s \in Threads \ {t} : pc'[s] = pc[s] /\ req'[s] = req[s]
        /\ UNCHANGED <<heap, cur, log, missed, kind, torn>>
    BY DEF Begin, Goto, Store, Kafka, Typed, ThreadsTyped
  <1>2. ~Busy(t) /\ ~Changed(t) /\ Busy(t)' /\ ~Changed(t)'
    BY <1>1 DEF Busy, Changed
  <1>3. ASSUME NEW s \in Threads \ {t}
        PROVE  /\ (Busy(s)' <=> Busy(s)) /\ (Changed(s)' <=> Changed(s)) /\ req'[s] = req[s]
    BY <1>1 DEF Busy, Changed
  <1>4. ASSUME NEW s \in Threads, Busy(s) PROVE req[s].id # i
    <2>1. {op, req[s].op} = {"c"}
      BY <1>4 DEF Begin, Busy
    <2>2. i \notin Used
      BY <2>1
    <2> QED BY <2>2 DEF Used
  <1>5. i \notin Asked /\ Asked' = Asked \cup {i}
    BY <1>1, <1>2, <1>3, <1>4 DEF Asked
  <1>6. Owed' = Owed
    BY <1>2, <1>3 DEF Owed
  <1>7. Same
    BY <1>1 DEF Same, StoreNow, ToldNow, View, Cache
  <1> QED BY <1>1, <1>5, <1>6, <1>7 DEF Asks, Safe

LEMMA RequestsPromise ==
    ASSUME Typed, ~tangled', NEW t \in Threads, Create(t) \/ Update(t) \/ Delete(t)
    PROVE  \E i \in Ids : Asks(i)
  <1>1. CASE Create(t)
    <2>1. PICK i \in Ids \ Used, n \in Numbers : Begin(t, "c", i, NewRow(i, n), "append")
      BY <1>1, CreateIs
    <2> QED BY <2>1, BeginPromise
  <1>2. CASE Update(t)
    <2>1. PICK i \in Ids, p \in Patches :
            Begin(t, "u", i, Merged(RowOf(Cache, i), p), "locate")
      BY <1>2 DEF Update
    <2> QED BY <2>1, BeginPromise
  <1>3. CASE Delete(t)
    <2>1. PICK i \in Ids : Begin(t, "d", i, RowOf(Cache, i), "count")
      BY <1>3 DEF Delete
    <2> QED BY <2>1, BeginPromise
  <1> QED BY <1>1, <1>2, <1>3

\* A crash ends what is at work; a safe restart reads back what was answered.
LEMMA ProcessPromise ==
    ASSUME Typed, Typed', ~tangled, FileInv, Durable, Crash \/ Restart
    PROVE  Crashes \/ Recovers \/ Nothing
  <1>1. /\ \A t \in Threads : pc'[t] = "idle" /\ ~Busy(t)' /\ ~Changed(t)'
        /\ kind' = kind /\ ToldNow' = ToldNow
    BY DEF Crash, Restart, Locals, Typed, ThreadsTyped, Busy, Changed, ToldNow, View
  <1>2. Asked' = {} /\ Owed' = {}
    BY <1>1 DEF Asked, Owed
  <1>3. CASE Crash
    <2>1. missed' = missed \cup Asked /\ StoreNow' = StoreNow /\ (~torn' => ~torn)
      BY <1>3 DEF Crash, Asked, StoreNow, Cache
    <2> QED BY <1>1, <1>2, <2>1 DEF Crashes, Same, Safe
  <1>4. CASE Restart
    <2>1. \A t \in Threads : ~Busy(t) /\ ~Changed(t)
      BY <1>4 DEF Restart, Typed, ThreadsTyped, Busy, Changed
    <2>2. Asked = {} /\ Owed = {} /\ torn' = torn
      BY <1>4, <2>1 DEF Asked, Owed, Restart
    <2>3. CASE Readable(file)
      <3>1. Cache' = Loaded(file)
        BY <1>4, <2>3 DEF Restart, Cache
      <3>2. missed' = missed \cup {i \in Ids : StoreNow'[i] # StoreNow[i]}
        <4>1. missed' = missed \cup {i \in Ids : RowOf(Cache, i) # RowOf(Cache', i)}
          BY <1>4, <2>3, <3>1 DEF Restart
        <4> QED BY <4>1 DEF StoreNow
      <3>3. Safe => missed' = missed
        BY <1>4, <2>2, ProcessRowByRow DEF Safe, Durable, FileInv
      <3>4. StoreNow' \in [Ids -> Row \cup {None}]
        <4>1. \A i \in Ids : RowOf(Cache', i) \in Row \cup {None}
          <5>1. Cache' \in Seq(Row)
            <6>1. heap' \in Seq(Rows) /\ cur' \in 1 .. Len(heap')
              BY DEF Typed, StoreTyped
            <6> QED BY <6>1, ElementOfSeq DEF Cache, Rows
          <5> QED BY <5>1, Found
        <4> QED BY <4>1 DEF StoreNow
      <3> QED BY <1>1, <1>2, <2>2, <3>2, <3>3, <3>4 DEF Recovers, Safe
    <2>4. CASE ~Readable(file)
      <3>1. UNCHANGED <<heap, cur, missed>>
        BY <1>4, <2>4 DEF Restart
      <3>2. StoreNow' = StoreNow
        BY <3>1 DEF StoreNow, Cache
      <3> QED BY <1>1, <1>2, <2>2, <3>1, <3>2 DEF Nothing, Same, Safe
    <2> QED BY <2>3, <2>4
  <1> QED BY <1>3, <1>4

LEMMA StepPromise ==
    ASSUME Typed, Typed', ~tangled => Calm, FileInv, Durable, [Next]_vars
    PROVE  [Promise!Next]_(Promise!vars)
  <1>1. CASE tangled'
    BY <1>1 DEF Promise!Next
  <1>2. CASE ~tangled'
    <2>1. ~tangled /\ Calm
      <3>1. ASSUME NEW t \in Threads, Work(t) PROVE ~tangled
        BY <1>2, <3>1, WorkElsewhere
      <3>2. ASSUME NEW t \in Threads, Create(t) \/ Update(t) \/ Delete(t) PROVE ~tangled
        BY <3>2 DEF Create, Update, Delete, Begin
      <3>3. Crash \/ Restart \/ UNCHANGED vars => ~tangled
        BY <1>2 DEF Crash, Restart, vars
      <3> QED BY <3>1, <3>2, <3>3 DEF Next
    <2>2. tangled' = tangled
      BY <1>2, <2>1 DEF Typed, StoreTyped
    <2>3. CASE UNCHANGED vars
      <3>1. Nothing
        BY <2>3 DEF vars, Nothing, Same, StoreNow, ToldNow, Asked, Owed, Safe, Busy, Changed,
             View, Cache
      <3> QED BY <2>2, <3>1, Moves
    <2>4. ASSUME NEW t \in Threads, Work(t) PROVE [Promise!Next]_(Promise!vars)
      <3>1. CASE AppendRow(t) \/ Replace(t) \/ Bind(t)
        BY <2>1, <2>2, <2>4, <3>1, ChangePromise, Moves
      <3>2. CASE Delivered(t) \/ NotDelivered(t)
        BY <2>1, <2>2, <2>4, <3>2, EventPromise, Moves
      <3>3. CASE \/ AppendLine(t) \/ Locate(t) \/ Count(t) \/ Filter(t)
                 \/ Compare(t) \/ Truncate(t) \/ Header(t) \/ WriteRow(t)
        BY <2>1, <2>2, <2>4, <3>3, QuietPromise, Moves
      <3> QED BY <2>4, <3>1, <3>2, <3>3 DEF Work
    <2>5. ASSUME NEW t \in Threads, Create(t) \/ Update(t) \/ Delete(t)
          PROVE  [Promise!Next]_(Promise!vars)
      BY <1>2, <2>2, <2>5, RequestsPromise, Moves
    <2>6. CASE Crash \/ Restart
      BY <2>1, <2>2, <2>6, ProcessPromise, Moves
    <2> QED BY <2>3, <2>4, <2>5, <2>6 DEF Next
  <1> QED BY <1>1, <1>2

LEMMA InitPromise == Init => Promise!Init
  <1> SUFFICES ASSUME Init PROVE Promise!Init
    OBVIOUS
  <1>1. Typed /\ Calm
    BY InitTyped, InitCalm
  <1>2. \A t \in Threads : ~Busy(t) /\ ~Changed(t)
    BY DEF Init, Busy, Changed
  <1>3. Asked = {} /\ Owed = {}
    BY <1>2 DEF Asked, Owed
  <1>4. missed = {} /\ tangled = FALSE /\ Safe \in BOOLEAN
    BY DEF Init, Safe
  <1>5. StoreNow \in [Ids -> Row \cup {None}]
    BY <1>1, StoreNowTyped
  <1>6. ToldNow = StoreNow
    BY <1>1, <1>2, <1>4 DEF Calm, Mirrored, ToldNow, StoreNow
  <1> QED BY <1>3, <1>4, <1>5, <1>6
      DEF Promise!Init, StoreNow, ToldNow, Asked, Owed, Safe

\* Step for step, the list, the file and the topic together (inventory.py,
\* service.py) keep the promise of RowStore: each request changes one row in one
\* step and then has it published or given up; no restart loses a customer that
\* was answered, unless a crash was within a rewrite.
THEOREM StoreImplemented == Spec => ImplementsStore
  <1>1. Typed /\ Typed' /\ (~tangled => Calm) /\ FileInv /\ Durable /\ [Next]_vars
        => [Promise!Next]_(Promise!vars)
    BY StepPromise
  <1> QED BY <1>1, InitPromise, AlwaysTyped, AlwaysCalm, AlwaysFile, AlwaysDurable, PTL
      DEF Spec, ImplementsStore, Promise!Spec

=============================================================================
