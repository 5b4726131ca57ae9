-------------------------- MODULE AnalyticsProofs --------------------------
(***************************************************************************)
(* Proofs about the dashboard, for any customers, profiles, categories and *)
(* labels: the mock fold and the assembly of the five tables agree, and a  *)
(* profile found is the customer's row.                                    *)
(***************************************************************************)
EXTENDS Analytics, DataLemmas

(* The order of the bars                                                   *)

\* Each bar has a rank of its own, so the bars can be put in their order.
LEMMA OrderedIn ==
    ASSUME NEW bars, IsFiniteSet(bars), bars \subseteq [label: Nat, n: Nat]
    PROVE  Ordered(bars) \in [1 .. Cardinality(bars) -> bars]
  <1> DEFINE N == Cardinality(bars)
             Front(b) == {a \in bars : Before(a, b)}
             rank == [b \in bars |-> Cardinality(Front(b)) + 1]
  <1>1. N \in Nat
    BY FS_CardinalityType
  <1>2. ASSUME NEW b \in bars
        PROVE  IsFiniteSet(Front(b)) /\ Cardinality(Front(b)) \in 0 .. N - 1
    <2>1. Front(b) \subseteq bars \ {b}
      BY DEF Before
    <2>2. IsFiniteSet(bars \ {b}) /\ Cardinality(bars \ {b}) = N - 1
      BY FS_RemoveElement
    <2> QED BY <1>1, <2>1, <2>2, FS_Subset, FS_CardinalityType
  <1>3. ASSUME NEW a \in bars, NEW b \in bars, Before(a, b)
        PROVE  Cardinality(Front(a)) # Cardinality(Front(b))
    <2>1. ASSUME NEW c \in Front(a) PROVE c \in Front(b)
      <3>1. /\ a.n \in Nat /\ b.n \in Nat /\ c.n \in Nat /\ a.label \in Nat
            /\ b.label \in Nat /\ c.label \in Nat
        OBVIOUS
      <3> QED BY <1>3, <3>1 DEF Before
    <2>2. a \in Front(b)
      BY <1>3
    <2>3. a \notin Front(a)
      BY DEF Before
    <2>4. Front(a) \in SUBSET Front(b) /\ Front(a) # Front(b)
      BY <2>1, <2>2, <2>3
    <2> HIDE DEF Front
    <2> QED BY <1>2, <2>4, FS_Subset
  <1>4. ASSUME NEW a \in bars, NEW b \in bars, a # b PROVE Before(a, b) \/ Before(b, a)
    <2>1. /\ a.n \in Nat /\ b.n \in Nat /\ a.label \in Nat /\ b.label \in Nat
          /\ a = [label |-> a.label, n |-> a.n] /\ b = [label |-> b.label, n |-> b.n]
      OBVIOUS
    <2>2. a.n # b.n \/ a.label # b.label
      BY <1>4, <2>1
    <2> QED BY <2>1, <2>2 DEF Before
  <1> HIDE DEF Front
  <1>5. rank \in Injection(bars, 1 .. N)
    <2>1. rank \in [bars -> 1 .. N]
      BY <1>1, <1>2
    <2>2. ASSUME NEW a \in bars, NEW b \in bars, rank[a] = rank[b] PROVE a = b
      BY <1>2, <1>3, <1>4, <2>2
    <2> QED BY <2>1, <2>2 DEF Injection, IsInjective
  <1>6. IsFiniteSet(1 .. N) /\ Cardinality(1 .. N) = N
    BY <1>1, FS_Interval
  <1>7. rank \in Surjection(bars, 1 .. N)
    <2> HIDE DEF rank, N
    <2>1. N = Cardinality(bars)
      BY DEF N
    <2> QED BY <1>5, <1>6, <2>1, FS_Injection
  <1>8. ASSUME NEW k \in 1 .. N
        PROVE  \E b \in bars : Cardinality({a \in bars : Before(a, b)}) = k - 1
    <2>1. PICK b \in bars : rank[b] = k
      BY <1>7 DEF Surjection
    <2>2. Cardinality(Front(b)) = k - 1
      BY <1>1, <1>2, <2>1
    <2> QED BY <2>2 DEF Front
  <1> QED BY <1>8 DEF Ordered

(* What is proved of the profiles                                          *)

\* The profiles there are.
LEMMA PresentFinite ==
    ASSUME NEW rs
    PROVE  Present(rs) \subseteq Customers /\ IsFiniteSet(Present(rs))
  BY AnalyticsConstantsOK, FS_Subset DEF Present

\* What a row of the profiles gives the folds, a hole counted as zero or unknown.
LEMMA Rows ==
    ASSUME NEW rs \in Snapshot, NEW c \in Present(rs)
    PROVE  /\ rs[c] \in Profile /\ Num(rs[c].balance) \in Nat
           /\ \A d \in Dims : /\ rs[c].category[d] \in Labels \cup {Blank, None}
                              /\ Label(rs[c].category[d]) \in Labels
  <1>1. rs[c] \in Profile
    BY AnalyticsConstantsOK DEF Snapshot, Present
  <1>2. rs[c].balance \in Nat \cup {None} /\ rs[c].category \in [Dims -> Labels \cup {Blank, None}]
    BY <1>1 DEF Profile
  <1> QED BY <1>1, <1>2, AnalyticsConstantsOK DEF Num, Label

\* The columns that the bars are made of.
LEMMA Weights ==
    ASSUME NEW rs \in Snapshot
    PROVE  /\ Ones(rs) \in [Present(rs) -> Nat] /\ Balances(rs) \in [Present(rs) -> Nat]
           /\ \A d \in Dims : LabelsOf(rs, d) \in [Present(rs) -> Labels]
  BY Rows DEF Ones, Balances, LabelsOf

\* The bars of a fold are a series of labels and numbers.
LEMMA BarsTyped ==
    ASSUME NEW S, IsFiniteSet(S), NEW label \in [S -> Labels], NEW n \in [S -> Nat]
    PROVE  Bars(label, n) \in Seq([label: Labels, n: Nat])
  <1> DEFINE Bar(l) == [label |-> l, n |-> SumFunctionOnSet(n, {r \in DOMAIN n : label[r] = l})]
             bar == [l \in Range(label) |-> Bar(l)]
             bars == {Bar(l) : l \in Range(label)}
  <1>1. Range(label) \subseteq Labels /\ IsFiniteSet(Range(label))
    <2>1. label = [x \in S |-> label[x]]
      OBVIOUS
    <2> QED BY <2>1, RangeFinite DEF Range
  <1>2. bars = Range(bar) /\ bar = [l \in Range(label) |-> bar[l]]
    BY DEF Range
  <1>3. IsFiniteSet(bars)
    <2> HIDE DEF bar, bars
    <2> QED BY <1>1, <1>2, RangeFinite
  <1>4. bars \subseteq [label: Labels, n: Nat]
    <2>1. ASSUME NEW l \in Labels
          PROVE  SumFunctionOnSet(n, {r \in DOMAIN n : label[r] = l}) \in Nat
      <3>1. IsFiniteSet({r \in DOMAIN n : label[r] = l})
        BY FS_Subset
      <3> QED BY <3>1, SumNat
    <2>2. ASSUME NEW l \in Labels PROVE Bar(l) \in [label: Labels, n: Nat]
      BY <2>1
    <2> HIDE DEF Bar
    <2> QED BY <1>1, <2>2
  <1>5. Bars(label, n) = Ordered(bars)
    BY DEF Bars
  <1> HIDE DEF bars
  <1>6. bars \subseteq [label: Nat, n: Nat] /\ Cardinality(bars) \in Nat
    BY <1>3, <1>4, AnalyticsConstantsOK, FS_CardinalityType
  <1>7. Ordered(bars) \in [1 .. Cardinality(bars) -> bars]
    BY <1>3, <1>6, OrderedIn
  <1>8. Ordered(bars) \in [1 .. Cardinality(bars) -> [label: Labels, n: Nat]]
    BY <1>4, <1>7
  <1> QED BY <1>5, <1>6, <1>8, FunctionIsSeq

\* The first bars and the rest under one label are a series again.
LEMMA CappedTyped ==
    ASSUME NEW d, NEW seq \in Seq([label: Labels, n: Nat])
    PROVE  CappedIf(d, seq) \in Series
  <1>1. TopN \in Nat \ {0} /\ Len(seq) \in Nat /\ Other \in Nat
    BY AnalyticsConstantsOK
  <1>2. ASSUME NEW i \in 1 .. Len(seq)
        PROVE  seq[i] \in [label: Labels \cup {Other}, n: Nat] /\ seq[i].n \in Nat
    <2>1. seq[i] \in [label: Labels, n: Nat]
      BY <1>2, ElementOfSeq
    <2> QED BY <2>1
  <1>3. seq \in Series
    <2>1. seq \in [1 .. Len(seq) -> [label: Labels \cup {Other}, n: Nat]]
      BY <1>2, LenProperties
    <2> QED BY <1>1, <2>1, FunctionIsSeq DEF Series
  <1>4. ASSUME ~(Len(seq) <= TopN) PROVE Capped(seq) \in Series
    <2> DEFINE rest == [i \in TopN + 1 .. Len(seq) |-> seq[i].n]
    <2>1. SubSeq(seq, 1, TopN) \in Series
      <3>1. \A i \in 1 .. TopN : seq[i] \in [label: Labels \cup {Other}, n: Nat]
        BY <1>1, <1>2, <1>4
      <3>2. 1 \in Int /\ TopN \in Int
        BY <1>1
      <3> QED BY <3>1, <3>2, SubSeqProperties DEF Series
    <2>2. SumFunction(rest) \in Nat
      <3>1. IsFiniteSet(TopN + 1 .. Len(seq))
        BY <1>1, FS_Interval
      <3>2. \A i \in TopN + 1 .. Len(seq) : rest[i] \in Nat
        <4>1. \A i \in TopN + 1 .. Len(seq) : i \in 1 .. Len(seq)
          BY <1>1
        <4> QED BY <1>2, <4>1
      <3>3. SumFunction(rest) = SumFunctionOnSet(rest, TopN + 1 .. Len(seq))
        BY DEF SumFunction
      <3> HIDE DEF rest
      <3> QED BY <3>1, <3>2, <3>3, SumNat
    <2>3. Capped(seq) = Append(SubSeq(seq, 1, TopN), [label |-> Other, n |-> SumFunction(rest)])
      BY <1>4 DEF Capped
    <2>4. [label |-> Other, n |-> SumFunction(rest)] \in [label: Labels \cup {Other}, n: Nat]
      BY <2>2
    <2> HIDE DEF rest
    <2> QED BY <2>1, <2>3, <2>4, AppendProperties DEF Series
  <1> QED BY <1>3, <1>4 DEF CappedIf, Capped

(* The dashboard: mock and live                                            *)

\* The bars of groups are those of their members: a group has the label of each
\* of its members, and the sum of their numbers.
Members(S, into, g) == {c \in S : into[c] = g}
Regroups(S, label, w, G, of, n, into) ==
    /\ IsFiniteSet(S) /\ into \in [S -> G] /\ \A g \in G : \E c \in S : into[c] = g
    /\ DOMAIN label = S /\ DOMAIN of = G /\ \A c \in S : label[c] = of[into[c]]
    /\ w \in [S -> Nat]
    /\ DOMAIN n = G /\ \A g \in G : n[g] = SumFunctionOnSet(w, Members(S, into, g))
LEMMA BarsRegroup ==
    ASSUME NEW S, NEW label, NEW w, NEW G, NEW of, NEW n, NEW into,
           Regroups(S, label, w, G, of, n, into)
    PROVE  Bars(of, n) = Bars(label, w)
  <1> USE DEF Regroups
  <1> DEFINE Had(l) == {c \in S : label[c] = l}
             Hads(l) == {g \in G : of[g] = l}
  <1>1. Range(of) = Range(label)
    BY DEF Range
  <1>2. IsFiniteSet(G)
    <2>1. Range(into) = G /\ into = [c \in S |-> into[c]]
      BY DEF Range
    <2> QED BY <2>1, RangeFinite
  <1>3. ASSUME NEW l PROVE SumFunctionOnSet(n, Hads(l)) = SumFunctionOnSet(w, Had(l))
    <2> DEFINE part == [g \in Hads(l) |-> SumFunctionOnSet(w, {c \in Had(l) : into[c] = g})]
    <2>1. IsFiniteSet(Had(l)) /\ IsFiniteSet(Hads(l))
      BY <1>2, FS_Subset
    <2>2. /\ \A c \in Had(l) : w[c] \in Nat
          /\ \A c \in Had(l) : into[c] \in Hads(l)
      OBVIOUS
    <2>3. SumFunctionOnSet(w, Had(l)) = SumFunctionOnSet(part, Hads(l))
      <3> SUFFICES ASSUME NEW M, M = Had(l), NEW H, H = Hads(l)
                   PROVE  SumFunctionOnSet(w, M) =
                          SumFunctionOnSet([g \in H |->
                              SumFunctionOnSet(w, {c \in M : into[c] = g})], H)
        OBVIOUS
      <3>1. /\ IsFiniteSet(M) /\ IsFiniteSet(H)
            /\ \A c \in M : w[c] \in Nat
            /\ \A c \in M : into[c] \in H
        BY <2>1, <2>2
      <3> HIDE DEF part, Had, Hads
      <3> QED BY <3>1, SumOfParts
    <2>4. ASSUME NEW g \in Hads(l) PROVE part[g] = n[g]
      <3>1. {c \in Had(l) : into[c] = g} = {c \in S : into[c] = g}
        OBVIOUS
      <3> QED BY <3>1 DEF Members
    <2>5. SumFunctionOnSet(part, Hads(l)) = SumFunctionOnSet(n, Hads(l))
      <3> SUFFICES ASSUME NEW p, p = part, NEW H, H = Hads(l)
                   PROVE  SumFunctionOnSet(p, H) = SumFunctionOnSet(n, H)
        OBVIOUS
      <3> HIDE DEF part, Hads
      <3>1. IsFiniteSet(H) /\ \A g \in H : p[g] = n[g]
        BY <2>1, <2>4
      <3> QED BY <3>1, SumCongruent
    <2> QED BY <2>3, <2>5
  <1>4. DOMAIN n = G /\ DOMAIN w = S
    OBVIOUS
  <1> DEFINE A == {[label |-> l, n |-> SumFunctionOnSet(n, Hads(l))] : l \in Range(of)}
             B == {[label |-> l, n |-> SumFunctionOnSet(w, Had(l))] : l \in Range(label)}
  <1>5. A = B
    <2> HIDE DEF Had, Hads
    <2> QED BY <1>1, <1>3
  <1>6. Bars(of, n) = Ordered(A) /\ Bars(label, w) = Ordered(B)
    BY <1>4 DEF Bars
  <1> QED BY <1>5, <1>6

\* The rows of fct_crm_by_<d> give the bars of the profiles they aggregate, by
\* count and by balance.
LEMMA GroupsGiveBars ==
    ASSUME NEW rs \in Snapshot, NEW d \in Dims
    PROVE  /\ BarOf(Groups(rs, d), [g \in Groups(rs, d) |-> g.count]) =
                Bars(LabelsOf(rs, d), Ones(rs))
           /\ BarOf(Groups(rs, d), [g \in Groups(rs, d) |-> g.balance]) =
                Bars(LabelsOf(rs, d), Balances(rs))
  <1> DEFINE S == Present(rs)
             In(v) == {c \in S : rs[c].category[d] = v}
             Row(v) == [value |-> v, count |-> Cardinality(In(v)),
                        balance |-> SumFunctionOnSet(Balances(rs), In(v))]
             G == {Row(v) : v \in {rs[c].category[d] : c \in S}}
             into == [c \in S |-> Row(rs[c].category[d])]
             of == [g \in G |-> Label(g.value)]
  <1>1. Groups(rs, d) = G
    BY DEF Groups
  <1>2. IsFiniteSet(S)
    BY PresentFinite
  <1>3. into \in [S -> G] /\ \A g \in G : \E c \in S : into[c] = g
    OBVIOUS
  <1>4. \A c \in S : into[c].value = rs[c].category[d]
    OBVIOUS
  <1>5. \A g \in G : /\ g.count = Cardinality(In(g.value))
                     /\ g.balance = SumFunctionOnSet(Balances(rs), In(g.value))
                     /\ g = Row(g.value)
    <2>1. \A v : Row(v).value = v /\ Row(v).count = Cardinality(In(v))
                 /\ Row(v).balance = SumFunctionOnSet(Balances(rs), In(v))
      OBVIOUS
    <2> HIDE DEF Row, In
    <2> QED BY <2>1
  <1>6. LabelsOf(rs, d) \in [S -> Labels] /\ \A c \in S : LabelsOf(rs, d)[c] = of[into[c]]
    <2>1. \A c \in S : LabelsOf(rs, d)[c] = Label(rs[c].category[d])
      BY DEF LabelsOf
    <2> HIDE DEF into, G
    <2> QED BY <2>1, <1>3, <1>4, Weights
  <1>7. of \in [G -> Labels]
    <2> HIDE DEF into, G
    <2>1. \A g \in G : Label(g.value) \in Labels
      BY <1>3, <1>4, Rows
    <2> QED BY <2>1
  <1>8. ASSUME NEW g \in G PROVE Members(S, into, g) = In(g.value)
    <2>1. \A c \in S : into[c] = Row(rs[c].category[d])
      OBVIOUS
    <2> HIDE DEF into, G, Row
    <2> QED BY <2>1, <1>4, <1>5 DEF Members
  <1>9. Ones(rs) \in [S -> Nat] /\ Balances(rs) \in [S -> Nat]
    BY Weights
  <1>10. ASSUME NEW g \in G
         PROVE  /\ g.count = SumFunctionOnSet(Ones(rs), Members(S, into, g))
                /\ g.balance = SumFunctionOnSet(Balances(rs), Members(S, into, g))
    <2>1. IsFiniteSet(In(g.value)) /\ \A c \in In(g.value) : Ones(rs)[c] = 1
      BY <1>2, FS_Subset DEF Ones
    <2>2. SumFunctionOnSet(Ones(rs), In(g.value)) = Cardinality(In(g.value))
      <3> HIDE DEF In, G
      <3> QED BY <2>1, SumOfOnes
    <2> HIDE DEF In, G, into
    <2> QED BY <1>5, <1>8, <2>2
  <1> DEFINE counts == [g \in G |-> g.count]
             balances == [g \in G |-> g.balance]
  <1>11. /\ DOMAIN counts = G /\ DOMAIN balances = G
         /\ \A g \in G : counts[g] = SumFunctionOnSet(Ones(rs), Members(S, into, g))
         /\ \A g \in G : balances[g] = SumFunctionOnSet(Balances(rs), Members(S, into, g))
    <2> HIDE DEF G, into
    <2> QED BY <1>10
  <1>12. /\ BarOf(Groups(rs, d), [g \in Groups(rs, d) |-> g.count]) = Bars(of, counts)
         /\ BarOf(Groups(rs, d), [g \in Groups(rs, d) |-> g.balance]) = Bars(of, balances)
    BY <1>1 DEF BarOf
  <1> HIDE DEF S, G, into, of, counts, balances
  <1> USE DEF Regroups
  <1>13. Bars(of, counts) = Bars(LabelsOf(rs, d), Ones(rs))
    <2>1. Regroups(S, LabelsOf(rs, d), Ones(rs), G, of, counts, into)
      BY <1>2, <1>3, <1>6, <1>7, <1>9, <1>11
    <2> HIDE DEF Regroups
    <2> QED BY <2>1, BarsRegroup
  <1>14. Bars(of, balances) = Bars(LabelsOf(rs, d), Balances(rs))
    <2>1. Regroups(S, LabelsOf(rs, d), Balances(rs), G, of, balances, into)
      BY <1>2, <1>3, <1>6, <1>7, <1>9, <1>11
    <2> HIDE DEF Regroups
    <2> QED BY <2>1, BarsRegroup
  <1> QED BY <1>12, <1>13, <1>14

\* The quality counters: the table counts the flags that the fold adds up.
Complete(rs) == {c \in Present(rs) : rs[c].no_email = 0 /\ rs[c].no_phone = 0}
LEMMA FlagsCounted ==
    ASSUME NEW rs \in Snapshot
    PROVE  LET cs == Present(rs) IN
           /\ Cardinality({c \in cs : rs[c].no_email + rs[c].no_phone = 0}) = Cardinality(Complete(rs))
           /\ Cardinality({c \in cs : rs[c].no_email = 1}) = SumFunction([c \in cs |-> rs[c].no_email])
           /\ Cardinality({c \in cs : rs[c].no_phone = 1}) = SumFunction([c \in cs |-> rs[c].no_phone])
  <1> DEFINE cs == Present(rs)
             email == [c \in cs |-> rs[c].no_email]
             phone == [c \in cs |-> rs[c].no_phone]
  <1>1. \A c \in cs : rs[c].no_email \in 0 .. 1 /\ rs[c].no_phone \in 0 .. 1
    <2> SUFFICES ASSUME NEW c \in cs PROVE rs[c].no_email \in 0 .. 1 /\ rs[c].no_phone \in 0 .. 1
      OBVIOUS
    <2>1. rs[c] \in Profile
      BY Rows
    <2> QED BY <2>1 DEF Profile
  <1>2. {c \in cs : rs[c].no_email + rs[c].no_phone = 0} = Complete(rs)
    <2>1. \A c \in cs : rs[c].no_email + rs[c].no_phone = 0 <=>
                          rs[c].no_email = 0 /\ rs[c].no_phone = 0
      BY <1>1
    <2> QED BY <2>1 DEF Complete
  <1>3. IsFiniteSet(cs)
    BY PresentFinite
  <1>4. /\ {c \in cs : rs[c].no_email = 1} = {c \in cs : email[c] = 1}
        /\ {c \in cs : rs[c].no_phone = 1} = {c \in cs : phone[c] = 1}
        /\ \A c \in cs : email[c] \in 0 .. 1
        /\ \A c \in cs : phone[c] \in 0 .. 1
    BY <1>1
  <1>5. SumFunction(email) = SumFunctionOnSet(email, cs) /\ SumFunction(phone) = SumFunctionOnSet(phone, cs)
    BY DEF SumFunction
  <1>6. /\ SumFunction(email) = Cardinality({c \in cs : email[c] = 1})
        /\ SumFunction(phone) = Cardinality({c \in cs : phone[c] = 1})
    <2> HIDE DEF cs, email, phone
    <2> QED BY <1>3, <1>4, <1>5, SumOfBits
  <1> QED BY <1>2, <1>4, <1>6

\* "so mock and live never silently diverge" (analytics/service.py): each part of
\* the payload assembled from five result sets is the part that mock_aggregate
\* folds from the profiles that the set of that part stands for.
LEMMA PartsOfAssemble ==
    ASSUME NEW rs \in [Tables -> Snapshot]
    PROVE  /\ \A d \in Dims : Assemble(rs).by[d] = Fold(rs[d]).by[d]
           /\ Assemble(rs).balances = Fold(rs["segment"]).balances
           /\ Assemble(rs).customers = Fold(rs["summary"]).customers
           /\ Assemble(rs).balance = Fold(rs["summary"]).balance
           /\ Assemble(rs).age = Fold(rs["summary"]).age
           /\ Assemble(rs).quality = Fold(rs["summary"]).quality
  <1>1. /\ "segment" \in Dims /\ "summary" \in Tables
        /\ \A t \in Tables : rs[t] \in Snapshot
        /\ Dims \subseteq Tables
    BY AnalyticsConstantsOK DEF Tables
  <1>2. ASSUME NEW d \in Dims PROVE Assemble(rs).by[d] = Fold(rs[d]).by[d]
    <2>1. Assemble(rs).by[d] =
          CappedIf(d, BarOf(Groups(rs[d], d), [g \in Groups(rs[d], d) |-> g.count]))
      BY DEF Assemble
    <2>2. Fold(rs[d]).by[d] = CappedIf(d, Bars(LabelsOf(rs[d], d), Ones(rs[d])))
      BY DEF Fold
    <2> QED BY <1>1, <2>1, <2>2, GroupsGiveBars
  <1>3. Assemble(rs).balances = Fold(rs["segment"]).balances
    <2>1. Assemble(rs).balances =
          BarOf(Groups(rs["segment"], "segment"),
                [g \in Groups(rs["segment"], "segment") |-> g.balance])
      BY DEF Assemble
    <2>2. Fold(rs["segment"]).balances =
          Bars(LabelsOf(rs["segment"], "segment"), Balances(rs["segment"]))
      BY DEF Fold
    <2> QED BY <1>1, <2>1, <2>2, GroupsGiveBars
  <1>4. /\ Assemble(rs).customers = Fold(rs["summary"]).customers
        /\ Assemble(rs).balance = Fold(rs["summary"]).balance
        /\ Assemble(rs).age = Fold(rs["summary"]).age
    BY DEF Assemble, Summary, Fold
  <1>5. Assemble(rs).quality = Fold(rs["summary"]).quality
    <2> SUFFICES ASSUME NEW now, now = rs["summary"]
                 PROVE  Assemble(rs).quality = Fold(now).quality
      OBVIOUS
    <2> DEFINE cs == Present(now)
               complete == Cardinality({c \in cs : now[c].no_email + now[c].no_phone = 0})
               email == Cardinality({c \in cs : now[c].no_email = 1})
               phone == Cardinality({c \in cs : now[c].no_phone = 1})
               emails == SumFunction([c \in cs |-> now[c].no_email])
               phones == SumFunction([c \in cs |-> now[c].no_phone])
    <2>1. Assemble(rs).quality =
          [complete |-> complete, no_email |-> email, no_phone |-> phone]
      BY DEF Assemble, Summary
    <2>2. Fold(now).quality =
          [complete |-> Cardinality(Complete(now)), no_email |-> emails, no_phone |-> phones]
      BY DEF Fold, Complete
    <2>3. now \in Snapshot
      BY <1>1
    <2>4. complete = Cardinality(Complete(now)) /\ email = emails /\ phone = phones
      BY <2>3, FlagsCounted
    <2> HIDE DEF complete, email, phone, emails, phones
    <2> QED BY <2>1, <2>2, <2>4
  <1> QED BY <1>2, <1>3, <1>4, <1>5

\* Five tables of one moment: the two payloads are equal.
THEOREM FoldsAgree ==
    \A rs \in Snapshot : Assemble([t \in Tables |-> rs]) = Fold(rs)
  <1> SUFFICES ASSUME NEW rs \in Snapshot PROVE Assemble([t \in Tables |-> rs]) = Fold(rs)
    OBVIOUS
  <1> DEFINE all == [t \in Tables |-> rs]
  <1>1. /\ all \in [Tables -> Snapshot] /\ all["summary"] = rs /\ all["segment"] = rs
        /\ \A d \in Dims : all[d] = rs
    BY AnalyticsConstantsOK DEF Tables
  <1> DEFINE A == Assemble(all)
             F == Fold(rs)
  <1>2. A = [customers |-> A.customers, balance |-> A.balance, age |-> A.age,
             quality |-> A.quality, by |-> A.by, balances |-> A.balances]
    BY DEF Assemble
  <1>3. F = [customers |-> F.customers, balance |-> F.balance, age |-> F.age,
             quality |-> F.quality, by |-> F.by, balances |-> F.balances]
    BY DEF Fold
  <1>4. A.by = [d \in Dims |-> A.by[d]] /\ F.by = [d \in Dims |-> F.by[d]]
    BY DEF Assemble, Fold
  <1> HIDE DEF all
  <1>5. /\ \A d \in Dims : A.by[d] = F.by[d]
        /\ A.balances = F.balances /\ A.customers = F.customers
        /\ A.balance = F.balance /\ A.age = F.age /\ A.quality = F.quality
    BY <1>1, PartsOfAssemble
  <1> HIDE DEF A, F
  <1>6. A.by = F.by
    BY <1>4, <1>5
  <1>7. A = F
    BY <1>2, <1>3, <1>5, <1>6
  <1> QED BY <1>7 DEF A, F, all

(* The parts of a payload                                                  *)

PayloadTyped(p) ==
    /\ p.customers \in Nat /\ p.balance \in Nat
    /\ p.quality \in [complete: Nat, no_email: Nat, no_phone: Nat]
    /\ p.age \in (Nat \X Nat) \cup {None}
    /\ (\A d \in Dims : p.by[d] \in Series) /\ p.balances \in Series

\* The payload as the model types it is one that the page accepts.
LEMMA TypedPayload ==
    ASSUME NEW p, PayloadTyped(p)
    PROVE  IsPayload(p)
  <1>1. \A q \in DOMAIN p.quality : p.quality[q] \in Nat
    <2> SUFFICES ASSUME NEW r, r \in [complete: Nat, no_email: Nat, no_phone: Nat]
                 PROVE  \A q \in DOMAIN r : r[q] \in Nat
      BY DEF PayloadTyped
    <2> QED OBVIOUS
  <1> QED BY <1>1 DEF PayloadTyped, IsPayload

\* Numbers add up to a number.
LEMMA SumFunctionNat ==
    ASSUME NEW S, IsFiniteSet(S), NEW f \in [S -> Nat]
    PROVE  SumFunction(f) \in Nat
  <1>1. SumFunction(f) = SumFunctionOnSet(f, S)
    BY DEF SumFunction
  <1> QED BY <1>1, SumNat

\* Bars may be shown as they are or capped.
LEMMA BarsAreSeries ==
    ASSUME NEW d, NEW seq \in Seq([label: Labels, n: Nat])
    PROVE  seq \in Series /\ CappedIf(d, seq) \in Series
  <1>1. [label: Labels, n: Nat] \subseteq [label: Labels \cup {Other}, n: Nat]
    OBVIOUS
  <1> QED BY <1>1, SeqMonotonic, CappedTyped DEF Series

\* The payload computed from the rows has its type, ...
LEMMA FoldTyped ==
    ASSUME NEW rs \in Snapshot
    PROVE  PayloadTyped(Fold(rs))
  <1> DEFINE cs == Present(rs)
             ages == {c \in cs : rs[c].age # None}
             F == Fold(rs)
  <1>1. IsFiniteSet(cs) /\ IsFiniteSet(ages)
    BY PresentFinite, FS_Subset
  <1>2. /\ \A c \in cs : rs[c].no_email \in Nat /\ rs[c].no_phone \in Nat
        /\ \A c \in ages : rs[c].age \in Nat
    <2> SUFFICES ASSUME NEW c \in cs
                 PROVE  /\ rs[c].no_email \in Nat /\ rs[c].no_phone \in Nat
                        /\ rs[c].age \in Nat \cup {None}
      OBVIOUS
    <2>1. rs[c] \in Profile
      BY Rows
    <2> QED BY <2>1 DEF Profile
  <1>3. Cardinality(cs) \in Nat /\ Cardinality(ages) \in Nat /\ Cardinality(Complete(rs)) \in Nat
    BY <1>1, FS_Subset, FS_CardinalityType DEF Complete
  <1>4. F.customers \in Nat /\ F.balance \in Nat
    <2>1. SumFunction(Balances(rs)) \in Nat
      BY <1>1, Weights, SumFunctionNat
    <2> QED BY <1>3, <2>1 DEF Fold
  <1>5. F.age \in (Nat \X Nat) \cup {None}
    <2>1. [c \in ages |-> rs[c].age] \in [ages -> Nat]
      BY <1>2
    <2>2. SumFunction([c \in ages |-> rs[c].age]) \in Nat
      <3> HIDE DEF ages
      <3> QED BY <1>1, <2>1, SumFunctionNat
    <2>3. F.age = IF ages = {} THEN None
                  ELSE <<SumFunction([c \in ages |-> rs[c].age]), Cardinality(ages)>>
      BY DEF Fold, MeanAge
    <2> HIDE DEF ages, F
    <2> QED BY <1>3, <2>2, <2>3
  <1>6. F.quality \in [complete: Nat, no_email: Nat, no_phone: Nat]
    <2> DEFINE email == [c \in cs |-> rs[c].no_email]
               phone == [c \in cs |-> rs[c].no_phone]
    <2>1. email \in [cs -> Nat] /\ phone \in [cs -> Nat]
      BY <1>2
    <2>2. F.quality = [complete |-> Cardinality(Complete(rs)), no_email |-> SumFunction(email),
                       no_phone |-> SumFunction(phone)]
      BY DEF Fold, Complete
    <2> HIDE DEF email, phone, cs, F
    <2>3. SumFunction(email) \in Nat /\ SumFunction(phone) \in Nat
      BY <1>1, <2>1, SumFunctionNat
    <2> QED BY <1>3, <2>2, <2>3
  <1>7. ASSUME NEW d \in Dims PROVE F.by[d] \in Series
    <2>1. Bars(LabelsOf(rs, d), Ones(rs)) \in Seq([label: Labels, n: Nat])
      BY <1>1, Weights, BarsTyped
    <2>2. F.by[d] = CappedIf(d, Bars(LabelsOf(rs, d), Ones(rs)))
      BY DEF Fold
    <2> QED BY <2>1, <2>2, BarsAreSeries
  <1>8. F.balances \in Series
    <2>1. Bars(LabelsOf(rs, "segment"), Balances(rs)) \in Seq([label: Labels, n: Nat])
      BY <1>1, Weights, BarsTyped, AnalyticsConstantsOK
    <2>2. F.balances = Bars(LabelsOf(rs, "segment"), Balances(rs))
      BY DEF Fold
    <2> QED BY <2>1, <2>2, BarsAreSeries
  <1> QED BY <1>4, <1>5, <1>6, <1>7, <1>8 DEF PayloadTyped

\* ... and so has the one assembled from five answers, whatever snapshots they saw.
LEMMA AssembleTyped ==
    ASSUME NEW rs \in [Tables -> Snapshot]
    PROVE  PayloadTyped(Assemble(rs))
  <1>1. /\ "segment" \in Dims /\ \A t \in Dims \cup {"summary"} : rs[t] \in Snapshot
    BY AnalyticsConstantsOK DEF Tables
  <1>2. \A t \in Dims \cup {"summary"} : PayloadTyped(Fold(rs[t]))
    BY <1>1, FoldTyped
  <1> QED BY <1>1, <1>2, PartsOfAssemble DEF PayloadTyped

(* A profile looked up                                                     *)

\* All names or none: they end as those of the SELECT.
LEMMA NamesAreColumns ==
    ASSUME NEW schema \in Schemas, Uniform(schema)
    PROVE  NamesOf(schema) = Columns
  <1> DEFINE named == Without(schema, {None})
  <1>0. /\ schema \in Seq(DOMAIN Lower \cup {None})
        /\ schema # << >> =>
              /\ Len(schema) = 3
              /\ \A i \in DOMAIN schema : schema[i] # None => Lower[schema[i]] = Columns[i]
    <2>1. CASE schema = << >>
      BY <2>1
    <2>2. CASE schema # << >>
      <3>1. Len(Columns) = 3
        BY DEF Columns
      <3> QED BY <2>2, <3>1, AnalyticsConstantsOK
    <2> QED BY <2>1, <2>2
  <1>1. CASE \A i \in DOMAIN schema : schema[i] = None
    <2>0. schema \in Seq({None})
      BY <1>0, <1>1
    <2>1. named \in Seq({None}) /\ \E pos : Places(pos, named, schema, Len(schema), {None})
      BY <2>0, FilterKeeps
    <2> HIDE DEF named
    <2>2. Len(named) = 0
      <3> SUFFICES ASSUME Len(named) # 0 PROVE FALSE
        OBVIOUS
      <3>1. 1 \in 1 .. Len(named)
        BY <2>1
      <3>2. named[1] \notin {None} /\ named[1] \in {None}
        BY <2>1, <3>1, ElementOfSeq DEF Places
      <3> QED BY <3>2
    <2>3. named = << >>
      BY <2>1, <2>2, EmptySeq
    <2> QED BY <2>3 DEF NamesOf, named
  <1>2. CASE \E i \in DOMAIN schema : schema[i] # None
    <2>1. /\ schema \in Seq(DOMAIN Lower) /\ Len(schema) = 3
          /\ \A i \in DOMAIN schema : Lower[schema[i]] = Columns[i]
          /\ None \notin DOMAIN Lower
      <3>1. schema # << >> /\ \A i \in DOMAIN schema : schema[i] # None
        BY <1>2 DEF Uniform
      <3> QED BY <1>0, <3>1, AnalyticsConstantsOK
    <2>2. \A k \in 1 .. Len(schema) : schema[k] \notin {None}
      BY <2>1, ElementOfSeq
    <2>3. named = schema
      BY <2>1, <2>2, FilterKeeps
    <2>4. schema # << >> /\ DOMAIN schema = 1 .. 3
      BY <2>1
    <2>5. NamesOf(schema) = [i \in DOMAIN schema |-> Lower[schema[i]]]
      BY <2>3, <2>4 DEF NamesOf
    <2>6. NamesOf(schema) = [i \in 1 .. 3 |-> Columns[i]]
      BY <2>1, <2>4, <2>5
    <2>7. Columns = [i \in 1 .. 3 |-> Columns[i]]
      BY DEF Columns
    <2> QED BY <2>6, <2>7
  <1> QED BY <1>1, <1>2

\* The columns of a row, taken by their names.
LEMMA ProfileOfCells ==
    ASSUME NEW id, NEW balance, NEW age
    PROVE  ToProfile(Columns, <<id, balance, age>>) =
             [id |-> id, balance |-> Num(balance), age |-> Age(age)]
  <1> DEFINE cells == <<id, balance, age>>
             at(name) == {i \in DOMAIN Columns : Columns[i] = name}
             cell(name) == IF at(name) = {} THEN None ELSE cells[CHOOSE i \in at(name) : TRUE]
  <1>1. at("customer_id") = {1} /\ at("total_balance") = {2} /\ at("age_years") = {3}
    <2>1. DOMAIN Columns = {1, 2, 3}
      BY DEF Columns
    <2> QED BY <2>1 DEF Columns
  <1>2. \A k : (CHOOSE i \in {k} : TRUE) = k /\ {k} # {}
    OBVIOUS
  <1>3. ToProfile(Columns, cells) =
          [id |-> cell("customer_id"), balance |-> Num(cell("total_balance")),
           age |-> Age(cell("age_years"))]
    BY DEF ToProfile
  <1> HIDE DEF at
  <1>4. /\ (CHOOSE i \in at("customer_id") : TRUE) = 1 /\ at("customer_id") # {}
        /\ (CHOOSE i \in at("total_balance") : TRUE) = 2 /\ at("total_balance") # {}
        /\ (CHOOSE i \in at("age_years") : TRUE) = 3 /\ at("age_years") # {}
    BY <1>1, <1>2
  <1>5. /\ cell("customer_id") = id /\ cell("total_balance") = balance
        /\ cell("age_years") = age
    <2>1. cells[1] = id /\ cells[2] = balance /\ cells[3] = age
      OBVIOUS
    <2>2. /\ cell("customer_id") = cells[1] /\ cell("total_balance") = cells[2]
          /\ cell("age_years") = cells[3]
      <3> HIDE DEF cells
      <3> QED BY <1>4, Zenon
    <2> HIDE DEF cell, cells
    <2> QED BY <2>1, <2>2
  <1> QED BY <1>3, <1>5

(* The machine                                                             *)

\* What the code keeps true of the tables, the queries and the payload: a query
\* that did not answer stands for nobody, and the payload is not assembled
\* before every query is over, so what it was assembled from stays as it is.
Typed ==
    /\ profiles \in Snapshot /\ writes \in 0 .. MaxWrites
    /\ table \in [Tables -> Snapshot] /\ seen \in [Tables -> Snapshot]
    /\ query \in [Tables -> {"none", "running", "ok", "failed"}]
QueriesInv ==
    /\ result = seen
    /\ \A t \in Tables : query[t] # "ok" => seen[t] = Nobody
    /\ query["summary"] = "none" => \A t \in Tables : query[t] = "none"
MockPayload == \E rs \in Snapshot : payload = [mode |-> "mock", of |-> Fold(rs)]
LivePayload ==
    /\ payload = [mode |-> "live", of |-> Assemble(seen)]
    /\ \A t \in Tables : query[t] \in {"ok", "failed"}
PayloadInv == payload = None \/ MockPayload \/ LivePayload
Inv == Typed /\ QueriesInv /\ PayloadInv /\ ProfileFaithful

LEMMA NobodyIsSnapshot == Nobody \in Snapshot
  BY DEF Nobody, Snapshot

LEMMA InitInv == Init => Inv
  <1> SUFFICES ASSUME Init PROVE Inv
    OBVIOUS
  <1> USE NobodyIsSnapshot
  <1>1. Typed
    <2>1. 0 \in 0 .. MaxWrites
      BY AnalyticsConstantsOK
    <2> QED BY <2>1, AnalyticsConstantsOK DEF Init, Typed
  <1>2. QueriesInv
    BY DEF Init, QueriesInv
  <1>3. PayloadInv /\ ProfileFaithful
    BY DEF Init, PayloadInv, ProfileFaithful
  <1> QED BY <1>1, <1>2, <1>3 DEF Inv

\* Every action keeps the invariant.
LEMMA Steps ==
    ASSUME Inv, Next
    PROVE  Inv'
  <1> USE DEF Inv
  <1>1. ASSUME NEW c \in Customers, NEW p \in Profiles \cup {None}, Write(c, p) PROVE Inv'
    <2> USE <1>1 DEF Write
    <2>1. Typed'
      <3>1. profiles' \in Snapshot
        BY DEF Typed, Snapshot
      <3>2. writes' \in 0 .. MaxWrites
        BY AnalyticsConstantsOK DEF Typed
      <3> QED BY <3>1, <3>2 DEF Typed
    <2>2. QueriesInv' /\ ProfileFaithful'
      BY DEF QueriesInv, ProfileFaithful
    <2>3. PayloadInv'
      BY DEF PayloadInv, MockPayload, LivePayload
    <2> QED BY <2>1, <2>2, <2>3
  <1>2. ASSUME NEW t \in Tables, Refresh(t) PROVE Inv'
    <2> USE <1>2 DEF Refresh
    <2>1. Typed'
      BY DEF Typed
    <2>2. QueriesInv' /\ ProfileFaithful'
      BY DEF QueriesInv, ProfileFaithful
    <2>3. PayloadInv'
      BY DEF PayloadInv, MockPayload, LivePayload
    <2> QED BY <2>1, <2>2, <2>3
  <1>3. ASSUME Mock PROVE Inv'
    <2> USE <1>3 DEF Mock
    <2>1. Typed'
      BY DEF Typed
    <2>2. QueriesInv' /\ ProfileFaithful'
      BY DEF QueriesInv, ProfileFaithful
    <2>3. PayloadInv'
      BY DEF PayloadInv, MockPayload, Typed
    <2> QED BY <2>1, <2>2, <2>3
  <1>4. ASSUME Live PROVE Inv'
    <2> USE <1>4 DEF Live
    <2>1. Typed'
      BY DEF Typed
    <2>2. QueriesInv'
      <3>1. "summary" \in Tables
        BY DEF Tables
      <3>2. \A t \in Tables : seen[t] = Nobody
        BY DEF Idle, QueriesInv
      <3> QED BY <3>1, <3>2 DEF QueriesInv
    <2>3. PayloadInv' /\ ProfileFaithful'
      BY DEF PayloadInv, Idle, ProfileFaithful
    <2> QED BY <2>1, <2>2, <2>3
  <1>5. ASSUME NEW t \in Tables, QueryOk(t) PROVE Inv'
    <2> USE <1>5 DEF QueryOk
    <2>1. Typed'
      BY DEF Typed
    <2>2. QueriesInv'
      <3>1. query["summary"] # "none"
        BY DEF QueriesInv
      <3>2. query'["summary"] # "none"
        BY <3>1 DEF Typed, Tables
      <3>3. result' = seen' /\ \A u \in Tables : query'[u] # "ok" => seen'[u] = Nobody
        BY DEF QueriesInv, Typed
      <3> QED BY <3>2, <3>3 DEF QueriesInv
    <2>3. PayloadInv' /\ ProfileFaithful'
      BY DEF PayloadInv, MockPayload, LivePayload, ProfileFaithful
    <2> QED BY <2>1, <2>2, <2>3
  <1>6. ASSUME NEW t \in Tables, QueryFail(t) PROVE Inv'
    <2> USE <1>6 DEF QueryFail, FailOne
    <2>1. Typed'
      BY DEF Typed
    <2>2. QueriesInv'
      <3>1. query["summary"] # "none"
        BY DEF QueriesInv
      <3>2. query'["summary"] # "none"
        BY <3>1 DEF Typed, Tables
      <3>3. result' = seen'
        <4>1. seen[t] = Nobody
          BY DEF QueriesInv
        <4> QED BY <4>1 DEF QueriesInv, Typed
      <3>4. \A u \in Tables : query'[u] # "ok" => seen'[u] = Nobody
        BY DEF QueriesInv, Typed
      <3> QED BY <3>2, <3>3, <3>4 DEF QueriesInv
    <2>3. PayloadInv' /\ ProfileFaithful'
      BY DEF PayloadInv, MockPayload, LivePayload, ProfileFaithful
    <2> QED BY <2>1, <2>2, <2>3
  <1>7. ASSUME Join PROVE Inv'
    <2> USE <1>7 DEF Join
    <2>1. Typed'
      BY DEF Typed
    <2>2. QueriesInv' /\ ProfileFaithful'
      BY DEF QueriesInv, ProfileFaithful
    <2>3. PayloadInv'
      BY DEF PayloadInv, LivePayload, QueriesInv
    <2> QED BY <2>1, <2>2, <2>3
  <1>8. ASSUME NEW c \in Customers, NEW schema \in Schemas, Found(c, schema) PROVE Inv'
    <2> USE <1>8 DEF Found
    <2>1. Typed'
      BY DEF Typed
    <2>2. QueriesInv' /\ PayloadInv'
      BY DEF QueriesInv, PayloadInv, MockPayload, LivePayload
    <2>3. ProfileFaithful'
      <3>1. Cells(c) = <<c, profiles[c].balance, profiles[c].age>>
        BY DEF Cells
      <3>2. profiles[c].age \in Nat \cup {None}
        BY Rows DEF Typed, Present, Profile
      <3>3. ASSUME Uniform(schema)
            PROVE  ToProfile(NamesOf(schema), Cells(c)) =
              [id |-> c, balance |-> Num(profiles[c].balance), age |-> profiles[c].age]
        BY <3>1, <3>2, <3>3, NamesAreColumns, ProfileOfCells DEF Age
      <3> QED BY <3>1, <3>3 DEF ProfileFaithful
    <2> QED BY <2>1, <2>2, <2>3
  <1>9. ASSUME NEW c \in Customers, NotFound(c) PROVE Inv'
    <2> USE <1>9 DEF NotFound
    <2>1. Typed'
      BY DEF Typed
    <2>2. QueriesInv' /\ PayloadInv'
      BY DEF QueriesInv, PayloadInv, MockPayload, LivePayload
    <2>3. ProfileFaithful'
      BY DEF ProfileFaithful
    <2> QED BY <2>1, <2>2, <2>3
  <1> QED BY <1>1, <1>2, <1>3, <1>4, <1>5, <1>6, <1>7, <1>8, <1>9 DEF Next

\* The inductive invariant holds of every run.
LEMMA Invariance == Spec => []Inv
  <1>1. Inv /\ UNCHANGED vars => Inv'
    BY DEF Inv, Typed, QueriesInv, PayloadInv, MockPayload, LivePayload, ProfileFaithful, vars
  <1>2. Inv /\ [Next]_vars => Inv'
    BY <1>1, Steps
  <1> QED BY <1>2, InitInv, PTL DEF Spec

\* The state of the dashboard has its type, and every payload the type that the
\* page expects of it, DataAnalytics (analytics/schemas.py), with every number a
\* number although the tables hold null.
THEOREM TypeCorrect == Spec => []TypeOK
  <1> SUFFICES ASSUME Inv PROVE TypeOK
    BY Invariance, PTL
  <1>1. payload # None => IsPayload(payload.of)
    <2>1. CASE MockPayload
      <3>1. PICK rs \in Snapshot : payload = [mode |-> "mock", of |-> Fold(rs)]
        BY <2>1 DEF MockPayload
      <3>2. payload.of = Fold(rs) /\ PayloadTyped(Fold(rs))
        BY <3>1, FoldTyped
      <3> QED BY <3>2, TypedPayload
    <2>2. CASE LivePayload
      <3>1. payload.of = Assemble(seen) /\ PayloadTyped(Assemble(seen))
        BY <2>2, AssembleTyped DEF LivePayload, Inv, Typed
      <3> QED BY <3>1, TypedPayload
    <2> QED BY <2>1, <2>2 DEF Inv, PayloadInv
  <1> QED BY <1>1 DEF TypeOK, Inv, Typed, QueriesInv

\* "so mock and live never silently diverge" (analytics/crm_aggregate.py): each
\* part of a live payload is what mock_aggregate makes of the profiles which the
\* table of that part stood for when it was read, or of nobody if its query
\* failed, whatever became of the other four.
THEOREM PayloadsAgree == Spec => []PartsAgree
  <1> SUFFICES ASSUME Inv PROVE PartsAgree
    BY Invariance, PTL
  <1> SUFFICES ASSUME payload # None, payload.mode = "live" PROVE
         /\ \A d \in Dims : payload.of.by[d] = Fold(seen[d]).by[d]
         /\ payload.of.balances = Fold(seen["segment"]).balances
         /\ \A part \in {"customers", "balance", "age", "quality"} :
               payload.of[part] = Fold(seen["summary"])[part]
    BY DEF PartsAgree
  <1>1. payload.of = Assemble(seen)
    BY DEF Inv, PayloadInv, MockPayload, LivePayload
  <1>2. seen \in [Tables -> Snapshot]
    BY DEF Inv, Typed
  <1>3. /\ \A d \in Dims : payload.of.by[d] = Fold(seen[d]).by[d]
        /\ payload.of.balances = Fold(seen["segment"]).balances
        /\ payload.of.customers = Fold(seen["summary"]).customers
        /\ payload.of.balance = Fold(seen["summary"]).balance
        /\ payload.of.age = Fold(seen["summary"]).age
        /\ payload.of.quality = Fold(seen["summary"]).quality
    BY <1>1, <1>2, PartsOfAssemble
  <1> QED BY <1>3

\* A customer's profile is the row of that customer, column by column, when the
\* API names all columns or none of them (LightningClient._rows, _to_profile).
THEOREM ProfilesFaithful == Spec => []ProfileFaithful
  BY Invariance, PTL DEF Inv

=============================================================================
