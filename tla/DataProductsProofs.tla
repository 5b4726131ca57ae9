------------------------- MODULE DataProductsProofs -------------------------
(***************************************************************************)
(* Proofs about the data products: their graphs for every manifest, and    *)
(* the answers of the live mode for collections of any number of pages     *)
(* that change and fail in any way.                                        *)
(***************************************************************************)
EXTENDS DataProducts, DataLemmas

(* The graphs                                                              *)

Project == DOMAIN manifest.model
Feeds == DOMAIN manifest.source
Visited == Project \ left
Visits(p) == {m \in Visited : ProductOf(m) = p}
TopicOf(s) == TopicId[manifest.source[s]]

\* Where a node of the graph of p comes from.
IsOwn(n, p) == \E m \in Visits(p) : n = StatementNode(m, FALSE)
IsSource(n) == \E s \in Feeds : n = SourceNode(s)
IsExternal(n, p) == \E d \in Project : ProductOf(d) # p /\ n = StatementNode(d, TRUE)
NodesExplained(p) == \A n \in nodes[p] : IsOwn(n, p) \/ IsSource(n) \/ IsExternal(n, p)

\* What the model m, visited, has left in the graph of its product.
NodesLeft(m, p) ==
    /\ StatementNode(m, FALSE) \in nodes[p]
    /\ \A s \in SourceDeps(m) : \E n \in nodes[p] : n.id = TopicOf(s)
    /\ \A d \in ForeignDeps(m) : \E n \in nodes[p] : n.id = ModelName(d)
EdgesLeft(m, p) ==
    /\ \A d \in OwnDeps(m) \cup ForeignDeps(m) : <<ModelName(d), ModelName(m)>> \in edges[p]
    /\ \A s \in SourceDeps(m) : <<TopicOf(s), ModelName(m)>> \in edges[p]

\* The model that has left the edge e.
EdgeExplained(e, p) ==
    \E m \in Visits(p) :
        \/ \E d \in OwnDeps(m) \cup ForeignDeps(m) : e = <<ModelName(d), ModelName(m)>>
        \/ \E s \in SourceDeps(m) : e = <<TopicOf(s), ModelName(m)>>

GraphTyped ==
    /\ manifest \in Manifests /\ left \subseteq Project
    /\ DOMAIN nodes = Products /\ DOMAIN edges = Products
GraphOf(p) ==
    /\ NodesExplained(p)
    /\ \A m \in Visits(p) : NodesLeft(m, p) /\ EdgesLeft(m, p)
    /\ \A e \in edges[p] : EdgeExplained(e, p)
GraphInv == GraphTyped /\ \A p \in Products : GraphOf(p)

\* What a manifest says of its models.
LEMMA ManifestFacts ==
    ASSUME GraphTyped
    PROVE  /\ \A m \in Project : /\ ProductOf(m) \in Products /\ ModelName(m) \in Names
                                 /\ m \in Models /\ m \notin Feeds
           /\ \A m, d \in Project : ModelName(m) = ModelName(d) => m = d
           /\ \A s \in Feeds : manifest.source[s] \in Names /\ TopicOf(s) \notin Names
           /\ Feeds \subseteq Sources
  <1>1. /\ DOMAIN manifest.model \subseteq Models
        /\ \A x \in DOMAIN manifest.model : manifest.model[x] \in Model
        /\ \A x, y \in DOMAIN manifest.model :
              manifest.model[x].name = manifest.model[y].name => x = y
        /\ DOMAIN manifest.source \subseteq Sources
        /\ \A s \in DOMAIN manifest.source : manifest.source[s] \in Names
    BY GraphConstantsOK DEF GraphTyped
  <1>2. \A m \in Project : ProductOf(m) \in Products /\ ModelName(m) \in Names
    BY <1>1 DEF Project, ProductOf, ModelName, Model
  <1>3. Models \cap Sources = {} /\ \A n \in Names : TopicId[n] \notin Names
    BY GraphConstantsOK
  <1> QED BY <1>1, <1>2, <1>3 DEF Project, Feeds, ModelName, TopicOf

\* dict.setdefault: nothing goes, and every candidate is there under its id.
LEMMA DefaultsAdded ==
    ASSUME NEW have, NEW candidates, NEW S \in AddDefaults(have, candidates)
    PROVE  /\ have \subseteq S /\ S \subseteq have \cup candidates
           /\ \A c \in candidates : \E n \in S : n.id = c.id
  BY DEF AddDefaults

\* The first visits.
LEMMA GraphInitInv == GraphInit => GraphInv
  <1> SUFFICES ASSUME GraphInit PROVE GraphInv
    OBVIOUS
  <1>1. GraphTyped /\ Visited = {}
    BY DEF GraphInit, GraphTyped, Visited, Project
  <1>2. ASSUME NEW p \in Products PROVE GraphOf(p)
    <2>1. Visits(p) = {} /\ nodes[p] = {} /\ edges[p] = {}
      BY <1>1 DEF GraphInit, Visits
    <2> QED BY <2>1 DEF GraphOf, NodesExplained
  <1> QED BY <1>1, <1>2 DEF GraphInv

\* A visit adds the node of m, those it depends on, and its edges.
LEMMA VisitAdds ==
    ASSUME GraphTyped, NEW m \in Models, Visit(m)
    PROVE  LET p == ProductOf(m) IN
           /\ manifest' = manifest /\ m \in left /\ m \in Project /\ left' = left \ {m}
           /\ GraphTyped' /\ p \in Products
           /\ \A q \in Products \ {p} : nodes'[q] = nodes[q] /\ edges'[q] = edges[q]
           /\ nodes[p] \subseteq nodes'[p] /\ StatementNode(m, FALSE) \in nodes'[p]
           /\ \A n \in nodes'[p] \ nodes[p] :
                 \/ n = StatementNode(m, FALSE)
                 \/ \E s \in SourceDeps(m) : n = SourceNode(s)
                 \/ \E d \in ForeignDeps(m) : n = StatementNode(d, TRUE)
           /\ \A s \in SourceDeps(m) : \E n \in nodes'[p] : n.id = SourceNode(s).id
           /\ \A d \in ForeignDeps(m) : \E n \in nodes'[p] : n.id = StatementNode(d, TRUE).id
           /\ edges'[p] = edges[p]
                \cup {<<ModelName(d), ModelName(m)>> : d \in OwnDeps(m) \cup ForeignDeps(m)}
                \cup {<<TopicOf(s), ModelName(m)>> : s \in SourceDeps(m)}
  <1> DEFINE p == ProductOf(m)
             sources == {n \in nodes[p] : n.type = "source"}
             externals == {n \in nodes[p] : n.type = "statement" /\ n.external}
             own == nodes[p] \ (sources \cup externals)
             cs == {SourceNode(s) : s \in SourceDeps(m)}
             cx == {StatementNode(d, TRUE) : d \in ForeignDeps(m)}
  <1>1. /\ manifest' = manifest /\ m \in left /\ left' = left \ {m}
    BY DEF Visit
  <1>2. m \in Project /\ p \in Products
    BY <1>1, ManifestFacts DEF GraphTyped
  <1>3. PICK S \in AddDefaults(sources, cs) : \E X \in AddDefaults(externals, cx) :
          nodes' = [nodes EXCEPT ![p] = own \cup {StatementNode(m, FALSE)} \cup S \cup X]
    BY DEF Visit
  <1>4. PICK X \in AddDefaults(externals, cx) :
          nodes' = [nodes EXCEPT ![p] = own \cup {StatementNode(m, FALSE)} \cup S \cup X]
    BY <1>3
  <1>5. /\ DOMAIN nodes' = Products
        /\ nodes'[p] = own \cup {StatementNode(m, FALSE)} \cup S \cup X
        /\ \A q \in Products \ {p} : nodes'[q] = nodes[q]
    BY <1>2, <1>4 DEF GraphTyped
  <1>8. nodes[p] \subseteq own \cup sources \cup externals
        /\ sources \subseteq nodes[p] /\ externals \subseteq nodes[p] /\ own \subseteq nodes[p]
    OBVIOUS
  <1>9. /\ DOMAIN edges' = Products
        /\ \A q \in Products \ {p} : edges'[q] = edges[q]
        /\ edges'[p] = edges[p]
                \cup {<<ModelName(d), ModelName(m)>> : d \in OwnDeps(m) \cup ForeignDeps(m)}
                \cup {<<TopicOf(s), ModelName(m)>> : s \in SourceDeps(m)}
    BY <1>2 DEF Visit, GraphTyped, TopicOf
  <1>10. GraphTyped'
    BY <1>1, <1>5, <1>9 DEF GraphTyped, Project
  <1>11. \A s \in SourceDeps(m) : SourceNode(s) \in cs
    OBVIOUS
  <1>12. \A d \in ForeignDeps(m) : StatementNode(d, TRUE) \in cx
    OBVIOUS
  <1>13. /\ \A n \in cs : \E s \in SourceDeps(m) : n = SourceNode(s)
         /\ \A n \in cx : \E d \in ForeignDeps(m) : n = StatementNode(d, TRUE)
    OBVIOUS
  <1> HIDE DEF sources, externals, own, cs, cx
  <1>6. /\ sources \subseteq S /\ S \subseteq sources \cup cs
        /\ \A c \in cs : \E n \in S : n.id = c.id
    BY DefaultsAdded
  <1>7. /\ externals \subseteq X /\ X \subseteq externals \cup cx
        /\ \A c \in cx : \E n \in X : n.id = c.id
    BY DefaultsAdded
  <1>14. /\ nodes[p] \subseteq nodes'[p] /\ StatementNode(m, FALSE) \in nodes'[p]
         /\ \A n \in nodes'[p] \ nodes[p] :
               n = StatementNode(m, FALSE) \/ n \in cs \/ n \in cx
    BY <1>5, <1>6, <1>7, <1>8
  <1>15. \A s \in SourceDeps(m) : \E n \in nodes'[p] : n.id = SourceNode(s).id
    BY <1>5, <1>6, <1>11
  <1>16. \A d \in ForeignDeps(m) : \E n \in nodes'[p] : n.id = StatementNode(d, TRUE).id
    BY <1>5, <1>7, <1>12
  <1> QED BY <1>1, <1>2, <1>5, <1>9, <1>10, <1>13, <1>14, <1>15, <1>16

\* What was so before a step that keeps the manifest.
LEMMA NodesStay ==
    ASSUME UNCHANGED manifest, NEW m \in Project, NEW p,
           NodesLeft(m, p), nodes[p] \subseteq nodes'[p]
    PROVE  NodesLeft(m, p)'
  <1>1. StatementNode(m, FALSE)' = StatementNode(m, FALSE)
    BY DEF StatementNode, ModelName, Pool
  <1>2. SourceDeps(m)' = SourceDeps(m) /\ ForeignDeps(m)' = ForeignDeps(m)
    BY DEF SourceDeps, ForeignDeps, DependsOn, ProductOf
  <1>3. \A s \in SourceDeps(m) : \E n \in nodes'[p] : n.id = TopicOf(s)'
    BY DEF NodesLeft, TopicOf
  <1>4. \A d \in ForeignDeps(m) : \E n \in nodes'[p] : n.id = ModelName(d)'
    BY DEF NodesLeft, ModelName
  <1> QED BY <1>1, <1>2, <1>3, <1>4 DEF NodesLeft

LEMMA EdgesStay ==
    ASSUME UNCHANGED manifest, NEW m \in Project, NEW p,
           EdgesLeft(m, p), edges[p] \subseteq edges'[p]
    PROVE  EdgesLeft(m, p)'
  <1>1. /\ SourceDeps(m)' = SourceDeps(m) /\ ForeignDeps(m)' = ForeignDeps(m)
        /\ OwnDeps(m)' = OwnDeps(m)
    BY DEF SourceDeps, ForeignDeps, OwnDeps, DependsOn, ProductOf
  <1>2. \A d \in OwnDeps(m) \cup ForeignDeps(m) :
            <<ModelName(d)', ModelName(m)'>> \in edges'[p]
    BY DEF EdgesLeft, ModelName
  <1>3. \A s \in SourceDeps(m) : <<TopicOf(s)', ModelName(m)'>> \in edges'[p]
    BY DEF EdgesLeft, TopicOf, ModelName
  <1> QED BY <1>1, <1>2, <1>3 DEF EdgesLeft

LEMMA ExplainedStays ==
    ASSUME UNCHANGED manifest, NEW p, Visits(p) \subseteq Visits(p)'
    PROVE  /\ \A n : IsOwn(n, p) => IsOwn(n, p)'
           /\ \A n : IsSource(n) => IsSource(n)'
           /\ \A n : IsExternal(n, p) => IsExternal(n, p)'
           /\ \A e : EdgeExplained(e, p) => EdgeExplained(e, p)'
  <1>1. ASSUME NEW n, IsOwn(n, p) PROVE IsOwn(n, p)'
    BY <1>1 DEF IsOwn, StatementNode, ModelName, Pool
  <1>2. ASSUME NEW n, IsSource(n) PROVE IsSource(n)'
    BY <1>2 DEF IsSource, SourceNode, Feeds
  <1>3. ASSUME NEW n, IsExternal(n, p) PROVE IsExternal(n, p)'
    BY <1>3 DEF IsExternal, StatementNode, ModelName, Pool, ProductOf, Project
  <1>4. ASSUME NEW e, EdgeExplained(e, p) PROVE EdgeExplained(e, p)'
    <2>1. PICK m \in Visits(p) :
            \/ \E d \in OwnDeps(m) \cup ForeignDeps(m) : e = <<ModelName(d), ModelName(m)>>
            \/ \E s \in SourceDeps(m) : e = <<TopicOf(s), ModelName(m)>>
      BY <1>4 DEF EdgeExplained
    <2>2. /\ SourceDeps(m)' = SourceDeps(m) /\ ForeignDeps(m)' = ForeignDeps(m)
          /\ OwnDeps(m)' = OwnDeps(m) /\ ModelName(m)' = ModelName(m)
      BY DEF SourceDeps, ForeignDeps, OwnDeps, DependsOn, ProductOf, ModelName
    <2>3. \/ \E d \in OwnDeps(m) \cup ForeignDeps(m) : e = <<ModelName(d)', ModelName(m)'>>
          \/ \E s \in SourceDeps(m) : e = <<TopicOf(s)', ModelName(m)'>>
      BY <2>1, <2>2 DEF ModelName, TopicOf
    <2> QED BY <2>2, <2>3 DEF EdgeExplained
  <1> QED BY <1>1, <1>2, <1>3, <1>4

LEMMA VisitInv == ASSUME GraphInv, NEW m \in Models, Visit(m) PROVE GraphInv'
  <1> SUFFICES ASSUME NEW p, p = ProductOf(m) PROVE GraphInv'
    OBVIOUS
  <1>1. GraphTyped
    BY DEF GraphInv
  <1>2. /\ manifest' = manifest /\ m \in left /\ m \in Project /\ left' = left \ {m}
        /\ GraphTyped' /\ p \in Products
        /\ \A q \in Products \ {p} : nodes'[q] = nodes[q] /\ edges'[q] = edges[q]
        /\ nodes[p] \subseteq nodes'[p] /\ StatementNode(m, FALSE) \in nodes'[p]
    BY <1>1, VisitAdds
  <1>3. /\ \A n \in nodes'[p] \ nodes[p] :
              \/ n = StatementNode(m, FALSE)
              \/ \E s \in SourceDeps(m) : n = SourceNode(s)
              \/ \E d \in ForeignDeps(m) : n = StatementNode(d, TRUE)
        /\ \A s \in SourceDeps(m) : \E n \in nodes'[p] : n.id = SourceNode(s).id
        /\ \A d \in ForeignDeps(m) : \E n \in nodes'[p] : n.id = StatementNode(d, TRUE).id
    BY <1>1, VisitAdds
  <1>4. edges'[p] = edges[p]
             \cup {<<ModelName(d), ModelName(m)>> : d \in OwnDeps(m) \cup ForeignDeps(m)}
             \cup {<<TopicOf(s), ModelName(m)>> : s \in SourceDeps(m)}
    BY <1>1, VisitAdds
  <1>5. /\ Project' = Project /\ \A d \in Project : ProductOf(d)' = ProductOf(d)
        /\ \A q : Visits(q) \subseteq Project
    BY <1>2 DEF Project, ProductOf, Visits, Visited
  <1>6. /\ \A q \in Products \ {p} : Visits(q)' = Visits(q)
        /\ Visits(p)' = Visits(p) \cup {m}
    BY <1>2 DEF Visits, Visited, Project, ProductOf
  <1>7. \A q \in Products : Visits(q) \subseteq Visits(q)'
    BY <1>6
  <1>8. /\ StatementNode(m, FALSE)' = StatementNode(m, FALSE)
        /\ SourceDeps(m)' = SourceDeps(m) /\ ForeignDeps(m)' = ForeignDeps(m)
        /\ OwnDeps(m)' = OwnDeps(m) /\ ModelName(m)' = ModelName(m)
    BY <1>2 DEF StatementNode, Pool, SourceDeps, ForeignDeps, OwnDeps, DependsOn, ProductOf,
                ModelName
  <1>9. ASSUME NEW q \in Products, NEW n \in nodes[q]
        PROVE  IsOwn(n, q)' \/ IsSource(n)' \/ IsExternal(n, q)'
    <2>1. IsOwn(n, q) \/ IsSource(n) \/ IsExternal(n, q)
      BY <1>9 DEF GraphInv, GraphOf, NodesExplained
    <2> QED BY <2>1, <1>2, <1>7, ExplainedStays
  <1>10. ASSUME NEW q \in Products, NEW d \in Visits(q),
                nodes[q] \subseteq nodes'[q], edges[q] \subseteq edges'[q]
         PROVE  NodesLeft(d, q)' /\ EdgesLeft(d, q)'
    <2>1. NodesLeft(d, q) /\ EdgesLeft(d, q) /\ d \in Project
      BY <1>5, <1>10 DEF GraphInv, GraphOf
    <2> QED BY <2>1, <1>2, <1>10, NodesStay, EdgesStay
  <1>11. ASSUME NEW q \in Products, NEW e \in edges[q] PROVE EdgeExplained(e, q)'
    <2>1. EdgeExplained(e, q)
      BY <1>11 DEF GraphInv, GraphOf
    <2> QED BY <2>1, <1>2, <1>7, ExplainedStays
  <1>12. ASSUME NEW q \in Products, q # p PROVE GraphOf(q)'
    <2>1. nodes'[q] = nodes[q] /\ edges'[q] = edges[q] /\ Visits(q)' = Visits(q)
      BY <1>2, <1>6, <1>12
    <2>2. NodesExplained(q)'
      BY <2>1, <1>9 DEF NodesExplained
    <2>3. \A d \in Visits(q)' : NodesLeft(d, q)' /\ EdgesLeft(d, q)'
      BY <2>1, <1>10
    <2>4. \A e \in edges'[q] : EdgeExplained(e, q)'
      BY <2>1, <1>11
    <2> QED BY <2>2, <2>3, <2>4 DEF GraphOf
  <1>13. \A n \in nodes'[p] \ nodes[p] : IsOwn(n, p)' \/ IsSource(n)' \/ IsExternal(n, p)'
    <2> SUFFICES ASSUME NEW n \in nodes'[p] \ nodes[p]
                 PROVE  IsOwn(n, p)' \/ IsSource(n)' \/ IsExternal(n, p)'
      OBVIOUS
    <2>1. CASE n = StatementNode(m, FALSE)
      <3>1. m \in Visits(p)' /\ n = StatementNode(m, FALSE)'
        BY <2>1, <1>6, <1>8
      <3> QED BY <3>1 DEF IsOwn
    <2>2. CASE \E s \in SourceDeps(m) : n = SourceNode(s)
      BY <2>2, <1>2 DEF SourceDeps, IsSource, SourceNode, Feeds
    <2>3. CASE \E d \in ForeignDeps(m) : n = StatementNode(d, TRUE)
      <3>1. PICK d \in ForeignDeps(m) : n = StatementNode(d, TRUE)
        BY <2>3
      <3>2. d \in Project /\ ProductOf(d) # p
        BY DEF ForeignDeps, Project
      <3>3. IsExternal(n, p)
        BY <3>1, <3>2 DEF IsExternal
      <3> QED BY <3>3, <1>2, <1>7, ExplainedStays
    <2> QED BY <2>1, <2>2, <2>3, <1>3
  <1>14. NodesLeft(m, p)
         \/ (/\ \A s \in SourceDeps(m)' : \E n \in nodes'[p] : n.id = TopicOf(s)'
             /\ \A d \in ForeignDeps(m)' : \E n \in nodes'[p] : n.id = ModelName(d)')
    <2>1. \A s \in SourceDeps(m) : \E n \in nodes'[p] : n.id = TopicOf(s)'
      BY <1>2, <1>3 DEF SourceNode, TopicOf
    <2>2. \A d \in ForeignDeps(m) : \E n \in nodes'[p] : n.id = ModelName(d)'
      BY <1>2, <1>3 DEF StatementNode, ModelName
    <2> QED BY <2>1, <2>2, <1>8
  <1>15. NodesLeft(m, p)'
    <2>1. CASE NodesLeft(m, p)
      BY <2>1, <1>2, NodesStay
    <2> QED BY <2>1, <1>2, <1>8, <1>14 DEF NodesLeft
  <1>16. EdgesLeft(m, p)'
    <2>1. \A d \in OwnDeps(m) \cup ForeignDeps(m) :
             <<ModelName(d)', ModelName(m)'>> \in edges'[p]
      BY <1>2, <1>4 DEF ModelName
    <2>2. \A s \in SourceDeps(m) : <<TopicOf(s)', ModelName(m)'>> \in edges'[p]
      BY <1>2, <1>4, <1>8 DEF TopicOf
    <2> QED BY <2>1, <2>2, <1>8 DEF EdgesLeft
  <1>17. ASSUME NEW e \in edges'[p] \ edges[p] PROVE EdgeExplained(e, p)'
    <2>1. \/ \E d \in OwnDeps(m) \cup ForeignDeps(m) : e = <<ModelName(d), ModelName(m)>>
          \/ \E s \in SourceDeps(m) : e = <<TopicOf(s), ModelName(m)>>
      BY <1>4, <1>17
    <2>2. \/ \E d \in OwnDeps(m)' \cup ForeignDeps(m)' : e = <<ModelName(d)', ModelName(m)'>>
          \/ \E s \in SourceDeps(m)' : e = <<TopicOf(s)', ModelName(m)'>>
      BY <2>1, <1>2, <1>8 DEF ModelName, TopicOf
    <2> QED BY <2>2, <1>6 DEF EdgeExplained
  <1>18. GraphOf(p)'
    <2>1. edges[p] \subseteq edges'[p]
      BY <1>4
    <2>2. \A n \in nodes'[p] : IsOwn(n, p)' \/ IsSource(n)' \/ IsExternal(n, p)'
      BY <1>2, <1>9, <1>13
    <2>3. \A d \in Visits(p)' : NodesLeft(d, p)' /\ EdgesLeft(d, p)'
      BY <2>1, <1>2, <1>6, <1>10, <1>15, <1>16
    <2>4. \A e \in edges'[p] : EdgeExplained(e, p)'
      BY <1>2, <1>11, <1>17
    <2> QED BY <2>2, <2>3, <2>4 DEF GraphOf, NodesExplained
  <1> QED BY <1>2, <1>12, <1>18 DEF GraphInv

\* The graphs are as the manifest says in every reachable state.
LEMMA GraphStep == GraphInv /\ [Next]_vars => GraphInv'
  <1> SUFFICES ASSUME GraphInv, [Next]_vars PROVE GraphInv'
    OBVIOUS
  <1>1. ASSUME NEW m \in Models, Visit(m) PROVE GraphInv'
    BY <1>1, VisitInv
  <1>2. CASE UNCHANGED graphVars
    <2>1. manifest' = manifest /\ left' = left /\ nodes' = nodes /\ edges' = edges
      BY <1>2 DEF graphVars
    <2>2. GraphTyped'
      BY <2>1 DEF GraphInv, GraphTyped, Project
    <2>3. ASSUME NEW p \in Products PROVE GraphOf(p)'
      <3>1. GraphOf(p) /\ Visits(p)' = Visits(p) /\ Visits(p) \subseteq Project
        BY <2>1 DEF GraphInv, Visits, Visited, Project, ProductOf
      <3>2. \A n \in nodes'[p] : IsOwn(n, p)' \/ IsSource(n)' \/ IsExternal(n, p)'
        BY <2>1, <3>1, ExplainedStays DEF GraphOf, NodesExplained
      <3>3. \A m \in Visits(p)' : NodesLeft(m, p)' /\ EdgesLeft(m, p)'
        BY <2>1, <3>1, NodesStay, EdgesStay DEF GraphOf
      <3>4. \A e \in edges'[p] : EdgeExplained(e, p)'
        BY <2>1, <3>1, ExplainedStays DEF GraphOf
      <3> QED BY <3>2, <3>3, <3>4 DEF GraphOf, NodesExplained
    <2> QED BY <2>2, <2>3 DEF GraphInv
  <1>3. CASE UNCHANGED vars
    BY <1>2, <1>3 DEF vars
  <1> QED BY <1>1, <1>2, <1>3 DEF Next, Serve, Change, Answered

LEMMA GraphAlways == Spec => []GraphInv
  <1>1. Init => GraphInv
    BY GraphInitInv DEF Init
  <1> QED BY <1>1, GraphStep, PTL DEF Spec

LEMMA NodeIds ==
    /\ \A m, external : StatementNode(m, external).id = ModelName(m)
    /\ \A s : SourceNode(s).id = TopicOf(s)
    /\ \A s, r : TopicOf(s) = TopicOf(r) => SourceNode(s) = SourceNode(r)
  BY DEF StatementNode, SourceNode, TopicOf

\* In a finished graph every dependency is an edge between nodes of the graph,
\* and an id names one node.
LEMMA CompleteNow == GraphInv => GraphsComplete
  <1> SUFFICES ASSUME GraphInv, Built, NEW p \in Products
               PROVE
        /\ \A e \in edges[p] : \A i \in 1..2 : \E n \in nodes[p] : n.id = e[i]
        /\ \A n, k \in nodes[p] : n.id = k.id => n = k
        /\ \A m \in DOMAIN manifest.model :
              ProductOf(m) = p =>
                \A d \in DependsOn(m) \cap (DOMAIN manifest.model \cup DOMAIN manifest.source) :
                    \E e \in edges[p] : e[2] = ModelName(m)
                        /\ e[1] = IF d \in Models THEN ModelName(d)
                                  ELSE TopicId[manifest.source[d]]
    BY DEF GraphsComplete
  <1>1. GraphTyped /\ GraphOf(p) /\ Visited = Project
    BY DEF GraphInv, Visited, Built
  <1>2. \A m \in Project : ProductOf(m) = p =>
           /\ StatementNode(m, FALSE) \in nodes[p] /\ NodesLeft(m, p) /\ EdgesLeft(m, p)
    BY <1>1 DEF GraphOf, Visits, NodesLeft
  <1>3. ASSUME NEW e \in edges[p], NEW i \in 1..2 PROVE \E n \in nodes[p] : n.id = e[i]
    <2>1. PICK m \in Visits(p) :
            \/ \E d \in OwnDeps(m) \cup ForeignDeps(m) : e = <<ModelName(d), ModelName(m)>>
            \/ \E s \in SourceDeps(m) : e = <<TopicOf(s), ModelName(m)>>
      BY <1>1 DEF GraphOf, EdgeExplained
    <2>2. m \in Project /\ ProductOf(m) = p
      BY DEF Visits, Visited
    <2>3. \A d \in Project : StatementNode(d, FALSE).id = ModelName(d)
      BY NodeIds
    <2>4. CASE i = 2
      <3>1. e[2] = ModelName(m)
        BY <2>1
      <3> QED BY <2>2, <2>3, <2>4, <3>1, <1>2
    <2>5. CASE i = 1
      <3>1. CASE \E d \in OwnDeps(m) : e[1] = ModelName(d)
        <4>1. \A d \in OwnDeps(m) : d \in Project /\ ProductOf(d) = p
          BY <2>2 DEF OwnDeps, Project
        <4> QED BY <3>1, <4>1, <2>3, <2>5, <1>2
      <3>2. CASE \E d \in ForeignDeps(m) : e[1] = ModelName(d)
        BY <3>2, <2>2, <2>5, <1>2 DEF NodesLeft
      <3>3. CASE \E s \in SourceDeps(m) : e[1] = TopicOf(s)
        BY <3>3, <2>2, <2>5, <1>2 DEF NodesLeft
      <3> QED BY <2>1, <3>1, <3>2, <3>3
    <2> QED BY <2>4, <2>5
  <1>4. ASSUME NEW n \in nodes[p], NEW k \in nodes[p], n.id = k.id PROVE n = k
    <2>1. /\ IsOwn(n, p) \/ IsSource(n) \/ IsExternal(n, p)
          /\ IsOwn(k, p) \/ IsSource(k) \/ IsExternal(k, p)
      BY <1>1 DEF GraphOf, NodesExplained
    <2>2. \A x : IsOwn(x, p) => \E m \in Project :
             ProductOf(m) = p /\ x = StatementNode(m, FALSE) /\ x.id = ModelName(m)
      BY NodeIds DEF IsOwn, Visits, Visited
    <2>3. \A x : IsExternal(x, p) => \E m \in Project :
             ProductOf(m) # p /\ x = StatementNode(m, TRUE) /\ x.id = ModelName(m)
      BY NodeIds DEF IsExternal
    <2>4. \A x : IsSource(x) => \E s \in Feeds : x = SourceNode(s) /\ x.id = TopicOf(s)
      BY NodeIds DEF IsSource
    <2>5. /\ \A m \in Project : ModelName(m) \in Names
          /\ \A m, d \in Project : ModelName(m) = ModelName(d) => m = d
          /\ \A s \in Feeds : TopicOf(s) \notin Names
      BY <1>1, ManifestFacts
    <2>6. CASE IsSource(n)
      <3>1. PICK s \in Feeds : n = SourceNode(s) /\ n.id = TopicOf(s)
        BY <2>4, <2>6
      <3>2. IsSource(k)
        <4>1. k.id \notin Names
          BY <1>4, <2>5, <3>1
        <4>2. ~IsOwn(k, p)
          BY <4>1, <2>2, <2>5
        <4>3. ~IsExternal(k, p)
          BY <4>1, <2>3, <2>5
        <4> QED BY <4>2, <4>3, <2>1
      <3>3. PICK r \in Feeds : k = SourceNode(r) /\ k.id = TopicOf(r)
        BY <2>4, <3>2
      <3> QED BY <1>4, <3>1, <3>3, NodeIds
    <2>7. CASE IsOwn(n, p)
      <3>1. PICK m \in Project : ProductOf(m) = p /\ n = StatementNode(m, FALSE) /\ n.id = ModelName(m)
        BY <2>2, <2>7
      <3>2. IsOwn(k, p)
        <4>1. k.id \in Names /\ k.id = ModelName(m)
          BY <1>4, <2>5, <3>1
        <4>2. ~IsSource(k)
          BY <4>1, <2>4, <2>5
        <4>3. ~IsExternal(k, p)
          BY <4>1, <2>3, <2>5, <3>1
        <4> QED BY <4>2, <4>3, <2>1
      <3> QED BY <1>4, <2>2, <2>5, <3>1, <3>2
    <2>8. CASE IsExternal(n, p)
      <3>1. PICK m \in Project : ProductOf(m) # p /\ n = StatementNode(m, TRUE) /\ n.id = ModelName(m)
        BY <2>3, <2>8
      <3>2. IsExternal(k, p)
        <4>1. k.id \in Names /\ k.id = ModelName(m)
          BY <1>4, <2>5, <3>1
        <4>2. ~IsSource(k)
          BY <4>1, <2>4, <2>5
        <4>3. ~IsOwn(k, p)
          BY <4>1, <2>2, <2>5, <3>1
        <4> QED BY <4>2, <4>3, <2>1
      <3> QED BY <1>4, <2>3, <2>5, <3>1, <3>2
    <2> QED BY <2>1, <2>6, <2>7, <2>8
  <1>5. ASSUME NEW m \in Project, ProductOf(m) = p,
               NEW d \in DependsOn(m) \cap (Project \cup Feeds)
        PROVE  \E e \in edges[p] : e[2] = ModelName(m)
                   /\ e[1] = IF d \in Models THEN ModelName(d) ELSE TopicOf(d)
    <2>1. EdgesLeft(m, p)
      BY <1>2, <1>5
    <2>2. CASE d \in Project
      <3>1. d \in OwnDeps(m) \cup ForeignDeps(m) /\ d \in Models
        BY <1>1, <1>5, <2>2, ManifestFacts DEF OwnDeps, ForeignDeps, Project
      <3> QED BY <2>1, <3>1 DEF EdgesLeft
    <2>3. CASE d \in Feeds
      <3>1. d \in SourceDeps(m) /\ d \notin Models
        BY <1>1, <1>5, <2>3, ManifestFacts, GraphConstantsOK DEF SourceDeps, Feeds
      <3> QED BY <2>1, <3>1 DEF EdgesLeft
    <2> QED BY <1>5, <2>2, <2>3
  <1> QED BY <1>3, <1>4, <1>5 DEF Project, Feeds, TopicOf

\* The pools that a product is charged for are those of its own models.
LEMMA ChargedNow == GraphInv => PoolsChargedToOwner
  <1> SUFFICES ASSUME GraphInv, Built, NEW p \in Products
               PROVE  OwnedPools(p) = {IF manifest.model[m].pool = None THEN DefaultPool
                         ELSE manifest.model[m].pool :
                            m \in {x \in DOMAIN manifest.model : ProductOf(x) = p}} \ {None}
    BY DEF PoolsChargedToOwner
  <1> DEFINE charged == {k \in nodes[p] : k.type = "statement" /\ ~k.external}
  <1>1. GraphOf(p) /\ Visited = Project
    BY DEF GraphInv, Visited, Built
  <1>2. \A m \in Project : Pool(m) = IF manifest.model[m].pool = None THEN DefaultPool
                                     ELSE manifest.model[m].pool
    BY DEF Pool
  <1>3. ASSUME NEW n \in charged
        PROVE  \E m \in Project : ProductOf(m) = p /\ n.pool = Pool(m)
    <2>1. ~IsSource(n)
      BY DEF IsSource, SourceNode
    <2>2. ~IsExternal(n, p)
      BY DEF IsExternal, StatementNode
    <2>3. IsOwn(n, p)
      BY <2>1, <2>2, <1>1 DEF GraphOf, NodesExplained
    <2> QED BY <2>3 DEF IsOwn, Visits, Visited, StatementNode
  <1>4. ASSUME NEW m \in Project, ProductOf(m) = p
        PROVE  \E n \in charged : n.pool = Pool(m)
    <2>1. StatementNode(m, FALSE) \in nodes[p]
      BY <1>1, <1>4 DEF GraphOf, Visits, NodesLeft
    <2>2. /\ StatementNode(m, FALSE).type = "statement" /\ ~StatementNode(m, FALSE).external
          /\ StatementNode(m, FALSE).pool = Pool(m)
      BY DEF StatementNode
    <2> QED BY <2>1, <2>2
  <1> HIDE DEF charged
  <1>5. OwnedPools(p) = {n.pool : n \in charged} \ {None}
    BY DEF OwnedPools, charged
  <1> QED BY <1>2, <1>3, <1>4, <1>5 DEF Project
-----------------------------------------------------------------------------
(* The requests                                                            *)

Steps == [kind \in {"status", "metrics", "cost"} |->
            CASE kind = "status" -> {"statements", "tables", "status"}
              [] kind = "metrics" -> {"find", "statements", "tables", "route", "query",
                                      "details", "metrics"}
              [] kind = "cost" -> {"pools", "bill", "cost"}]

\* A request begins with nothing read, when the graphs are built, and goes
\* through the steps of its kind.
Flow ==
    /\ pc = "idle" => raw = {} /\ dropped = {} /\ broken = {}
    /\ pc \in {"idle", "find"} => page = 1 /\ read = 0
    /\ pc # "idle" => /\ left = {} /\ request.product \in Products
                      /\ request.kind \in {"status", "metrics", "cost"}
    /\ pc \notin {"idle", "404", "done"} =>
          pc \in IF mode = "live" THEN Steps[request.kind] ELSE {"mock"}

\* What a collection holds is among what it has held, and so is what was read.
Entries(l) == \A x \in Listed :
    /\ cloud[l][x] \in held[l][x] /\ IsFiniteSet(held[l][x])
    /\ got[l][x] \in held[l][x] \cup {None}
    /\ \A e \in held[l][x] : e # None => ListedIn(l, x)
Collections ==
    /\ DOMAIN got = Lists /\ DOMAIN cloud = Cloud /\ DOMAIN held = Cloud
    /\ \A l \in Lists : DOMAIN got[l] = Listed
    /\ \A l \in Cloud : DOMAIN held[l] = Listed /\ DOMAIN cloud[l] = Listed
    /\ pc = "idle" => \A l \in Cloud, x \in Listed : got[l][x] = None
    /\ pc # "idle" => \A l \in Cloud : Entries(l)

\* An entry without a phase says no more than no entry: what was read of x says
\* what an entry of x has said.
Said(e) == IF e = None THEN None ELSE e.phase
Heard(l, x) == \E e \in held[l][x] : Said(got[l][x]) = Said(e)

\* While a collection is read: the pages up to `read` have been, the others are
\* to come unless the cursor has led back.
Reading(l) ==
    /\ page \in 1..Pages[l] /\ read \in Nat
    /\ IF read < Pages[l] THEN page = read + 1 ELSE l \in Cyclic
    /\ l \notin broken => \A x \in Listed :
          PageOf[x] <= read /\ PageOf[x] <= Pages[l] => Heard(l, x)

\* Once it has been read: what all that is listed under the cap says is known.
Done(l) ==
    l \notin broken => \A x \in Listed : PageOf[x] <= MaxPages => Heard(l, x)

Lookups ==
    /\ \A l \in Cloud : pc = l => Reading(l)
    /\ mode = "live" /\ request.kind = "status" =>
          /\ pc \in {"tables", "status"} => Done("statements")
          /\ pc = "status" => Done("tables")
          /\ pc = "done" => StatusFaithful

\* While metrics are queried: each has a value, was dropped, or is to come.
Apart(q) == \A i, j \in DOMAIN q : q[i] = q[j] => i = j
Accounted == dropped = Metrics \/ Range(Queries(Asked)) \subseteq raw \cup dropped
Querying ==
    /\ todo \in Seq(Metrics) /\ todo # << >> /\ Apart(todo)
    /\ Range(todo) \cap (raw \cup dropped) = {}
    /\ Range(Queries(Asked)) \subseteq raw \cup dropped \cup Range(todo)
Measures ==
    /\ dropped \subseteq Metrics /\ raw \cap dropped = {}
    /\ mode = "live" /\ request.kind = "metrics" =>
          /\ pc \in Steps["metrics"] \ {"find"} => Asked.type = "statement"
          /\ pc \in {"find", "statements", "tables", "route"} => raw = {} /\ dropped = {}
          /\ pc = "query" => Querying
          /\ pc \in {"details", "metrics"} => Accounted
          /\ pc = "done" => MetricsIsolated

RequestInv == Flow /\ Collections /\ Lookups /\ Measures

LEMMA RequestInit == Init => RequestInv
  <1> SUFFICES ASSUME Init PROVE RequestInv
    OBVIOUS
  <1>1. Flow
    BY DEF Init, Flow
  <1>2. Collections
    BY DEF Init, Collections, Nothing, Lists, Cloud
  <1>3. Lookups /\ Measures
    BY DEF Init, Lookups, Measures, Cloud, Steps
  <1> QED BY <1>1, <1>2, <1>3 DEF RequestInv

\* One page of a collection, or its end.
LEMMA ListStep ==
    ASSUME Collections, NEW l \in Cloud, pc = l, Reading(l), NEW next, next # l,
           next # "idle", List(l, next), UNCHANGED cloud
    PROVE  /\ Collections'
           /\ pc' = l => Reading(l)'
           /\ pc' # l => pc' = next /\ page' = 1 /\ read' = 0 /\ Done(l)'
           /\ pc' \in {l, next}
           /\ \A k \in Lists \ {l} : got'[k] = got[k] /\ (k \in broken' <=> k \in broken)
           /\ held' = held
  <1> USE DEF Cloud
  <1>1. /\ Of(l) = l /\ l # "details" /\ l \in Lists /\ pc # "idle" /\ held' = held
        /\ cloud' = cloud
    BY DEF Of, Lists, List
  <1>2. Entries(l) /\ DOMAIN got[l] = Listed /\ DOMAIN got = Lists
    BY <1>1 DEF Collections
  <1>3. /\ Pages[l] \in Nat /\ MaxPages \in Nat /\ \A x \in Listed : PageOf[x] \in Nat \ {0}
        /\ page \in Nat /\ read \in Nat
    BY <1>1, RequestConstantsOK DEF Reading
  <1>4. /\ \A k \in Lists \ {l} : got'[k] = got[k] /\ (k \in broken' <=> k \in broken)
        /\ DOMAIN got' = Lists /\ DOMAIN got'[l] = Listed
    BY <1>1, <1>2 DEF List, GetPage, PageGot
  <1>5. ASSUME GetPage(l, next)
        PROVE  /\ \A x \in Listed : got'[l][x] = IF PageOf[x] = page /\ Kept(l, cloud[l][x])
                                               THEN cloud[l][x] ELSE got[l][x]
               /\ broken' = broken
    BY <1>1, <1>2, <1>5 DEF GetPage, PageGot
  <1>6. \A x \in Listed : got'[l][x] \in held[l][x] \cup {None}
    <2>1. CASE GetPage(l, next)
      BY <1>2, <1>5, <2>1 DEF Entries
    <2>2. CASE ~GetPage(l, next)
      <3>1. got'[l] = [n \in Listed |-> None] \/ got' = got
        BY <1>1, <1>2, <2>2 DEF List
      <3> QED BY <1>2, <3>1 DEF Entries
    <2> QED BY <2>1, <2>2
  <1>7. pc' \in {l, next} /\ (pc' # l => page' = 1 /\ read' = 0)
    BY DEF List, GetPage, EndList
  <1>8. Collections'
    <2>1. \A k \in Lists : DOMAIN got'[k] = Listed
      BY <1>4 DEF Collections
    <2>2. ASSUME NEW k \in Cloud PROVE Entries(k)'
      <3>1. Entries(k) /\ k \in Lists
        BY <1>1 DEF Collections, Lists
      <3>2. CASE k = l
        BY <1>1, <1>6, <3>1, <3>2 DEF Entries
      <3>3. CASE k # l
        BY <1>1, <1>4, <3>1, <3>3 DEF Entries
      <3> QED BY <3>2, <3>3
    <2>3. pc' # "idle"
      BY <1>1, <1>7
    <2> QED BY <1>1, <1>4, <2>1, <2>2, <2>3 DEF Collections
  <1>9. ASSUME GetPage(l, next), NEW x \in Listed, l \notin broken,
               PageOf[x] <= read + 1, PageOf[x] <= Pages[l]
        PROVE  \E e \in held[l][x] : Said(got'[l][x]) = Said(e)
    <2>1. (\E e \in held[l][x] : Said(got[l][x]) = Said(e)) \/ PageOf[x] = page
      BY <1>3, <1>9 DEF Reading, Heard
    <2>2. cloud[l][x] \in held[l][x] /\ got[l][x] \in held[l][x] \cup {None}
      BY <1>2 DEF Entries
    <2>3. CASE PageOf[x] = page /\ Kept(l, cloud[l][x])
      BY <1>5, <1>9, <2>2, <2>3
    <2>4. CASE PageOf[x] = page /\ ~Kept(l, cloud[l][x])
      <3>1. Said(cloud[l][x]) = None /\ got'[l][x] = got[l][x]
        BY <1>5, <1>9, <2>4 DEF Kept, Said
      <3>2. got[l][x] = None => Said(got[l][x]) = None
        BY DEF Said
      <3> QED BY <2>2, <3>1, <3>2
    <2>5. CASE PageOf[x] # page
      BY <1>5, <1>9, <2>1, <2>5
    <2> QED BY <2>3, <2>4, <2>5
  <1>10. pc' = l => Reading(l)'
    <2> SUFFICES ASSUME pc' = l PROVE Reading(l)'
      OBVIOUS
    <2>1. More(l) /\ UnderCap /\ NextPage(l) /\ Count /\ GetPage(l, next)
      BY DEF List, GetPage, EndList
    <2>2. /\ read' = read + 1 /\ page' = IF page < Pages[l] THEN page + 1 ELSE 1
          /\ page < Pages[l] \/ l \in Cyclic
      BY <2>1 DEF More, NextPage, Count
    <2>3. page' \in 1..Pages[l] /\ read' \in Nat
      BY <1>3, <2>2 DEF Reading
    <2>4. IF read' < Pages[l] THEN page' = read' + 1 ELSE l \in Cyclic
      BY <1>3, <2>2 DEF Reading
    <2>5. ASSUME l \notin broken', NEW x \in Listed, PageOf[x] <= read', PageOf[x] <= Pages[l]
          PROVE  Heard(l, x)'
      BY <1>1, <1>5, <1>9, <2>1, <2>2, <2>5 DEF Heard
    <2> QED BY <2>3, <2>4, <2>5 DEF Reading
  <1>11. pc' # l => Done(l)'
    <2> SUFFICES ASSUME pc' # l, l \notin broken', NEW x \in Listed, PageOf[x] <= MaxPages
                 PROVE  Heard(l, x)'
      BY DEF Done
    <2>1. GetPage(l, next) /\ ~(More(l) /\ UnderCap) /\ l \notin broken
      BY DEF List, GetPage
    <2>2. CASE PageOf[x] <= Pages[l]
      <3>1. PageOf[x] <= read + 1
        BY <1>3, <2>1, <2>2 DEF More, UnderCap, Reading
      <3> QED BY <1>1, <1>9, <2>1, <2>2, <3>1 DEF Heard
    <2>3. CASE ~(PageOf[x] <= Pages[l])
      <3>1. \A e \in held[l][x] : e = None
        BY <1>2, <2>3 DEF Entries, ListedIn
      <3>2. None \in held[l][x]
        BY <1>2, <3>1 DEF Entries
      <3> QED BY <1>1, <1>6, <3>1, <3>2 DEF Heard
    <2> QED BY <2>2, <2>3
  <1> QED BY <1>1, <1>4, <1>7, <1>8, <1>10, <1>11

LEMMA StepsAre ==
    /\ Steps["status"] = {"statements", "tables", "status"}
    /\ Steps["metrics"] = {"find", "statements", "tables", "route", "query", "details",
                           "metrics"}
    /\ Steps["cost"] = {"pools", "bill", "cost"}
  BY DEF Steps

\* Building the graphs goes on only while nothing is asked.
LEMMA VisitRequest ==
    ASSUME RequestInv, NEW m \in Models, Visit(m), UNCHANGED <<cloud, requestVars, history>>
    PROVE  RequestInv'
  <1>1. pc = "idle"
    BY DEF RequestInv, Flow, Visit
  <1>2. /\ pc' = pc /\ mode' = mode /\ request' = request /\ page' = page /\ read' = read
        /\ got' = got /\ raw' = raw /\ dropped' = dropped /\ broken' = broken
        /\ cloud' = cloud /\ held' = held
    BY DEF requestVars, history
  <1>3. Flow'
    BY <1>1, <1>2 DEF RequestInv, Flow
  <1>4. Collections'
    BY <1>1, <1>2 DEF RequestInv, Collections
  <1>5. Lookups' /\ Measures'
    BY <1>1, <1>2, StepsAre DEF RequestInv, Lookups, Measures, Cloud
  <1> QED BY <1>3, <1>4, <1>5 DEF RequestInv

LEMMA AskRequest ==
    ASSUME RequestInv, NEW p \in Products, NEW id, NEW kind \in {"status", "metrics", "cost"},
           Ask(kind, p, id), UNCHANGED graphVars
    PROVE  RequestInv'
  <1>1. /\ pc = "idle" /\ cloud' \in Clouds /\ left' = {}
        /\ held' = [l \in Cloud |-> [n \in Listed |-> {cloud'[l][n]}]]
        /\ request'.kind = kind /\ request'.product = p /\ pc' \in {"404", FirstCall(kind)}
        /\ page' = page /\ read' = read /\ got' = got /\ raw' = raw
        /\ broken' = broken /\ dropped' = dropped
    BY DEF Ask, Built, graphVars
  <1>2. page = 1 /\ read = 0 /\ raw = {} /\ dropped = {} /\ broken = {}
    BY <1>1 DEF RequestInv, Flow
  <1>3. /\ mode' # "live" => pc' \in {"404", "mock"}
        /\ mode' = "live" => pc' \in {"404", IF kind = "cost" THEN "pools"
                                             ELSE IF kind = "metrics" THEN "find"
                                             ELSE "statements"}
    BY <1>1 DEF FirstCall
  <1>4. Flow'
    BY <1>1, <1>2, <1>3, StepsAre DEF Flow
  <1>5. Collections'
    <2>1. ASSUME NEW l \in Cloud, NEW x \in Listed
          PROVE  /\ cloud'[l][x] \in held'[l][x] /\ IsFiniteSet(held'[l][x])
                 /\ got'[l][x] \in held'[l][x] \cup {None}
                 /\ \A e \in held'[l][x] : e # None => ListedIn(l, x)
      <3>1. held'[l][x] = {cloud'[l][x]}
        BY <1>1
      <3>2. got'[l][x] = None
        BY <1>1 DEF RequestInv, Collections
      <3>3. cloud'[l][x] # None => ListedIn(l, x)
        BY <1>1, RequestConstantsOK
      <3> QED BY <3>1, <3>2, <3>3, FS_Singleton
    <2>2. /\ DOMAIN cloud' = Cloud /\ \A l \in Cloud : DOMAIN cloud'[l] = Listed
          /\ DOMAIN held' = Cloud /\ \A l \in Cloud : DOMAIN held'[l] = Listed
      BY <1>1, RequestConstantsOK
    <2>3. pc' # "idle"
      BY <1>3
    <2> QED BY <1>1, <2>1, <2>2, <2>3 DEF RequestInv, Collections, Entries
  <1>6. Lookups'
    <2>1. pc' = "statements" => Reading("statements")'
      <3>1. Pages["statements"] \in Nat \ {0} /\ \A x \in Listed : PageOf[x] \in Nat \ {0}
        BY RequestConstantsOK DEF Lists, Cloud
      <3> QED BY <1>1, <1>2, <3>1 DEF Reading
    <2> QED BY <1>3, <2>1 DEF Lookups, Cloud
  <1>7. Measures'
    BY <1>1, <1>2, <1>3, StepsAre DEF Measures
  <1> QED BY <1>4, <1>5, <1>6, <1>7 DEF RequestInv

\* A step that reads no collection.
LEMMA CollectionsKept ==
    ASSUME Collections, pc # "idle", pc' # "idle", UNCHANGED <<cloud, held, got>>
    PROVE  Collections'
  BY DEF Collections, Entries

LEMMA AskedKept == ASSUME UNCHANGED <<nodes, request>> PROVE Asked' = Asked
  BY DEF Asked, Graph

LEMMA ListStatementsRequest ==
    ASSUME RequestInv, ListStatements, UNCHANGED <<graphVars, cloud>>
    PROVE  RequestInv'
  <1>1. /\ pc = "statements" /\ "statements" \in Cloud /\ List("statements", "tables")
        /\ mode' = mode /\ request' = request /\ raw' = raw /\ dropped' = dropped
        /\ left' = left /\ nodes' = nodes
    BY DEF ListStatements, List, Cloud, graphVars
  <1>2. /\ Collections'
        /\ pc' = "statements" => Reading("statements")'
        /\ pc' # "statements" => pc' = "tables" /\ page' = 1 /\ read' = 0 /\ Done("statements")'
        /\ pc' \in {"statements", "tables"}
    BY <1>1, ListStep DEF RequestInv, Lookups
  <1>3. Flow'
    BY <1>1, <1>2, StepsAre DEF RequestInv, Flow
  <1>4. Lookups'
    <2>1. pc' = "tables" => Reading("tables")'
      <3>1. Pages["tables"] \in Nat \ {0} /\ \A x \in Listed : PageOf[x] \in Nat \ {0}
        BY RequestConstantsOK DEF Lists, Cloud
      <3> QED BY <1>2, <3>1 DEF Reading
    <2> QED BY <1>2, <2>1 DEF Lookups, Cloud
  <1>5. Measures'
    BY <1>1, <1>2, StepsAre, AskedKept DEF RequestInv, Measures
  <1> QED BY <1>2, <1>3, <1>4, <1>5 DEF RequestInv

LEMMA ListTablesRequest ==
    ASSUME RequestInv, ListTables, UNCHANGED <<graphVars, cloud>>
    PROVE  RequestInv'
  <1> DEFINE next == IF request.kind = "status" THEN "status" ELSE "route"
  <1>1. /\ pc = "tables" /\ "tables" \in Cloud /\ List("tables", next)
        /\ mode' = mode /\ request' = request /\ raw' = raw /\ dropped' = dropped
        /\ left' = left /\ nodes' = nodes
    BY DEF ListTables, List, Cloud, graphVars
  <1>2. /\ Collections'
        /\ pc' = "tables" => Reading("tables")'
        /\ pc' # "tables" => pc' = next /\ page' = 1 /\ read' = 0 /\ Done("tables")'
        /\ pc' \in {"tables", next}
        /\ \A k \in Lists \ {"tables"} : got'[k] = got[k] /\ (k \in broken' <=> k \in broken)
        /\ held' = held
    BY <1>1, ListStep DEF RequestInv, Lookups
  <1>3. mode = "live" /\ request.kind \in {"status", "metrics"}
    BY <1>1, StepsAre DEF RequestInv, Flow
  <1>4. Flow'
    BY <1>1, <1>2, <1>3, StepsAre DEF RequestInv, Flow
  <1>5. Lookups'
    <2>1. request.kind = "status" => Done("statements")
      BY <1>1, <1>3 DEF RequestInv, Lookups
    <2>2. request.kind = "status" => Done("statements")'
      BY <1>2, <2>1 DEF Done, Heard, Lists, Cloud
    <2> QED BY <1>1, <1>2, <2>2 DEF Lookups, Cloud
  <1>6. Measures'
    BY <1>1, <1>2, StepsAre, AskedKept DEF RequestInv, Measures
  <1> QED BY <1>2, <1>4, <1>5, <1>6 DEF RequestInv

LEMMA ListDetailsRequest ==
    ASSUME RequestInv, ListDetails, UNCHANGED <<graphVars, cloud>>
    PROVE  RequestInv'
  <1>1. /\ pc = "details" /\ mode' = mode /\ request' = request /\ raw' = raw
        /\ dropped' = dropped /\ held' = held /\ left' = left /\ nodes' = nodes
        /\ pc' \in {"details", "metrics"} /\ cloud' = cloud
    BY DEF ListDetails, List, GetPage, EndList, graphVars
  <1>2. mode = "live" /\ request.kind = "metrics"
    BY <1>1, StepsAre DEF RequestInv, Flow
  <1>3. /\ DOMAIN got' = Lists /\ DOMAIN got'["details"] = Listed
        /\ \A l \in Cloud : got'[l] = got[l]
    BY DEF RequestInv, Collections, ListDetails, List, GetPage, PageGot, Lists, Cloud
  <1>4. Flow'
    BY <1>1, <1>2, StepsAre DEF RequestInv, Flow
  <1>5. Collections'
    <2>1. \A l \in Lists : DOMAIN got'[l] = Listed
      BY <1>3 DEF RequestInv, Collections, Lists
    <2>2. \A l \in Cloud : Entries(l)'
      BY <1>1, <1>3 DEF RequestInv, Collections, Entries
    <2> QED BY <1>1, <1>3, <2>1, <2>2 DEF RequestInv, Collections
  <1>6. Lookups'
    BY <1>1, <1>2 DEF Lookups, Cloud
  <1>7. Measures'
    <2>1. Queries(Asked)' = Queries(Asked)
      BY <1>1, AskedKept DEF Queries, Streaming
    <2> QED BY <1>1, <1>2, <2>1, StepsAre, AskedKept DEF RequestInv, Measures, Accounted
  <1> QED BY <1>4, <1>5, <1>6, <1>7 DEF RequestInv

\* Nodes carry the names under which they are looked up.
LEMMA StatementNames ==
    ASSUME GraphInv, NEW n \in Statements, request.product \in Products
    PROVE  n.id \in Names /\ n.statement_name \in Range(StatementName)
  <1>1. GraphOf(request.product) /\ n \in nodes[request.product] /\ n.type = "statement"
    BY DEF GraphInv, Statements, Graph
  <1>2. PICK m \in Project, external \in BOOLEAN : n = StatementNode(m, external)
    <2>1. ~IsSource(n)
      BY <1>1 DEF IsSource, SourceNode
    <2>2. CASE IsOwn(n, request.product)
      BY <2>2 DEF IsOwn, Visits, Visited
    <2>3. CASE IsExternal(n, request.product)
      BY <2>3 DEF IsExternal
    <2> QED BY <1>1, <2>1, <2>2, <2>3 DEF GraphOf, NodesExplained
  <1>3. n.id = ModelName(m) /\ n.statement_name = StatementName[ModelName(m)]
    BY <1>2 DEF StatementNode
  <1>4. ModelName(m) \in Names /\ DOMAIN StatementName = Names
    BY ManifestFacts, GraphConstantsOK DEF GraphInv
  <1> QED BY <1>3, <1>4 DEF Range

\* A collection read whole tells what it held, if that was one thing.
LEMMA ReadTells ==
    ASSUME NEW l \in Cloud, NEW x \in Listed, Entries(l), Done(l),
           Visible(l, x), Steady(l, x)
    PROVE  Phase(l, x) = Told(l, x)
  <1>1. PICK e : held[l][x] = {e}
    BY FS_Singleton DEF Entries, Steady
  <1>2. Said(got[l][x]) = Said(e)
    BY <1>1 DEF Done, Visible, Heard
  <1>3. (CHOOSE d \in held[l][x] : TRUE) = e
    BY <1>1
  <1>4. x # None
    BY RequestConstantsOK
  <1> QED BY <1>2, <1>3, <1>4 DEF Phase, Told, Said

\* What was never listed has no phase.
LEMMA NeverListed ==
    ASSUME NEW l \in Cloud, NEW x \in Listed, Entries(l),
           \A e \in held[l][x] : e = None
    PROVE  Phase(l, x) = None
  BY DEF Entries, Phase

LEMMA StatusRequest ==
    ASSUME RequestInv, GraphInv, Status, UNCHANGED <<graphVars, cloud>>
    PROVE  RequestInv'
  <1>1. /\ pc = "status" /\ pc' = "done" /\ mode' = mode /\ request' = request
        /\ answer' = StatusAnswer([node \in Statements |-> PhaseOf(node)])
        /\ page' = page /\ read' = read /\ got' = got /\ raw' = raw /\ held' = held
        /\ broken' = broken /\ dropped' = dropped /\ left' = left /\ nodes' = nodes
        /\ cloud' = cloud
    BY DEF Status, Reply, history, graphVars
  <1>2. mode = "live" /\ request.kind = "status" /\ request.product \in Products
    BY <1>1, StepsAre DEF RequestInv, Flow
  <1>3. Done("statements") /\ Done("tables") /\ Entries("statements") /\ Entries("tables")
    BY <1>1, <1>2 DEF RequestInv, Lookups, Collections, Cloud
  <1>4. Statements' = Statements
    BY <1>1 DEF Statements, Graph
  <1>5. ASSUME NEW n \in Statements
        PROVE  /\ answer'[n].phase = PhaseOf(n)
               /\ PhaseOf(n) = Normalized(IF Phase("tables", n.id) # None
                                          THEN Phase("tables", n.id)
                                          ELSE Phase("statements", n.statement_name))
               /\ n.id \in Listed /\ n.statement_name \in Listed
    <2>1. /\ n.id \in Names /\ n.statement_name \in Range(StatementName)
          /\ n.id \in Listed /\ n.statement_name \in Listed
      BY <1>2, StatementNames DEF Listed
    <2>2. n.id \notin Range(StatementName) /\ n.statement_name \notin Names
      BY <2>1, RequestConstantsOK
    <2>3. Phase("statements", n.id) = None
      <3>1. \A e \in held["statements"][n.id] : e = None
        BY <2>1, <2>2, <1>3 DEF Entries, ListedIn
      <3> QED BY <3>1, <2>1, <1>3, NeverListed DEF Cloud
    <2>4. Phase("tables", n.statement_name) = None
      <3>1. \A e \in held["tables"][n.statement_name] : e = None
        BY <2>1, <2>2, <1>3 DEF Entries, ListedIn
      <3> QED BY <3>1, <2>1, <1>3, NeverListed DEF Cloud
    <2>5. PhaseOf(n) = Normalized(IF Phase("tables", n.id) # None
                                  THEN Phase("tables", n.id)
                                  ELSE Phase("statements", n.statement_name))
      BY <2>3, <2>4 DEF PhaseOf, Merged
    <2> HIDE DEF PhaseOf
    <2>6. answer'[n].phase = PhaseOf(n)
      BY <1>1 DEF StatusAnswer
    <2> QED BY <2>1, <2>5, <2>6
  <1>6. ASSUME NEW n \in Statements, Visible("tables", n.id), Steady("tables", n.id),
               Told("tables", n.id) # None
        PROVE  answer'[n].phase = Normalized(Told("tables", n.id))
    <2>1. Phase("tables", n.id) = Told("tables", n.id)
      BY <1>3, <1>5, <1>6, ReadTells DEF Cloud
    <2> QED BY <1>5, <1>6, <2>1
  <1>7. ASSUME NEW n \in Statements, held["tables"][n.id] = {None},
               Visible("statements", n.statement_name), Steady("statements", n.statement_name)
        PROVE  answer'[n].phase = Normalized(Told("statements", n.statement_name))
    <2>1. Phase("tables", n.id) = None
      BY <1>3, <1>5, <1>7, NeverListed DEF Cloud
    <2>2. Phase("statements", n.statement_name) = Told("statements", n.statement_name)
      BY <1>3, <1>5, <1>7, ReadTells DEF Cloud
    <2> QED BY <1>5, <2>1, <2>2
  <1>8. StatusFaithful'
    <2> SUFFICES ASSUME NEW n \in Statements
                 PROVE
        /\ /\ Visible("tables", n.id)' /\ Steady("tables", n.id)'
           /\ Told("tables", n.id)' # None
           => answer'[n].phase = Normalized(Told("tables", n.id)')
        /\ /\ held'["tables"][n.id] = {None} /\ Visible("statements", n.statement_name)'
           /\ Steady("statements", n.statement_name)'
           => answer'[n].phase = Normalized(Told("statements", n.statement_name)')
      BY <1>4 DEF StatusFaithful, Normalized
    <2>1. \A l, x : /\ Visible(l, x)' <=> Visible(l, x)
                    /\ Steady(l, x)' <=> Steady(l, x)
                    /\ Told(l, x)' = Told(l, x)
      BY <1>1 DEF Visible, Steady, Told
    <2> QED BY <1>1, <1>6, <1>7, <2>1
  <1>9. Collections'
    BY <1>1, CollectionsKept DEF RequestInv
  <1>10. Flow' /\ Lookups' /\ Measures'
    BY <1>1, <1>2, <1>8 DEF RequestInv, Flow, Lookups, Measures, Cloud
  <1> QED BY <1>9, <1>10 DEF RequestInv

LEMMA FindRequest ==
    ASSUME RequestInv, Find, UNCHANGED <<graphVars, cloud>>
    PROVE  RequestInv'
  <1>1. /\ pc = "find" /\ mode' = mode /\ request' = request /\ page' = page /\ read' = read
        /\ got' = got /\ raw' = raw /\ held' = held /\ broken' = broken
        /\ dropped' = dropped /\ left' = left /\ nodes' = nodes /\ cloud' = cloud
        /\ \/ Asked.type = "source" /\ pc' = "done"
           \/ Asked.type = "statement" /\ pc' = "statements"
    BY DEF Find, Reply, history, graphVars
  <1>2. /\ mode = "live" /\ request.kind = "metrics" /\ page = 1 /\ read = 0
        /\ raw = {} /\ dropped = {}
    BY <1>1, StepsAre DEF RequestInv, Flow, Measures
  <1>3. Flow'
    BY <1>1, <1>2, StepsAre DEF RequestInv, Flow
  <1>4. Collections'
    BY <1>1, CollectionsKept DEF RequestInv
  <1>5. Lookups'
    <2>1. Pages["statements"] \in Nat \ {0} /\ \A x \in Listed : PageOf[x] \in Nat \ {0}
      BY RequestConstantsOK DEF Lists, Cloud
    <2>2. pc' = "statements" => Reading("statements")'
      BY <1>1, <1>2, <2>1 DEF Reading
    <2> QED BY <1>1, <1>2, <2>2 DEF Lookups, Cloud
  <1>6. Measures'
    <2>1. Asked' = Asked
      BY <1>1, AskedKept
    <2>2. pc' = "done" => MetricsIsolated'
      BY <1>1, <2>1 DEF MetricsIsolated
    <2> QED BY <1>1, <1>2, <2>1, <2>2, StepsAre DEF RequestInv, Measures
  <1> QED BY <1>3, <1>4, <1>5, <1>6 DEF RequestInv

LEMMA QueriesAre ==
    ASSUME NEW node
    PROVE  /\ Queries(node) \in Seq(Metrics) /\ Queries(node) # << >> /\ Apart(Queries(node))
           /\ Streaming(node) => Range(Queries(node)) = Metrics
  <1>1. /\ StatementQueries \in Seq(Metrics) /\ StatementQueries # << >>
        /\ Apart(StatementQueries)
    BY DEF StatementQueries, Metrics, Apart
  <1>2. TableQueries \in Seq(Metrics) /\ TableQueries # << >> /\ Apart(TableQueries)
    BY DEF TableQueries, Metrics, Apart
  <1>3. Range(StatementQueries) = Metrics
    <2>1. /\ DOMAIN StatementQueries = 1..4
          /\ StatementQueries[1] = "pending_records"
          /\ StatementQueries[2] = "compute_pool_cfu"
          /\ StatementQueries[3] = "messages_in_per_sec"
          /\ StatementQueries[4] = "messages_out_per_sec"
      BY DEF StatementQueries
    <2> QED BY <2>1 DEF Range, Metrics
  <1> QED BY <1>1, <1>2, <1>3 DEF Queries

LEMMA RouteRequest ==
    ASSUME RequestInv, Route, UNCHANGED <<graphVars, cloud>>
    PROVE  RequestInv'
  <1>1. /\ pc = "route" /\ mode' = mode /\ request' = request /\ page' = page /\ read' = read
        /\ got' = got /\ raw' = raw /\ held' = held /\ broken' = broken
        /\ left' = left /\ nodes' = nodes /\ cloud' = cloud
        /\ \/ pc' = "metrics" /\ dropped' = Metrics
           \/ pc' = "query" /\ todo' = Queries(Asked) /\ dropped' = dropped
    BY DEF Route, graphVars
  <1>2. /\ mode = "live" /\ request.kind = "metrics" /\ raw = {} /\ dropped = {}
        /\ Asked.type = "statement"
    BY <1>1, StepsAre DEF RequestInv, Flow, Measures
  <1>3. Flow'
    BY <1>1, <1>2, StepsAre DEF RequestInv, Flow
  <1>4. Collections'
    BY <1>1, CollectionsKept DEF RequestInv
  <1>5. Lookups'
    BY <1>1, <1>2 DEF Lookups, Cloud
  <1>6. Measures'
    <2>1. Asked' = Asked /\ Queries(Asked)' = Queries(Asked)
      BY <1>1, AskedKept DEF Queries, Streaming
    <2>2. pc' = "query" => Querying'
      BY <1>1, <1>2, <2>1, QueriesAre DEF Querying
    <2>3. pc' = "metrics" => Accounted'
      BY <1>1, <2>1 DEF Accounted
    <2> QED BY <1>1, <1>2, <2>1, <2>2, <2>3, StepsAre DEF Measures
  <1> QED BY <1>3, <1>4, <1>5, <1>6 DEF RequestInv

\* The next query, and those after it.
LEMMA HeadOfTodo ==
    ASSUME Querying
    PROVE  /\ Tail(todo) \in Seq(Metrics) /\ Apart(Tail(todo)) /\ Head(todo) \in Metrics
           /\ Range(todo) = {Head(todo)} \cup Range(Tail(todo))
           /\ Head(todo) \notin Range(Tail(todo))
  <1>1. /\ todo \in Seq(Metrics) /\ todo # << >> /\ Len(todo) \in Nat \ {0}
        /\ Tail(todo) \in Seq(Metrics) /\ Len(Tail(todo)) = Len(todo) - 1
        /\ \A i \in 1..Len(todo) - 1 : Tail(todo)[i] = todo[i + 1]
        /\ Head(todo) = todo[1] /\ Head(todo) \in Metrics
    BY HeadTailProperties DEF Querying
  <1>2. DOMAIN todo = 1..Len(todo) /\ DOMAIN Tail(todo) = 1..Len(todo) - 1
    BY <1>1
  <1>3. \A i, j \in 1..Len(todo) : todo[i] = todo[j] => i = j
    BY <1>2 DEF Querying, Apart
  <1>4. Apart(Tail(todo))
    BY <1>1, <1>2, <1>3 DEF Apart
  <1>5. Range(todo) = {Head(todo)} \cup Range(Tail(todo))
    <2>1. ASSUME NEW i \in 1..Len(todo) PROVE todo[i] \in {Head(todo)} \cup Range(Tail(todo))
      <3>1. CASE i = 1
        BY <3>1, <1>1
      <3>2. CASE i # 1
        <4>1. i - 1 \in 1..Len(todo) - 1 /\ Tail(todo)[i - 1] = todo[i]
          BY <3>2, <1>1
        <4> QED BY <4>1, <1>2 DEF Range
      <3> QED BY <3>1, <3>2
    <2>2. \A i \in 1..Len(todo) - 1 : Tail(todo)[i] \in Range(todo)
      BY <1>1, <1>2 DEF Range
    <2>3. Head(todo) \in Range(todo)
      BY <1>1, <1>2 DEF Range
    <2> QED BY <2>1, <2>2, <2>3, <1>2 DEF Range
  <1>6. Head(todo) \notin Range(Tail(todo))
    <2>1. \A i \in 1..Len(todo) - 1 : Tail(todo)[i] # Head(todo)
      BY <1>1, <1>3
    <2> QED BY <2>1, <1>2 DEF Range
  <1> QED BY <1>1, <1>4, <1>5, <1>6

LEMMA QueryRequest ==
    ASSUME RequestInv, QueryNext, UNCHANGED <<graphVars, cloud>>
    PROVE  RequestInv'
  <1>1. /\ pc = "query" /\ mode' = mode /\ request' = request /\ page' = page /\ read' = read
        /\ got' = got /\ held' = held /\ broken' = broken /\ Query
        /\ left' = left /\ nodes' = nodes /\ cloud' = cloud
        /\ pc' \in {"query", "details", "metrics"} /\ (pc' = "query" <=> todo' # << >>)
    BY DEF QueryNext, graphVars
  <1>2. mode = "live" /\ request.kind = "metrics" /\ Querying /\ Asked.type = "statement"
    BY <1>1, StepsAre DEF RequestInv, Flow, Measures
  <1>3. Flow'
    BY <1>1, <1>2, StepsAre DEF RequestInv, Flow
  <1>4. Collections'
    BY <1>1, CollectionsKept DEF RequestInv
  <1>5. Lookups'
    BY <1>1, <1>2 DEF Lookups, Cloud
  <1>6. Asked' = Asked /\ Queries(Asked)' = Queries(Asked)
    BY <1>1, AskedKept DEF Queries, Streaming
  <1>7. /\ dropped \subseteq Metrics /\ raw \cap dropped = {}
        /\ Head(todo) \notin raw \cup dropped
        /\ Range(Tail(todo)) \cap (raw \cup dropped \cup {Head(todo)}) = {}
        /\ Range(Queries(Asked)) \subseteq raw \cup dropped \cup {Head(todo)} \cup Range(Tail(todo))
    BY <1>2, HeadOfTodo DEF RequestInv, Measures, Querying
  <1>8. CASE /\ todo' = Tail(todo)
             /\ \/ raw' = raw \cup {Head(todo)} /\ dropped' = dropped
                \/ raw' = raw /\ dropped' = dropped \cup {Head(todo)}
    <2>1. dropped' \subseteq Metrics /\ raw' \cap dropped' = {}
      BY <1>2, <1>7, <1>8, HeadOfTodo
    <2>2. /\ Range(todo') \cap (raw' \cup dropped') = {}
          /\ Range(Queries(Asked)) \subseteq raw' \cup dropped' \cup Range(todo')
      BY <1>7, <1>8
    <2>3. todo' # << >> => Querying'
      BY <1>2, <1>6, <1>8, <2>2, HeadOfTodo DEF Querying
    <2>4. todo' = << >> => Accounted'
      <3>1. todo' = << >> => Range(todo') = {}
        BY DEF Range
      <3> QED BY <1>6, <2>2, <3>1 DEF Accounted
    <2> QED BY <1>1, <1>2, <1>3, <1>4, <1>5, <1>6, <2>1, <2>3, <2>4, StepsAre
        DEF RequestInv, Measures
  <1>9. CASE raw' = {} /\ todo' = << >> /\ dropped' = Metrics
    <2>1. Accounted'
      BY <1>9 DEF Accounted
    <2> QED BY <1>1, <1>2, <1>3, <1>4, <1>5, <1>6, <1>9, <2>1, StepsAre DEF RequestInv, Measures
  <1> QED BY <1>1, <1>8, <1>9 DEF Query

LEMMA MeasuredRequest ==
    ASSUME RequestInv, Measured, UNCHANGED <<graphVars, cloud>>
    PROVE  RequestInv'
  <1>1. /\ pc = "metrics" /\ pc' = "done" /\ mode' = mode /\ request' = request
        /\ page' = page /\ read' = read /\ got' = got /\ raw' = raw /\ held' = held
        /\ broken' = broken /\ dropped' = dropped /\ left' = left /\ nodes' = nodes
        /\ cloud' = cloud
        /\ answer' = [phase |-> PhaseOf(Asked), metrics |-> raw \cup Described(Asked)]
    BY DEF Measured, Reply, history, graphVars
  <1>2. /\ mode = "live" /\ request.kind = "metrics" /\ Accounted
        /\ dropped \subseteq Metrics /\ raw \cap dropped = {}
    BY <1>1, StepsAre DEF RequestInv, Flow, Measures
  <1>3. Asked' = Asked /\ Queries(Asked)' = Queries(Asked) /\ (Streaming(Asked)' <=> Streaming(Asked))
    BY <1>1, AskedKept DEF Queries, Streaming
  <1>4. answer'.metrics = raw \cup Described(Asked)
    BY <1>1
  <1>5. Described(Asked) \subseteq Details /\ Details \cap Metrics = {}
    BY DEF Described, Details, Metrics
  <1>6. /\ dropped # Metrics => Range(Queries(Asked)) \ dropped \subseteq answer'.metrics
        /\ answer'.metrics \cap dropped = {}
        /\ Streaming(Asked) /\ dropped = {} => Metrics \subseteq answer'.metrics
    <2>1. Metrics # {}
      BY DEF Metrics
    <2> QED BY <1>2, <1>4, <1>5, <2>1, QueriesAre DEF Accounted
  <1>7. MetricsIsolated'
    BY <1>1, <1>3, <1>6 DEF MetricsIsolated
  <1>8. Collections'
    BY <1>1, CollectionsKept DEF RequestInv
  <1> QED BY <1>1, <1>2, <1>7, <1>8, StepsAre
      DEF RequestInv, Flow, Lookups, Measures, Cloud

\* The mock provider, and the cost: no collection and no metric.
LEMMA ElsewhereRequest ==
    ASSUME RequestInv, Mock \/ PoolsOwned \/ Bill \/ Cost, UNCHANGED <<graphVars, cloud>>
    PROVE  RequestInv'
  <1>1. /\ mode' = mode /\ request' = request /\ got' = got /\ raw' = raw /\ held' = held
        /\ dropped' = dropped /\ left' = left /\ nodes' = nodes /\ cloud' = cloud
        /\ \/ pc = "mock" /\ pc' = "done"
           \/ pc \in {"pools", "bill", "cost"} /\ pc' \in {"bill", "cost", "done"}
    BY DEF Mock, PoolsOwned, Bill, Cost, Reply, EndList, history, graphVars
  <1>2. mode # "live" \/ request.kind = "cost"
    BY <1>1, StepsAre DEF RequestInv, Flow
  <1>3. pc = "mock" => mode # "live"
    BY StepsAre DEF RequestInv, Flow
  <1>4. pc \in {"pools", "bill", "cost"} => mode = "live"
    BY DEF RequestInv, Flow
  <1>5. Flow'
    BY <1>1, <1>2, <1>3, <1>4, StepsAre DEF RequestInv, Flow
  <1>6. Collections'
    BY <1>1, CollectionsKept DEF RequestInv
  <1>7. Lookups' /\ Measures'
    BY <1>1, <1>2 DEF RequestInv, Lookups, Measures, Cloud
  <1> QED BY <1>5, <1>6, <1>7 DEF RequestInv

\* A collection changes under the eyes of a request: only while it is listed.
LEMMA ChangeRequest ==
    ASSUME RequestInv, NEW c \in Changes, Change(c[1], c[2], c[3])
    PROVE  RequestInv'
  <1> SUFFICES ASSUME NEW l, NEW n, NEW e, l = c[1], n = c[2], e = c[3]
               PROVE  RequestInv'
    OBVIOUS
  <1>1. /\ pc \in Lists /\ pc' = pc /\ mode' = mode /\ request' = request /\ page' = page
        /\ read' = read /\ got' = got /\ todo' = todo /\ raw' = raw /\ left' = left
        /\ nodes' = nodes /\ broken' = broken /\ dropped' = dropped
        /\ cloud' = [cloud EXCEPT ![l][n] = e]
        /\ held' = [held EXCEPT ![l][n] = held[l][n] \cup {e}]
    BY DEF Change, graphVars, requestVars
  <1>2. pc \in {"statements", "tables", "details"}
    BY <1>1 DEF Lists, Cloud
  <1>3. l \in Cloud /\ n \in Listed /\ (e # None => ListedIn(l, n))
    BY RequestConstantsOK
  <1>4. /\ DOMAIN got = Lists /\ DOMAIN cloud = Cloud /\ DOMAIN held = Cloud
        /\ \A k \in Lists : DOMAIN got[k] = Listed
        /\ \A k \in Cloud : DOMAIN held[k] = Listed /\ DOMAIN cloud[k] = Listed /\ Entries(k)
    BY <1>2 DEF RequestInv, Collections
  <1>5. /\ DOMAIN cloud' = Cloud /\ DOMAIN held' = Cloud
        /\ \A k \in Cloud : DOMAIN held'[k] = Listed /\ DOMAIN cloud'[k] = Listed
    BY <1>1, <1>3, <1>4
  <1>6. ASSUME NEW k \in Cloud, NEW x \in Listed
        PROVE  IF k = l /\ x = n THEN held'[k][x] = held[k][x] \cup {e} /\ cloud'[k][x] = e
               ELSE held'[k][x] = held[k][x] /\ cloud'[k][x] = cloud[k][x]
    BY <1>1, <1>3, <1>4
  <1>7. \A k \in Cloud, x \in Listed : held[k][x] \subseteq held'[k][x]
    BY <1>6
  <1>8. ASSUME NEW k \in Cloud PROVE Entries(k)'
    <2> SUFFICES ASSUME NEW x \in Listed
                 PROVE  /\ cloud'[k][x] \in held'[k][x] /\ IsFiniteSet(held'[k][x])
                        /\ got'[k][x] \in held'[k][x] \cup {None}
                        /\ \A d \in held'[k][x] : d # None => ListedIn(k, x)
      BY DEF Entries
    <2>1. /\ cloud[k][x] \in held[k][x] /\ IsFiniteSet(held[k][x])
          /\ got[k][x] \in held[k][x] \cup {None}
          /\ \A d \in held[k][x] : d # None => ListedIn(k, x)
      BY <1>4 DEF Entries
    <2>2. IsFiniteSet(held[k][x] \cup {e})
      BY <2>1, FS_AddElement
    <2>3. CASE k = l /\ x = n
      <3>1. held'[k][x] = held[k][x] \cup {e} /\ cloud'[k][x] = e /\ got'[k][x] = got[k][x]
        BY <1>1, <1>6, <2>3
      <3> QED BY <1>3, <2>1, <2>2, <2>3, <3>1
    <2>4. CASE ~(k = l /\ x = n)
      <3>1. held'[k][x] = held[k][x] /\ cloud'[k][x] = cloud[k][x] /\ got'[k][x] = got[k][x]
        BY <1>1, <1>6, <2>4
      <3> QED BY <2>1, <3>1
    <2> QED BY <2>3, <2>4
  <1>9. Collections'
    BY <1>1, <1>2, <1>4, <1>5, <1>8 DEF Collections
  <1>10. Flow'
    BY <1>1 DEF RequestInv, Flow
  <1>11. ASSUME NEW k \in Cloud
         PROVE  /\ Reading(k) => Reading(k)'
                /\ Done(k) => Done(k)'
    BY <1>1, <1>7 DEF Reading, Done, Heard
  <1>12. Lookups'
    <2>1. "statements" \in Cloud /\ "tables" \in Cloud
      BY DEF Cloud
    <2>2. pc = "statements" => Reading("statements")'
      BY <1>11, <2>1 DEF RequestInv, Lookups
    <2>3. pc = "tables" => Reading("tables")'
      BY <1>11, <2>1 DEF RequestInv, Lookups
    <2>4. mode = "live" /\ request.kind = "status" /\ pc = "tables" => Done("statements")'
      BY <1>11, <2>1 DEF RequestInv, Lookups
    <2> QED BY <1>1, <1>2, <2>2, <2>3, <2>4 DEF Lookups, Cloud
  <1>13. Measures'
    BY <1>1, <1>2, AskedKept DEF RequestInv, Measures, Accounted, Queries, Streaming
  <1> QED BY <1>9, <1>10, <1>12, <1>13 DEF RequestInv

LEMMA RequestStep == GraphInv /\ RequestInv /\ [Next]_vars => RequestInv'
  <1> SUFFICES ASSUME GraphInv, RequestInv, [Next]_vars PROVE RequestInv'
    OBVIOUS
  <1>1. ASSUME NEW m \in Models, Visit(m), UNCHANGED <<cloud, requestVars, history>>
        PROVE  RequestInv'
    BY <1>1, VisitRequest
  <1>2. ASSUME NEW p \in Products, UNCHANGED graphVars,
               \/ Ask("status", p, None) \/ Ask("cost", p, None)
               \/ \E id \in Ids : Ask("metrics", p, id)
        PROVE  RequestInv'
    BY <1>2, AskRequest
  <1>3. CASE Serve
    <2>1. UNCHANGED <<graphVars, cloud>>
      BY <1>3 DEF Serve
    <2>2. CASE Mock \/ PoolsOwned \/ Bill \/ Cost
      BY <2>1, <2>2, ElsewhereRequest
    <2>3. CASE ListStatements
      BY <2>1, <2>3, ListStatementsRequest
    <2>4. CASE ListTables
      BY <2>1, <2>4, ListTablesRequest
    <2>5. CASE ListDetails
      BY <2>1, <2>5, ListDetailsRequest
    <2>6. CASE Status
      BY <2>1, <2>6, StatusRequest
    <2>7. CASE Find
      BY <2>1, <2>7, FindRequest
    <2>8. CASE Route
      BY <2>1, <2>8, RouteRequest
    <2>9. CASE QueryNext
      BY <2>1, <2>9, QueryRequest
    <2>10. CASE Measured
      BY <2>1, <2>10, MeasuredRequest
    <2> QED BY <1>3, <2>2, <2>3, <2>4, <2>5, <2>6, <2>7, <2>8, <2>9, <2>10 DEF Serve
  <1>4. ASSUME NEW c \in Changes, Change(c[1], c[2], c[3]) PROVE RequestInv'
    BY <1>4, ChangeRequest
  <1>5. CASE UNCHANGED vars
    <2>1. /\ pc' = pc /\ mode' = mode /\ request' = request /\ page' = page /\ read' = read
          /\ got' = got /\ todo' = todo /\ raw' = raw /\ answer' = answer /\ left' = left
          /\ nodes' = nodes /\ cloud' = cloud /\ held' = held /\ broken' = broken
          /\ dropped' = dropped
      BY <1>5 DEF vars, graphVars, requestVars, history
    <2>2. Flow' /\ Collections'
      BY <2>1 DEF RequestInv, Flow, Collections, Entries
    <2>3. Asked' = Asked /\ Queries(Asked)' = Queries(Asked)
          /\ (Streaming(Asked)' <=> Streaming(Asked))
      BY <2>1, AskedKept DEF Queries, Streaming
    <2>4. StatusFaithful => StatusFaithful'
      BY <2>1 DEF StatusFaithful, LiveAnswer, Statements, Graph, Visible, Steady, Told, Normalized
    <2>5. MetricsIsolated => MetricsIsolated'
      BY <2>1, <2>3 DEF MetricsIsolated, LiveAnswer
    <2>6. Lookups'
      BY <2>1, <2>4 DEF RequestInv, Lookups, Reading, Done, Heard
    <2>7. Measures'
      BY <2>1, <2>3, <2>5 DEF RequestInv, Measures, Accounted, Querying
    <2> QED BY <2>2, <2>6, <2>7 DEF RequestInv
  <1> QED BY <1>1, <1>2, <1>3, <1>4, <1>5 DEF Next, Answered
-----------------------------------------------------------------------------
(* The cost                                                                *)

\* What the first n pages of the report bill pool p.
Paged(p) == [i \in DOMAIN Bills |-> Amount(Bills[i], p)]
Billed(p, n) == SumFunctionOnSet(Paged(p), 1 .. n)
Upto(n) == \A p \in Pools : sum[p] = Billed(p, n)
Cleared == \A p \in Pools : sum[p] = 0

\* While the report is read: the totals are those of the pages before this one;
\* once it has been: of all pages, of none or, if a page was no object, of some.
CostInv ==
    /\ sum \in [Pools -> Nat]
    /\ pc \in {"idle", "pools"} => page = 1 /\ Cleared /\ broken = {}
    /\ pc = "bill" => /\ page \in 1 .. Len(Bills) /\ "bill" \notin broken
                      /\ Upto(page - 1)
    /\ pc = "cost" => Cleared \/ \E k \in 1..Len(Bills) :
                                    Upto(k) /\ ("bill" \notin broken => k = Len(Bills))
    /\ pc = "done" => CostOfWholePages

LEMMA AmountNat ==
    ASSUME NEW i \in DOMAIN Bills, NEW p
    PROVE  Amount(Bills[i], p) \in Nat
  <1> DEFINE S == {x \in Bills[i] : x.flink /\ x.pool = p}
             f == [x \in S |-> x.amount]
  <1>1. Bills[i] \in SUBSET Item /\ IsFiniteSet(Bills[i])
    BY RequestConstantsOK
  <1>2. IsFiniteSet(S) /\ \A x \in S : f[x] \in Nat
    BY <1>1, FS_Subset DEF Item
  <1>3. Amount(Bills[i], p) = SumFunctionOnSet(f, S)
    BY DEF Amount, SumFunction
  <1> HIDE DEF S, f
  <1> QED BY <1>2, <1>3, SumNat

LEMMA BilledPages ==
    ASSUME NEW p
    PROVE  /\ Billed(p, 0) = 0
           /\ \A n \in 1 .. Len(Bills) :
                 Billed(p, n) = Billed(p, n - 1) + Amount(Bills[n], p)
  <1>1. 1 .. 0 = {} /\ IsFiniteSet(1 .. 0)
    BY FS_Interval
  <1>2. Billed(p, 0) = 0
    BY <1>1, SumUnfolds DEF Billed
  <1>3. Len(Bills) \in Nat /\ DOMAIN Bills = 1 .. Len(Bills)
    BY RequestConstantsOK
  <1>4. ASSUME NEW n \in 1 .. Len(Bills)
        PROVE  Billed(p, n) = Billed(p, n - 1) + Amount(Bills[n], p)
    <2>1. /\ n \in 1 .. n /\ (1 .. n) \ {n} = 1 .. n - 1 /\ IsFiniteSet(1 .. n)
          /\ IsFiniteSet(1 .. n - 1) /\ \A i \in 1 .. n : i \in DOMAIN Bills
          /\ \A i \in 1 .. n - 1 : i \in DOMAIN Bills
      <3>1. n \in Int /\ n - 1 \in Int /\ 1 \in Int
        BY <1>3
      <3>2. IsFiniteSet(1 .. n) /\ IsFiniteSet(1 .. n - 1)
        BY <3>1, FS_Interval
      <3> QED BY <1>3, <3>2
    <2>2. \A i \in DOMAIN Bills : Paged(p)[i] = Amount(Bills[i], p) /\ Paged(p)[i] \in Nat
      BY AmountNat DEF Paged
    <2>3. Billed(p, n) = Paged(p)[n] + Billed(p, n - 1)
      <3>1. \A i \in 1 .. n : Paged(p)[i] \in Nat
        BY <2>1, <2>2
      <3>2. SumFunctionOnSet(Paged(p), 1 .. n) =
              Paged(p)[n] + SumFunctionOnSet(Paged(p), (1 .. n) \ {n})
        BY <2>1, <3>1, SumWithout
      <3> QED BY <2>1, <3>2 DEF Billed
    <2>4. Billed(p, n - 1) \in Nat
      BY <2>1, <2>2, SumNat DEF Billed
    <2> QED BY <1>3, <2>2, <2>3, <2>4
  <1> QED BY <1>2, <1>4

\* The pools of a product are some of the pools there are.
LEMMA OwnedFinite ==
    ASSUME GraphInv, request.product \in Products
    PROVE  Owned \subseteq Pools /\ IsFiniteSet(Owned)
  <1>1. ASSUME NEW n \in nodes[request.product], n.pool # None PROVE n.pool \in Pools
    <2>1. ASSUME NEW m \in Project PROVE Pool(m) \in Pools \cup {None}
      <3>1. manifest.model[m] \in Model
        BY <2>1, GraphConstantsOK DEF GraphInv, GraphTyped, Project
      <3> QED BY <3>1, GraphConstantsOK DEF Pool, Model
    <2>2. IsOwn(n, request.product) \/ IsSource(n) \/ IsExternal(n, request.product)
      BY DEF GraphInv, GraphOf, NodesExplained
    <2>3. ~IsSource(n)
      BY <1>1 DEF IsSource, SourceNode
    <2>4. \E m \in Project : n.pool = Pool(m)
      BY <2>2, <2>3 DEF IsOwn, IsExternal, StatementNode, Visits, Visited
    <2> QED BY <1>1, <2>1, <2>4
  <1>2. Owned \subseteq Pools
    BY <1>1 DEF Owned, OwnedPools
  <1> QED BY <1>2, RequestConstantsOK, FS_Subset

LEMMA CostInit == Init => CostInv
  BY DEF Init, CostInv, Cleared

\* The amount of the answer: that of the totals.
LEMMA CostAnswer ==
    ASSUME GraphInv, RequestInv, CostInv, Cost, UNCHANGED <<graphVars, cloud>>
    PROVE  CostInv'
  <1>1. /\ pc = "cost" /\ pc' = "done" /\ sum' = sum /\ broken' = broken /\ request' = request
        /\ nodes' = nodes
        /\ answer'.amount = Rounded(SumFunctionOnSet(sum, Owned))
        /\ answer'.available => answer'.amount > 0
    <2> DEFINE total == Rounded(SumFunctionOnSet(sum, Owned))
    <2>1. PICK up \in SUBSET Owned :
            answer' = [available |-> total > 0, pools |-> Owned, amount |-> total, cfu |-> up]
      BY DEF Cost, Reply
    <2> HIDE DEF total
    <2>2. answer'.amount = total /\ (answer'.available <=> total > 0)
      BY <2>1
    <2>3. /\ pc = "cost" /\ pc' = "done" /\ sum' = sum /\ broken' = broken
          /\ request' = request /\ nodes' = nodes
      BY DEF Cost, Reply, history, graphVars
    <2> QED BY <2>2, <2>3 DEF total
  <1>2. request.product \in Products
    BY <1>1 DEF RequestInv, Flow
  <1>3. Owned \subseteq Pools /\ IsFiniteSet(Owned) /\ Owned' = Owned
    BY <1>1, <1>2, OwnedFinite DEF Owned, OwnedPools
  <1>4. ASSUME answer'.available
        PROVE  \E k \in 1..Len(Bills) :
                  /\ "bill" \notin broken => k = Len(Bills)
                  /\ answer'.amount = Rounded(SumFunction([p \in Owned |-> SumFunctionOnSet(
                         [i \in DOMAIN Bills |-> Amount(Bills[i], p)], 1..k)]))
    <2>1. ~Cleared
      <3> SUFFICES ASSUME Cleared PROVE FALSE
        OBVIOUS
      <3>1. SumFunctionOnSet(sum, Owned) = 0
        BY <1>3, SumZero DEF Cleared
      <3>2. Rounded(0) = 0
        BY DEF Rounded
      <3> QED BY <1>1, <1>4, <3>1, <3>2
    <2>2. PICK k \in 1..Len(Bills) : Upto(k) /\ ("bill" \notin broken => k = Len(Bills))
      BY <1>1, <2>1 DEF CostInv
    <2> DEFINE all == [p \in Owned |-> Billed(p, k)]
    <2>3. \A p \in Owned : sum[p] = all[p]
      BY <1>3, <2>2 DEF Upto
    <2>4. SumFunctionOnSet(sum, Owned) = SumFunctionOnSet(all, Owned)
      <3> HIDE DEF all
      <3> QED BY <1>3, <2>3, SumCongruent
    <2>5. SumFunctionOnSet(all, Owned) = SumFunction(all)
      BY DEF SumFunction
    <2>6. all = [p \in Owned |-> SumFunctionOnSet(
                    [i \in DOMAIN Bills |-> Amount(Bills[i], p)], 1..k)]
      BY DEF Billed, Paged
    <2> QED BY <1>1, <2>2, <2>4, <2>5, <2>6
  <1>5. CostOfWholePages'
    BY <1>1, <1>3, <1>4 DEF CostOfWholePages, LiveAnswer
  <1> QED BY <1>1, <1>5 DEF CostInv

\* A page of the report, or its end.
LEMMA BillStep ==
    ASSUME CostInv, Bill
    PROVE  CostInv'
  <1>1. /\ pc = "bill" /\ page \in 1 .. Len(Bills) /\ "bill" \notin broken
        /\ sum \in [Pools -> Nat] /\ Upto(page - 1)
    BY DEF Bill, CostInv
  <1>2. Len(Bills) \in Nat /\ DOMAIN Bills = 1 .. Len(Bills)
    BY RequestConstantsOK
  <1>3. CASE /\ sum' = [p \in Pools |-> sum[p] + Amount(Bills[page], p)]
             /\ broken' = broken
             /\ \/ page < Len(Bills) /\ page' = page + 1 /\ UNCHANGED <<pc, read>>
                \/ page = Len(Bills) /\ EndList("cost")
    <2>1. \A p \in Pools : sum'[p] = Billed(p, page)
      BY <1>1, <1>3, BilledPages DEF Upto
    <2>2. sum' \in [Pools -> Nat]
      <3>1. page \in DOMAIN Bills
        BY <1>1, <1>2
      <3>2. \A q \in Pools : Amount(Bills[page], q) \in Nat
        BY <3>1, AmountNat
      <3> QED BY <1>1, <1>3, <3>2
    <2>3. CASE page < Len(Bills) /\ page' = page + 1 /\ pc' = pc
      <3>1. page' \in 1 .. Len(Bills) /\ page' - 1 = page
        BY <1>1, <1>2, <2>3
      <3> QED BY <1>1, <1>3, <2>1, <2>2, <2>3, <3>1 DEF CostInv, Upto
    <2>4. CASE page = Len(Bills) /\ EndList("cost")
      <3>1. \A p \in Pools : sum'[p] = Billed(p, Len(Bills))
        BY <2>1, <2>4
      <3>2. Len(Bills) \in 1..Len(Bills)
        BY <1>1, <1>2
      <3> QED BY <2>2, <2>4, <3>1, <3>2 DEF CostInv, EndList, Upto
    <2> QED BY <1>3, <2>3, <2>4
  <1>4. CASE BillFail /\ EndList("cost")
    <2>1. Cleared' /\ sum' \in [Pools -> Nat]
      BY <1>4 DEF BillFail, Cleared
    <2> QED BY <1>4, <2>1 DEF CostInv, EndList
  <1>5. CASE sum' = sum /\ EndList("cost") /\ broken' = broken \cup {"bill"}
    <2>1. CASE page = 1
      <3>1. Cleared'
        BY <1>1, <1>5, <2>1, BilledPages DEF Cleared, Upto
      <3> QED BY <1>1, <1>5, <3>1 DEF CostInv, EndList
    <2>2. CASE page # 1
      <3> DEFINE k == page - 1
      <3>1. k \in 1..Len(Bills) /\ Upto(k)
        BY <1>1, <1>2, <2>2
      <3> HIDE DEF k
      <3>2. \A p \in Pools : sum'[p] = Billed(p, k)
        BY <1>5, <3>1 DEF Upto
      <3> QED BY <1>1, <1>5, <3>1, <3>2 DEF CostInv, EndList, Upto
    <2> QED BY <2>1, <2>2
  <1> QED BY <1>3, <1>4, <1>5 DEF Bill

LEMMA CostStep == GraphInv /\ RequestInv /\ CostInv /\ [Next]_vars => CostInv'
  <1> SUFFICES ASSUME GraphInv, RequestInv, CostInv, [Next]_vars PROVE CostInv'
    OBVIOUS
  <1> DEFINE Quiet == /\ sum' = sum /\ pc' \notin {"idle", "pools", "bill", "cost"}
                      /\ pc' = "done" => mode' # "live" \/ request'.kind # "cost"
  <1>1. ASSUME Quiet PROVE CostInv'
    BY <1>1 DEF CostInv, CostOfWholePages, LiveAnswer
  <1>2. ASSUME sum' = sum, pc' = pc, page' = page, broken' = broken, answer' = answer,
               mode' = mode, request' = request, nodes' = nodes
        PROVE  CostInv'
    BY <1>2 DEF CostInv, CostOfWholePages, LiveAnswer, Owned, OwnedPools, Cleared, Upto
  <1>3. ASSUME NEW m \in Models, Visit(m), UNCHANGED <<cloud, requestVars, history>>
        PROVE  CostInv'
    <2>1. pc = "idle"
      BY <1>3 DEF RequestInv, Flow, Visit
    <2> QED BY <1>3, <2>1 DEF CostInv, requestVars, history, Cleared
  <1>4. ASSUME NEW p \in Products, NEW kind, NEW id, Ask(kind, p, id)
        PROVE  CostInv'
    <2>1. /\ pc = "idle" /\ sum' = sum /\ page' = page /\ broken' = broken
          /\ pc' \in {"404", "mock", "pools", "find", "statements"}
      BY <1>4 DEF Ask, FirstCall
    <2> QED BY <2>1 DEF CostInv, Cleared
  <1>5. CASE Serve
    <2>1. UNCHANGED <<graphVars, cloud>>
      BY <1>5 DEF Serve
    <2>2. CASE Mock
      <3>1. pc = "mock" /\ pc' = "done" /\ sum' = sum /\ mode' = mode
        BY <2>2 DEF Mock, Reply
      <3>2. mode # "live"
        BY <3>1, StepsAre DEF RequestInv, Flow
      <3> QED BY <1>1, <3>1, <3>2
    <2>3. CASE ListStatements \/ ListTables \/ ListDetails
      <3>1. sum' = sum /\ pc' \in {"statements", "tables", "details", "status", "route", "metrics"}
        BY <2>3 DEF ListStatements, ListTables, ListDetails, List, GetPage, EndList
      <3> QED BY <1>1, <3>1
    <2>4. CASE Status \/ Measured
      <3>1. /\ pc \in {"status", "metrics"} /\ pc' = "done" /\ sum' = sum /\ request' = request
            /\ mode' = mode
        BY <2>4 DEF Status, Measured, Reply
      <3>2. mode = "live" => request.kind # "cost"
        BY <3>1, StepsAre DEF RequestInv, Flow
      <3> QED BY <1>1, <3>1, <3>2
    <2>5. CASE Find
      <3>1. /\ pc = "find" /\ pc' \in {"done", "statements"} /\ sum' = sum
            /\ request' = request /\ mode' = mode
        BY <2>5 DEF Find, Reply
      <3>2. mode = "live" => request.kind # "cost"
        BY <3>1, StepsAre DEF RequestInv, Flow
      <3> QED BY <1>1, <3>1, <3>2
    <2>6. CASE Route \/ QueryNext
      <3>1. sum' = sum /\ pc' \in {"metrics", "query", "details"}
        BY <2>6 DEF Route, QueryNext
      <3> QED BY <1>1, <3>1
    <2>7. CASE PoolsOwned
      <3>1. /\ pc = "pools" /\ sum' = sum /\ page' = page /\ broken' = broken
            /\ \/ pc' = "done" /\ ~answer'.available
               \/ pc' = "bill"
        BY <2>7 DEF PoolsOwned, Reply, history
      <3>2. page = 1 /\ Cleared /\ broken = {} /\ Bills # << >> /\ Bills \in Seq(SUBSET Item)
        BY <3>1, RequestConstantsOK DEF CostInv
      <3>3. page' \in 1 .. Len(Bills) /\ page' - 1 = 0
        BY <3>1, <3>2
      <3>4. \A p \in Pools : sum'[p] = Billed(p, page' - 1)
        BY <3>1, <3>2, <3>3, BilledPages DEF Cleared
      <3> QED BY <3>1, <3>2, <3>3, <3>4 DEF CostInv, CostOfWholePages, Upto
    <2>8. CASE Bill
      BY <2>8, BillStep
    <2>9. CASE Cost
      BY <2>1, <2>9, CostAnswer
    <2> QED BY <1>5, <2>2, <2>3, <2>4, <2>5, <2>6, <2>7, <2>8, <2>9 DEF Serve
  <1>6. ASSUME NEW c \in Changes, Change(c[1], c[2], c[3]) PROVE CostInv'
    BY <1>2, <1>6 DEF Change, graphVars, requestVars
  <1>7. CASE UNCHANGED vars
    BY <1>2, <1>7 DEF vars, graphVars, requestVars, history
  <1> QED BY <1>3, <1>4, <1>5, <1>6, <1>7 DEF Next, Answered
-----------------------------------------------------------------------------
(* The types                                                               *)

\* A graph has nodes and edges of its type, because of where they come from.
LEMMA GraphTypes ==
    ASSUME GraphInv
    PROVE  /\ left \subseteq Models
           /\ \A p \in Products : nodes[p] \subseteq Node /\ edges[p] \subseteq Ids \X Ids
  <1>1. left \subseteq Models
    BY ManifestFacts DEF GraphInv, GraphTyped
  <1>2. ASSUME NEW m \in Project
        PROVE  /\ ModelName(m) \in Ids /\ Pool(m) \in Pools \cup {None}
               /\ manifest.model[m].facts \in BOOLEAN /\ ModelName(m) \in Names
    <2>1. manifest.model[m] \in Model
      BY <1>2, GraphConstantsOK DEF GraphInv, GraphTyped, Project
    <2> QED BY <2>1, GraphConstantsOK DEF Model, ModelName, Pool, Ids
  <1>3. ASSUME NEW s \in Feeds PROVE TopicOf(s) \in Ids
    BY <1>3, ManifestFacts DEF GraphInv, TopicOf, Ids
  <1>4. ASSUME NEW m \in Project, NEW external \in BOOLEAN
        PROVE  StatementNode(m, external) \in Node
    <2> SUFFICES ASSUME NEW product, product = (~external /\ manifest.model[m].facts),
                        NEW type, type = IF manifest.model[m].materialized \in TableTypes
                                         THEN manifest.model[m].materialized ELSE None
                 PROVE  [id |-> ModelName(m), type |-> "statement",
                         statement_name |-> StatementName[ModelName(m)],
                         is_product |-> product, table_type |-> type,
                         pool |-> Pool(m), external |-> external] \in Node
      BY DEF StatementNode
    <2>1. type \in TableTypes \cup {None}
      OBVIOUS
    <2>2. product \in BOOLEAN
      OBVIOUS
    <2> QED BY <1>2, <2>1, <2>2 DEF Node
  <1>5. ASSUME NEW s \in Feeds PROVE SourceNode(s) \in Node
    BY <1>3, <1>5 DEF SourceNode, Node, TopicOf
  <1>6. ASSUME NEW p \in Products, NEW n \in nodes[p] PROVE n \in Node
    <2>1. IsOwn(n, p) \/ IsSource(n) \/ IsExternal(n, p)
      BY <1>6 DEF GraphInv, GraphOf, NodesExplained
    <2>2. Visits(p) \subseteq Project
      BY DEF Visits, Visited
    <2> QED BY <1>4, <1>5, <2>1, <2>2 DEF IsOwn, IsSource, IsExternal
  <1>7. ASSUME NEW p \in Products, NEW e \in edges[p] PROVE e \in Ids \X Ids
    <2>1. EdgeExplained(e, p)
      BY <1>7 DEF GraphInv, GraphOf
    <2>2. PICK m \in Project :
             \/ \E d \in OwnDeps(m) \cup ForeignDeps(m) : e = <<ModelName(d), ModelName(m)>>
             \/ \E s \in SourceDeps(m) : e = <<TopicOf(s), ModelName(m)>>
      BY <2>1 DEF EdgeExplained, Visits, Visited
    <2>3. OwnDeps(m) \cup ForeignDeps(m) \subseteq Project /\ SourceDeps(m) \subseteq Feeds
      BY DEF OwnDeps, ForeignDeps, SourceDeps, Project, Feeds
    <2> QED BY <1>2, <1>3, <2>2, <2>3
  <1> QED BY <1>1, <1>6, <1>7

\* The types of the variables that a request writes.
RequestTyped ==
    /\ cloud \in [Cloud -> [Listed -> Entry \cup {None}]]
    /\ pc \in Lists \cup {"idle", "mock", "status", "find", "route", "query", "metrics",
                          "pools", "bill", "cost", "done", "404"}
    /\ mode \in Modes \cup {None}
    /\ got \in [Lists -> [Listed -> Entry \cup {None}]]
    /\ read < MaxPages /\ read \in Nat /\ page \in Nat \ {0}
    /\ raw \subseteq Metrics

LEMMA TypesInit == Init => RequestTyped
  <1> SUFFICES ASSUME Init PROVE RequestTyped
    OBVIOUS
  <1>1. cloud \in [Cloud -> [Listed -> Entry \cup {None}]]
    BY DEF Init, Nothing, Lists
  <1>2. got \in [Lists -> [Listed -> Entry \cup {None}]]
    BY DEF Init, Nothing
  <1> QED BY <1>1, <1>2, RequestConstantsOK DEF Init, RequestTyped

LEMMA ListTypes ==
    ASSUME RequestTyped, NEW l \in Lists, NEW next, List(l, next), UNCHANGED cloud,
           next \in {"tables", "status", "route", "metrics"}
    PROVE  RequestTyped'
  <1>1. mode' = mode /\ raw' = raw /\ pc = l
    BY DEF List
  <1>2. MaxPages \in Nat \ {0}
    BY RequestConstantsOK
  <1>3. /\ read' \in Nat /\ read' < MaxPages /\ page' \in Nat \ {0}
        /\ pc' \in Lists \cup {"status", "route", "metrics"}
    <2>1. CASE More(l) /\ UnderCap /\ NextPage(l) /\ Count /\ UNCHANGED pc
      BY <1>1, <1>2, <2>1 DEF UnderCap, NextPage, Count, RequestTyped
    <2>2. CASE EndList(next)
      BY <1>2, <2>2 DEF EndList, Lists, Cloud
    <2> QED BY <2>1, <2>2 DEF List, GetPage
  <1>4. got' \in [Lists -> [Listed -> Entry \cup {None}]]
    <2>1. got \in [Lists -> [Listed -> Entry \cup {None}]]
      BY DEF RequestTyped
    <2>2. CASE PageGot(l)
      <3>1. Of(l) \in Cloud
        BY DEF Of, Lists, Cloud
      <3>2. \A n \in Listed : cloud[Of(l)][n] \in Entry \cup {None}
        BY <3>1 DEF RequestTyped
      <3> DEFINE new == [n \in Listed |->
                           IF PageOf[n] = page /\ Kept(l, cloud[Of(l)][n])
                           THEN cloud[Of(l)][n] ELSE got[l][n]]
      <3>3. new \in [Listed -> Entry \cup {None}]
        BY <2>1, <3>2
      <3>4. got' = [got EXCEPT ![l] = new]
        BY <2>2 DEF PageGot
      <3> HIDE DEF new
      <3> QED BY <2>1, <3>3, <3>4
    <2>3. CASE got' = [got EXCEPT ![l] = [n \in Listed |-> None]]
      <3>1. [n \in Listed |-> None] \in [Listed -> Entry \cup {None}]
        OBVIOUS
      <3> QED BY <2>1, <2>3, <3>1
    <2> QED BY <2>1, <2>2, <2>3 DEF List, GetPage
  <1> QED BY <1>1, <1>3, <1>4 DEF RequestTyped

LEMMA TypesStep == RequestInv /\ CostInv /\ RequestTyped /\ [Next]_vars => RequestTyped'
  <1> SUFFICES ASSUME RequestInv, CostInv, RequestTyped, [Next]_vars PROVE RequestTyped'
    OBVIOUS
  <1>1. CASE UNCHANGED <<cloud, requestVars>>
    BY <1>1 DEF RequestTyped, requestVars
  <1>2. ASSUME NEW p \in Products, NEW kind, NEW id, Ask(kind, p, id) PROVE RequestTyped'
    <2>1. /\ pc' \in {"404", "mock", "pools", "find", "statements"}
          /\ mode' \in Modes /\ got' = got /\ read' = read /\ page' = page /\ raw' = raw
          /\ cloud' \in Clouds
      BY <1>2 DEF Ask, FirstCall
    <2> QED BY <2>1, RequestConstantsOK DEF RequestTyped, Lists, Cloud
  <1>3. CASE Serve
    <2>1. cloud' = cloud
      BY <1>3 DEF Serve
    <2>2. CASE ListStatements
      BY <2>1, <2>2, ListTypes DEF ListStatements, Lists, Cloud
    <2>3. CASE ListTables
      BY <2>1, <2>3, ListTypes DEF ListTables, Lists, Cloud
    <2>4. CASE ListDetails
      BY <2>1, <2>4, ListTypes DEF ListDetails, Lists
    <2>5. CASE QueryNext
      <3>1. /\ pc = "query" /\ Query /\ mode' = mode /\ read' = read /\ page' = page /\ got' = got
            /\ pc' \in {"query", "details", "metrics"}
        BY <2>5 DEF QueryNext
      <3>2. Querying
        BY <3>1, StepsAre DEF RequestInv, Flow, Measures
      <3>3. Head(todo) \in Metrics
        BY <3>2 DEF Querying
      <3>4. raw' \subseteq Metrics
        BY <3>1, <3>3 DEF Query, RequestTyped
      <3> QED BY <2>1, <3>1, <3>4 DEF RequestTyped, Lists
    <2>6. CASE Bill
      <3>1. /\ pc = "bill" /\ mode' = mode /\ got' = got /\ raw' = raw
            /\ \/ page' = page + 1 /\ pc' = pc /\ read' = read
               \/ EndList("cost")
        BY <2>6 DEF Bill
      <3>2. MaxPages \in Nat \ {0}
        BY RequestConstantsOK
      <3> QED BY <2>1, <3>1, <3>2 DEF RequestTyped, EndList
    <2>7. CASE Mock \/ Status \/ Find \/ Route \/ Measured \/ PoolsOwned \/ Cost
      <3>1. /\ mode' = mode /\ got' = got /\ raw' = raw /\ read' = read /\ page' = page
            /\ pc' \in {"done", "statements", "metrics", "query", "bill"}
        BY <2>7 DEF Mock, Status, Find, Route, Measured, PoolsOwned, Cost, Reply
      <3> QED BY <2>1, <3>1 DEF RequestTyped, Lists, Cloud
    <2> QED BY <1>3, <2>2, <2>3, <2>4, <2>5, <2>6, <2>7 DEF Serve
  <1>4. ASSUME NEW c \in Changes, Change(c[1], c[2], c[3]) PROVE RequestTyped'
    <2> SUFFICES ASSUME NEW l \in Cloud, NEW n \in Listed, NEW e \in Entry \cup {None},
                        Change(l, n, e)
                 PROVE  RequestTyped'
      BY <1>4, RequestConstantsOK
    <2>1. UNCHANGED requestVars /\ cloud' = [cloud EXCEPT ![l][n] = e]
      BY DEF Change
    <2>2. cloud' \in [Cloud -> [Listed -> Entry \cup {None}]]
      BY <2>1 DEF RequestTyped
    <2> QED BY <2>1, <2>2 DEF RequestTyped, requestVars
  <1> QED BY <1>1, <1>2, <1>3, <1>4 DEF Next, Answered, vars
-----------------------------------------------------------------------------
(* What is proved of every execution                                       *)

\* The inductive invariant of the specification.
LEMMA Invariance == Spec => [](GraphInv /\ RequestInv /\ CostInv /\ RequestTyped)
  <1>1. Init => GraphInv /\ RequestInv /\ CostInv /\ RequestTyped
    BY GraphInitInv, RequestInit, CostInit, TypesInit DEF Init
  <1> QED BY <1>1, GraphStep, RequestStep, CostStep, TypesStep, PTL DEF Spec

\* The variables keep their types, whatever the manifest, the collections and
\* the report hold.
THEOREM TypeCorrect == Spec => []TypeOK
  <1>1. GraphInv /\ RequestInv /\ CostInv /\ RequestTyped => TypeOK
    BY GraphTypes DEF RequestInv, Measures, CostInv, RequestTyped, TypeOK
  <1> QED BY <1>1, Invariance, PTL

\* Whatever the manifest and the order in which its models are visited, the
\* graphs of the products are connected as it says (descriptor_builder.py).
THEOREM GraphsAreComplete == Spec => []GraphsComplete
  BY Invariance, CompleteNow, PTL

\* A product is charged for the pools of its own models, and for all of them
\* (descriptor_builder.py, _owned_pool_ids of providers.py).
THEOREM PoolsStayCharged == Spec => []PoolsChargedToOwner
  BY Invariance, ChargedNow, PTL

\* A live status says what each collection said throughout the request, for
\* any number of pages, any cap and whatever else changes or fails
\* (get_status, _get_flink_collection).
THEOREM StatusStaysFaithful == Spec => []StatusFaithful
  <1>1. RequestInv => StatusFaithful
    BY DEF RequestInv, Lookups, StatusFaithful, LiveAnswer
  <1> QED BY <1>1, Invariance, PTL

\* A metric is missing from a live answer only if its own query gave nothing or
\* an error got past the isolation (get_metrics).
THEOREM MetricsStayIsolated == Spec => []MetricsIsolated
  <1>1. RequestInv => MetricsIsolated
    BY DEF RequestInv, Measures, MetricsIsolated, LiveAnswer
  <1> QED BY <1>1, Invariance, PTL

\* However many pages the report has and wherever it breaks off, a cost that is
\* shown is that of whole pages for all the pools of the product and no other: of
\* every page, or of those before one that is no object (get_flink_pool_costs,
\* get_cost).
THEOREM CostStaysWhole == Spec => []CostOfWholePages
  <1>1. CostInv => CostOfWholePages
    BY DEF CostInv, CostOfWholePages, LiveAnswer
  <1> QED BY <1>1, Invariance, PTL
=============================================================================
