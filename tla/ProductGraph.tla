---------------------------- MODULE ProductGraph ----------------------------
(***************************************************************************)
(* How the graph of each data product is built from the dbt manifest       *)
(* (data_products/descriptor_builder.py): models are visited one by one,   *)
(* in the order of their paths, and each adds its node, the nodes it       *)
(* depends on and its edges to the graph of its product.  Writing a node   *)
(* to the descriptor and reading it back keeps every field.                *)
(***************************************************************************)
EXTENDS Naturals, FiniteSets

CONSTANTS
    Models, Sources,   \* unique ids in the manifest
    Products,          \* top-level folders under models/
    Names,             \* names of models and of sources
    TopicId,           \* TopicId[n]: the id "topic_<n>"
    StatementName,     \* StatementName[n]: statement_name_fn
    Pools,             \* compute pools
    DefaultPool,       \* default_pool, or None
    None,
    Manifests          \* the manifests considered

TableTypes == {"materialized_table", "streaming_table"}
Model == [name: Names, product: Products, facts: BOOLEAN,
          materialized: TableTypes \cup {"view"}, pool: Pools \cup {None},
          deps: SUBSET (Models \cup Sources)]
Ids == Names \cup {TopicId[n] : n \in Names}
Node == [id: Ids, type: {"source", "statement"},
         statement_name: {StatementName[n] : n \in Names} \cup {None},
         is_product: BOOLEAN, table_type: TableTypes \cup {None},
         pool: Pools \cup {None}, external: BOOLEAN]

ASSUME GraphConstantsOK ==
    /\ Models \cap Sources = {}
    /\ None \notin Pools \cup Names \cup Models \cup Sources
    /\ DefaultPool \in Pools \cup {None}
    /\ DOMAIN TopicId = Names /\ DOMAIN StatementName = Names
    /\ \A n \in Names : TopicId[n] \notin Names
    /\ \A m \in Manifests : /\ DOMAIN m.model \subseteq Models
                            /\ \A x \in DOMAIN m.model : m.model[x] \in Model
                            /\ DOMAIN m.source \subseteq Sources
                            /\ \A x, y \in DOMAIN m.model :      \* as dbt has it
                                  m.model[x].name = m.model[y].name => x = y
                            /\ \A s \in DOMAIN m.source : m.source[s] \in Names

VARIABLES
    manifest,   \* the manifest: its models and the name of each source
    left,       \* models not visited yet
    nodes,      \* nodes[p]: nodes of the graph of p
    edges       \* edges[p]: <<source, target>>

graphVars == <<manifest, left, nodes, edges>>

GraphInit ==
    /\ manifest \in Manifests
    /\ left = DOMAIN manifest.model
    /\ nodes = [p \in Products |-> {}]
    /\ edges = [p \in Products |-> {}]
-----------------------------------------------------------------------------
ProductOf(m) == manifest.model[m].product
ModelName(m) == manifest.model[m].name

\* pool_for(model) or default_pool
Pool(m) == IF manifest.model[m].pool # None THEN manifest.model[m].pool ELSE DefaultPool

OwnAndExternal(m, external) ==                 \* mutant: the flag is lost
    [id |-> ModelName(m), type |-> "statement",
     statement_name |-> StatementName[ModelName(m)],
     is_product |-> ~external /\ manifest.model[m].facts,
     table_type |-> IF manifest.model[m].materialized \in TableTypes
                    THEN manifest.model[m].materialized ELSE None,
     pool |-> Pool(m), external |-> FALSE]
StatementNode(m, external) ==
    [id |-> ModelName(m), type |-> "statement",
     statement_name |-> StatementName[ModelName(m)],
     is_product |-> ~external /\ manifest.model[m].facts,
     table_type |-> IF manifest.model[m].materialized \in TableTypes
                    THEN manifest.model[m].materialized ELSE None,
     pool |-> Pool(m), external |-> external]

SourceNode(s) ==
    [id |-> TopicId[manifest.source[s]], type |-> "source",
     statement_name |-> None, is_product |-> FALSE, table_type |-> None,
     pool |-> None, external |-> FALSE]

\* dict.setdefault for each candidate: the first with an id stays.
AddDefaults(have, candidates) ==
    {have \cup X : X \in {S \in SUBSET candidates :
        /\ \A n \in S, h \in have : n.id # h.id
        /\ \A n, k \in S : n.id = k.id => n = k
        /\ \A c \in candidates : \E n \in have \cup S : n.id = c.id}}

\* What a model depends on: models of its product, sources, and models of
\* other products; anything else in depends_on (seeds, snapshots) is dropped.
DependsOn(m) == manifest.model[m].deps
OwnDeps(m) == {d \in DependsOn(m) \cap DOMAIN manifest.model : ProductOf(d) = ProductOf(m)}
SourceDeps(m) == DependsOn(m) \cap DOMAIN manifest.source
ForeignDropped(m) == {}                        \* mutant: own models only
ForeignDeps(m) ==
    {d \in DependsOn(m) \cap DOMAIN manifest.model : ProductOf(d) # ProductOf(m)}

Visit(m) ==
    LET p == ProductOf(m)
        sources == {n \in nodes[p] : n.type = "source"}
        externals == {n \in nodes[p] : n.type = "statement" /\ n.external}
        own == nodes[p] \ (sources \cup externals)
    IN
    /\ m \in left
    /\ left' = left \ {m}
    /\ \E S \in AddDefaults(sources, {SourceNode(s) : s \in SourceDeps(m)}) :
       \E X \in AddDefaults(externals, {StatementNode(d, TRUE) : d \in ForeignDeps(m)}) :
          nodes' = [nodes EXCEPT ![p] = own \cup {StatementNode(m, FALSE)} \cup S \cup X]
    /\ edges' = [edges EXCEPT ![p] = @
          \cup {<<ModelName(d), ModelName(m)>> : d \in OwnDeps(m) \cup ForeignDeps(m)}
          \cup {<<TopicId[manifest.source[s]], ModelName(m)>> : s \in SourceDeps(m)}]
    /\ UNCHANGED manifest

Built == left = {}

\* _owned_pool_ids: external statements run in pools of their own product.
OwnedPools(p) ==
    {n.pool : n \in {k \in nodes[p] : k.type = "statement" /\ ~k.external}} \ {None}
-----------------------------------------------------------------------------
\* The graph of a product is connected as the manifest says: every dependency
\* on a model or a source is an edge, edges end at nodes of the same graph, and
\* an id names one node (get_metrics takes the first it finds).
GraphsComplete ==
    Built => \A p \in Products :
        /\ \A e \in edges[p] : \A i \in 1..2 : \E n \in nodes[p] : n.id = e[i]
        /\ \A n, k \in nodes[p] : n.id = k.id => n = k
        /\ \A m \in DOMAIN manifest.model :
              ProductOf(m) = p =>
                \A d \in DependsOn(m) \cap (DOMAIN manifest.model \cup DOMAIN manifest.source) :
                    \E e \in edges[p] : e[2] = ModelName(m)
                        /\ e[1] = IF d \in Models THEN ModelName(d)
                                  ELSE TopicId[manifest.source[d]]

\* "so this product's cost consolidation excludes it": the pools a product is
\* charged for are exactly those its own models run in, however its graph
\* reaches into other products.
PoolsChargedToOwner ==
    Built => \A p \in Products :
        OwnedPools(p) = {IF manifest.model[m].pool = None THEN DefaultPool
                         ELSE manifest.model[m].pool :
                            m \in {x \in DOMAIN manifest.model : ProductOf(x) = p}} \ {None}
=============================================================================
