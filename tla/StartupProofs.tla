--------------------------- MODULE StartupProofs ---------------------------
(***************************************************************************)
(* Proofs about the start of the backend: for any number of instances that *)
(* start, crash and serve on one database, any tables, rows and settings.  *)
(***************************************************************************)
EXTENDS Startup, FiniteSetTheorems, TLAPS

Steps == {"off", "look", "create", "commit", "count", "insert", "ensure", "produce", "serving"}
OfDatabase == {"look", "create", "commit", "count", "insert"}

Types ==
    /\ settings \in Settings /\ objects \subseteq Objects
    /\ creating \in [Instances -> SUBSET Objects]
    /\ rows \in [Keys -> {None, "seed", "written"}] /\ deleted \in BOOLEAN
    /\ resources \subseteq Resources /\ origins \subseteq ({"app", "connector"} \X Tables)
    /\ pc \in [Instances -> Steps]
    /\ at \in [Instances -> (1..Len(TableSeq)) \X (1..3)]
    /\ producers \in [Instances -> SUBSET Tables]
    /\ used \in [Instances -> Nat] /\ working \in [Instances -> SUBSET Workers]
    /\ faults \in 0..MaxFaults /\ writes \in 0..MaxWrites

\* Where an instance is tells the settings it runs with.
Placed(i) ==
    /\ pc[i] = "off" => at[i] = <<1, 1>>
    /\ pc[i] \in OfDatabase => settings.sink = "postgres"
    /\ pc[i] \in {"ensure", "produce"} => ~ConnectorEnabled
    /\ working[i] # {} => pc[i] = "serving" /\ settings.sink = "postgres"

\* The connections an instance has taken, one by one.
Starting(i) ==
    \/ pc[i] \in {"create", "commit", "insert"}
    \/ pc[i] = "look" /\ at[i][2] > 1
Pooled(i) ==
    /\ IsFiniteSet(working[i])
    /\ used[i] = Cardinality(working[i]) + (IF Starting(i) THEN 1 ELSE 0)
    /\ used[i] <= PoolSize

TypeInv == Types /\ \A i \in Instances : Placed(i) /\ Pooled(i)
-----------------------------------------------------------------------------
(* Types, settings and connections *)

LEMMA Bounds ==
    /\ PoolSize \in Nat /\ PoolSize >= 1 /\ MaxFaults \in Nat /\ MaxWrites \in Nat
    /\ Len(TableSeq) \in Nat /\ Len(TableSeq) >= 1 /\ DOMAIN TableSeq = 1..Len(TableSeq)
    /\ \A n \in 1..Len(TableSeq) : TableSeq[n] \in Tables
  BY StartupConstantsOK DEF Tables

LEMMA OneOfThree ==
    ASSUME NEW a, NEW b, NEW c
    PROVE  <<a, b, c>>[1] = a /\ <<a, b, c>>[2] = b /\ <<a, b, c>>[3] = c
  OBVIOUS

\* The three objects of a table, in the order they are looked for.
LEMMA WantedCases ==
    ASSUME NEW i \in Instances
    PROVE  /\ at[i][2] = 1 => Wanted(i) = <<TableAt(i)>>
           /\ at[i][2] = 2 => Wanted(i) = Publication
           /\ at[i][2] = 3 => Wanted(i) = <<"in publication", TableAt(i)>>
  <1> DEFINE o == <<<<TableAt(i)>>, Publication, <<"in publication", TableAt(i)>>>>
  <1>1. o[1] = <<TableAt(i)>> /\ o[2] = Publication /\ o[3] = <<"in publication", TableAt(i)>>
    BY OneOfThree, Zenon
  <1>2. Wanted(i) = o[at[i][2]]
    BY DEF Wanted
  <1> HIDE DEF o
  <1> QED BY <1>1, <1>2

LEMMA TableKnown ==
    ASSUME TypeInv, NEW i \in Instances
    PROVE  /\ TableAt(i) \in Tables /\ Wanted(i) \in Objects
           /\ <<TableAt(i), at[i][2]>> \in Resources
           /\ at[i][1] \in 1..Len(TableSeq) /\ at[i][2] \in 1..3
           /\ at[i] = <<at[i][1], at[i][2]>>
  <1>1. at[i][1] \in 1..Len(TableSeq) /\ at[i][2] \in 1..3 /\ at[i] = <<at[i][1], at[i][2]>>
    BY DEF TypeInv, Types
  <1>2. TableAt(i) \in Tables
    BY <1>1, Bounds DEF TableAt
  <1>3. Wanted(i) \in Objects
    <2>1. /\ <<TableAt(i)>> \in Objects /\ Publication \in Objects
          /\ <<"in publication", TableAt(i)>> \in Objects
      BY <1>2 DEF Objects
    <2>2. at[i][2] = 1 \/ at[i][2] = 2 \/ at[i][2] = 3
      BY <1>1
    <2> QED BY <2>1, <2>2, WantedCases
  <1> QED BY <1>1, <1>2, <1>3 DEF Resources

LEMMA FaultCounted ==
    ASSUME Types, faults < MaxFaults, faults' = faults + 1
    PROVE  faults' \in 0..MaxFaults
  BY Bounds DEF Types

\* The process ends.
LEMMA ExitKeeps ==
    ASSUME TypeInv, NEW i \in Instances, Exit(i), UNCHANGED settings
    PROVE  /\ \A j \in Instances : Placed(j)' /\ Pooled(j)'
           /\ creating' \in [Instances -> SUBSET Objects]
           /\ pc' \in [Instances -> Steps]
           /\ at' \in [Instances -> (1..Len(TableSeq)) \X (1..3)]
           /\ producers' \in [Instances -> SUBSET Tables]
           /\ used' \in [Instances -> Nat] /\ working' \in [Instances -> SUBSET Workers]
  <1>1. /\ creating' \in [Instances -> SUBSET Objects]
        /\ pc' \in [Instances -> Steps]
        /\ producers' \in [Instances -> SUBSET Tables]
        /\ used' \in [Instances -> Nat] /\ working' \in [Instances -> SUBSET Workers]
    BY DEF Exit, Goto, TypeInv, Types, Steps
  <1>2. <<1, 1>> \in (1..Len(TableSeq)) \X (1..3)
    BY Bounds
  <1>3. at' \in [Instances -> (1..Len(TableSeq)) \X (1..3)]
    BY <1>2 DEF Exit, Move, TypeInv, Types
  <1>4. Placed(i)' /\ Pooled(i)'
    <2>1. /\ pc'[i] = "off" /\ at'[i] = <<1, 1>> /\ working'[i] = {} /\ used'[i] = 0
      BY DEF Exit, Goto, Move, TypeInv, Types
    <2> QED BY <2>1, FS_EmptySet, Bounds DEF Placed, Pooled, Starting, OfDatabase
  <1>5. ASSUME NEW j \in Instances \ {i} PROVE Placed(j)' /\ Pooled(j)'
    <2>1. /\ pc'[j] = pc[j] /\ at'[j] = at[j] /\ working'[j] = working[j] /\ used'[j] = used[j]
      BY DEF Exit, Goto, Move, TypeInv, Types
    <2> QED BY <2>1 DEF TypeInv, Placed, Pooled, Starting, ConnectorEnabled, HostOwnsCdc
  <1> QED BY <1>1, <1>3, <1>4, <1>5

\* A step of instance i alone that moves it on.
LEMMA MoveKeeps ==
    ASSUME TypeInv, NEW i \in Instances, NEW step \in Steps,
           Goto(i, step), UNCHANGED <<settings, working>>,
           NEW n \in 1..Len(TableSeq), NEW sub \in 1..3, at' = [at EXCEPT ![i] = <<n, sub>>],
           used' = used \/ Take(i) \/ PutBack(i),
           working[i] = {}, Placed(i)',
           used'[i] = (IF Starting(i)' THEN 1 ELSE 0)
    PROVE  /\ pc' \in [Instances -> Steps]
           /\ at' \in [Instances -> (1..Len(TableSeq)) \X (1..3)]
           /\ used' \in [Instances -> Nat]
           /\ \A j \in Instances : Placed(j)' /\ Pooled(j)'
  <1>1. pc' \in [Instances -> Steps]
    BY DEF Goto, TypeInv, Types
  <1>2. at' \in [Instances -> (1..Len(TableSeq)) \X (1..3)]
    BY DEF TypeInv, Types
  <1>3. \A j \in Instances \ {i} : pc'[j] = pc[j] /\ at'[j] = at[j] /\ used'[j] = used[j]
    BY DEF Goto, Take, PutBack, TypeInv, Types
  <1>4. used' \in [Instances -> Nat]
    <2>1. used'[i] \in Nat
      OBVIOUS
    <2> QED BY <2>1, <1>3 DEF Take, PutBack, TypeInv, Types
  <1>5. Pooled(i)'
    BY FS_EmptySet, Bounds DEF Pooled
  <1>6. ASSUME NEW j \in Instances \ {i} PROVE Placed(j)' /\ Pooled(j)'
    BY <1>3 DEF TypeInv, Placed, Pooled, Starting, ConnectorEnabled, HostOwnsCdc
  <1> QED BY <1>1, <1>2, <1>4, <1>5, <1>6

Moved(i, step, n, sub) ==
    /\ step \in Steps /\ Goto(i, step)
    /\ n \in 1..Len(TableSeq) /\ sub \in 1..3 /\ at' = [at EXCEPT ![i] = <<n, sub>>]

LEMMA MovedTo ==
    ASSUME TypeInv, NEW i \in Instances, NEW step, NEW n, NEW sub, Moved(i, step, n, sub)
    PROVE  /\ pc'[i] = step /\ at'[i] = <<n, sub>> /\ at'[i][1] = n /\ at'[i][2] = sub
           /\ \A j \in Instances \ {i} : pc'[j] = pc[j] /\ at'[j] = at[j]
  BY DEF Moved, Goto, TypeInv, Types

LEMMA StaysAt ==
    ASSUME TypeInv, NEW i \in Instances, UNCHANGED at
    PROVE  at' = [at EXCEPT ![i] = <<at[i][1], at[i][2]>>]
  BY TableKnown DEF TypeInv, Types

LEMMA NextObjectMoves ==
    ASSUME TypeInv, NEW i \in Instances, NextObject(i)
    PROVE  \/ at[i][2] = 3 /\ Moved(i, "commit", at[i][1], 3)
           \/ at[i][2] < 3 /\ Moved(i, "look", at[i][1], at[i][2] + 1)
  <1>1. at[i][1] \in 1..Len(TableSeq) /\ at[i][2] \in 1..3
    BY TableKnown
  <1>2. CASE at[i][2] = 3
    <2>1. Goto(i, "commit") /\ UNCHANGED at
      BY <1>2 DEF NextObject
    <2>2. at' = [at EXCEPT ![i] = <<at[i][1], 3>>]
      BY <1>2, <2>1, StaysAt
    <2> QED BY <1>1, <1>2, <2>1, <2>2 DEF Moved, Steps
  <1>3. CASE at[i][2] # 3
    <2>1. at[i][2] < 3 /\ at[i][2] + 1 \in 1..3
      BY <1>1, <1>3
    <2> QED BY <1>1, <1>3, <2>1 DEF NextObject, Moved, Move, Steps
  <1> QED BY <1>2, <1>3

LEMMA AfterSinkIs ==
    AfterSink \in {"ensure", "serving"} /\ (AfterSink = "ensure" => ~ConnectorEnabled)
  BY DEF AfterSink

LEMMA NextTableMoves ==
    ASSUME TypeInv, NEW i \in Instances, NextTable(i)
    PROVE  \/ at[i][1] = Len(TableSeq) /\ Moved(i, AfterSink, 1, 1)
           \/ at[i][1] < Len(TableSeq) /\ Moved(i, "look", at[i][1] + 1, 1)
  <1>1. at[i][1] \in 1..Len(TableSeq)
    BY TableKnown
  <1>2. CASE at[i][1] = Len(TableSeq)
    <2>1. Goto(i, AfterSink) /\ Move(i, 1, 1)
      BY <1>2 DEF NextTable
    <2> QED BY <1>2, <2>1, AfterSinkIs, Bounds DEF Moved, Move, Steps
  <1>3. CASE at[i][1] # Len(TableSeq)
    <2>1. Goto(i, "look") /\ Move(i, at[i][1] + 1, 1)
      BY <1>3 DEF NextTable
    <2>2. at[i][1] < Len(TableSeq) /\ at[i][1] + 1 \in 1..Len(TableSeq)
      BY <1>1, <1>3, Bounds
    <2> QED BY <2>1, <2>2 DEF Moved, Move, Steps
  <1> QED BY <1>2, <1>3

LEMMA NotServing ==
    ASSUME TypeInv, NEW i \in Instances, pc[i] # "serving"
    PROVE  working[i] = {} /\ used[i] = (IF Starting(i) THEN 1 ELSE 0)
  <1>1. working[i] = {} /\ Cardinality(working[i]) = 0
    BY FS_EmptySet DEF TypeInv, Placed
  <1> QED BY <1>1 DEF TypeInv, Pooled

LEMMA UsedThen ==
    ASSUME TypeInv, NEW i \in Instances
    PROVE  /\ UNCHANGED used => used'[i] = used[i]
           /\ Take(i) => used'[i] = used[i] + 1
           /\ PutBack(i) => used'[i] = used[i] - 1
  BY DEF TypeInv, Types, Take, PutBack

\* The types of what belongs to the instances, and of the world outside.
InstanceTypes ==
    /\ settings \in Settings /\ pc \in [Instances -> Steps]
    /\ at \in [Instances -> (1..Len(TableSeq)) \X (1..3)]
    /\ used \in [Instances -> Nat] /\ working \in [Instances -> SUBSET Workers]
    /\ \A i \in Instances : Placed(i) /\ Pooled(i)
WorldTypes ==
    /\ objects \subseteq Objects /\ creating \in [Instances -> SUBSET Objects]
    /\ rows \in [Keys -> {None, "seed", "written"}] /\ deleted \in BOOLEAN
    /\ resources \subseteq Resources /\ origins \subseteq ({"app", "connector"} \X Tables)
    /\ producers \in [Instances -> SUBSET Tables]
    /\ faults \in 0..MaxFaults /\ writes \in 0..MaxWrites
LEMMA TypesTogether == InstanceTypes' /\ WorldTypes' => TypeInv'
  BY DEF TypeInv, Types, InstanceTypes, WorldTypes

\* The connections an instance has at a step.
Taken(step, sub) ==
    IF step \in {"create", "commit", "insert"} \/ (step = "look" /\ sub > 1) THEN 1 ELSE 0

\* MoveKeeps in the form the actions of a start have.
LEMMA StartKeeps ==
    ASSUME TypeInv, NEW i \in Instances, pc[i] # "serving",
           NEW step, NEW n, NEW sub, Moved(i, step, n, sub),
           UNCHANGED <<settings, working>>,
           used' = used \/ Take(i) \/ PutBack(i),
           step # "off",
           step \in OfDatabase => settings.sink = "postgres",
           step \in {"ensure", "produce"} => ~ConnectorEnabled,
           used'[i] = Taken(step, sub)
    PROVE  InstanceTypes'
  <1>1. working[i] = {}
    BY NotServing
  <1>2. pc'[i] = step /\ at'[i][2] = sub
    BY MovedTo
  <1>3. Placed(i)'
    BY <1>1, <1>2 DEF Placed, ConnectorEnabled, HostOwnsCdc
  <1>4. used'[i] = (IF Starting(i)' THEN 1 ELSE 0)
    BY <1>2 DEF Starting, Taken
  <1>5. settings' \in Settings /\ working' \in [Instances -> SUBSET Workers]
    BY DEF TypeInv, Types
  <1> QED BY <1>1, <1>3, <1>4, <1>5, MoveKeeps DEF Moved, InstanceTypes

LEMMA StartTyped == ASSUME TypeInv, NEW i \in Instances, Start(i) PROVE TypeInv'
  <1>0. pc[i] # "serving"
    BY DEF Start
  <1>1. WorldTypes'
    BY DEF WorldTypes, TypeInv, Types, Database, Kafka, Requests, Env, Start
  <1>2. at[i] = <<1, 1>> /\ at[i][1] = 1 /\ at[i][2] = 1
    BY DEF TypeInv, Placed, Start
  <1>3. PICK step \in {"look", "ensure", "serving"} :
           /\ Goto(i, step)
           /\ step = "look" => settings.sink = "postgres"
           /\ step = "ensure" => ~ConnectorEnabled
    BY AfterSinkIs DEF Start
  <1>4. Moved(i, step, 1, 1)
    BY <1>2, <1>3, StaysAt, Bounds DEF Moved, Steps, Start
  <1>5. used'[i] = Taken(step, 1) /\ used' = used
    BY <1>3, NotServing DEF Starting, Taken, Start
  <1>6. UNCHANGED <<settings, working>>
    BY DEF Env, Requests, Start
  <1> QED BY <1>0, <1>1, <1>3, <1>4, <1>5, <1>6, StartKeeps, TypesTogether DEF OfDatabase, Taken

LEMMA LookTyped == ASSUME TypeInv, NEW i \in Instances, Look(i) PROVE TypeInv'
  <1>0. pc[i] # "serving"
    BY DEF Look
  <1>1. WorldTypes'
    BY DEF WorldTypes, TypeInv, Types, Database, Kafka, Requests, Env, Look
  <1>2. at[i][1] \in 1..Len(TableSeq) /\ at[i][2] \in 1..3
    BY TableKnown DEF Look
  <1>3. used[i] = (IF at[i][2] > 1 THEN 1 ELSE 0)
    BY NotServing DEF Starting, Look
  <1>4. used'[i] = 1 /\ (used' = used \/ Take(i))
    BY <1>2, <1>3, UsedThen DEF Look
  <1>5. settings.sink = "postgres"
    BY DEF TypeInv, Placed, OfDatabase, Look
  <1>6. UNCHANGED <<settings, working>>
    BY DEF Env, Requests, Look
  <1>7. \/ Moved(i, "create", at[i][1], at[i][2])
        \/ Moved(i, "commit", at[i][1], 3)
        \/ at[i][2] + 1 \in 2..3 /\ Moved(i, "look", at[i][1], at[i][2] + 1)
    <2>1. CASE NextObject(i)
      BY <1>2, <2>1, NextObjectMoves DEF Look
    <2>2. CASE Goto(i, "create") /\ UNCHANGED at
      BY <1>2, <2>2, StaysAt DEF Moved, Steps
    <2> QED BY <2>1, <2>2 DEF Look
  <1>8. PICK step \in {"create", "commit", "look"}, sub \in 1..3 :
           Moved(i, step, at[i][1], sub) /\ (step = "look" => sub > 1)
    BY <1>2, <1>7
  <1> QED BY <1>0, <1>1, <1>4, <1>5, <1>6, <1>8, StartKeeps, TypesTogether DEF Taken

LEMMA CreateTyped == ASSUME TypeInv, NEW i \in Instances, Create(i) PROVE TypeInv'
  <1>0. pc[i] # "serving"
    BY DEF Create
  <1>1. CASE Exit(i)
    BY <1>1, ExitKeeps DEF TypeInv, Types, Env, Create
  <1>2. CASE /\ creating' = [creating EXCEPT ![i] = @ \cup {Wanted(i)}]
             /\ NextObject(i) /\ UNCHANGED <<producers, used, working>>
    <2>1. WorldTypes'
      <3>1. Wanted(i) \in Objects
        BY TableKnown DEF Create
      <3>2. creating' \in [Instances -> SUBSET Objects]
        BY <1>2, <3>1 DEF TypeInv, Types
      <3> QED BY <1>2, <3>2 DEF WorldTypes, TypeInv, Types, Env, Create
    <2>2. used'[i] = 1
      BY <1>2, NotServing DEF Starting, Create
    <2>3. settings.sink = "postgres" /\ UNCHANGED settings
      BY DEF TypeInv, Placed, OfDatabase, Env, Create
    <2>4. PICK step \in {"commit", "look"}, sub \in 1..3 :
             Moved(i, step, at[i][1], sub) /\ (step = "look" => sub > 1)
      <3>1. at[i][2] \in 1..3
        BY TableKnown
      <3>2. at[i][2] < 3 => at[i][2] + 1 \in 1..3 /\ at[i][2] + 1 > 1
        BY <3>1
      <3> QED BY <1>2, <3>2, NextObjectMoves
    <2> QED BY <1>0, <1>2, <2>1, <2>2, <2>3, <2>4, StartKeeps, TypesTogether DEF Taken
  <1> QED BY <1>1, <1>2 DEF Create

LEMMA CommitSchemaTyped == ASSUME TypeInv, NEW i \in Instances, CommitSchema(i) PROVE TypeInv'
  <1>0. pc[i] # "serving"
    BY DEF CommitSchema
  <1>1. WorldTypes'
    BY DEF WorldTypes, TypeInv, Types, Kafka, Requests, Env, CommitSchema
  <1>2. Moved(i, "count", at[i][1], at[i][2])
    BY StaysAt, TableKnown DEF Moved, Steps, CommitSchema
  <1>3. used'[i] = 0 /\ PutBack(i)
    BY NotServing, UsedThen DEF Starting, CommitSchema
  <1>4. settings.sink = "postgres" /\ UNCHANGED <<settings, working>>
    BY DEF TypeInv, Placed, OfDatabase, Env, Requests, CommitSchema
  <1> QED BY <1>0, <1>1, <1>2, <1>3, <1>4, StartKeeps, TypesTogether DEF Taken

LEMMA CountTyped == ASSUME TypeInv, NEW i \in Instances, Count(i) PROVE TypeInv'
  <1>0. pc[i] # "serving"
    BY DEF Count
  <1>1. WorldTypes'
    BY DEF WorldTypes, TypeInv, Types, Database, Kafka, Requests, Env, Count
  <1>2. used[i] = 0
    BY NotServing DEF Starting, Count
  <1>3. settings.sink = "postgres" /\ UNCHANGED <<settings, working>>
    BY DEF TypeInv, Placed, OfDatabase, Env, Requests, Count
  <1>4. CASE Goto(i, "insert") /\ Take(i) /\ UNCHANGED at
    <2>1. Moved(i, "insert", at[i][1], at[i][2])
      BY <1>4, StaysAt, TableKnown DEF Moved, Steps
    <2>2. used'[i] = 1
      BY <1>2, <1>4, UsedThen
    <2> QED BY <1>0, <1>1, <1>3, <1>4, <2>1, <2>2, StartKeeps, TypesTogether DEF Taken
  <1>5. CASE NextTable(i) /\ UNCHANGED used
    <2>1. PICK step \in {"look", "ensure", "serving"}, n \in 1..Len(TableSeq) :
             Moved(i, step, n, 1) /\ (step = "ensure" => ~ConnectorEnabled)
      BY <1>5, NextTableMoves, AfterSinkIs DEF Moved, Count
    <2> QED BY <1>0, <1>1, <1>2, <1>3, <1>5, <2>1, StartKeeps, TypesTogether DEF Taken
  <1> QED BY <1>4, <1>5 DEF Count

LEMMA InsertTyped == ASSUME TypeInv, NEW i \in Instances, Insert(i) PROVE TypeInv'
  <1>0. pc[i] # "serving"
    BY DEF Insert
  <1>1. rows' \in [Keys -> {None, "seed", "written"}]
    BY DEF TypeInv, Types, Seeded, Insert
  <1>2. WorldTypes'
    BY <1>1 DEF WorldTypes, TypeInv, Types, Kafka, Requests, Env, Insert
  <1>3. used'[i] = 0 /\ PutBack(i)
    BY NotServing, UsedThen DEF Starting, Insert
  <1>4. settings.sink = "postgres" /\ UNCHANGED <<settings, working>>
    BY DEF TypeInv, Placed, OfDatabase, Env, Requests, Insert
  <1>5. PICK step \in {"look", "ensure", "serving"}, n \in 1..Len(TableSeq) :
           Moved(i, step, n, 1) /\ (step = "ensure" => ~ConnectorEnabled)
    BY NextTableMoves, AfterSinkIs DEF Moved, Insert
  <1> QED BY <1>0, <1>2, <1>3, <1>4, <1>5, StartKeeps, TypesTogether DEF Taken

LEMMA EnsureTyped == ASSUME TypeInv, NEW i \in Instances, Ensure(i) PROVE TypeInv'
  <1>0. pc[i] # "serving" /\ used'[i] = 0 /\ UNCHANGED <<used, settings, working>>
    BY NotServing DEF Ensure, Starting, Requests, Env
  <1>1. WorldTypes'
    <2>1. resources' \subseteq Resources /\ producers' \in [Instances -> SUBSET Tables]
      <3>1. TableAt(i) \in Tables /\ <<TableAt(i), at[i][2]>> \in Resources
        BY TableKnown
      <3>2. \/ /\ resources' = resources \cup {<<TableAt(i), at[i][2]>>}
               /\ \/ UNCHANGED producers
                  \/ producers' = [producers EXCEPT ![i] = @ \cup {TableAt(i)}]
            \/ UNCHANGED <<resources, producers>>
        BY DEF Ensure
      <3>3. resources \subseteq Resources /\ producers \in [Instances -> SUBSET Tables]
        BY DEF TypeInv, Types
      <3> QED BY <3>1, <3>2, <3>3
    <2> QED BY <2>1 DEF WorldTypes, TypeInv, Types, Ensure, Database, Requests, Env
  <1>2. ~ConnectorEnabled
    BY DEF TypeInv, Placed, Ensure
  <1>3. at[i][1] \in 1..Len(TableSeq) /\ at[i][2] \in 1..3
    BY TableKnown
  <1>4. PICK step \in {"ensure", "produce"}, sub \in 1..3 : Moved(i, step, at[i][1], sub)
    <2>1. CASE at[i][2] < 3 /\ Move(i, at[i][1], at[i][2] + 1) /\ UNCHANGED pc
      <3>1. Goto(i, "ensure")
        BY <2>1 DEF Ensure, Goto, TypeInv, Types
      <3>2. at[i][2] + 1 \in 1..3
        BY <1>3, <2>1
      <3>3. Moved(i, "ensure", at[i][1], at[i][2] + 1)
        BY <1>3, <2>1, <3>1, <3>2 DEF Move, Moved, Steps
      <3> QED BY <3>2, <3>3
    <2>2. CASE Goto(i, "produce") /\ Move(i, at[i][1], 1)
      BY <1>3, <2>2 DEF Move, Moved, Steps
    <2>3. CASE Goto(i, "produce") /\ UNCHANGED at
      <3>1. Moved(i, "produce", at[i][1], at[i][2])
        BY <1>3, <2>3, StaysAt DEF Moved, Steps
      <3> QED BY <1>3, <3>1
    <2> QED BY <2>1, <2>2, <2>3 DEF Ensure
  <1> QED BY <1>0, <1>1, <1>2, <1>4, StartKeeps, TypesTogether DEF Taken, OfDatabase

LEMMA ProduceMoves ==
    ASSUME TypeInv, NEW i \in Instances, Produce(i)
    PROVE  \/ at[i][1] = Len(TableSeq) /\ Moved(i, "serving", 1, 1)
           \/ at[i][1] < Len(TableSeq) /\ Moved(i, "ensure", at[i][1] + 1, 1)
  <1>1. at[i][1] \in 1..Len(TableSeq)
    BY TableKnown
  <1>2. CASE at[i][1] = Len(TableSeq)
    <2>1. Goto(i, "serving") /\ Move(i, 1, 1)
      BY <1>2 DEF Produce
    <2> QED BY <1>2, <2>1, Bounds DEF Moved, Move, Steps
  <1>3. CASE at[i][1] # Len(TableSeq)
    <2>1. Goto(i, "ensure") /\ Move(i, at[i][1] + 1, 1)
      BY <1>3 DEF Produce
    <2>2. at[i][1] < Len(TableSeq) /\ at[i][1] + 1 \in 1..Len(TableSeq)
      BY <1>1, <1>3, Bounds
    <2> QED BY <2>1, <2>2 DEF Moved, Move, Steps
  <1> QED BY <1>2, <1>3

LEMMA ProduceTyped == ASSUME TypeInv, NEW i \in Instances, Produce(i) PROVE TypeInv'
  <1>0. pc[i] # "serving" /\ used'[i] = 0 /\ UNCHANGED <<used, settings, working>>
    BY NotServing DEF Produce, Starting, Requests, Env
  <1>1. WorldTypes'
    <2>1. origins' \subseteq ({"app", "connector"} \X Tables)
      <3>1. <<"app", TableAt(i)>> \in {"app", "connector"} \X Tables
        BY TableKnown
      <3>2. origins' = origins \cup {<<"app", TableAt(i)>>} \/ origins' = origins
        BY DEF Produce
      <3> QED BY <3>1, <3>2 DEF TypeInv, Types
    <2> QED BY <2>1 DEF WorldTypes, TypeInv, Types, Produce, Database, Requests, Env
  <1>2. ~ConnectorEnabled
    BY DEF TypeInv, Placed, Produce
  <1>3. PICK step \in {"ensure", "serving"}, n \in 1..Len(TableSeq) : Moved(i, step, n, 1)
    BY ProduceMoves DEF Moved
  <1> QED BY <1>0, <1>1, <1>2, <1>3, StartKeeps, TypesTogether DEF Taken, OfDatabase

LEMMA FailuresTyped ==
    ASSUME TypeInv, NEW i \in Instances, StartFails(i) \/ Crash(i)
    PROVE  TypeInv'
  <1>1. faults' \in 0..MaxFaults
    BY FaultCounted DEF StartFails, Crash, TypeInv
  <1>2. Exit(i) /\ UNCHANGED settings
    BY DEF StartFails, Crash
  <1>3. WorldTypes'
    BY <1>1, <1>2, ExitKeeps DEF WorldTypes, TypeInv, Types, StartFails, Crash
  <1>4. InstanceTypes'
    BY <1>2, ExitKeeps DEF InstanceTypes, TypeInv, Types
  <1> QED BY <1>3, <1>4, TypesTogether

LEMMA SeedKafkaFailsTyped == ASSUME TypeInv, NEW i \in Instances, SeedKafkaFails(i) PROVE TypeInv'
  <1>0. pc[i] # "serving" /\ used'[i] = 0 /\ UNCHANGED <<used, settings, working>>
    BY NotServing DEF SeedKafkaFails, Starting, Requests
  <1>1. faults' \in 0..MaxFaults
    BY FaultCounted DEF SeedKafkaFails, TypeInv
  <1>2. WorldTypes'
    BY <1>1 DEF WorldTypes, TypeInv, Types, SeedKafkaFails, Database, Kafka, Requests
  <1>3. Moved(i, "serving", 1, 1)
    BY Bounds DEF Moved, SeedKafkaFails, Move, Steps
  <1> QED BY <1>0, <1>2, <1>3, StartKeeps, TypesTogether DEF Taken, OfDatabase

\* A step of a request that an instance serves.
LEMMA RequestKeeps ==
    ASSUME TypeInv, NEW i \in Instances, pc[i] = "serving", settings.sink = "postgres",
           UNCHANGED <<settings, pc, at>>,
           NEW W \in SUBSET Workers, IsFiniteSet(W), working' = [working EXCEPT ![i] = W],
           Take(i) \/ PutBack(i), used'[i] = Cardinality(W), used'[i] <= PoolSize
    PROVE  InstanceTypes'
  <1>1. /\ \A j \in Instances \ {i} : used'[j] = used[j] /\ working'[j] = working[j]
        /\ working'[i] = W /\ working' \in [Instances -> SUBSET Workers]
    BY DEF TypeInv, Types, Take, PutBack
  <1>2. used' \in [Instances -> Nat]
    <2>1. used'[i] \in Nat
      BY FS_CardinalityType
    <2> QED BY <1>1, <2>1 DEF TypeInv, Types, Take, PutBack
  <1>3. Placed(i)' /\ Pooled(i)'
    <2>1. Placed(i)'
      BY <1>1 DEF Placed, OfDatabase
    <2>2. ~Starting(i)'
      BY DEF Starting
    <2>3. Cardinality(W) + 0 = Cardinality(W)
      BY FS_CardinalityType
    <2> QED BY <1>1, <2>1, <2>2, <2>3 DEF Pooled
  <1>4. ASSUME NEW j \in Instances \ {i} PROVE Placed(j)' /\ Pooled(j)'
    BY <1>1 DEF TypeInv, Placed, Pooled, Starting, ConnectorEnabled, HostOwnsCdc
  <1> QED BY <1>1, <1>2, <1>3, <1>4 DEF InstanceTypes, TypeInv, Types

LEMMA ServingUses ==
    ASSUME TypeInv, NEW i \in Instances, pc[i] = "serving"
    PROVE  /\ IsFiniteSet(working[i]) /\ working[i] \in SUBSET Workers
           /\ used[i] = Cardinality(working[i]) /\ used[i] \in Nat /\ used[i] <= PoolSize
  <1>1. ~Starting(i)
    BY DEF Starting
  <1>2. Cardinality(working[i]) \in Nat
    BY FS_CardinalityType DEF TypeInv, Pooled
  <1> QED BY <1>1, <1>2 DEF TypeInv, Types, Pooled

LEMMA BeginTyped ==
    ASSUME TypeInv, NEW i \in Instances, NEW w \in Workers, Begin(i, w) PROVE TypeInv'
  <1> DEFINE W == working[i] \cup {w}
  <1>1. WorldTypes'
    <2>1. writes' \in 0..MaxWrites
      BY Bounds DEF Begin, TypeInv, Types
    <2> QED BY <2>1 DEF WorldTypes, TypeInv, Types, Begin, Database, Kafka, Env
  <1>2. IsFiniteSet(W) /\ Cardinality(W) = Cardinality(working[i]) + 1 /\ W \in SUBSET Workers
    BY ServingUses, FS_AddElement DEF Begin
  <1>3. Take(i) /\ used'[i] = Cardinality(W) /\ used'[i] <= PoolSize
    BY <1>2, ServingUses, UsedThen, Bounds DEF Begin
  <1>4. /\ pc[i] = "serving" /\ settings.sink = "postgres" /\ UNCHANGED <<settings, pc, at>>
        /\ working' = [working EXCEPT ![i] = W]
    BY DEF Begin, Env
  <1> HIDE DEF W
  <1> QED BY <1>1, <1>2, <1>3, <1>4, RequestKeeps, TypesTogether

\* A request ends: its connection returns to the pool.
LEMMA EndKeeps ==
    ASSUME TypeInv, NEW i \in Instances, NEW w \in working[i], PutBack(i),
           working' = [working EXCEPT ![i] = @ \ {w}], UNCHANGED <<settings, pc, at>>
    PROVE  InstanceTypes'
  <1> DEFINE W == working[i] \ {w}
  <1>1. pc[i] = "serving" /\ settings.sink = "postgres"
    BY DEF TypeInv, Placed
  <1>2. IsFiniteSet(W) /\ Cardinality(W) = Cardinality(working[i]) - 1 /\ W \in SUBSET Workers
    BY <1>1, ServingUses, FS_RemoveElement
  <1>3. used'[i] = Cardinality(W) /\ used'[i] <= PoolSize
    BY <1>1, <1>2, ServingUses, UsedThen, Bounds
  <1>4. working' = [working EXCEPT ![i] = W]
    OBVIOUS
  <1> HIDE DEF W
  <1> QED BY <1>1, <1>2, <1>3, <1>4, RequestKeeps

\* What publishing an event does to topics, producers and origins.
LEMMA PublishTypes ==
    ASSUME TypeInv, NEW i \in Instances, NEW t \in Tables, Publish(i, t) \/ Kafka
    PROVE  /\ resources' \subseteq Resources /\ producers' \in [Instances -> SUBSET Tables]
           /\ origins' \subseteq ({"app", "connector"} \X Tables)
  <1>1. /\ <<"app", t>> \in {"app", "connector"} \X Tables
        /\ \A n \in 1..3 : {t} \X (1..n) \subseteq Resources
    BY DEF Resources
  <1>2. /\ \/ resources' = resources
           \/ \E n \in 1..3 : resources' = resources \cup ({t} \X (1..n))
        /\ UNCHANGED producers \/ producers' = [producers EXCEPT ![i] = @ \cup {t}]
        /\ origins' = origins \/ origins' = origins \cup {<<"app", t>>}
    BY DEF Publish, Kafka
  <1>3. /\ resources \subseteq Resources /\ producers \in [Instances -> SUBSET Tables]
        /\ origins \subseteq ({"app", "connector"} \X Tables)
    BY DEF TypeInv, Types
  <1>4. resources' \subseteq Resources
    BY <1>1, <1>2, <1>3
  <1>5. producers' \in [Instances -> SUBSET Tables]
    BY <1>2, <1>3
  <1>6. origins' \subseteq ({"app", "connector"} \X Tables)
    BY <1>1, <1>2, <1>3
  <1> QED BY <1>4, <1>5, <1>6

LEMMA CommitTyped ==
    ASSUME TypeInv, NEW i \in Instances, NEW w \in Workers, Commit(i, w) PROVE TypeInv'
  <1>1. InstanceTypes'
    BY EndKeeps DEF Commit, Finish, Env
  <1>2. PICK k \in Keys, row \in {None, "written"} :
           /\ rows' = [rows EXCEPT ![k] = row] /\ deleted' = (deleted \/ row = None)
           /\ MaybeEmit(i, TableOf[k])
    BY DEF Commit
  <1>3. TableOf[k] \in Tables
    BY StartupConstantsOK
  <1>4. /\ resources' \subseteq Resources /\ producers' \in [Instances -> SUBSET Tables]
        /\ origins' \subseteq ({"app", "connector"} \X Tables)
    BY <1>2, <1>3, PublishTypes DEF MaybeEmit
  <1>5. rows' \in [Keys -> {None, "seed", "written"}] /\ deleted' \in BOOLEAN
    BY <1>2 DEF TypeInv, Types
  <1>6. WorldTypes'
    BY <1>4, <1>5 DEF WorldTypes, TypeInv, Types, Commit, Env
  <1> QED BY <1>1, <1>6, TypesTogether

LEMMA RollbackTyped ==
    ASSUME TypeInv, NEW i \in Instances, NEW w \in Workers, Rollback(i, w) PROVE TypeInv'
  <1>1. InstanceTypes'
    BY EndKeeps DEF Rollback, Finish, Env
  <1>2. WorldTypes'
    BY DEF WorldTypes, TypeInv, Types, Rollback, Database, Kafka, Env
  <1> QED BY <1>1, <1>2, TypesTogether

\* A step that leaves the instances alone.
LEMMA InstancesKept ==
    ASSUME TypeInv, UNCHANGED <<settings, pc, at, used, working>>
    PROVE  InstanceTypes'
  BY DEF InstanceTypes, TypeInv, Types, Placed, Pooled, Starting, ConnectorEnabled, HostOwnsCdc

LEMMA ListWriteTyped ==
    ASSUME TypeInv, NEW i \in Instances, NEW t \in Listed, ListWrite(i, t) PROVE TypeInv'
  <1>1. InstanceTypes'
    BY InstancesKept DEF ListWrite, Env
  <1>2. t \in Tables
    BY StartupConstantsOK
  <1>3. /\ resources' \subseteq Resources /\ producers' \in [Instances -> SUBSET Tables]
        /\ origins' \subseteq ({"app", "connector"} \X Tables)
    BY <1>2, PublishTypes DEF ListWrite
  <1>4. writes' \in 0..MaxWrites
    BY Bounds DEF ListWrite, TypeInv, Types
  <1>5. WorldTypes'
    BY <1>3, <1>4 DEF WorldTypes, TypeInv, Types, ListWrite, Database, Env
  <1> QED BY <1>1, <1>5, TypesTogether

LEMMA ConnectorTyped == ASSUME TypeInv, Connector PROVE TypeInv'
  <1>1. InstanceTypes'
    BY InstancesKept DEF Connector, Requests, Env
  <1>2. PICK k \in Keys : origins' = origins \cup {<<"connector", TableOf[k]>>}
    BY DEF Connector
  <1>3. TableOf[k] \in Tables
    BY StartupConstantsOK
  <1>4. WorldTypes'
    <2>1. <<"connector", TableOf[k]>> \in {"app", "connector"} \X Tables
      BY <1>3
    <2>2. origins' \subseteq ({"app", "connector"} \X Tables)
      BY <1>2, <2>1 DEF TypeInv, Types
    <2> QED BY <2>2 DEF WorldTypes, TypeInv, Types, Connector, Database, Requests, Env
  <1> QED BY <1>1, <1>4, TypesTogether

LEMMA InitTyped == Init => TypeInv
  <1> SUFFICES ASSUME Init PROVE TypeInv
    OBVIOUS
  <1>1. ASSUME NEW i \in Instances PROVE Placed(i) /\ Pooled(i)
    <2>1. pc[i] = "off" /\ at[i] = <<1, 1>> /\ working[i] = {} /\ used[i] = 0
      BY DEF Init
    <2> QED BY <2>1, FS_EmptySet, Bounds DEF Placed, Pooled, Starting, OfDatabase
  <1>2. <<1, 1>> \in (1..Len(TableSeq)) \X (1..3)
    BY Bounds
  <1>3. at \in [Instances -> (1..Len(TableSeq)) \X (1..3)]
    BY <1>2 DEF Init
  <1>4. 0 \in 0..MaxFaults /\ 0 \in 0..MaxWrites
    BY Bounds
  <1>5. objects \subseteq Objects /\ rows \in [Keys -> {None, "seed", "written"}]
    BY DEF Init
  <1> QED BY <1>1, <1>3, <1>4, <1>5 DEF TypeInv, Types, Init, Steps

LEMMA NextTyped == TypeInv /\ [Next]_vars => TypeInv'
  <1> SUFFICES ASSUME TypeInv, [Next]_vars PROVE TypeInv'
    OBVIOUS
  <1>1. ASSUME NEW i \in Instances, Step(i) PROVE TypeInv'
    BY <1>1, LookTyped, CreateTyped, CommitSchemaTyped, CountTyped, InsertTyped, EnsureTyped,
       ProduceTyped DEF Step
  <1>2. ASSUME NEW i \in Instances, NEW w \in Workers,
               Begin(i, w) \/ Commit(i, w) \/ Rollback(i, w)
        PROVE  TypeInv'
    BY <1>2, BeginTyped, CommitTyped, RollbackTyped
  <1>3. ASSUME NEW i \in Instances, NEW t \in Listed, ListWrite(i, t) PROVE TypeInv'
    BY <1>3, ListWriteTyped
  <1>4. CASE UNCHANGED vars
    <2>1. InstanceTypes'
      BY <1>4, InstancesKept DEF vars
    <2>2. WorldTypes'
      BY <1>4 DEF vars, WorldTypes, TypeInv, Types
    <2> QED BY <2>1, <2>2, TypesTogether
  <1> QED BY <1>1, <1>2, <1>3, <1>4, StartTyped, FailuresTyped, SeedKafkaFailsTyped, ConnectorTyped
      DEF Next
-----------------------------------------------------------------------------
(* Topics and their producers *)

Whole3(t) == {<<t, 1>>, <<t, 2>>, <<t, 3>>}

\* The backend publishes to topics it has provisioned; with SINK=postgres only
\* without a connector.
Provisioned(i) ==
    /\ \A t \in producers[i] : Whole3(t) \subseteq resources
    /\ pc[i] = "ensure" /\ TableAt(i) \notin producers[i] =>
          \A n \in 1..(at[i][2] - 1) : <<TableAt(i), n>> \in resources
    /\ pc[i] = "produce" => TableAt(i) \in producers[i]
Origins ==
    \A t \in Tables :
        /\ <<"app", t>> \in origins => /\ OnPostgres => ~ConnectorEnabled
                                       /\ Whole3(t) \subseteq resources
        /\ <<"connector", t>> \in origins => ConnectorRuns
TopicInv == TypeInv /\ Origins /\ \A i \in Instances : Provisioned(i)

LEMMA Triple == ASSUME NEW t PROVE {t} \X (1..3) = Whole3(t)
  <1>1. ASSUME NEW x \in {t} \X (1..3) PROVE x \in Whole3(t)
    BY <1>1 DEF Whole3
  <1>2. ASSUME NEW x \in Whole3(t) PROVE x \in {t} \X (1..3)
    BY <1>2 DEF Whole3
  <1> QED BY <1>1, <1>2

\* An instance that is not ensuring or producing afterwards.
LEMMA ProvisionedAside ==
    ASSUME TopicInv, NEW i \in Instances, pc'[i] \notin {"ensure", "produce"},
           producers'[i] \subseteq producers[i], resources \subseteq resources'
    PROVE  Provisioned(i)'
  BY DEF TopicInv, Provisioned

\* An instance that stands still while topics are added.
LEMMA ProvisionedStill ==
    ASSUME TopicInv, NEW i \in Instances, pc'[i] = pc[i], at'[i] = at[i],
           producers'[i] = producers[i], resources \subseteq resources'
    PROVE  Provisioned(i)'
  BY DEF TopicInv, Provisioned, TableAt

LEMMA OriginsKept ==
    ASSUME TopicInv, UNCHANGED <<settings, origins>>, resources \subseteq resources'
    PROVE  Origins'
  BY DEF TopicInv, Origins, OnPostgres, ConnectorEnabled, HostOwnsCdc, ConnectorRuns

\* A step of a start that comes to the seed of the topics, or passes it by.
LEMMA BeforeTopics ==
    ASSUME TopicInv, NEW i \in Instances, NEW step, NEW n, NEW sub, Moved(i, step, n, sub),
           UNCHANGED <<settings, producers, resources, origins>>,
           step # "produce", step = "ensure" => sub = 1
    PROVE  Origins' /\ \A j \in Instances : Provisioned(j)'
  <1>1. /\ pc'[i] = step /\ at'[i][2] = sub
        /\ \A j \in Instances \ {i} : pc'[j] = pc[j] /\ at'[j] = at[j]
    BY MovedTo DEF TopicInv
  <1>2. Provisioned(i)'
    <2>1. step = "ensure" => 1..(at'[i][2] - 1) = {}
      BY <1>1
    <2> QED BY <1>1, <2>1 DEF TopicInv, Provisioned
  <1> QED BY <1>1, <1>2, OriginsKept, ProvisionedStill

LEMMA EnsureTopics ==
    ASSUME TopicInv, NEW i \in Instances, Ensure(i)
    PROVE  Origins' /\ \A j \in Instances : Provisioned(j)'
  <1> DEFINE t == TableAt(i)
  <1>1. /\ TypeInv /\ Provisioned(i) /\ t \in Tables
        /\ at[i][1] \in 1..Len(TableSeq) /\ at[i][2] \in 1..3
    BY TableKnown DEF TopicInv
  <1>2. resources \subseteq resources' /\ UNCHANGED <<settings, origins>>
    BY DEF Ensure, Env
  <1>3. \A j \in Instances \ {i} :
           pc'[j] = pc[j] /\ at'[j] = at[j] /\ producers'[j] = producers[j]
    BY <1>1 DEF Ensure, Goto, Move, TypeInv, Types
  <1>4. CASE /\ t \notin producers[i] /\ resources' = resources \cup {<<t, at[i][2]>>}
             /\ at[i][2] < 3 /\ Move(i, at[i][1], at[i][2] + 1) /\ UNCHANGED <<pc, producers>>
    <2>1. at'[i][1] = at[i][1] /\ at'[i][2] = at[i][2] + 1 /\ TableAt(i)' = t
      BY <1>1, <1>4 DEF Move, TypeInv, Types, TableAt
    <2>2. \A n \in 1..(at'[i][2] - 1) : n = at[i][2] \/ n \in 1..(at[i][2] - 1)
      BY <1>1, <2>1
    <2>3. Provisioned(i)'
      BY <1>1, <1>2, <1>4, <2>1, <2>2 DEF Provisioned, Ensure
    <2> QED BY <1>2, <1>3, <2>3, OriginsKept, ProvisionedStill
  <1>5. CASE /\ t \notin producers[i] /\ resources' = resources \cup {<<t, at[i][2]>>}
             /\ at[i][2] = 3 /\ producers' = [producers EXCEPT ![i] = @ \cup {t}]
             /\ Goto(i, "produce") /\ Move(i, at[i][1], 1)
    <2>1. at'[i][1] = at[i][1] /\ TableAt(i)' = t /\ pc'[i] = "produce"
          /\ producers'[i] = producers[i] \cup {t}
      BY <1>1, <1>5 DEF Move, Goto, TypeInv, Types, TableAt
    <2>2. <<t, 1>> \in resources /\ <<t, 2>> \in resources
      <3>1. 1 \in 1..(at[i][2] - 1) /\ 2 \in 1..(at[i][2] - 1)
        BY <1>5
      <3> QED BY <1>1, <1>5, <3>1 DEF Provisioned, Ensure
    <2>3. Whole3(t) \subseteq resources'
      BY <1>5, <2>2 DEF Whole3
    <2>4. Provisioned(i)'
      BY <1>1, <1>2, <2>1, <2>3 DEF Provisioned
    <2> QED BY <1>2, <1>3, <2>4, OriginsKept, ProvisionedStill
  <1>6. CASE t \in producers[i] /\ Goto(i, "produce") /\ UNCHANGED <<resources, producers, at>>
    <2>1. pc'[i] = "produce" /\ TableAt(i)' = t
      BY <1>1, <1>6 DEF Goto, TypeInv, Types, TableAt
    <2>2. Provisioned(i)'
      BY <1>1, <1>2, <1>6, <2>1 DEF Provisioned
    <2> QED BY <1>2, <1>3, <2>2, OriginsKept, ProvisionedStill
  <1> HIDE DEF t
  <1> QED BY <1>4, <1>5, <1>6 DEF Ensure, t

LEMMA ProduceTopics ==
    ASSUME TopicInv, NEW i \in Instances, Produce(i)
    PROVE  Origins' /\ \A j \in Instances : Provisioned(j)'
  <1> DEFINE t == TableAt(i)
  <1>1. TypeInv /\ t \in producers[i] /\ Whole3(t) \subseteq resources /\ ~ConnectorEnabled
    BY DEF TopicInv, Provisioned, Produce, TypeInv, Placed
  <1>2. UNCHANGED <<settings, producers, resources>>
    BY DEF Produce, Env
  <1>3. Origins'
    <2>1. origins' = origins \cup {<<"app", t>>} \/ origins' = origins
      BY DEF Produce
    <2> HIDE DEF t
    <2>2. ASSUME NEW u \in Tables
          PROVE  /\ <<"connector", u>> \in origins' => <<"connector", u>> \in origins
                 /\ <<"app", u>> \in origins' => u = t \/ <<"app", u>> \in origins
      BY <2>1
    <2>3. /\ (ConnectorEnabled' <=> ConnectorEnabled) /\ (ConnectorRuns' <=> ConnectorRuns)
          /\ (OnPostgres' <=> OnPostgres)
      BY <1>2 DEF OnPostgres, ConnectorEnabled, HostOwnsCdc, ConnectorRuns
    <2> QED BY <1>1, <1>2, <2>2, <2>3 DEF TopicInv, Origins
  <1>4. PICK step \in {"ensure", "serving"}, n \in 1..Len(TableSeq) : Moved(i, step, n, 1)
    BY <1>1, ProduceMoves DEF Moved
  <1>5. /\ pc'[i] = step /\ at'[i][2] = 1
        /\ \A j \in Instances \ {i} : pc'[j] = pc[j] /\ at'[j] = at[j]
    BY <1>1, <1>4, MovedTo
  <1>6. Provisioned(i)'
    <2>1. 1..(at'[i][2] - 1) = {}
      BY <1>5
    <2> QED BY <1>2, <1>5, <2>1 DEF TopicInv, Provisioned
  <1> QED BY <1>2, <1>3, <1>5, <1>6, ProvisionedStill

LEMMA ExitTopics ==
    ASSUME TopicInv, NEW i \in Instances, Exit(i), UNCHANGED <<settings, resources, origins>>
    PROVE  Origins' /\ \A j \in Instances : Provisioned(j)'
  <1>1. /\ pc'[i] = "off" /\ producers'[i] = {}
        /\ \A j \in Instances \ {i} :
              pc'[j] = pc[j] /\ at'[j] = at[j] /\ producers'[j] = producers[j]
    BY DEF Exit, Goto, Move, TopicInv, TypeInv, Types
  <1> QED BY <1>1, OriginsKept, ProvisionedStill, ProvisionedAside

\* A request publishes: with SINK=postgres only without a connector.
LEMMA PublishTopics ==
    ASSUME TopicInv, NEW i \in Instances, NEW t \in Tables, Publish(i, t) \/ Kafka,
           pc[i] = "serving", UNCHANGED <<settings, pc, at>>,
           OnPostgres => (~ConnectorEnabled \/ Kafka)
    PROVE  Origins' /\ \A j \in Instances : Provisioned(j)'
  <1>1. producers \in [Instances -> SUBSET Tables]
    BY DEF TopicInv, TypeInv, Types
  <1>2. CASE UNCHANGED <<producers, origins>> /\ resources \subseteq resources'
    BY <1>2, OriginsKept, ProvisionedStill
  <1>3. CASE /\ OnPostgres => ~ConnectorEnabled
             /\ producers' = [producers EXCEPT ![i] = @ \cup {t}]
             /\ resources' = IF t \in producers[i] THEN resources
                                                   ELSE resources \cup Whole3(t)
             /\ origins' = origins \/ origins' = origins \cup {<<"app", t>>}
    <2>1. resources \subseteq resources' /\ Whole3(t) \subseteq resources'
      BY <1>3 DEF TopicInv, Provisioned
    <2>2. /\ producers'[i] = producers[i] \cup {t}
          /\ \A j \in Instances \ {i} : producers'[j] = producers[j]
      BY <1>1, <1>3
    <2>3. Provisioned(i)'
      BY <2>1, <2>2 DEF TopicInv, Provisioned
    <2>4. Origins'
      <3>1. ASSUME NEW u \in Tables
            PROVE  /\ <<"connector", u>> \in origins' => <<"connector", u>> \in origins
                   /\ <<"app", u>> \in origins' => u = t \/ <<"app", u>> \in origins
        BY <1>3
      <3>2. /\ (ConnectorEnabled' <=> ConnectorEnabled) /\ (ConnectorRuns' <=> ConnectorRuns)
            /\ (OnPostgres' <=> OnPostgres)
        BY DEF OnPostgres, ConnectorEnabled, HostOwnsCdc, ConnectorRuns
      <3> QED BY <1>3, <2>1, <3>1, <3>2 DEF TopicInv, Origins
    <2> QED BY <2>1, <2>2, <2>3, <2>4, ProvisionedStill
  <1>4. Kafka => UNCHANGED <<producers, origins>> /\ resources \subseteq resources'
    BY DEF Kafka
  <1> QED BY <1>2, <1>3, <1>4, Triple DEF Publish

LEMMA CommitTopics ==
    ASSUME TopicInv, NEW i \in Instances, NEW w \in Workers, Commit(i, w)
    PROVE  Origins' /\ \A j \in Instances : Provisioned(j)'
  <1>1. pc[i] = "serving" /\ UNCHANGED <<settings, pc, at>>
    BY DEF TopicInv, TypeInv, Placed, Commit, Env
  <1>2. PICK k \in Keys : MaybeEmit(i, TableOf[k])
    BY DEF Commit
  <1>3. TableOf[k] \in Tables
    BY StartupConstantsOK
  <1>4. (Publish(i, TableOf[k]) /\ ~ConnectorEnabled) \/ Kafka
    BY <1>2 DEF MaybeEmit
  <1> QED BY <1>1, <1>3, <1>4, PublishTopics

LEMMA ListWriteTopics ==
    ASSUME TopicInv, NEW i \in Instances, NEW t \in Listed, ListWrite(i, t)
    PROVE  Origins' /\ \A j \in Instances : Provisioned(j)'
  <1>1. t \in Tables /\ pc[i] = "serving" /\ UNCHANGED <<settings, pc, at>> /\ Publish(i, t)
    BY StartupConstantsOK DEF ListWrite, Env
  <1>2. ~OnPostgres
    BY DEF ListWrite, OnPostgres
  <1> QED BY <1>1, <1>2, PublishTopics

LEMMA ProvisionedUnchanged ==
    ASSUME TopicInv, UNCHANGED <<pc, at, producers, resources>>
    PROVE  \A j \in Instances : Provisioned(j)'
  BY DEF TopicInv, Provisioned, TableAt

LEMMA TopicsStill ==
    ASSUME TopicInv, UNCHANGED <<settings, pc, at, producers, resources, origins>>
    PROVE  Origins' /\ \A j \in Instances : Provisioned(j)'
  BY ProvisionedUnchanged, OriginsKept

LEMMA NextTopics == TopicInv /\ [Next]_vars => TopicInv'
  <1> SUFFICES ASSUME TopicInv, [Next]_vars PROVE TopicInv'
    OBVIOUS
  <1>0. TypeInv /\ TypeInv'
    BY NextTyped DEF TopicInv
  <1> DEFINE Kept == Origins' /\ \A j \in Instances : Provisioned(j)'
  <1> HIDE DEF Kept
  <1>1. ASSUME NEW i \in Instances, Start(i) PROVE Kept
    <2>1. PICK step \in {"look", "ensure", "serving"} : Goto(i, step) /\ UNCHANGED at
      BY <1>1, AfterSinkIs DEF Start
    <2>2. at[i] = <<1, 1>> /\ at[i][1] = 1 /\ at[i][2] = 1
      BY <1>0, <1>1 DEF Start, TypeInv, Placed
    <2>3. Moved(i, step, 1, 1)
      BY <1>0, <2>1, <2>2, StaysAt, Bounds DEF Moved, Steps
    <2> QED BY <1>1, <2>3, BeforeTopics DEF Start, Kafka, Env, Kept
  <1>2. ASSUME NEW i \in Instances, Look(i) PROVE Kept
    <2>1. UNCHANGED <<settings, producers, resources, origins>>
      BY <1>2 DEF Look, Kafka, Env
    <2>2. CASE NextObject(i)
      <3>1. PICK step \in {"commit", "look"}, n \in 1..Len(TableSeq), sub \in 1..3 :
               Moved(i, step, n, sub)
        BY <1>0, <2>2, NextObjectMoves DEF Moved
      <3> QED BY <2>1, <3>1, BeforeTopics DEF Kept
    <2>3. CASE Goto(i, "create") /\ UNCHANGED at
      <3>1. Moved(i, "create", at[i][1], at[i][2])
        BY <1>0, <2>3, StaysAt, TableKnown DEF Moved, Steps
      <3> QED BY <2>1, <3>1, BeforeTopics DEF Kept
    <2> QED BY <1>2, <2>2, <2>3 DEF Look
  <1>3. ASSUME NEW i \in Instances, Create(i) PROVE Kept
    <2>1. UNCHANGED <<settings, resources, origins>>
      BY <1>3 DEF Create, Env
    <2>2. CASE NextObject(i) /\ UNCHANGED producers
      <3>1. PICK step \in {"commit", "look"}, n \in 1..Len(TableSeq), sub \in 1..3 :
               Moved(i, step, n, sub)
        BY <1>0, <2>2, NextObjectMoves DEF Moved
      <3> QED BY <2>1, <2>2, <3>1, BeforeTopics DEF Kept
    <2>3. CASE Exit(i)
      BY <2>1, <2>3, ExitTopics DEF Kept
    <2> QED BY <1>3, <2>2, <2>3 DEF Create
  <1>4. ASSUME NEW i \in Instances, CommitSchema(i) PROVE Kept
    <2>1. Moved(i, "count", at[i][1], at[i][2])
      BY <1>0, <1>4, StaysAt, TableKnown DEF CommitSchema, Moved, Steps
    <2> QED BY <1>4, <2>1, BeforeTopics DEF CommitSchema, Kafka, Env, Kept
  <1>5. ASSUME NEW i \in Instances, Count(i) \/ Insert(i) PROVE Kept
    <2>1. UNCHANGED <<settings, producers, resources, origins>>
      BY <1>5 DEF Count, Insert, Kafka, Env
    <2>2. CASE NextTable(i)
      <3>1. PICK step \in {"look", "ensure", "serving"}, n \in 1..Len(TableSeq) :
               Moved(i, step, n, 1)
        BY <1>0, <2>2, NextTableMoves, AfterSinkIs DEF Moved
      <3> QED BY <2>1, <3>1, BeforeTopics DEF Kept
    <2>3. CASE Goto(i, "insert") /\ UNCHANGED at
      <3>1. Moved(i, "insert", at[i][1], at[i][2])
        BY <1>0, <2>3, StaysAt, TableKnown DEF Moved, Steps
      <3> QED BY <2>1, <3>1, BeforeTopics DEF Kept
    <2> QED BY <1>5, <2>2, <2>3 DEF Count, Insert
  <1>6. ASSUME NEW i \in Instances, SeedKafkaFails(i) PROVE Kept
    <2>1. Moved(i, "serving", 1, 1)
      BY <1>6, Bounds DEF Moved, SeedKafkaFails, Move, Steps
    <2> QED BY <1>6, <2>1, BeforeTopics DEF SeedKafkaFails, Kafka, Kept
  <1>7. ASSUME NEW i \in Instances, StartFails(i) \/ Crash(i) PROVE Kept
    BY <1>7, ExitTopics DEF StartFails, Crash, Kept
  <1>8. ASSUME NEW i \in Instances, NEW w \in Workers, Begin(i, w) \/ Rollback(i, w) PROVE Kept
    BY <1>8, TopicsStill DEF Begin, Rollback, Kafka, Env, Kept
  <1>9. ASSUME Connector PROVE Kept
    <2>1. PICK k \in Keys : origins' = origins \cup {<<"connector", TableOf[k]>>}
      BY <1>9 DEF Connector
    <2>2. ASSUME NEW u \in Tables
          PROVE  <<"app", u>> \in origins' => <<"app", u>> \in origins
      BY <2>1
    <2>3. UNCHANGED <<settings, pc, at, producers, resources>> /\ ConnectorRuns
      BY <1>9 DEF Connector, Env
    <2>4. Origins'
      BY <2>2, <2>3
      DEF TopicInv, Origins, OnPostgres, ConnectorEnabled, HostOwnsCdc, ConnectorRuns
    <2>5. \A j \in Instances : Provisioned(j)'
      BY <2>3, ProvisionedUnchanged
    <2> QED BY <2>4, <2>5 DEF Kept
  <1>10. Kept
    <2>1. ASSUME NEW i \in Instances, Step(i) PROVE Kept
      BY <2>1, <1>2, <1>3, <1>4, <1>5, EnsureTopics, ProduceTopics DEF Step, Kept
    <2>2. CASE UNCHANGED vars
      BY <2>2, TopicsStill DEF vars, Kept
    <2>3. ASSUME NEW i \in Instances, NEW w \in Workers, Commit(i, w) PROVE Kept
      BY <2>3, CommitTopics DEF Kept
    <2>4. ASSUME NEW i \in Instances, NEW t \in Listed, ListWrite(i, t) PROVE Kept
      BY <2>4, ListWriteTopics DEF Kept
    <2> QED BY <2>1, <2>2, <2>3, <2>4, <1>1, <1>6, <1>7, <1>8, <1>9 DEF Next
  <1> QED BY <1>0, <1>10 DEF TopicInv, Kept
-----------------------------------------------------------------------------
(* Schema and seed *)

ObjectsOf(t) == {<<t>>, Publication, <<"in publication", t>>}
Done(n) == \A m \in 1..(n - 1) : ObjectsOf(TableSeq[m]) \subseteq objects
Filled(n) == \A m \in 1..(n - 1) : \A k \in InTable(TableSeq[m]) : rows[k] # None

\* Every table before the one at hand is complete, and so is the part of this one
\* that the open transaction has been through.
Built(i) ==
    /\ pc[i] \in OfDatabase => Done(at[i][1]) /\ (~deleted => Filled(at[i][1]))
    /\ pc[i] \in {"look", "create"} /\ at[i][2] > 1 => <<TableAt(i)>> \in objects \cup creating[i]
    /\ pc[i] \in {"look", "create"} /\ at[i][2] > 2 => Publication \in objects \cup creating[i]
    /\ pc[i] = "commit" => ObjectsOf(TableAt(i)) \subseteq objects \cup creating[i]
    /\ pc[i] \in {"count", "insert"} => ObjectsOf(TableAt(i)) \subseteq objects
    /\ pc[i] \in {"ensure", "produce", "serving"} /\ OnPostgres =>
          /\ Done(Len(TableSeq) + 1)
          /\ ~deleted => \A k \in Keys : rows[k] # None

\* Unless a request has deleted a row, a table is empty or holds its whole seed.
AllOrNone ==
    ~deleted => \A j, k \in Keys : TableOf[j] = TableOf[k] /\ rows[j] # None => rows[k] # None
ReadyInv == TypeInv /\ AllOrNone /\ \A i \in Instances : Built(i)

RowsGrow == ~deleted' => ~deleted /\ \A k \in Keys : rows[k] # None => rows'[k] # None

LEMMA TableRows ==
    ASSUME NEW n \in 1..Len(TableSeq), NEW k \in InTable(TableSeq[n])
    PROVE  k \in Keys /\ TableOf[k] = TableSeq[n]
  BY DEF InTable

\* What is done stays done.
LEMMA DoneStays ==
    ASSUME objects \subseteq objects', RowsGrow, NEW n
    PROVE  /\ Done(n) => Done(n)'
           /\ ~deleted' /\ (~deleted => Filled(n)) => Filled(n)'
           /\ ~deleted' /\ (~deleted => \A k \in Keys : rows[k] # None) =>
                 \A k \in Keys : rows'[k] # None
  BY DEF Done, RowsGrow, Filled, InTable

\* An instance that stands still, or moves on without touching the database.
LEMMA BuiltStill ==
    ASSUME ReadyInv, NEW i \in Instances, UNCHANGED settings,
           \/ pc'[i] = pc[i] /\ at'[i] = at[i] /\ creating'[i] = creating[i]
           \/ {pc[i], pc'[i]} \subseteq {"ensure", "produce", "serving"}
           \/ pc'[i] = "off",
           objects \subseteq objects', RowsGrow
    PROVE  Built(i)'
  <1>1. CASE pc'[i] = pc[i] /\ at'[i] = at[i] /\ creating'[i] = creating[i]
    <2>1. TableAt(i)' = TableAt(i) /\ (OnPostgres' <=> OnPostgres)
      BY <1>1 DEF TableAt, OnPostgres
    <2>2. objects \cup creating[i] \subseteq (objects \cup creating[i])'
      BY <1>1
    <2>3. /\ Done(at[i][1]) => Done(at[i][1])'
          /\ ~deleted' /\ (~deleted => Filled(at[i][1])) => Filled(at[i][1])'
          /\ Done(Len(TableSeq) + 1) => Done(Len(TableSeq) + 1)'
          /\ ~deleted' /\ (~deleted => \A k \in Keys : rows[k] # None) =>
                \A k \in Keys : rows'[k] # None
      BY <1>1, DoneStays DEF Done, Filled
    <2>4. ObjectsOf(TableAt(i))' = ObjectsOf(TableAt(i))
      BY <2>1 DEF ObjectsOf
    <2>5. Built(i)
      BY DEF ReadyInv
    <2> QED BY <1>1, <2>1, <2>2, <2>3, <2>4, <2>5 DEF Built
  <1>2. CASE {pc[i], pc'[i]} \subseteq {"ensure", "produce", "serving"}
    <2>1. Built(i)
      BY DEF ReadyInv
    <2>2. pc'[i] \notin OfDatabase
      BY <1>2 DEF OfDatabase
    <2>3. OnPostgres' <=> OnPostgres
      BY DEF OnPostgres
    <2>4. Done(Len(TableSeq) + 1) => Done(Len(TableSeq) + 1)'
      BY DEF Done
    <2> QED BY <1>2, <2>1, <2>2, <2>3, <2>4, DoneStays DEF Built
  <1>3. CASE pc'[i] = "off"
    BY <1>3 DEF Built, OfDatabase
  <1> QED BY <1>1, <1>2, <1>3

\* The object wanted is there, and the next one is looked for.
LEMMA NextObjectBuilt ==
    ASSUME ReadyInv, NEW i \in Instances, pc[i] \in {"look", "create"}, NextObject(i),
           UNCHANGED <<settings, objects, rows, deleted>>,
           creating[i] \subseteq creating'[i], Wanted(i) \in objects \cup creating'[i]
    PROVE  Built(i)'
  <1>1. TypeInv /\ Built(i) /\ at[i][2] \in 1..3 /\ at[i][1] \in 1..Len(TableSeq)
    BY TableKnown DEF ReadyInv
  <1>2. /\ Done(at[i][1]) /\ (~deleted => Filled(at[i][1]))
        /\ at[i][2] > 1 => <<TableAt(i)>> \in objects \cup creating'[i]
        /\ at[i][2] > 2 => Publication \in objects \cup creating'[i]
    BY <1>1 DEF Built, OfDatabase
  <1>3. CASE at[i][2] = 3 /\ Moved(i, "commit", at[i][1], 3)
    <2>1. pc'[i] = "commit" /\ at'[i][1] = at[i][1] /\ TableAt(i)' = TableAt(i)
      BY <1>1, <1>3, MovedTo DEF TableAt
    <2>2. Wanted(i) = <<"in publication", TableAt(i)>>
      BY <1>3, WantedCases
    <2>3. ObjectsOf(TableAt(i)) \subseteq objects \cup creating'[i]
      <3>1. at[i][2] > 1 /\ at[i][2] > 2
        BY <1>3
      <3>2. <<"in publication", TableAt(i)>> \in objects \cup creating'[i]
        BY <2>2, Zenon
      <3> QED BY <1>2, <3>1, <3>2 DEF ObjectsOf
    <2>4. ObjectsOf(TableAt(i))' = ObjectsOf(TableAt(i))
      BY <2>1 DEF ObjectsOf
    <2>5. Done(at[i][1])' /\ (~deleted' => Filled(at[i][1])')
      BY <1>2, <2>1 DEF Done, Filled, InTable
    <2> QED BY <1>2, <2>1, <2>3, <2>4, <2>5 DEF Built, OfDatabase
  <1>4. CASE at[i][2] < 3 /\ Moved(i, "look", at[i][1], at[i][2] + 1)
    <2>1. /\ pc'[i] = "look" /\ at'[i][1] = at[i][1] /\ at'[i][2] = at[i][2] + 1
          /\ TableAt(i)' = TableAt(i)
      BY <1>1, <1>4, MovedTo DEF TableAt
    <2>2. <<TableAt(i)>> \in objects \cup creating'[i]
      <3>1. at[i][2] = 1 => <<TableAt(i)>> \in objects \cup creating'[i]
        BY WantedCases
      <3> QED BY <1>1, <1>2, <3>1
    <2>3. at'[i][2] > 2 => Publication \in objects \cup creating'[i]
      <3>1. at[i][2] = 2 => Publication \in objects \cup creating'[i]
        BY WantedCases
      <3> QED BY <1>1, <1>2, <1>4, <2>1, <3>1
    <2>5. Done(at[i][1])' /\ (~deleted' => Filled(at[i][1])')
      BY <1>2, <2>1 DEF Done, Filled, InTable
    <2> QED BY <1>2, <2>1, <2>2, <2>3, <2>5 DEF Built, OfDatabase
  <1> QED BY <1>1, <1>3, <1>4, NextObjectMoves

\* The table at hand is complete and seeded, and the next one is looked for.
LEMMA NextTableBuilt ==
    ASSUME ReadyInv, NEW i \in Instances, pc[i] \in {"count", "insert"}, NextTable(i),
           UNCHANGED <<settings, objects>>, RowsGrow,
           ~deleted' => \A k \in InTable(TableAt(i)) : rows'[k] # None
    PROVE  Built(i)'
  <1> DEFINE n == at[i][1]
  <1>1. TypeInv /\ Built(i) /\ n \in 1..Len(TableSeq)
    BY TableKnown DEF ReadyInv
  <1>2. /\ \A m \in 1..n : ObjectsOf(TableSeq[m]) \subseteq objects
        /\ ~deleted' => \A m \in 1..n : \A k \in InTable(TableSeq[m]) : rows'[k] # None
    <2>1. /\ \A m \in 1..(n - 1) : ObjectsOf(TableSeq[m]) \subseteq objects
          /\ ObjectsOf(TableSeq[n]) \subseteq objects
          /\ ~deleted => \A m \in 1..(n - 1) : \A k \in InTable(TableSeq[m]) : rows[k] # None
      BY <1>1 DEF Built, OfDatabase, Done, Filled, TableAt
    <2>2. \A m \in 1..n : m = n \/ m \in 1..(n - 1)
      BY <1>1
    <2>3. ~deleted' => \A m \in 1..(n - 1) : \A k \in InTable(TableSeq[m]) : rows'[k] # None
      BY <2>1 DEF RowsGrow, InTable
    <2>4. ~deleted' => \A k \in InTable(TableSeq[n]) : rows'[k] # None
      BY DEF TableAt
    <2> HIDE DEF n
    <2> QED BY <2>1, <2>2, <2>3, <2>4
  <1>3. CASE n = Len(TableSeq) /\ Moved(i, AfterSink, 1, 1)
    <2>1. pc'[i] \in {"ensure", "serving"}
      BY <1>1, <1>3, MovedTo, AfterSinkIs
    <2>2. Done(Len(TableSeq) + 1)'
      <3>1. 1..(Len(TableSeq) + 1 - 1) = 1..n
        BY <1>3, Bounds
      <3>2. \A m \in 1..(Len(TableSeq) + 1 - 1) : ObjectsOf(TableSeq[m]) \subseteq objects'
        BY <1>2, <3>1
      <3> QED BY <3>2 DEF Done
    <2>3. ASSUME ~deleted', NEW k \in Keys PROVE rows'[k] # None
      <3>1. PICK m \in 1..Len(TableSeq) : TableSeq[m] = TableOf[k]
        BY StartupConstantsOK, Bounds DEF Tables
      <3>2. k \in InTable(TableSeq[m])
        BY <3>1 DEF InTable
      <3> QED BY <1>2, <1>3, <2>3, <3>2
    <2> QED BY <2>1, <2>2, <2>3 DEF Built, OfDatabase
  <1>4. CASE n < Len(TableSeq) /\ Moved(i, "look", n + 1, 1)
    <2>1. pc'[i] = "look" /\ at'[i][1] = n + 1 /\ at'[i][2] = 1
      BY <1>1, <1>4, MovedTo
    <2>2. 1..(at'[i][1] - 1) = 1..n
      BY <1>1, <2>1
    <2>3. Done(at[i][1])' /\ (~deleted' => Filled(at[i][1])')
      BY <1>2, <2>2 DEF Done, Filled, ObjectsOf, InTable
    <2> QED BY <2>1, <2>3 DEF Built, OfDatabase
  <1> QED BY <1>1, <1>3, <1>4, NextTableMoves

\* The parents of the rows of a table have been seeded with the tables before.
LEMMA ParentsSeeded ==
    ASSUME ReadyInv, NEW i \in Instances, pc[i] = "insert", ~deleted,
           NEW k \in InTable(TableAt(i)), NEW p \in Parents[k]
    PROVE  rows[p] # None
  <1>1. TypeInv /\ Built(i) /\ at[i][1] \in 1..Len(TableSeq)
    BY TableKnown DEF ReadyInv
  <1>2. k \in Keys /\ TableOf[k] = TableSeq[at[i][1]] /\ p \in Keys
    BY StartupConstantsOK DEF InTable, TableAt
  <1>3. PICK m \in 1..(at[i][1] - 1) : TableSeq[m] = TableOf[p]
    BY <1>1, <1>2, StartupConstantsOK, Bounds
  <1>4. p \in InTable(TableSeq[m])
    BY <1>2, <1>3 DEF InTable
  <1> QED BY <1>1, <1>3, <1>4 DEF Built, OfDatabase, Filled

\* The transaction of seed_if_empty, from the count or from the insert.
LEMMA CountReady ==
    ASSUME ReadyInv, NEW i \in Instances, Count(i)
    PROVE  AllOrNone' /\ \A j \in Instances : Built(j)'
  <1>1. TypeInv /\ Built(i) /\ UNCHANGED <<settings, objects, creating, rows, deleted>>
    BY DEF ReadyInv, Count, Database, Env
  <1>2. RowsGrow /\ AllOrNone'
    BY <1>1 DEF RowsGrow, ReadyInv, AllOrNone
  <1>3. CASE NextTable(i) /\ \E k \in InTable(TableAt(i)) : rows[k] # None
    <2>1. ~deleted' => \A k \in InTable(TableAt(i)) : rows'[k] # None
      BY <1>1, <1>3 DEF ReadyInv, AllOrNone, InTable
    <2>2. Built(i)'
      BY <1>1, <1>2, <1>3, <2>1, NextTableBuilt DEF Count
    <2>3. \A j \in Instances \ {i} : pc'[j] = pc[j] /\ at'[j] = at[j]
      BY <1>1, <1>3, NextTableMoves, MovedTo
    <2> QED BY <1>1, <1>2, <2>2, <2>3, BuiltStill
  <1>4. CASE Goto(i, "insert") /\ UNCHANGED at
    <2>1. /\ pc'[i] = "insert" /\ \A j \in Instances \ {i} : pc'[j] = pc[j]
      BY <1>1, <1>4 DEF Goto, TypeInv, Types
    <2>2. Built(i)'
      BY <1>1, <1>4, <2>1 DEF Count, Built, OfDatabase, Done, Filled, ObjectsOf, TableAt, InTable
    <2> QED BY <1>1, <1>2, <1>4, <2>1, <2>2, BuiltStill
  <1> QED BY <1>3, <1>4 DEF Count

LEMMA InsertReady ==
    ASSUME ReadyInv, NEW i \in Instances, Insert(i)
    PROVE  AllOrNone' /\ \A j \in Instances : Built(j)'
  <1>1. TypeInv /\ Built(i) /\ UNCHANGED <<settings, objects, creating, deleted>>
    BY DEF ReadyInv, Insert, Requests, Env
  <1>2. ASSUME ~deleted
        PROVE  rows' = [k \in Keys |-> IF k \in InTable(TableAt(i)) THEN Seeded(rows[k])
                                                                   ELSE rows[k]]
    BY <1>2, ParentsSeeded DEF Insert
  <1>3. ~deleted => \A k \in Keys :
           rows'[k] # None <=> (k \in InTable(TableAt(i)) \/ rows[k] # None)
    BY <1>2, StartupConstantsOK DEF Seeded
  <1>4. RowsGrow /\ (~deleted' => \A k \in InTable(TableAt(i)) : rows'[k] # None)
    BY <1>1, <1>3 DEF RowsGrow, InTable
  <1>5. AllOrNone'
    BY <1>1, <1>3 DEF ReadyInv, AllOrNone, InTable
  <1>6. Built(i)'
    BY <1>1, <1>4, NextTableBuilt DEF Insert
  <1>7. \A j \in Instances \ {i} : pc'[j] = pc[j] /\ at'[j] = at[j]
    BY <1>1, NextTableMoves, MovedTo DEF Insert
  <1> QED BY <1>1, <1>4, <1>5, <1>6, <1>7, BuiltStill

\* A process that ends takes its transaction with it and leaves what is committed.
LEMMA ExitReady ==
    ASSUME ReadyInv, NEW i \in Instances, Exit(i), UNCHANGED <<settings, objects, rows, deleted>>
    PROVE  AllOrNone' /\ \A j \in Instances : Built(j)'
  <1>1. /\ pc'[i] = "off"
        /\ \A j \in Instances \ {i} :
              pc'[j] = pc[j] /\ at'[j] = at[j] /\ creating'[j] = creating[j]
    BY DEF Exit, Goto, Move, ReadyInv, TypeInv, Types
  <1>2. RowsGrow /\ AllOrNone'
    BY DEF RowsGrow, ReadyInv, AllOrNone
  <1> QED BY <1>1, <1>2, BuiltStill

LEMMA NextReady == ReadyInv /\ [Next]_vars => ReadyInv'
  <1> SUFFICES ASSUME ReadyInv, [Next]_vars PROVE ReadyInv'
    OBVIOUS
  <1>0. TypeInv /\ TypeInv'
    BY NextTyped DEF ReadyInv
  <1> DEFINE Kept == AllOrNone' /\ \A j \in Instances : Built(j)'
  <1>1. ASSUME UNCHANGED <<rows, deleted>> PROVE RowsGrow /\ AllOrNone'
    BY <1>1 DEF RowsGrow, ReadyInv, AllOrNone
  <1>2. ASSUME NEW i \in Instances, Start(i) PROVE Kept
    <2>1. UNCHANGED <<settings, objects, creating, rows, deleted>>
      BY <1>2 DEF Start, Database, Env
    <2>2. PICK step \in {"look", "ensure", "serving"} :
             /\ Goto(i, step) /\ UNCHANGED at
             /\ step \in {"ensure", "serving"} => ~OnPostgres
      BY <1>2, AfterSinkIs DEF Start, OnPostgres
    <2>3. /\ pc'[i] = step /\ at'[i][1] = 1 /\ at'[i][2] = 1
          /\ \A j \in Instances \ {i} : pc'[j] = pc[j] /\ at'[j] = at[j]
      BY <1>0, <1>2, <2>2 DEF Start, Goto, TypeInv, Types, Placed
    <2>4. Built(i)'
      <3>1. 1..(at'[i][1] - 1) = {}
        BY <2>3
      <3> QED BY <2>1, <2>2, <2>3, <3>1 DEF Built, OfDatabase, Done, Filled, OnPostgres
    <2> QED BY <1>1, <2>1, <2>3, <2>4, BuiltStill
  <1>3. ASSUME NEW i \in Instances, Look(i) PROVE Kept
    <2>1. UNCHANGED <<settings, objects, creating, rows, deleted>>
      BY <1>3 DEF Look, Database, Env
    <2>2. CASE Wanted(i) \in objects \cup creating[i] /\ NextObject(i)
      <3>1. Built(i)'
        BY <1>3, <2>1, <2>2, NextObjectBuilt DEF Look
      <3>2. \A j \in Instances \ {i} : pc'[j] = pc[j] /\ at'[j] = at[j]
        BY <1>0, <2>2, NextObjectMoves, MovedTo
      <3> QED BY <1>1, <2>1, <3>1, <3>2, BuiltStill
    <2>3. CASE Goto(i, "create") /\ UNCHANGED at
      <3>1. pc'[i] = "create" /\ \A j \in Instances \ {i} : pc'[j] = pc[j]
        BY <1>0, <2>3 DEF Goto, TypeInv, Types
      <3>2. Built(i)'
        BY <1>3, <2>1, <2>3, <3>1
        DEF Look, ReadyInv, Built, OfDatabase, Done, Filled, TableAt, InTable
      <3> QED BY <1>1, <2>1, <2>3, <3>1, <3>2, BuiltStill
    <2> QED BY <1>3, <2>2, <2>3 DEF Look
  <1>4. ASSUME NEW i \in Instances, Create(i) PROVE Kept
    <2>1. UNCHANGED <<settings, objects, rows, deleted>>
      BY <1>4 DEF Create, Env
    <2>2. CASE creating' = [creating EXCEPT ![i] = @ \cup {Wanted(i)}] /\ NextObject(i)
      <3>1. /\ creating'[i] = creating[i] \cup {Wanted(i)}
            /\ \A j \in Instances \ {i} : creating'[j] = creating[j]
        BY <1>0, <2>2 DEF TypeInv, Types
      <3>2. Built(i)'
        BY <1>4, <2>1, <2>2, <3>1, NextObjectBuilt DEF Create
      <3>3. \A j \in Instances \ {i} : pc'[j] = pc[j] /\ at'[j] = at[j]
        BY <1>0, <2>2, NextObjectMoves, MovedTo
      <3> QED BY <1>1, <2>1, <3>1, <3>2, <3>3, BuiltStill
    <2>3. CASE Exit(i)
      BY <1>1, <2>1, <2>3, ExitReady
    <2> QED BY <1>4, <2>2, <2>3 DEF Create
  <1>5. ASSUME NEW i \in Instances, CommitSchema(i) PROVE Kept
    <2>1. /\ UNCHANGED <<settings, rows, deleted, at>> /\ objects' = objects \cup creating[i]
          /\ pc[i] = "commit" /\ pc'[i] = "count"
          /\ \A j \in Instances \ {i} : pc'[j] = pc[j] /\ creating'[j] = creating[j]
      BY <1>0, <1>5 DEF CommitSchema, Goto, Requests, Env, TypeInv, Types
    <2>2. Built(i)'
      <3>1. /\ Done(at[i][1]) /\ (~deleted => Filled(at[i][1]))
            /\ ObjectsOf(TableAt(i)) \subseteq objects'
        BY <2>1 DEF ReadyInv, Built, OfDatabase
      <3>2. Done(at[i][1])' /\ (~deleted' => Filled(at[i][1])')
        BY <2>1, <3>1 DEF Done, Filled, InTable
      <3>3. ObjectsOf(TableAt(i))' \subseteq objects'
        BY <2>1, <3>1 DEF ObjectsOf, TableAt
      <3> QED BY <2>1, <3>2, <3>3 DEF Built, OfDatabase
    <2> QED BY <1>1, <2>1, <2>2, BuiltStill
  <1>6. ASSUME NEW i \in Instances, Ensure(i) PROVE Kept
    <2>1. UNCHANGED <<settings, objects, creating, rows, deleted>>
      BY <1>6 DEF Ensure, Database, Env
    <2>2. /\ {pc[i], pc'[i]} \subseteq {"ensure", "produce", "serving"}
          /\ \A j \in Instances \ {i} : pc'[j] = pc[j] /\ at'[j] = at[j]
      BY <1>0, <1>6 DEF Ensure, Goto, Move, TypeInv, Types
    <2> QED BY <1>1, <2>1, <2>2, BuiltStill
  <1>7. ASSUME NEW i \in Instances, Produce(i) PROVE Kept
    <2>1. UNCHANGED <<settings, objects, creating, rows, deleted>>
      BY <1>7 DEF Produce, Database, Env
    <2>2. PICK step \in {"ensure", "serving"}, n \in 1..Len(TableSeq) : Moved(i, step, n, 1)
      BY <1>0, <1>7, ProduceMoves DEF Moved
    <2>3. /\ {pc[i], pc'[i]} \subseteq {"ensure", "produce", "serving"}
          /\ \A j \in Instances \ {i} : pc'[j] = pc[j] /\ at'[j] = at[j]
      BY <1>0, <1>7, <2>2, MovedTo DEF Produce
    <2> QED BY <1>1, <2>1, <2>3, BuiltStill
  <1>8. ASSUME NEW i \in Instances, SeedKafkaFails(i) PROVE Kept
    <2>1. UNCHANGED <<settings, objects, creating, rows, deleted>>
      BY <1>8 DEF SeedKafkaFails, Database
    <2>2. /\ {pc[i], pc'[i]} \subseteq {"ensure", "produce", "serving"}
          /\ \A j \in Instances \ {i} : pc'[j] = pc[j] /\ at'[j] = at[j]
      BY <1>0, <1>8 DEF SeedKafkaFails, Goto, Move, TypeInv, Types
    <2> QED BY <1>1, <2>1, <2>2, BuiltStill
  <1>9. ASSUME NEW i \in Instances, StartFails(i) \/ Crash(i) PROVE Kept
    BY <1>9, ExitReady DEF StartFails, Crash
  <1>10. ASSUME NEW i \in Instances, NEW w \in Workers, Commit(i, w) PROVE Kept
    <2>1. /\ OnPostgres /\ pc[i] = "serving"
          /\ UNCHANGED <<settings, objects, creating, pc, at>>
      BY <1>0, <1>10 DEF Commit, Env, TypeInv, Placed, OnPostgres
    <2>2. PICK k \in Keys, row \in {None, "written"} :
             rows' = [rows EXCEPT ![k] = row] /\ deleted' = (deleted \/ row = None)
      BY <1>10 DEF Commit
    <2>3. ~deleted' => ~deleted /\ \A j \in Keys : rows[j] # None /\ rows'[j] # None
      BY <1>0, <2>1, <2>2, StartupConstantsOK DEF ReadyInv, Built, TypeInv, Types
    <2>4. RowsGrow /\ AllOrNone'
      BY <2>3 DEF RowsGrow, AllOrNone
    <2> QED BY <2>1, <2>4, BuiltStill
  <1>11. ASSUME UNCHANGED <<settings, objects, creating, rows, deleted, pc, at>> PROVE Kept
    BY <1>1, <1>11, BuiltStill
  <1>12. ASSUME NEW i \in Instances, NEW w \in Workers, Begin(i, w) \/ Rollback(i, w) PROVE Kept
    BY <1>11, <1>12 DEF Begin, Rollback, Database, Env
  <1>13. ASSUME Connector PROVE Kept
    BY <1>11, <1>13 DEF Connector, Database, Env
  <1>14. ASSUME NEW i \in Instances, NEW t \in Listed, ListWrite(i, t) PROVE Kept
    BY <1>11, <1>14 DEF ListWrite, Database, Env
  <1> HIDE DEF Kept
  <1>15. Kept
    <2>1. ASSUME NEW i \in Instances, Step(i) PROVE Kept
      BY <2>1, <1>3, <1>4, <1>5, <1>6, <1>7, CountReady, InsertReady DEF Step, Kept
    <2>2. CASE UNCHANGED vars
      BY <2>2, <1>11 DEF vars
    <2> QED BY <2>1, <2>2, <1>2, <1>8, <1>9, <1>10, <1>12, <1>13, <1>14 DEF Next
  <1> QED BY <1>0, <1>15 DEF ReadyInv, Kept
-----------------------------------------------------------------------------
(* The theorems *)

\* The inductive invariant: types and connections, topics, schema and seed.
IInv == TypeInv /\ TopicInv /\ ReadyInv

THEOREM Invariance == Spec => []IInv
  <1>1. Init => IInv
    <2> SUFFICES ASSUME Init PROVE IInv
      OBVIOUS
    <2>1. TypeInv
      BY InitTyped
    <2>2. TopicInv
      BY <2>1 DEF Init, TopicInv, Origins, Provisioned
    <2>3. ReadyInv
      <3>1. AllOrNone
        BY StartupConstantsOK DEF Init, AllOrNone
      <3>2. \A i \in Instances : Built(i)
        BY DEF Init, Built, OfDatabase
      <3> QED BY <2>1, <3>1, <3>2 DEF ReadyInv
    <2> QED BY <2>1, <2>2, <2>3 DEF IInv
  <1>2. IInv /\ [Next]_vars => IInv'
    BY NextTyped, NextTopics, NextReady DEF IInv
  <1> QED BY <1>1, <1>2, PTL DEF Spec

\* The variables keep their types; no instance takes more connections than its
\* pool has.
THEOREM TypeCorrect == Spec => []TypeOK
  <1>1. IInv => TypeOK
    <2> SUFFICES ASSUME TypeInv PROVE TypeOK
      BY DEF IInv
    <2>1. \A i \in Instances : used[i] \in 0..PoolSize
      BY Bounds DEF TypeInv, Types, Pooled
    <2>2. used \in [Instances -> 0..PoolSize]
      BY <2>1 DEF TypeInv, Types
    <2> QED BY <2>2 DEF TypeInv, Types, TypeOK, Steps
  <1> QED BY <1>1, Invariance, PTL

\* Errors do not eat up the pool.
THEOREM PoolKept == Spec => []NoLeak
  <1>1. IInv => NoLeak
    BY DEF IInv, TypeInv, Pooled, Starting, NoLeak
  <1> QED BY <1>1, Invariance, PTL

\* With the inferred setting and SINK=postgres a topic has one producer.
THEOREM OneProducer == Spec => []SingleProducer
  <1>1. IInv => SingleProducer
    <2> SUFFICES ASSUME IInv, settings.connector = None, OnPostgres, NEW t \in Tables,
                        <<"app", t>> \in origins, <<"connector", t>> \in origins
                 PROVE  FALSE
      BY DEF SingleProducer
    <2>1. ~ConnectorEnabled /\ ConnectorRuns
      BY DEF IInv, TopicInv, Origins
    <2> QED BY <2>1, StartupConstantsOK DEF ConnectorEnabled, ConnectorRuns, HostOwnsCdc
  <1> QED BY <1>1, Invariance, PTL

\* Nothing is published to a topic that is not provisioned with both schemas.
THEOREM TopicsProvisioned == Spec => []EventsProvisioned
  <1>1. IInv => EventsProvisioned
    BY Triple DEF IInv, TopicInv, Origins, EventsProvisioned
  <1> QED BY <1>1, Invariance, PTL

\* Whoever serves has the schema, the publication and the seed.
THEOREM ReadyWhenServing == Spec => []ServesReady
  <1>1. IInv => ServesReady
    <2> SUFFICES ASSUME IInv, NEW i \in Instances, pc[i] = "serving", OnPostgres
                 PROVE  objects = Objects /\ (~deleted => \A k \in Keys : rows[k] # None)
      BY DEF ServesReady, Serving
    <2>1. Built(i) /\ objects \subseteq Objects
      BY DEF IInv, ReadyInv, TypeInv, Types
    <2>2. \A m \in 1..Len(TableSeq) : ObjectsOf(TableSeq[m]) \subseteq objects
      <3>1. 1..(Len(TableSeq) + 1 - 1) = 1..Len(TableSeq)
        BY Bounds
      <3> QED BY <2>1, <3>1 DEF Built, Done
    <2>3. ASSUME NEW t \in Tables PROVE ObjectsOf(t) \subseteq objects
      BY <2>2, Bounds DEF Tables
    <2>4. Objects \subseteq objects
      <3>1. TableSeq[1] \in Tables
        BY Bounds
      <3> QED BY <2>3, <3>1 DEF Objects, ObjectsOf
    <2> QED BY <2>1, <2>4 DEF Built
  <1> QED BY <1>1, Invariance, PTL

\* The seed is never put over a row that a request has written; of a row that a
\* request has deleted it says nothing, a start that finds the table empty puts
\* it back.
THEOREM WritesSurviveSeed == Spec => SeedKeepsWrites
  <1>1. TypeInv /\ [Next]_vars => [\A k \in Keys : rows[k] = "written" => rows'[k] # "seed"]_vars
    <2> SUFFICES ASSUME TypeInv, Next, NEW k \in Keys, rows[k] = "written"
                 PROVE  rows'[k] # "seed"
      OBVIOUS
    <2>1. None # "seed" /\ None # "written" /\ rows \in [Keys -> {None, "seed", "written"}]
      BY StartupConstantsOK DEF TypeInv, Types
    <2>2. CASE UNCHANGED rows
      BY <2>2
    <2>3. ASSUME NEW i \in Instances, Insert(i) PROVE rows'[k] # "seed"
      BY <2>1, <2>3 DEF Insert, Seeded
    <2>4. ASSUME NEW i \in Instances, NEW w \in Workers, Commit(i, w)
          PROVE  rows'[k] # "seed"
      BY <2>1, <2>4 DEF Commit
    <2>5. ASSUME NEW i \in Instances, Step(i) PROVE rows'[k] # "seed"
      BY <2>2, <2>3, <2>5 DEF Step, Look, Create, CommitSchema, Count, Ensure, Produce, Database
    <2>6. ASSUME NEW i \in Instances,
                 \/ Start(i) \/ StartFails(i) \/ SeedKafkaFails(i) \/ Crash(i)
                 \/ \E w \in Workers : Begin(i, w) \/ Rollback(i, w)
                 \/ \E t \in Listed : ListWrite(i, t)
          PROVE  rows'[k] # "seed"
      BY <2>2, <2>6
      DEF Start, StartFails, SeedKafkaFails, Crash, Begin, Rollback, ListWrite, Database
    <2>7. CASE Connector
      BY <2>2, <2>7 DEF Connector, Database
    <2> QED BY <2>4, <2>5, <2>6, <2>7 DEF Next
  <1>2. IInv => TypeInv
    BY DEF IInv
  <1> QED BY <1>1, <1>2, Invariance, PTL DEF Spec, SeedKeepsWrites
=============================================================================
