-------------------------- MODULE DualWriteProofs --------------------------
(***************************************************************************)
(* Proofs about DualWrite, for any number of requests and rows, any bodies *)
(* and any seed.                                                           *)
(***************************************************************************)
EXTENDS DualWrite, SequenceTheorems, TLAPS

\* The table holds the last row of each history.
Consistent ==
    \A k \in Keys : table[k] = IF changes[k] = << >> THEN None
                                                     ELSE changes[k][Len(changes[k])]

\* What the thread of a request holds, at each place in the handler.
Holds(r) ==
    /\ pc[r] \notin {"deleting", "inserting", "emitting"} => todo[r] = {}
    /\ \A e, f \in todo[r] : e.key = f.key => e = f
    /\ \A e \in todo[r] : e.before # None => Was(e.key, e.before)
    /\ pc[r] = "deleting" => \A e \in todo[r] : e.after = None
    /\ pc[r] = "emitting" => \A e \in todo[r] : Truthful(e)

\* Where the newest event of a row is: with the one request that holds it, else
\* last in the queue, else last in the topic.
InStep(k) ==
    /\ \A r, q \in Owing(k) : r = q
    /\ \A r \in Owing(k) : \A e \in todo[r] : e.key = k => e.after = table[k]
    /\ Owing(k) = {} /\ queue[k] # << >> => queue[k][Len(queue[k])].after = table[k]
    /\ Settled(k) => View(k) = table[k]

Converging == Emits => \A k \in Keys \ (raced \cup lost) : InStep(k)

IInv == /\ TypeOK /\ Consistent
        /\ \A r \in Requests : Holds(r)
        /\ NoPhantomEvents /\ Converging
-----------------------------------------------------------------------------
LEMMA SiblingsForm == ASSUME NEW k \in Keys PROVE Siblings(k) \in Tables /\ k \in Siblings(k)
  <1>1. PICK T \in Tables : k \in T
    BY DEF Keys, Tables
  <1>2. \A S \in Tables : k \in S => S = T
    BY <1>1, ConstantsOK
  <1>3. Siblings(k) = T
    BY <1>1, <1>2 DEF Siblings
  <1> QED BY <1>1, <1>3

LEMMA EventForm ==
    ASSUME NEW k \in Keys, NEW row \in Row
    PROVE  /\ Upsert(k, row) \in Event /\ Tombstone(k, row) \in Event
           /\ Upsert(k, row).key = k /\ Upsert(k, row).after = row
           /\ Upsert(k, row).before = None
           /\ Tombstone(k, row).key = k /\ Tombstone(k, row).after = None
           /\ Tombstone(k, row).before = row
           /\ row # None
  BY ConstantsOK DEF Upsert, Tombstone, Event

LEMMA MergedForm ==
    ASSUME TypeOK, NEW k \in Keys, Present(k), NEW p \in Patch
    PROVE  Merged(k, p) \in Row
  <1>1. table[k] \in Row
    BY DEF TypeOK, Present
  <1>2. /\ Given(p.uniq, table[k].uniq) \in Uniqs \cup {None}
        /\ Given(p.status, table[k].status) \in Statuses
        /\ (table[k].closed \/ p.closed \/ (k \in Accounts /\ p.status = "CLOSED")) \in BOOLEAN
        /\ (IF p.owner = None THEN table[k].refs ELSE {p.owner})
              \in SUBSET (Customers \cup Accounts)
    BY <1>1 DEF Row, Patch, Given
  <1> QED BY <1>2 DEF Merged, Row

LEMMA InitIInv == Init => IInv
  <1> SUFFICES ASSUME Init PROVE IInv
    OBVIOUS
  <1> USE DEF Init
  <1>1. table \in [Keys -> Row \cup {None}]
    BY ConstantsOK
  <1>2. \A k \in Keys : table[k] # None =>
           [key |-> k, after |-> table[k], before |-> None] \in Event
    BY <1>1 DEF Event
  <1>3. TypeOK
    <2>1. changes \in [Keys -> Seq(Row \cup {None})]
      <3>1. \A k \in Keys : table[k] \in Row \cup {None}
        BY <1>1
      <3>2. \A x \in Row \cup {None} : <<x>> \in Seq(Row \cup {None})
        OBVIOUS
      <3>3. \A k \in Keys : (IF table[k] = None THEN << >> ELSE <<table[k]>>)
                              \in Seq(Row \cup {None})
        <4> TAKE k \in Keys
        <4>1. CASE table[k] = None
          <5>1. << >> \in Seq(Row \cup {None})
            OBVIOUS
          <5> QED BY <4>1, <5>1
        <4>2. CASE table[k] # None
          BY <3>1, <3>2, <4>2
        <4> QED BY <4>1, <4>2
      <3> QED BY <3>3
    <2>2. log \in [Keys -> Seq(Event)]
      <3>1. \A e \in Event : <<e>> \in Seq(Event)
        OBVIOUS
      <3> QED BY <1>2, <3>1
    <2>3. /\ pc \in [Requests -> PC] /\ queue \in [Keys -> Seq(Event)]
      BY DEF PC
    <2> QED BY <1>1, <2>1, <2>2, <2>3 DEF TypeOK
  <1>4. Consistent
    BY DEF Consistent
  <1>5. \A r \in Requests : Holds(r)
    BY DEF Holds
  <1>6. NoPhantomEvents
    BY <1>1, ConstantsOK DEF NoPhantomEvents, Truthful, Was
  <1>7. Converging
    BY DEF Converging, InStep, Owing, Settled, View
  <1> QED BY <1>3, <1>4, <1>5, <1>6, <1>7 DEF IInv
-----------------------------------------------------------------------------
\* What was true stays true when histories grow.
Grown == \A k \in Keys : \/ changes'[k] = changes[k]
                         \/ \E row : changes'[k] = Append(changes[k], row)

LEMMA TruthKept ==
    ASSUME TypeOK, TypeOK', Grown
    PROVE  /\ \A k \in Keys, row \in Row \cup {None} : Was(k, row) => Was(k, row)'
           /\ \A e \in Event : Truthful(e) => Truthful(e)'
  <1>1. ASSUME NEW k \in Keys, NEW row \in Row \cup {None}, Was(k, row)
        PROVE  Was(k, row)'
    <2>1. PICK i \in DOMAIN changes[k] : changes[k][i] = row
      BY <1>1 DEF Was
    <2>2. i \in DOMAIN changes'[k] /\ changes'[k][i] = changes[k][i]
      <3>1. changes[k] \in Seq(Row \cup {None}) /\ changes'[k] \in Seq(Row \cup {None})
        BY DEF TypeOK
      <3>2. CASE changes'[k] = changes[k]
        BY <2>1, <3>2
      <3>3. ASSUME NEW x, changes'[k] = Append(changes[k], x)
            PROVE  i \in DOMAIN changes'[k] /\ changes'[k][i] = changes[k][i]
        <4>1. i \in 1..Len(changes[k]) /\ Len(changes[k]) \in Nat
          BY <2>1, <3>1
        <4> QED BY <3>1, <3>3, <4>1
      <3> QED BY <3>2, <3>3 DEF Grown
    <2> QED BY <2>1, <2>2 DEF Was
  <1>2. ASSUME NEW e \in Event, Truthful(e) PROVE Truthful(e)'
    <2>1. /\ e.key \in Keys /\ e.after \in Row \cup {None} /\ e.before \in Row \cup {None}
          /\ None \in Row \cup {None}
      BY DEF Event
    <2> QED BY <1>1, <1>2, <2>1 DEF Truthful
  <1> QED BY <1>1, <1>2

\* What a request holds is not touched by the steps of the others.
LEMMA HoldsKept ==
    ASSUME IInv, TypeOK', Grown, NEW r \in Requests,
           pc'[r] = pc[r], todo'[r] = todo[r]
    PROVE  Holds(r)'
  <1>1. \A e \in todo[r] : e \in Event /\ e.key \in Keys /\ e.before \in Row \cup {None}
    BY DEF IInv, TypeOK, Event
  <1>2. Holds(r)
    BY DEF IInv
  <1> QED BY <1>1, <1>2, TruthKept DEF Holds, IInv

\* A row whose table entry, queue, topic and holders stay the same.
LEMMA InStepKept ==
    ASSUME NEW k \in Keys, InStep(k),
           table'[k] = table[k], queue'[k] = queue[k], log'[k] = log[k],
           Owing(k)' = Owing(k), \A r \in Owing(k) : todo'[r] = todo[r]
    PROVE  InStep(k)'
  BY DEF InStep, Settled, View
-----------------------------------------------------------------------------
\* Refused requests and failed transactions change nothing.
LEMMA RefuseInv ==
    ASSUME IInv, Settings, NEW r \in Requests, NEW answer \in Done, Refuse(r, answer), NoWrite, Kafka,
           pc[r] \in {"new", "deleting", "inserting"}
    PROVE  IInv'
  <1> USE DEF Refuse, NoWrite, Kafka
  <1>1. TypeOK'
    BY DEF IInv, TypeOK, PC, Settings
  <1>2. /\ pc'[r] = answer /\ todo'[r] = {} /\ answer # "emitting"
        /\ \A q \in Requests \ {r} : pc'[q] = pc[q] /\ todo'[q] = todo[q]
    BY DEF IInv, TypeOK, Done
  <1>3. Consistent'
    BY DEF IInv, Consistent
  <1>4. \A q \in Requests : Holds(q)'
    <2>1. Holds(r)'
      BY <1>2 DEF Holds, Done
    <2> QED BY <1>1, <1>2, <2>1, HoldsKept DEF Grown
  <1>5. NoPhantomEvents'
    <2>1. \A q \in Requests : pc'[q] = "emitting" => \A e \in todo'[q] : Truthful(e)'
      BY <1>4 DEF Holds
    <2> QED BY <2>1 DEF IInv, NoPhantomEvents, Truthful, Was
  <1>6. Converging'
    <2>1. \A k \in Keys : Owing(k)' = Owing(k) /\ r \notin Owing(k)
      BY <1>2 DEF Owing
    <2> QED BY <1>2, <2>1, InStepKept DEF IInv, Converging, Owing, Emits, Settings
  <1> QED BY <1>1, <1>3, <1>4, <1>5, <1>6 DEF IInv

\* A request that takes events in hand before its transaction.
LEMMA TakeInv ==
    ASSUME IInv, Settings, NEW r \in Requests, NEW told \in SUBSET Event, NEW at \in {"deleting", "inserting"},
           pc[r] = "new", pc' = [pc EXCEPT ![r] = at], todo' = [todo EXCEPT ![r] = told],
           NoWrite, Kafka,
           \A e, f \in told : e.key = f.key => e = f,
           \A e \in told : e.before # None => Was(e.key, e.before),
           at = "deleting" => \A e \in told : e.after = None
    PROVE  IInv'
  <1> USE DEF NoWrite, Kafka
  <1>1. TypeOK'
    BY DEF IInv, TypeOK, PC, Settings
  <1>2. /\ pc'[r] = at /\ todo'[r] = told /\ at # "emitting"
        /\ \A q \in Requests \ {r} : pc'[q] = pc[q] /\ todo'[q] = todo[q]
    BY DEF IInv, TypeOK
  <1>3. Consistent'
    BY DEF IInv, Consistent
  <1>4. \A q \in Requests : Holds(q)'
    <2>1. Holds(r)'
      BY <1>2 DEF Holds, Was
    <2> QED BY <1>1, <1>2, <2>1, HoldsKept DEF Grown
  <1>5. NoPhantomEvents'
    <2>1. \A q \in Requests : pc'[q] = "emitting" => \A e \in todo'[q] : Truthful(e)'
      BY <1>4 DEF Holds
    <2> QED BY <2>1 DEF IInv, NoPhantomEvents, Truthful, Was
  <1>6. Converging'
    <2>1. \A k \in Keys : Owing(k)' = Owing(k) /\ r \notin Owing(k)
      BY <1>2 DEF Owing
    <2> QED BY <1>2, <2>1, InStepKept DEF IInv, Converging, Owing, Emits, Settings
  <1> QED BY <1>1, <1>3, <1>4, <1>5, <1>6 DEF IInv

\* Writing rows and keeping their events in hand (or, with no event to send,
\* only writing).  S are the rows written, or read by an update without fields.
LEMMA TellInv ==
    ASSUME IInv, Settings, NEW r \in Requests, NEW S \in SUBSET Keys,
           NEW new \in [S -> Row \cup {None}], NEW told \in SUBSET Event,
           pc[r] \in {"new", "deleting", "inserting"},
           table' = [k \in Keys |-> IF k \in S THEN new[k] ELSE table[k]],
           changes' \in [Keys -> Seq(Row \cup {None})], Grown, Consistent',
           Emit(r, told), Kafka,
           \A e \in told : e.key \in S /\ e.after = new[e.key],
           \A k \in S : \E e \in told : e.key = k,
           \A e, f \in told : e.key = f.key => e = f,
           \A e \in told : e.before # None => Was(e.key, e.before),
           \A e \in told : Was(e.key, e.after)'
    PROVE  IInv'
  <1> USE DEF Emit, Kafka
  <1>1. TypeOK'
    BY DEF IInv, TypeOK, PC, Done, Settings
  <1>2. /\ pc'[r] = (IF Emits /\ told # {} THEN "emitting" ELSE "ok")
        /\ todo'[r] = (IF Emits THEN told ELSE {})
        /\ \A q \in Requests \ {r} : pc'[q] = pc[q] /\ todo'[q] = todo[q]
    BY DEF IInv, TypeOK
  <1>3. \A e \in told : e.key \in Keys /\ e.before \in Row \cup {None}
    BY DEF Event
  <1>4. \A q \in Requests : Holds(q)'
    <2>1. \A e \in told : e.before # None => Was(e.key, e.before)'
      BY <1>1, <1>3, TruthKept DEF IInv
    <2>2. \A e \in told : Truthful(e)'
      <3>1. \A e \in told : Was(e.key, e.after)'
        OBVIOUS
      <3> QED BY <2>1, <3>1 DEF Truthful
    <2>3. Holds(r)'
      BY <1>2, <2>1, <2>2 DEF Holds
    <2> QED BY <1>1, <1>2, <2>3, HoldsKept
  <1>5. NoPhantomEvents'
    <2>1. \A q \in Requests : pc'[q] = "emitting" => \A e \in todo'[q] : Truthful(e)'
      BY <1>4 DEF Holds
    <2>2. \A k \in Keys : /\ \A i \in DOMAIN log[k] : log[k][i] \in Event
                          /\ \A i \in DOMAIN queue[k] : queue[k][i] \in Event
      BY DEF IInv, TypeOK
    <2> QED BY <1>1, <2>1, <2>2, TruthKept DEF IInv, NoPhantomEvents
  <1>6. Converging'
    <2> SUFFICES ASSUME Emits, NEW k \in Keys, k \notin raced', k \notin lost'
                 PROVE  InStep(k)'
      BY DEF Converging, Emits, Settings
    <2>1. InStep(k)
      BY DEF IInv, Converging
    <2>2. r \notin Owing(k)
      BY DEF Owing
    <2>3. CASE k \notin S
      <3>1. Owing(k)' = Owing(k)
        BY <1>2, <2>2, <2>3 DEF Owing
      <3>2. \A q \in Owing(k) : todo'[q] = todo[q]
        BY <1>2, <2>2 DEF Owing
      <3> QED BY <2>1, <2>3, <3>1, <3>2, InStepKept
    <2>4. CASE k \in S
      <3>1. Owing(k) = {}
        BY <2>4
      <3>2. Owing(k)' = {r}
        BY <1>2, <2>4, <3>1 DEF Owing
      <3>3. \A e \in todo'[r] : e.key = k => e.after = table'[k]
        BY <1>2, <2>4
      <3> QED BY <3>2, <3>3 DEF InStep, Settled
    <2> QED BY <2>3, <2>4
  <1> QED BY <1>1, <1>4, <1>5, <1>6 DEF IInv

\* The connection breaks during the commit.
LEMMA CutInv ==
    ASSUME IInv, Settings, NEW r \in Requests, NEW S \in SUBSET Keys,
           NEW new \in [S -> Row \cup {None}],
           pc[r] \in {"new", "deleting", "inserting"},
           table' = [k \in Keys |-> IF k \in S THEN new[k] ELSE table[k]],
           changes' \in [Keys -> Seq(Row \cup {None})], Grown, Consistent',
           Refuse(r, "error"), lost' = lost \cup S, UNCHANGED raced, Kafka
    PROVE  IInv'
  <1> USE DEF Refuse, Kafka
  <1>1. TypeOK'
    BY DEF IInv, TypeOK, PC, Done, Settings
  <1>2. /\ pc'[r] = "error" /\ todo'[r] = {}
        /\ \A q \in Requests \ {r} : pc'[q] = pc[q] /\ todo'[q] = todo[q]
    BY DEF IInv, TypeOK
  <1>3. \A q \in Requests : Holds(q)'
    <2>1. Holds(r)'
      BY <1>2 DEF Holds
    <2> QED BY <1>1, <1>2, <2>1, HoldsKept
  <1>4. NoPhantomEvents'
    <2>1. \A q \in Requests : pc'[q] = "emitting" => \A e \in todo'[q] : Truthful(e)'
      BY <1>3 DEF Holds
    <2>2. \A k \in Keys : /\ \A i \in DOMAIN log[k] : log[k][i] \in Event
                          /\ \A i \in DOMAIN queue[k] : queue[k][i] \in Event
      BY DEF IInv, TypeOK
    <2> QED BY <1>1, <2>1, <2>2, TruthKept DEF IInv, NoPhantomEvents
  <1>5. Converging'
    <2> SUFFICES ASSUME Emits, NEW k \in Keys, k \notin raced', k \notin lost'
                 PROVE  InStep(k)'
      BY DEF Converging, Emits, Settings
    <2>1. InStep(k) /\ k \notin S
      BY DEF IInv, Converging
    <2>2. Owing(k)' = Owing(k) /\ r \notin Owing(k)
      BY <1>2 DEF Owing
    <2>3. \A q \in Owing(k) : todo'[q] = todo[q]
      BY <1>2, <2>2 DEF Owing
    <2> QED BY <2>1, <2>2, <2>3, InStepKept
  <1> QED BY <1>1, <1>3, <1>4, <1>5 DEF IInv

\* A transaction that writes new and commits.
LEMMA CommitInv ==
    ASSUME IInv, Settings, NEW r \in Requests, NEW S \in SUBSET Keys,
           NEW new \in [S -> Row \cup {None}], NEW told \in SUBSET Event,
           pc[r] \in {"new", "deleting", "inserting"},
           Commit(r, new, told), Kafka,
           \A e \in told : e.key \in S /\ e.after = new[e.key],
           \A k \in S : \E e \in told : e.key = k,
           \A e, f \in told : e.key = f.key => e = f,
           \A e \in told : e.before # None => Was(e.key, e.before)
    PROVE  IInv'
  <1>1. DOMAIN new = S /\ \A k \in S : new[k] \in Row \cup {None}
    OBVIOUS
  <1>2. table' = [k \in Keys |-> IF k \in S THEN new[k] ELSE table[k]]
    BY <1>1 DEF Commit
  <1>3. \A k \in Keys : /\ changes[k] \in Seq(Row \cup {None})
                        /\ k \in S => changes'[k] = Append(changes[k], new[k])
                        /\ k \notin S => changes'[k] = changes[k]
    BY <1>1 DEF Commit, IInv, TypeOK
  <1>4. changes' \in [Keys -> Seq(Row \cup {None})] /\ Grown
    <2>1. \A k \in Keys : (IF k \in S THEN Append(changes[k], new[k]) ELSE changes[k])
                            \in Seq(Row \cup {None})
      BY <1>1, <1>3
    <2> QED BY <1>1, <1>3, <2>1 DEF Commit, Grown
  <1>5. \A k \in S : /\ Len(changes'[k]) = Len(changes[k]) + 1
                     /\ Len(changes'[k]) \in DOMAIN changes'[k] /\ changes'[k] # << >>
                     /\ changes'[k][Len(changes'[k])] = new[k]
    BY <1>1, <1>3
  <1>6. Consistent'
    BY <1>2, <1>3, <1>5 DEF IInv, Consistent
  <1>7. \A e \in told : Was(e.key, e.after)'
    BY <1>5 DEF Was
  <1>8. CASE Emit(r, told)
    BY <1>2, <1>4, <1>6, <1>7, <1>8, TellInv
  <1>9. CASE Refuse(r, "error") /\ lost' = lost \cup DOMAIN new /\ UNCHANGED raced
    BY <1>1, <1>2, <1>4, <1>6, <1>9, CutInv
  <1> QED BY <1>8, <1>9 DEF Commit
-----------------------------------------------------------------------------
LEMMA PresentRow ==
    ASSUME IInv, NEW k \in Keys, Present(k)
    PROVE  table[k] \in Row /\ Was(k, table[k])
  <1>1. table[k] \in Row
    BY DEF IInv, TypeOK, Present
  <1>2. changes[k] # << >> /\ table[k] = changes[k][Len(changes[k])]
    BY DEF IInv, Consistent, Present
  <1>3. Len(changes[k]) \in DOMAIN changes[k]
    BY <1>2 DEF IInv, TypeOK
  <1> QED BY <1>1, <1>2, <1>3 DEF Was

\* One row written and told as an upsert.
LEMMA UpsertInv ==
    ASSUME IInv, Settings, NEW r \in Requests, NEW k \in Keys, NEW row \in Row, pc[r] = "new",
           Commit(r, [j \in {k} |-> row], {Upsert(k, row)}), Kafka
    PROVE  IInv'
  <1> DEFINE new == [j \in {k} |-> row]
             told == {Upsert(k, row)}
  <1>1. {k} \in SUBSET Keys /\ new \in [{k} -> Row \cup {None}] /\ told \in SUBSET Event
    BY EventForm
  <1>2. /\ \A e \in told : e.key \in {k} /\ e.after = new[e.key]
        /\ \A j \in {k} : \E e \in told : e.key = j
        /\ \A e, f \in told : e.key = f.key => e = f
        /\ \A e \in told : e.before # None => Was(e.key, e.before)
    BY EventForm
  <1>3. Commit(r, new, told)
    OBVIOUS
  <1> HIDE DEF new, told
  <1> QED BY <1>1, <1>2, <1>3, CommitInv

LEMMA CreateInv ==
    ASSUME IInv, Settings, NEW r \in Requests, NEW k \in Keys, NEW row \in NewRows[k], Create(r, k, row)
    PROVE  IInv'
  <1>1. row \in Row /\ pc[r] = "new" /\ Kafka
    BY ConstantsOK DEF Create
  <1>2. CASE Commit(r, [j \in {k} |-> row], {Upsert(k, row)})
    BY <1>1, <1>2, UpsertInv
  <1>3. CASE NoWrite /\ (Refuse(r, "conflict") \/ Refuse(r, "error"))
    BY <1>1, <1>3, RefuseInv DEF Done
  <1> QED BY <1>2, <1>3 DEF Create

LEMMA UpdateInv ==
    ASSUME IInv, Settings, NEW r \in Requests, NEW k \in Customers \cup Accounts,
           NEW p \in Patches[k], Update(r, k, p)
    PROVE  IInv'
  <1>1. p \in Patch /\ pc[r] = "new" /\ Kafka /\ k \in Keys
    BY ConstantsOK DEF Update, Keys
  <1>2. CASE NoWrite /\ (Refuse(r, "missing") \/ Refuse(r, "error"))
    BY <1>1, <1>2, RefuseInv DEF Done
  <1>3. CASE /\ Present(k)
             /\ Commit(r, [j \in {k} |-> Merged(k, p)], {Upsert(k, Merged(k, p))})
    <2>1. Merged(k, p) \in Row
      BY <1>1, <1>3, MergedForm DEF IInv
    <2> QED BY <1>1, <1>3, <2>1, UpsertInv
  <1>4. CASE Present(k) /\ Emit(r, {Upsert(k, table[k])}) /\ UNCHANGED <<table, changes>>
    <2>1. table[k] \in Row /\ Was(k, table[k])
      BY <1>1, <1>4, PresentRow
    <2> DEFINE new == [j \in {k} |-> table[k]]
               told == {Upsert(k, table[k])}
    <2>2. {k} \in SUBSET Keys /\ new \in [{k} -> Row \cup {None}] /\ told \in SUBSET Event
      BY <1>1, <2>1, EventForm
    <2>3. /\ \A e \in told : e.key \in {k} /\ e.after = new[e.key]
          /\ \A j \in {k} : \E e \in told : e.key = j
          /\ \A e, f \in told : e.key = f.key => e = f
          /\ \A e \in told : e.before # None => Was(e.key, e.before)
      BY <1>1, <2>1, EventForm
    <2>4. \A e \in told : Was(e.key, e.after)'
      BY <1>1, <1>4, <2>1, EventForm DEF Was
    <2>5. table' = [j \in Keys |-> IF j \in {k} THEN new[j] ELSE table[j]]
      BY <1>4 DEF IInv, TypeOK
    <2>6. changes' \in [Keys -> Seq(Row \cup {None})] /\ Grown /\ Consistent'
      BY <1>4 DEF IInv, TypeOK, Grown, Consistent
    <2>7. Emit(r, told)
      BY <1>4
    <2> HIDE DEF new, told
    <2> QED BY <1>1, <2>2, <2>3, <2>4, <2>5, <2>6, <2>7, TellInv
  <1> QED BY <1>2, <1>3, <1>4 DEF Update

LEMMA DeleteReadInv ==
    ASSUME IInv, Settings, NEW r \in Requests, NEW k \in Customers \cup Accounts, DeleteRead(r, k)
    PROVE  IInv'
  <1>1. k \in Keys /\ pc[r] = "new" /\ NoWrite /\ Kafka
    BY DEF DeleteRead, Keys
  <1>2. CASE Refuse(r, "missing")
    BY <1>1, <1>2, RefuseInv DEF Done
  <1>3. CASE /\ Present(k) /\ pc' = [pc EXCEPT ![r] = "deleting"]
             /\ todo' = [todo EXCEPT ![r] = {Tombstone(k, table[k])}]
    <2>1. table[k] \in Row /\ Was(k, table[k])
      BY <1>1, <1>3, PresentRow
    <2> DEFINE told == {Tombstone(k, table[k])}
    <2>2. /\ told \in SUBSET Event
          /\ \A e, f \in told : e.key = f.key => e = f
          /\ \A e \in told : e.before # None => Was(e.key, e.before)
          /\ \A e \in told : e.after = None
      BY <1>1, <2>1, EventForm
    <2>3. todo' = [todo EXCEPT ![r] = told]
      BY <1>3
    <2> HIDE DEF told
    <2> QED BY <1>1, <1>3, <2>2, <2>3, TakeInv
  <1> QED BY <1>2, <1>3 DEF DeleteRead

LEMMA DeleteRowInv ==
    ASSUME IInv, Settings, NEW r \in Requests, DeleteRow(r)
    PROVE  IInv'
  <1>1. pc[r] = "deleting" /\ Kafka
    BY DEF DeleteRow
  <1>2. CASE NoWrite /\ (Refuse(r, "missing") \/ Refuse(r, "error"))
    BY <1>1, <1>2, RefuseInv DEF Done
  <1>3. ASSUME NEW e \in todo[r], Commit(r, [j \in {e.key} |-> None], {e})
        PROVE  IInv'
    <2>1. /\ e \in Event /\ e.key \in Keys /\ e.after = None
          /\ e.before # None => Was(e.key, e.before)
      BY <1>1 DEF IInv, TypeOK, Event, Holds
    <2> DEFINE S == {e.key}
               new == [j \in {e.key} |-> None]
               told == {e}
    <2>2. S \in SUBSET Keys /\ new \in [S -> Row \cup {None}] /\ told \in SUBSET Event
      BY <2>1
    <2>3. /\ \A f \in told : f.key \in S /\ f.after = new[f.key]
          /\ \A j \in S : \E f \in told : f.key = j
          /\ \A f, g \in told : f.key = g.key => f = g
          /\ \A f \in told : f.before # None => Was(f.key, f.before)
      BY <2>1
    <2>4. Commit(r, new, told)
      BY <1>3
    <2> HIDE DEF S, new, told
    <2> QED BY <1>1, <2>2, <2>3, <2>4, CommitInv
  <1> QED BY <1>2, <1>3 DEF DeleteRow

LEMMA GenerateReadInv ==
    ASSUME IInv, Settings, NEW r \in Requests, NEW batch \in SUBSET Txns, GenerateRead(r, batch)
    PROVE  IInv'
  <1>1. pc[r] = "new" /\ NoWrite /\ Kafka /\ batch \subseteq Keys
    BY DEF GenerateRead, Keys
  <1>2. CASE Refuse(r, "conflict")
    BY <1>1, <1>2, RefuseInv DEF Done
  <1>3. ASSUME NEW on \in [batch -> Eligible],
               pc' = [pc EXCEPT ![r] = "inserting"],
               todo' = [todo EXCEPT ![r] = {Upsert(k, Generated(on[k])) : k \in batch}]
        PROVE  IInv'
    <2>1. \A a \in Eligible : Generated(a) \in Row
      BY DEF Eligible, Generated, Row, Statuses, IInv, TypeOK, Present, Keys
    <2>2. \A k \in batch : Generated(on[k]) \in Row
      BY <2>1
    <2> DEFINE told == {Upsert(k, Generated(on[k])) : k \in batch}
    <2>3. /\ told \in SUBSET Event
          /\ \A e, f \in told : e.key = f.key => e = f
          /\ \A e \in told : e.before = None
      BY <1>1, <2>2, EventForm
    <2>4. todo' = [todo EXCEPT ![r] = told]
      BY <1>3
    <2> HIDE DEF told
    <2> QED BY <1>1, <1>3, <2>3, <2>4, TakeInv
  <1> QED BY <1>2, <1>3 DEF GenerateRead

LEMMA GenerateInsertInv ==
    ASSUME IInv, Settings, NEW r \in Requests, GenerateInsert(r)
    PROVE  IInv'
  <1>1. pc[r] = "inserting" /\ Kafka
    BY DEF GenerateInsert
  <1> DEFINE told == todo[r]
             S == {e.key : e \in told}
             new == [k \in S |-> (CHOOSE e \in told : e.key = k).after]
  <1>2. /\ told \in SUBSET Event
        /\ \A e, f \in told : e.key = f.key => e = f
        /\ \A e \in told : e.before # None => Was(e.key, e.before)
    BY DEF IInv, TypeOK, Holds
  <1>3. \A e \in told : e.key \in Keys /\ e.after \in Row \cup {None}
    BY <1>2 DEF Event
  <1>4. \A e \in told : e.key \in S /\ new[e.key] = e.after
    <2> TAKE e \in told
    <2>1. (CHOOSE f \in told : f.key = e.key) = e
      BY <1>2
    <2> QED BY <2>1
  <1>5. /\ S \in SUBSET Keys
        /\ \A k \in S : \E e \in told : e.key = k
    BY <1>3
  <1>6. new \in [S -> Row \cup {None}]
    <2>1. \A k \in S : new[k] \in Row \cup {None}
      BY <1>3, <1>4, <1>5
    <2> QED BY <2>1
  <1>7. CASE Commit(r, new, told)
    <2> HIDE DEF told, S, new
    <2> QED BY <1>1, <1>2, <1>4, <1>5, <1>6, <1>7, CommitInv
  <1>8. CASE NoWrite /\ Refuse(r, "error")
    BY <1>1, <1>8, RefuseInv DEF Done
  <1> QED BY <1>7, <1>8 DEF GenerateInsert

LEMMA DbFailInv ==
    ASSUME IInv, Settings, NEW r \in Requests, DbFail(r)
    PROVE  IInv'
  BY RefuseInv DEF DbFail, Done
-----------------------------------------------------------------------------
\* Of the Kafka side, histories and table stay as they are: events keep their truth.
LEMMA KafkaTruth ==
    ASSUME IInv, UNCHANGED changes, NEW e \in Event, Truthful(e)
    PROVE  Truthful(e)'
  BY DEF Truthful, Was

LEMMA ProduceInv ==
    ASSUME IInv, Settings, NEW r \in Requests, Produce(r)
    PROVE  IInv'
  <1>1. PICK e \in todo[r] :
          /\ queue' = [queue EXCEPT ![e.key] = Append(@, e)]
          /\ todo' = [todo EXCEPT ![r] = @ \ {e}]
          /\ flushing' = [flushing EXCEPT ![r] = Siblings(e.key)]
          /\ pc' = [pc EXCEPT ![r] = IF todo[r] = {e} THEN "flushing" ELSE "emitting"]
    BY DEF Produce
  <1>2. pc[r] = "emitting" /\ UNCHANGED <<table, changes, log, raced, lost>>
    BY DEF Produce
  <1>3. e \in Event /\ e.key \in Keys /\ Truthful(e)
    BY <1>2 DEF IInv, TypeOK, Event, Holds
  <1>4. /\ pc'[r] = (IF todo[r] = {e} THEN "flushing" ELSE "emitting")
        /\ todo'[r] = todo[r] \ {e}
        /\ \A q \in Requests \ {r} : pc'[q] = pc[q] /\ todo'[q] = todo[q]
    BY <1>1 DEF IInv, TypeOK
  <1>5. /\ queue'[e.key] = Append(queue[e.key], e)
        /\ \A k \in Keys \ {e.key} : queue'[k] = queue[k]
        /\ \A k \in Keys : queue[k] \in Seq(Event)
    BY <1>1, <1>3 DEF IInv, TypeOK
  <1>6. TypeOK'
    <2>1. queue' \in [Keys -> Seq(Event)]
      <3>1. Append(queue[e.key], e) \in Seq(Event)
        BY <1>3, <1>5
      <3> QED BY <1>1, <3>1 DEF IInv, TypeOK
    <2>2. flushing' \in [Requests -> Tables \cup {{}}]
      BY <1>1, <1>3, SiblingsForm DEF IInv, TypeOK
    <2>3. todo' \in [Requests -> SUBSET Event]
      BY <1>1 DEF IInv, TypeOK
    <2>4. pc' \in [Requests -> PC]
      BY <1>1 DEF IInv, TypeOK, PC
    <2> QED BY <1>2, <2>1, <2>2, <2>3, <2>4 DEF IInv, TypeOK, Settings
  <1>7. Consistent'
    BY <1>2 DEF IInv, Consistent
  <1>8. \A q \in Requests : Holds(q)'
    <2>1. Holds(r)'
      BY <1>2, <1>4 DEF IInv, Holds, Truthful, Was
    <2>2. Grown
      BY <1>2 DEF Grown
    <2> QED BY <1>4, <1>6, <2>1, <2>2, HoldsKept
  <1>9. NoPhantomEvents'
    <2>1. \A q \in Requests : pc'[q] = "emitting" => \A f \in todo'[q] : Truthful(f)'
      BY <1>8 DEF Holds
    <2>2. \A k \in Keys : \A i \in DOMAIN queue'[k] : Truthful(queue'[k][i])
      <3>1. \A i \in DOMAIN queue'[e.key] :
               \/ queue'[e.key][i] = e
               \/ i \in DOMAIN queue[e.key] /\ queue'[e.key][i] = queue[e.key][i]
        BY <1>3, <1>5
      <3> QED BY <1>3, <1>5, <3>1 DEF IInv, NoPhantomEvents
    <2>3. \A k \in Keys : \A i \in DOMAIN log[k] : Truthful(log[k][i])
      BY DEF IInv, NoPhantomEvents
    <2> QED BY <1>2, <2>1, <2>2, <2>3 DEF NoPhantomEvents, Truthful, Was
  <1>10. Converging'
    <2> SUFFICES ASSUME Emits, NEW k \in Keys, k \notin raced', k \notin lost'
                 PROVE  InStep(k)'
      BY DEF Converging, Emits, Settings
    <2>1. InStep(k)
      BY <1>2 DEF IInv, Converging
    <2>2. CASE k = e.key
      <3>1. Owing(k) = {r}
        BY <1>2, <2>1, <2>2 DEF InStep, Owing
      <3>2. \A f \in todo[r] \ {e} : f.key # k
        BY <2>2 DEF IInv, Holds
      <3>3. Owing(k)' = {}
        BY <1>4, <3>1, <3>2 DEF Owing
      <3>4. e.after = table'[k]
        BY <1>2, <2>1, <2>2, <3>1 DEF InStep
      <3>5. queue'[k] # << >> /\ queue'[k][Len(queue'[k])] = e
        BY <1>3, <1>5, <2>2
      <3> QED BY <3>3, <3>4, <3>5 DEF InStep, Settled
    <2>3. CASE k # e.key
      <3>1. Owing(k)' = Owing(k)
        BY <1>2, <1>4, <2>3 DEF Owing
      <3>2. \A q \in Owing(k) : todo'[q] \subseteq todo[q]
        BY <1>4 DEF Owing
      <3>3. queue'[k] = queue[k] /\ log'[k] = log[k] /\ table'[k] = table[k]
        BY <1>2, <1>5, <2>3
      <3> QED BY <2>1, <3>1, <3>2, <3>3 DEF InStep, Settled, View
    <2> QED BY <2>2, <2>3
  <1> QED BY <1>6, <1>7, <1>8, <1>9, <1>10 DEF IInv

\* An emission that is given up, and the end of an emission.
LEMMA LeaveInv ==
    ASSUME IInv, Settings, NEW r \in Requests, pc[r] \in {"emitting", "flushing"},
           pc' = [pc EXCEPT ![r] = "ok"], todo' = [todo EXCEPT ![r] = {}],
           flushing' = [flushing EXCEPT ![r] = {}],
           lost' = lost \cup {e.key : e \in todo[r]},
           UNCHANGED <<table, changes, queue, log, raced>>
    PROVE  IInv'
  <1>1. /\ pc'[r] = "ok" /\ todo'[r] = {}
        /\ \A q \in Requests \ {r} : pc'[q] = pc[q] /\ todo'[q] = todo[q]
    BY DEF IInv, TypeOK
  <1>2. \A e \in todo[r] : e.key \in Keys
    BY DEF IInv, TypeOK, Event
  <1>3. TypeOK'
    BY <1>2 DEF IInv, TypeOK, PC, Done, Settings
  <1>4. Consistent'
    BY DEF IInv, Consistent
  <1>5. \A q \in Requests : Holds(q)'
    <2>1. Holds(r)'
      BY <1>1 DEF Holds
    <2> QED BY <1>1, <1>3, <2>1, HoldsKept DEF Grown
  <1>6. NoPhantomEvents'
    <2>1. \A q \in Requests : pc'[q] = "emitting" => \A e \in todo'[q] : Truthful(e)'
      BY <1>5 DEF Holds
    <2> QED BY <2>1 DEF IInv, NoPhantomEvents, Truthful, Was
  <1>7. Converging'
    <2> SUFFICES ASSUME Emits, NEW k \in Keys, k \notin raced', k \notin lost'
                 PROVE  InStep(k)'
      BY DEF Converging, Emits, Settings
    <2>1. InStep(k)
      BY DEF IInv, Converging
    <2>2. Owing(k)' = Owing(k) /\ r \notin Owing(k)
      BY <1>1 DEF Owing
    <2>3. \A q \in Owing(k) : todo'[q] = todo[q]
      BY <1>1, <2>2 DEF Owing
    <2> QED BY <2>1, <2>2, <2>3, InStepKept
  <1> QED BY <1>3, <1>4, <1>5, <1>6, <1>7 DEF IInv

LEMMA ProduceFailInv ==
    ASSUME IInv, Settings, NEW r \in Requests, ProduceFail(r)
    PROVE  IInv'
  BY LeaveInv DEF ProduceFail

LEMMA FlushInv ==
    ASSUME IInv, Settings, NEW r \in Requests, Flush(r)
    PROVE  IInv'
  <1>1. todo[r] = {} /\ pc[r] = "flushing"
    BY DEF Flush, IInv, Holds
  <1>2. todo' = [todo EXCEPT ![r] = {}] /\ lost' = lost \cup {e.key : e \in todo[r]}
    BY <1>1 DEF Flush, IInv, TypeOK
  <1> QED BY <1>1, <1>2, LeaveInv DEF Flush
-----------------------------------------------------------------------------
\* What the delivery thread and the connector leave alone.
LEMMA BrokerFrame ==
    ASSUME IInv, Settings, UNCHANGED <<table, changes, pc, todo, flushing, raced>>,
           queue' \in [Keys -> Seq(Event)], log' \in [Keys -> Seq(Event)],
           lost' \in SUBSET Keys,
           \A k \in Keys : /\ \A i \in DOMAIN log'[k] : Truthful(log'[k][i])
                           /\ \A i \in DOMAIN queue'[k] : Truthful(queue'[k][i]),
           Converging'
    PROVE  IInv'
  <1>1. TypeOK' /\ Consistent'
    BY DEF IInv, TypeOK, Consistent, Settings
  <1>2. \A r \in Requests : Holds(r)'
    BY <1>1, HoldsKept DEF Grown
  <1>3. NoPhantomEvents'
    BY DEF IInv, NoPhantomEvents, Truthful, Was
  <1> QED BY <1>1, <1>2, <1>3 DEF IInv

\* The first event of a queue moves to the topic, or is copied there.
LEMMA DeliverInv ==
    ASSUME IInv, Settings, NEW k \in Keys, queue[k] # << >>,
           log' = [log EXCEPT ![k] = Append(@, Head(queue[k]))],
           \/ queue' = [queue EXCEPT ![k] = Tail(@)]
           \/ queue' = queue,
           UNCHANGED <<table, changes, pc, todo, flushing, raced, lost>>
    PROVE  IInv'
  <1>1. \A j \in Keys : queue[j] \in Seq(Event) /\ log[j] \in Seq(Event)
    BY DEF IInv, TypeOK
  <1>2. /\ Head(queue[k]) \in Event /\ Head(queue[k]) = queue[k][1] /\ 1 \in DOMAIN queue[k]
        /\ Tail(queue[k]) \in Seq(Event)
        /\ Len(Tail(queue[k])) = Len(queue[k]) - 1
        /\ \A i \in 1..(Len(queue[k]) - 1) : Tail(queue[k])[i] = queue[k][i + 1]
    BY <1>1, HeadTailProperties
  <1>3. /\ log'[k] = Append(log[k], Head(queue[k]))
        /\ \A j \in Keys \ {k} : log'[j] = log[j] /\ queue'[j] = queue[j]
        /\ queue'[k] = Tail(queue[k]) \/ queue'[k] = queue[k]
    BY DEF IInv, TypeOK
  <1>4. queue' \in [Keys -> Seq(Event)] /\ log' \in [Keys -> Seq(Event)]
    <2>1. Append(log[k], Head(queue[k])) \in Seq(Event)
      BY <1>1, <1>2
    <2> QED BY <1>2, <2>1 DEF IInv, TypeOK
  <1>5. /\ Len(log'[k]) = Len(log[k]) + 1 /\ log'[k] # << >>
        /\ log'[k][Len(log'[k])] = Head(queue[k])
        /\ \A i \in DOMAIN log'[k] : \/ log'[k][i] = Head(queue[k])
                                     \/ i \in DOMAIN log[k] /\ log'[k][i] = log[k][i]
    BY <1>1, <1>2, <1>3
  <1>6. \A i \in DOMAIN queue'[k] : \E m \in DOMAIN queue[k] : queue'[k][i] = queue[k][m]
    <2> TAKE i \in DOMAIN queue'[k]
    <2>1. CASE queue'[k] = Tail(queue[k])
      <3>1. i \in 1..(Len(queue[k]) - 1) /\ Len(queue[k]) \in Nat
        BY <1>1, <1>2, <2>1
      <3>2. i + 1 \in DOMAIN queue[k]
        BY <1>1, <3>1
      <3> QED BY <1>2, <2>1, <3>1, <3>2
    <2> QED BY <1>3, <2>1
  <1>7. \A j \in Keys : /\ \A i \in DOMAIN log'[j] : Truthful(log'[j][i])
                        /\ \A i \in DOMAIN queue'[j] : Truthful(queue'[j][i])
    BY <1>2, <1>3, <1>5, <1>6 DEF IInv, NoPhantomEvents
  <1>8. Converging'
    <2> SUFFICES ASSUME Emits, NEW j \in Keys, j \notin raced', j \notin lost'
                 PROVE  InStep(j)'
      BY DEF Converging, Emits, Settings
    <2>1. InStep(j)
      BY DEF IInv, Converging
    <2>2. Owing(j)' = Owing(j)
      BY DEF Owing
    <2>3. CASE j # k
      BY <1>3, <2>1, <2>2, <2>3, InStepKept
    <2>4. CASE j = k
      <3>1. queue'[k] # << >> => queue'[k][Len(queue'[k])] = queue[k][Len(queue[k])]
        <4>1. CASE queue'[k] = Tail(queue[k]) /\ Tail(queue[k]) # << >>
          <5>1. Len(queue[k]) - 1 \in 1..(Len(queue[k]) - 1)
            BY <1>1, <1>2, <4>1
          <5> QED BY <1>1, <1>2, <4>1, <5>1
        <4> QED BY <1>3, <4>1
      <3>2. queue'[k] = << >> => Head(queue[k]) = queue[k][Len(queue[k])]
        <4>1. ASSUME queue'[k] = << >> PROVE Len(queue[k]) = 1
          <5>1. Tail(queue[k]) = << >>
            BY <1>3, <4>1
          <5>2. Len(<< >>) = 0
            OBVIOUS
          <5>3. Len(Tail(queue[k])) = 0
            BY <5>1, <5>2, Zenon
          <5> QED BY <1>1, <1>2, <5>3
        <4> QED BY <1>2, <4>1
      <3>3. View(k)' = Head(queue[k]).after
        BY <1>5 DEF View
      <3> QED BY <2>1, <2>2, <2>4, <3>1, <3>2, <3>3 DEF InStep, Settled
    <2> QED BY <2>3, <2>4
  <1> QED BY <1>4, <1>7, <1>8, BrokerFrame DEF IInv, TypeOK

LEMMA GiveUpInv ==
    ASSUME IInv, Settings, NEW k \in Keys, GiveUp(k)
    PROVE  IInv'
  <1>1. queue[k] \in Seq(Event) /\ queue[k] # << >>
    BY DEF GiveUp, IInv, TypeOK
  <1>2. /\ Tail(queue[k]) \in Seq(Event)
        /\ Len(Tail(queue[k])) = Len(queue[k]) - 1
        /\ \A i \in 1..(Len(queue[k]) - 1) : Tail(queue[k])[i] = queue[k][i + 1]
    BY <1>1, HeadTailProperties
  <1>3. /\ queue'[k] = Tail(queue[k]) /\ \A j \in Keys \ {k} : queue'[j] = queue[j]
        /\ queue' \in [Keys -> Seq(Event)] /\ lost' \in SUBSET Keys
        /\ log' \in [Keys -> Seq(Event)]
    BY <1>2 DEF GiveUp, IInv, TypeOK
  <1>4. \A i \in DOMAIN queue'[k] : \E m \in DOMAIN queue[k] : queue'[k][i] = queue[k][m]
    <2> TAKE i \in DOMAIN queue'[k]
    <2>1. i \in 1..(Len(queue[k]) - 1) /\ Len(queue[k]) \in Nat
      BY <1>1, <1>2, <1>3
    <2>2. i + 1 \in DOMAIN queue[k]
      BY <1>1, <2>1
    <2> QED BY <1>2, <1>3, <2>1, <2>2
  <1>5. \A j \in Keys : /\ \A i \in DOMAIN log'[j] : Truthful(log'[j][i])
                        /\ \A i \in DOMAIN queue'[j] : Truthful(queue'[j][i])
    BY <1>3, <1>4 DEF GiveUp, IInv, NoPhantomEvents
  <1>6. Converging'
    <2> SUFFICES ASSUME Emits, NEW j \in Keys, j \notin raced', j \notin lost'
                 PROVE  InStep(j)'
      BY DEF Converging, Emits, Settings
    <2>1. InStep(j) /\ j # k
      BY DEF GiveUp, IInv, Converging
    <2>2. Owing(j)' = Owing(j)
      BY DEF GiveUp, Owing
    <2> QED BY <1>3, <2>1, <2>2, InStepKept DEF GiveUp
  <1> QED BY <1>3, <1>5, <1>6, BrokerFrame DEF GiveUp

LEMMA StreamInv ==
    ASSUME IInv, Settings, NEW k \in Keys, Stream(k)
    PROVE  IInv'
  <1> DEFINE n == Len(log[k]) + 1
             e == Upsert(k, changes[k][n])
  <1>1. log[k] \in Seq(Event) /\ changes[k] \in Seq(Row \cup {None}) /\ n \in DOMAIN changes[k]
    BY DEF Stream, IInv, TypeOK
  <1>2. changes[k][n] \in Row \cup {None}
    BY <1>1
  <1>3. e \in Event /\ Truthful(e)
    BY <1>1, <1>2 DEF Upsert, Event, Truthful, Was
  <1>4. log' = [log EXCEPT ![k] = Append(log[k], e)]
    BY DEF Stream
  <1> HIDE DEF n, e
  <1>5. log' \in [Keys -> Seq(Event)]
    <2>1. Append(log[k], e) \in Seq(Event)
      BY <1>1, <1>3
    <2> QED BY <1>4, <2>1 DEF IInv, TypeOK
  <1>6. \A j \in Keys : \A i \in DOMAIN log'[j] : Truthful(log'[j][i])
    <2>1. log'[k] = Append(log[k], e) /\ \A j \in Keys \ {k} : log'[j] = log[j]
      BY <1>4 DEF IInv, TypeOK
    <2>2. \A i \in DOMAIN log'[k] : \/ log'[k][i] = e
                                    \/ i \in DOMAIN log[k] /\ log'[k][i] = log[k][i]
      BY <1>1, <1>3, <2>1
    <2> QED BY <1>3, <2>1, <2>2 DEF IInv, NoPhantomEvents
  <1>7. Converging'
    BY DEF Stream, Converging, Emits, Settings
  <1>8. \A j \in Keys : \A i \in DOMAIN queue'[j] : Truthful(queue'[j][i])
    BY DEF Stream, IInv, NoPhantomEvents
  <1>9. queue' \in [Keys -> Seq(Event)] /\ lost' \in SUBSET Keys
    BY DEF Stream, IInv, TypeOK
  <1> QED BY <1>5, <1>6, <1>7, <1>8, <1>9, BrokerFrame DEF Stream

LEMMA StopInv ==
    ASSUME IInv, Settings, Stop
    PROVE  IInv'
  <1>1. /\ pc' \in [Requests -> PC]
        /\ \A r \in Requests : pc'[r] \in Done /\ todo'[r] = {}
        /\ \A k \in Keys : queue'[k] = << >>
    BY DEF Stop, IInv, TypeOK, PC, Done
  <1>2. TypeOK'
    BY <1>1 DEF Stop, IInv, TypeOK, Settings
  <1>3. Consistent'
    BY DEF Stop, IInv, Consistent
  <1>4. \A r \in Requests : Holds(r)'
    BY <1>1 DEF Holds, Done
  <1>5. NoPhantomEvents'
    BY <1>1 DEF Stop, IInv, NoPhantomEvents, Truthful, Was
  <1>6. Converging'
    <2> SUFFICES ASSUME Emits, NEW k \in Keys, k \notin raced', k \notin lost'
                 PROVE  InStep(k)'
      BY DEF Converging, Emits, Settings
    <2>1. InStep(k) /\ queue[k] = << >> /\ Owing(k) = {}
      BY DEF Stop, IInv, Converging
    <2>2. Owing(k)' = {}
      BY <1>1 DEF Owing, Done
    <2>3. View(k)' = View(k) /\ table'[k] = table[k]
      BY DEF Stop, View
    <2> QED BY <1>1, <2>1, <2>2, <2>3 DEF InStep, Settled
  <1> QED BY <1>2, <1>3, <1>4, <1>5, <1>6 DEF IInv

LEMMA StutterInv ==
    ASSUME IInv, UNCHANGED vars
    PROVE  IInv'
  <1> USE DEF vars
  <1>1. TypeOK' /\ Consistent'
    BY DEF IInv, TypeOK, Consistent
  <1>2. \A r \in Requests : Holds(r)'
    BY DEF IInv, Holds, Truthful, Was
  <1>3. NoPhantomEvents'
    BY DEF IInv, NoPhantomEvents, Truthful, Was
  <1>4. Converging'
    BY DEF IInv, Converging, InStep, Owing, Settled, View, Emits
  <1> QED BY <1>1, <1>2, <1>3, <1>4 DEF IInv
-----------------------------------------------------------------------------
LEMMA StepIInv == IInv /\ [Next]_vars => IInv'
  <1> SUFFICES ASSUME IInv, Next, Settings PROVE IInv'
    BY StutterInv DEF Next
  <1>1. ASSUME NEW r \in Requests, Begin(r) PROVE IInv'
    <2>1. ASSUME NEW k \in Keys, NEW row \in NewRows[k], Create(r, k, row) PROVE IInv'
      BY <2>1, CreateInv
    <2>2. ASSUME NEW k \in Customers \cup Accounts, DeleteRead(r, k) PROVE IInv'
      BY <2>2, DeleteReadInv
    <2>3. ASSUME NEW k \in Customers \cup Accounts, NEW p \in Patches[k], Update(r, k, p)
          PROVE  IInv'
      BY <2>3, UpdateInv
    <2>4. ASSUME NEW batch \in SUBSET Txns, GenerateRead(r, batch) PROVE IInv'
      BY <2>4, GenerateReadInv
    <2>5. CASE DbFail(r)
      BY <2>5, DbFailInv
    <2> QED BY <1>1, <2>1, <2>2, <2>3, <2>4, <2>5 DEF Begin
  <1>2. ASSUME NEW r \in Requests, Continue(r) PROVE IInv'
    <2>1. CASE DeleteRow(r)
      BY <2>1, DeleteRowInv
    <2>2. CASE GenerateInsert(r)
      BY <2>2, GenerateInsertInv
    <2>3. CASE DbFail(r)
      BY <2>3, DbFailInv
    <2>4. CASE Produce(r)
      BY <2>4, ProduceInv
    <2>5. CASE ProduceFail(r)
      BY <2>5, ProduceFailInv
    <2>6. CASE Flush(r)
      BY <2>6, FlushInv
    <2> QED BY <1>2, <2>1, <2>2, <2>3, <2>4, <2>5, <2>6 DEF Continue
  <1>3. ASSUME NEW k \in Keys, Deliver(k) \/ Redeliver(k) PROVE IInv'
    BY <1>3, DeliverInv DEF Deliver, Redeliver
  <1>4. ASSUME NEW k \in Keys, GiveUp(k) PROVE IInv'
    BY <1>4, GiveUpInv
  <1>5. ASSUME NEW k \in Keys, Stream(k) PROVE IInv'
    BY <1>5, StreamInv
  <1>6. CASE Stop
    BY <1>6, StopInv
  <1>7. CASE Resting
    BY <1>7, StutterInv DEF Resting
  <1> QED BY <1>1, <1>2, <1>3, <1>4, <1>5, <1>6, <1>7 DEF Next

\* The inductive invariant holds of every run of the services.
THEOREM Invariance == Spec => []IInv
  <1>1. Init => IInv
    BY InitIInv
  <1>2. IInv /\ [Next]_vars => IInv'
    BY StepIInv
  <1> QED BY <1>1, <1>2, PTL DEF Spec

\* Every variable keeps its type, whatever the requests write.
THEOREM TypeCorrect == Spec => []TypeOK
  <1>1. IInv => TypeOK
    BY DEF IInv
  <1> QED BY <1>1, Invariance, PTL

\* No handler, interleaving, repeated delivery or crash puts an event into a
\* queue or a topic about a row the table never had or a deletion never made.
THEOREM NoPhantoms == Spec => []NoPhantomEvents
  <1>1. IInv => NoPhantomEvents
    BY DEF IInv
  <1> QED BY <1>1, Invariance, PTL

\* In bypass mode a row whose writers did not overlap and of which no event was
\* lost is, once its events are through, the same for consumers as in the table.
THEOREM QuietRowsConverge == Spec => []QuietKeysConverge
  <1>1. IInv => QuietKeysConverge
    BY DEF IInv, Converging, InStep, QuietKeysConverge
  <1> QED BY <1>1, Invariance, PTL
-----------------------------------------------------------------------------
\* With a connector no request has anything to send, and the topic of a row is
\* the beginning of its history.
Owned ==
    connectorEnabled =>
        /\ \A r \in Requests : pc[r] # "emitting"
        /\ \A k \in Keys : /\ queue[k] = << >>
                           /\ Len(log[k]) <= Len(changes[k])
                           /\ \A i \in DOMAIN log[k] : log[k][i].after = changes[k][i]

LEMMA OwnedInit == Init => Owned
  BY DEF Init, Owned

\* A handler under a connector only answers and adds to histories.
Answering == /\ \A r \in Requests : pc'[r] # "emitting"
             /\ UNCHANGED <<queue, log>> /\ Grown

LEMMA CommitAnswers ==
    ASSUME TypeOK, Owned, connectorEnabled, NEW r \in Requests, NEW new, NEW told,
           Commit(r, new, told), Kafka
    PROVE  Answering
  <1>1. Grown
    BY DEF Commit, Grown
  <1>2. \A q \in Requests : pc'[q] # "emitting"
    BY DEF Commit, Emit, Emits, Refuse, Owned, TypeOK
  <1> QED BY <1>1, <1>2 DEF Answering, Kafka

LEMMA RefuseAnswers ==
    ASSUME TypeOK, Owned, connectorEnabled, NEW r \in Requests, NEW answer \in Done,
           Refuse(r, answer), NoWrite, Kafka
    PROVE  Answering
  BY DEF Refuse, NoWrite, Kafka, Owned, TypeOK, Answering, Grown, Done

LEMMA HandlersAnswer ==
    ASSUME TypeOK, Owned, connectorEnabled, NEW r \in Requests, Begin(r) \/ Continue(r)
    PROVE  Answering
  <1>1. ASSUME NEW k \in Keys, NEW row \in NewRows[k], Create(r, k, row) PROVE Answering
    BY <1>1, CommitAnswers, RefuseAnswers DEF Create, Done
  <1>2. ASSUME NEW k \in Customers \cup Accounts, DeleteRead(r, k) PROVE Answering
    <2>1. CASE Refuse(r, "missing")
      BY <1>2, <2>1, RefuseAnswers DEF DeleteRead, Done
    <2>2. CASE pc' = [pc EXCEPT ![r] = "deleting"]
      BY <1>2, <2>2 DEF DeleteRead, NoWrite, Kafka, Owned, TypeOK, Answering, Grown
    <2> QED BY <1>2, <2>1, <2>2 DEF DeleteRead
  <1>3. ASSUME NEW k \in Customers \cup Accounts, NEW p \in Patches[k], Update(r, k, p)
        PROVE  Answering
    <2>1. CASE Emit(r, {Upsert(k, table[k])}) /\ UNCHANGED <<table, changes>>
      BY <1>3, <2>1 DEF Update, Emit, Emits, Kafka, Owned, TypeOK, Answering, Grown
    <2>2. CASE NoWrite /\ (Refuse(r, "missing") \/ Refuse(r, "error"))
      BY <1>3, <2>2, RefuseAnswers DEF Update, Done
    <2>3. CASE Commit(r, [j \in {k} |-> Merged(k, p)], {Upsert(k, Merged(k, p))})
      BY <1>3, <2>3, CommitAnswers DEF Update
    <2> QED BY <1>3, <2>1, <2>2, <2>3 DEF Update
  <1>4. ASSUME NEW batch \in SUBSET Txns, GenerateRead(r, batch) PROVE Answering
    <2>1. CASE Refuse(r, "conflict")
      BY <1>4, <2>1, RefuseAnswers DEF GenerateRead, Done
    <2>2. CASE pc' = [pc EXCEPT ![r] = "inserting"]
      BY <1>4, <2>2 DEF GenerateRead, NoWrite, Kafka, Owned, TypeOK, Answering, Grown
    <2> QED BY <1>4, <2>1, <2>2 DEF GenerateRead
  <1>5. CASE DbFail(r)
    BY <1>5, RefuseAnswers DEF DbFail, Done
  <1>6. CASE DeleteRow(r)
    BY <1>6, CommitAnswers, RefuseAnswers DEF DeleteRow, Done
  <1>7. CASE GenerateInsert(r)
    BY <1>7, CommitAnswers, RefuseAnswers DEF GenerateInsert, Done
  <1>8. CASE Produce(r) \/ ProduceFail(r)
    BY <1>8 DEF Produce, ProduceFail, Owned
  <1>9. CASE Flush(r)
    BY <1>9 DEF Flush, Owned, TypeOK, Answering, Grown
  <1> QED BY <1>1, <1>2, <1>3, <1>4, <1>5, <1>6, <1>7, <1>8, <1>9 DEF Begin, Continue

LEMMA AnsweringOwned ==
    ASSUME TypeOK, TypeOK', Owned, connectorEnabled, Answering
    PROVE  Owned'
  <1>1. ASSUME NEW k \in Keys
        PROVE  /\ Len(changes[k]) <= Len(changes'[k])
               /\ \A i \in 1..Len(changes[k]) : changes'[k][i] = changes[k][i]
    <2>1. changes[k] \in Seq(Row \cup {None})
      BY DEF TypeOK
    <2>2. CASE changes'[k] = changes[k]
      BY <2>1, <2>2
    <2>3. ASSUME NEW row, changes'[k] = Append(changes[k], row)
          PROVE  /\ Len(changes[k]) <= Len(changes'[k])
                 /\ \A i \in 1..Len(changes[k]) : changes'[k][i] = changes[k][i]
      BY <2>1, <2>3
    <2> QED BY <2>2, <2>3 DEF Answering, Grown
  <1>2. \A k \in Keys : /\ Len(log[k]) \in Nat /\ Len(changes[k]) \in Nat
                        /\ Len(changes'[k]) \in Nat /\ DOMAIN log[k] = 1..Len(log[k])
    BY DEF TypeOK
  <1>3. ASSUME NEW k \in Keys
        PROVE  /\ Len(log[k]) <= Len(changes'[k])
               /\ \A i \in DOMAIN log[k] : log[k][i].after = changes'[k][i]
    <2>1. Len(log[k]) <= Len(changes[k])
      BY DEF Owned
    <2>2. \A i \in DOMAIN log[k] : i \in 1..Len(changes[k])
      BY <1>2, <2>1
    <2> QED BY <1>1, <1>2, <2>1, <2>2 DEF Owned
  <1> QED BY <1>3 DEF Owned, Answering

LEMMA OwnedStep == TypeOK /\ TypeOK' /\ Owned /\ [Next]_vars => Owned'
  <1> SUFFICES ASSUME TypeOK, TypeOK', Owned, [Next]_vars, connectorEnabled PROVE Owned'
    BY DEF Owned, Next, Settings, vars
  <1>1. ASSUME NEW r \in Requests, Begin(r) \/ Continue(r) PROVE Owned'
    BY <1>1, HandlersAnswer, AnsweringOwned
  <1>2. ASSUME NEW k \in Keys, Deliver(k) \/ Redeliver(k) \/ GiveUp(k) PROVE Owned'
    BY <1>2 DEF Deliver, Redeliver, GiveUp, Owned
  <1>3. ASSUME NEW k \in Keys, Stream(k) PROVE Owned'
    <2> DEFINE n == Len(log[k]) + 1
    <2>1. /\ log[k] \in Seq(Event) /\ changes[k] \in Seq(Row \cup {None})
          /\ Len(log[k]) < Len(changes[k])
          /\ log'[k] = Append(log[k], Upsert(k, changes[k][n]))
          /\ \A j \in Keys \ {k} : log'[j] = log[j]
      BY <1>3 DEF Stream, TypeOK
    <2>2. Upsert(k, changes[k][n]).after = changes[k][n]
      BY DEF Upsert
    <2>3. Len(log'[k]) = n /\ n <= Len(changes[k])
      BY <2>1
    <2>4. \A i \in DOMAIN log'[k] : log'[k][i].after = changes[k][i]
      BY <2>1, <2>2 DEF Owned
    <2> QED BY <1>3, <2>1, <2>3, <2>4 DEF Stream, Owned
  <1>4. CASE Stop
    BY <1>4 DEF Stop, Owned, TypeOK, Done
  <1>5. CASE Resting \/ UNCHANGED vars
    BY <1>5 DEF Resting, vars, Owned
  <1> QED BY <1>1, <1>2, <1>3, <1>4, <1>5 DEF Next

\* With a CDC connector the handlers never publish: the topic of a row holds
\* the row's history from its beginning, every change once and in commit order.
THEOREM ConnectorIsTheOnlyWriter == Spec => []ConnectorOwnsKafka
  <1>1. Owned /\ TypeOK => ConnectorOwnsKafka
    <2> SUFFICES ASSUME Owned, TypeOK, connectorEnabled, NEW k \in Keys,
                        NEW i \in DOMAIN log[k]
                 PROVE  i \in DOMAIN changes[k] /\ log[k][i].after = changes[k][i]
      BY DEF ConnectorOwnsKafka
    <2>1. /\ i \in 1..Len(log[k]) /\ Len(log[k]) \in Nat
          /\ DOMAIN changes[k] = 1..Len(changes[k]) /\ Len(changes[k]) \in Nat
      BY DEF TypeOK
    <2> QED BY <2>1 DEF Owned
  <1> QED BY <1>1, OwnedInit, OwnedStep, TypeCorrect, PTL DEF Spec
=============================================================================
