------------------------ MODULE ChatSessionsProofs ------------------------
(***************************************************************************)
(* Proofs about ChatSessions, for any number of turns, resets, sessions    *)
(* and attempts.  IInv is the inductive invariant: what every suspension   *)
(* point knows about the connections, the locks and the requests.  It also *)
(* gives the two last parts: the cache implements ConnectionOwnership, and *)
(* it outgrows its cap by no more than the attempts that overlapped.       *)
(***************************************************************************)
EXTENDS ChatSessionCap, SequenceTheorems, FiniteSetTheorems, TLAPS

\* Cached and owed connections are open, and each has one place only.
Placed ==
    /\ \A s \in Cached : /\ conn[cache[s]] = "open"
                         /\ sid[cache[s][1]] = s
                         /\ \A p \in Parties : cache[s] \notin debt[p]
    /\ \A p \in Parties : \A c \in debt[p] : conn[c] = "open"
    /\ \A p, q \in Parties : p # q => debt[p] \cap debt[q] = {}

\* An open connection has a place.
Kept ==
    \A c \in Conns : conn[c] = "open" =>
        (\E s \in Sessions : cache[s] = c) \/ (\E p \in Parties : c \in debt[p])

\* A turn dials its connections in the order of its attempts, and one is being
\* dialled exactly while the turn awaits _connect.
Dialled(t) ==
    \A n \in 1..MaxAttempts :
        /\ \/ n > attempt[t]
           \/ n = attempt[t] /\ pc[t] \in {"new", "evicting", "backoff"}
           => conn[<<t, n>>] = "unused"
        /\ conn[<<t, n>>] = "opening" <=> n = attempt[t] /\ pc[t] = "connecting"

\* What a turn owes at each await.
Owed(t) ==
    /\ pc[t] \in {"new", "connecting", "waiting", "backoff", "live", "error"}
       => debt[t] = {}
    /\ pc[t] = "running" => debt[t] = IF sid[t] = None THEN {Own(t)} ELSE {}
    /\ pc[t] \in {"losing", "leaving", "leavingErr"} => debt[t] = {Own(t)}
    /\ pc[t] = "dropping" => \E c \in Conns : debt[t] = {c}

\* The local variable entry, and whose session it is for.
Entered(t) ==
    /\ entry[t] # None => /\ sid[entry[t][1]] = sid[t]
                          /\ conn[entry[t]] \in {"open", "closed"}
    /\ pc[t] \in {"losing", "waiting", "running"} /\ sid[t] # None => entry[t] # None
    /\ pc[t] \in {"evicting", "losing", "waiting", "dropping"} => sid[t] # None
    /\ pc[t] \in {"leaving", "leavingErr"} => sid[t] = None
    /\ sid[t] = None => entry[t] = None

Local(t) == Dialled(t) /\ Owed(t) /\ Entered(t)

\* What resets and the lifespan owe.
OwedElsewhere ==
    /\ \A r \in Resets :
          /\ pc[r] \in {"new", "none", "cleared"} => debt[r] = {}
          /\ pc[r] = "dropping" => \E c \in Conns : debt[r] = {c}
    /\ pc[Lifespan] # "stopping" => debt[Lifespan] = {}

\* The turn that runs on an entry is first in the queue of its lock.
Queued ==
    \A t \in Turns : pc[t] = "running" /\ sid[t] # None =>
        lock[entry[t]] # << >> /\ Head(lock[entry[t]]) = t

\* From shutdown on no request is in flight and nothing is cached.
Drained ==
    pc[Lifespan] # "up" =>
        /\ \A r \in Requests : pc[r] \notin InFlight
        /\ \A s \in Sessions : cache[s] = None

Rest == (\A t \in Turns : Local(t)) /\ OwedElsewhere /\ Queued /\ Drained
IInv == TypeOK /\ Placed /\ Kept /\ Rest
-----------------------------------------------------------------------------
\* A connection is a turn and an attempt.
LEMMA ConnForm ==
    /\ \A c \in Conns : c = <<c[1], c[2]>> /\ c[1] \in Turns /\ c[2] \in 1..MaxAttempts
    /\ \A t \in Turns, n \in 1..MaxAttempts : <<t, n>> \in Conns
    /\ None \notin Conns /\ None \notin Sessions
  BY ConstantsOK DEF Conns

LEMMA OwnForm ==
    ASSUME TypeOK, NEW t \in Turns
    PROVE  Own(t) \in Conns /\ Own(t)[1] = t /\ Own(t)[2] = attempt[t] /\ Own(t) # None
  BY ConnForm DEF TypeOK, Own

LEMMA PartyForm ==
    /\ Turns \subseteq Parties /\ Resets \subseteq Parties /\ Lifespan \in Parties
    /\ Requests \subseteq Parties /\ Turns \subseteq Requests /\ Resets \subseteq Requests
    /\ \A t \in Turns : t \notin Resets /\ t # Lifespan
    /\ \A r \in Resets : r # Lifespan
    /\ \A p \in Parties : p \in Turns \/ p \in Resets \/ p = Lifespan
    /\ \A r \in Requests : r \in Turns \/ r \in Resets
  BY ConstantsOK DEF Parties, Requests

LEMMA InitIInv == Init => IInv
  <1> SUFFICES ASSUME Init PROVE IInv
    OBVIOUS
  <1>1. TypeOK
    BY PartyForm, ConstantsOK DEF Init, TypeOK, TurnPC, ResetPC, LifespanPC
  <1>2. \A t \in Turns : Local(t)
    BY PartyForm, ConnForm, ConstantsOK DEF Init, Local, Dialled, Owed, Entered
  <1>3. Placed /\ Kept /\ OwedElsewhere /\ Queued /\ Drained
    BY PartyForm DEF Init, Placed, Kept, OwedElsewhere, Queued, Drained, Cached
  <1> QED BY <1>1, <1>2, <1>3 DEF IInv, Rest
-----------------------------------------------------------------------------
(* Where open connections are kept: the five ways a step can change it.     *)

Places == TypeOK /\ Placed /\ Kept

\* Nothing is opened, closed or moved.
LEMMA SamePlaces ==
    ASSUME Places, TypeOK', UNCHANGED <<sid, cache, debt>>,
           \A c \in Conns : conn'[c] = "open" <=> conn[c] = "open"
    PROVE  Placed' /\ Kept'
  <1>1. Placed'
    BY DEF Places, TypeOK, Placed, Cached
  <1>2. Kept'
    BY DEF Places, TypeOK, Kept
  <1> QED BY <1>1, <1>2

\* Popped connections move from the cache to the party that popped them.
LEMMA PopPlaces ==
    ASSUME Places, TypeOK', NEW p \in Parties, NEW V \in SUBSET Cached, Pop(p, V),
           UNCHANGED sid,
           \A c \in Conns : conn'[c] = "open" <=> conn[c] = "open"
    PROVE  Placed' /\ Kept'
  <1> DEFINE moved == {cache[s] : s \in V}
  <1>1. /\ debt'[p] = debt[p] \cup moved
        /\ \A q \in Parties \ {p} : debt'[q] = debt[q]
    BY DEF Pop, Places, TypeOK
  <1>2. \A s \in Sessions : cache'[s] = IF s \in V THEN None ELSE cache[s]
    BY DEF Pop
  <1>3. \A s, r \in Cached : cache[s] = cache[r] => s = r
    BY DEF Places, Placed
  <1>4. \A c \in moved : c \in Conns /\ conn[c] = "open" /\ \A q \in Parties : c \notin debt[q]
    BY DEF Places, Placed, TypeOK, Cached
  <1>5. Placed'
    <2>1. ASSUME NEW s \in Sessions, cache'[s] # None
          PROVE  /\ conn'[cache'[s]] = "open" /\ sid'[cache'[s][1]] = s
                 /\ \A q \in Parties : cache'[s] \notin debt'[q]
      <3>1. s \in Cached \ V /\ cache'[s] = cache[s]
        BY <2>1, <1>2 DEF Cached
      <3>2. cache[s] \notin moved
        BY <3>1, <1>3
      <3>3. /\ conn[cache[s]] = "open" /\ sid[cache[s][1]] = s /\ cache[s] \in Conns
            /\ \A q \in Parties : cache[s] \notin debt[q]
        BY <3>1 DEF Places, Placed, TypeOK, Cached
      <3> HIDE DEF moved
      <3> QED BY <3>1, <3>2, <3>3, <1>1
    <2>2. \A q \in Parties : \A c \in debt'[q] : conn'[c] = "open"
      BY <1>1, <1>4 DEF Places, Placed, TypeOK
    <2>3. \A q, u \in Parties : q # u => debt'[q] \cap debt'[u] = {}
      BY <1>1, <1>4 DEF Places, Placed
    <2> QED BY <2>1, <2>2, <2>3 DEF Placed, Cached
  <1>6. Kept'
    BY <1>1, <1>2 DEF Places, Kept
  <1> QED BY <1>5, <1>6

\* A party closes a connection it owes.
LEMMA ClosePlaces ==
    ASSUME Places, TypeOK', NEW p \in Parties, NEW d \in Conns, Close(p, d),
           UNCHANGED <<sid, cache>>,
           \A c \in Conns : conn'[c] = "open" <=> conn[c] = "open" /\ c # d
    PROVE  Placed' /\ Kept'
  <1>1. /\ d \in debt[p] /\ debt'[p] = debt[p] \ {d}
        /\ \A q \in Parties \ {p} : debt'[q] = debt[q]
    BY DEF Close, Places, TypeOK
  <1>2. \A q \in Parties : debt'[q] \subseteq debt[q] /\ d \notin debt'[q]
    BY <1>1 DEF Places, Placed
  <1>3. \A s \in Cached : cache[s] \in Conns /\ cache[s] # d
    BY <1>1 DEF Places, TypeOK, Placed, Cached
  <1>4. Placed'
    BY <1>2, <1>3 DEF Places, TypeOK, Placed, Cached
  <1>5. Kept'
    BY <1>1 DEF Places, TypeOK, Kept
  <1> QED BY <1>4, <1>5

\* A turn opens its own connection and keeps it to itself.
LEMMA OpenPlaces ==
    ASSUME Places, TypeOK', NEW t \in Turns, NEW d \in Conns, conn[d] # "open",
           debt[t] = {}, debt' = [debt EXCEPT ![t] = {d}], UNCHANGED <<sid, cache>>,
           \A c \in Conns : conn'[c] = "open" <=> conn[c] = "open" \/ c = d
    PROVE  Placed' /\ Kept'
  <1>1. /\ debt'[t] = {d} /\ t \in Parties
        /\ \A q \in Parties \ {t} : debt'[q] = debt[q]
    BY PartyForm DEF Places, TypeOK
  <1>2. Placed'
    BY <1>1 DEF Places, TypeOK, Placed, Cached
  <1>3. Kept'
    BY <1>1 DEF Places, TypeOK, Kept
  <1> QED BY <1>2, <1>3

\* A turn opens a connection and stores it under an id that has none.
LEMMA InstallPlaces ==
    ASSUME Places, TypeOK', NEW s \in Sessions, NEW d \in Conns, conn[d] # "open",
           cache[s] = None, sid[d[1]] = s, cache' = [cache EXCEPT ![s] = d],
           UNCHANGED <<sid, debt>>,
           \A c \in Conns : conn'[c] = "open" <=> conn[c] = "open" \/ c = d
    PROVE  Placed' /\ Kept'
  <1>1. cache'[s] = d /\ \A r \in Sessions \ {s} : cache'[r] = cache[r]
    BY DEF Places, TypeOK
  <1>2. \A q \in Parties : d \notin debt[q]
    BY DEF Places, Placed
  <1>3. ASSUME NEW r \in Sessions, cache'[r] # None
        PROVE  /\ conn'[cache'[r]] = "open" /\ sid'[cache'[r][1]] = r
               /\ \A q \in Parties : cache'[r] \notin debt'[q]
    <2>1. CASE r = s
      BY <2>1, <1>1, <1>2
    <2>2. CASE r # s
      BY <2>2, <1>1, <1>3 DEF Places, TypeOK, Placed, Cached
    <2> QED BY <2>1, <2>2
  <1>4. \A q \in Parties : \A c \in debt'[q] : conn'[c] = "open"
    BY DEF Places, TypeOK, Placed
  <1>5. Placed'
    BY <1>3, <1>4 DEF Placed, Cached, Places
  <1>6. Kept'
    BY <1>1, ConnForm DEF Places, TypeOK, Kept
  <1> QED BY <1>5, <1>6
-----------------------------------------------------------------------------
(* The steps shared by several actions.                                     *)

\* A step of turn t leaves what is local to the others as it was.
LEMMA OthersKeep ==
    ASSUME TypeOK, Rest, NEW t \in Parties,
           \A p \in Parties \ {t} : pc'[p] = pc[p] /\ debt'[p] = debt[p],
           \A u \in Turns \ {t} : attempt'[u] = attempt[u] /\ entry'[u] = entry[u],
           \A u \in Turns \ {t}, n \in 1..MaxAttempts :
              \/ conn'[<<u, n>>] = conn[<<u, n>>]
              \/ conn[<<u, n>>] = "open" /\ conn'[<<u, n>>] = "closed",
           \A c \in Conns : conn[c] \in {"open", "closed"} => conn'[c] \in {"open", "closed"},
           UNCHANGED sid
    PROVE  /\ \A u \in Turns \ {t} : Local(u)'
           /\ t \in Turns => OwedElsewhere'
  <1> USE PartyForm
  <1>1. ASSUME NEW u \in Turns \ {t} PROVE Local(u)'
    <2>1. /\ pc'[u] = pc[u] /\ debt'[u] = debt[u] /\ attempt'[u] = attempt[u]
          /\ entry'[u] = entry[u] /\ sid' = sid
      OBVIOUS
    <2>2. Local(u)
      BY DEF Rest
    <2>3. Dialled(u)'
      BY <2>1, <2>2 DEF Local, Dialled
    <2>4. Owed(u)'
      BY <2>1, <2>2 DEF Local, Owed, Own
    <2>5. Entered(u)'
      BY <2>1, <2>2 DEF Local, Entered, TypeOK
    <2> QED BY <2>3, <2>4, <2>5 DEF Local
  <1>2. t \in Turns => OwedElsewhere'
    BY DEF Rest, OwedElsewhere
  <1> QED BY <1>1, <1>2

LEMMA QueueFacts ==
    /\ \A q \in Seq(Turns), t \in Turns :
          /\ Append(q, t) \in Seq(Turns) /\ Append(q, t) # << >>
          /\ Head(Append(q, t)) = IF q = << >> THEN t ELSE Head(q)
    /\ \A q \in Seq(Turns) : q # << >> => Tail(q) \in Seq(Turns)
    /\ \A t \in Turns : <<t>> \in Seq(Turns) /\ <<t>> # << >> /\ Head(<<t>>) = t
  <1>1. ASSUME NEW q \in Seq(Turns), NEW t \in Turns
        PROVE  /\ Append(q, t) \in Seq(Turns) /\ Append(q, t) # << >>
               /\ Head(Append(q, t)) = IF q = << >> THEN t ELSE Head(q)
    BY AppendProperties, HeadTailAppend
  <1>2. ASSUME NEW q \in Seq(Turns), q # << >>
        PROVE  Tail(q) \in Seq(Turns)
    BY <1>2, HeadTailProperties
  <1>3. ASSUME NEW t \in Turns
        PROVE  <<t>> \in Seq(Turns) /\ <<t>> # << >> /\ Head(<<t>>) = t
    OBVIOUS
  <1> QED BY <1>1, <1>2, <1>3

\* Entering an entry: t joins the queue of its lock and runs when it is first.
LEMMA EnterStep ==
    ASSUME TypeOK, Rest, NEW t \in Turns, NEW c \in Conns, Enter(t, c),
           pc[t] # "running", sid[t] \in Sessions, UNCHANGED sid
    PROVE  /\ pc' \in [Parties -> TurnPC \cup ResetPC \cup LifespanPC]
           /\ pc'[t] \in {"running", "waiting"} /\ \A p \in Parties \ {t} : pc'[p] = pc[p]
           /\ entry' \in [Turns -> Conns \cup {None}]
           /\ entry'[t] = c /\ \A u \in Turns \ {t} : entry'[u] = entry[u]
           /\ lock' \in [Conns -> Seq(Turns)]
           /\ older' \in SUBSET (Sessions \X Sessions)
           /\ Queued'
  <1>1. lock[c] \in Seq(Turns) /\ t \in Parties
    BY PartyForm DEF TypeOK
  <1>2. /\ lock'[c] = Append(lock[c], t)
        /\ \A d \in Conns \ {c} : lock'[d] = lock[d]
        /\ lock' \in [Conns -> Seq(Turns)]
    BY <1>1, QueueFacts DEF Enter, TypeOK
  <1>3. /\ pc'[t] = IF lock[c] = << >> THEN "running" ELSE "waiting"
        /\ \A p \in Parties \ {t} : pc'[p] = pc[p]
        /\ pc' \in [Parties -> TurnPC \cup ResetPC \cup LifespanPC]
    BY <1>1 DEF Enter, TypeOK, Free, TurnPC
  <1>4. /\ entry'[t] = c /\ \A u \in Turns \ {t} : entry'[u] = entry[u]
        /\ entry' \in [Turns -> Conns \cup {None}]
    BY DEF Enter, TypeOK
  <1>5. older' \in SUBSET (Sessions \X Sessions)
    BY DEF Enter, TypeOK, Touched, Cached
  <1>6. ASSUME NEW u \in Turns, pc'[u] = "running", sid[u] # None
        PROVE  lock'[entry'[u]] # << >> /\ Head(lock'[entry'[u]]) = u
    <2>1. CASE u = t
      BY <2>1, <1>1, <1>2, <1>3, <1>4, <1>6, QueueFacts
    <2>2. CASE u # t
      <3>1. pc[u] = "running" /\ entry'[u] = entry[u]
        BY <2>2, <1>3, <1>4, <1>6, PartyForm
      <3>2. lock[entry[u]] # << >> /\ Head(lock[entry[u]]) = u
        BY <3>1, <1>6 DEF Rest, Queued
      <3>3. CASE entry[u] = c
        BY <3>1, <3>2, <3>3, <1>1, <1>2, QueueFacts
      <3>4. CASE entry[u] # c
        <4>1. entry[u] \in Conns
          BY <3>1, <1>6 DEF Rest, Local, Entered, TypeOK
        <4> QED BY <4>1, <3>1, <3>2, <3>4, <1>2
      <3> QED BY <3>3, <3>4
    <2> QED BY <2>1, <2>2
  <1>7. Queued'
    BY <1>6 DEF Queued
  <1> QED BY <1>2, <1>3, <1>4, <1>5, <1>7

\* Looking the session up after what the turn owed is closed: cn is conn with
\* at most open connections turned closed.
LEMMA LookupStep ==
    ASSUME TypeOK, Placed, Rest, NEW t \in Turns,
           pc[t] \in {"new", "backoff", "evicting"}, pc[Lifespan] = "up",
           NEW cn \in [Conns -> {"unused", "opening", "open", "closed"}],
           \A c \in Conns : cn[c] = conn[c] \/ (conn[c] = "open" /\ cn[c] = "closed"),
           Lookup(t, cn), debt' \in [Parties -> SUBSET Conns], debt'[t] = {},
           \A p \in Parties \ {t} : debt'[p] = debt[p],
           UNCHANGED <<sid, attempt, cache>>
    PROVE  /\ TypeOK' /\ Rest'
           /\ \A c \in Conns : conn'[c] = "open" <=> cn[c] = "open"
  <1>1. Local(t) /\ t \in Parties /\ Lifespan \in Parties /\ Lifespan # t /\ Own(t) \in Conns
    BY PartyForm, OwnForm DEF Rest
  <1>2. CASE HasEntry(t) /\ Enter(t, EntryOf(t)) /\ conn' = cn
    <2>1. EntryOf(t) \in Conns /\ sid[t] \in Sessions
      BY <1>2 DEF TypeOK, HasEntry, Cached, EntryOf
    <2>2. /\ pc' \in [Parties -> TurnPC \cup ResetPC \cup LifespanPC]
          /\ pc'[t] \in {"running", "waiting"} /\ \A p \in Parties \ {t} : pc'[p] = pc[p]
          /\ entry' \in [Turns -> Conns \cup {None}]
          /\ entry'[t] = EntryOf(t) /\ \A u \in Turns \ {t} : entry'[u] = entry[u]
          /\ lock' \in [Conns -> Seq(Turns)]
          /\ older' \in SUBSET (Sessions \X Sessions)
          /\ Queued'
      BY <1>2, <2>1, EnterStep
    <2>3. TypeOK'
      BY <1>2, <2>2, PartyForm DEF TypeOK, TurnPC
    <2>4. Local(t)'
      <3>1. Dialled(t)'
        BY <1>1, <1>2, <2>2, ConnForm DEF Local, Dialled
      <3>2. Owed(t)'
        BY <2>1, <2>2, ConnForm DEF Owed
      <3>3. sid[EntryOf(t)[1]] = sid[t] /\ conn[EntryOf(t)] = "open"
        BY <1>2 DEF Placed, HasEntry, EntryOf
      <3>4. Entered(t)'
        BY <1>2, <2>1, <2>2, <3>3, ConnForm DEF Entered
      <3> QED BY <3>1, <3>2, <3>4 DEF Local
    <2>5. (\A u \in Turns \ {t} : Local(u)') /\ OwedElsewhere'
      BY <1>1, <1>2, <2>2, ConnForm, OthersKeep
    <2>6. Drained'
      BY <1>1, <2>2 DEF Drained
    <2> QED BY <1>2, <2>2, <2>3, <2>4, <2>5, <2>6 DEF Rest
  <1>3. CASE /\ ~HasEntry(t)
             /\ pc' = [pc EXCEPT ![t] = "connecting"]
             /\ conn' = [cn EXCEPT ![Own(t)] = "opening"]
             /\ UNCHANGED <<entry, older, lock>>
    <2>1. /\ pc'[t] = "connecting" /\ \A p \in Parties \ {t} : pc'[p] = pc[p]
          /\ pc' \in [Parties -> TurnPC \cup ResetPC \cup LifespanPC]
      BY <1>1, <1>3 DEF TypeOK, TurnPC
    <2>2. conn[Own(t)] = "unused"
      BY <1>1 DEF TypeOK, Local, Dialled, Own
    <2>3. /\ conn'[Own(t)] = "opening" /\ \A c \in Conns \ {Own(t)} : conn'[c] = cn[c]
          /\ conn' \in [Conns -> {"unused", "opening", "open", "closed"}]
      BY <1>1, <1>3
    <2>4. TypeOK'
      BY <1>3, <2>1, <2>3, PartyForm DEF TypeOK, TurnPC
    <2>5. Local(t)'
      <3>1. Dialled(t)'
        <4>1. \A n \in 1..MaxAttempts : <<t, n>> \in Conns /\ (<<t, n>> = Own(t) <=> n = attempt[t])
          BY ConnForm DEF Own
        <4>2. attempt[t] \in 1..MaxAttempts /\ attempt'[t] = attempt[t]
          BY DEF TypeOK
        <4>3. ASSUME NEW n \in 1..MaxAttempts, n # attempt[t]
              PROVE  /\ n > attempt[t] => conn'[<<t, n>>] = "unused"
                     /\ conn'[<<t, n>>] # "opening"
          <5>1. /\ n > attempt[t] => conn[<<t, n>>] = "unused"
                /\ conn[<<t, n>>] # "opening"
            BY <1>1, <4>3 DEF Local, Dialled
          <5> QED BY <4>1, <4>3, <5>1, <2>3
        <4>4. ASSUME NEW n \in 1..MaxAttempts, n = attempt[t]
              PROVE  conn'[<<t, n>>] = "opening" /\ ~(n > attempt[t])
          BY <4>1, <4>2, <4>4, <2>3
        <4> QED BY <2>1, <4>2, <4>3, <4>4 DEF Dialled
      <3>2. Owed(t)'
        BY <2>1 DEF Owed
      <3>3. Entered(t)'
        BY <1>1, <1>3, <2>1, <2>2, <2>3 DEF TypeOK, Local, Entered
      <3> QED BY <3>1, <3>2, <3>3 DEF Local
    <2>6. (\A u \in Turns \ {t} : Local(u)') /\ OwedElsewhere'
      <3>1. \A u \in Turns \ {t}, n \in 1..MaxAttempts : <<u, n>> \in Conns /\ <<u, n>> # Own(t)
        BY ConnForm DEF Own
      <3> QED BY <1>1, <1>3, <2>1, <2>2, <2>3, <3>1, OthersKeep
    <2>7. Queued'
      BY <1>1, <1>3, <2>1, PartyForm DEF Rest, Queued
    <2>8. Drained'
      BY <1>1, <2>1 DEF Drained
    <2> QED BY <1>3, <2>2, <2>3, <2>4, <2>5, <2>6, <2>7, <2>8 DEF Rest
  <1> QED BY <1>2, <1>3 DEF Lookup

\* What is left to show for an action of a turn in flight.
LEMMA TurnStep ==
    ASSUME TypeOK, Rest, NEW t \in Turns, pc[t] \in InFlight,
           \A p \in Parties \ {t} : pc'[p] = pc[p] /\ debt'[p] = debt[p],
           \A u \in Turns \ {t} : attempt'[u] = attempt[u] /\ entry'[u] = entry[u],
           \A u \in Turns \ {t}, n \in 1..MaxAttempts :
              \/ conn'[<<u, n>>] = conn[<<u, n>>]
              \/ conn[<<u, n>>] = "open" /\ conn'[<<u, n>>] = "closed",
           \A c \in Conns : conn[c] \in {"open", "closed"} => conn'[c] \in {"open", "closed"},
           UNCHANGED sid, Local(t)', Queued'
    PROVE  Rest'
  <1>1. t \in Parties /\ t # Lifespan /\ Lifespan \in Parties /\ t \in Requests
    BY PartyForm
  <1>2. (\A u \in Turns \ {t} : Local(u)') /\ OwedElsewhere'
    BY <1>1, OthersKeep
  <1>3. pc[Lifespan] = "up"
    BY <1>1 DEF Rest, Drained
  <1>4. Drained'
    BY <1>1, <1>3 DEF Drained
  <1> QED BY <1>2, <1>4 DEF Rest

\* A turn that stops running lets the next one have the lock.
LEMMA StopStep ==
    ASSUME TypeOK, Rest, NEW t \in Turns, pc'[t] # "running",
           \A u \in Turns \ {t} : pc'[u] = pc[u] /\ entry'[u] = entry[u],
           UNCHANGED sid,
           \/ lock' = lock
           \/ pc[t] = "running" /\ sid[t] # None /\ lock' = Unlocked(t)
    PROVE  lock' \in [Conns -> Seq(Turns)] /\ Queued'
  <1>1. CASE lock' = lock
    BY <1>1 DEF TypeOK, Rest, Queued
  <1>2. CASE pc[t] = "running" /\ sid[t] # None /\ lock' = Unlocked(t)
    <2> DEFINE c == entry[t]
    <2>1. c \in Conns /\ lock[c] \in Seq(Turns) /\ lock[c] # << >> /\ Head(lock[c]) = t
      BY <1>2 DEF TypeOK, Rest, Local, Entered, Queued
    <2>2. /\ lock' \in [Conns -> Seq(Turns)]
          /\ \A d \in Conns \ {c} : lock'[d] = lock[d]
      BY <1>2, <2>1, QueueFacts DEF TypeOK, Unlocked
    <2>3. ASSUME NEW u \in Turns, pc'[u] = "running", sid'[u] # None
          PROVE  lock'[entry'[u]] # << >> /\ Head(lock'[entry'[u]]) = u
      <3>1. u # t /\ pc[u] = "running" /\ sid[u] # None /\ entry'[u] = entry[u]
        BY <2>3
      <3>2. /\ entry[u] \in Conns
            /\ lock[entry[u]] # << >> /\ Head(lock[entry[u]]) = u
        BY <3>1 DEF TypeOK, Rest, Local, Entered, Queued
      <3> QED BY <3>1, <3>2, <2>1, <2>2
    <2> QED BY <2>2, <2>3 DEF Queued
  <1> QED BY <1>1, <1>2

\* An attempt is over: sleep and try again, or give up.
LEMMA RetryStep ==
    ASSUME TypeOK, Rest, NEW t \in Turns, Retry(t), debt'[t] = {}, UNCHANGED sid,
           \A n \in 1..MaxAttempts :
              /\ conn'[<<t, n>>] # "opening"
              /\ n > attempt[t] => conn'[<<t, n>>] = "unused",
           \A c \in Conns : conn[c] \in {"open", "closed"} => conn'[c] \in {"open", "closed"},
           entry'[t] = None \/ entry'[t] = entry[t]
    PROVE  /\ pc' \in [Parties -> TurnPC \cup ResetPC \cup LifespanPC]
           /\ pc'[t] \in {"backoff", "error"} /\ \A p \in Parties \ {t} : pc'[p] = pc[p]
           /\ attempt' \in [Turns -> 1..MaxAttempts]
           /\ \A u \in Turns \ {t} : attempt'[u] = attempt[u]
           /\ Local(t)'
  <1>1. t \in Parties /\ Local(t) /\ attempt[t] \in 1..MaxAttempts
    BY PartyForm DEF TypeOK, Rest
  <1>2. \/ attempt'[t] = attempt[t] + 1 /\ pc'[t] = "backoff" /\ attempt[t] < MaxAttempts
        \/ attempt'[t] = attempt[t] /\ pc'[t] = "error"
    BY <1>1 DEF Retry, TypeOK
  <1>3. /\ pc' \in [Parties -> TurnPC \cup ResetPC \cup LifespanPC]
        /\ \A p \in Parties \ {t} : pc'[p] = pc[p]
    BY <1>1 DEF Retry, TypeOK, TurnPC
  <1>4. /\ attempt' \in [Turns -> 1..MaxAttempts]
        /\ \A u \in Turns \ {t} : attempt'[u] = attempt[u]
    <2>1. CASE attempt[t] < MaxAttempts /\ attempt' = [attempt EXCEPT ![t] = @ + 1]
      <3>1. attempt[t] + 1 \in 1..MaxAttempts
        BY <1>1, <2>1, ConstantsOK
      <3> QED BY <2>1, <3>1 DEF TypeOK
    <2>2. CASE attempt' = attempt
      BY <2>2 DEF TypeOK
    <2> QED BY <2>1, <2>2 DEF Retry
  <1>5. Dialled(t)'
    <2>1. ASSUME NEW n \in 1..MaxAttempts,
                 \/ n > attempt'[t]
                 \/ n = attempt'[t] /\ pc'[t] \in {"new", "evicting", "backoff"}
          PROVE  conn'[<<t, n>>] = "unused"
      <3>1. n > attempt[t]
        BY <1>1, <1>2, <2>1
      <3>2. n > attempt[t] => conn'[<<t, n>>] = "unused"
        OBVIOUS
      <3> QED BY <3>1, <3>2
    <2> QED BY <1>2, <2>1 DEF Dialled
  <1>6. Owed(t)'
    BY <1>2 DEF Owed
  <1>7. Entered(t)'
    BY <1>1, <1>2, ConnForm DEF Local, Entered, TypeOK
  <1> QED BY <1>2, <1>3, <1>4, <1>5, <1>6, <1>7 DEF Local

\* A failed attempt: what is cached for the session is popped, if anything.
LEMMA FailStep ==
    ASSUME IInv, NEW t \in Turns, Fail(t), pc[t] \in {"connecting", "running"},
           pc[t] = "running" => sid[t] # None,
           \/ lock' = lock
           \/ pc[t] = "running" /\ sid[t] # None /\ lock' = Unlocked(t),
           conn' \in [Conns -> {"unused", "opening", "open", "closed"}],
           \A n \in 1..MaxAttempts :
              /\ conn'[<<t, n>>] # "opening"
              /\ n > attempt[t] => conn'[<<t, n>>] = "unused",
           \A u \in Turns \ {t}, n \in 1..MaxAttempts : conn'[<<u, n>>] = conn[<<u, n>>],
           \A c \in Conns : conn'[c] = "open" <=> conn[c] = "open",
           \A c \in Conns : conn[c] \in {"open", "closed"} => conn'[c] \in {"open", "closed"},
           UNCHANGED sid
    PROVE  IInv'
  <1> USE DEF IInv
  <1>1. t \in Parties /\ Local(t) /\ debt[t] = {}
    BY PartyForm DEF Rest, Local, Owed
  <1>2. /\ entry'[t] = None /\ \A u \in Turns \ {t} : entry'[u] = entry[u]
        /\ entry' \in [Turns -> Conns \cup {None}]
    BY DEF Fail, TypeOK
  <1>3. CASE /\ HasEntry(t) /\ Pop(t, {sid[t]})
             /\ pc' = [pc EXCEPT ![t] = "dropping"] /\ UNCHANGED attempt
    <2>1. sid[t] \in Sessions /\ cache[sid[t]] \in Conns /\ {sid[t]} \in SUBSET Cached
      BY <1>3 DEF HasEntry, Cached, TypeOK
    <2>2. /\ debt'[t] = {cache[sid[t]]} /\ \A p \in Parties \ {t} : debt'[p] = debt[p]
          /\ debt' \in [Parties -> SUBSET Conns]
      BY <1>1, <1>3, <2>1 DEF Pop, TypeOK
    <2>3. /\ pc'[t] = "dropping" /\ \A p \in Parties \ {t} : pc'[p] = pc[p]
          /\ pc' \in [Parties -> TurnPC \cup ResetPC \cup LifespanPC]
      BY <1>1, <1>3 DEF TypeOK, TurnPC
    <2>4. /\ cache' \in [Sessions -> Conns \cup {None}]
          /\ older' \in SUBSET (Sessions \X Sessions)
      BY <1>3 DEF Pop, TypeOK
    <2>5. lock' \in [Conns -> Seq(Turns)] /\ Queued'
      BY <1>2, <2>3, PartyForm, StopStep
    <2>6. TypeOK'
      BY <1>2, <1>3, <2>2, <2>3, <2>4, <2>5, PartyForm DEF TypeOK, TurnPC
    <2>7. Placed' /\ Kept'
      BY <1>1, <1>3, <2>1, <2>6, PopPlaces DEF Places
    <2>8. Local(t)'
      <3>1. Dialled(t)'
        BY <1>1, <1>3, <2>3 DEF Local, Dialled
      <3>2. Owed(t)' /\ Entered(t)'
        BY <1>2, <2>1, <2>2, <2>3, ConnForm DEF Owed, Entered
      <3> QED BY <3>1, <3>2 DEF Local
    <2>9. Rest'
      BY <1>2, <1>3, <2>2, <2>3, <2>5, <2>8, TurnStep DEF InFlight
    <2> QED BY <2>6, <2>7, <2>9
  <1>4. CASE ~HasEntry(t) /\ Retry(t) /\ UNCHANGED <<cache, older, debt>>
    <2>1. /\ pc' \in [Parties -> TurnPC \cup ResetPC \cup LifespanPC]
          /\ pc'[t] \in {"backoff", "error"} /\ \A p \in Parties \ {t} : pc'[p] = pc[p]
          /\ attempt' \in [Turns -> 1..MaxAttempts]
          /\ \A u \in Turns \ {t} : attempt'[u] = attempt[u]
          /\ Local(t)'
      BY <1>1, <1>2, <1>4, RetryStep
    <2>2. lock' \in [Conns -> Seq(Turns)] /\ Queued'
      BY <1>2, <2>1, PartyForm, StopStep
    <2>3. TypeOK'
      BY <1>2, <1>4, <2>1, <2>2, PartyForm DEF TypeOK, TurnPC
    <2>4. Placed' /\ Kept'
      BY <1>4, <2>3, SamePlaces DEF Places
    <2>5. Rest'
      BY <1>2, <1>4, <2>1, <2>2, TurnStep DEF InFlight
    <2> QED BY <2>3, <2>4, <2>5
  <1> QED BY <1>3, <1>4 DEF Fail
-----------------------------------------------------------------------------
(* The actions of a turn.                                                   *)

LEMMA AttemptInv == ASSUME IInv, NEW t \in Turns, Attempt(t) PROVE IInv'
  <1> USE DEF IInv, Attempt
  <1>1. t \in Parties /\ debt[t] = {}
    BY PartyForm DEF Rest, Local, Owed
  <1>2. /\ TypeOK' /\ Rest'
        /\ \A c \in Conns : conn'[c] = "open" <=> conn[c] = "open"
    BY <1>1, LookupStep DEF TypeOK
  <1>3. Placed' /\ Kept'
    BY <1>2, SamePlaces DEF Places
  <1> QED BY <1>2, <1>3

LEMMA AttemptEvictingInv == ASSUME IInv, NEW t \in Turns, AttemptEvicting(t) PROVE IInv'
  <1> USE DEF IInv, AttemptEvicting
  <1>1. t \in Parties /\ t # Lifespan /\ Lifespan \in Parties /\ Local(t) /\ debt[t] = {}
    BY PartyForm DEF Rest, Local, Owed
  <1>2. PICK V \in Evictable : Pop(t, V)
    OBVIOUS
  <1>3. V \in SUBSET Cached
    BY DEF Evictable
  <1>4. /\ pc'[t] = "evicting" /\ \A p \in Parties \ {t} : pc'[p] = pc[p]
        /\ pc' \in [Parties -> TurnPC \cup ResetPC \cup LifespanPC]
    BY <1>1 DEF TypeOK, TurnPC
  <1>5. /\ debt' \in [Parties -> SUBSET Conns] /\ \A p \in Parties \ {t} : debt'[p] = debt[p]
        /\ cache' \in [Sessions -> Conns \cup {None}]
        /\ older' \in SUBSET (Sessions \X Sessions)
    <2>1. {cache[s] : s \in V} \in SUBSET Conns
      BY <1>3 DEF TypeOK, Cached
    <2> QED BY <1>1, <1>2, <2>1 DEF Pop, TypeOK
  <1>6. TypeOK'
    BY <1>4, <1>5, PartyForm DEF TypeOK, TurnPC
  <1>7. Placed' /\ Kept'
    BY <1>1, <1>2, <1>3, <1>6, PopPlaces DEF Places
  <1>8. Local(t)'
    BY <1>1, <1>4 DEF Local, Dialled, Owed, Entered, TypeOK
  <1>9. (\A u \in Turns \ {t} : Local(u)') /\ OwedElsewhere'
    BY <1>1, <1>4, <1>5, OthersKeep
  <1>10. Queued' /\ Drained'
    BY <1>1, <1>4, PartyForm DEF Rest, Queued, Drained
  <1> QED BY <1>6, <1>7, <1>8, <1>9, <1>10 DEF Rest

LEMMA CloseVictimInv == ASSUME IInv, NEW t \in Turns, CloseVictim(t) PROVE IInv'
  <1> USE DEF IInv
  <1>1. /\ t \in Parties /\ t # Lifespan /\ Lifespan \in Parties /\ t \in Requests
        /\ Local(t) /\ pc[t] = "evicting"
    BY PartyForm DEF Rest, CloseVictim
  <1>2. pc[Lifespan] = "up"
    BY <1>1 DEF Rest, Drained, InFlight
  <1> DEFINE cn(d) == [conn EXCEPT ![d] = "closed"]
  <1>3. PICK d \in debt[t] :
          /\ Close(t, d)
          /\ \/ Last(t, d) /\ Lookup(t, cn(d))
             \/ /\ ~Last(t, d)
                /\ conn' = cn(d)
                /\ UNCHANGED <<pc, entry, older, lock>>
    BY DEF CloseVictim
  <1>4. /\ d \in Conns /\ conn[d] = "open"
        /\ cn(d) \in [Conns -> {"unused", "opening", "open", "closed"}]
        /\ cn(d)[d] = "closed" /\ \A c \in Conns \ {d} : cn(d)[c] = conn[c]
    BY <1>1, <1>3 DEF TypeOK, Placed
  <1>5. /\ debt' \in [Parties -> SUBSET Conns] /\ debt'[t] = debt[t] \ {d}
        /\ \A p \in Parties \ {t} : debt'[p] = debt[p]
        /\ UNCHANGED <<sid, attempt, cache>>
    BY <1>1, <1>3, <1>4 DEF Close, TypeOK, CloseVictim
  <1> HIDE DEF cn
  <1>6. CASE Last(t, d) /\ Lookup(t, cn(d))
    <2>1. debt'[t] = {}
      BY <1>5, <1>6 DEF Last
    <2>2. /\ TypeOK' /\ Rest'
          /\ \A c \in Conns : conn'[c] = "open" <=> cn(d)[c] = "open"
      BY <1>1, <1>2, <1>4, <1>5, <1>6, <2>1, LookupStep
    <2>3. Placed' /\ Kept'
      BY <1>1, <1>3, <1>4, <1>5, <2>2, ClosePlaces DEF Places
    <2> QED BY <2>2, <2>3
  <1>7. CASE conn' = cn(d) /\ UNCHANGED <<pc, entry, older, lock>>
    <2>1. TypeOK'
      BY <1>4, <1>5, <1>7 DEF TypeOK
    <2>2. Placed' /\ Kept'
      BY <1>1, <1>3, <1>4, <1>5, <1>7, <2>1, ClosePlaces DEF Places
    <2>3. Queued'
      BY <1>5, <1>7 DEF Rest, Queued
    <2>4. Local(t)'
      <3>1. \A n \in 1..MaxAttempts :
               /\ conn[<<t, n>>] = "unused" => conn'[<<t, n>>] = "unused"
               /\ conn[<<t, n>>] = "opening" <=> conn'[<<t, n>>] = "opening"
        BY <1>4, <1>7, ConnForm
      <3>2. Dialled(t)'
        BY <1>1, <1>5, <1>7, <3>1 DEF Local, Dialled
      <3>3. Owed(t)' /\ Entered(t)'
        BY <1>1, <1>4, <1>5, <1>7 DEF Local, Owed, Entered, TypeOK
      <3> QED BY <3>2, <3>3 DEF Local
    <2>5. Rest'
      BY <1>1, <1>4, <1>5, <1>7, <2>3, <2>4, ConnForm, TurnStep DEF InFlight
    <2> QED BY <2>1, <2>2, <2>5
  <1> QED BY <1>3, <1>6, <1>7

LEMMA ConnectInstallInv == ASSUME IInv, NEW t \in Turns, ConnectInstall(t) PROVE IInv'
  <1> USE DEF IInv, ConnectInstall
  <1>1. /\ t \in Parties /\ Local(t) /\ Own(t) \in Conns /\ Own(t)[1] = t
        /\ sid[t] \in Sessions /\ cache[sid[t]] = None /\ conn[Own(t)] = "opening"
    BY PartyForm, OwnForm DEF Rest, TypeOK, StillAbsent, HasEntry, Cached, Local, Dialled, Own
  <1>2. /\ pc'[t] = "running" /\ \A p \in Parties \ {t} : pc'[p] = pc[p]
        /\ pc' \in [Parties -> TurnPC \cup ResetPC \cup LifespanPC]
    BY <1>1 DEF TypeOK, TurnPC
  <1>3. /\ conn'[Own(t)] = "open" /\ \A c \in Conns \ {Own(t)} : conn'[c] = conn[c]
        /\ conn' \in [Conns -> {"unused", "opening", "open", "closed"}]
    BY <1>1 DEF TypeOK
  <1>4. /\ entry'[t] = Own(t) /\ \A u \in Turns \ {t} : entry'[u] = entry[u]
        /\ entry' \in [Turns -> Conns \cup {None}]
    BY <1>1 DEF TypeOK
  <1>5. /\ lock'[Own(t)] = <<t>> /\ \A c \in Conns \ {Own(t)} : lock'[c] = lock[c]
        /\ lock' \in [Conns -> Seq(Turns)]
    BY <1>1, QueueFacts DEF TypeOK
  <1>6. TypeOK'
    <2>1. older' \in SUBSET (Sessions \X Sessions) /\ cache' \in [Sessions -> Conns \cup {None}]
      BY <1>1 DEF TypeOK, Touched, Cached
    <2> QED BY <1>2, <1>3, <1>4, <1>5, <2>1, PartyForm DEF TypeOK, TurnPC
  <1>7. Placed' /\ Kept'
    BY <1>1, <1>3, <1>6, InstallPlaces DEF Places
  <1>8. \A u \in Turns, n \in 1..MaxAttempts : <<u, n>> = Own(t) <=> u = t /\ n = attempt[t]
    BY DEF Own
  <1>9. Local(t)'
    <2>1. Dialled(t)'
      BY <1>1, <1>2, <1>3, <1>8, ConnForm DEF Local, Dialled
    <2>2. Owed(t)'
      BY <1>1, <1>2 DEF Local, Owed
    <2>3. Entered(t)'
      BY <1>1, <1>2, <1>3, <1>4, ConnForm DEF Entered
    <2> QED BY <2>1, <2>2, <2>3 DEF Local
  <1>10. Queued'
    <2>1. ASSUME NEW u \in Turns \ {t}, pc[u] = "running", sid[u] # None
          PROVE  entry[u] \in Conns \ {Own(t)}
      BY <1>1, <2>1 DEF Rest, Local, Entered, TypeOK
    <2> QED BY <1>1, <1>2, <1>4, <1>5, <2>1, PartyForm, QueueFacts DEF Rest, Queued
  <1>11. Rest'
    BY <1>1, <1>2, <1>3, <1>4, <1>8, <1>9, <1>10, ConnForm, TurnStep DEF InFlight
  <1> QED BY <1>6, <1>7, <1>11

\* _connect has returned and the turn holds the connection itself.
LEMMA OwnedOpen ==
    ASSUME IInv, NEW t \in Turns, pc[t] = "connecting",
           conn' = [conn EXCEPT ![Own(t)] = "open"],
           debt' = [debt EXCEPT ![t] = {Own(t)}],
           \/ pc' = [pc EXCEPT ![t] = "losing"] /\ sid[t] # None
           \/ pc' = [pc EXCEPT ![t] = "running"] /\ sid[t] = None,
           entry' \in [Turns -> Conns \cup {None}],
           \A u \in Turns \ {t} : entry'[u] = entry[u],
           Entered(t)',
           UNCHANGED <<sid, attempt, cache, older, lock>>
    PROVE  IInv'
  <1> USE DEF IInv
  <1>1. /\ t \in Parties /\ Local(t) /\ Own(t) \in Conns /\ debt[t] = {}
        /\ conn[Own(t)] = "opening"
    BY PartyForm, OwnForm DEF Rest, TypeOK, Local, Dialled, Own, Owed
  <1>2. /\ pc'[t] = IF sid[t] = None THEN "running" ELSE "losing"
        /\ \A p \in Parties \ {t} : pc'[p] = pc[p]
        /\ pc' \in [Parties -> TurnPC \cup ResetPC \cup LifespanPC]
    BY <1>1 DEF TypeOK, TurnPC
  <1>3. /\ conn'[Own(t)] = "open" /\ \A c \in Conns \ {Own(t)} : conn'[c] = conn[c]
        /\ conn' \in [Conns -> {"unused", "opening", "open", "closed"}]
    BY <1>1 DEF TypeOK
  <1>4. /\ debt'[t] = {Own(t)} /\ \A p \in Parties \ {t} : debt'[p] = debt[p]
        /\ debt' \in [Parties -> SUBSET Conns]
    BY <1>1 DEF TypeOK
  <1>5. TypeOK'
    <2>1. pc'[t] \in TurnPC
      BY <1>2 DEF TurnPC
    <2>2. /\ \A u \in Turns : pc'[u] \in TurnPC
          /\ \A r \in Resets : pc'[r] \in ResetPC
          /\ pc'[Lifespan] \in LifespanPC
      BY <1>2, <2>1, PartyForm DEF TypeOK
    <2> QED BY <1>2, <1>3, <1>4, <2>2 DEF TypeOK
  <1>6. Placed' /\ Kept'
    BY <1>1, <1>3, <1>5, OpenPlaces DEF Places
  <1>7. \A u \in Turns, n \in 1..MaxAttempts : <<u, n>> = Own(t) <=> u = t /\ n = attempt[t]
    BY DEF Own
  <1>8. Local(t)'
    <2>1. Dialled(t)'
      BY <1>1, <1>2, <1>3, <1>7, ConnForm DEF Local, Dialled
    <2>2. Owed(t)'
      BY <1>1, <1>2, <1>4 DEF Owed, Own
    <2> QED BY <2>1, <2>2 DEF Local
  <1>9. Queued'
    BY <1>1, <1>2, PartyForm DEF Rest, Queued
  <1>10. Rest'
    BY <1>1, <1>2, <1>3, <1>4, <1>7, <1>8, <1>9, ConnForm, TurnStep DEF InFlight
  <1> QED BY <1>5, <1>6, <1>10

LEMMA ConnectLoseInv == ASSUME IInv, NEW t \in Turns, ConnectLose(t) PROVE IInv'
  <1> USE DEF IInv, ConnectLose
  <1>1. /\ EntryOf(t) \in Conns /\ sid[t] \in Sessions /\ t \in Parties
        /\ conn[EntryOf(t)] = "open" /\ sid[EntryOf(t)[1]] = sid[t]
    BY PartyForm DEF TypeOK, HasEntry, Cached, EntryOf, Placed
  <1>2. conn'[EntryOf(t)] = "open"
    BY <1>1 DEF TypeOK
  <1>3. /\ entry'[t] = EntryOf(t) /\ \A u \in Turns \ {t} : entry'[u] = entry[u]
        /\ entry' \in [Turns -> Conns \cup {None}]
    BY <1>1 DEF TypeOK
  <1>4. Entered(t)'
    BY <1>1, <1>2, <1>3, ConnForm DEF TypeOK, Entered
  <1> QED BY <1>1, <1>3, <1>4, ConnForm, OwnedOpen

LEMMA ConnectStatelessInv == ASSUME IInv, NEW t \in Turns, ConnectStateless(t) PROVE IInv'
  <1> USE DEF IInv, ConnectStateless
  <1>1. Local(t) /\ t \in Parties
    BY PartyForm DEF Rest
  <1>2. Entered(t)'
    BY <1>1 DEF Local, Entered, TypeOK
  <1> QED BY <1>2, OwnedOpen DEF TypeOK

LEMMA CloseLoserInv == ASSUME IInv, NEW t \in Turns, CloseLoser(t) PROVE IInv'
  <1> USE DEF IInv, CloseLoser
  <1>1. /\ t \in Parties /\ Local(t) /\ Own(t) \in Conns /\ debt[t] = {Own(t)}
        /\ entry[t] \in Conns /\ sid[t] \in Sessions /\ conn[Own(t)] = "open"
    <2>1. t \in Parties /\ t \in Requests /\ Local(t) /\ Own(t) \in Conns
      BY PartyForm, OwnForm DEF Rest
    <2>2. debt[t] = {Own(t)} /\ entry[t] # None /\ sid[t] # None
      BY <2>1 DEF Local, Entered, Owed
    <2> QED BY <2>1, <2>2 DEF TypeOK, Placed
  <1>2. /\ pc' \in [Parties -> TurnPC \cup ResetPC \cup LifespanPC]
        /\ pc'[t] \in {"running", "waiting"} /\ \A p \in Parties \ {t} : pc'[p] = pc[p]
        /\ entry' \in [Turns -> Conns \cup {None}]
        /\ entry'[t] = entry[t] /\ \A u \in Turns \ {t} : entry'[u] = entry[u]
        /\ lock' \in [Conns -> Seq(Turns)]
        /\ older' \in SUBSET (Sessions \X Sessions)
        /\ Queued'
    BY <1>1, EnterStep
  <1>3. /\ conn'[Own(t)] = "closed" /\ \A c \in Conns \ {Own(t)} : conn'[c] = conn[c]
        /\ conn' \in [Conns -> {"unused", "opening", "open", "closed"}]
    BY <1>1 DEF TypeOK
  <1>4. /\ debt'[t] = {} /\ \A p \in Parties \ {t} : debt'[p] = debt[p]
        /\ debt' \in [Parties -> SUBSET Conns]
    BY <1>1 DEF Close, TypeOK
  <1>5. TypeOK'
    <2>1. pc'[t] \in TurnPC
      BY <1>2 DEF TurnPC
    <2> QED BY <1>2, <1>3, <1>4, <2>1, PartyForm DEF TypeOK
  <1>6. Placed' /\ Kept'
    BY <1>1, <1>3, <1>5, ClosePlaces DEF Places
  <1>7. \A u \in Turns, n \in 1..MaxAttempts : <<u, n>> = Own(t) <=> u = t /\ n = attempt[t]
    BY DEF Own
  <1>8. Local(t)'
    <2>1. Dialled(t)'
      BY <1>1, <1>2, <1>3, <1>7, ConnForm DEF Local, Dialled
    <2>2. Owed(t)'
      BY <1>1, <1>2, <1>4, ConnForm DEF Owed
    <2>3. Entered(t)'
      BY <1>1, <1>2, <1>3, ConnForm DEF Local, Entered
    <2> QED BY <2>1, <2>2, <2>3 DEF Local
  <1>9. Rest'
    BY <1>1, <1>2, <1>3, <1>4, <1>7, <1>8, ConnForm, TurnStep DEF InFlight
  <1> QED BY <1>5, <1>6, <1>9

LEMMA ConnectFailInv == ASSUME IInv, NEW t \in Turns, ConnectFail(t) PROVE IInv'
  <1> USE DEF IInv, ConnectFail
  <1>1. /\ Local(t) /\ Own(t) \in Conns /\ conn[Own(t)] = "opening" /\ attempt[t] \in 1..MaxAttempts
    BY OwnForm DEF Rest, TypeOK, Local, Dialled, Own
  <1>2. /\ conn'[Own(t)] = "closed" /\ \A c \in Conns \ {Own(t)} : conn'[c] = conn[c]
        /\ conn' \in [Conns -> {"unused", "opening", "open", "closed"}]
    BY <1>1 DEF TypeOK
  <1>3. \A u \in Turns, n \in 1..MaxAttempts : <<u, n>> = Own(t) <=> u = t /\ n = attempt[t]
    BY DEF Own
  <1>4. ASSUME NEW n \in 1..MaxAttempts
        PROVE  /\ conn'[<<t, n>>] # "opening"
               /\ n > attempt[t] => conn'[<<t, n>>] = "unused"
    <2>1. CASE n = attempt[t]
      BY <1>1, <1>2, <1>3, <2>1
    <2>2. CASE n # attempt[t]
      BY <1>1, <1>2, <1>3, <2>2, ConnForm DEF Local, Dialled
    <2> QED BY <2>1, <2>2
  <1> QED BY <1>1, <1>2, <1>3, <1>4, ConnForm, FailStep

LEMMA RunFailInv == ASSUME IInv, NEW t \in Turns, RunFail(t) PROVE IInv'
  <1> USE DEF IInv, RunFail
  <1>1. Local(t)
    BY DEF Rest
  <1>2. \A n \in 1..MaxAttempts :
          /\ conn'[<<t, n>>] # "opening"
          /\ n > attempt[t] => conn'[<<t, n>>] = "unused"
    BY <1>1 DEF Local, Dialled
  <1>3. conn' \in [Conns -> {"unused", "opening", "open", "closed"}]
    BY DEF TypeOK
  <1> QED BY <1>2, <1>3, FailStep

\* The actions that change neither a connection nor the cache nor a debt.
LEMMA LocalInv ==
    ASSUME IInv, NEW t \in Turns, Granted(t) \/ RunOk(t) \/ StatelessEnd(t)
    PROVE  IInv'
  <1> USE DEF IInv
  <1>1. /\ t \in Parties /\ Local(t) /\ pc[t] \in {"waiting", "running"}
        /\ UNCHANGED <<sid, attempt, cache, older, conn, debt>>
    BY PartyForm DEF Rest, Granted, RunOk, StatelessEnd
  <1>2. /\ \A p \in Parties \ {t} : pc'[p] = pc[p]
        /\ pc' \in [Parties -> TurnPC \cup ResetPC \cup LifespanPC]
        /\ \A u \in Turns \ {t} : entry'[u] = entry[u]
        /\ entry' \in [Turns -> Conns \cup {None}]
    BY <1>1 DEF TypeOK, TurnPC, Granted, RunOk, StatelessEnd
  <1>3. pc'[t] \in TurnPC /\ Local(t)' /\ lock' \in [Conns -> Seq(Turns)] /\ Queued'
    <2>1. CASE Granted(t)
      <3>1. pc'[t] = "running" /\ UNCHANGED <<entry, lock>>
        BY <1>1, <2>1 DEF Granted, TypeOK
      <3>2. Local(t)'
        BY <1>1, <2>1, <3>1 DEF Granted, Local, Dialled, Owed, Entered, Own
      <3>3. Queued'
        BY <1>1, <1>2, <2>1, <3>1, PartyForm DEF Granted, Free, Rest, Queued
      <3> QED BY <3>1, <3>2, <3>3 DEF TypeOK, TurnPC
    <2>2. CASE RunOk(t)
      <3>1. pc'[t] = "live" /\ entry'[t] = None
        BY <1>1, <2>2 DEF RunOk, TypeOK
      <3>2. Local(t)'
        BY <1>1, <2>2, <3>1 DEF RunOk, Local, Dialled, Owed, Entered
      <3>3. lock' \in [Conns -> Seq(Turns)] /\ Queued'
        BY <1>1, <1>2, <2>2, <3>1, PartyForm, StopStep DEF RunOk
      <3> QED BY <3>1, <3>2, <3>3 DEF TurnPC
    <2>3. CASE StatelessEnd(t)
      <3>1. pc'[t] \in {"leaving", "leavingErr"} /\ UNCHANGED <<entry, lock>>
        BY <1>1, <2>3 DEF StatelessEnd, TypeOK
      <3>2. Local(t)'
        BY <1>1, <2>3, <3>1 DEF StatelessEnd, Local, Dialled, Owed, Entered, Own
      <3>3. Queued'
        BY <1>1, <1>2, <2>3, <3>1, PartyForm DEF StatelessEnd, Rest, Queued
      <3> QED BY <3>1, <3>2, <3>3 DEF TypeOK, TurnPC
    <2> QED BY <2>1, <2>2, <2>3
  <1>4. TypeOK'
    BY <1>1, <1>2, <1>3, PartyForm DEF TypeOK
  <1>5. Placed' /\ Kept'
    BY <1>1, <1>4, SamePlaces DEF Places
  <1>6. Rest'
    BY <1>1, <1>2, <1>3, TurnStep DEF InFlight
  <1> QED BY <1>4, <1>5, <1>6

LEMMA LeaveInv == ASSUME IInv, NEW t \in Turns, Leave(t) PROVE IInv'
  <1> USE DEF IInv, Leave
  <1>1. t \in Parties /\ Local(t) /\ Own(t) \in Conns /\ debt[t] = {Own(t)} /\ sid[t] = None
    BY PartyForm, OwnForm DEF Rest, Local, Owed, Entered
  <1>2. conn[Own(t)] = "open"
    BY <1>1 DEF Placed
  <1>3. /\ conn'[Own(t)] = "closed" /\ \A c \in Conns \ {Own(t)} : conn'[c] = conn[c]
        /\ conn' \in [Conns -> {"unused", "opening", "open", "closed"}]
    BY <1>1 DEF TypeOK
  <1>4. /\ debt'[t] = {} /\ \A p \in Parties \ {t} : debt'[p] = debt[p]
        /\ debt' \in [Parties -> SUBSET Conns]
    BY <1>1 DEF Close, TypeOK
  <1>5. \A u \in Turns, n \in 1..MaxAttempts :
           <<u, n>> \in Conns /\ (<<u, n>> = Own(t) <=> u = t /\ n = attempt[t])
    BY ConnForm DEF Own
  <1>6. \A n \in 1..MaxAttempts :
          /\ conn'[<<t, n>>] # "opening"
          /\ n > attempt[t] => conn'[<<t, n>>] = "unused"
    BY <1>1, <1>3, <1>5 DEF Local, Dialled, TypeOK
  <1>7. /\ pc' \in [Parties -> TurnPC \cup ResetPC \cup LifespanPC]
        /\ pc'[t] \in {"live", "backoff", "error"}
        /\ \A p \in Parties \ {t} : pc'[p] = pc[p]
        /\ attempt' \in [Turns -> 1..MaxAttempts]
        /\ \A u \in Turns \ {t} : attempt'[u] = attempt[u]
        /\ Local(t)'
    <2>1. CASE pc' = [pc EXCEPT ![t] = "live"] /\ UNCHANGED attempt
      <3>1. /\ pc' \in [Parties -> TurnPC \cup ResetPC \cup LifespanPC]
            /\ pc'[t] = "live" /\ \A p \in Parties \ {t} : pc'[p] = pc[p]
        BY <1>1, <2>1 DEF TypeOK, TurnPC
      <3>2. Local(t)'
        BY <1>1, <1>3, <1>4, <1>6, <2>1, <3>1 DEF Local, Dialled, Owed, Entered, TypeOK
      <3> QED BY <2>1, <3>1, <3>2 DEF TypeOK
    <2>2. CASE Retry(t)
      BY <1>1, <1>3, <1>4, <1>6, <2>2, RetryStep
    <2> QED BY <2>1, <2>2
  <1>8. TypeOK'
    <2>1. /\ \A u \in Turns : pc'[u] \in TurnPC
          /\ \A r \in Resets : pc'[r] \in ResetPC
          /\ pc'[Lifespan] \in LifespanPC
      BY <1>7, PartyForm DEF TypeOK, TurnPC
    <2> QED BY <1>3, <1>4, <1>7, <2>1 DEF TypeOK
  <1>9. Placed' /\ Kept'
    BY <1>1, <1>2, <1>3, <1>8, ClosePlaces DEF Places
  <1>10. Queued'
    BY <1>1, <1>7, PartyForm DEF Rest, Queued
  <1>11. Rest'
    BY <1>1, <1>3, <1>4, <1>5, <1>7, <1>10, TurnStep DEF InFlight
  <1> QED BY <1>8, <1>9, <1>11

LEMMA CloseDroppedInv == ASSUME IInv, NEW t \in Turns, CloseDropped(t) PROVE IInv'
  <1> USE DEF IInv, CloseDropped
  <1>1. t \in Parties /\ Local(t)
    BY PartyForm DEF Rest
  <1>2. PICK d \in debt[t] : Close(t, d) /\ conn' = [conn EXCEPT ![d] = "closed"]
    OBVIOUS
  <1>3. d \in Conns /\ conn[d] = "open" /\ debt[t] = {d}
    BY <1>1, <1>2 DEF TypeOK, Placed, Local, Owed
  <1>4. /\ conn'[d] = "closed" /\ \A c \in Conns \ {d} : conn'[c] = conn[c]
        /\ conn' \in [Conns -> {"unused", "opening", "open", "closed"}]
    BY <1>2, <1>3 DEF TypeOK
  <1>5. /\ debt'[t] = {} /\ \A p \in Parties \ {t} : debt'[p] = debt[p]
        /\ debt' \in [Parties -> SUBSET Conns]
    BY <1>1, <1>2, <1>3 DEF Close, TypeOK
  <1>6. \A n \in 1..MaxAttempts :
          /\ conn'[<<t, n>>] # "opening"
          /\ n > attempt[t] => conn'[<<t, n>>] = "unused"
    BY <1>1, <1>3, <1>4, ConnForm DEF Local, Dialled
  <1>7. /\ pc' \in [Parties -> TurnPC \cup ResetPC \cup LifespanPC]
        /\ pc'[t] \in {"backoff", "error"} /\ \A p \in Parties \ {t} : pc'[p] = pc[p]
        /\ attempt' \in [Turns -> 1..MaxAttempts]
        /\ \A u \in Turns \ {t} : attempt'[u] = attempt[u]
        /\ Local(t)'
    BY <1>3, <1>4, <1>5, <1>6, RetryStep
  <1>8. TypeOK'
    <2>1. /\ \A u \in Turns : pc'[u] \in TurnPC
          /\ \A r \in Resets : pc'[r] \in ResetPC
          /\ pc'[Lifespan] \in LifespanPC
      BY <1>7, PartyForm DEF TypeOK, TurnPC
    <2> QED BY <1>4, <1>5, <1>7, <2>1 DEF TypeOK
  <1>9. Placed' /\ Kept'
    BY <1>1, <1>2, <1>3, <1>4, <1>8, ClosePlaces DEF Places
  <1>10. Queued'
    BY <1>1, <1>7, PartyForm DEF Rest, Queued
  <1>11. Rest'
    BY <1>1, <1>3, <1>4, <1>5, <1>7, <1>10, ConnForm, TurnStep DEF InFlight
  <1> QED BY <1>8, <1>9, <1>11
-----------------------------------------------------------------------------
(* Resets and the shutdown.                                                 *)

LEMMA ResetInv == ASSUME IInv, NEW r \in Resets, Reset(r) PROVE IInv'
  <1> USE DEF IInv, Reset
  <1>1. /\ r \in Parties /\ r \notin Turns /\ r # Lifespan /\ Lifespan \in Parties
        /\ debt[r] = {}
    BY PartyForm DEF Rest, OwedElsewhere
  <1>2. /\ pc' \in [Parties -> TurnPC \cup ResetPC \cup LifespanPC]
        /\ pc'[r] \in {"none", "dropping"} /\ \A p \in Parties \ {r} : pc'[p] = pc[p]
    BY <1>1 DEF TypeOK, ResetPC
  <1>3. /\ debt' \in [Parties -> SUBSET Conns] /\ \A p \in Parties \ {r} : debt'[p] = debt[p]
        /\ pc'[r] = "none" => debt'[r] = {}
        /\ pc'[r] = "dropping" => \E c \in Conns : debt'[r] = {c}
        /\ cache' \in [Sessions -> Conns \cup {None}]
        /\ older' \in SUBSET (Sessions \X Sessions)
        /\ TypeOK' => Placed' /\ Kept'
    <2>1. CASE HasEntry(r) /\ Pop(r, {sid[r]}) /\ pc' = [pc EXCEPT ![r] = "dropping"]
      <3>1. cache[sid[r]] \in Conns /\ {sid[r]} \in SUBSET Cached
        BY <2>1 DEF HasEntry, Cached, TypeOK
      <3>2. /\ debt'[r] = {cache[sid[r]]} /\ \A p \in Parties \ {r} : debt'[p] = debt[p]
            /\ debt' \in [Parties -> SUBSET Conns]
        <4>1. debt[r] \cup {cache[s] : s \in {sid[r]}} = {cache[sid[r]]}
          BY <1>1
        <4> QED BY <1>1, <2>1, <3>1, <4>1 DEF Pop, TypeOK
      <3>3. TypeOK' => Placed' /\ Kept'
        BY <1>1, <2>1, <3>1, PopPlaces DEF Places
      <3>4. /\ cache' \in [Sessions -> Conns \cup {None}]
            /\ older' \in SUBSET (Sessions \X Sessions)
        BY <2>1 DEF Pop, TypeOK
      <3>5. pc'[r] = "dropping"
        BY <1>1, <2>1 DEF TypeOK
      <3> QED BY <1>1, <3>1, <3>2, <3>3, <3>4, <3>5 DEF TypeOK
    <2>2. CASE pc' = [pc EXCEPT ![r] = "none"] /\ UNCHANGED <<cache, older, debt>>
      <3>1. TypeOK' => Placed' /\ Kept'
        BY <2>2, SamePlaces DEF Places
      <3>2. pc'[r] = "none"
        BY <1>1, <2>2 DEF TypeOK
      <3> QED BY <1>1, <2>2, <3>1, <3>2 DEF TypeOK
    <2> QED BY <2>1, <2>2
  <1>4. TypeOK'
    <2>1. /\ \A u \in Turns : pc'[u] \in TurnPC
          /\ \A q \in Resets : pc'[q] \in ResetPC
          /\ pc'[Lifespan] \in LifespanPC
      BY <1>1, <1>2, PartyForm DEF TypeOK, ResetPC
    <2> QED BY <1>2, <1>3, <2>1 DEF TypeOK
  <1>5. \A u \in Turns : Local(u)'
    BY <1>1, <1>2, <1>3, OthersKeep
  <1>6. OwedElsewhere'
    BY <1>1, <1>2, <1>3, PartyForm DEF Rest, OwedElsewhere
  <1>7. Queued'
    BY <1>1, <1>2, PartyForm DEF Rest, Queued
  <1>8. Drained'
    BY <1>1, <1>2 DEF Drained
  <1> QED BY <1>3, <1>4, <1>5, <1>6, <1>7, <1>8 DEF Rest

LEMMA CloseResetInv == ASSUME IInv, NEW r \in Resets, CloseReset(r) PROVE IInv'
  <1> USE DEF IInv, CloseReset
  <1>1. r \in Parties /\ r \notin Turns /\ r # Lifespan /\ Lifespan \in Parties
    BY PartyForm
  <1>2. PICK d \in debt[r] : Close(r, d) /\ conn' = [conn EXCEPT ![d] = "closed"]
    OBVIOUS
  <1>3. d \in Conns /\ conn[d] = "open" /\ debt[r] = {d}
    BY <1>1, <1>2 DEF TypeOK, Placed, Rest, OwedElsewhere
  <1>4. /\ conn'[d] = "closed" /\ \A c \in Conns \ {d} : conn'[c] = conn[c]
        /\ conn' \in [Conns -> {"unused", "opening", "open", "closed"}]
    BY <1>2, <1>3 DEF TypeOK
  <1>5. /\ debt'[r] = {} /\ \A p \in Parties \ {r} : debt'[p] = debt[p]
        /\ debt' \in [Parties -> SUBSET Conns]
    BY <1>1, <1>2, <1>3 DEF Close, TypeOK
  <1>6. /\ pc' \in [Parties -> TurnPC \cup ResetPC \cup LifespanPC]
        /\ pc'[r] = "cleared" /\ \A p \in Parties \ {r} : pc'[p] = pc[p]
    BY <1>1 DEF TypeOK, ResetPC
  <1>7. TypeOK'
    <2>1. /\ \A u \in Turns : pc'[u] \in TurnPC
          /\ \A q \in Resets : pc'[q] \in ResetPC
          /\ pc'[Lifespan] \in LifespanPC
      BY <1>1, <1>6, PartyForm DEF TypeOK, ResetPC
    <2> QED BY <1>4, <1>5, <1>6, <2>1 DEF TypeOK
  <1>8. Placed' /\ Kept'
    BY <1>1, <1>2, <1>3, <1>4, <1>7, ClosePlaces DEF Places
  <1>9. \A u \in Turns : Local(u)'
    <2>1. \A c \in Conns : \/ conn'[c] = conn[c]
                           \/ conn[c] = "open" /\ conn'[c] = "closed"
      BY <1>3, <1>4
    <2>2. \A u \in Turns, n \in 1..MaxAttempts : <<u, n>> \in Conns
      BY ConnForm
    <2>3. \A c \in Conns : conn[c] \in {"open", "closed"} => conn'[c] \in {"open", "closed"}
      BY <2>1
    <2>4. \A u \in Turns, n \in 1..MaxAttempts :
             \/ conn'[<<u, n>>] = conn[<<u, n>>]
             \/ conn[<<u, n>>] = "open" /\ conn'[<<u, n>>] = "closed"
      BY <2>1, <2>2
    <2>5. Turns \ {r} = Turns
      BY <1>1
    <2> QED BY <1>1, <1>5, <1>6, <2>3, <2>4, <2>5, OthersKeep
  <1>10. OwedElsewhere'
    BY <1>1, <1>5, <1>6, PartyForm DEF Rest, OwedElsewhere
  <1>11. Queued' /\ Drained'
    BY <1>1, <1>6, PartyForm DEF Rest, Queued, Drained, InFlight
  <1> QED BY <1>7, <1>8, <1>9, <1>10, <1>11 DEF Rest

LEMMA ShutdownInv == ASSUME IInv, Shutdown PROVE IInv'
  <1> USE DEF IInv, Shutdown
  <1>1. Lifespan \in Parties /\ Lifespan \notin Turns /\ Lifespan \notin Requests
    BY PartyForm, ConstantsOK
  <1>2. debt[Lifespan] = {}
    BY DEF Rest, OwedElsewhere
  <1>3. /\ pc' \in [Parties -> TurnPC \cup ResetPC \cup LifespanPC]
        /\ pc'[Lifespan] = (IF Cached = {} THEN "down" ELSE "stopping")
        /\ \A p \in Parties \ {Lifespan} : pc'[p] = pc[p]
    BY <1>1 DEF TypeOK, LifespanPC
  <1>4. {cache[s] : s \in Cached} \in SUBSET Conns
    BY DEF TypeOK, Cached
  <1>5. /\ debt' \in [Parties -> SUBSET Conns]
        /\ debt'[Lifespan] = {cache[s] : s \in Cached}
        /\ \A p \in Parties \ {Lifespan} : debt'[p] = debt[p]
    BY <1>1, <1>2, <1>4 DEF Pop, TypeOK
  <1>6. /\ \A s \in Sessions : cache'[s] = None
        /\ cache' \in [Sessions -> Conns \cup {None}]
        /\ older' \in SUBSET (Sessions \X Sessions)
    BY DEF Pop, TypeOK, Cached
  <1>7. TypeOK'
    <2>1. /\ \A u \in Turns : pc'[u] \in TurnPC
          /\ \A q \in Resets : pc'[q] \in ResetPC
          /\ pc'[Lifespan] \in LifespanPC
      BY <1>1, <1>3, PartyForm DEF TypeOK, LifespanPC
    <2> QED BY <1>3, <1>5, <1>6, <2>1 DEF TypeOK
  <1>8. Placed' /\ Kept'
    BY <1>1, <1>7, PopPlaces DEF Places
  <1>9. \A u \in Turns : Local(u)'
    BY <1>1, <1>3, <1>5, OthersKeep
  <1>10. OwedElsewhere'
    <2>1. \A r \in Resets : debt'[r] = debt[r] /\ pc'[r] = pc[r]
      BY <1>1, <1>3, <1>5, PartyForm
    <2>2. pc'[Lifespan] # "stopping" => debt'[Lifespan] = {}
      BY <1>3, <1>5
    <2> QED BY <2>1, <2>2 DEF Rest, OwedElsewhere
  <1>11. Queued' /\ Drained'
    BY <1>1, <1>3, <1>6, PartyForm DEF Rest, Queued, Drained, InFlight
  <1> QED BY <1>7, <1>8, <1>9, <1>10, <1>11 DEF Rest

LEMMA CloseAtShutdownInv == ASSUME IInv, CloseAtShutdown PROVE IInv'
  <1> USE DEF IInv, CloseAtShutdown
  <1>1. Lifespan \in Parties /\ Lifespan \notin Turns /\ Lifespan \notin Requests
    BY PartyForm, ConstantsOK
  <1>2. PICK d \in debt[Lifespan] :
          /\ Close(Lifespan, d)
          /\ conn' = [conn EXCEPT ![d] = "closed"]
          /\ pc' = IF Last(Lifespan, d) THEN [pc EXCEPT ![Lifespan] = "down"] ELSE pc
    OBVIOUS
  <1>3. d \in Conns /\ conn[d] = "open"
    BY <1>1, <1>2 DEF TypeOK, Placed
  <1>4. /\ conn'[d] = "closed" /\ \A c \in Conns \ {d} : conn'[c] = conn[c]
        /\ conn' \in [Conns -> {"unused", "opening", "open", "closed"}]
    BY <1>2, <1>3 DEF TypeOK
  <1>5. /\ debt'[Lifespan] = debt[Lifespan] \ {d}
        /\ \A p \in Parties \ {Lifespan} : debt'[p] = debt[p]
        /\ debt' \in [Parties -> SUBSET Conns]
    BY <1>1, <1>2, <1>3 DEF Close, TypeOK
  <1>6. /\ pc' \in [Parties -> TurnPC \cup ResetPC \cup LifespanPC]
        /\ pc'[Lifespan] = (IF debt'[Lifespan] = {} THEN "down" ELSE "stopping")
        /\ \A p \in Parties \ {Lifespan} : pc'[p] = pc[p]
    <2>1. Last(Lifespan, d) <=> debt'[Lifespan] = {}
      BY <1>2, <1>5 DEF Last
    <2> QED BY <1>1, <1>2, <2>1 DEF TypeOK, LifespanPC
  <1>7. TypeOK'
    <2>1. /\ \A u \in Turns : pc'[u] \in TurnPC
          /\ \A q \in Resets : pc'[q] \in ResetPC
          /\ pc'[Lifespan] \in LifespanPC
      BY <1>1, <1>6, PartyForm DEF TypeOK, LifespanPC
    <2> QED BY <1>4, <1>5, <1>6, <2>1 DEF TypeOK
  <1>8. Placed' /\ Kept'
    BY <1>1, <1>2, <1>3, <1>4, <1>7, ClosePlaces DEF Places
  <1>9. \A u \in Turns : Local(u)'
    <2>1. \A c \in Conns : \/ conn'[c] = conn[c]
                           \/ conn[c] = "open" /\ conn'[c] = "closed"
      BY <1>3, <1>4
    <2>2. \A u \in Turns, n \in 1..MaxAttempts : <<u, n>> \in Conns
      BY ConnForm
    <2>3. \A c \in Conns : conn[c] \in {"open", "closed"} => conn'[c] \in {"open", "closed"}
      BY <2>1
    <2>4. \A u \in Turns, n \in 1..MaxAttempts :
             \/ conn'[<<u, n>>] = conn[<<u, n>>]
             \/ conn[<<u, n>>] = "open" /\ conn'[<<u, n>>] = "closed"
      BY <2>1, <2>2
    <2>5. Turns \ {Lifespan} = Turns
      BY <1>1
    <2> QED BY <1>1, <1>5, <1>6, <2>3, <2>4, <2>5, OthersKeep
  <1>10. OwedElsewhere'
    <2>1. \A r \in Resets : debt'[r] = debt[r] /\ pc'[r] = pc[r]
      BY <1>1, <1>5, <1>6, PartyForm
    <2>2. pc'[Lifespan] # "stopping" => debt'[Lifespan] = {}
      BY <1>6
    <2> QED BY <2>1, <2>2 DEF Rest, OwedElsewhere
  <1>11. Queued'
    BY <1>1, <1>6, PartyForm DEF Rest, Queued
  <1>12. Drained'
    BY <1>1, <1>6, PartyForm DEF Rest, Drained
  <1> QED BY <1>7, <1>8, <1>9, <1>10, <1>11, <1>12 DEF Rest
-----------------------------------------------------------------------------
\* The invariant is inductive.
LEMMA StepIInv == IInv /\ [Next]_vars => IInv'
  <1> SUFFICES ASSUME IInv, [Next]_vars PROVE IInv'
    OBVIOUS
  <1>1. ASSUME NEW t \in Turns, Begin(t) \/ Continue(t) PROVE IInv'
    BY <1>1, AttemptInv, AttemptEvictingInv, CloseVictimInv, CloseLoserInv, CloseDroppedInv,
       LeaveInv, ConnectInstallInv, ConnectLoseInv, ConnectStatelessInv, ConnectFailInv,
       RunFailInv, LocalInv DEF Begin, Continue
  <1>2. ASSUME NEW r \in Resets, Reset(r) \/ CloseReset(r) PROVE IInv'
    BY <1>2, ResetInv, CloseResetInv
  <1>3. CASE UNCHANGED vars
    <2>1. TypeOK'
      BY <1>3 DEF vars, IInv, TypeOK
    <2>2. Placed' /\ Kept'
      BY <1>3, <2>1, SamePlaces DEF vars, IInv, Places
    <2>3. (\A t \in Turns : Local(t)') /\ OwedElsewhere'
      BY <1>3 DEF vars, IInv, Rest, Local, Dialled, Owed, Entered, Own, OwedElsewhere
    <2>4. Queued' /\ Drained'
      BY <1>3 DEF vars, IInv, Rest, Queued, Drained
    <2> QED BY <2>1, <2>2, <2>3, <2>4 DEF IInv, Rest
  <1> QED BY <1>1, <1>2, <1>3, ShutdownInv, CloseAtShutdownInv DEF Next, Down

\* Every state of the session cache satisfies the inductive invariant; the
\* types of its variables are part of it.
THEOREM Invariance == Spec => []IInv
  <1> QED BY InitIInv, StepIInv, PTL DEF Spec

\* The variables of the session cache keep their types.
THEOREM TypeCorrect == Spec => []TypeOK
  <1>1. IInv => TypeOK
    BY DEF IInv
  <1> QED BY <1>1, Invariance, PTL

\* No MCP connection leaks and none has two owners, for any number of turns,
\* sessions, resets and attempts.
THEOREM EveryConnectionOwned == Spec => []OneOwner
  <1>1. IInv => OneOwner
    <2> SUFFICES ASSUME IInv, NEW c \in Conns
                 PROVE  IF conn[c] = "open" THEN \E o \in Owners(c) : Owners(c) = {o}
                                            ELSE Owners(c) = {}
      BY DEF OneOwner
    <2> USE DEF IInv
    <2>1. ASSUME NEW s \in Sessions, cache[s] = c
          PROVE  conn[c] = "open" /\ Owners(c) = {s}
      BY <2>1, ConnForm DEF Placed, Cached, Owners
    <2>2. ASSUME NEW p \in Parties, c \in debt[p]
          PROVE  conn[c] = "open" /\ Owners(c) = {p}
      BY <2>2, ConnForm DEF Placed, Cached, Owners
    <2>3. conn[c] = "open" => \/ \E s \in Sessions : cache[s] = c
                              \/ \E p \in Parties : c \in debt[p]
      BY DEF Kept
    <2>4. conn[c] # "open" => Owners(c) = {}
      BY <2>1, <2>2 DEF Owners
    <2> QED BY <2>1, <2>2, <2>3, <2>4
  <1> QED BY <1>1, Invariance, PTL

\* A turn never runs on a connection that was dialled for another session.
THEOREM SessionsStayApart == Spec => []SessionIsolation
  <1>1. IInv => SessionIsolation
    BY DEF IInv, Rest, Local, Entered, SessionIsolation
  <1> QED BY <1>1, Invariance, PTL

\* Two turns never run the same cached agent at once.
THEOREM LocksExclude == Spec => []LockExcludes
  <1>1. IInv => LockExcludes
    BY DEF IInv, Rest, Queued, Local, Entered, LockExcludes
  <1> QED BY <1>1, Invariance, PTL

\* When the application is down every connection it opened is closed.
THEOREM NothingLeftOpen == Spec => []ShutdownClosesAll
  <1>1. IInv => ShutdownClosesAll
    <2> SUFFICES ASSUME IInv, pc[Lifespan] = "down", NEW c \in Conns
                 PROVE  conn[c] \in {"unused", "closed"}
      BY DEF ShutdownClosesAll
    <2>1. \A p \in Parties : debt[p] = {}
      <3>1. \A t \in Turns : pc[t] \in {"new", "live", "error"}
        BY PartyForm DEF IInv, Rest, Drained, TypeOK, TurnPC, InFlight
      <3>2. \A r \in Resets : pc[r] \in {"new", "none", "cleared"}
        BY PartyForm DEF IInv, Rest, Drained, TypeOK, ResetPC, InFlight
      <3> QED BY <3>1, <3>2, PartyForm DEF IInv, Rest, Local, Owed, OwedElsewhere
    <2>2. \A s \in Sessions : cache[s] # c
      BY ConnForm DEF IInv, Rest, Drained
    <2>3. conn[c] # "open"
      BY <2>1, <2>2 DEF IInv, Kept
    <2>4. conn[c] # "opening"
      <3>1. c = <<c[1], c[2]>> /\ c[1] \in Turns /\ c[2] \in 1..MaxAttempts
        BY ConnForm
      <3>2. pc[c[1]] # "connecting"
        BY <3>1, PartyForm DEF IInv, Rest, Drained, InFlight
      <3>3. conn[<<c[1], c[2]>>] # "opening"
        BY <3>1, <3>2 DEF IInv, Rest, Local, Dialled
      <3> QED BY <3>1, <3>3
    <2> QED BY <2>3, <2>4 DEF IInv, TypeOK
  <1> QED BY <1>1, Invariance, PTL
-----------------------------------------------------------------------------
(* The cache implements ConnectionOwnership: IInv says who owns a connection *)
(* before and after a step; what is shown is that one party made the         *)
(* difference.                                                             *)

\* Who owns c can be read off the one place it has.
Known(c) ==
    /\ conn[c] \in {"unused", "closed"} => OwnerOf(c) = None
    /\ conn[c] = "opening" => OwnerOf(c) = c[1]
    /\ \A s \in Sessions : cache[s] = c => OwnerOf(c) = Sessions
    /\ \A p \in Parties : c \in debt[p] => OwnerOf(c) = p
    /\ conn[c] = "open" => \/ \E s \in Sessions : cache[s] = c
                           \/ \E p \in Parties : c \in debt[p]
    /\ conn[c] # "open" => /\ \A s \in Sessions : cache[s] # c
                           /\ \A p \in Parties : c \notin debt[p]
AllKnown == \A c \in Conns : Known(c)

LEMMA IInvKnown == IInv => AllKnown
  <1> SUFFICES ASSUME IInv, NEW c \in Conns PROVE Known(c)
    BY DEF AllKnown
  <1>1. ASSUME NEW s \in Sessions, cache[s] = c
        PROVE  conn[c] = "open" /\ OwnerOf(c) = Sessions /\ \A p \in Parties : c \notin debt[p]
    BY <1>1, ConnForm DEF IInv, Placed, Cached, OwnerOf
  <1>2. ASSUME NEW p \in Parties, c \in debt[p]
        PROVE  conn[c] = "open" /\ OwnerOf(c) = p
    <2>1. conn[c] = "open" /\ ~\E s \in Sessions : cache[s] = c
      BY <1>1, <1>2 DEF IInv, Placed
    <2>2. \A q \in Parties : c \in debt[q] <=> q = p
      BY <1>2 DEF IInv, Placed
    <2>3. (CHOOSE q \in Parties : c \in debt[q]) = p
      BY <2>2
    <2>4. OwnerOf(c) = CHOOSE q \in Parties : c \in debt[q]
      BY <2>1, <1>2 DEF OwnerOf
    <2> QED BY <2>1, <2>3, <2>4
  <1>3. conn[c] = "opening" => OwnerOf(c) = c[1]
    BY DEF OwnerOf
  <1>4. conn[c] \in {"unused", "closed"} => OwnerOf(c) = None
    BY DEF OwnerOf
  <1>5. conn[c] = "open" => \/ \E s \in Sessions : cache[s] = c
                            \/ \E p \in Parties : c \in debt[p]
    BY DEF IInv, Kept
  <1> QED BY <1>1, <1>2, <1>3, <1>4, <1>5 DEF Known

\* The same in the next state.
LEMMA IInvKnownNext == IInv' => AllKnown'
  <1> QED BY IInvKnown, PTL

\* The moves of the abstract specification, read in this one.
Moves(c, p) ==
    LET Goes(l, o, m, q) == /\ conn[c] = l /\ OwnerOf(c) = o
                            /\ conn'[c] = m /\ OwnerOf(c)' = q IN
    \/ Goes("unused", None, "opening", p)
    \/ Goes("opening", p, "closed", None)
    \/ Goes("opening", p, "open", p)
    \/ Goes("opening", p, "open", Sessions)
    \/ Goes("open", Sessions, "open", p)
    \/ Goes("open", p, "closed", None)
    \/ conn'[c] = conn[c] /\ OwnerOf(c)' = OwnerOf(c)
-----------------------------------------------------------------------------
(* What the steps do to one connection.                                     *)

\* Where c is kept does not change.
LEMMA StayMoves ==
    ASSUME AllKnown, AllKnown', TypeOK, NEW c \in Conns, NEW p \in Parties,
           conn'[c] = conn[c],
           \A s \in Sessions : cache'[s] = c <=> cache[s] = c,
           \A q \in Parties : c \in debt'[q] <=> c \in debt[q]
    PROVE  Moves(c, p)
  <1>1. Known(c) /\ Known(c)'
    BY DEF AllKnown
  <1>2. conn[c] \in {"unused", "opening", "open", "closed"}
    BY DEF TypeOK
  <1>3. OwnerOf(c)' = OwnerOf(c)
    BY <1>1, <1>2 DEF Known
  <1> QED BY <1>3 DEF Moves

\* Party p pops sessions, which may hold c.
LEMMA PopMoves ==
    ASSUME AllKnown, AllKnown', TypeOK, NEW p \in Parties, NEW V \in SUBSET Cached,
           Pop(p, V), NEW c \in Conns, conn'[c] = conn[c]
    PROVE  Moves(c, p)
  <1>1. /\ \A s \in Sessions : cache'[s] = IF s \in V THEN None ELSE cache[s]
        /\ debt'[p] = debt[p] \cup {cache[s] : s \in V}
        /\ \A q \in Parties \ {p} : debt'[q] = debt[q]
    BY DEF Pop, TypeOK
  <1>2. CASE \E s \in V : cache[s] = c
    <2>1. conn[c] = "open" /\ OwnerOf(c) = Sessions
      BY <1>2 DEF AllKnown, Known, Cached
    <2>2. OwnerOf(c)' = p
      BY <1>1, <1>2 DEF AllKnown, Known
    <2> QED BY <2>1, <2>2 DEF Moves
  <1>3. CASE ~\E s \in V : cache[s] = c
    <2>1. \A s \in Sessions : cache'[s] = c <=> cache[s] = c
      BY <1>1, <1>3, ConnForm
    <2>2. \A q \in Parties : c \in debt'[q] <=> c \in debt[q]
      BY <1>1, <1>3
    <2> QED BY <2>1, <2>2, StayMoves
  <1> QED BY <1>2, <1>3

\* Party p closes d.
LEMMA CloseMoves ==
    ASSUME AllKnown, AllKnown', TypeOK, NEW p \in Parties, NEW d \in Conns,
           Close(p, d), UNCHANGED cache, conn'[d] = "closed",
           NEW c \in Conns, c = d \/ conn'[c] = conn[c]
    PROVE  Moves(c, p)
  <1>1. d \in debt[p] /\ \A q \in Parties : c # d => (c \in debt'[q] <=> c \in debt[q])
    BY DEF Close, TypeOK
  <1>2. CASE c = d
    <2>1. conn[c] = "open" /\ OwnerOf(c) = p
      BY <1>1, <1>2 DEF AllKnown, Known, TypeOK
    <2>2. conn'[c] = "closed" /\ OwnerOf(c)' = None
      BY <1>2 DEF AllKnown, Known
    <2> QED BY <2>1, <2>2 DEF Moves
  <1>3. CASE c # d
    BY <1>1, <1>3, StayMoves
  <1> QED BY <1>2, <1>3

\* Turn t begins to dial c.
LEMMA DialMoves ==
    ASSUME AllKnown, AllKnown', NEW t \in Turns, NEW c \in Conns, c[1] = t,
           conn[c] = "unused", conn'[c] = "opening"
    PROVE  Moves(c, t)
  BY DEF AllKnown, Known, Moves
-----------------------------------------------------------------------------
(* One lemma per action that dials, opens, closes or moves a connection.    *)

\* All that a step needs to know of the two states.
Both == IInv /\ AllKnown /\ AllKnown'

\* One party accounts for everything that the step does.
OneMover == \E p \in Parties : \A c \in Conns : Moves(c, p)

\* Looking the session up, when the rest of the step leaves Own(t) alone.
LEMMA LookupMoves ==
    ASSUME Both, NEW t \in Turns, pc[t] \in {"new", "backoff", "evicting"},
           NEW cn \in [Conns -> {"unused", "opening", "open", "closed"}],
           \A c \in Conns : cn[c] = conn[c] \/ (conn[c] = "open" /\ cn[c] = "closed"),
           Lookup(t, cn), NEW c \in Conns, conn'[c] # cn[c]
    PROVE  Moves(c, t)
  <1>1. conn' = [cn EXCEPT ![Own(t)] = "opening"]
    BY DEF Lookup
  <1>2. c = Own(t) /\ conn'[c] = "opening" /\ c[1] = t
    BY <1>1, OwnForm DEF Both, IInv
  <1>3. conn[c] = "unused"
    BY <1>2 DEF Both, IInv, TypeOK, Rest, Local, Dialled, Own
  <1> QED BY <1>2, <1>3, DialMoves DEF Both

LEMMA AttemptMoves ==
    ASSUME Both, NEW t \in Turns, Attempt(t), NEW c \in Conns
    PROVE  Moves(c, t)
  <1>1. /\ conn \in [Conns -> {"unused", "opening", "open", "closed"}] /\ t \in Parties
        /\ Lookup(t, conn) /\ UNCHANGED <<cache, debt>> /\ pc[t] \in {"new", "backoff"}
    BY PartyForm DEF Attempt, Both, IInv, TypeOK
  <1>2. CASE conn'[c] = conn[c]
    BY <1>1, <1>2, StayMoves DEF Both, IInv
  <1>3. CASE conn'[c] # conn[c]
    BY <1>1, <1>3, LookupMoves
  <1> QED BY <1>2, <1>3

LEMMA CloseVictimMoves ==
    ASSUME Both, NEW t \in Turns, CloseVictim(t), NEW c \in Conns
    PROVE  Moves(c, t)
  <1>1. PICK d \in debt[t] :
          LET cn == [conn EXCEPT ![d] = "closed"] IN
          /\ Close(t, d)
          /\ \/ /\ Last(t, d)
                /\ Lookup(t, cn)
             \/ /\ ~Last(t, d)
                /\ conn' = cn
                /\ UNCHANGED <<pc, entry, older, lock>>
    BY DEF CloseVictim
  <1> DEFINE cn == [conn EXCEPT ![d] = "closed"]
  <1>2. /\ d \in Conns /\ conn[d] = "open" /\ t \in Parties /\ pc[t] = "evicting"
        /\ UNCHANGED cache
    BY PartyForm DEF CloseVictim, Both, IInv, TypeOK, Placed
  <1>3. /\ cn \in [Conns -> {"unused", "opening", "open", "closed"}]
        /\ cn[d] = "closed" /\ \A e \in Conns \ {d} : cn[e] = conn[e]
    BY <1>2 DEF Both, IInv, TypeOK
  <1>4. CASE conn'[c] # cn[c]
    <2>1. Lookup(t, cn)
      BY <1>1, <1>4
    <2> HIDE DEF cn
    <2> QED BY <2>1, <1>2, <1>3, <1>4, LookupMoves
  <1>5. CASE conn'[c] = cn[c]
    <2>1. conn'[d] = "closed"
      <3>1. CASE conn' = cn
        BY <3>1, <1>3
      <3>2. CASE Lookup(t, cn)
        <4>1. conn' = cn \/ conn' = [cn EXCEPT ![Own(t)] = "opening"]
          BY <3>2 DEF Lookup
        <4>2. conn[Own(t)] = "unused"
          BY <1>2, <4>1, <3>1 DEF Both, IInv, TypeOK, Rest, Local, Dialled, Own
        <4>3. Own(t) # d
          BY <4>2, <1>2
        <4> QED BY <4>1, <4>3, <1>2, <1>3
      <3> QED BY <1>1, <3>1, <3>2
    <2>2. c = d \/ conn'[c] = conn[c]
      BY <1>3, <1>5
    <2> QED BY <2>1, <2>2, <1>1, <1>2, CloseMoves DEF Both, IInv
  <1> QED BY <1>4, <1>5

\* _connect returns: the connection that t is dialling becomes open or closed.
LEMMA ConnectedMoves ==
    ASSUME Both, NEW t \in Turns, pc[t] = "connecting",
           NEW c \in Conns, c = Own(t),
           \/ conn'[c] = "closed"
           \/ /\ conn'[c] = "open"
              /\ (\E s \in Sessions : cache'[s] = c) \/ c \in debt'[t]
    PROVE  Moves(c, t)
  <1>1. c[1] = t /\ t \in Parties
    BY OwnForm, PartyForm DEF Both, IInv
  <1>2. conn[c] = "opening"
    BY DEF Both, IInv, TypeOK, Rest, Local, Dialled, Own
  <1>3. OwnerOf(c) = t
    BY <1>1, <1>2 DEF Both, AllKnown, Known
  <1>4. conn'[c] = "closed" => OwnerOf(c)' = None
    BY DEF Both, AllKnown, Known
  <1>5. /\ (\E s \in Sessions : cache'[s] = c) => OwnerOf(c)' = Sessions
        /\ c \in debt'[t] => OwnerOf(c)' = t
    BY <1>1 DEF Both, AllKnown, Known
  <1> QED BY <1>2, <1>3, <1>4, <1>5 DEF Moves

LEMMA ConnectInstallMoves ==
    ASSUME Both, NEW t \in Turns, ConnectInstall(t), NEW c \in Conns
    PROVE  Moves(c, t)
  <1>1. /\ pc[t] = "connecting" /\ sid[t] \in Sessions /\ cache[sid[t]] = None
        /\ t \in Parties /\ Own(t) \in Conns /\ Own(t) # None
        /\ cache' = [cache EXCEPT ![sid[t]] = Own(t)]
        /\ conn' = [conn EXCEPT ![Own(t)] = "open"] /\ debt' = debt
    BY PartyForm, OwnForm
    DEF ConnectInstall, StillAbsent, HasEntry, Cached, Both, IInv, TypeOK
  <1>2. CASE c = Own(t)
    BY <1>1, <1>2, ConnectedMoves DEF Both, IInv, TypeOK
  <1>3. CASE c # Own(t)
    <2>1. \A s \in Sessions : cache'[s] = c <=> cache[s] = c
      BY <1>1, <1>3, ConnForm DEF Both, IInv, TypeOK
    <2>2. conn'[c] = conn[c]
      BY <1>1, <1>3 DEF Both, IInv, TypeOK
    <2> QED BY <1>1, <2>1, <2>2, StayMoves DEF Both, IInv
  <1> QED BY <1>2, <1>3

\* A connection that is opened and kept privately.
LEMMA ConnectPrivateMoves ==
    ASSUME Both, NEW t \in Turns, ConnectLose(t) \/ ConnectStateless(t), NEW c \in Conns
    PROVE  Moves(c, t)
  <1>1. /\ pc[t] = "connecting" /\ t \in Parties /\ Own(t) \in Conns
        /\ conn' = [conn EXCEPT ![Own(t)] = "open"] /\ cache' = cache
        /\ debt' = [debt EXCEPT ![t] = {Own(t)}]
    BY PartyForm, OwnForm DEF ConnectLose, ConnectStateless, Both, IInv
  <1>2. debt[t] = {} /\ debt'[t] = {Own(t)} /\ \A q \in Parties \ {t} : debt'[q] = debt[q]
    BY <1>1 DEF Both, IInv, TypeOK, Rest, Local, Owed
  <1>3. CASE c = Own(t)
    BY <1>1, <1>2, <1>3, ConnectedMoves DEF Both, IInv, TypeOK
  <1>4. CASE c # Own(t)
    <2>1. conn'[c] = conn[c] /\ \A q \in Parties : c \in debt'[q] <=> c \in debt[q]
      BY <1>1, <1>2, <1>4 DEF Both, IInv, TypeOK
    <2> QED BY <1>1, <2>1, StayMoves DEF Both, IInv
  <1> QED BY <1>3, <1>4

\* A failed attempt takes the session out of the cache, if it is there.
LEMMA FailMoves ==
    ASSUME Both, NEW t \in Turns, Fail(t), NEW c \in Conns, conn'[c] = conn[c]
    PROVE  Moves(c, t)
  <1>1. t \in Parties /\ (HasEntry(t) => {sid[t]} \in SUBSET Cached)
    BY PartyForm DEF HasEntry
  <1>2. CASE HasEntry(t) /\ Pop(t, {sid[t]})
    BY <1>1, <1>2, PartyForm, PopMoves DEF Both, IInv
  <1>3. CASE UNCHANGED <<cache, older, debt>>
    BY <1>3, PartyForm, StayMoves DEF Both, IInv
  <1> QED BY <1>2, <1>3 DEF Fail

LEMMA ConnectFailMoves ==
    ASSUME Both, NEW t \in Turns, ConnectFail(t), NEW c \in Conns
    PROVE  Moves(c, t)
  <1>1. /\ pc[t] = "connecting" /\ Own(t) \in Conns /\ Fail(t)
        /\ conn' = [conn EXCEPT ![Own(t)] = "closed"]
    BY OwnForm DEF ConnectFail, Both, IInv
  <1>2. CASE c = Own(t)
    BY <1>1, <1>2, ConnectedMoves DEF Both, IInv, TypeOK
  <1>3. CASE c # Own(t)
    BY <1>1, <1>3, FailMoves DEF Both, IInv, TypeOK
  <1> QED BY <1>2, <1>3

\* Every step that only closes what its party owes.
LEMMA ClosingMoves ==
    ASSUME Both, NEW p \in Parties, UNCHANGED cache, NEW c \in Conns,
           \E d \in debt[p] : Close(p, d) /\ conn' = [conn EXCEPT ![d] = "closed"]
    PROVE  Moves(c, p)
  <1>1. PICK d \in debt[p] : Close(p, d) /\ conn' = [conn EXCEPT ![d] = "closed"]
    OBVIOUS
  <1>2. d \in Conns /\ conn'[d] = "closed" /\ (c = d \/ conn'[c] = conn[c])
    BY <1>1 DEF Both, IInv, TypeOK
  <1> QED BY <1>1, <1>2, CloseMoves DEF Both, IInv

\* Every step that touches no connection.
LEMMA QuietMoves ==
    ASSUME Both, NEW p \in Parties, UNCHANGED <<conn, cache, debt>>, NEW c \in Conns
    PROVE  Moves(c, p)
  BY StayMoves DEF Both, IInv

\* Some party made the difference, whatever the step.
LEMMA NextMoves == ASSUME Both, Next PROVE OneMover
  <1> USE PartyForm
  <1>1. ASSUME NEW t \in Turns, Begin(t) \/ Continue(t) PROVE OneMover
    <2> SUFFICES ASSUME NEW c \in Conns PROVE Moves(c, t)
      BY DEF OneMover
    <2>1. CASE Attempt(t)
      BY <2>1, AttemptMoves
    <2>2. CASE AttemptEvicting(t)
      <3>1. PICK V \in Evictable \ {{}} : Pop(t, V)
        BY <2>2 DEF AttemptEvicting
      <3>2. V \in SUBSET Cached /\ conn'[c] = conn[c]
        BY <2>2 DEF AttemptEvicting, Evictable
      <3> QED BY <3>1, <3>2, PopMoves DEF Both, IInv
    <2>3. CASE CloseVictim(t)
      BY <2>3, CloseVictimMoves
    <2>4. CASE CloseLoser(t) \/ Leave(t)
      BY <2>4, ClosingMoves DEF CloseLoser, Leave, Close
    <2>5. CASE CloseDropped(t)
      BY <2>5, ClosingMoves DEF CloseDropped
    <2>6. CASE ConnectInstall(t)
      BY <2>6, ConnectInstallMoves
    <2>7. CASE ConnectLose(t) \/ ConnectStateless(t)
      BY <2>7, ConnectPrivateMoves
    <2>8. CASE ConnectFail(t)
      BY <2>8, ConnectFailMoves
    <2>9. CASE Granted(t) \/ RunOk(t) \/ StatelessEnd(t)
      BY <2>9, QuietMoves DEF Granted, RunOk, StatelessEnd
    <2>10. CASE RunFail(t)
      BY <2>10, FailMoves DEF RunFail
    <2> QED BY <1>1, <2>1, <2>2, <2>3, <2>4, <2>5, <2>6, <2>7, <2>8, <2>9, <2>10
        DEF Begin, Continue
  <1>2. ASSUME NEW r \in Resets, Reset(r) \/ CloseReset(r) PROVE OneMover
    <2> SUFFICES ASSUME NEW c \in Conns PROVE Moves(c, r)
      BY DEF OneMover
    <2>1. CASE Reset(r) /\ HasEntry(r) /\ Pop(r, {sid[r]})
      <3>1. {sid[r]} \in SUBSET Cached /\ conn'[c] = conn[c]
        BY <2>1 DEF HasEntry, Reset
      <3> QED BY <2>1, <3>1, PopMoves DEF Both, IInv
    <2>2. CASE Reset(r) /\ UNCHANGED <<cache, older, debt>>
      BY <2>2, QuietMoves DEF Reset
    <2>3. CASE CloseReset(r)
      BY <2>3, ClosingMoves DEF CloseReset
    <2> QED BY <1>2, <2>1, <2>2, <2>3 DEF Reset
  <1>3. ASSUME Shutdown \/ CloseAtShutdown \/ Down PROVE OneMover
    <2> SUFFICES ASSUME NEW c \in Conns PROVE Moves(c, Lifespan)
      BY DEF OneMover
    <2>1. CASE Shutdown
      <3>1. Pop(Lifespan, Cached) /\ conn'[c] = conn[c] /\ Cached \in SUBSET Cached
        BY <2>1 DEF Shutdown
      <3> QED BY <3>1, PopMoves DEF Both, IInv
    <2>2. CASE CloseAtShutdown
      BY <2>2, ClosingMoves DEF CloseAtShutdown
    <2>3. CASE Down
      BY <2>3, QuietMoves DEF Down, vars
    <2> QED BY <1>3, <2>1, <2>2, <2>3
  <1> QED BY <1>1, <1>2, <1>3 DEF Next
-----------------------------------------------------------------------------
\* Initially nothing is dialled or owned.
LEMMA InitOwnership == Init => Ownership!Init
  BY DEF Init, OwnerOf, Ownership!Init

LEMMA OwnersTyped == IInv => Ownership!TypeOK
  <1> SUFFICES ASSUME IInv PROVE Ownership!TypeOK
    OBVIOUS
  <1>1. conn \in [Conns -> {"unused", "opening", "open", "closed"}]
    BY DEF IInv, TypeOK
  <1>2. ASSUME NEW c \in Conns PROVE OwnerOf(c) \in Parties \cup {Sessions, None}
    <2>1. Known(c) /\ c[1] \in Parties
      BY IInvKnown, ConnForm, PartyForm DEF AllKnown
    <2> QED BY <1>1, <2>1 DEF Known
  <1> HIDE DEF OwnerOf
  <1> QED BY <1>1, <1>2 DEF Ownership!TypeOK, Ownership!Life

\* Every step of the cache is a step of ConnectionOwnership, or leaves its
\* variables alone.
LEMMA StepOwnership == IInv /\ IInv' /\ [Next]_vars => [Ownership!Next]_(Ownership!vars)
  <1> SUFFICES ASSUME IInv, IInv', [Next]_vars
               PROVE  [Ownership!Next]_(Ownership!vars)
    OBVIOUS
  <1>1. Both
    BY IInvKnown, IInvKnownNext DEF Both
  <1>2. CASE Next
    <2>1. PICK p \in Parties : \A c \in Conns : Moves(c, p)
      BY <1>1, <1>2, NextMoves DEF OneMover
    <2>2. ASSUME NEW c \in Conns PROVE Ownership!Move(c, p)
      BY <2>1 DEF Moves, Ownership!Move, Ownership!Goes
    <2>3. Ownership!TypeOK'
      BY OwnersTyped, PTL
    <2> QED BY <2>2, <2>3 DEF Ownership!Next
  <1>3. CASE UNCHANGED vars
    BY <1>3 DEF vars, Ownership!vars, OwnerOf
  <1> QED BY <1>2, <1>3

\* The session cache implements connection ownership: only the owner closes a
\* connection, and what was evicted, reset or dropped is never cached again.
THEOREM CacheImplementsOwnership == Spec => ImplementsOwnership
  <1> QED BY InitOwnership, StepOwnership, Invariance, PTL
      DEF Spec, ImplementsOwnership, Ownership!Spec
-----------------------------------------------------------------------------
(* The session cache outgrows its cap by no more than the attempts that     *)
(* overlapped.                                                             *)

\* What a step may do to the cache and to the attempts on the way to it.
Shrinks == Cached' \subseteq Cached /\ OnTheWay' \subseteq OnTheWay
CutsDown == Cardinality(Cached') <= MaxSessions
Stores == \E t \in OnTheWay, s \in Sessions :
             Cached' = Cached \cup {s} /\ OnTheWay' = OnTheWay \ {t}

LEMMA FiniteHere ==
    /\ IsFiniteSet(Cached) /\ Cardinality(Cached) \in Nat
    /\ IsFiniteSet(OnTheWay) /\ Cardinality(OnTheWay) \in Nat
  <1>1. Cached \in SUBSET Sessions /\ OnTheWay \in SUBSET Turns
    BY DEF Cached, OnTheWay
  <1> QED BY <1>1, ConstantsOK, FS_Subset, FS_CardinalityType

LEMMA FiniteNext ==
    /\ IsFiniteSet(Cached') /\ Cardinality(Cached') \in Nat
    /\ IsFiniteSet(OnTheWay') /\ Cardinality(OnTheWay') \in Nat
  <1>1. Cached' \in SUBSET Sessions /\ OnTheWay' \in SUBSET Turns
    BY DEF Cached, OnTheWay
  <1> QED BY <1>1, ConstantsOK, FS_Subset, FS_CardinalityType

\* The bound survives each of the three kinds of step.
LEMMA BoundKept ==
    ASSUME peak \in Nat, GrowthBounded, Observe, Shrinks \/ CutsDown \/ Stores
    PROVE  peak' \in Nat /\ GrowthBounded'
  <1>1. /\ peak' \in Nat /\ peak' >= peak /\ peak' >= Cardinality(OnTheWay')
    BY FiniteNext DEF Observe
  <1>2. MaxSessions \in Nat
    BY ConstantsOK
  <1>3. CASE Shrinks
    <2>1. Cardinality(Cached') <= Cardinality(Cached)
      BY <1>3, FiniteHere, FS_Subset DEF Shrinks
    <2>2. Cardinality(OnTheWay') <= Cardinality(OnTheWay)
      BY <1>3, FiniteHere, FS_Subset DEF Shrinks
    <2> QED BY <1>1, <1>2, <2>1, <2>2, FiniteHere, FiniteNext DEF GrowthBounded
  <1>4. CASE CutsDown
    BY <1>1, <1>2, <1>4, FiniteNext DEF CutsDown, GrowthBounded
  <1>5. CASE Stores
    <2>1. PICK t \in OnTheWay, s \in Sessions :
             Cached' = Cached \cup {s} /\ OnTheWay' = OnTheWay \ {t}
      BY <1>5 DEF Stores
    <2>2. Cardinality(Cached') <= Cardinality(Cached) + 1
      <3>1. Cardinality(Cached \cup {s}) =
              IF s \in Cached THEN Cardinality(Cached) ELSE Cardinality(Cached) + 1
        BY FiniteHere, FS_AddElement
      <3> QED BY <2>1, <3>1, FiniteHere
    <2>3. Cardinality(OnTheWay') = Cardinality(OnTheWay) - 1
      BY <2>1, FiniteHere, FS_RemoveElement
    <2> QED BY <1>1, <1>2, <2>2, <2>3, FiniteHere, FiniteNext DEF GrowthBounded
  <1> QED BY <1>3, <1>4, <1>5
-----------------------------------------------------------------------------
\* A step that moves party p alone, which is not on the way afterwards, and
\* stores nothing.
LEMMA LeavesTheWay ==
    ASSUME TypeOK, NEW p \in Parties,
           \A q \in Parties \ {p} : pc'[q] = pc[q],
           p \in OnTheWay' => p \in OnTheWay,
           \A s \in Sessions : cache'[s] = cache[s] \/ cache'[s] = None,
           UNCHANGED sid
    PROVE  Shrinks
  <1>1. Cached' \subseteq Cached
    BY DEF Cached
  <1>2. ASSUME NEW t \in OnTheWay' PROVE t \in OnTheWay
    BY <1>2, PartyForm DEF OnTheWay
  <1> QED BY <1>1, <1>2 DEF Shrinks

\* A body of the loop that starts for a session has cut the cache down.
LEMMA AttemptCuts ==
    ASSUME TypeOK, NEW t \in Turns, Attempt(t) \/ AttemptEvicting(t)
    PROVE  Shrinks \/ CutsDown
  <1>1. CASE Attempt(t) /\ sid[t] # None
    <2>1. Cardinality(Cached \ {}) <= MaxSessions
      BY <1>1 DEF Attempt, Evictable
    <2>2. Cached' = Cached /\ Cached \ {} = Cached
      BY <1>1 DEF Attempt, Cached
    <2> QED BY <2>1, <2>2 DEF CutsDown
  <1>2. CASE Attempt(t) /\ sid[t] = None
    <2>1. t \notin OnTheWay'
      BY <1>2 DEF Attempt, OnTheWay
    <2>2. \A q \in Parties \ {t} : pc'[q] = pc[q]
      BY <1>2, PartyForm DEF Attempt, Lookup, Enter, TypeOK
    <2> QED BY <1>2, <2>1, <2>2, PartyForm, LeavesTheWay DEF Attempt
  <1>3. CASE AttemptEvicting(t)
    <2>1. PICK V \in Evictable : Pop(t, V)
      BY <1>3 DEF AttemptEvicting
    <2>2. V \subseteq Cached /\ Cardinality(Cached \ V) <= MaxSessions
      BY <2>1 DEF Evictable
    <2>3. Cached' = Cached \ V
      BY <2>1, <2>2 DEF Pop, Cached
    <2> QED BY <2>2, <2>3 DEF CutsDown
  <1> QED BY <1>1, <1>2, <1>3

LEMMA FailShrinks ==
    ASSUME TypeOK, NEW t \in Turns, Fail(t), UNCHANGED sid
    PROVE  Shrinks
  <1>1. /\ \A q \in Parties \ {t} : pc'[q] = pc[q]
        /\ pc'[t] \in {"dropping", "backoff", "error"}
        /\ \A s \in Sessions : cache'[s] = cache[s] \/ cache'[s] = None
    BY PartyForm DEF Fail, Retry, Pop, TypeOK
  <1>2. t \notin OnTheWay'
    BY <1>1 DEF OnTheWay
  <1> QED BY <1>1, <1>2, PartyForm, LeavesTheWay

\* Every other step of a turn but the one that stores.
LEMMA TurnShrinks ==
    ASSUME TypeOK, NEW t \in Turns,
           \/ CloseVictim(t) \/ CloseLoser(t) \/ CloseDropped(t) \/ Leave(t)
           \/ ConnectLose(t) \/ ConnectStateless(t) \/ Granted(t) \/ RunOk(t)
           \/ StatelessEnd(t)
    PROVE  Shrinks
  <1>1. UNCHANGED <<sid, cache>>
    BY DEF CloseVictim, CloseLoser, CloseDropped, Leave, ConnectLose, ConnectStateless,
           Granted, RunOk, StatelessEnd
  <1>2. \A q \in Parties \ {t} : pc'[q] = pc[q]
    BY PartyForm DEF CloseVictim, CloseLoser, CloseDropped, Leave, ConnectLose,
           ConnectStateless, Granted, RunOk, StatelessEnd, Enter, Lookup, Retry, TypeOK
  <1>3. t \in OnTheWay' => t \in OnTheWay
    <2>1. CASE CloseVictim(t)
      BY <1>1, <2>1 DEF CloseVictim, OnTheWay
    <2>2. CASE \/ CloseLoser(t) \/ CloseDropped(t) \/ Leave(t) \/ ConnectLose(t)
               \/ ConnectStateless(t) \/ Granted(t) \/ RunOk(t) \/ StatelessEnd(t)
      <3>1. pc'[t] \notin {"evicting", "connecting"}
        BY <2>2, PartyForm DEF CloseLoser, CloseDropped, Leave, ConnectLose,
           ConnectStateless, Granted, RunOk, StatelessEnd, Enter, Retry, TypeOK
      <3> QED BY <3>1 DEF OnTheWay
    <2> QED BY <2>1, <2>2
  <1> QED BY <1>1, <1>2, <1>3, PartyForm, LeavesTheWay

LEMMA InstallStores ==
    ASSUME TypeOK, NEW t \in Turns, ConnectInstall(t)
    PROVE  Stores
  <1> USE DEF ConnectInstall
  <1>1. t \in OnTheWay /\ sid[t] \in Sessions
    BY PartyForm DEF OnTheWay, TypeOK
  <1>2. Cached' = Cached \cup {sid[t]}
    BY <1>1, OwnForm DEF Cached, TypeOK
  <1>3. OnTheWay' = OnTheWay \ {t}
    BY PartyForm DEF OnTheWay, TypeOK
  <1> QED BY <1>1, <1>2, <1>3 DEF Stores

\* The steps of resets and of the lifespan.
LEMMA OthersShrink ==
    ASSUME TypeOK, NEW p \in Parties \ Turns,
           \/ p \in Resets /\ (Reset(p) \/ CloseReset(p))
           \/ p = Lifespan /\ (Shutdown \/ CloseAtShutdown)
    PROVE  Shrinks
  <1>1. \A q \in Parties \ {p} : pc'[q] = pc[q]
    BY PartyForm DEF Reset, CloseReset, Shutdown, CloseAtShutdown, TypeOK
  <1>2. /\ \A s \in Sessions : cache'[s] = cache[s] \/ cache'[s] = None
        /\ UNCHANGED sid
    BY DEF Reset, CloseReset, Shutdown, CloseAtShutdown, Pop
  <1>3. p \notin OnTheWay'
    BY DEF OnTheWay
  <1> QED BY <1>1, <1>2, <1>3, LeavesTheWay

LEMMA StepKinds == TypeOK /\ Next => Shrinks \/ CutsDown \/ Stores
  <1> SUFFICES ASSUME TypeOK, Next PROVE Shrinks \/ CutsDown \/ Stores
    OBVIOUS
  <1>1. ASSUME NEW t \in Turns, Begin(t) \/ Continue(t)
        PROVE  Shrinks \/ CutsDown \/ Stores
    <2>1. CASE ConnectFail(t) \/ RunFail(t)
      BY <2>1, FailShrinks DEF ConnectFail, RunFail
    <2> QED BY <1>1, <2>1, AttemptCuts, TurnShrinks, InstallStores DEF Begin, Continue
  <1>2. ASSUME NEW r \in Resets, Reset(r) \/ CloseReset(r) PROVE Shrinks
    BY <1>2, PartyForm, OthersShrink
  <1>3. CASE Shutdown \/ CloseAtShutdown
    BY <1>3, PartyForm, OthersShrink
  <1>4. CASE Down
    BY <1>4 DEF Down, vars, Shrinks, Cached, OnTheWay
  <1> QED BY <1>1, <1>2, <1>3, <1>4 DEF Next
-----------------------------------------------------------------------------
CapInv == peak \in Nat /\ GrowthBounded

LEMMA InitCap == CapInit => CapInv
  <1> SUFFICES ASSUME CapInit PROVE CapInv
    OBVIOUS
  <1>1. Cached = {} /\ OnTheWay = {}
    BY PartyForm, ConstantsOK DEF CapInit, Init, Cached, OnTheWay
  <1> QED BY <1>1, FS_EmptySet, ConstantsOK DEF CapInit, CapInv, GrowthBounded

LEMMA StepCap == TypeOK /\ CapInv /\ [CapNext]_<<vars, peak>> => CapInv'
  <1> SUFFICES ASSUME TypeOK, CapInv, [CapNext]_<<vars, peak>> PROVE CapInv'
    OBVIOUS
  <1>1. CASE CapNext
    BY <1>1, StepKinds, BoundKept DEF CapNext, CapInv
  <1>2. CASE UNCHANGED <<vars, peak>>
    BY <1>2 DEF vars, CapInv, GrowthBounded, Cached, OnTheWay
  <1> QED BY <1>1, <1>2

\* MCP connections do not accumulate: the cache outgrows its cap by no more than
\* the attempts that overlapped, for any number of turns, sessions and retries.
THEOREM CacheGrowthBounded == CapSpec => []GrowthBounded
  <1>1. CapSpec => Spec
    <2>1. CapInit => Init
      BY DEF CapInit
    <2>2. [CapNext]_<<vars, peak>> => [Next]_vars
      BY DEF CapNext
    <2> QED BY <2>1, <2>2, PTL DEF CapSpec, Spec
  <1>2. CapSpec => []CapInv
    BY <1>1, TypeCorrect, InitCap, StepCap, PTL DEF CapSpec
  <1>3. CapInv => GrowthBounded
    BY DEF CapInv
  <1> QED BY <1>2, <1>3, PTL
=============================================================================
