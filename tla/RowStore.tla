------------------------------ MODULE RowStore ------------------------------
(***************************************************************************)
(* What a store whose changes are published owes its callers, without      *)
(* saying how it keeps the rows: a row changes at one moment of a request  *)
(* that asked for it, consumers are then told that row, and what was       *)
(* answered outlives a crash.  It is off as soon as requests overlap that  *)
(* must not.  KafkaSinkStore implements this.                              *)
(***************************************************************************)
CONSTANTS
    Ids,
    Row,
    None       \* no row

VARIABLES
    store,     \* store[i]: the row i
    told,      \* told[i]: what consumers hold for it
    asked,     \* rows that a request at work is about
    owed,      \* those that it has changed, and consumers are not told yet
    missed,    \* rows that consumers, or the store, may have wrong
    safe,      \* a restart keeps the rows
    off
vars == <<store, told, asked, owed, missed, safe, off>>

Init ==
    /\ store \in [Ids -> Row \cup {None}] /\ told = store
    /\ asked = {} /\ owed = {} /\ missed = {} /\ safe \in BOOLEAN /\ off = FALSE

Ask(i) ==
    /\ i \notin asked /\ asked' = asked \cup {i}
    /\ UNCHANGED <<store, told, owed, missed, safe>>
Change(i) ==
    /\ i \in asked \ owed
    /\ \E row \in Row \cup {None} : store' = [store EXCEPT ![i] = row]
    /\ owed' = owed \cup {i}
    /\ UNCHANGED <<told, asked, missed, safe>>
Tell(i) ==
    /\ i \in owed
    /\ told' = [told EXCEPT ![i] = store[i]]
    /\ owed' = owed \ {i} /\ asked' = asked \ {i}
    /\ UNCHANGED <<store, missed, safe>>
GiveUp(i) ==
    /\ i \in owed
    /\ missed' = missed \cup {i}
    /\ owed' = owed \ {i} /\ asked' = asked \ {i}
    /\ UNCHANGED <<store, told, safe>>

\* Requests at work get no answer; those answered are kept, if a restart is safe.
Crash ==
    /\ missed' = missed \cup asked /\ owed' = {} /\ asked' = {}
    /\ safe' \in {safe, FALSE}
    /\ UNCHANGED <<store, told>>
Recover ==
    /\ asked = {} /\ owed = {}
    /\ store' \in [Ids -> Row \cup {None}]
    /\ missed' = missed \cup {i \in Ids : store'[i] # store[i]}
    /\ safe => missed' = missed
    /\ UNCHANGED <<told, asked, owed, safe>>

Next ==
    \/ off'
    \/ /\ off' = off
       /\ \/ \E i \in Ids : Ask(i) \/ Change(i) \/ Tell(i) \/ GiveUp(i)
          \/ Crash \/ Recover

Spec == Init /\ [][Next]_vars
=============================================================================
