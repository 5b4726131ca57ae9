-------------------------- MODULE ChatSessionCap --------------------------
(***************************************************************************)
(* How far the session cache of ChatSessions may grow.  The cap is         *)
(* enforced before an attempt dials and the entry is stored afterwards, so *)
(* attempts that overlap overshoot _MAX_SESSIONS.  peak, a history         *)
(* variable, is the largest number of attempts ever seen on their way from *)
(* the one to the other at the same time.                                  *)
(***************************************************************************)
EXTENDS ChatSessions

VARIABLE peak

\* Attempts that have evicted and may still store an entry.
OnTheWay == {t \in Turns : pc[t] \in {"evicting", "connecting"} /\ sid[t] # None}

CapInit == Init /\ peak = 0
Observe == peak' = IF Cardinality(OnTheWay') > peak THEN Cardinality(OnTheWay') ELSE peak
CapNext == Next /\ Observe
CapSpec == CapInit /\ [][CapNext]_<<vars, peak>>

\* The cache outgrows the cap by no more than the attempts that overlapped at
\* some time, however many turns, evictions, resets and retries there were:
\* connections do not accumulate.  An entry on its way counts already.
GrowthBounded ==
    Cardinality(Cached) + Cardinality(OnTheWay) <= MaxSessions + peak
=============================================================================
