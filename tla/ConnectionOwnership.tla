------------------------ MODULE ConnectionOwnership ------------------------
(***************************************************************************)
(* What the chat back end owes every MCP connection it opens, without      *)
(* saying how sessions are cached: a connection is dialled once, while it  *)
(* is open exactly one party answers for it (the session cache or one      *)
(* request), only that party may hang it up, and a connection that has     *)
(* left the cache never comes back.  ChatSessions implements this.         *)
(***************************************************************************)
CONSTANTS
    Conns,      \* connections
    Parties,    \* requests, resets and the application lifespan
    Pool,       \* the session cache, as an owner
    Nobody      \* no owner

VARIABLES
    life,       \* life[c]: unused, opening, open or closed
    owner       \* owner[c]: who has to close c

vars == <<life, owner>>

Life == {"unused", "opening", "open", "closed"}

TypeOK ==
    /\ life \in [Conns -> Life]
    /\ owner \in [Conns -> Parties \cup {Pool, Nobody}]

Init ==
    /\ life = [c \in Conns |-> "unused"]
    /\ owner = [c \in Conns |-> Nobody]

\* c goes from state <<l, o>> to state <<m, q>> in this step.
Goes(c, l, o, m, q) ==
    /\ life[c] = l /\ owner[c] = o
    /\ life'[c] = m /\ owner'[c] = q

\* What party p may do to connection c in a step of its own.
Move(c, p) ==
    \/ Goes(c, "unused", Nobody, "opening", p)
    \/ Goes(c, "opening", p, "closed", Nobody)
    \/ Goes(c, "opening", p, "open", p)
    \/ Goes(c, "opening", p, "open", Pool)
    \/ Goes(c, "open", Pool, "open", p)
    \/ Goes(c, "open", p, "closed", Nobody)
    \/ life'[c] = life[c] /\ owner'[c] = owner[c]

\* One party acts; it may act on several connections at once.
Next ==
    /\ TypeOK'
    /\ \E p \in Parties : \A c \in Conns : Move(c, p)

Spec == Init /\ [][Next]_vars
=============================================================================
