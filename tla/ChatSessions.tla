--------------------------- MODULE ChatSessions ---------------------------
(***************************************************************************)
(* The session cache of the chat agent (chat/agent.py): turns, resets and  *)
(* the application lifespan share one event loop.  An action is what a     *)
(* coroutine does from one suspension (await that blocks) to the next, so  *)
(* every place where another coroutine can run in between is a state.      *)
(*                                                                         *)
(* A connection is named by the turn and attempt that dials it: an attempt *)
(* dials at most once.  last_used is kept as the order of the cached       *)
(* sessions by last use, which is all that eviction looks at.              *)
(***************************************************************************)
EXTENDS Naturals, Sequences, FiniteSets

CONSTANTS
    Turns,        \* POST /chat requests (live mode)
    Resets,       \* POST /chat/reset requests
    Lifespan,     \* the application lifespan, which runs shutdown()
    Sessions,     \* session ids minted by the UI
    None,         \* no session id, no cached entry
    MaxSessions,  \* _MAX_SESSIONS
    MaxAttempts   \* _MAX_ATTEMPTS

Conns == Turns \X (1..MaxAttempts)
Requests == Turns \cup Resets
Parties == Requests \cup {Lifespan}

ASSUME ConstantsOK ==
    /\ Turns \cap Resets = {} /\ Lifespan \notin Requests
    /\ None \notin Sessions \cup Conns
    /\ MaxSessions \in Nat /\ MaxAttempts \in Nat \ {0}
    /\ IsFiniteSet(Turns) /\ IsFiniteSet(Sessions)

VARIABLES
    sid,      \* sid[r]: the session id the request carries, or None
    pc,       \* pc[p]: the await at which the party is suspended
    attempt,  \* attempt[t]: loop counter of run_agent
    entry,    \* entry[t]: local variable entry of the turn (its connection)
    cache,    \* cache[s]: _sessions.get(s)
    older,    \* <<r, s>>: cached sessions, r last used before s
    lock,     \* lock[c]: turns at entry.lock, first come first served
    conn,     \* conn[c]: state of the MCP connection
    debt      \* debt[p]: open connections p holds privately and must close

vars == <<sid, pc, attempt, entry, cache, older, lock, conn, debt>>

TurnPC == {"new", "evicting", "connecting", "losing", "waiting", "running",
           "leaving", "leavingErr", "dropping", "backoff", "live", "error"}
ResetPC == {"new", "dropping", "none", "cleared"}
LifespanPC == {"up", "stopping", "down"}
InFlight == {"evicting", "connecting", "losing", "waiting", "running",
             "leaving", "leavingErr", "dropping", "backoff"}

Init ==
    /\ sid \in {f \in [Requests -> Sessions \cup {None}] :
                    \A r \in Resets : f[r] # None}
    /\ pc = [p \in Parties |-> IF p = Lifespan THEN "up" ELSE "new"]
    /\ attempt = [t \in Turns |-> 1]
    /\ entry = [t \in Turns |-> None]
    /\ cache = [s \in Sessions |-> None]
    /\ older = {}
    /\ lock = [c \in Conns |-> << >>]
    /\ conn = [c \in Conns |-> "unused"]
    /\ debt = [p \in Parties |-> {}]
-----------------------------------------------------------------------------
Own(t) == <<t, attempt[t]>>
Cached == {s \in Sessions : cache[s] # None}
HasEntry(r) == sid[r] \in Cached

\* _sessions.get(session_id) where it is known to be there
EntryLatest(r) ==                              \* mutant: whichever was used last
    cache[CHOOSE s \in Cached : \A q \in Cached : <<s, q>> \notin older]
EntryOf(r) == cache[sid[r]]

\* The second look after _connect: `existing is not None`
StillAbsentTrusted(t) == TRUE                                  \* mutant: no second look
StillAbsent(t) == ~HasEntry(t)

FreeAlways(c) == TRUE                                          \* mutant: no lock
Free(c) == lock[c] = << >>

Unlocked(t) == [lock EXCEPT ![entry[t]] = Tail(@)]

LastAny(p, c) == TRUE                                          \* mutant: stops early
Last(p, c) == debt[p] = {c}

\* entry.last_used = time.monotonic() for the cached entry of s
Touched(s) == {p \in older : p[1] # s /\ p[2] # s}
                  \cup {<<r, s>> : r \in Cached \ {s}}

\* The sets _collect_evictable may pop: every session idle for longer than the
\* TTL (how many, time decides), then the least recently used over the cap.
EvictableIdle ==                               \* mutant: no cap
    {V \in SUBSET Cached :
        \A s \in V, r \in Cached : <<r, s>> \in older => r \in V}
Evictable ==
    {V \in SUBSET Cached :
        /\ \A s \in V, r \in Cached : <<r, s>> \in older => r \in V
        /\ Cardinality(Cached \ V) <= MaxSessions}

\* _sessions.pop of every session in V by party p, which is to close them.
PopKeeping(p, V) ==                            \* mutant: _sessions.get for pop
    /\ UNCHANGED <<cache, older>>
    /\ debt' = [debt EXCEPT ![p] = @ \cup {cache[s] : s \in V}]
Pop(p, V) ==
    /\ cache' = [s \in Sessions |-> IF s \in V THEN None ELSE cache[s]]
    /\ older' = {q \in older : q[1] \notin V /\ q[2] \notin V}
    /\ debt' = [debt EXCEPT ![p] = @ \cup {cache[s] : s \in V}]

\* The end of _get_or_create and `async with entry.lock`: the entry is touched
\* (in vain when it has left the cache); a free lock is taken without yielding.
Enter(t, c) ==
    /\ entry' = [entry EXCEPT ![t] = c]
    /\ older' = IF cache[sid[t]] = c THEN Touched(sid[t]) ELSE older
    /\ lock' = [lock EXCEPT ![c] = Append(@, t)]
    /\ pc' = [pc EXCEPT ![t] = IF Free(c) THEN "running" ELSE "waiting"]

\* _sessions.get(session_id), and _connect when there is none; cn is conn as
\* left by the rest of the step.
Lookup(t, cn) ==
    \/ /\ HasEntry(t)
       /\ Enter(t, EntryOf(t))
       /\ conn' = cn
    \/ /\ ~HasEntry(t)
       /\ pc' = [pc EXCEPT ![t] = "connecting"]
       /\ conn' = [cn EXCEPT ![Own(t)] = "opening"]
       /\ UNCHANGED <<entry, older, lock>>

\* After an attempt has failed: sleep before the next one, or give up.
RetryOnceMore(t) ==                            \* mutant: one attempt too many
    /\ pc' = [pc EXCEPT ![t] = IF attempt[t] <= MaxAttempts THEN "backoff" ELSE "error"]
    /\ attempt' = [attempt EXCEPT ![t] = @ + 1]
Retry(t) ==
    \/ /\ attempt[t] < MaxAttempts
       /\ pc' = [pc EXCEPT ![t] = "backoff"]
       /\ attempt' = [attempt EXCEPT ![t] = @ + 1]
    \/ /\ attempt[t] = MaxAttempts
       /\ pc' = [pc EXCEPT ![t] = "error"]
       /\ UNCHANGED attempt

\* `except Exception`: whatever the cache holds for the session id is popped,
\* be it the connection that failed or another.
Fail(t) ==
    /\ entry' = [entry EXCEPT ![t] = None]
    /\ \/ /\ HasEntry(t)
          /\ Pop(t, {sid[t]})
          /\ pc' = [pc EXCEPT ![t] = "dropping"]
          /\ UNCHANGED attempt
       \/ /\ ~HasEntry(t)
          /\ Retry(t)
          /\ UNCHANGED <<cache, older, debt>>

\* One await _close of party p has returned (an error in it is swallowed).
Close(p, c) ==
    /\ c \in debt[p]
    /\ debt' = [debt EXCEPT ![p] = @ \ {c}]
-----------------------------------------------------------------------------
\* The body of the for loop of run_agent starts, nothing to evict.
Attempt(t) ==
    /\ pc[t] \in {"new", "backoff"} /\ pc[Lifespan] = "up"
    /\ sid[t] # None => {} \in Evictable
    /\ Lookup(t, conn)
    /\ UNCHANGED <<sid, attempt, cache, debt>>

\* The same with sessions to evict: the first await is on closing them.
AttemptEvicting(t) ==
    /\ pc[t] \in {"new", "backoff"} /\ pc[Lifespan] = "up"
    /\ sid[t] # None
    /\ \E V \in Evictable \ {{}} : Pop(t, V)
    /\ pc' = [pc EXCEPT ![t] = "evicting"]
    /\ UNCHANGED <<sid, attempt, entry, lock, conn>>

CloseVictim(t) ==
    /\ pc[t] = "evicting"
    /\ \E c \in debt[t] :
          LET cn == [conn EXCEPT ![c] = "closed"] IN
          /\ Close(t, c)
          /\ \/ /\ Last(t, c)
                /\ Lookup(t, cn)
             \/ /\ ~Last(t, c)
                /\ conn' = cn
                /\ UNCHANGED <<pc, entry, older, lock>>
    /\ UNCHANGED <<sid, attempt, cache>>

\* _connect returns for a session that is still not cached: the entry is
\* stored, its free lock taken and the turn run.
ConnectInstall(t) ==
    /\ pc[t] = "connecting" /\ sid[t] # None /\ StillAbsent(t)
    /\ conn' = [conn EXCEPT ![Own(t)] = "open"]
    /\ cache' = [cache EXCEPT ![sid[t]] = Own(t)]
    /\ older' = Touched(sid[t])
    /\ entry' = [entry EXCEPT ![t] = Own(t)]
    /\ lock' = [lock EXCEPT ![Own(t)] = <<t>>]
    /\ pc' = [pc EXCEPT ![t] = "running"]
    /\ UNCHANGED <<sid, attempt, debt>>

\* _connect returns, but another turn has stored an entry in the meantime.
ConnectLose(t) ==
    /\ pc[t] = "connecting" /\ HasEntry(t)
    /\ conn' = [conn EXCEPT ![Own(t)] = "open"]
    /\ debt' = [debt EXCEPT ![t] = {Own(t)}]
    /\ entry' = [entry EXCEPT ![t] = EntryOf(t)]
    /\ pc' = [pc EXCEPT ![t] = "losing"]
    /\ UNCHANGED <<sid, attempt, cache, older, lock>>

CloseLoser(t) ==
    /\ pc[t] = "losing"
    /\ Close(t, Own(t))
    /\ conn' = [conn EXCEPT ![Own(t)] = "closed"]
    /\ Enter(t, entry[t])
    /\ UNCHANGED <<sid, attempt, cache>>

\* _run_stateless: the private connection of a request without session id.
ConnectStateless(t) ==
    /\ pc[t] = "connecting" /\ sid[t] = None
    /\ conn' = [conn EXCEPT ![Own(t)] = "open"]
    /\ debt' = [debt EXCEPT ![t] = {Own(t)}]
    /\ pc' = [pc EXCEPT ![t] = "running"]
    /\ UNCHANGED <<sid, attempt, entry, cache, older, lock>>

ConnectFailAgain(t) ==                         \* mutant: attempts are not counted
    /\ pc[t] = "connecting"
    /\ conn' = [conn EXCEPT ![Own(t)] = "closed"]
    /\ pc' = [pc EXCEPT ![t] = "backoff"]
    /\ UNCHANGED <<sid, attempt, entry, cache, older, lock, debt>>
ConnectFail(t) ==
    /\ pc[t] = "connecting"
    /\ conn' = [conn EXCEPT ![Own(t)] = "closed"]
    /\ Fail(t)
    /\ UNCHANGED <<sid, lock>>

\* The lock was handed to t, the first waiter, which now runs.
Granted(t) ==
    /\ pc[t] = "waiting" /\ ~Free(entry[t]) /\ Head(lock[entry[t]]) = t
    /\ pc' = [pc EXCEPT ![t] = "running"]
    /\ UNCHANGED <<sid, attempt, entry, cache, older, lock, conn, debt>>

RunOk(t) ==
    /\ pc[t] = "running" /\ sid[t] # None
    /\ lock' = Unlocked(t)
    /\ entry' = [entry EXCEPT ![t] = None]
    /\ pc' = [pc EXCEPT ![t] = "live"]
    /\ UNCHANGED <<sid, attempt, cache, older, conn, debt>>

RunFail(t) ==
    /\ pc[t] = "running" /\ sid[t] # None
    /\ lock' = Unlocked(t)
    /\ Fail(t)
    /\ UNCHANGED <<sid, conn>>

\* A stateless run ends, well or badly: leave `async with MCPTools`.
StatelessEnd(t) ==
    /\ pc[t] = "running" /\ sid[t] = None
    /\ \E e \in {"leaving", "leavingErr"} : pc' = [pc EXCEPT ![t] = e]
    /\ UNCHANGED <<sid, attempt, entry, cache, older, lock, conn, debt>>

LeaveOpen(t) ==                                \* mutant: no `async with`
    /\ pc[t] \in {"leaving", "leavingErr"}
    /\ pc' = [pc EXCEPT ![t] = IF pc[t] = "leaving" THEN "live" ELSE "error"]
    /\ UNCHANGED <<sid, attempt, entry, cache, older, lock, conn, debt>>

\* The exit closes the connection; an error in it fails the attempt as well.
Leave(t) ==
    /\ pc[t] \in {"leaving", "leavingErr"}
    /\ Close(t, Own(t))
    /\ conn' = [conn EXCEPT ![Own(t)] = "closed"]
    /\ \/ /\ pc[t] = "leaving"
          /\ pc' = [pc EXCEPT ![t] = "live"]
          /\ UNCHANGED attempt
       \/ Retry(t)
    /\ UNCHANGED <<sid, entry, cache, older, lock>>

CloseDropped(t) ==
    /\ pc[t] = "dropping"
    /\ \E c \in debt[t] : Close(t, c) /\ conn' = [conn EXCEPT ![c] = "closed"]
    /\ Retry(t)
    /\ UNCHANGED <<sid, entry, cache, older, lock>>

\* reset_session; the answer says whether there was an entry.
Reset(r) ==
    /\ pc[r] = "new" /\ pc[Lifespan] = "up"
    /\ \/ /\ HasEntry(r)
          /\ Pop(r, {sid[r]})
          /\ pc' = [pc EXCEPT ![r] = "dropping"]
       \/ /\ ~HasEntry(r)
          /\ pc' = [pc EXCEPT ![r] = "none"]
          /\ UNCHANGED <<cache, older, debt>>
    /\ UNCHANGED <<sid, attempt, entry, lock, conn>>

CloseReset(r) ==
    /\ pc[r] = "dropping"
    /\ \E c \in debt[r] : Close(r, c) /\ conn' = [conn EXCEPT ![c] = "closed"]
    /\ pc' = [pc EXCEPT ![r] = "cleared"]
    /\ UNCHANGED <<sid, attempt, entry, cache, older, lock>>

\* The server has answered the requests in flight and runs shutdown().
Shutdown ==
    /\ pc[Lifespan] = "up"
    /\ \A r \in Requests : pc[r] \notin InFlight
    /\ Pop(Lifespan, Cached)
    /\ pc' = [pc EXCEPT ![Lifespan] = IF Cached = {} THEN "down" ELSE "stopping"]
    /\ UNCHANGED <<sid, attempt, entry, lock, conn>>

CloseAtShutdown ==
    /\ pc[Lifespan] = "stopping"
    /\ \E c \in debt[Lifespan] :
          /\ Close(Lifespan, c)
          /\ conn' = [conn EXCEPT ![c] = "closed"]
          /\ pc' = IF Last(Lifespan, c) THEN [pc EXCEPT ![Lifespan] = "down"]
                                           ELSE pc
    /\ UNCHANGED <<sid, attempt, entry, cache, older, lock>>

\* The process has ended.
Down == pc[Lifespan] = "down" /\ UNCHANGED vars
-----------------------------------------------------------------------------
Begin(t) == pc[t] = "new" /\ (Attempt(t) \/ AttemptEvicting(t))

\* What a turn in flight does when its await returns.
Continue(t) ==
    \/ pc[t] = "backoff" /\ (Attempt(t) \/ AttemptEvicting(t))
    \/ CloseVictim(t) \/ CloseLoser(t) \/ CloseDropped(t) \/ Leave(t)
    \/ ConnectInstall(t) \/ ConnectLose(t) \/ ConnectStateless(t) \/ ConnectFail(t)
    \/ Granted(t) \/ RunOk(t) \/ RunFail(t) \/ StatelessEnd(t)

Next ==
    \/ \E t \in Turns : Begin(t) \/ Continue(t)
    \/ \E r \in Resets : Reset(r) \/ CloseReset(r)
    \/ Shutdown \/ CloseAtShutdown \/ Down

\* Every await returns: connects, queries and closes have time limits
\* (_MCP_TIMEOUT_SECONDS and the LLM client's), sleeps end.  Clients need not
\* send anything and nothing stops the application, but a shutdown goes on.
Fairness ==
    /\ \A t \in Turns : WF_vars(Continue(t))
    /\ \A r \in Resets : WF_vars(CloseReset(r))
    /\ WF_vars(CloseAtShutdown)

Spec == Init /\ [][Next]_vars
FairSpec == Spec /\ Fairness
-----------------------------------------------------------------------------
TypeOK ==
    /\ sid \in [Requests -> Sessions \cup {None}]
    /\ pc \in [Parties -> TurnPC \cup ResetPC \cup LifespanPC]
    /\ \A t \in Turns : pc[t] \in TurnPC
    /\ \A r \in Resets : pc[r] \in ResetPC
    /\ pc[Lifespan] \in LifespanPC
    /\ attempt \in [Turns -> 1..MaxAttempts]
    /\ entry \in [Turns -> Conns \cup {None}]
    /\ cache \in [Sessions -> Conns \cup {None}]
    /\ older \in SUBSET (Sessions \X Sessions)
    /\ lock \in [Conns -> Seq(Turns)]
    /\ conn \in [Conns -> {"unused", "opening", "open", "closed"}]
    /\ debt \in [Parties -> SUBSET Conns]

\* An open MCP connection is the responsibility of exactly one place: the
\* cache under one session id, or one party that is about to close it.  With
\* none the connection leaks, with two it is closed under somebody's feet.
Owners(c) == {s \in Sessions : cache[s] = c} \cup {p \in Parties : c \in debt[p]}
OneOwner ==
    \A c \in Conns :
        IF conn[c] = "open" THEN \E o \in Owners(c) : Owners(c) = {o}
                            ELSE Owners(c) = {}

\* A turn only ever runs on, or queues for, a connection dialled by a turn of
\* its own session (the agent carries that session id), whatever was evicted,
\* reset or re-dialled in between.
SessionIsolation ==
    \A t \in Turns : entry[t] # None => sid[entry[t][1]] = sid[t]

\* entry.lock: two turns never run the same cached agent at the same time.
LockExcludes ==
    \A t, u \in Turns :
        /\ pc[t] = "running" /\ pc[u] = "running"
        /\ entry[t] = entry[u] /\ entry[t] # None
        => t = u

\* shutdown() leaves nothing behind: connections installed late by turns that
\* raced with evictions and resets are closed as well.
ShutdownClosesAll ==
    pc[Lifespan] = "down" => \A c \in Conns : conn[c] \in {"unused", "closed"}

\* Whoever owns an open connection, as the cache or a party.
OwnerOf(c) ==
    CASE conn[c] = "opening" -> c[1]
      [] conn[c] = "open" /\ (\E s \in Sessions : cache[s] = c) -> Sessions
      [] conn[c] = "open" /\ (\E p \in Parties : c \in debt[p]) ->
            CHOOSE p \in Parties : c \in debt[p]
      [] OTHER -> None

Ownership == INSTANCE ConnectionOwnership
    WITH life <- conn, owner <- [c \in Conns |-> OwnerOf(c)],
         Pool <- Sessions, Nobody <- None

\* Every step hands connections over as ConnectionOwnership allows: only the
\* owner closes, and what was evicted, reset or dropped is never cached again.
ImplementsOwnership == Ownership!Spec

\* A client that sent a message gets an answer, after at most MaxAttempts
\* attempts, although turns queue on locks and evict each other's entries.
EveryTurnAnswered ==
    \A t \in Turns : pc[t] \in InFlight ~> pc[t] \in {"live", "error"}

\* A connection that is open and no longer cached is closed in the end.
EvictedIsClosed ==
    \A c \in Conns :
        conn[c] = "open" /\ (\A s \in Sessions : cache[s] # c) ~> conn[c] = "closed"
=============================================================================
