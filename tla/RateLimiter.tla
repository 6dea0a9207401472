---------------------------- MODULE RateLimiter ----------------------------
(***************************************************************************)
(* lib/security/RateLimiter.hpp: a sliding window per client, shared by    *)
(* the worker threads under one mutex.                                     *)
(*                                                                         *)
(* allowQuery is split where the clock can move: it takes the mutex and    *)
(* reads the clock, pops the front of the deque once per step, then        *)
(* refuses or grants.  A client without a record and one with an empty     *)
(* deque are the same.  totalQueries is Len(granted[c]); lastInteracted    *)
(* is never read.                                                          *)
(***************************************************************************)
EXTENDS Integers, Sequences

CONSTANTS
  Clients, Threads,
  maxQueriesPerWindow,
  windowSeconds,      \* the window, in clock ticks
  CountMod,           \* 2^64, the range of rateLimitedQueries
  None,               \* no thread, no request
  MaxTime             \* bound on the clock

ASSUME LimiterAssumption ==
  /\ maxQueriesPerWindow \in Nat \ {0} /\ windowSeconds \in Nat
  /\ CountMod \in Nat /\ CountMod > 1
  /\ MaxTime \in Nat
  /\ None \notin Threads /\ None \notin [client : Clients, now : Nat]

VARIABLES
  now,                  \* steady_clock
  mtx,                  \* the thread that holds the mutex
  request,              \* per thread, the client and the local now of allowQuery
  queryTime,            \* per client, the deque
  rateLimitedQueries,   \* per client
  granted               \* history: per client, the times of all its grants

vars == <<now, mtx, request, queryTime, rateLimitedQueries, granted>>

Request == [client : Clients, now : Nat]

Init ==
  /\ now = 0
  /\ mtx = None /\ request = [t \in Threads |-> None]
  /\ queryTime = [c \in Clients |-> <<>>]
  /\ rateLimitedQueries = [c \in Clients |-> 0]
  /\ granted = [c \in Clients |-> <<>>]

Tick ==
  /\ now < MaxTime
  /\ now' = now + 1
  /\ UNCHANGED <<mtx, request, queryTime, rateLimitedQueries, granted>>

\* Mutant: the mutex is not taken.
AllowQueryUnlocked(t, c) ==
  /\ request[t] = None
  /\ mtx' = t
  /\ request' = [request EXCEPT ![t] = [client |-> c, now |-> now]]
  /\ UNCHANGED <<now, queryTime, rateLimitedQueries, granted>>

\* Mutant: the start of the window is kept where the time of the query belongs.
AllowQueryAtStart(t, c) ==
  /\ mtx = None
  /\ request[t] = None
  /\ mtx' = t
  /\ request' = [request EXCEPT ![t] = [client |-> c, now |-> now - windowSeconds]]
  /\ UNCHANGED <<now, queryTime, rateLimitedQueries, granted>>

\* A worker takes the mutex and, inside, reads the clock.
allowQuery(t, c) ==
  /\ mtx = None
  /\ request[t] = None
  /\ mtx' = t
  /\ request' = [request EXCEPT ![t] = [client |-> c, now |-> now]]
  /\ UNCHANGED <<now, queryTime, rateLimitedQueries, granted>>

\* Mutant: a query exactly one window old no longer counts.
OutsideClosed(t) ==
  LET r == request[t]
  IN  /\ queryTime[r.client] # <<>>
      /\ Head(queryTime[r.client]) <= r.now - windowSeconds

\* The loop condition of cleanupOldEntries.
Outside(t) ==
  LET r == request[t]
  IN  /\ queryTime[r.client] # <<>>
      /\ Head(queryTime[r.client]) < r.now - windowSeconds

\* Mutant: the loop starts over without removing anything.
CleanupSpins(t) ==
  /\ request[t] # None
  /\ Outside(t)
  /\ UNCHANGED vars

\* One iteration of cleanupOldEntries.
cleanupOldEntries(t) ==
  /\ request[t] # None
  /\ Outside(t)
  /\ queryTime' = [queryTime EXCEPT ![request[t].client] = Tail(@)]
  /\ UNCHANGED <<now, mtx, request, rateLimitedQueries, granted>>

Return(t) == mtx' = None /\ request' = [request EXCEPT ![t] = None]

\* The deque is pruned and full: return false.
limit(t) ==
  LET c == request[t].client
  IN  /\ request[t] # None
      /\ ~Outside(t)
      /\ Len(queryTime[c]) >= maxQueriesPerWindow
      /\ rateLimitedQueries' = [rateLimitedQueries EXCEPT ![c] = (@ + 1) % CountMod]
      /\ Return(t)
      /\ UNCHANGED <<now, queryTime, granted>>

\* There is room: return true.
allow(t) ==
  LET c == request[t].client
  IN  /\ request[t] # None
      /\ ~Outside(t)
      /\ Len(queryTime[c]) < maxQueriesPerWindow
      /\ queryTime' = [queryTime EXCEPT ![c] = Append(@, request[t].now)]
      /\ granted' = [granted EXCEPT ![c] = Append(@, request[t].now)]
      /\ Return(t)
      /\ UNCHANGED <<now, rateLimitedQueries>>

Decide(t) == cleanupOldEntries(t) \/ limit(t) \/ allow(t)

Next ==
  \/ Tick
  \/ \E t \in Threads :
       \/ \E c \in Clients : allowQuery(t, c)
       \/ cleanupOldEntries(t)
       \/ limit(t)
       \/ allow(t)

Spec == Init /\ [][Next]_vars

\* A thread inside allowQuery never blocks: it keeps running.
FairSpec == Spec /\ \A t \in Threads : WF_vars(Decide(t))

-----------------------------------------------------------------------------
\* The state has its C++ types (RateLimiter.hpp:21-28): the times in a deque
\* are readings of the clock, the counter of refusals stays in its range.
TypeOK ==
  /\ now \in Nat
  /\ mtx \in Threads \cup {None}
  /\ request \in [Threads -> Request \cup {None}]
  /\ queryTime \in [Clients -> Seq(Nat)]
  /\ rateLimitedQueries \in [Clients -> 0..(CountMod - 1)]
  /\ granted \in [Clients -> Seq(Nat)]

\* Any maxQueriesPerWindow + 1 grants of a client span more than one window:
\* no window, wherever it starts, holds more grants than allowed.
WindowLimit ==
  \A c \in Clients : \A i \in 1..Len(granted[c]) :
    i + maxQueriesPerWindow <= Len(granted[c])
      => granted[c][i + maxQueriesPerWindow] - granted[c][i] > windowSeconds

\* The deque is the end of the history: a grant is forgotten only once it has
\* left the window, so the deque holds everything that still counts.
DequeIsRecentHistory ==
  \A c \in Clients :
    LET q == queryTime[c]
        g == granted[c]
    IN  /\ Len(q) <= Len(g)
        /\ \A j \in 1..Len(q) : q[j] = g[Len(g) - Len(q) + j]
        /\ \A i \in 1..(Len(g) - Len(q)) : g[i] < now - windowSeconds

\* The limiter refines its contract: popping what has left the window and looking
\* at the length of what remains is counting the grants in the window, although
\* the clock moves between the steps.
Asking == {request[t] : t \in Threads} \ {None}
Decided == INSTANCE SlidingWindow WITH
             Limit <- maxQueriesPerWindow, Window <- windowSeconds,
             refused <- rateLimitedQueries, asking <- Asking
ImplementsWindow == Decided!Spec

\* Every allowQuery returns.
AllowQueryReturns == \A t \in Threads : request[t] # None ~> request[t] = None

=============================================================================
