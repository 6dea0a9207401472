------------------------- MODULE RateLimiterProofs -------------------------
(***************************************************************************)
(* The sliding window of RateLimiter for any number of clients, threads,   *)
(* any limit and any window.                                               *)
(***************************************************************************)
EXTENDS RateLimiter, TLAPS, SequenceTheorems, FiniteSetTheorems

\* The mutex: a thread inside allowQuery holds it.
Exclusive == \A t \in Threads : request[t] # None => mtx = t

\* The grants of a client are in order and none lies in the future.
Chronological ==
  \A c \in Clients :
    /\ \A i, j \in 1..Len(granted[c]) : i <= j => granted[c][i] <= granted[c][j]
    /\ \A i \in 1..Len(granted[c]) : granted[c][i] <= now

\* What the thread inside allowQuery may rely on although the clock has
\* moved since it read it: no grant is later than its reading, and whatever
\* was forgotten lies before its window.
RequestCurrent ==
  \A t \in Threads :
    request[t] # None =>
      /\ request[t].now <= now
      /\ \A c \in Clients :
           /\ \A i \in 1..Len(granted[c]) : granted[c][i] <= request[t].now
           /\ \A i \in 1..(Len(granted[c]) - Len(queryTime[c])) :
                granted[c][i] < request[t].now - windowSeconds

IInv == TypeOK /\ Exclusive /\ Chronological /\ RequestCurrent
          /\ DequeIsRecentHistory /\ WindowLimit

LEMMA InitIInv == Init => IInv
<1> SUFFICES ASSUME Init PROVE IInv
  OBVIOUS
<1>1. \A c \in Clients : Len(granted[c]) = 0 /\ Len(queryTime[c]) = 0
  BY DEF Init
<1>2. TypeOK
  BY LimiterAssumption DEF Init, TypeOK
<1>3. Exclusive /\ RequestCurrent
  BY DEF Init, Exclusive, RequestCurrent
<1>4. Chronological
  <2> SUFFICES ASSUME NEW c \in Clients PROVE 1..Len(granted[c]) = {}
    BY DEF Chronological
  <2> QED BY <1>1
<1>5. DequeIsRecentHistory
  <2> SUFFICES ASSUME NEW c \in Clients
               PROVE  /\ Len(queryTime[c]) <= Len(granted[c])
                      /\ 1..Len(queryTime[c]) = {}
                      /\ 1..(Len(granted[c]) - Len(queryTime[c])) = {}
    BY DEF DequeIsRecentHistory
  <2>1. Len(granted[c]) = 0 /\ Len(queryTime[c]) = 0
    BY <1>1
  <2>2. Len(granted[c]) - Len(queryTime[c]) = 0
    BY <2>1
  <2>3. 1..0 = {}
    OBVIOUS
  <2> QED BY <2>1, <2>2, <2>3
<1>6. WindowLimit
  BY <1>1 DEF WindowLimit
<1> QED BY <1>2, <1>3, <1>4, <1>5, <1>6 DEF IInv

\* A request is a record, None is not.
LEMMA RequestType ==
  ASSUME TypeOK, NEW t \in Threads, request[t] # None
  PROVE  request[t].client \in Clients /\ request[t].now \in Nat
BY DEF TypeOK, Request

LEMMA TickStep == IInv /\ Tick => IInv'
<1> SUFFICES ASSUME IInv, Tick PROVE IInv'
  OBVIOUS
<1>1. /\ now \in Nat /\ now' = now + 1 /\ windowSeconds \in Nat
      /\ UNCHANGED <<mtx, request, queryTime, rateLimitedQueries, granted>>
      /\ \A c \in Clients : granted[c] \in Seq(Nat) /\ queryTime[c] \in Seq(Nat)
  BY LimiterAssumption DEF IInv, TypeOK, Tick
<1>2. \A c \in Clients : /\ Len(granted[c]) \in Nat /\ Len(queryTime[c]) \in Nat
                         /\ \A i \in 1..Len(granted[c]) : granted[c][i] \in Nat
  BY <1>1, LenProperties, ElementOfSeq
<1>3. TypeOK'
  BY <1>1 DEF IInv, TypeOK
<1>4. Exclusive' /\ WindowLimit'
  BY <1>1 DEF IInv, Exclusive, WindowLimit
<1>5. Chronological'
  BY <1>1, <1>2 DEF IInv, Chronological
<1>6. RequestCurrent'
  <2> SUFFICES ASSUME NEW t \in Threads, request[t] # None
               PROVE  request[t].now <= now'
    BY <1>1 DEF IInv, RequestCurrent
  <2> QED BY <1>1, RequestType DEF IInv, RequestCurrent
<1>7. DequeIsRecentHistory'
  <2> SUFFICES ASSUME NEW c \in Clients,
                      NEW i \in 1..(Len(granted[c]) - Len(queryTime[c]))
               PROVE  granted[c][i] < now' - windowSeconds
    BY <1>1 DEF IInv, DequeIsRecentHistory
  <2>1. granted[c][i] < now - windowSeconds
    BY DEF IInv, DequeIsRecentHistory
  <2>2. granted[c][i] \in Nat
    BY <1>2
  <2> QED BY <1>1, <2>1, <2>2
<1> QED BY <1>3, <1>4, <1>5, <1>6, <1>7 DEF IInv

LEMMA EnterStep ==
  ASSUME IInv, NEW t \in Threads, NEW c \in Clients, allowQuery(t, c)
  PROVE  IInv'
<1>1. /\ mtx = None /\ mtx' = t
      /\ request' = [request EXCEPT ![t] = [client |-> c, now |-> now]]
      /\ UNCHANGED <<now, queryTime, rateLimitedQueries, granted>>
      /\ now \in Nat /\ request \in [Threads -> Request \cup {None}]
  BY DEF allowQuery, IInv, TypeOK
<1>2. \A u \in Threads : request[u] = None
  BY <1>1, LimiterAssumption DEF IInv, Exclusive
<1>3. /\ request' \in [Threads -> Request \cup {None}]
      /\ request'[t] = [client |-> c, now |-> now]
      /\ \A u \in Threads \ {t} : request'[u] = None
  BY <1>1, <1>2 DEF Request
<1>4. TypeOK'
  BY <1>1, <1>3 DEF IInv, TypeOK
<1>5. Exclusive'
  BY <1>1, <1>3 DEF Exclusive
<1>6. RequestCurrent'
  <2> SUFFICES ASSUME NEW u \in Threads, request'[u] # None
               PROVE  /\ request'[u].now <= now
                      /\ \A d \in Clients :
                           /\ \A i \in 1..Len(granted[d]) : granted[d][i] <= request'[u].now
                           /\ \A i \in 1..(Len(granted[d]) - Len(queryTime[d])) :
                                granted[d][i] < request'[u].now - windowSeconds
    BY <1>1 DEF RequestCurrent
  <2>1. request'[u].now = now
    BY <1>3
  <2>2. ASSUME NEW d \in Clients
        PROVE  /\ \A i \in 1..Len(granted[d]) : granted[d][i] <= now
               /\ \A i \in 1..(Len(granted[d]) - Len(queryTime[d])) :
                    granted[d][i] < now - windowSeconds
    BY DEF IInv, Chronological, DequeIsRecentHistory
  <2> QED BY <1>1, <2>1, <2>2
<1>7. Chronological' /\ DequeIsRecentHistory' /\ WindowLimit'
  BY <1>1 DEF IInv, Chronological, DequeIsRecentHistory, WindowLimit
<1> QED BY <1>4, <1>5, <1>6, <1>7 DEF IInv


\* An iteration of cleanupOldEntries moves one grant from the deque to the
\* forgotten past.
LEMMA CleanupStep ==
  ASSUME IInv, NEW t \in Threads, cleanupOldEntries(t)
  PROVE  IInv'
<1> DEFINE c == request[t].client
           q == queryTime[c]
           g == granted[c]
<1>1. request[t] # None /\ c \in Clients /\ request[t].now \in Nat
  BY RequestType DEF cleanupOldEntries, IInv
<1>2. /\ q # <<>> /\ Head(q) < request[t].now - windowSeconds
      /\ queryTime' = [queryTime EXCEPT ![c] = Tail(q)]
      /\ UNCHANGED <<now, mtx, request, rateLimitedQueries, granted>>
  BY DEF cleanupOldEntries, Outside
<1>3. /\ queryTime \in [Clients -> Seq(Nat)] /\ q \in Seq(Nat) /\ g \in Seq(Nat)
      /\ now \in Nat /\ windowSeconds \in Nat /\ request[t].now <= now
  BY <1>1, LimiterAssumption DEF IInv, TypeOK, RequestCurrent
<1>4. /\ Tail(q) \in Seq(Nat) /\ Len(Tail(q)) = Len(q) - 1
      /\ \A j \in 1..Len(Tail(q)) : Tail(q)[j] = q[j + 1]
  BY <1>2, <1>3, HeadTailProperties
<1>5. Len(q) \in Nat /\ Len(q) >= 1 /\ Len(g) \in Nat /\ q[1] = Head(q)
  <2>1. Len(q) \in Nat \ {0} /\ Len(g) \in Nat
    BY <1>2, <1>3, EmptySeq, LenProperties
  <2> QED BY <2>1
<1>6. /\ Len(q) <= Len(g)
      /\ \A j \in 1..Len(q) : q[j] = g[Len(g) - Len(q) + j]
      /\ \A i \in 1..(Len(g) - Len(q)) : g[i] < now - windowSeconds
      /\ \A i \in 1..(Len(g) - Len(q)) : g[i] < request[t].now - windowSeconds
  BY <1>1 DEF IInv, DequeIsRecentHistory, RequestCurrent
<1>7. /\ queryTime' \in [Clients -> Seq(Nat)] /\ queryTime'[c] = Tail(q)
      /\ \A d \in Clients \ {c} : queryTime'[d] = queryTime[d]
  BY <1>1, <1>2, <1>3, <1>4
<1> DEFINE n == Len(q)
           m == Len(g)
<1> HIDE DEF c, q, g
<1>size. n \in Nat /\ n >= 1 /\ m \in Nat /\ n <= m /\ Len(Tail(q)) = n - 1
  BY <1>4, <1>5, <1>6
<1>8. g[Len(g) - Len(q) + 1] < request[t].now - windowSeconds
  <2>1. 1 \in 1..Len(q)
    BY <1>5
  <2> QED BY <1>2, <1>5, <1>6, <2>1
<1>9. \A i \in 1..(Len(g) - Len(Tail(q))) : g[i] < request[t].now - windowSeconds
  <2> SUFFICES ASSUME NEW i \in 1..(Len(g) - Len(Tail(q)))
               PROVE  g[i] < request[t].now - windowSeconds
    OBVIOUS
  <2>1. CASE i = Len(g) - Len(q) + 1
    BY <1>8, <2>1
  <2>2. CASE i # Len(g) - Len(q) + 1
    <3> HIDE DEF n, m
    <3>1. i \in 1..(m - (n - 1)) /\ i # m - n + 1
      BY <1>size, <2>2 DEF n, m
    <3>2. i \in 1..(m - n)
      BY <1>size, <3>1
    <3> QED BY <1>6, <3>2 DEF n, m
  <2> QED BY <2>1, <2>2
<1>10. DequeIsRecentHistory'
  <2>1. /\ Len(Tail(q)) <= Len(g)
        /\ \A j \in 1..Len(Tail(q)) : Tail(q)[j] = g[Len(g) - Len(Tail(q)) + j]
    <3>1. Len(Tail(q)) <= Len(g)
      BY <1>4, <1>5, <1>6
    <3>2. ASSUME NEW j \in 1..Len(Tail(q))
          PROVE  Tail(q)[j] = g[Len(g) - Len(Tail(q)) + j]
      <4>1. /\ j + 1 \in 1..Len(q)
            /\ Len(g) - Len(q) + (j + 1) = Len(g) - Len(Tail(q)) + j
        BY <1>4, <1>5
      <4> QED BY <1>4, <1>6, <4>1
    <3> QED BY <3>1, <3>2
  <2>2. \A i \in 1..(Len(g) - Len(Tail(q))) : g[i] < now - windowSeconds
    <3> SUFFICES ASSUME NEW i \in 1..(Len(g) - Len(Tail(q)))
                 PROVE  g[i] < now - windowSeconds
      OBVIOUS
    <3>1. g[i] \in Nat
      <4> HIDE DEF n, m
      <4>1. i \in 1..(m - (n - 1))
        BY <1>size DEF m
      <4>2. i \in 1..m
        BY <1>size, <4>1
      <4> QED BY <1>3, <4>2, ElementOfSeq DEF m
    <3>2. g[i] < request[t].now - windowSeconds
      BY <1>9
    <3>3. /\ request[t].now \in Nat /\ now \in Nat /\ windowSeconds \in Nat
          /\ request[t].now <= now
      BY <1>1, <1>3
    <3> QED BY <3>1, <3>2, <3>3
  <2> QED BY <1>1, <1>2, <1>7, <2>1, <2>2 DEF IInv, DequeIsRecentHistory, g
<1>11. RequestCurrent'
  <2> SUFFICES ASSUME NEW u \in Threads, request[u] # None, NEW d \in Clients,
                      NEW i \in 1..(Len(granted[d]) - Len(queryTime'[d]))
               PROVE  granted[d][i] < request[u].now - windowSeconds
    BY <1>2 DEF IInv, RequestCurrent
  <2>1. u = t
    BY <1>1 DEF IInv, Exclusive
  <2>2. CASE d = c
    BY <1>7, <1>9, <2>1, <2>2 DEF g
  <2>3. CASE d # c
    BY <1>7, <2>3 DEF IInv, RequestCurrent
  <2> QED BY <2>2, <2>3
<1>12. TypeOK' /\ Exclusive' /\ Chronological' /\ WindowLimit'
  BY <1>2, <1>7 DEF IInv, TypeOK, Exclusive, Chronological, WindowLimit
<1> QED BY <1>10, <1>11, <1>12 DEF IInv

\* A refusal changes a counter.
LEMMA LimitStep ==
  ASSUME IInv, NEW t \in Threads, limit(t)
  PROVE  IInv'
<1> DEFINE c == request[t].client
<1>1. request[t] # None /\ c \in Clients
  BY RequestType DEF limit, IInv
<1>2. /\ rateLimitedQueries' = [rateLimitedQueries EXCEPT ![c] = (@ + 1) % CountMod]
      /\ mtx' = None /\ request' = [request EXCEPT ![t] = None]
      /\ UNCHANGED <<now, queryTime, granted>>
  BY DEF limit, Return
<1>3. rateLimitedQueries' \in [Clients -> 0..(CountMod - 1)]
  <2>1. rateLimitedQueries[c] + 1 \in Int /\ CountMod \in Nat /\ CountMod > 0
    BY <1>1, LimiterAssumption DEF IInv, TypeOK
  <2>2. (rateLimitedQueries[c] + 1) % CountMod \in 0..(CountMod - 1)
    BY <2>1
  <2> QED BY <1>1, <1>2, <2>2 DEF IInv, TypeOK
<1>4. \A u \in Threads : request'[u] = None
  BY <1>1, <1>2 DEF IInv, TypeOK, Exclusive
<1>5. TypeOK'
  BY <1>2, <1>3 DEF IInv, TypeOK
<1>6. Exclusive' /\ RequestCurrent'
  BY <1>4 DEF Exclusive, RequestCurrent
<1>7. Chronological' /\ DequeIsRecentHistory' /\ WindowLimit'
  BY <1>2 DEF IInv, Chronological, DequeIsRecentHistory, WindowLimit
<1> QED BY <1>5, <1>6, <1>7 DEF IInv

\* A grant: the deque was pruned and not full, so the grant
\* maxQueriesPerWindow places before the new one has been forgotten.
LEMMA AllowStep ==
  ASSUME IInv, NEW t \in Threads, allow(t)
  PROVE  IInv'
<1> DEFINE c  == request[t].client
           at == request[t].now
           q  == queryTime[c]
           g  == granted[c]
           n  == Len(q)
           m  == Len(g)
           q2 == Append(q, at)
           g2 == Append(g, at)
<1>1. request[t] # None /\ c \in Clients /\ at \in Nat
  BY RequestType DEF allow, IInv
<1>2. /\ n < maxQueriesPerWindow
      /\ queryTime' = [queryTime EXCEPT ![c] = q2]
      /\ granted' = [granted EXCEPT ![c] = g2]
      /\ mtx' = None /\ request' = [request EXCEPT ![t] = None]
      /\ UNCHANGED <<now, rateLimitedQueries>>
  BY DEF allow, Return
<1>3. /\ q \in Seq(Nat) /\ g \in Seq(Nat)
      /\ queryTime \in [Clients -> Seq(Nat)] /\ granted \in [Clients -> Seq(Nat)]
      /\ now \in Nat /\ windowSeconds \in Nat /\ maxQueriesPerWindow \in Nat
      /\ maxQueriesPerWindow >= 1 /\ at <= now
  <2>1. maxQueriesPerWindow \in Nat /\ maxQueriesPerWindow >= 1 /\ windowSeconds \in Nat
    BY LimiterAssumption
  <2> QED BY <1>1, <2>1 DEF IInv, TypeOK, RequestCurrent
<1>4. /\ q2 \in Seq(Nat) /\ Len(q2) = n + 1
      /\ \A i \in 1..n : q2[i] = q[i]
      /\ q2[n + 1] = at
  BY <1>1, <1>3, AppendProperties
<1>5. /\ g2 \in Seq(Nat) /\ Len(g2) = m + 1
      /\ \A i \in 1..m : g2[i] = g[i]
      /\ g2[m + 1] = at
  BY <1>1, <1>3, AppendProperties
<1>6. /\ n \in Nat /\ m \in Nat
      /\ \A i \in 1..m : g[i] \in Nat
  BY <1>3, LenProperties, ElementOfSeq
<1>7. /\ n <= m
      /\ \A j \in 1..n : q[j] = g[m - n + j]
      /\ \A i \in 1..(m - n) : g[i] < now - windowSeconds
      /\ \A i \in 1..(m - n) : g[i] < at - windowSeconds
      /\ \A i \in 1..m : g[i] <= at
  BY <1>1 DEF IInv, DequeIsRecentHistory, RequestCurrent
<1>8. /\ \A i, j \in 1..m : i <= j => g[i] <= g[j]
      /\ \A i \in 1..m : i + maxQueriesPerWindow <= m
           => g[i + maxQueriesPerWindow] - g[i] > windowSeconds
  BY <1>1 DEF IInv, Chronological, WindowLimit
<1>9. /\ queryTime' \in [Clients -> Seq(Nat)] /\ queryTime'[c] = q2
      /\ granted' \in [Clients -> Seq(Nat)] /\ granted'[c] = g2
      /\ \A d \in Clients \ {c} : queryTime'[d] = queryTime[d] /\ granted'[d] = granted[d]
  BY <1>1, <1>2, <1>3, <1>4, <1>5
<1>10. \A u \in Threads : request'[u] = None
  BY <1>1, <1>2 DEF IInv, TypeOK, Exclusive
<1>11. TypeOK'
  BY <1>2, <1>9 DEF IInv, TypeOK
<1>12. Exclusive' /\ RequestCurrent'
  BY <1>10 DEF Exclusive, RequestCurrent
<1> HIDE DEF c, at, q, g, n, m, q2, g2
<1>13. Chronological'
  <2>1. ASSUME NEW i \in 1..(m + 1) PROVE g2[i] <= at /\ g2[i] \in Nat
    <3>1. CASE i = m + 1
      BY <1>1, <1>5, <3>1
    <3>2. CASE i # m + 1
      <4>1. i \in 1..m
        BY <1>6, <3>2
      <4> QED BY <1>5, <1>6, <1>7, <4>1
    <3> QED BY <3>1, <3>2
  <2>2. ASSUME NEW i \in 1..(m + 1), NEW j \in 1..(m + 1), i <= j
        PROVE  g2[i] <= g2[j]
    <3>1. CASE j = m + 1
      BY <1>5, <2>1, <3>1
    <3>2. CASE j # m + 1
      <4>1. i \in 1..m /\ j \in 1..m
        BY <1>6, <2>2, <3>2
      <4> QED BY <1>5, <1>8, <2>2, <4>1
    <3> QED BY <3>1, <3>2
  <2>3. \A i \in 1..(m + 1) : g2[i] <= now
    BY <1>1, <1>3, <2>1
  <2>4. Len(granted'[c]) = m + 1
    BY <1>5, <1>9
  <2> QED BY <1>2, <1>9, <2>2, <2>3, <2>4 DEF IInv, Chronological
<1>14. DequeIsRecentHistory'
  <2>1. \A j \in 1..(n + 1) : q2[j] = g2[(m + 1) - (n + 1) + j]
    <3> SUFFICES ASSUME NEW j \in 1..(n + 1)
                 PROVE  q2[j] = g2[(m + 1) - (n + 1) + j]
      OBVIOUS
    <3>1. CASE j = n + 1
      <4>1. (m + 1) - (n + 1) + j = m + 1
        BY <1>6, <3>1
      <4> QED BY <1>4, <1>5, <3>1, <4>1
    <3>2. CASE j # n + 1
      <4>1. j \in 1..n /\ (m + 1) - (n + 1) + j = m - n + j /\ m - n + j \in 1..m
        BY <1>6, <1>7, <3>2
      <4> QED BY <1>4, <1>5, <1>7, <4>1
    <3> QED BY <3>1, <3>2
  <2>2. \A i \in 1..((m + 1) - (n + 1)) : g2[i] < now - windowSeconds
    <3> SUFFICES ASSUME NEW i \in 1..((m + 1) - (n + 1))
                 PROVE  g2[i] < now - windowSeconds
      OBVIOUS
    <3>1. i \in 1..(m - n) /\ i \in 1..m
      BY <1>6
    <3> QED BY <1>5, <1>7, <3>1
  <2>3. Len(granted'[c]) = m + 1 /\ Len(queryTime'[c]) = n + 1 /\ n + 1 <= m + 1
    BY <1>4, <1>5, <1>6, <1>7, <1>9
  <2> SUFFICES ASSUME NEW d \in Clients
               PROVE  /\ Len(queryTime'[d]) <= Len(granted'[d])
                      /\ \A j \in 1..Len(queryTime'[d]) :
                           queryTime'[d][j]
                             = granted'[d][Len(granted'[d]) - Len(queryTime'[d]) + j]
                      /\ \A i \in 1..(Len(granted'[d]) - Len(queryTime'[d])) :
                           granted'[d][i] < now' - windowSeconds
    BY DEF DequeIsRecentHistory
  <2>4. CASE d = c
    BY <1>2, <1>9, <2>1, <2>2, <2>3, <2>4
  <2>5. CASE d # c
    <3>1. queryTime'[d] = queryTime[d] /\ granted'[d] = granted[d] /\ now' = now
      BY <1>2, <1>9, <2>5
    <3> QED BY <3>1 DEF IInv, DequeIsRecentHistory
  <2> QED BY <2>4, <2>5
<1>15. WindowLimit'
  <2>1. ASSUME NEW i \in 1..(m + 1), i + maxQueriesPerWindow <= m + 1
        PROVE  g2[i + maxQueriesPerWindow] - g2[i] > windowSeconds
    <3>1. CASE i + maxQueriesPerWindow = m + 1
      <4>1. i \in 1..(m - n) /\ i \in 1..m
        BY <1>2, <1>3, <1>6, <3>1
      <4>2. g2[i] < at - windowSeconds /\ g2[i] \in Nat
        BY <1>5, <1>6, <1>7, <4>1
      <4>3. g2[i + maxQueriesPerWindow] = at
        BY <1>5, <3>1
      <4> QED BY <1>1, <1>3, <4>2, <4>3
    <3>2. CASE i + maxQueriesPerWindow # m + 1
      <4>1. i + maxQueriesPerWindow <= m /\ i \in 1..m /\ i + maxQueriesPerWindow \in 1..m
        BY <1>3, <1>6, <2>1, <3>2
      <4> QED BY <1>5, <1>8, <4>1
    <3> QED BY <3>1, <3>2
  <2>2. Len(granted'[c]) = m + 1
    BY <1>5, <1>9
  <2> QED BY <1>9, <2>1, <2>2 DEF IInv, WindowLimit
<1> QED BY <1>11, <1>12, <1>13, <1>14, <1>15 DEF IInv

LEMMA StepIInv == IInv /\ [Next]_vars => IInv'
<1> SUFFICES ASSUME IInv, [Next]_vars PROVE IInv'
  OBVIOUS
<1>1. CASE UNCHANGED vars
  BY <1>1 DEF vars, IInv, TypeOK, Exclusive, Chronological, RequestCurrent,
              DequeIsRecentHistory, WindowLimit
<1> QED
  BY <1>1, TickStep, EnterStep, CleanupStep, LimitStep, AllowStep DEF Next

\* The variables of the limiter keep their types.
THEOREM TypeCorrect == Spec => []TypeOK
<1>1. IInv => TypeOK
  BY DEF IInv
<1> QED BY InitIInv, StepIInv, <1>1, PTL DEF Spec

\* No window of windowSeconds, wherever it starts, holds more than
\* maxQueriesPerWindow grants of one client.
THEOREM WindowNeverExceeded == Spec => []WindowLimit
<1>1. IInv => WindowLimit
  BY DEF IInv
<1> QED BY InitIInv, StepIInv, <1>1, PTL DEF Spec

\* The pruned deque still holds every grant that counts.
THEOREM DequeSufficient == Spec => []DequeIsRecentHistory
<1>1. IInv => DequeIsRecentHistory
  BY DEF IInv
<1> QED BY InitIInv, StepIInv, <1>1, PTL DEF Spec

-----------------------------------------------------------------------------
(***************************************************************************)
(* The refinement.  The deque is never longer than the limit, so refusing  *)
(* at "at least" the limit is refusing at the limit.  Once the loop is     *)
(* over, the deque holds one grant for each one in the window: whatever    *)
(* was popped lies before it (RequestCurrent), and as the times are in     *)
(* order, nothing behind the front does.                                   *)
(***************************************************************************)
WithinLimit == \A c \in Clients : Len(queryTime[c]) <= maxQueriesPerWindow

LEMMA StartWithin == Init => WithinLimit
<1> SUFFICES ASSUME Init, NEW c \in Clients
             PROVE  Len(queryTime[c]) <= maxQueriesPerWindow
  BY DEF WithinLimit
<1>1. Len(queryTime[c]) = 0
  BY DEF Init
<1>2. maxQueriesPerWindow \in Nat
  BY LimiterAssumption
<1> QED BY <1>1, <1>2

LEMMA StayWithin == IInv /\ WithinLimit /\ [Next]_vars => WithinLimit'
<1> SUFFICES ASSUME IInv, WithinLimit, [Next]_vars, NEW c \in Clients
             PROVE  Len(queryTime'[c]) <= maxQueriesPerWindow
  BY DEF WithinLimit
<1>1. /\ queryTime \in [Clients -> Seq(Nat)] /\ queryTime[c] \in Seq(Nat)
      /\ maxQueriesPerWindow \in Nat /\ Len(queryTime[c]) <= maxQueriesPerWindow
  BY LimiterAssumption DEF IInv, TypeOK, WithinLimit
<1>2. ASSUME NEW t \in Threads, cleanupOldEntries(t)
      PROVE  Len(queryTime'[c]) <= maxQueriesPerWindow
  <2>1. CASE request[t].client = c
    <3>1. queryTime[c] # <<>> /\ queryTime'[c] = Tail(queryTime[c])
      BY <1>1, <1>2, <2>1 DEF cleanupOldEntries, Outside
    <3>2. Len(queryTime'[c]) = Len(queryTime[c]) - 1 /\ Len(queryTime[c]) \in Nat
      BY <1>1, <3>1, HeadTailProperties, LenProperties
    <3> QED BY <1>1, <3>2
  <2>2. CASE request[t].client # c
    BY <1>1, <1>2, <2>2 DEF cleanupOldEntries
  <2> QED BY <2>1, <2>2
<1>3. ASSUME NEW t \in Threads, allow(t)
      PROVE  Len(queryTime'[c]) <= maxQueriesPerWindow
  <2>1. request[t].now \in Nat
    BY <1>3, RequestType DEF allow, IInv
  <2>2. CASE request[t].client = c
    <3>1. /\ Len(queryTime[c]) < maxQueriesPerWindow
          /\ queryTime'[c] = Append(queryTime[c], request[t].now)
      BY <1>1, <1>3, <2>2 DEF allow
    <3>2. Len(queryTime'[c]) = Len(queryTime[c]) + 1 /\ Len(queryTime[c]) \in Nat
      BY <1>1, <2>1, <3>1, AppendProperties, LenProperties
    <3> QED BY <1>1, <3>1, <3>2
  <2>3. CASE request[t].client # c
    BY <1>1, <1>3, <2>3 DEF allow
  <2> QED BY <2>2, <2>3
<1>4. CASE UNCHANGED queryTime
  BY <1>1, <1>4
<1> QED BY <1>2, <1>3, <1>4 DEF Next, vars, Tick, allowQuery, limit

\* The thread inside allowQuery is the one query being decided.
LEMMA OneAsking ==
  ASSUME IInv, NEW t \in Threads, request[t] # None
  PROVE  /\ Asking = {request[t]}
         /\ \A u \in Threads \ {t} : request[u] = None
BY DEF IInv, Exclusive, Asking

LEMMA Returned ==
  ASSUME IInv, NEW t \in Threads, request[t] # None, Return(t)
  PROVE  Asking' = {}
BY OneAsking DEF Return, Asking, IInv, TypeOK

\* The cardinality the contract speaks of is that of FiniteSets.
LEMMA SameCardinality == \A S : Decided!Cardinality(S) = Cardinality(S)
BY DEF Decided!Cardinality, Cardinality

\* What is left of the deque is as long as the window is full.
LEMMA PrunedDeque ==
  ASSUME IInv, NEW t \in Threads, request[t] # None, ~Outside(t)
  PROVE  Cardinality(Decided!Recent(request[t])) = Len(queryTime[request[t].client])
<1> DEFINE c     == request[t].client
           start == request[t].now - windowSeconds
           q     == queryTime[c]
           g     == granted[c]
           n     == Len(q)
           m     == Len(g)
<1>1. c \in Clients /\ request[t].now \in Nat
  BY RequestType DEF IInv
<1>2. q \in Seq(Nat) /\ g \in Seq(Nat) /\ start \in Int
  BY <1>1, LimiterAssumption DEF IInv, TypeOK
<1>3. n \in Nat /\ m \in Nat /\ \A i \in 1..m : g[i] \in Nat
  BY <1>2, LenProperties, ElementOfSeq
<1>4. /\ n <= m
      /\ \A j \in 1..n : q[j] = g[m - n + j]
      /\ \A i \in 1..(m - n) : g[i] < start
      /\ \A i, j \in 1..m : i <= j => g[i] <= g[j]
  BY <1>1 DEF IInv, DequeIsRecentHistory, RequestCurrent, Chronological
<1>5. n # 0 => q[1] >= start
  <2> SUFFICES ASSUME n # 0 PROVE q[1] >= start
    OBVIOUS
  <2>1. q # <<>> /\ Head(q) = q[1]
    BY <1>2, EmptySeq
  <2>2. 1 \in 1..n /\ m - n + 1 \in 1..m
    <3> HIDE DEF q, g, m, n
    <3> QED BY <1>3, <1>4
  <2>3. q[1] \in Nat
    <3>1. q[1] = g[m - n + 1]
      BY <1>4, <2>2
    <3> HIDE DEF q, g, m, n
    <3> QED BY <1>3, <2>2, <3>1
  <2>4. ~(Head(q) < start)
    BY <2>1 DEF Outside
  <2> HIDE DEF start, q
  <2> QED BY <1>2, <2>1, <2>3, <2>4
<1>6. Decided!Recent(request[t]) = {i \in 1..m : g[i] >= start}
  BY DEF Decided!Recent
<1> HIDE DEF c, start, q, g, n, m
<1>7. {i \in 1..m : g[i] >= start} = (m - n + 1)..m
  <2>1. ASSUME NEW i \in 1..m, g[i] >= start PROVE i \in (m - n + 1)..m
    <3>1. i \notin 1..(m - n)
      BY <1>2, <1>3, <1>4, <2>1
    <3> QED BY <1>3, <1>4, <3>1
  <2>2. ASSUME NEW i \in (m - n + 1)..m PROVE i \in 1..m /\ g[i] >= start
    <3>1. /\ i \in 1..m /\ n # 0
          /\ m - n + 1 \in 1..m /\ 1 \in 1..n /\ m - n + 1 <= i
      BY <1>3, <1>4
    <3>2. q[1] = g[m - n + 1] /\ g[m - n + 1] <= g[i]
      BY <1>4, <3>1
    <3>3. g[m - n + 1] >= start
      BY <1>5, <3>1, <3>2
    <3> QED BY <1>2, <1>3, <3>1, <3>2, <3>3
  <2> QED BY <2>1, <2>2
<1>8. Cardinality((m - n + 1)..m) = n
  <2>1. m - n + 1 \in Int /\ m \in Int
    BY <1>3
  <2>2. Cardinality((m - n + 1)..m) = IF m - n + 1 > m THEN 0 ELSE m - (m - n + 1) + 1
    BY <2>1, FS_Interval
  <2> QED BY <1>3, <2>2
<1> QED BY <1>6, <1>7, <1>8 DEF c, q, n

LEMMA WindowStart == Init => Decided!Init
<1> SUFFICES ASSUME Init PROVE Decided!Init
  OBVIOUS
<1>1. Asking = {}
  BY DEF Init, Asking
<1> QED BY <1>1 DEF Init, Decided!Init

LEMMA WindowStep == IInv /\ WithinLimit /\ [Next]_vars => [Decided!Next]_(Decided!vars)
<1> SUFFICES ASSUME IInv, WithinLimit, [Next]_vars
             PROVE  [Decided!Next]_(Decided!vars)
  OBVIOUS
<1>1. CASE Tick
  <2>1. Asking' = Asking
    BY <1>1 DEF Tick, Asking
  <2> QED BY <1>1, <2>1 DEF Tick, Decided!Next, Decided!Pass
<1>2. ASSUME NEW t \in Threads, NEW c \in Clients, allowQuery(t, c)
      PROVE  Decided!Ask(c)
  <2>1. Asking = {}
    BY <1>2, LimiterAssumption DEF allowQuery, IInv, Exclusive, Asking
  <2>2. \A u \in Threads : request[u] = None
    BY <2>1 DEF Asking
  <2>3. [client |-> c, now |-> now] # None
    BY LimiterAssumption DEF IInv, TypeOK
  <2>4. Asking' = {[client |-> c, now |-> now]}
    BY <1>2, <2>2, <2>3 DEF allowQuery, Asking, IInv, TypeOK
  <2> QED BY <1>2, <2>1, <2>4 DEF allowQuery, Decided!Ask
<1>3. ASSUME NEW t \in Threads, cleanupOldEntries(t)
      PROVE  UNCHANGED (Decided!vars)
  BY <1>3 DEF cleanupOldEntries, Asking, Decided!vars
<1>4. ASSUME NEW t \in Threads, limit(t)
      PROVE  request[t] \in Asking /\ Decided!Refuse(request[t])
  <2>1. request[t] # None /\ ~Outside(t) /\ Return(t)
    BY <1>4 DEF limit
  <2>2. Asking = {request[t]} /\ Asking' = {}
    BY <2>1, OneAsking, Returned
  <2>3. request[t].client \in Clients
    BY <2>1, RequestType DEF IInv
  <2>4. Len(queryTime[request[t].client]) = maxQueriesPerWindow
    <3>1. queryTime[request[t].client] \in Seq(Nat)
      BY <2>3 DEF IInv, TypeOK
    <3>2. Len(queryTime[request[t].client]) \in Nat
      BY <3>1, LenProperties
    <3>3. Len(queryTime[request[t].client]) >= maxQueriesPerWindow
      BY <1>4 DEF limit
    <3>4. Len(queryTime[request[t].client]) <= maxQueriesPerWindow
      BY <2>3 DEF WithinLimit
    <3> QED BY <3>2, <3>3, <3>4, LimiterAssumption
  <2>5. Decided!Cardinality(Decided!Recent(request[t])) = maxQueriesPerWindow
    BY <2>1, <2>4, PrunedDeque, SameCardinality
  <2> QED BY <1>4, <2>2, <2>5 DEF limit, Decided!Refuse
<1>5. ASSUME NEW t \in Threads, allow(t)
      PROVE  request[t] \in Asking /\ Decided!Grant(request[t])
  <2>1. request[t] # None /\ ~Outside(t) /\ Return(t)
    BY <1>5 DEF allow
  <2>2. Asking = {request[t]} /\ Asking' = {}
    BY <2>1, OneAsking, Returned
  <2>3. Decided!Cardinality(Decided!Recent(request[t])) < maxQueriesPerWindow
    BY <1>5, <2>1, PrunedDeque, SameCardinality DEF allow
  <2> QED BY <1>5, <2>2, <2>3 DEF allow, Decided!Grant
<1>6. CASE UNCHANGED vars
  BY <1>6 DEF vars, Asking, Decided!vars
<1> QED BY <1>1, <1>2, <1>3, <1>4, <1>5, <1>6 DEF Next, Decided!Next

\* The limiter decides every query by the grants in the window that ends with
\* it, whatever the clock does while it prunes the deque: it refuses only a
\* client whose window is full, and grants only one whose window is not.
THEOREM CountsTheWindow == Spec => ImplementsWindow
<1>1. Spec => [](IInv /\ WithinLimit)
  BY InitIInv, StepIInv, StartWithin, StayWithin, PTL DEF Spec
<1> QED BY <1>1, WindowStart, WindowStep, PTL DEF Spec, ImplementsWindow, Decided!Spec

=============================================================================
