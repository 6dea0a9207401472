--------------------------- MODULE UpstreamProofs ---------------------------
(***************************************************************************)
(* Safety of Upstream for any number of threads, servers, ids and ports,   *)
(* and for every limit on draws, retries and calls.                        *)
(***************************************************************************)
EXTENDS Upstream, TLAPS

\* A lookup's locals are set as far as it has come.
LocalsSet ==
  \A t \in Threads :
    /\ pc[t] # "idle" => server[t] \in Servers
    /\ t \in HasSocket => port[t] \in Ports
    /\ (pc[t] = "register" \/ t \in Registered) => txnId[t] \in Ids

TypeInv == TypeOK /\ LocalsSet

\* The initial state.
LEMMA InitTypeInv == Init => TypeInv
<1> SUFFICES ASSUME Init PROVE TypeInv
  OBVIOUS
<1>1. 0 \in 0 .. MaxRetries - 1 /\ 0 \in 0 .. MaxDraws /\ 0 \in 0 .. MaxCalls
  BY UpstreamAssumption
<1>2. TypeOK
  BY <1>1 DEF Init, TypeOK
<1>3. LocalsSet
  BY DEF Init, LocalsSet, HasSocket, Registered
<1> QED BY <1>2, <1>3 DEF TypeInv

\* The locals of t are forgotten and t returns: what many steps end with.
LEMMA ForgetReturn ==
  ASSUME TypeInv, NEW t \in Threads, Forget(t), Return(t), UNCHANGED calls
  PROVE  /\ pc' \in [Threads -> {"idle", "socket", "generate", "register", "send", "recv"}]
         /\ server' \in [Threads -> Servers \cup {None}]
         /\ attempt' \in [Threads -> 0 .. MaxRetries - 1]
         /\ draws' \in [Threads -> 0 .. MaxDraws]
         /\ txnId' \in [Threads -> Ids \cup {None}]
         /\ port' \in [Threads -> Ports \cup {None}]
         /\ LocalsSet'
BY UpstreamAssumption
DEF TypeInv, TypeOK, LocalsSet, HasSocket, Registered, Forget, Return, Goto

\* Every step preserves the types.
LEMMA StepTypeInv == TypeInv /\ [Next]_vars => TypeInv'
<1> SUFFICES ASSUME TypeInv, [Next]_vars PROVE TypeInv'
  OBVIOUS
<1> USE DEF locals, network, lost
<1>1. ASSUME NEW t \in Threads, NEW s \in Servers, begin(t, s) PROVE TypeInv'
  BY <1>1, UpstreamAssumption
  DEF begin, Goto, TypeInv, TypeOK, LocalsSet, HasSocket, Registered
<1>2. ASSUME NEW t \in Threads, bindSocket(t) PROVE TypeInv'
  BY <1>2, UpstreamAssumption
  DEF bindSocket, Goto, TypeInv, TypeOK, LocalsSet, HasSocket, Registered
<1>3. ASSUME NEW t \in Threads, bindFails(t) PROVE TypeInv'
  BY <1>3, UpstreamAssumption
  DEF bindFails, Return, Goto, TypeInv, TypeOK, LocalsSet, HasSocket, Registered
<1>4. ASSUME NEW t \in Threads, generate(t) PROVE TypeInv'
  BY <1>4, UpstreamAssumption
  DEF generate, Exhausted, Goto, TypeInv, TypeOK, LocalsSet, HasSocket, Registered
<1>5. ASSUME NEW t \in Threads, generateFails(t) PROVE TypeInv'
  <2>1. /\ Forget(t) /\ Return(t) /\ t \in HasSocket /\ leaked' = leaked \cup {port[t]}
        /\ UNCHANGED <<inFlight, open, calls, network, dropped>>
    BY <1>5 DEF generateFails, HasSocket
  <2> QED BY <2>1, ForgetReturn DEF TypeInv, TypeOK, LocalsSet
<1>6. ASSUME NEW t \in Threads, registerTxn(t) PROVE TypeInv'
  BY <1>6, UpstreamAssumption
  DEF registerTxn, Goto, checkTxnId, TypeInv, TypeOK, LocalsSet, HasSocket, Registered
<1>7. ASSUME NEW t \in Threads, Abandon(t), t \in Registered,
             asked' = asked, got' = got, net' \subseteq net, doubled' \in BOOLEAN
      PROVE  TypeInv'
  <2>1. /\ Forget(t) /\ Return(t) /\ t \in HasSocket
        /\ leaked' = leaked \cup {port[t]} /\ dropped' = dropped \cup {txnId[t]}
        /\ UNCHANGED <<inFlight, open, calls>>
    BY <1>7 DEF Abandon, HasSocket, Registered
  <2> QED BY <1>7, <2>1, ForgetReturn DEF TypeInv, TypeOK, LocalsSet
<1>8. ASSUME NEW t \in Threads, writeFails(t) PROVE TypeInv'
  BY <1>7, <1>8 DEF writeFails, Registered, TypeInv, TypeOK
<1>9. ASSUME NEW t \in Threads, send(t) PROVE TypeInv'
  <2>1. MyQuery(t) \in Query
    BY <1>9 DEF send, MyQuery, Query, TypeInv, TypeOK, LocalsSet, HasSocket, Registered
  <2> QED
    BY <1>9, <2>1 DEF send, Goto, TypeInv, TypeOK, LocalsSet, HasSocket, Registered
<1>10. ASSUME NEW t \in Threads, accept(t) PROVE TypeInv'
  <2>1. PICK r \in net :
          /\ Arrives(t, r) /\ removeTxn(txnId[t]) /\ closeSocket(t)
          /\ got' = got \cup {<<MyQuery(t), r.answers>>}
          /\ Forget(t) /\ Return(t) /\ UNCHANGED <<calls, asked, lost>>
    BY <1>10 DEF accept
  <2>2. MyQuery(t) \in Query /\ r.answers \in Query
    BY <2>1 DEF Arrives, MyQuery, Query, Reply, TypeInv, TypeOK, LocalsSet, HasSocket,
                Registered
  <2>3. net' \subseteq net /\ doubled' \in BOOLEAN
    BY <2>1 DEF Arrives, TypeInv, TypeOK
  <2> QED
    BY <2>1, <2>2, <2>3, ForgetReturn DEF removeTxn, closeSocket, TypeInv, TypeOK
<1>11. ASSUME NEW t \in Threads, reject(t) PROVE TypeInv'
  BY <1>7, <1>11 DEF reject, Arrives, Registered, TypeInv, TypeOK
<1>12. ASSUME NEW t \in Threads, recvFails(t) PROVE TypeInv'
  <2>1. /\ closeSocket(t) /\ dropped' = dropped \cup {txnId[t]} /\ txnId[t] \in Ids
        /\ Forget(t) /\ Return(t) /\ UNCHANGED <<inFlight, calls, network, leaked>>
    BY <1>12 DEF recvFails, TypeInv, LocalsSet, Registered
  <2> QED BY <2>1, ForgetReturn DEF closeSocket, TypeInv, TypeOK
<1>13. ASSUME NEW t \in Threads, timeout(t) PROVE TypeInv'
  <2>1. /\ closeSocket(t) /\ dropped' = dropped \cup {txnId[t]} /\ txnId[t] \in Ids
        /\ Forget(t) /\ retry(t) /\ UNCHANGED <<inFlight, calls, network, leaked>>
        /\ pc[t] = "recv"
    BY <1>13 DEF timeout, TypeInv, LocalsSet, Registered
  <2>2. CASE attempt[t] = MaxRetries - 1
    BY <2>1, <2>2, ForgetReturn DEF retry, closeSocket, TypeInv, TypeOK
  <2>3. CASE attempt[t] # MaxRetries - 1
    BY <2>1, <2>3, UpstreamAssumption
    DEF retry, Forget, Goto, closeSocket, TypeInv, TypeOK, LocalsSet, HasSocket, Registered
  <2> QED BY <2>2, <2>3
<1>14. ASSUME NEW q \in asked, NEW k \in Kinds, reply(q, k) PROVE TypeInv'
  BY <1>14 DEF reply, Reply, Query, TypeInv, TypeOK, LocalsSet, HasSocket, Registered
<1>15. CASE UNCHANGED vars
  BY <1>15 DEF vars, TypeInv, TypeOK, LocalsSet, HasSocket, Registered
<1> QED
  BY <1>1, <1>2, <1>3, <1>4, <1>5, <1>6, <1>8, <1>9, <1>10, <1>11, <1>12, <1>13,
     <1>14, <1>15
  DEF Next, Step, Quiet

\* No lookup draws more than MaxDraws ids or makes more than MaxRetries
\* attempts, and every local has its type.
THEOREM TypeCorrect == Spec => []TypeOK
<1>1. TypeInv => TypeOK
  BY DEF TypeInv
<1> QED BY InitTypeInv, StepTypeInv, <1>1, PTL DEF Spec

-----------------------------------------------------------------------------
\* lookup closes its own socket and no other: bindSocket takes a free port,
\* every path out of the lookup closes the port or leaks it.
THEOREM SocketAccount == Spec => []SocketsAccounted
<1>1. Init => SocketsAccounted
  BY DEF Init, SocketsAccounted, HasSocket
<1>2. TypeInv /\ SocketsAccounted /\ [Next]_vars => SocketsAccounted'
  <2> SUFFICES ASSUME TypeInv, SocketsAccounted, [Next]_vars PROVE SocketsAccounted'
    OBVIOUS
  <2> USE DEF locals, network, lost
  <2>1. /\ pc \in [Threads -> {"idle", "socket", "generate", "register", "send", "recv"}]
        /\ port \in [Threads -> Ports \cup {None}]
        /\ open \subseteq Ports
    BY DEF TypeInv, TypeOK
  <2>2. /\ open = leaked \cup {port[t] : t \in HasSocket}
        /\ \A t \in HasSocket : port[t] \notin leaked
        /\ \A t, u \in HasSocket : port[t] = port[u] => t = u
    BY DEF SocketsAccounted
  \* A step that neither opens nor closes a socket.
  <2>3. ASSUME UNCHANGED <<open, leaked>>, HasSocket' = HasSocket,
               \A t \in HasSocket : port'[t] = port[t]
        PROVE  SocketsAccounted'
    BY <2>2, <2>3 DEF SocketsAccounted
  \* t gives up its socket, by closing or by leaking it.
  <2>4. ASSUME NEW t \in HasSocket, HasSocket' = HasSocket \ {t},
               \A u \in HasSocket' : port'[u] = port[u],
               \/ open' = open \ {port[t]} /\ UNCHANGED leaked
               \/ leaked' = leaked \cup {port[t]} /\ UNCHANGED open
        PROVE  SocketsAccounted'
    BY <2>2, <2>4 DEF SocketsAccounted
  <2>5. ASSUME NEW t \in Threads, pc' = [pc EXCEPT ![t] = "idle"] \/ pc' = [pc EXCEPT ![t] = "socket"],
               Forget(t), t \in HasSocket,
               \/ closeSocket(t) /\ UNCHANGED leaked
               \/ leaked' = leaked \cup {port[t]} /\ UNCHANGED open
        PROVE  SocketsAccounted'
    <3>1. HasSocket' = HasSocket \ {t}
      BY <2>1, <2>5 DEF HasSocket
    <3>2. \A u \in HasSocket' : port'[u] = port[u]
      BY <2>1, <2>5, <3>1 DEF Forget, HasSocket
    <3> QED BY <2>4, <2>5, <3>1, <3>2 DEF closeSocket
  <2>6. ASSUME NEW t \in Threads, NEW s \in Servers, begin(t, s) PROVE SocketsAccounted'
    <3>1. HasSocket' = HasSocket
      BY <2>1, <2>6 DEF begin, Goto, HasSocket
    <3> QED BY <2>3, <2>6, <3>1 DEF begin
  <2>7. ASSUME NEW t \in Threads, bindSocket(t) PROVE SocketsAccounted'
    <3>1. PICK p \in Ports \ open :
            open' = open \cup {p} /\ port' = [port EXCEPT ![t] = p] /\ UNCHANGED leaked
      BY <2>7 DEF bindSocket
    <3>2. HasSocket' = HasSocket \cup {t} /\ t \notin HasSocket
      BY <2>1, <2>7 DEF bindSocket, Goto, HasSocket
    <3>3. port'[t] = p /\ \A u \in HasSocket : port'[u] = port[u]
      BY <2>1, <2>7, <3>1, <3>2 DEF HasSocket
    <3> QED BY <2>2, <3>1, <3>2, <3>3 DEF SocketsAccounted
  <2>8. ASSUME NEW t \in Threads, bindFails(t) PROVE SocketsAccounted'
    <3>1. HasSocket' = HasSocket
      BY <2>1, <2>8 DEF bindFails, Return, Goto, HasSocket
    <3> QED BY <2>3, <2>8, <3>1 DEF bindFails
  <2>9. ASSUME NEW t \in Threads, generate(t) PROVE SocketsAccounted'
    <3>1. HasSocket' = HasSocket
      BY <2>1, <2>9 DEF generate, Goto, HasSocket
    <3> QED BY <2>3, <2>9, <3>1 DEF generate
  <2>10. ASSUME NEW t \in Threads, generateFails(t) PROVE SocketsAccounted'
    BY <2>5, <2>10 DEF generateFails, Return, Goto, HasSocket
  <2>11. ASSUME NEW t \in Threads, registerTxn(t) \/ send(t) PROVE SocketsAccounted'
    <3>1. HasSocket' = HasSocket
      BY <2>1, <2>11 DEF registerTxn, send, Goto, HasSocket
    <3> QED BY <2>3, <2>11, <3>1 DEF registerTxn, send
  <2>12. ASSUME NEW t \in Threads, writeFails(t) PROVE SocketsAccounted'
    BY <2>5, <2>12 DEF writeFails, Abandon, Return, Goto, HasSocket
  <2>13. ASSUME NEW t \in Threads, accept(t) PROVE SocketsAccounted'
    BY <2>5, <2>13 DEF accept, Arrives, Return, Goto, HasSocket
  <2>14. ASSUME NEW t \in Threads, reject(t) PROVE SocketsAccounted'
    BY <2>5, <2>14 DEF reject, Arrives, Abandon, Return, Goto, HasSocket
  <2>15. ASSUME NEW t \in Threads, recvFails(t) PROVE SocketsAccounted'
    BY <2>5, <2>15 DEF recvFails, Return, Goto, HasSocket
  <2>16. ASSUME NEW t \in Threads, timeout(t) PROVE SocketsAccounted'
    BY <2>5, <2>16 DEF timeout, retry, Return, Goto, HasSocket
  <2>17. ASSUME NEW q \in asked, NEW k \in Kinds, reply(q, k) PROVE SocketsAccounted'
    BY <2>3, <2>17 DEF reply, HasSocket
  <2>18. CASE UNCHANGED vars
    BY <2>3, <2>18 DEF vars, HasSocket
  <2> QED
    BY <2>6, <2>7, <2>8, <2>9, <2>10, <2>11, <2>12, <2>13, <2>14, <2>15, <2>16, <2>17,
       <2>18
    DEF Next, Step, Quiet
<1> QED BY InitTypeInv, StepTypeInv, <1>1, <1>2, PTL DEF Spec

-----------------------------------------------------------------------------
(***************************************************************************)
(* The ids the tracker holds.                                              *)
(***************************************************************************)

\* What a step may do to the ids of the other threads: nothing.
LEMMA OtherThreads ==
  ASSUME TypeInv, NEW t \in Threads, NEW u \in Threads \ {t},
         Step(t) \/ \E s \in Servers : begin(t, s)
  PROVE  /\ pc'[u] = pc[u] /\ txnId'[u] = txnId[u]
         /\ server'[u] = server[u] /\ attempt'[u] = attempt[u]
         /\ port'[u] = port[u] /\ calls'[u] = calls[u]
<1> USE DEF locals, network, lost, TypeInv, TypeOK, Goto, Forget, Return
<1>1. ASSUME NEW s \in Servers, begin(t, s)
      PROVE  pc'[u] = pc[u] /\ txnId'[u] = txnId[u] /\ server'[u] = server[u]
             /\ attempt'[u] = attempt[u] /\ port'[u] = port[u] /\ calls'[u] = calls[u]
  BY <1>1 DEF begin
<1> QED
  BY <1>1 DEF Step, bindSocket, bindFails, generate, generateFails, registerTxn,
     writeFails, send, accept, reject, Abandon, recvFails, timeout, retry

\* An accepted reply takes the id out of the tracker, and whoever else drew the
\* same id keeps it among the registered; every other way out leaves the id in
\* dropped.
THEOREM NoTrace == Spec => []SuccessLeavesNoTrace
<1>1. Init => SuccessLeavesNoTrace
  BY DEF Init, SuccessLeavesNoTrace
<1>2. TypeInv /\ SuccessLeavesNoTrace /\ [Next]_vars => SuccessLeavesNoTrace'
  <2> SUFFICES ASSUME TypeInv, SuccessLeavesNoTrace, [Next]_vars,
                      NEW i \in inFlight', i \notin dropped'
               PROVE  \E u \in Registered' : txnId'[u] = i
    BY DEF SuccessLeavesNoTrace
  <2>1. /\ pc \in [Threads -> {"idle", "socket", "generate", "register", "send", "recv"}]
        /\ txnId \in [Threads -> Ids \cup {None}]
    BY DEF TypeInv, TypeOK
  <2>2. inFlight \subseteq {txnId[u] : u \in Registered} \cup dropped
    BY DEF SuccessLeavesNoTrace
  <2>3. ASSUME NEW t \in Threads, Step(t) \/ \E s \in Servers : begin(t, s),
               i \in inFlight, dropped \subseteq dropped',
               t \in Registered => (t \in Registered' /\ txnId'[t] = txnId[t]) \/ txnId[t] # i
        PROVE  \E u \in Registered' : txnId'[u] = i
    <3>1. PICK u \in Registered : txnId[u] = i
      BY <2>2, <2>3
    <3>2. CASE u = t
      BY <2>3, <3>1, <3>2
    <3>3. CASE u # t
      BY <2>3, <3>1, <3>3, OtherThreads DEF Registered
    <3> QED BY <3>2, <3>3
  <2>4. ASSUME NEW t \in Threads, NEW s \in Servers, begin(t, s)
        PROVE  \E u \in Registered' : txnId'[u] = i
    BY <2>3, <2>4 DEF begin, Registered, lost
  <2>5. ASSUME NEW t \in Threads, Step(t), pc[t] \in {"socket", "generate"}
        PROVE  \E u \in Registered' : txnId'[u] = i
    <3>1. UNCHANGED <<inFlight, dropped>>
      BY <2>5 DEF Step, bindSocket, bindFails, generate, generateFails, registerTxn,
         writeFails, send, accept, reject, Arrives, recvFails, timeout, lost
    <3> QED BY <2>3, <2>5, <3>1 DEF Registered
  <2>6. ASSUME NEW t \in Threads, registerTxn(t) PROVE \E u \in Registered' : txnId'[u] = i
    <3>1. t \in Registered' /\ txnId'[t] = txnId[t] /\ dropped' = dropped
      BY <2>1, <2>6 DEF registerTxn, Goto, Registered, locals, lost
    <3>2. CASE i = txnId[t]
      BY <3>1, <3>2
    <3>3. CASE i # txnId[t]
      BY <2>3, <2>6, <3>1, <3>3 DEF registerTxn, Step
    <3> QED BY <3>2, <3>3
  <2>7. ASSUME NEW t \in Threads, send(t) PROVE \E u \in Registered' : txnId'[u] = i
    <3>1. t \in Registered' /\ UNCHANGED <<txnId, dropped, inFlight>>
      BY <2>1, <2>7 DEF send, Goto, Registered, locals, lost
    <3> QED BY <2>3, <2>7, <3>1 DEF Step
  <2>8. ASSUME NEW t \in Threads, accept(t) PROVE \E u \in Registered' : txnId'[u] = i
    <3>1. inFlight' = inFlight \ {txnId[t]} /\ UNCHANGED dropped
      BY <2>8 DEF accept, removeTxn, lost
    <3> QED BY <2>3, <2>8, <3>1 DEF Step
  <2>9. ASSUME NEW t \in Threads, writeFails(t) \/ reject(t) \/ recvFails(t) \/ timeout(t)
        PROVE  \E u \in Registered' : txnId'[u] = i
    <3>1. dropped' = dropped \cup {txnId[t]} /\ UNCHANGED inFlight
      BY <2>9 DEF writeFails, reject, Abandon, recvFails, timeout
    <3> QED BY <2>3, <2>9, <3>1 DEF Step
  <2>10. ASSUME NEW q \in asked, NEW k \in Kinds, reply(q, k)
         PROVE  \E u \in Registered' : txnId'[u] = i
    BY <2>2, <2>10 DEF reply, Registered, locals, lost
  <2>11. CASE UNCHANGED vars
    BY <2>2, <2>11 DEF vars, Registered, locals, lost
  <2>12. ASSUME NEW t \in Threads, Step(t) PROVE \E u \in Registered' : txnId'[u] = i
    BY <2>5, <2>6, <2>7, <2>8, <2>9, <2>12
    DEF Step, bindSocket, bindFails, generate, generateFails
  <2> QED BY <2>4, <2>10, <2>11, <2>12 DEF Next, Quiet
<1> QED BY InitTypeInv, StepTypeInv, <1>1, <1>2, PTL DEF Spec

-----------------------------------------------------------------------------
(***************************************************************************)
(* Replies and queries.  As long as no datagram was repeated and no id     *)
(* registered twice, a reply can reach a lookup that takes it for its own  *)
(* only if it is: the id of a query that may still be answered is held by  *)
(* the lookup that sent it or, after that one has ended without success,   *)
(* by the tracker and by nobody else.                                      *)
(***************************************************************************)

\* q is the query of a lookup that waits.
Current(q) == q.thread \in Threads /\ pc[q.thread] = "recv" /\ q = MyQuery(q.thread)

\* The id of q was left in the tracker, and no lookup uses it.
Abandoned(q) == q.id \in inFlight /\ \A t \in Registered : txnId[t] # q.id

\* A reply to q was accepted, and there is no other.
Answered(q) == (\E g \in got : g[2] = q) /\ \A r \in net : r.answers # q

IdsHeld ==
  /\ \A t \in Registered : txnId[t] \in inFlight
  /\ \A t, u \in Registered : txnId[t] = txnId[u] => t = u

QueriesAccounted ==
  /\ \A q \in asked : Current(q) \/ Abandoned(q) \/ Answered(q)
  /\ \A r \in net : r.answers \in asked
  /\ \A r, s \in net : r.answers = s.answers => r = s

ReplyInv == ~doubled => IdsHeld /\ QueriesAccounted /\ \A g \in got : g[1] = g[2]

\* A lookup that ends without success leaves its id in the tracker: its query,
\* like any other whose id is held there, is abandoned.
LEMMA AbandonStep ==
  ASSUME TypeInv, IdsHeld, QueriesAccounted, NEW t \in Registered,
         \A u \in Threads \ {t} : /\ pc'[u] = pc[u] /\ txnId'[u] = txnId[u]
                                  /\ server'[u] = server[u] /\ attempt'[u] = attempt[u]
                                  /\ port'[u] = port[u] /\ calls'[u] = calls[u],
         pc'[t] \in {"idle", "socket"}, UNCHANGED <<inFlight, asked, got>>,
         net' \subseteq net
  PROVE  IdsHeld' /\ QueriesAccounted'
<1>1. Registered' = Registered \ {t}
  BY DEF Registered
<1>2. \A u \in Registered' : txnId'[u] = txnId[u] /\ u # t /\ u \in Registered
  BY <1>1 DEF Registered
<1>3. IdsHeld'
  BY <1>2 DEF IdsHeld
<1>4. ASSUME NEW q \in asked PROVE (Current(q) \/ Abandoned(q) \/ Answered(q))'
  <2>1. CASE Current(q) /\ q.thread = t
    <3>1. q.id = txnId[t]
      BY <2>1 DEF Current, MyQuery
    <3>2. Abandoned(q)'
      BY <1>2, <3>1 DEF Abandoned, IdsHeld
    <3> QED BY <3>2
  <2>2. CASE Current(q) /\ q.thread # t
    BY <2>2 DEF Current, MyQuery
  <2>3. CASE Abandoned(q)
    BY <1>2, <2>3 DEF Abandoned
  <2>4. CASE Answered(q)
    BY <2>4 DEF Answered
  <2> QED BY <2>1, <2>2, <2>3, <2>4 DEF QueriesAccounted
<1> QED BY <1>3, <1>4 DEF QueriesAccounted

\* A reply lookup takes is to its own query: the id is held by nobody else.
LEMMA AcceptsOwn ==
  ASSUME IdsHeld, QueriesAccounted, NEW t \in Threads, NEW r \in net,
         Arrives(t, r), Valid(t, r)
  PROVE  r.answers = MyQuery(t)
<1>1. t \in Registered /\ r.answers.id = txnId[t] /\ r.answers \in asked
  BY DEF Arrives, Valid, Registered, QueriesAccounted
<1>2. ~Answered(r.answers)
  BY DEF Answered
<1>3. ~Abandoned(r.answers)
  BY <1>1 DEF Abandoned
<1>4. Current(r.answers)
  BY <1>1, <1>2, <1>3 DEF QueriesAccounted
<1>5. r.answers.thread \in Registered /\ txnId[r.answers.thread] = txnId[t]
  BY <1>1, <1>4 DEF Current, MyQuery, Registered
<1> QED BY <1>1, <1>4, <1>5 DEF IdsHeld, Current

\* The step in which lookup accepts it.
LEMMA AcceptStep ==
  ASSUME TypeInv, IdsHeld, QueriesAccounted, NEW t \in Threads, accept(t), ~doubled'
  PROVE  /\ IdsHeld' /\ QueriesAccounted'
         /\ \A g \in got' : g \in got \/ g[1] = g[2]
<1>1. PICK r \in net :
        /\ Arrives(t, r) /\ Valid(t, r) /\ inFlight' = inFlight \ {txnId[t]}
        /\ got' = got \cup {<<MyQuery(t), r.answers>>}
        /\ Return(t) /\ UNCHANGED asked
  BY DEF accept, removeTxn
<1>2. /\ t \in Registered /\ net' = net \ {r} /\ r.answers.id = txnId[t]
      /\ r.answers \in asked
  BY <1>1 DEF Arrives, Valid, Registered, QueriesAccounted
<1>3. r.answers = MyQuery(t)
  BY <1>1, AcceptsOwn
<1>4. \A u \in Threads \ {t} : /\ pc'[u] = pc[u] /\ txnId'[u] = txnId[u]
                               /\ server'[u] = server[u] /\ attempt'[u] = attempt[u]
                               /\ port'[u] = port[u] /\ calls'[u] = calls[u]
  BY OtherThreads DEF Step
<1>5. pc'[t] = "idle"
  BY <1>1 DEF Return, Goto, TypeInv, TypeOK
<1>6. Registered' = Registered \ {t}
  BY <1>4, <1>5 DEF Registered
<1>7. \A u \in Registered' : txnId'[u] = txnId[u] /\ u # t /\ u \in Registered
                             /\ txnId[u] # txnId[t]
  BY <1>2, <1>4, <1>6 DEF Registered, IdsHeld
<1>8. IdsHeld'
  BY <1>1, <1>7 DEF IdsHeld
<1>9. ASSUME NEW q \in asked PROVE (Current(q) \/ Abandoned(q) \/ Answered(q))'
  <2>1. CASE Current(q) /\ q.thread = t
    <3>1. q = r.answers
      BY <1>3, <2>1 DEF Current
    <3>2. <<MyQuery(t), r.answers>> \in got'
      BY <1>1
    <3>3. \A s \in net' : s.answers # q
      BY <1>2, <3>1 DEF QueriesAccounted
    <3> QED BY <3>1, <3>2, <3>3 DEF Answered
  <2>2. CASE Current(q) /\ q.thread # t
    BY <1>4, <2>2 DEF Current, MyQuery
  <2>3. CASE Abandoned(q)
    BY <1>1, <1>2, <1>7, <2>3 DEF Abandoned
  <2>4. CASE Answered(q)
    BY <1>1, <1>2, <2>4 DEF Answered
  <2> QED BY <2>1, <2>2, <2>3, <2>4 DEF QueriesAccounted
<1>10. QueriesAccounted'
  BY <1>1, <1>2, <1>9 DEF QueriesAccounted
<1> QED BY <1>1, <1>3, <1>8, <1>10

\* A step that changes no thread between registration and reply, nor the ids,
\* the queries and the replies.
LEMMA IdleStep ==
  ASSUME TypeInv, IdsHeld, QueriesAccounted, NEW t \in Threads \ Registered,
         \A u \in Threads \ {t} : /\ pc'[u] = pc[u] /\ txnId'[u] = txnId[u]
                                  /\ server'[u] = server[u] /\ attempt'[u] = attempt[u]
                                  /\ port'[u] = port[u] /\ calls'[u] = calls[u],
         pc'[t] \notin {"send", "recv"}, UNCHANGED <<inFlight, asked, net, got>>
  PROVE  IdsHeld' /\ QueriesAccounted'
<1>1. /\ Registered' = Registered
      /\ \A u \in Registered : txnId'[u] = txnId[u]
  BY DEF Registered
<1>2. \A q \in asked : (Current(q) => Current(q)') /\ (Abandoned(q) => Abandoned(q)')
                       /\ (Answered(q) => Answered(q)')
  BY <1>1 DEF Current, MyQuery, Abandoned, Answered, Registered
<1> QED BY <1>1, <1>2 DEF IdsHeld, QueriesAccounted

\* registerTxn takes an id the tracker does not hold, or it doubles it.
LEMMA RegisterStep ==
  ASSUME TypeInv, IdsHeld, QueriesAccounted, NEW t \in Threads, registerTxn(t), ~doubled'
  PROVE  IdsHeld' /\ QueriesAccounted'
<1>1. /\ pc[t] = "register" /\ pc' = [pc EXCEPT ![t] = "send"]
      /\ inFlight' = inFlight \cup {txnId[t]} /\ txnId[t] \notin inFlight
      /\ UNCHANGED <<server, attempt, txnId, port, calls, asked, net, got>>
  BY DEF registerTxn, Goto, checkTxnId, locals
<1>2. Registered' = Registered \cup {t} /\ t \notin Registered
  BY <1>1 DEF Registered, TypeInv, TypeOK
<1>3. IdsHeld'
  BY <1>1, <1>2 DEF IdsHeld
<1>4. \A q \in asked : (Current(q) => Current(q)') /\ (Abandoned(q) => Abandoned(q)')
                       /\ (Answered(q) => Answered(q)')
  BY <1>1, <1>2 DEF Current, MyQuery, Abandoned, Answered, TypeInv, TypeOK
<1> QED BY <1>1, <1>3, <1>4 DEF QueriesAccounted

\* What is sent is the query of a lookup that now waits.
LEMMA SendStep ==
  ASSUME TypeInv, IdsHeld, QueriesAccounted, NEW t \in Threads, send(t)
  PROVE  IdsHeld' /\ QueriesAccounted'
<1>1. /\ pc[t] = "send" /\ pc' = [pc EXCEPT ![t] = "recv"]
      /\ asked' = asked \cup {MyQuery(t)}
      /\ UNCHANGED <<inFlight, server, attempt, txnId, port, calls, net, got>>
  BY DEF send, Goto, locals
<1>2. Registered' = Registered
  BY <1>1 DEF Registered, TypeInv, TypeOK
<1>3. IdsHeld'
  BY <1>1, <1>2 DEF IdsHeld
<1>4. \A q \in asked : (Current(q) => Current(q)') /\ (Abandoned(q) => Abandoned(q)')
                       /\ (Answered(q) => Answered(q)')
  BY <1>1, <1>2 DEF Current, MyQuery, Abandoned, Answered, TypeInv, TypeOK
<1>5. ASSUME NEW q, q = MyQuery(t) PROVE Current(q)'
  BY <1>1, <1>5 DEF Current, MyQuery, TypeInv, TypeOK
<1>6. \A q \in asked' : (Current(q) \/ Abandoned(q) \/ Answered(q))'
  BY <1>1, <1>4, <1>5 DEF QueriesAccounted
<1>7. QueriesAccounted'
  BY <1>1, <1>6 DEF QueriesAccounted
<1> QED BY <1>3, <1>7

\* A server's reply is to a query it was sent and that has had none yet.
LEMMA ServerStep ==
  ASSUME IdsHeld, QueriesAccounted, NEW q \in asked, NEW k \in Kinds, reply(q, k)
  PROVE  IdsHeld' /\ QueriesAccounted'
<1>1. /\ \A r \in net : r.answers # q
      /\ \A g \in got : g[2] # q
      /\ net' = net \cup {[answers |-> q, kind |-> k]}
      /\ UNCHANGED <<inFlight, pc, server, attempt, txnId, port, calls, asked, got>>
  BY DEF reply, locals
<1>2. IdsHeld'
  BY <1>1 DEF IdsHeld, Registered
<1>3. \A p \in asked : (Current(p) => Current(p)') /\ (Abandoned(p) => Abandoned(p)')
                       /\ (Answered(p) => Answered(p)')
  BY <1>1 DEF Current, MyQuery, Abandoned, Answered, Registered
<1> QED BY <1>1, <1>2, <1>3 DEF QueriesAccounted

LEMMA InitReplyInv == Init => ReplyInv
BY DEF Init, ReplyInv, IdsHeld, QueriesAccounted, Registered

LEMMA StepReplyInv == TypeInv /\ ReplyInv /\ [Next]_vars => ReplyInv'
<1> SUFFICES ASSUME TypeInv, ReplyInv, [Next]_vars, ~doubled' PROVE ReplyInv'
  BY DEF ReplyInv
<1>1. ~doubled
  <2>1. doubled \in BOOLEAN
    BY DEF TypeInv, TypeOK
  <2> QED
    BY <2>1 DEF Next, Step, Quiet, vars, begin, bindSocket, bindFails, generate,
       generateFails, registerTxn, writeFails, Abandon, send, accept, reject, Arrives,
       recvFails, timeout, reply, network
<1>2. IdsHeld /\ QueriesAccounted /\ \A g \in got : g[1] = g[2]
  BY <1>1 DEF ReplyInv
<1> SUFFICES IdsHeld' /\ QueriesAccounted' /\ \A g \in got' : g \in got \/ g[1] = g[2]
  BY <1>2 DEF ReplyInv
<1>3. ASSUME NEW t \in Threads,
             \/ \E s \in Servers : begin(t, s)
             \/ bindSocket(t) \/ bindFails(t) \/ generate(t) \/ generateFails(t)
      PROVE  IdsHeld' /\ QueriesAccounted' /\ UNCHANGED got
  <2>1. t \notin Registered /\ UNCHANGED <<inFlight, asked, net, got>>
    BY <1>3 DEF begin, bindSocket, bindFails, generate, generateFails, Registered,
       network
  <2>2. pc'[t] \notin {"send", "recv"}
    BY <1>3 DEF begin, bindSocket, bindFails, generate, generateFails, Return, Goto,
       TypeInv, TypeOK
  <2>3. \A u \in Threads \ {t} : /\ pc'[u] = pc[u] /\ txnId'[u] = txnId[u]
                                 /\ server'[u] = server[u] /\ attempt'[u] = attempt[u]
                                 /\ port'[u] = port[u] /\ calls'[u] = calls[u]
    BY <1>3, OtherThreads DEF Step
  <2> QED BY <1>2, <2>1, <2>2, <2>3, IdleStep
<1>4. ASSUME NEW t \in Threads, registerTxn(t)
      PROVE  IdsHeld' /\ QueriesAccounted' /\ UNCHANGED got
  BY <1>2, <1>4, RegisterStep DEF registerTxn
<1>5. ASSUME NEW t \in Threads, send(t)
      PROVE  IdsHeld' /\ QueriesAccounted' /\ UNCHANGED got
  BY <1>2, <1>5, SendStep DEF send
<1>6. ASSUME NEW t \in Threads, accept(t)
      PROVE  /\ IdsHeld' /\ QueriesAccounted'
             /\ \A g \in got' : g \in got \/ g[1] = g[2]
  BY <1>2, <1>6, AcceptStep
<1>7. ASSUME NEW t \in Threads, writeFails(t) \/ reject(t) \/ recvFails(t) \/ timeout(t)
      PROVE  IdsHeld' /\ QueriesAccounted' /\ UNCHANGED got
  <2>1. /\ t \in Registered /\ UNCHANGED <<inFlight, asked, got>>
        /\ net' \subseteq net
    BY <1>7 DEF writeFails, reject, recvFails, timeout, Abandon, Arrives, Registered,
       network
  <2>2. pc'[t] \in {"idle", "socket"}
    BY <1>7 DEF writeFails, reject, recvFails, timeout, retry, Abandon, Return, Goto,
       TypeInv, TypeOK
  <2>3. \A u \in Threads \ {t} : /\ pc'[u] = pc[u] /\ txnId'[u] = txnId[u]
                                 /\ server'[u] = server[u] /\ attempt'[u] = attempt[u]
                                 /\ port'[u] = port[u] /\ calls'[u] = calls[u]
    BY <1>7, OtherThreads DEF Step
  <2> QED BY <1>2, <2>1, <2>2, <2>3, AbandonStep
<1>8. ASSUME NEW q \in asked, NEW k \in Kinds, reply(q, k)
      PROVE  IdsHeld' /\ QueriesAccounted' /\ UNCHANGED got
  BY <1>2, <1>8, ServerStep DEF reply
<1>9. CASE UNCHANGED vars
  <2>1. UNCHANGED <<inFlight, pc, server, attempt, txnId, port, calls, asked, net, got>>
    BY <1>9 DEF vars, locals, network
  <2>2. \A q \in asked : (Current(q) => Current(q)') /\ (Abandoned(q) => Abandoned(q)')
                         /\ (Answered(q) => Answered(q)')
    BY <2>1 DEF Current, MyQuery, Abandoned, Answered, Registered
  <2>3. IdsHeld'
    BY <1>2, <2>1 DEF IdsHeld, Registered
  <2>4. QueriesAccounted'
    BY <1>2, <2>1, <2>2 DEF QueriesAccounted
  <2> QED BY <2>1, <2>3, <2>4
<1> QED
  BY <1>3, <1>4, <1>5, <1>6, <1>7, <1>8, <1>9 DEF Next, Step, Quiet

\* Unless a datagram was repeated or an id registered twice, an accepted reply
\* answers the very query its lookup sent.
THEOREM OwnQuery == Spec => []AnswersOwnQuery
<1>1. ReplyInv => AnswersOwnQuery
  BY DEF ReplyInv, AnswersOwnQuery
<1> QED BY InitTypeInv, StepTypeInv, InitReplyInv, StepReplyInv, <1>1, PTL DEF Spec

-----------------------------------------------------------------------------
(***************************************************************************)
(* The refinement of Exchange.                                             *)
(***************************************************************************)

\* Between calls nothing of the last one is left, replies are to queries that
\* were sent, and a thread that waits has sent its query.
Genuine ==
  /\ \A t \in Threads : pc[t] = "idle" => server[t] = None /\ attempt[t] = 0
  /\ \A t \in Threads : pc[t] = "recv" => MyQuery(t) \in asked
  /\ \A r \in net : r.answers \in asked

LEMMA InitGenuine == Init => Genuine
BY DEF Init, Genuine

LEMMA StepGenuine == TypeInv /\ Genuine /\ [Next]_vars => Genuine'
<1> SUFFICES ASSUME TypeInv, Genuine, [Next]_vars PROVE Genuine'
  OBVIOUS
<1>1. asked \subseteq asked'
  BY DEF Next, Step, Quiet, vars, network, begin, bindSocket, bindFails, generate,
     generateFails, registerTxn, writeFails, Abandon, send, accept, reject, recvFails,
     timeout, reply
<1>2. \A r \in net' : r.answers \in asked'
  <2>1. ASSUME NEW q \in asked, NEW k \in Kinds, reply(q, k), NEW r \in net'
        PROVE  r.answers \in asked'
    <3>1. r \in net \/ r = [answers |-> q, kind |-> k]
      BY <2>1 DEF reply
    <3> QED BY <1>1, <3>1 DEF Genuine
  <2>2. CASE net' \subseteq net
    BY <1>1, <2>2 DEF Genuine
  <2> QED
    BY <2>1, <2>2 DEF Next, Step, Quiet, vars, network, begin, bindSocket, bindFails,
       generate, generateFails, registerTxn, writeFails, Abandon, send, accept, reject,
       Arrives, recvFails, timeout
<1>3. ASSUME NEW t \in Threads, Step(t) \/ \E s \in Servers : begin(t, s)
      PROVE  /\ pc'[t] = "idle" => server'[t] = None /\ attempt'[t] = 0
             /\ pc'[t] = "recv" => MyQuery(t)' \in asked'
  <2>1. CASE send(t)
    BY <2>1 DEF send, Goto, locals, MyQuery, TypeInv, TypeOK
  <2>2. CASE ~send(t)
    BY <1>3, <2>2
    DEF Step, Goto, Forget, Return, locals, network, begin, bindSocket, bindFails, generate,
        generateFails, registerTxn, writeFails, Abandon, accept, reject, recvFails, timeout,
        retry, Genuine, TypeInv, TypeOK
  <2> QED BY <2>1, <2>2
<1>4. ASSUME NEW t \in Threads, Step(t) \/ \E s \in Servers : begin(t, s),
             NEW u \in Threads \ {t}
      PROVE  /\ pc'[u] = "idle" => server'[u] = None /\ attempt'[u] = 0
             /\ pc'[u] = "recv" => MyQuery(u)' \in asked'
  BY <1>1, <1>4, OtherThreads DEF MyQuery, Genuine
<1>5. CASE UNCHANGED <<pc, server, attempt, txnId, port, calls>>
  BY <1>1, <1>2, <1>5 DEF MyQuery, Genuine
<1> QED BY <1>2, <1>3, <1>4, <1>5 DEF Next, Quiet, reply, vars, locals, Genuine

LEMMA ExchangeStart == Init => Contract!Init
BY DEF Init, Contract!Init, Sent

\* What Sent becomes when only t moves.
LEMMA SentOfOthers ==
  ASSUME NEW t \in Threads,
         \A u \in Threads \ {t} : pc'[u] = pc[u] /\ attempt'[u] = attempt[u]
  PROVE  Sent' = [Sent EXCEPT ![t] = IF pc'[t] = "recv" THEN attempt'[t] + 1 ELSE attempt'[t]]
BY DEF Sent

\* A lookup before its query is sent, or one that is tried again.
LEMMA OwnAffair ==
  ASSUME TypeInv, NEW t \in Threads,
         \/ bindSocket(t) \/ generate(t) \/ registerTxn(t)
         \/ timeout(t) /\ attempt[t] # MaxRetries - 1
  PROVE  UNCHANGED <<server, Sent, calls, asked, got>> /\ doubled' \in {doubled, TRUE}
<1>1. UNCHANGED <<server, calls, asked, got>>
  BY DEF bindSocket, generate, registerTxn, timeout, retry, locals, network
<1>2. doubled' \in {doubled, TRUE}
  BY DEF bindSocket, generate, registerTxn, timeout, locals, network, TypeInv, TypeOK
<1>3. \A u \in Threads \ {t} : pc'[u] = pc[u] /\ attempt'[u] = attempt[u]
  BY OtherThreads DEF Step
<1>4. Sent[t] = IF pc'[t] = "recv" THEN attempt'[t] + 1 ELSE attempt'[t]
  BY DEF Sent, bindSocket, generate, registerTxn, timeout, retry, Goto, locals, network,
         TypeInv, TypeOK
<1>5. Sent' = Sent
  BY <1>3, <1>4, SentOfOthers DEF Sent
<1> QED BY <1>1, <1>2, <1>5

LEMMA ReturnOver ==
  ASSUME TypeInv, NEW t \in Threads, pc[t] # "idle", Return(t)
  PROVE  server[t] # None /\ Contract!Over(t)
<1>1. server[t] # None /\ server' = [server EXCEPT ![t] = None]
  BY UpstreamAssumption DEF Return, TypeInv, LocalsSet
<1>2. \A u \in Threads \ {t} : pc'[u] = pc[u] /\ attempt'[u] = attempt[u]
  BY DEF Return, Goto, TypeInv, TypeOK
<1>3. pc'[t] = "idle" /\ attempt'[t] = 0
  BY DEF Return, Goto, TypeInv, TypeOK
<1>4. Sent' = [Sent EXCEPT ![t] = 0]
  BY <1>2, <1>3, SentOfOthers
<1> QED BY <1>1, <1>4 DEF Contract!Over

\* The ways a call ends without an answer.
LEMMA EndsWithout ==
  ASSUME TypeInv, NEW t \in Threads,
         \/ bindFails(t) \/ generateFails(t) \/ writeFails(t) \/ reject(t) \/ recvFails(t)
         \/ timeout(t) /\ attempt[t] = MaxRetries - 1
  PROVE  Contract!GiveUp(t) /\ doubled' \in {doubled, TRUE}
<1>1. pc[t] # "idle" /\ Return(t) /\ UNCHANGED <<calls, asked, got>>
  BY DEF bindFails, generateFails, writeFails, reject, Arrives, recvFails, timeout, retry,
         Abandon, network
<1>2. doubled' \in {doubled, TRUE}
  BY DEF bindFails, generateFails, writeFails, reject, Arrives, recvFails, timeout, network
<1> QED BY <1>1, <1>2, ReturnOver DEF Contract!GiveUp

LEMMA ExchangeStep ==
  TypeInv /\ ReplyInv /\ Genuine /\ [Next]_vars => [Contract!Next]_(Contract!vars)
<1> SUFFICES ASSUME TypeInv, ReplyInv, Genuine, [Next]_vars
             PROVE  [Contract!Next]_(Contract!vars)
  OBVIOUS
<1>1. ASSUME NEW t \in Threads, NEW s \in Servers, begin(t, s)
      PROVE  Contract!Ask(t, s) /\ UNCHANGED doubled
  <2>1. /\ pc[t] = "idle" /\ server[t] = None /\ pc'[t] = "socket"
        /\ calls' = [calls EXCEPT ![t] = @ + 1] /\ server' = [server EXCEPT ![t] = s]
        /\ UNCHANGED <<attempt, asked, got, doubled>>
    BY <1>1 DEF begin, Goto, network, Genuine, TypeInv, TypeOK
  <2>2. \A u \in Threads \ {t} : pc'[u] = pc[u] /\ attempt'[u] = attempt[u]
    BY <1>1, OtherThreads
  <2>3. Sent' = Sent
    BY <2>1, <2>2, SentOfOthers DEF Sent
  <2> QED BY <2>1, <2>3 DEF Contract!Ask
<1>2. ASSUME NEW t \in Threads, send(t)
      PROVE  /\ txnId[t] \in Ids /\ port[t] \in Ports
             /\ Contract!Send(t, txnId[t], port[t]) /\ UNCHANGED doubled
  <2>1. /\ pc[t] = "send" /\ pc'[t] = "recv" /\ asked' = asked \cup {MyQuery(t)}
        /\ UNCHANGED <<server, attempt, calls, got, doubled>>
    BY <1>2 DEF send, Goto, locals, TypeInv, TypeOK
  <2>2. txnId[t] \in Ids /\ port[t] \in Ports /\ server[t] # None
    BY <2>1, UpstreamAssumption DEF TypeInv, LocalsSet, HasSocket, Registered
  <2>3. Sent[t] = attempt[t] /\ Sent[t] < MaxRetries
    <3>1. attempt[t] \in 0 .. MaxRetries - 1 /\ MaxRetries \in Nat
      BY UpstreamAssumption DEF TypeInv, TypeOK
    <3> QED BY <2>1, <3>1 DEF Sent
  <2>4. \A u \in Threads \ {t} : pc'[u] = pc[u] /\ attempt'[u] = attempt[u]
    BY <1>2, OtherThreads DEF Step
  <2>5. Sent' = [Sent EXCEPT ![t] = @ + 1]
    BY <2>1, <2>3, <2>4, SentOfOthers DEF Sent
  <2>6. MyQuery(t) = [thread |-> t, call |-> calls[t], attempt |-> Sent[t],
                      id |-> txnId[t], to |-> server[t], port |-> port[t]]
    BY <2>3 DEF MyQuery
  <2> QED BY <2>1, <2>2, <2>3, <2>5, <2>6 DEF Contract!Send
<1>3. ASSUME NEW t \in Threads, accept(t)
      PROVE  /\ \E q, r \in asked : Contract!Answer(t, q, r)
             /\ doubled' \in {doubled, TRUE}
  <2>1. PICK r \in net :
          /\ Arrives(t, r) /\ Valid(t, r)
          /\ got' = got \cup {<<MyQuery(t), r.answers>>}
          /\ Return(t) /\ UNCHANGED <<calls, asked>>
    BY <1>3 DEF accept
  <2>2. pc[t] = "recv" /\ r.answers.port = port[t] /\ doubled' \in {doubled, TRUE}
    BY <2>1 DEF Arrives
  <2>3. MyQuery(t) \in asked /\ r.answers \in asked
    BY <2>2 DEF Genuine
  <2>4. Contract!Latest(t, MyQuery(t)) /\ Contract!Matches(MyQuery(t), r.answers)
    BY <2>1, <2>2 DEF Contract!Latest, Contract!Matches, MyQuery, Sent, Valid
  <2>5. MyQuery(t) = r.answers \/ doubled
    BY <2>1, AcceptsOwn DEF ReplyInv
  <2>6. server[t] # None /\ Contract!Over(t)
    BY <2>1, <2>2, ReturnOver
  <2>7. Contract!Answer(t, MyQuery(t), r.answers)
    BY <2>1, <2>4, <2>5, <2>6 DEF Contract!Answer
  <2> QED BY <2>2, <2>3, <2>7
<1>4. CASE \E q \in asked, k \in Kinds : reply(q, k)
  BY <1>4 DEF reply, Sent, locals, Contract!Next
<1>5. CASE UNCHANGED vars
  BY <1>5 DEF vars, locals, network, Sent, Contract!vars
<1>6. ASSUME NEW t \in Threads, Step(t)
      PROVE  Contract!Next
  BY <1>2, <1>3, <1>6, OwnAffair, EndsWithout DEF Step, Contract!Next
<1> QED BY <1>1, <1>4, <1>5, <1>6 DEF Next, Quiet, Contract!Next

\* A call of lookup with its retries is an Exchange: at most MaxRetries queries
\* go to the one server asked, and at most one answer is taken, to the last of
\* them as far as id, server and port can tell.
THEOREM KeepsContract == Spec => ImplementsExchange
<1>1. Spec => [](TypeInv /\ ReplyInv /\ Genuine)
  BY InitTypeInv, StepTypeInv, InitReplyInv, StepReplyInv, InitGenuine, StepGenuine, PTL
  DEF Spec
<1> QED
  BY <1>1, ExchangeStart, ExchangeStep, PTL DEF Spec, ImplementsExchange, Contract!Spec

=============================================================================
