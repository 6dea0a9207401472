------------------------------ MODULE Upstream ------------------------------
(***************************************************************************)
(* One question put to one name server: lookup of lib/Core.hpp inside      *)
(* executeWithRetry of lib/RetryPolicy.hpp, for several threads that share *)
(* lib/tracking/TransactionTracker.hpp and draw their transaction ids with *)
(* lib/security/SecurityUtils.hpp.                                         *)
(*                                                                         *)
(* A lookup opens a socket on a port the system picks among the free ones, *)
(* draws an id the tracker does not hold, registers it, sends and waits.   *)
(* Datagrams are delayed, lost or delivered twice; one that is still on    *)
(* its way when its port is opened again is delivered there.               *)
(* What a Transaction records beside its id is never read and left out.    *)
(***************************************************************************)
EXTENDS Naturals, FiniteSets

CONSTANTS Threads, Servers, Ids, Ports, None,
          MaxDraws,      \* attempts of generateTransactionId
          MaxRetries,    \* maxRetries of NetworkConfig
          MaxCalls       \* bound on the calls of each thread

ASSUME UpstreamAssumption ==
  /\ None \notin Servers \cup Ids \cup Ports
  /\ MaxDraws \in Nat /\ MaxDraws >= 1
  /\ MaxRetries \in Nat /\ MaxRetries >= 1
  /\ MaxCalls \in Nat

VARIABLES
  inFlight,                                   \* the ids the tracker holds
  open,                                       \* ports with an open socket
  pc, server, attempt, draws, txnId, port,    \* locals, per thread
  calls,                                      \* calls begun, per thread
  asked,     \* history: the queries sent
  net,       \* replies on their way
  got,       \* history: <<query, query its accepted reply answered>>
  leaked,    \* history: ports of sockets nobody will close
  dropped,   \* history: ids of lookups that ended without removeTxn
  doubled    \* history: an id was registered while the tracker held it, or a
             \* datagram was delivered twice

locals == <<server, attempt, draws, txnId, port>>
network == <<asked, net, got, doubled>>
lost == <<leaked, dropped>>
vars == <<inFlight, open, pc, locals, calls, network, lost>>

Kinds == {"response", "unfit"}   \* unfit: does not parse, or is a query
Query == [thread : Threads, call : Nat, attempt : Nat, id : Ids, to : Servers,
          port : Ports]
Reply == [answers : Query, kind : Kinds]

Init ==
  /\ inFlight = {} /\ open = {}
  /\ pc = [t \in Threads |-> "idle"]
  /\ server = [t \in Threads |-> None]
  /\ attempt = [t \in Threads |-> 0] /\ draws = [t \in Threads |-> 0]
  /\ txnId = [t \in Threads |-> None] /\ port = [t \in Threads |-> None]
  /\ calls = [t \in Threads |-> 0]
  /\ asked = {} /\ net = {} /\ got = {} /\ leaked = {} /\ dropped = {}
  /\ doubled = FALSE

Goto(t, l) == pc' = [pc EXCEPT ![t] = l]
MyQuery(t) == [thread |-> t, call |-> calls[t], attempt |-> attempt[t],
               id |-> txnId[t], to |-> server[t], port |-> port[t]]

\* The locals of t's lookup die with it, and those of the call too when it ends.
Forget(t) ==
  /\ draws' = [draws EXCEPT ![t] = 0]
  /\ txnId' = [txnId EXCEPT ![t] = None]
  /\ port' = [port EXCEPT ![t] = None]
Return(t) ==
  /\ Goto(t, "idle")
  /\ attempt' = [attempt EXCEPT ![t] = 0]
  /\ server' = [server EXCEPT ![t] = None]

\* The tracker's operations, each under its mutex.
checkTxnId(i) == i \in inFlight

\* Mutant: the transaction stays.
RemoveNothing(i) == UNCHANGED inFlight

removeTxn(i) == inFlight' = inFlight \ {i}

\* Mutant: the socket stays open.
CloseNothing(t) == UNCHANGED open

closeSocket(t) == open' = open \ {port[t]}

\* Mutant: the loop draws once too often.
ExhaustedLater(t) == draws[t] > MaxDraws

\* generateTransactionId has made all its attempts.
Exhausted(t) == draws[t] >= MaxDraws

-----------------------------------------------------------------------------
\* recursiveLookup asks server s.
begin(t, s) ==
  /\ pc[t] = "idle" /\ calls[t] < MaxCalls
  /\ calls' = [calls EXCEPT ![t] = @ + 1]
  /\ server' = [server EXCEPT ![t] = s]
  /\ Goto(t, "socket")
  /\ UNCHANGED <<inFlight, open, attempt, draws, txnId, port, network, lost>>

\* socket and bind to port 0.
bindSocket(t) ==
  /\ pc[t] = "socket"
  /\ \E p \in Ports \ open : open' = open \cup {p} /\ port' = [port EXCEPT ![t] = p]
  /\ Goto(t, "generate")
  /\ UNCHANGED <<inFlight, server, attempt, draws, txnId, calls, network, lost>>

\* No socket is left, or no port: runtime_error, which nobody retries.
bindFails(t) ==
  /\ pc[t] = "socket"
  /\ Return(t)
  /\ UNCHANGED <<inFlight, open, draws, txnId, port, calls, network, lost>>

\* Mutant: the loop ends only with an id that is free.
GenerateUntilFree(t) ==
  /\ pc[t] = "generate"
  /\ \E i \in Ids \ inFlight :
       Goto(t, "register") /\ txnId' = [txnId EXCEPT ![t] = i] /\ UNCHANGED draws
  /\ UNCHANGED <<inFlight, open, server, attempt, port, calls, network, lost>>

\* One iteration of generateTransactionId: draw, and checkTxnId under the lock.
generate(t) ==
  /\ pc[t] = "generate" /\ ~Exhausted(t)
  /\ \E i \in Ids :
       IF checkTxnId(i)
       THEN draws' = [draws EXCEPT ![t] = @ + 1] /\ UNCHANGED <<pc, txnId>>
       ELSE Goto(t, "register") /\ txnId' = [txnId EXCEPT ![t] = i] /\ UNCHANGED draws
  /\ UNCHANGED <<inFlight, open, server, attempt, port, calls, network, lost>>

\* "too many txnId collisions occurred": the socket stays open.
generateFails(t) ==
  /\ pc[t] = "generate" /\ Exhausted(t)
  /\ leaked' = leaked \cup {port[t]}
  /\ Forget(t) /\ Return(t)
  /\ UNCHANGED <<inFlight, open, calls, network, dropped>>

\* registerTxn overwrites: another thread may have registered the same id.
registerTxn(t) ==
  /\ pc[t] = "register"
  /\ inFlight' = inFlight \cup {txnId[t]}
  /\ Goto(t, "send")
  /\ doubled' = (doubled \/ checkTxnId(txnId[t]))
  /\ UNCHANGED <<open, locals, calls, asked, net, got, lost>>

\* A throw from a registered lookup that closes nothing and removes nothing.
Abandon(t) ==
  /\ leaked' = leaked \cup {port[t]}
  /\ dropped' = dropped \cup {txnId[t]}
  /\ Forget(t) /\ Return(t)
  /\ UNCHANGED <<inFlight, open, calls>>

\* packet.write throws: the name does not fit.
writeFails(t) ==
  /\ pc[t] = "send"
  /\ Abandon(t)
  /\ UNCHANGED network

\* sendto, whose result is not looked at.
send(t) ==
  /\ pc[t] = "send"
  /\ asked' = asked \cup {MyQuery(t)}
  /\ Goto(t, "recv")
  /\ UNCHANGED <<inFlight, open, locals, calls, net, got, doubled, lost>>

-----------------------------------------------------------------------------
\* The datagram r reaches t's socket; a copy of it may follow.
Arrives(t, r) ==
  /\ pc[t] = "recv" /\ r \in net /\ r.answers.port = port[t]
  /\ \/ net' = net \ {r} /\ UNCHANGED doubled
     \/ doubled' = TRUE /\ UNCHANGED net

\* Mutant: where it comes from is not compared.
ValidAnySource(t, r) == r.kind = "response" /\ r.answers.id = txnId[t]

\* lookup's checks: it parses, its id, its source, and it is a response.
Valid(t, r) ==
  /\ r.kind = "response"
  /\ r.answers.id = txnId[t]
  /\ r.answers.to = server[t]

accept(t) ==
  \E r \in net :
    /\ Arrives(t, r) /\ Valid(t, r)
    /\ removeTxn(txnId[t])
    /\ closeSocket(t)
    /\ got' = got \cup {<<MyQuery(t), r.answers>>}
    /\ Forget(t) /\ Return(t)
    /\ UNCHANGED <<calls, asked, lost>>

\* fromBuffer or a check throws; executeWithRetry lets it pass.
reject(t) ==
  \E r \in net :
    /\ Arrives(t, r) /\ ~Valid(t, r)
    /\ Abandon(t)
    /\ UNCHANGED <<asked, got>>

\* recvfrom fails for another reason than the timeout.
recvFails(t) ==
  /\ pc[t] = "recv"
  /\ closeSocket(t)
  /\ dropped' = dropped \cup {txnId[t]}
  /\ Forget(t) /\ Return(t)
  /\ UNCHANGED <<inFlight, calls, network, leaked>>

\* executeWithRetry on a TimeoutException: throw after the last attempt,
\* else sleep and try again.
retry(t) ==
  IF attempt[t] = MaxRetries - 1
  THEN Return(t)
  ELSE /\ Goto(t, "socket")
       /\ attempt' = [attempt EXCEPT ![t] = @ + 1]
       /\ UNCHANGED server

\* Mutant: the transaction is removed.
TimeoutRemoves(t) ==
  /\ pc[t] = "recv"
  /\ closeSocket(t)
  /\ removeTxn(txnId[t])
  /\ Forget(t) /\ retry(t)
  /\ UNCHANGED <<calls, network, lost>>

\* SO_RCVTIMEO passes: the socket is closed, the transaction stays.
timeout(t) ==
  /\ pc[t] = "recv"
  /\ closeSocket(t)
  /\ dropped' = dropped \cup {txnId[t]}
  /\ Forget(t) /\ retry(t)
  /\ UNCHANGED <<inFlight, calls, network, leaked>>

-----------------------------------------------------------------------------
\* A server replies at any time; no second reply to a query follows one that is
\* under way or was accepted (Arrives has the network repeat a reply).
reply(q, k) ==
  /\ \A r \in net : r.answers # q
  /\ \A g \in got : g[2] # q
  /\ net' = net \cup {[answers |-> q, kind |-> k]}
  /\ UNCHANGED <<inFlight, open, pc, locals, calls, asked, got, doubled, lost>>

\* Every call has returned and no more are made.
Quiet ==
  /\ \A t \in Threads : pc[t] = "idle" /\ calls[t] = MaxCalls
  /\ UNCHANGED vars

Step(t) ==
  \/ bindSocket(t) \/ bindFails(t) \/ generate(t) \/ generateFails(t)
  \/ registerTxn(t) \/ writeFails(t) \/ send(t) \/ accept(t) \/ reject(t)
  \/ recvFails(t) \/ timeout(t)

Next ==
  \/ \E t \in Threads : Step(t) \/ \E s \in Servers : begin(t, s)
  \/ \E q \in asked, k \in Kinds : reply(q, k)
  \/ Quiet

Spec == Init /\ [][Next]_vars

\* A thread that can run does, and a wait ends at the latest with its timeout;
\* nothing is assumed of the servers.
FairSpec == Spec /\ \A t \in Threads : WF_vars(Step(t))

-----------------------------------------------------------------------------
HasSocket == {t \in Threads : pc[t] \in {"generate", "register", "send", "recv"}}
Registered == {t \in Threads : pc[t] \in {"send", "recv"}}

\* Every local has its type, at most MaxDraws ids are drawn and at most
\* MaxRetries attempts made (SecurityUtils.hpp:19, RetryPolicy.hpp:23).
TypeOK ==
  /\ inFlight \subseteq Ids /\ open \subseteq Ports
  /\ pc \in [Threads ->
               {"idle", "socket", "generate", "register", "send", "recv"}]
  /\ server \in [Threads -> Servers \cup {None}]
  /\ attempt \in [Threads -> 0 .. MaxRetries - 1]
  /\ draws \in [Threads -> 0 .. MaxDraws]
  /\ txnId \in [Threads -> Ids \cup {None}]
  /\ port \in [Threads -> Ports \cup {None}]
  /\ calls \in [Threads -> 0 .. MaxCalls]
  /\ asked \subseteq Query /\ net \subseteq Reply
  /\ got \subseteq Query \X Query
  /\ leaked \subseteq Ports /\ dropped \subseteq Ids /\ doubled \in BOOLEAN

\* lookup never closes a socket that is not its own nor uses one twice, and
\* the only sockets left open behind it are those of the throws that do not
\* close (Core.hpp:68, 82, 114-130): a timeout, a receive error and a success
\* leave none.
SocketsAccounted ==
  /\ open = leaked \cup {port[t] : t \in HasSocket}
  /\ \A t \in HasSocket : port[t] \notin leaked
  /\ \A t, u \in HasSocket : port[t] = port[u] => t = u

\* The tracker holds the ids of lookups under way and of failed ones only: a
\* success leaves nothing behind, whatever other threads drew the same id.
SuccessLeavesNoTrace ==
  inFlight \subseteq {txnId[t] : t \in Registered} \cup dropped

\* A reply that is accepted answers the query of that very attempt, unless a
\* datagram was repeated or two threads registered one id.  A late reply to a
\* timed-out attempt may arrive at the socket of another lookup; what tells
\* them apart is that the tracker still holds the old id (Core.hpp:102-119).
AnswersOwnQuery == ~doubled => \A g \in got : g[1] = g[2]

\* A call refines its contract: sockets, draws, registrations and timeouts are
\* its own affair, and a timeout that leads to a retry begins no new call.
Sent == [t \in Threads |-> IF pc[t] = "recv" THEN attempt[t] + 1 ELSE attempt[t]]
Contract == INSTANCE Exchange WITH sent <- Sent
ImplementsExchange == Contract!Spec

\* Every call ends, with a response or an exception (RetryPolicy.hpp:23-40).
CallsReturn == \A t \in Threads : pc[t] # "idle" ~> pc[t] = "idle"

=============================================================================
