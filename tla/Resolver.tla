------------------------------ MODULE Resolver ------------------------------
(***************************************************************************)
(* recursiveLookup and handleQueryThreaded of lib/Core.hpp: worker threads *)
(* that answer requests by following referrals from the root servers, and  *)
(* share the caches of lib/cache.                                          *)
(*                                                                         *)
(* A question is a name and a type; an address is the server it leads to.  *)
(* A packet holds the sets of its answers and of its NS records; where the *)
(* code takes the first of a section, any of the set is taken.  What one   *)
(* attempt at a server does is Upstream's matter: here it yields a packet  *)
(* Internet allows, times out or throws.  What the caches drop and when    *)
(* is DnsCache's: here an entry, or part of an answer, may go at any time. *)
(***************************************************************************)
EXTENDS Naturals, Sequences, FiniteSets, Functions

CONSTANTS Threads, Names, Types, Zones, Servers, None,
          A,               \* the type of name server addresses
          Other,           \* the content of a record that is not an address
          Roots,           \* RootServerRepository::servers, a sequence
          Chain,           \* a name's own and its enclosing zones, innermost first
          EndsWith,        \* the zones whose text a name ends with
          Internet,        \* the packets a server may send about a question
          MaxDepth,        \* MAX_RECURSION_DEPTH
          MaxRequests      \* bound on the requests of each thread

Questions == Names \X Types
Codes == {"NOERROR", "FORMERR", "SERVFAIL", "NXDOMAIN", "REFUSED"}
NSRecord == [zone : Zones, host : Names, glue : Servers \cup {None}]
Packet == [rcode : Codes, answers : SUBSET (Servers \cup {Other}),
           ns : SUBSET NSRecord]

ASSUME ResolverAssumption ==
  /\ None \notin Servers \cup Codes \cup Questions /\ Other \notin Servers /\ A \in Types
  /\ Roots \in Seq(Servers) /\ MaxDepth \in Nat /\ MaxRequests \in Nat
  /\ Chain \in [Names -> Seq(Zones)] /\ EndsWith \in [Names -> SUBSET Zones]
  /\ \A s \in Servers, q \in Questions : Internet[s, q] \subseteq Packet

VARIABLES
  pos, neg, nsCache,   \* the three caches
  stack,               \* per thread, the active calls of recursiveLookup
  visited,             \* per thread, the set they share
  ret,                 \* per thread, the packet the last call returned
  request,             \* per thread, the question being answered
  requests,            \* per thread, the requests begun
  last,                \* per thread, the reply to its last request
  heard                \* history: <<question, code, answers>> servers sent

caches == <<pos, neg, nsCache>>
vars == <<caches, stack, visited, ret, request, requests, last, heard>>

Init ==
  /\ pos = [q \in Questions |-> {}]
  /\ neg = [q \in Questions |-> None]
  /\ nsCache = [z \in Zones |-> None]
  /\ stack = [t \in Threads |-> <<>>]
  /\ visited = [t \in Threads |-> {}]
  /\ ret = [t \in Threads |-> None]
  /\ request = [t \in Threads |-> None]
  /\ requests = [t \in Threads |-> 0]
  /\ last = [t \in Threads |-> None]
  /\ heard = {}

\* One activation of recursiveLookup; root counts the servers of the for loop
\* already begun.  History: cached is the name server the cache gave, asked is
\* whom it has asked.
Call(q) == [pc |-> "enter", q |-> q, walk |-> Chain[q[1]], ns |-> None, root |-> 0,
            timedOut |-> FALSE, response |-> None, cached |-> None, asked |-> {}]
Fail(code) == [rcode |-> code, answers |-> {}, ns |-> {}]

Depth(t) == Len(stack[t]) - 1
Top(t) == stack[t][Len(stack[t])]
At(t, l) == stack[t] # <<>> /\ Top(t).pc = l
SetTop(t, f) == stack' = [stack EXCEPT ![t][Len(stack[t])] = f]
Push(t, f, q) ==
  stack' = [stack EXCEPT ![t] = Append([@ EXCEPT ![Len(@)] = f], Call(q))]
ReturnPacket(t, p) ==
  /\ stack' = [stack EXCEPT ![t] = SubSeq(@, 1, Len(@) - 1)]
  /\ ret' = [ret EXCEPT ![t] = p]

-----------------------------------------------------------------------------
\* DnsPacket: the records that concern name n, with glue or without.
getNs(p, n) == {r \in p.ns : r.zone \in EndsWith[n]}
glued(p, n) == {r \in getNs(p, n) : r.glue # None}
getA(p) == p.answers \cap Servers

\* cache.lookup: the negative cache is asked first.
Hit(q) == neg[q] # None \/ pos[q] # {}

\* Mutant: the SERVFAIL of the guard is cached like a server's.
CircularCached(t) ==
  /\ At(t, "enter") /\ Top(t).q[1] \in visited[t]
  /\ ReturnPacket(t, Fail("SERVFAIL"))
  /\ neg' = [neg EXCEPT ![Top(t).q] = "SERVFAIL"]
  /\ UNCHANGED <<pos, nsCache, visited, request, requests, last, heard>>

\* Entry: the name was visited by this request before.
circular(t) ==
  /\ At(t, "enter") /\ Top(t).q[1] \in visited[t]
  /\ ReturnPacket(t, Fail("SERVFAIL"))
  /\ UNCHANGED <<caches, visited, request, requests, last, heard>>

\* Mutant: the name is not remembered.
VisitNothing(t) == Top(t).q[1] \notin visited[t] /\ UNCHANGED visited

\* The name is new to the request: remember it.
visit(t) ==
  /\ Top(t).q[1] \notin visited[t]
  /\ visited' = [visited EXCEPT ![t] = @ \cup {Top(t).q[1]}]

\* Mutant: one level too many.
TooDeepLater(t) == Depth(t) > MaxDepth

tooDeep(t) == Depth(t) >= MaxDepth

depthExceeded(t) ==
  /\ At(t, "enter") /\ visit(t) /\ tooDeep(t)
  /\ ReturnPacket(t, Fail("SERVFAIL"))
  /\ UNCHANGED <<caches, request, requests, last, heard>>

\* A cached failure is always reported as NXDOMAIN.
cacheHit(t) ==
  /\ At(t, "enter") /\ visit(t) /\ ~tooDeep(t) /\ Hit(Top(t).q)
  /\ ReturnPacket(t, IF neg[Top(t).q] # None
                     THEN Fail("NXDOMAIN")
                     ELSE [rcode |-> "NOERROR", answers |-> pos[Top(t).q], ns |-> {}])
  /\ UNCHANGED <<caches, request, requests, last, heard>>

cacheMiss(t) ==
  /\ At(t, "enter") /\ visit(t) /\ ~tooDeep(t) /\ ~Hit(Top(t).q)
  /\ SetTop(t, [Top(t) EXCEPT !.pc = "walk"])
  /\ UNCHANGED <<caches, ret, request, requests, last, heard>>

\* lookupNS for the name, then for each enclosing zone until one is known.
walk(t) ==
  LET f == Top(t)
  IN  /\ At(t, "walk")
      /\ SetTop(t, IF f.walk = <<>> THEN [f EXCEPT !.pc = "root"]
                   ELSE IF nsCache[Head(f.walk)] # None
                   THEN [f EXCEPT !.pc = "root", !.walk = <<>>,
                                  !.ns = nsCache[Head(f.walk)],
                                  !.cached = nsCache[Head(f.walk)]]
                   ELSE [f EXCEPT !.walk = Tail(@)])
      /\ UNCHANGED <<caches, visited, ret, request, requests, last, heard>>

\* Mutant: a timeout does not end the use of the cached name server.
NextRootSameNs(t) ==
  LET f == Top(t)
  IN  /\ At(t, "root") /\ f.root < Len(Roots)
      /\ SetTop(t, [f EXCEPT !.pc = "ask", !.root = @ + 1,
                             !.ns = IF @ = None THEN Roots[f.root + 1] ELSE @])
      /\ UNCHANGED <<caches, visited, ret, request, requests, last, heard>>

\* The next turn of the loop over the root servers.
nextRoot(t) ==
  LET f == Top(t)
  IN  /\ At(t, "root") /\ f.root < Len(Roots)
      /\ SetTop(t, [f EXCEPT !.pc = "ask", !.root = @ + 1,
                             !.ns = IF @ = None \/ f.timedOut
                                    THEN Roots[f.root + 1] ELSE @])
      /\ UNCHANGED <<caches, visited, ret, request, requests, last, heard>>

-----------------------------------------------------------------------------
\* A packet p came back from the server asked.
Hears(t, p) ==
  /\ At(t, "ask") /\ p \in Internet[Top(t).ns, Top(t).q]
  /\ heard' = heard \cup {<<Top(t).q, p.rcode, p.answers>>}

Asked(t) == [Top(t) EXCEPT !.asked = @ \cup {Top(t).ns}]
Answered(p) == p.answers # {} /\ p.rcode = "NOERROR"
Failed(p) == p.rcode \in {"NXDOMAIN", "SERVFAIL"}
Referral(p) == ~Answered(p) /\ ~Failed(p)

\* Nothing is stored, and what another worker stored stays, when every TTL is 0.
answered(t, p) ==
  /\ Hears(t, p) /\ Answered(p)
  /\ pos' = [pos EXCEPT ![Top(t).q] = p.answers] \/ UNCHANGED pos
  /\ ReturnPacket(t, p)
  /\ UNCHANGED <<neg, nsCache, visited, request, requests, last>>

failed(t, p) ==
  /\ Hears(t, p) /\ Failed(p)
  /\ neg' = [neg EXCEPT ![Top(t).q] = p.rcode]
  /\ ReturnPacket(t, p)
  /\ UNCHANGED <<pos, nsCache, visited, request, requests, last>>

\* insertNS for the glue of every record that concerns the name: each is stored
\* or, with a TTL of 0 or a full cache, not.
insertNS(p, n) ==
  \E g \in [Zones -> Servers \cup {None}] :
    /\ \A z \in Zones :
         g[z] = nsCache[z] \/ \E r \in glued(p, n) : r.zone = z /\ g[z] = r.glue
    /\ nsCache' = g

\* Follow the glue.
referred(t, p) ==
  LET n == Top(t).q[1]
  IN  /\ Hears(t, p) /\ Referral(p) /\ glued(p, n) # {}
      /\ insertNS(p, n)
      /\ \E r \in glued(p, n) : SetTop(t, [Asked(t) EXCEPT !.ns = r.glue])
      /\ UNCHANGED <<pos, neg, visited, ret, request, requests, last>>

\* No glue: resolve the host of a name server first.
recurse(t, p) ==
  LET n == Top(t).q[1]
  IN  /\ Hears(t, p) /\ Referral(p) /\ glued(p, n) = {}
      /\ \E r \in getNs(p, n) :
           Push(t, [Asked(t) EXCEPT !.pc = "resume", !.response = p], <<r.host, A>>)
      /\ UNCHANGED <<caches, visited, ret, request, requests, last>>

\* Neither an answer nor a name server.
noReferral(t, p) ==
  /\ Hears(t, p) /\ Referral(p) /\ getNs(p, Top(t).q[1]) = {}
  /\ ReturnPacket(t, p)
  /\ UNCHANGED <<caches, visited, request, requests, last>>

\* TimeoutException after the retries: on to the next root server.
timedOut(t) ==
  /\ At(t, "ask")
  /\ SetTop(t, [Asked(t) EXCEPT !.pc = "root", !.timedOut = TRUE])
  /\ UNCHANGED <<caches, visited, ret, request, requests, last, heard>>

\* Mutant: the packet of the recursive call is passed on.
ResumeMixed(t) ==
  LET f == Top(t)
  IN  /\ At(t, "resume")
      /\ ReturnPacket(t, ret[t])
      /\ UNCHANGED <<caches, visited, request, requests, last, heard>>

\* The recursive call has returned.
resume(t) ==
  LET f == Top(t)
  IN  /\ At(t, "resume")
      /\ \/ \E a \in getA(ret[t]) :
              /\ SetTop(t, [f EXCEPT !.pc = "ask", !.ns = a, !.response = None])
              /\ ret' = [ret EXCEPT ![t] = None]
         \/ getA(ret[t]) = {} /\ ReturnPacket(t, f.response)
      /\ UNCHANGED <<caches, visited, request, requests, last, heard>>

-----------------------------------------------------------------------------
\* The handler replies p, or nothing when p is None, and is free again.
Finish(t, p) ==
  /\ last' = [last EXCEPT ![t] = [q |-> request[t], packet |-> p]]
  /\ request' = [request EXCEPT ![t] = None]
  /\ ret' = [ret EXCEPT ![t] = None]
  /\ visited' = [visited EXCEPT ![t] = {}]

\* A request with a question that passes the rate limiter.
begin(t, q) ==
  /\ request[t] = None /\ requests[t] < MaxRequests
  /\ requests' = [requests EXCEPT ![t] = @ + 1]
  /\ request' = [request EXCEPT ![t] = q]
  /\ stack' = [stack EXCEPT ![t] = <<Call(q)>>]
  /\ UNCHANGED <<caches, visited, ret, last, heard>>

\* A request that is malformed, over the limit or without a question.
turnAway(t, p) ==
  /\ request[t] = None /\ requests[t] < MaxRequests
  /\ requests' = [requests EXCEPT ![t] = @ + 1]
  /\ Finish(t, p)
  /\ UNCHANGED <<caches, stack, heard>>

\* The lookup has returned: its packet is the reply; nothing is sent when it
\* does not fit the buffer or sendto fails.
respond(t) ==
  /\ request[t] # None /\ stack[t] = <<>>
  /\ Finish(t, ret[t]) \/ Finish(t, None)
  /\ UNCHANGED <<caches, stack, requests, heard>>

\* An exception leaves every active call; the handler catches it.
Throw(t) ==
  /\ stack' = [stack EXCEPT ![t] = <<>>]
  /\ Finish(t, Fail("SERVFAIL"))
  /\ UNCHANGED <<caches, requests, heard>>

allRootsFailed(t) == At(t, "root") /\ Top(t).root >= Len(Roots) /\ Throw(t)
askThrows(t) == At(t, "ask") /\ Throw(t)

\* Entries expire and are evicted; an answer may lose some of its records.
forget ==
  \/ \E q \in Questions, a \in SUBSET (Servers \cup {Other}) :
       /\ a \subseteq pos[q] /\ a # pos[q]
       /\ pos' = [pos EXCEPT ![q] = a] /\ UNCHANGED <<neg, nsCache>>
  \/ \E q \in Questions :
       neg[q] # None /\ neg' = [neg EXCEPT ![q] = None] /\ UNCHANGED <<pos, nsCache>>
  \/ \E z \in Zones :
       /\ nsCache[z] # None
       /\ nsCache' = [nsCache EXCEPT ![z] = None] /\ UNCHANGED <<pos, neg>>

Forget == forget /\ UNCHANGED <<stack, visited, ret, request, requests, last, heard>>

Quiet ==
  /\ \A t \in Threads : request[t] = None /\ requests[t] = MaxRequests
  /\ UNCHANGED vars

Reply(t) ==
  At(t, "ask") /\ \E p \in Internet[Top(t).ns, Top(t).q] :
    answered(t, p) \/ failed(t, p) \/ referred(t, p) \/ recurse(t, p) \/ noReferral(t, p)

Step(t) ==
  \/ circular(t) \/ depthExceeded(t) \/ cacheHit(t) \/ cacheMiss(t)
  \/ walk(t) \/ nextRoot(t) \/ allRootsFailed(t)
  \/ Reply(t) \/ timedOut(t) \/ askThrows(t)
  \/ resume(t) \/ respond(t)

Next ==
  \/ \E t \in Threads :
       \/ Step(t)
       \/ \E q \in Questions : begin(t, q)
       \/ \E p \in {Fail("REFUSED"), Fail("FORMERR"), None} : turnAway(t, p)
  \/ Forget \/ Quiet

Spec == Init /\ [][Next]_vars

\* A worker that can run does: lookups at a server return, with or without a
\* packet (Upstream's CallsReturn).
FairSpec == Spec /\ \A t \in Threads : WF_vars(Step(t))

-----------------------------------------------------------------------------
Frame ==
  [pc : {"enter", "walk", "root", "ask", "resume"}, q : Questions, walk : Seq(Zones),
   ns : Servers \cup {None}, root : 0 .. Len(Roots), timedOut : BOOLEAN,
   response : Packet \cup {None}, cached : Servers \cup {None}, asked : SUBSET Servers]

\* The state has its types, and no more than MaxDepth + 1 calls are active
\* (Core.hpp:160).
TypeOK ==
  /\ \A q \in Questions : pos[q] \subseteq Servers \cup {Other}
  /\ \A q \in Questions : neg[q] \in {"NXDOMAIN", "SERVFAIL", None}
  /\ nsCache \in [Zones -> Servers \cup {None}]
  /\ \A t \in Threads : /\ Len(stack[t]) <= MaxDepth + 1
                        /\ \A i \in DOMAIN stack[t] : stack[t][i] \in Frame
                        /\ visited[t] \subseteq Names
                        /\ ret[t] = None \/ ret[t] \in Packet
                        /\ request[t] = None \/ request[t] \in Questions

\* No name waits for itself: the calls below the top of a stack are about
\* different names, all of them visited (Core.hpp:150-157).
NoSelfWait ==
  \A t \in Threads :
    \A i, j \in 1 .. Len(stack[t]) - 1 :
      /\ stack[t][i].q[1] \in visited[t]
      /\ stack[t][i].q[1] = stack[t][j].q[1] => i = j

\* Failures do not pollute the cache: whatever is cached for a question, good
\* or bad, a server said of that very question.  The SERVFAILs of the guards
\* and of exceptions are not cached, nor those of a name server's name for the
\* name it serves.
CacheHeard ==
  \A q \in Questions :
    /\ neg[q] # None => \E h \in heard : h[1] = q /\ h[2] = neg[q]
    /\ pos[q] # {} => \E h \in heard : h[1] = q /\ h[2] = "NOERROR"
                                       /\ pos[q] \subseteq h[3]

\* A reply's answers were heard for the client's question and no other, along
\* whatever chain of referrals, recursions and cache hits.
RepliesGrounded ==
  \A t \in Threads :
    last[t] # None /\ last[t].packet # None /\ last[t].packet.answers # {} =>
      \E h \in heard : h[1] = last[t].q /\ last[t].packet.answers \subseteq h[3]

\* Every request is finished.
RequestsEnd == \A t \in Threads : request[t] # None ~> request[t] = None

\* "Circular reference detected" means that the name is being resolved.
CircularMeansVisiting ==
  [][\A t \in Threads :
       circular(t) => \E i \in 1 .. Depth(t) : stack[t][i].q[1] = Top(t).q[1]]_vars

\* The call of t asked every root server but perhaps the first, and only a cached
\* name server that it asked in its place excuses that.
AllTried(t) ==
  LET missed == Range(Roots) \ Top(t).asked
  IN  /\ missed \subseteq {Roots[1]}
      /\ missed # {} => Top(t).cached # None /\ Top(t).cached \in Top(t).asked

\* "all root servers failed" is not said lightly: all were tried, where a cached
\* name server may stand for the first (Core.hpp:209-219).
RootsTried == [][\A t \in Threads : allRootsFailed(t) => AllTried(t)]_vars

=============================================================================
