------------------------------ MODULE Exchange ------------------------------
(***************************************************************************)
(* What lookup of lib/Core.hpp inside executeWithRetry promises            *)
(* recursiveLookup: a call puts one question to one server, a few times at *)
(* most, and is over with one answer or none.  The answer is to the last   *)
(* query sent, as far as its id, its server and its port can tell, and to  *)
(* no other unless an id or a datagram was doubled.                        *)
(***************************************************************************)
EXTENDS Naturals

CONSTANTS Threads, Servers, Ids, Ports, None, MaxRetries

VARIABLES
  server,    \* per thread, whom its call asks
  sent,      \* per thread, the queries its call has sent
  calls,     \* per thread, the calls begun
  asked, got, doubled   \* history, as in Upstream

vars == <<server, sent, calls, asked, got, doubled>>

Init ==
  /\ server = [t \in Threads |-> None] /\ sent = [t \in Threads |-> 0]
  /\ calls = [t \in Threads |-> 0]
  /\ asked = {} /\ got = {} /\ doubled = FALSE

Over(t) == server' = [server EXCEPT ![t] = None] /\ sent' = [sent EXCEPT ![t] = 0]

Ask(t, s) ==
  /\ server[t] = None
  /\ server' = [server EXCEPT ![t] = s]
  /\ calls' = [calls EXCEPT ![t] = @ + 1]
  /\ UNCHANGED <<sent, asked, got>>

Send(t, i, p) ==
  /\ server[t] # None /\ sent[t] < MaxRetries
  /\ asked' = asked \cup {[thread |-> t, call |-> calls[t], attempt |-> sent[t],
                           id |-> i, to |-> server[t], port |-> p]}
  /\ sent' = [sent EXCEPT ![t] = @ + 1]
  /\ UNCHANGED <<server, calls, got>>

Latest(t, q) ==
  q.thread = t /\ q.call = calls[t] /\ q.attempt + 1 = sent[t] /\ q.to = server[t]

Matches(q, r) == r.id = q.id /\ r.to = q.to /\ r.port = q.port

Answer(t, q, r) ==
  /\ server[t] # None /\ Latest(t, q) /\ Matches(q, r)
  /\ q = r \/ doubled
  /\ got' = got \cup {<<q, r>>}
  /\ Over(t)
  /\ UNCHANGED <<calls, asked>>

GiveUp(t) == server[t] # None /\ Over(t) /\ UNCHANGED <<calls, asked, got>>

Next ==
  /\ doubled' \in {doubled, TRUE}
  /\ \/ UNCHANGED <<server, sent, calls, asked, got>>
     \/ \E t \in Threads :
          \/ \E s \in Servers : Ask(t, s)
          \/ \E i \in Ids, p \in Ports : Send(t, i, p)
          \/ \E q, r \in asked : Answer(t, q, r)
          \/ GiveUp(t)

Spec == Init /\ [][Next]_vars
=============================================================================
