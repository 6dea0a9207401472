---------------------------- MODULE SlidingWindow ----------------------------
(***************************************************************************)
(* What lib/security/RateLimiter.hpp promises: queries are decided one     *)
(* after the other, each by counting all grants its client has had in the  *)
(* window that ends with it.                                               *)
(***************************************************************************)
EXTENDS Integers, Sequences, FiniteSets

CONSTANTS Clients, Limit, Window, CountMod

VARIABLES
  now,
  granted,    \* per client, the times of all its grants
  refused,    \* per client, how many queries were refused
  asking      \* the query being decided, if any

vars == <<now, granted, refused, asking>>

Recent(q) ==
  {i \in 1..Len(granted[q.client]) : granted[q.client][i] >= q.now - Window}

Init ==
  /\ now = 0 /\ asking = {}
  /\ granted = [c \in Clients |-> <<>>] /\ refused = [c \in Clients |-> 0]

Pass == now' = now + 1 /\ UNCHANGED <<granted, refused, asking>>

Ask(c) ==
  /\ asking = {}
  /\ asking' = {[client |-> c, now |-> now]}
  /\ UNCHANGED <<now, granted, refused>>

Grant(q) ==
  /\ asking = {q}
  /\ Cardinality(Recent(q)) < Limit
  /\ granted' = [granted EXCEPT ![q.client] = Append(@, q.now)]
  /\ asking' = {}
  /\ UNCHANGED <<now, refused>>

Refuse(q) ==
  /\ asking = {q}
  /\ Cardinality(Recent(q)) = Limit
  /\ refused' = [refused EXCEPT ![q.client] = (@ + 1) % CountMod]
  /\ asking' = {}
  /\ UNCHANGED <<now, granted>>

Next ==
  \/ Pass
  \/ \E c \in Clients : Ask(c)
  \/ \E q \in asking : Grant(q) \/ Refuse(q)

Spec == Init /\ [][Next]_vars
=============================================================================
