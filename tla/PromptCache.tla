----------------------------- MODULE PromptCache -----------------------------
(***************************************************************************)
(* What lib/cache/DnsCache.hpp promises those who ask it: a cache that     *)
(* loses an entry the moment its time is over, and no entry before.  It    *)
(* has no steps for looking up and cleaning up: they change nothing that   *)
(* can be seen.  While an answer is being stored whole answers may go, to  *)
(* make room; the contract leaves open which.                              *)
(***************************************************************************)
EXTENDS Integers, FiniteSets

CONSTANTS Keys, Records, Codes, Domains, IPs,
          Terms, FailTerms,    \* how long something, or a failure, is kept
          MaxAnswers, MaxServers

VARIABLES
  now,
  answers, failures,   \* per key, the entries to be had; at most one failure
  servers,             \* per domain, at most one entry
  storing              \* the answer being stored, <<key, entries>>, if any

vars == <<now, answers, failures, servers, storing>>

Live(entries, t) == {e \in entries : t < e.expiresAt}
Aged(map, t) == [k \in DOMAIN map |-> Live(map[k], t)]
Used(map) == {k \in DOMAIN map : map[k] # {}}

Init ==
  /\ now = 0 /\ storing = {}
  /\ answers = [k \in Keys |-> {}] /\ failures = [k \in Keys |-> {}]
  /\ servers = [d \in Domains |-> {}]

Pass ==
  /\ now' = now + 1
  /\ answers' = Aged(answers, now')
  /\ failures' = Aged(failures, now')
  /\ servers' = Aged(servers, now')
  /\ UNCHANGED storing

Begin(k) ==
  /\ storing = {}
  /\ \E es \in SUBSET [record : Records, expiresAt : {now + t : t \in Terms}] :
       storing' = {<<k, es>>}
  /\ UNCHANGED <<now, answers, failures, servers>>

MakeRoom(k) ==
  /\ storing # {}
  /\ answers' = [answers EXCEPT ![k] = {}]
  /\ UNCHANGED <<now, failures, servers, storing>>

\* The clock may have moved since Begin.  Nothing is stored in place of an
\* answer of which nothing may be kept.
Store ==
  /\ Cardinality(Used(answers)) < MaxAnswers
  /\ \E w \in storing :
       answers' = IF w[2] = {} THEN answers
                  ELSE [answers EXCEPT ![w[1]] = Live(w[2], now)]
  /\ storing' = {}
  /\ UNCHANGED <<now, failures, servers>>

Fail(k) ==
  /\ storing = {}
  /\ \E c \in Codes, t \in FailTerms :
       failures' = [failures EXCEPT ![k] = {[resCode |-> c, expiresAt |-> now + t]}]
  /\ UNCHANGED <<now, answers, servers, storing>>

Learn(d) ==
  /\ storing = {}
  /\ Cardinality(Used(servers)) < MaxServers
  /\ \E i \in IPs, t \in Terms :
       servers' = [servers EXCEPT ![d] = {[ip |-> i, expiresAt |-> now + t]}]
  /\ UNCHANGED <<now, answers, failures, storing>>

Next ==
  \/ Pass \/ Store
  \/ \E k \in Keys : Begin(k) \/ MakeRoom(k) \/ Fail(k)
  \/ \E d \in Domains : Learn(d)

Spec == Init /\ [][Next]_vars
=============================================================================
