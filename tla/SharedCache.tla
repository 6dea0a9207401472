---------------------------- MODULE SharedCache ----------------------------
(***************************************************************************)
(* lib/cache/ThreadSafeCache.hpp over DnsCache: lookups of several workers *)
(* at once.  Both classes take their mutex shared for a lookup, so lookups *)
(* interleave; insertions take both exclusively.                           *)
(*                                                                         *)
(* A lookup takes a step per operation on a container.  What two such      *)
(* operations do to a container when they overlap is not modelled: the     *)
(* steps below go wrong already when each is atomic.  DnsCache models what *)
(* the operations do one at a time; here a bucket is live, expired, or     *)
(* emptied of its records, and a node of lruList is <<key, id>>, so that a *)
(* new node of a key is told from the old one.  A step through an iterator *)
(* that dangles, undefined in C++, has the mildest of its outcomes here.   *)
(***************************************************************************)
EXTENDS Naturals, Sequences, FiniteSets, SequencesExt

CONSTANTS Threads, Keys, Ids, None, maxEntries

VARIABLES
  cache, negativeCache, nsCache,   \* by key: "none", "live", "expired", "emptied"
  lruList, lruMap,                 \* nodes; the iterators, by key
  pc, key,                         \* where a worker is and what it looks up
  node                             \* the iterator updateLRU has found

vars == <<cache, negativeCache, nsCache, lruList, lruMap, pc, key, node>>
maps == <<cache, negativeCache, nsCache>>
lru == <<lruList, lruMap, node>>

Init ==
  /\ cache = [k \in Keys |-> "none"] /\ negativeCache = cache /\ nsCache = cache
  /\ lruList = <<>> /\ lruMap = [k \in Keys |-> None]
  /\ pc = [t \in Threads |-> "idle"] /\ key = [t \in Threads |-> None]
  /\ node = [t \in Threads |-> None]

Shared(t) == \A u \in Threads \ {t} : pc[u] # "evict"
Exclusive == \A u \in Threads : pc[u] = "idle"

Go(t, to) == pc' = [pc EXCEPT ![t] = to]
At(t, at, to) == pc[t] = at /\ Go(t, to) /\ UNCHANGED key
Enter(t, k, to) == pc[t] = "idle" /\ Go(t, to) /\ key' = [key EXCEPT ![t] = k]

-----------------------------------------------------------------------------
lookup(t, k) == Shared(t) /\ Enter(t, k, "negative") /\ UNCHANGED <<maps, lru>>
lookupNS(t, k) == Shared(t) /\ Enter(t, k, "nsFind") /\ UNCHANGED <<maps, lru>>

findNegative(t) ==
  /\ At(t, "negative", CASE negativeCache[key[t]] = "live" -> "idle"
                         [] negativeCache[key[t]] = "expired" -> "eraseNegative"
                         [] OTHER -> "find")
  /\ UNCHANGED <<maps, lru>>

eraseNegative(t) ==
  /\ At(t, "eraseNegative", "find")
  /\ negativeCache' = [negativeCache EXCEPT ![key[t]] = "none"]
  /\ UNCHANGED <<cache, nsCache, lru>>

find(t) ==
  /\ At(t, "find", IF cache[key[t]] = "none" THEN "idle" ELSE "expire")
  /\ UNCHANGED <<maps, lru>>

removeExpiredEntries(t) ==
  LET live == cache[key[t]] = "live"
  IN  /\ At(t, "expire", IF live THEN "lruFind" ELSE "eraseBucket")
      /\ cache' = [cache EXCEPT ![key[t]] = IF @ = "expired" THEN "emptied" ELSE @]
      /\ UNCHANGED <<negativeCache, nsCache, lru>>

eraseBucket(t) ==
  /\ At(t, "eraseBucket", "idle")
  /\ cache' = [cache EXCEPT ![key[t]] = "none"]
  /\ UNCHANGED <<negativeCache, nsCache, lru>>

\* updateLRU: find the iterator of the key, erase the node, push a new one,
\* keep its iterator.
lruFind(t) ==
  /\ At(t, "lruFind", IF lruMap[key[t]] = None THEN "lruPush" ELSE "lruErase")
  /\ node' = [node EXCEPT ![t] = lruMap[key[t]]]
  /\ UNCHANGED <<maps, lruList, lruMap>>

lruErase(t) ==
  /\ At(t, "lruErase", "lruPush")
  /\ lruList' = SelectSeq(lruList, LAMBDA m : m # node[t])
  /\ node' = [node EXCEPT ![t] = None]
  /\ UNCHANGED <<maps, lruMap>>

InUse == Range(lruList) \cup Range(lruMap) \cup Range(node)
NewNode(k) == CHOOSE m \in {k} \X Ids : m \notin InUse

lruPush(t) ==
  /\ At(t, "lruPush", "lruSet")
  /\ ({key[t]} \X Ids) \ InUse # {}
  /\ lruList' = <<NewNode(key[t])>> \o lruList
  /\ UNCHANGED <<maps, lruMap, node>>

lruSet(t) ==
  /\ At(t, "lruSet", "idle")
  /\ lruList # <<>>
  /\ lruMap' = [lruMap EXCEPT ![key[t]] = Head(lruList)]
  /\ UNCHANGED <<maps, lruList, node>>

nsFind(t) ==
  /\ At(t, "nsFind", IF nsCache[key[t]] = "expired" THEN "nsErase" ELSE "idle")
  /\ UNCHANGED <<maps, lru>>

nsErase(t) ==
  /\ At(t, "nsErase", "idle")
  /\ nsCache' = [nsCache EXCEPT ![key[t]] = "none"]
  /\ UNCHANGED <<cache, negativeCache, lru>>

-----------------------------------------------------------------------------
\* Records that may be kept at all are put in.
insert(t, k) == Exclusive /\ Enter(t, k, "evict") /\ UNCHANGED <<maps, lru>>

Full == Cardinality({k \in Keys : cache[k] # "none"}) >= maxEntries

\* On an empty list evictLRU returns at once and the loop spins.
evictLRU(t) ==
  /\ At(t, "evict", "evict") /\ Full /\ lruList # <<>>
  /\ LET victim == Last(lruList)[1]
     IN  /\ cache' = [cache EXCEPT ![victim] = "none"]
         /\ lruMap' = [lruMap EXCEPT ![victim] = None]
  /\ lruList' = Front(lruList)
  /\ UNCHANGED <<negativeCache, nsCache, node>>

\* The bucket is stored; updateLRU follows under the same lock.
store(t) ==
  /\ At(t, "evict", "idle") /\ ~Full
  /\ cache' = [cache EXCEPT ![key[t]] = "live"]
  /\ LET others == SelectSeq(lruList, LAMBDA m : m # lruMap[key[t]])
         mine   == CHOOSE m \in {key[t]} \X Ids : m \notin Range(others)
     IN  /\ lruList' = <<mine>> \o others
         /\ lruMap' = [lruMap EXCEPT ![key[t]] = mine]
  /\ UNCHANGED <<negativeCache, nsCache, node>>

insertNS(k) ==
  /\ Exclusive /\ nsCache' = [nsCache EXCEPT ![k] = "live"]
  /\ UNCHANGED <<cache, negativeCache, lru, pc, key>>

insertNegative(k) ==
  /\ Exclusive /\ negativeCache' = [negativeCache EXCEPT ![k] = "live"]
  /\ UNCHANGED <<cache, nsCache, lru, pc, key>>

\* A time to live runs out.
Expire(k) ==
  /\ \/ /\ cache[k] = "live" /\ cache' = [cache EXCEPT ![k] = "expired"]
        /\ UNCHANGED <<negativeCache, nsCache>>
     \/ /\ negativeCache[k] = "live"
        /\ negativeCache' = [negativeCache EXCEPT ![k] = "expired"]
        /\ UNCHANGED <<cache, nsCache>>
     \/ /\ nsCache[k] = "live" /\ nsCache' = [nsCache EXCEPT ![k] = "expired"]
        /\ UNCHANGED <<cache, negativeCache>>
  /\ UNCHANGED <<lru, pc, key>>

Next ==
  \/ \E t \in Threads, k \in Keys : lookup(t, k) \/ lookupNS(t, k) \/ insert(t, k)
  \/ \E t \in Threads :
       \/ findNegative(t) \/ eraseNegative(t) \/ find(t) \/ removeExpiredEntries(t)
       \/ eraseBucket(t) \/ lruFind(t) \/ lruErase(t) \/ lruPush(t) \/ lruSet(t)
       \/ nsFind(t) \/ nsErase(t) \/ evictLRU(t) \/ store(t)
  \/ \E k \in Keys : insertNS(k) \/ insertNegative(k) \/ Expire(k)

Spec == Init /\ [][Next]_vars

-----------------------------------------------------------------------------
\* updateLRU erases a node that is in the list: "Remove if the key exists"
\* (DnsCache.hpp:149).  Another lookup of the key may have erased it since the
\* iterator was read, and lruMap[key] = lruList.begin() may have kept the node
\* that another lookup pushed, which that one's next lookup erases.
EraseLive == \A t \in Threads : pc[t] = "lruErase" => node[t] \in Range(lruList)

=============================================================================
