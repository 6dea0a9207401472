------------------------------ MODULE DnsCache ------------------------------
(***************************************************************************)
(* lib/cache/DnsCache.hpp and lib/cache/CacheEntry.hpp: the positive cache *)
(* with its LRU list, the nameserver cache and the negative cache.         *)
(*                                                                         *)
(* Granularity.  insert and cleanupExpired hold the unique lock for their  *)
(* whole loop; the loop is modelled one iteration per step (phase says     *)
(* which writer holds the lock) so that the clock may move between two     *)
(* iterations.  The other operations are one step each.  lookup and        *)
(* lookupNS are written as if they had the cache to themselves: they hold  *)
(* only the shared lock although they modify it, a hazard of its own.      *)
(*                                                                         *)
(* Abstraction.  A bucket is a set of entries (the order of the records    *)
(* in an answer tells nothing apart here) and the empty set stands for a   *)
(* key that is not in the map: no operation leaves an empty bucket behind. *)
(* An entry keeps its record and expiresAt; insertedAt, originalTTL and    *)
(* hitCount are written and never read by the code.  Of CacheStats only    *)
(* currentEntries is kept, the one counter that is also decremented.       *)
(***************************************************************************)
EXTENDS Integers, Sequences, FiniteSets

CONSTANTS
  Names, QTypes,   \* query names as spelled by clients, query types
  Lower,           \* std::tolower on a whole name, a function on Names
  Records,         \* record payloads
  Domains, IPs,    \* nsCache keys and values
  TTLs,            \* ttl fields the upstream servers send, in seconds
  NegTTLs,         \* ttl arguments given to insertNegative
  minTTL, maxTTL,  \* bounds of enforceTTLBounds
  negMin, negMax,  \* the literals 60 and 600 of insertNegative
  maxEntries, maxNsEntries,
  Second,          \* clock ticks per second
  SizeMod,         \* 2^64, the range of size_t, small in the runs
  None,            \* no entry in nsCache or negativeCache, no pending key
  MaxTime          \* bound on the clock

ASSUME CacheAssumption ==
  /\ Lower \in [Names -> Names]
  /\ TTLs \subseteq Nat /\ NegTTLs \subseteq Nat
  /\ minTTL \in Nat \ {0} /\ maxTTL \in Nat /\ minTTL <= maxTTL
  /\ negMin \in Nat \ {0} /\ negMax \in Nat /\ negMin <= negMax
  /\ maxEntries \in Nat \ {0} /\ maxNsEntries \in Nat
  /\ Second \in Nat \ {0} /\ SizeMod \in Nat \ {0} /\ MaxTime \in Nat
  /\ IsFiniteSet(Names) /\ IsFiniteSet(QTypes) /\ IsFiniteSet(Records)
  /\ IsFiniteSet(Domains) /\ IsFiniteSet(TTLs)

VARIABLES
  now,           \* steady_clock, in ticks
  cache, negativeCache, nsCache,
  lruList,       \* the std::list, front first
  lruMap,        \* the keys of the map from keys to list iterators
  phase,         \* the writer inside its loop: "idle", "insert", "cleanup"
  pendKey, pendEntries,   \* locals key and entries of insert
  todo,          \* the buckets cleanupExpired has not visited yet
  currentEntries,  \* CacheStats::currentEntries
  lastUsed       \* history: when each key was last inserted or hit

vars == <<now, cache, negativeCache, nsCache, lruList, lruMap, phase,
          pendKey, pendEntries, todo, currentEntries, lastUsed>>
store == <<cache, currentEntries, negativeCache, nsCache>>
lru == <<lruList, lruMap, lastUsed>>
locals == <<phase, pendKey, pendEntries, todo>>

Keys == (Names \X QTypes)
Entry == [record : Records, expiresAt : Nat]
NSEntry == [ip : IPs, expiresAt : Nat]
NegEntry == [resCode : {"NXDOMAIN", "SERVFAIL"}, expiresAt : Nat]

ASSUME NoneAssumption == None \notin NSEntry \cup NegEntry

makeCacheKey(qname, qtype) == <<Lower[qname], qtype>>

\* Mutant: no upper bound.
UncappedTTL(ttl) == IF ttl = 0 THEN 0 ELSE IF ttl < minTTL THEN minTTL ELSE ttl

enforceTTLBounds(ttl) ==
  CASE ttl = 0     -> 0
    [] ttl > 0 /\ ttl < minTTL -> minTTL
    [] ttl >= minTTL /\ ttl > maxTTL -> maxTTL
    [] OTHER -> ttl

enforceNegTTL(ttl) ==
  LET capped == IF ttl < negMax THEN ttl ELSE negMax
  IN  IF capped > negMin THEN capped ELSE negMin

\* Mutant: an entry is served at the moment its time is over.
ExpiresLater(e) == now > e.expiresAt

isExpired(e) == now >= e.expiresAt

\* Mutant: one expired record takes its whole bucket with it.
RemoveIfAnyExpired(entries) ==
  {e \in entries : \A f \in entries : ~isExpired(f)}

removeExpiredEntries(entries) == {e \in entries : ~isExpired(e)}

\* Mutant: a signed counter.
UncountSigned(n) == currentEntries' = currentEntries - n

\* stats.currentEntries -= n, on a size_t.
Uncount(n) == currentEntries' = (currentEntries - n) % SizeMod

NsCached == {d \in Domains : nsCache[d] # None}
Cached == {k \in Keys : cache[k] # {}}

\* The std::list operations.  An iterator held in lruMap designates the node
\* with its key, so erasing through it removes the node at that position.
Nodes(list) == {list[i] : i \in 1..Len(list)}
EraseNode(list, key) ==
  LET i == CHOOSE j \in 1..Len(list) : list[j] = key
  IN  SubSeq(list, 1, i - 1) \o SubSeq(list, i + 1, Len(list))

\* Mutant: a key that is in the list keeps its place.
UpdateLRUOnce(key) ==
  /\ lruList' = IF key \in lruMap THEN lruList ELSE <<key>> \o lruList
  /\ lruMap' = lruMap \cup {key}
  /\ lastUsed' = [lastUsed EXCEPT ![key] = now]

\* Mutant: the old node is not erased.
UpdateLRUNoErase(key) ==
  /\ lruList' = <<key>> \o lruList
  /\ lruMap' = lruMap \cup {key}
  /\ lastUsed' = [lastUsed EXCEPT ![key] = now]

updateLRU(key) ==
  /\ lruList' = <<key>> \o (IF key \in lruMap THEN EraseNode(lruList, key)
                                              ELSE lruList)
  /\ lruMap' = lruMap \cup {key}
  /\ lastUsed' = [lastUsed EXCEPT ![key] = now]

-----------------------------------------------------------------------------
Init ==
  /\ now = 0
  /\ cache = [k \in Keys |-> {}]
  /\ negativeCache = [k \in Keys |-> None]
  /\ nsCache = [d \in Domains |-> None]
  /\ lruList = <<>> /\ lruMap = {}
  /\ currentEntries = 0
  /\ phase = "idle" /\ pendKey = None /\ pendEntries = {} /\ todo = {}
  /\ lastUsed = [k \in Keys |-> 0]

Tick ==
  /\ now < MaxTime
  /\ now' = now + 1
  /\ UNCHANGED <<store, lru, locals>>

\* A live negative entry answers and nothing else is looked at.
LookupNegativeHit(key) ==
  /\ negativeCache[key] # None
  /\ ~isExpired(negativeCache[key])

\* lookup: an expired negative entry goes, then the expired records of the
\* bucket, then (if none is left) the bucket; only a hit touches the LRU list.
lookup(qname, qtype) ==
  LET key   == makeCacheKey(qname, qtype)
      fresh == removeExpiredEntries(cache[key])
  IN  /\ phase = "idle"
      /\ ~LookupNegativeHit(key)
      /\ negativeCache' = [negativeCache EXCEPT ![key] = None]
      /\ cache' = [cache EXCEPT ![key] = fresh]
      /\ Uncount(Cardinality(cache[key]) - Cardinality(fresh))
      /\ IF fresh # {} THEN updateLRU(key) ELSE UNCHANGED lru
      /\ UNCHANGED <<now, nsCache, locals>>

\* lookupNS: the raw spelling is the key; an expired entry is erased.
lookupNS(domain) ==
  /\ phase = "idle"
  /\ nsCache[domain] # None /\ isExpired(nsCache[domain])
  /\ nsCache' = [nsCache EXCEPT ![domain] = None]
  /\ UNCHANGED <<now, cache, currentEntries, negativeCache, lru, locals>>

\* insert, up to its eviction loop: the entries get their expiry from one
\* reading of the clock, records with ttl 0 are skipped.
insert(qname, qtype, records) ==
  /\ phase = "idle"
  /\ records # {}
  /\ phase' = "insert"
  /\ pendKey' = makeCacheKey(qname, qtype)
  /\ pendEntries' = {[record |-> r.record,
                      expiresAt |-> now + enforceTTLBounds(r.ttl) * Second] :
                        r \in {q \in records : enforceTTLBounds(q.ttl) # 0}}
  /\ UNCHANGED <<now, store, lru, todo>>

\* Mutant: room is made one entry too late.
FullOffByOne == Cardinality(Cached) > maxEntries /\ Cached # {}

Full == Cardinality(Cached) >= maxEntries /\ Cached # {}

\* Mutant: the node stays in the list.
EvictKeepsNode ==
  LET node == lruList[Len(lruList)]
  IN  /\ phase = "insert"
      /\ Full
      /\ lruList # <<>>
      /\ cache' = [cache EXCEPT ![node] = {}]
      /\ Uncount(Cardinality(cache[node]))
      /\ UNCHANGED <<now, negativeCache, nsCache, lru, locals>>

\* One iteration of the eviction loop.  On an empty list evictLRU returns at
\* once and the loop spins: no step is enabled then.
evictLRU ==
  LET node == lruList[Len(lruList)]
  IN  /\ phase = "insert"
      /\ Full
      /\ lruList # <<>>
      /\ cache' = [cache EXCEPT ![node] = {}]
      /\ Uncount(Cardinality(cache[node]))
      /\ lruList' = SubSeq(lruList, 1, Len(lruList) - 1)
      /\ lruMap' = lruMap \ {node}
      /\ lastUsed' = [lastUsed EXCEPT ![node] = 0]
      /\ UNCHANGED <<now, negativeCache, nsCache, locals>>

\* The end of insert, once the loop has made room.  The code adds
\* entries.size() to currentEntries after moving entries away: it adds 0.
insertStore ==
  /\ phase = "insert"
  /\ ~Full
  /\ IF pendEntries # {}
     THEN /\ cache' = [cache EXCEPT ![pendKey] = pendEntries]
          /\ updateLRU(pendKey)
     ELSE UNCHANGED <<cache, lru>>
  /\ phase' = "idle" /\ pendKey' = None /\ pendEntries' = {}
  /\ UNCHANGED <<now, currentEntries, negativeCache, nsCache, todo>>

\* insertNS: a full nameserver cache drops the entry, a refresh included.
insertNS(domain, ip, ttl) ==
  LET enforced == enforceTTLBounds(ttl)
  IN  /\ phase = "idle"
      /\ enforced # 0
      /\ Cardinality(NsCached) < maxNsEntries
      /\ nsCache' = [nsCache EXCEPT ![domain] =
                       [ip |-> ip, expiresAt |-> now + enforced * Second]]
      /\ UNCHANGED <<now, cache, currentEntries, negativeCache, lru, locals>>

insertNegative(qname, qtype, rescode, ttl) ==
  /\ phase = "idle"
  /\ negativeCache' = [negativeCache EXCEPT ![makeCacheKey(qname, qtype)] =
       [resCode |-> rescode, expiresAt |-> now + enforceNegTTL(ttl) * Second]]
  /\ UNCHANGED <<now, cache, currentEntries, nsCache, lru, locals>>

\* cleanupExpired: one step per bucket, in any order (unordered_map), then
\* the two sweeps over the nameserver and the negative cache.
cleanupExpired ==
  /\ phase = "idle"
  /\ phase' = "cleanup" /\ todo' = Cached
  /\ UNCHANGED <<now, store, lru, pendKey, pendEntries>>

cleanupBucket(key) ==
  LET fresh == removeExpiredEntries(cache[key])
  IN  /\ phase = "cleanup" /\ key \in todo
      /\ todo' = todo \ {key}
      /\ cache' = [cache EXCEPT ![key] = fresh]
      /\ Uncount(Cardinality(cache[key]) - Cardinality(fresh))
      /\ IF fresh = {}
         THEN /\ lruList' = IF key \in lruMap THEN EraseNode(lruList, key)
                                              ELSE lruList
              /\ lruMap' = lruMap \ {key}
              /\ lastUsed' = [lastUsed EXCEPT ![key] = 0]
         ELSE UNCHANGED lru
      /\ UNCHANGED <<now, negativeCache, nsCache, phase, pendKey, pendEntries>>

cleanupSweep ==
  /\ phase = "cleanup" /\ todo = {}
  /\ nsCache' = [d \in Domains |->
       IF nsCache[d] # None /\ isExpired(nsCache[d]) THEN None ELSE nsCache[d]]
  /\ negativeCache' = [k \in Keys |->
       IF negativeCache[k] # None /\ isExpired(negativeCache[k])
       THEN None ELSE negativeCache[k]]
  /\ phase' = "idle"
  /\ UNCHANGED <<now, cache, currentEntries, lru, pendKey, pendEntries, todo>>

Writer == evictLRU \/ insertStore \/ (\E k \in Keys : cleanupBucket(k)) \/ cleanupSweep

Next ==
  \/ Tick
  \/ \E n \in Names, t \in QTypes :
       \/ lookup(n, t)
       \/ \E rs \in SUBSET [record : Records, ttl : TTLs] : insert(n, t, rs)
       \/ \E rc \in {"NXDOMAIN", "SERVFAIL"}, ttl \in NegTTLs :
            insertNegative(n, t, rc, ttl)
  \/ \E d \in Domains :
       \/ lookupNS(d)
       \/ \E ip \in IPs, ttl \in TTLs : insertNS(d, ip, ttl)
  \/ evictLRU
  \/ insertStore
  \/ cleanupExpired
  \/ \E k \in Keys : cleanupBucket(k)
  \/ cleanupSweep

Spec == Init /\ [][Next]_vars

\* The thread that holds the unique lock keeps running.
FairSpec == Spec /\ WF_vars(Writer)

-----------------------------------------------------------------------------
\* The maps and the list hold what their C++ types allow (DnsCache.hpp:41-69);
\* currentEntries stays in the range of size_t, through its wrap-around.
TypeOK ==
  /\ now \in Nat
  /\ cache \in [Keys -> SUBSET Entry]
  /\ negativeCache \in [Keys -> NegEntry \cup {None}]
  /\ nsCache \in [Domains -> NSEntry \cup {None}]
  /\ lruList \in Seq(Keys) /\ lruMap \in SUBSET Keys
  /\ phase \in {"idle", "insert", "cleanup"}
  /\ pendKey \in Keys \cup {None} /\ pendEntries \in SUBSET Entry
  /\ (phase = "insert" => pendKey \in Keys)
  /\ todo \in SUBSET Keys
  /\ currentEntries \in 0..(SizeMod - 1)
  /\ lastUsed \in [Keys -> Nat]

NoDuplicates(list) == \A i, j \in 1..Len(list) : list[i] = list[j] => i = j

\* The list and the map of iterators agree: a key has one node if it is in
\* lruMap and none otherwise (an erase through a stale iterator would be
\* undefined), and every cached key has a node, so that a full cache always
\* has something to evict.
LRUConsistent ==
  /\ NoDuplicates(lruList)
  /\ lruMap = Nodes(lruList)
  /\ Cached \subseteq lruMap

\* The list runs from the most to the least recently used key, whatever mix
\* of hits, inserts, evictions, expiries and cleanups produced it.
LRUOrdered ==
  \A i, j \in 1..Len(lruList) : i < j => lastUsed[lruList[i]] >= lastUsed[lruList[j]]

\* The positive cache never holds more than maxEntries keys, also in the
\* middle of an insert.
CacheBounded == Cardinality(Cached) <= maxEntries

\* The nameserver cache never holds more than maxNsEntries domains.
NsBounded == Cardinality(NsCached) <= maxNsEntries

\* Nothing in any of the three maps outlives the bound on its TTL, whatever
\* TTL the upstream server sent.
StaleBounded ==
  /\ \A k \in Keys : \A e \in cache[k] : e.expiresAt <= now + maxTTL * Second
  /\ \A e \in pendEntries : e.expiresAt <= now + maxTTL * Second
  /\ \A d \in Domains :
       nsCache[d] # None => nsCache[d].expiresAt <= now + maxTTL * Second
  /\ \A k \in Keys :
       negativeCache[k] # None =>
         negativeCache[k].expiresAt <= now + negMax * Second

EvictsOldest ==
  \A v \in Cached \ Cached', q \in Cached' :
    phase = "insert" => lastUsed[v] <= lastUsed[q]

\* What the eviction loop takes out was used no later than anything it leaves.
EvictsLeastRecentlyUsed == [][EvictsOldest]_vars

\* A record that is still fresh leaves the cache only when an insert evicts
\* its key from a full cache or stores new records under the same key.
NoSpuriousLoss ==
  [][\A k \in Keys : \A e \in cache[k] \ cache'[k] :
       ~isExpired(e) => phase = "insert" /\ (Full \/ k = pendKey)]_vars

\* What lookup and lookupNS would find if they were called now.
Answers == [k \in Keys |-> removeExpiredEntries(cache[k])]
Failures == [k \in Keys |-> IF LookupNegativeHit(k) THEN {negativeCache[k]} ELSE {}]
NameServers ==
  [d \in Domains |->
     IF nsCache[d] # None /\ ~isExpired(nsCache[d]) THEN {nsCache[d]} ELSE {}]

\* The cache refines its contract, as seen by those who look something up.
\* Entries go late, when an operation happens to come across them; still nobody
\* is served one whose time is over, and but for evictions by an insert nobody
\* misses one whose time is not.
Prompt == INSTANCE PromptCache WITH
            Codes <- {"NXDOMAIN", "SERVFAIL"},
            Terms <- Second * minTTL .. Second * maxTTL,
            FailTerms <- Second * negMin .. Second * negMax,
            MaxAnswers <- maxEntries, MaxServers <- maxNsEntries,
            answers <- Answers, failures <- Failures, servers <- NameServers,
            storing <- IF phase = "insert" THEN {<<pendKey, pendEntries>>} ELSE {}
ImplementsPrompt == Prompt!Spec

\* Whoever holds the unique lock gives it back: the eviction loop of insert
\* and the sweep of cleanupExpired end.
LockReleased == phase # "idle" ~> phase = "idle"

=============================================================================
