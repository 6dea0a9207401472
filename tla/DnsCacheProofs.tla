--------------------------- MODULE DnsCacheProofs ---------------------------
(***************************************************************************)
(* Safety of DnsCache for every set of names, records and TTLs, every      *)
(* capacity and every clock.                                               *)
(***************************************************************************)
EXTENDS DnsCache, TLAPS, SequenceTheorems, FiniteSetTheorems

ListOrdered(list, used) ==
  \A i, j \in 1..Len(list) : i < j => used[list[i]] >= used[list[j]]

\* Erasing the node of a key (std::list::erase through its iterator) takes
\* that node out and keeps the order of the others.
LEMMA EraseNodeFacts ==
  ASSUME NEW S, NEW list \in Seq(S), NEW key \in Nodes(list),
         NoDuplicates(list)
  PROVE  /\ EraseNode(list, key) \in Seq(S)
         /\ NoDuplicates(EraseNode(list, key))
         /\ Nodes(EraseNode(list, key)) = Nodes(list) \ {key}
         /\ \A used : ListOrdered(list, used)
                        => ListOrdered(EraseNode(list, key), used)
<1> DEFINE i == CHOOSE j \in 1..Len(list) : list[j] = key
           L == SubSeq(list, 1, i - 1)
           R == SubSeq(list, i + 1, Len(list))
           E == EraseNode(list, key)
<1>1. Len(list) \in Nat /\ \A j \in 1..Len(list) : list[j] \in S
  BY LenProperties, ElementOfSeq
<1>2. i \in 1..Len(list) /\ list[i] = key
  BY DEF Nodes
<1> HIDE DEF i
<1>3. /\ L \in Seq(S) /\ Len(L) = i - 1
      /\ \A j \in 1..(i - 1) : L[j] = list[j]
  <2>1. \A j \in 1..(i - 1) : list[j] \in S
    BY <1>1, <1>2
  <2> QED BY <1>1, <1>2, <2>1, SubSeqProperties
<1>4. /\ R \in Seq(S) /\ Len(R) = Len(list) - i
      /\ \A j \in 1..(Len(list) - i) : R[j] = list[i + j]
  <2>1. \A j \in (i + 1)..Len(list) : list[j] \in S
    BY <1>1, <1>2
  <2>2. /\ R \in Seq(S)
        /\ Len(R) = IF i + 1 <= Len(list) THEN Len(list) - (i + 1) + 1 ELSE 0
        /\ \A j \in 1..(Len(list) - (i + 1) + 1) : R[j] = list[(i + 1) + j - 1]
    BY <1>1, <1>2, <2>1, SubSeqProperties
  <2> QED BY <1>1, <1>2, <2>2
<1> HIDE DEF L, R
<1>5. E = L \o R
  BY DEF E, EraseNode, L, R, i
<1> HIDE DEF E
<1>6. /\ E \in Seq(S) /\ Len(E) = Len(list) - 1
      /\ \A j \in 1..Len(E) : E[j] = IF j < i THEN list[j] ELSE list[j + 1]
  <2>1. /\ E \in Seq(S) /\ Len(E) = Len(L) + Len(R)
        /\ \A j \in 1..(Len(L) + Len(R)) :
             E[j] = IF j <= Len(L) THEN L[j] ELSE R[j - Len(L)]
    BY <1>3, <1>4, <1>5, ConcatProperties
  <2>2. Len(E) = Len(list) - 1
    BY <1>1, <1>2, <1>3, <1>4, <2>1
  <2>3. ASSUME NEW j \in 1..Len(E)
        PROVE  E[j] = IF j < i THEN list[j] ELSE list[j + 1]
    <3>1. CASE j < i
      BY <3>1, <1>1, <1>2, <1>3, <1>4, <2>1, <2>2
    <3>2. CASE j >= i
      <4>1. E[j] = R[j - (i - 1)] /\ j - (i - 1) \in 1..(Len(list) - i)
        BY <3>2, <1>1, <1>2, <1>3, <1>4, <2>1, <2>2
      <4>2. E[j] = list[i + (j - (i - 1))]
        BY <4>1, <1>4
      <4> QED BY <3>2, <4>2, <1>1, <1>2, <2>2
    <3> QED BY <3>1, <3>2, <1>1, <1>2, <2>2
  <2> QED BY <2>1, <2>2, <2>3
<1>7. NoDuplicates(E)
  BY <1>1, <1>2, <1>6 DEF NoDuplicates
<1>8. Nodes(E) = Nodes(list) \ {key}
  <2>1. ASSUME NEW x \in Nodes(E) PROVE x \in Nodes(list) /\ x # key
    BY <1>1, <1>2, <1>6 DEF Nodes, NoDuplicates
  <2>2. ASSUME NEW x \in Nodes(list), x # key PROVE x \in Nodes(E)
    <3>1. PICK j \in 1..Len(list) : list[j] = x
      BY DEF Nodes
    <3>2. CASE j < i
      BY <3>1, <3>2, <1>1, <1>2, <1>6 DEF Nodes
    <3>3. CASE j > i
      <4>1. j - 1 \in 1..Len(E) /\ E[j - 1] = x
        BY <3>1, <3>3, <1>1, <1>2, <1>6
      <4> QED BY <4>1 DEF Nodes
    <3>4. j # i
      BY <2>2, <3>1, <1>2
    <3> QED BY <3>2, <3>3, <3>4, <1>1, <1>2
  <2> QED BY <2>1, <2>2
<1>9. ASSUME NEW used, ListOrdered(list, used) PROVE ListOrdered(E, used)
  BY <1>1, <1>2, <1>6, <1>9 DEF ListOrdered
<1> QED BY <1>6, <1>7, <1>8, <1>9 DEF E

\* Pushing a key that is not in the list to its front.
LEMMA PushFrontFacts ==
  ASSUME NEW S, NEW list \in Seq(S), NEW key \in S, NoDuplicates(list),
         key \notin Nodes(list)
  PROVE  /\ <<key>> \o list \in Seq(S)
         /\ NoDuplicates(<<key>> \o list)
         /\ Nodes(<<key>> \o list) = Nodes(list) \cup {key}
         /\ \A used, t :
              /\ ListOrdered(list, used)
              /\ used \in [S -> Nat] /\ t \in Nat
              /\ \A k \in S : used[k] <= t
              => ListOrdered(<<key>> \o list, [used EXCEPT ![key] = t])
<1> DEFINE E == <<key>> \o list
<1>1. Len(list) \in Nat /\ \A j \in 1..Len(list) : list[j] \in S
  BY LenProperties, ElementOfSeq
<1>2. /\ E \in Seq(S) /\ Len(E) = Len(list) + 1
      /\ \A j \in 1..Len(E) : E[j] = IF j = 1 THEN key ELSE list[j - 1]
  <2>1. <<key>> \in Seq(S) /\ Len(<<key>>) = 1 /\ <<key>>[1] = key
    OBVIOUS
  <2>2. /\ E \in Seq(S) /\ Len(E) = 1 + Len(list)
        /\ \A j \in 1..(1 + Len(list)) :
             E[j] = IF j <= 1 THEN <<key>>[j] ELSE list[j - 1]
    BY <2>1, ConcatProperties
  <2>3. ASSUME NEW j \in 1..Len(E)
        PROVE  E[j] = IF j = 1 THEN key ELSE list[j - 1]
    <3>1. CASE j = 1
      BY <3>1, <1>1, <2>1, <2>2
    <3>2. CASE j # 1
      BY <3>2, <1>1, <2>2
    <3> QED BY <3>1, <3>2
  <2>4. Len(E) = Len(list) + 1
    BY <1>1, <2>2
  <2> QED BY <2>2, <2>3, <2>4
<1> HIDE DEF E
<1>3. NoDuplicates(E)
  <2>1. SUFFICES ASSUME NEW a \in 1..Len(E), NEW b \in 1..Len(E), E[a] = E[b],
                        a < b
                 PROVE  FALSE
    BY <1>1, <1>2 DEF NoDuplicates
  <2>2. b - 1 \in 1..Len(list) /\ E[b] = list[b - 1]
    BY <2>1, <1>1, <1>2
  <2>3. CASE a = 1
    BY <2>1, <2>2, <2>3, <1>2 DEF Nodes
  <2>4. CASE a # 1
    <3>1. a - 1 \in 1..Len(list) /\ E[a] = list[a - 1] /\ a - 1 # b - 1
      BY <2>1, <2>4, <1>1, <1>2
    <3> QED BY <2>1, <2>2, <3>1 DEF NoDuplicates
  <2> QED BY <2>3, <2>4
<1>4. Nodes(E) = Nodes(list) \cup {key}
  <2>1. ASSUME NEW x \in Nodes(E) PROVE x \in Nodes(list) \cup {key}
    BY <1>1, <1>2 DEF Nodes
  <2>2. key \in Nodes(E)
    <3>1. 1 \in 1..Len(E) /\ E[1] = key
      BY <1>1, <1>2
    <3> QED BY <3>1 DEF Nodes
  <2>3. ASSUME NEW x \in Nodes(list) PROVE x \in Nodes(E)
    <3>1. PICK j \in 1..Len(list) : list[j] = x
      BY DEF Nodes
    <3>2. j + 1 \in 1..Len(E) /\ E[j + 1] = x
      BY <3>1, <1>1, <1>2
    <3> QED BY <3>2 DEF Nodes
  <2> QED BY <2>1, <2>2, <2>3
<1>5. ASSUME NEW used, NEW t, ListOrdered(list, used),
             used \in [S -> Nat], t \in Nat, \A k \in S : used[k] <= t
      PROVE  ListOrdered(E, [used EXCEPT ![key] = t])
  <2> DEFINE u == [used EXCEPT ![key] = t]
  <2>1. u[key] = t /\ \A k \in S \ {key} : u[k] = used[k]
    BY <1>5
  <2>2. \A j \in 1..Len(list) : u[list[j]] = used[list[j]]
    BY <2>1, <1>1 DEF Nodes
  <2> HIDE DEF u
  <2>3. SUFFICES ASSUME NEW a \in 1..Len(E), NEW b \in 1..Len(E), a < b
                 PROVE  u[E[a]] >= u[E[b]]
    BY DEF ListOrdered, u
  <2>4. b - 1 \in 1..Len(list) /\ E[b] = list[b - 1]
    BY <2>3, <1>1, <1>2
  <2>5. CASE a = 1
    BY <2>1, <2>2, <2>4, <2>5, <1>1, <1>2, <1>5
  <2>6. CASE a # 1
    <3>1. a - 1 \in 1..Len(list) /\ E[a] = list[a - 1] /\ a - 1 < b - 1
      BY <2>3, <2>6, <1>1, <1>2
    <3> QED BY <3>1, <2>2, <2>4, <1>5 DEF ListOrdered
  <2> QED BY <2>5, <2>6
<1> QED BY <1>2, <1>3, <1>4, <1>5 DEF E

\* Popping the back of the list.
LEMMA PopBackFacts ==
  ASSUME NEW S, NEW list \in Seq(S), list # <<>>, NoDuplicates(list)
  PROVE  LET E    == SubSeq(list, 1, Len(list) - 1)
             node == list[Len(list)]
         IN  /\ E \in Seq(S) /\ node \in S
             /\ NoDuplicates(E)
             /\ Nodes(E) = Nodes(list) \ {node}
             /\ \A used : ListOrdered(list, used) => ListOrdered(E, used)
<1> DEFINE E    == SubSeq(list, 1, Len(list) - 1)
           node == list[Len(list)]
<1>1. /\ Len(list) \in Nat /\ Len(list) >= 1
      /\ \A j \in 1..Len(list) : list[j] \in S
  <2>1. Len(list) \in Nat \ {0}
    BY EmptySeq
  <2> QED BY <2>1, ElementOfSeq
<1>2. /\ E \in Seq(S) /\ Len(E) = Len(list) - 1
      /\ \A j \in 1..Len(E) : E[j] = list[j]
  <2>1. \A j \in 1..(Len(list) - 1) : list[j] \in S
    BY <1>1
  <2>2. /\ E \in Seq(S)
        /\ Len(E) = IF 1 <= Len(list) - 1 THEN (Len(list) - 1) - 1 + 1 ELSE 0
        /\ \A j \in 1..((Len(list) - 1) - 1 + 1) : E[j] = list[1 + j - 1]
    BY <1>1, <2>1, SubSeqProperties
  <2> HIDE DEF E
  <2>3. Len(E) = Len(list) - 1
    <3> HIDE DEF node
    <3>1. ASSUME NEW n \in Nat, n >= 1, NEW m, m = IF 1 <= n - 1 THEN (n - 1) - 1 + 1 ELSE 0
          PROVE  m = n - 1
      BY <3>1
    <3>2. Len(E) = IF 1 <= Len(list) - 1 THEN (Len(list) - 1) - 1 + 1 ELSE 0
      BY <2>2
    <3> QED BY <1>1, <3>1, <3>2
  <2>4. ASSUME NEW j \in 1..Len(E) PROVE E[j] = list[j]
    <3>1. j \in 1..((Len(list) - 1) - 1 + 1) /\ 1 + j - 1 = j
      BY <1>1, <2>3
    <3> QED BY <2>2, <3>1
  <2> QED BY <2>2, <2>3, <2>4
<1> HIDE DEF E
<1>3. NoDuplicates(E)
  BY <1>1, <1>2 DEF NoDuplicates
<1>4. Nodes(E) = Nodes(list) \ {node}
  <2>1. ASSUME NEW x \in Nodes(E) PROVE x \in Nodes(list) /\ x # node
    BY <1>1, <1>2 DEF Nodes, NoDuplicates
  <2>2. ASSUME NEW x \in Nodes(list), x # node PROVE x \in Nodes(E)
    BY <1>1, <1>2, <2>2 DEF Nodes
  <2> QED BY <2>1, <2>2
<1>5. ASSUME NEW used, ListOrdered(list, used) PROVE ListOrdered(E, used)
  BY <1>1, <1>2, <1>5 DEF ListOrdered
<1> QED BY <1>1, <1>2, <1>3, <1>4, <1>5 DEF E

\* Forgetting the last use of a key that has no node disturbs no order.
LEMMA ForgetFacts ==
  ASSUME NEW S, NEW list \in Seq(S), NEW used \in [S -> Nat], NEW key \in S,
         key \notin Nodes(list), ListOrdered(list, used)
  PROVE  ListOrdered(list, [used EXCEPT ![key] = 0])
<1>1. \A j \in 1..Len(list) : list[j] \in S /\ list[j] # key
  BY ElementOfSeq DEF Nodes
<1>2. \A j \in 1..Len(list) : [used EXCEPT ![key] = 0][list[j]] = used[list[j]]
  BY <1>1
<1> QED BY <1>2 DEF ListOrdered

\* A key has a name in lower case and a type; there are finitely many keys.
LEMMA KeyFacts ==
  /\ \A n \in Names, t \in QTypes : makeCacheKey(n, t) \in Keys
  /\ IsFiniteSet(Keys)
BY CacheAssumption, FS_Product DEF makeCacheKey, Keys

\* enforceTTLBounds yields 0 or a value between the bounds.
LEMMA TTLFacts ==
  ASSUME NEW ttl \in TTLs
  PROVE  /\ enforceTTLBounds(ttl) \in Nat
         /\ enforceTTLBounds(ttl) <= maxTTL
BY CacheAssumption DEF enforceTTLBounds

-----------------------------------------------------------------------------
(***************************************************************************)
(* Types and the LRU list.  Two strengthenings are needed: the buckets are *)
(* finite (currentEntries moves by their sizes) and no key was used in the *)
(* future (so the front of the list is the right place for a hit).         *)
(***************************************************************************)
FiniteBuckets == (\A k \in Keys : IsFiniteSet(cache[k])) /\ IsFiniteSet(pendEntries)
UsedInPast == \A k \in Keys : lastUsed[k] <= now

ListInv == LRUConsistent /\ LRUOrdered /\ UsedInPast
IInv == TypeOK /\ FiniteBuckets /\ ListInv

\* A hit or a stored insert moves its key to the front, in any case.
LEMMA UpdateLRUFacts ==
  ASSUME TypeOK, ListInv, NEW key \in Keys, updateLRU(key)
  PROVE  /\ lruList' \in Seq(Keys) /\ lruMap' \in SUBSET Keys
         /\ lastUsed' \in [Keys -> Nat]
         /\ NoDuplicates(lruList') /\ lruMap' = Nodes(lruList')
         /\ lruMap' = lruMap \cup {key}
         /\ ListOrdered(lruList', lastUsed')
         /\ \A k \in Keys : lastUsed'[k] <= now
<1> DEFINE rest == IF key \in lruMap THEN EraseNode(lruList, key) ELSE lruList
<1>1. /\ lruList \in Seq(Keys) /\ lruMap \in SUBSET Keys /\ now \in Nat
      /\ lastUsed \in [Keys -> Nat]
      /\ NoDuplicates(lruList) /\ lruMap = Nodes(lruList)
      /\ ListOrdered(lruList, lastUsed)
      /\ \A k \in Keys : lastUsed[k] <= now
  BY DEF TypeOK, ListInv, LRUConsistent, LRUOrdered, ListOrdered, UsedInPast
<1>2. /\ rest \in Seq(Keys) /\ NoDuplicates(rest)
      /\ Nodes(rest) = Nodes(lruList) \ {key}
      /\ ListOrdered(rest, lastUsed)
  <2>1. CASE key \in lruMap
    BY <1>1, <2>1, EraseNodeFacts
  <2>2. CASE key \notin lruMap
    BY <1>1, <2>2
  <2> QED BY <2>1, <2>2
<1> HIDE DEF rest
<1>3. /\ lruList' = <<key>> \o rest /\ lruMap' = lruMap \cup {key}
      /\ lastUsed' = [lastUsed EXCEPT ![key] = now]
  BY DEF updateLRU, rest
<1>4. /\ lruList' \in Seq(Keys) /\ NoDuplicates(lruList')
      /\ Nodes(lruList') = Nodes(rest) \cup {key}
      /\ ListOrdered(lruList', lastUsed')
  BY <1>1, <1>2, <1>3, PushFrontFacts
<1>5. /\ lastUsed' \in [Keys -> Nat]
      /\ \A k \in Keys : lastUsed'[k] <= now
  BY <1>1, <1>3
<1> QED BY <1>1, <1>2, <1>3, <1>4, <1>5

\* A counter of type size_t stays in its range when it is decremented.
LEMMA UncountFacts ==
  ASSUME NEW n \in Int, TypeOK, Uncount(n)
  PROVE  currentEntries' \in 0..(SizeMod - 1)
<1>1. SizeMod \in Nat \ {0} /\ currentEntries - n \in Int
  BY CacheAssumption DEF TypeOK
<1> QED BY <1>1 DEF Uncount

\* Dropping the expired records of a bucket.
LEMMA RemoveExpiredFacts ==
  ASSUME NEW S \in SUBSET Entry, IsFiniteSet(S)
  PROVE  /\ removeExpiredEntries(S) \in SUBSET Entry
         /\ removeExpiredEntries(S) \subseteq S
         /\ IsFiniteSet(removeExpiredEntries(S))
         /\ Cardinality(S) - Cardinality(removeExpiredEntries(S)) \in Int
<1>1. removeExpiredEntries(S) \in SUBSET S
  BY DEF removeExpiredEntries
<1>2. IsFiniteSet(removeExpiredEntries(S))
  BY <1>1, FS_Subset
<1>3. Cardinality(S) \in Nat /\ Cardinality(removeExpiredEntries(S)) \in Nat
  BY <1>2, FS_CardinalityType
<1> QED BY <1>1, <1>2, <1>3

\* Writing one bucket adds or removes one key.
LEMMA BucketFacts ==
  ASSUME TypeOK, NEW key \in Keys, NEW S \in SUBSET Entry,
         cache' = [cache EXCEPT ![key] = S]
  PROVE  /\ cache' \in [Keys -> SUBSET Entry]
         /\ cache'[key] = S /\ \A k \in Keys \ {key} : cache'[k] = cache[k]
         /\ Cached' = IF S = {} THEN Cached \ {key} ELSE Cached \cup {key}
<1>1. cache \in [Keys -> SUBSET Entry]
  BY DEF TypeOK
<1>2. /\ cache' \in [Keys -> SUBSET Entry]
      /\ cache'[key] = S /\ \A k \in Keys \ {key} : cache'[k] = cache[k]
  BY <1>1
<1> QED BY <1>2 DEF Cached

\* The initial state.
LEMMA IInvInit == Init => IInv
<1> SUFFICES ASSUME Init PROVE IInv
  OBVIOUS
<1>1. TypeOK
  BY CacheAssumption DEF Init, TypeOK, Keys
<1>2. FiniteBuckets
  BY FS_EmptySet DEF Init, FiniteBuckets
<1>3. ListInv
  <2>1. Len(lruList) = 0 /\ Cached = {} /\ Nodes(lruList) = {}
    BY DEF Init, Cached, Nodes
  <2>2. LRUConsistent
    BY <2>1 DEF Init, LRUConsistent, NoDuplicates
  <2>3. LRUOrdered
    BY <2>1 DEF LRUOrdered
  <2> QED BY <2>2, <2>3 DEF Init, ListInv, UsedInPast
<1> QED BY <1>1, <1>2, <1>3 DEF IInv

\* A step that leaves the positive cache and its list alone and moves the
\* clock, if at all, forward.
LEMMA FrameFacts ==
  ASSUME IInv, UNCHANGED <<cache, lru>>, now' \in Nat, now' >= now
  PROVE  ListInv' /\ \A k \in Keys : IsFiniteSet(cache'[k])
<1>1. Cached' = Cached
  BY DEF Cached
<1>2. UsedInPast'
  BY DEF IInv, TypeOK, ListInv, UsedInPast, lru
<1>3. LRUConsistent' /\ LRUOrdered'
  BY <1>1 DEF IInv, ListInv, LRUConsistent, LRUOrdered, NoDuplicates, Nodes, lru
<1> QED BY <1>2, <1>3 DEF IInv, ListInv, FiniteBuckets

\* lookup preserves the invariant, on a hit, on a miss and on an expiry.
LEMMA LookupStep ==
  ASSUME IInv, NEW n \in Names, NEW t \in QTypes, lookup(n, t)
  PROVE  IInv'
<1> DEFINE key == makeCacheKey(n, t)
           fresh == removeExpiredEntries(cache[key])
<1>1. key \in Keys
  BY KeyFacts
<1>2. TypeOK /\ ListInv /\ cache[key] \in SUBSET Entry /\ IsFiniteSet(cache[key])
  BY <1>1 DEF IInv, FiniteBuckets, TypeOK
<1>3. /\ fresh \in SUBSET Entry /\ IsFiniteSet(fresh)
      /\ Cardinality(cache[key]) - Cardinality(fresh) \in Int
  BY <1>2, RemoveExpiredFacts
<1> HIDE DEF key
<1>4. /\ negativeCache' = [negativeCache EXCEPT ![key] = None]
      /\ cache' = [cache EXCEPT ![key] = fresh]
      /\ Uncount(Cardinality(cache[key]) - Cardinality(fresh))
      /\ IF fresh # {} THEN updateLRU(key) ELSE UNCHANGED lru
      /\ UNCHANGED <<now, nsCache, locals>>
  BY DEF lookup, key
<1> HIDE DEF fresh
<1>5. /\ cache' \in [Keys -> SUBSET Entry]
      /\ cache'[key] = fresh /\ \A k \in Keys \ {key} : cache'[k] = cache[k]
      /\ Cached' = IF fresh = {} THEN Cached \ {key} ELSE Cached \cup {key}
  BY <1>1, <1>2, <1>3, <1>4, BucketFacts
<1>6. currentEntries' \in 0..(SizeMod - 1)
  BY <1>2, <1>3, <1>4, UncountFacts
<1>7. negativeCache' \in [Keys -> NegEntry \cup {None}]
  BY <1>1, <1>2, <1>4 DEF TypeOK
<1>8. FiniteBuckets'
  BY <1>3, <1>4, <1>5 DEF IInv, FiniteBuckets, locals
<1>9. CASE fresh # {}
  <2>1. /\ lruList' \in Seq(Keys) /\ lruMap' \in SUBSET Keys
        /\ lastUsed' \in [Keys -> Nat]
        /\ NoDuplicates(lruList') /\ lruMap' = Nodes(lruList')
        /\ lruMap' = lruMap \cup {key}
        /\ ListOrdered(lruList', lastUsed')
        /\ \A k \in Keys : lastUsed'[k] <= now
    BY <1>1, <1>2, <1>4, <1>9, UpdateLRUFacts
  <2>2. TypeOK'
    BY <1>2, <1>4, <1>5, <1>6, <1>7, <2>1 DEF TypeOK, locals
  <2>3. ListInv'
    BY <1>2, <1>4, <1>5, <1>9, <2>1
    DEF ListInv, LRUConsistent, LRUOrdered, ListOrdered, UsedInPast
  <2> QED BY <1>8, <2>2, <2>3 DEF IInv
<1>10. CASE fresh = {}
  <2>1. TypeOK'
    BY <1>2, <1>4, <1>5, <1>6, <1>7, <1>10 DEF TypeOK, locals, lru
  <2>2. ListInv'
    BY <1>2, <1>4, <1>5, <1>10
    DEF ListInv, LRUConsistent, LRUOrdered, UsedInPast, lru
  <2> QED BY <1>8, <2>1, <2>2 DEF IInv
<1> QED BY <1>9, <1>10

\* insert computes finitely many entries, each with a bounded expiry.
LEMMA PendingFacts ==
  ASSUME TypeOK, NEW n \in Names, NEW t \in QTypes,
         NEW rs \in SUBSET [record : Records, ttl : TTLs], insert(n, t, rs)
  PROVE  /\ pendKey' \in Keys
         /\ pendEntries' \in SUBSET Entry
         /\ IsFiniteSet(pendEntries')
<1> DEFINE kept == {q \in rs : enforceTTLBounds(q.ttl) # 0}
           f == [r \in kept |->
                   [record |-> r.record,
                    expiresAt |-> now + enforceTTLBounds(r.ttl) * Second]]
<1>1. now \in Nat /\ Second \in Nat
  BY CacheAssumption DEF TypeOK
<1>2. pendEntries' = {f[r] : r \in kept}
  BY DEF insert
<1>3. \A r \in kept : f[r] \in Entry
  <2> SUFFICES ASSUME NEW r \in kept PROVE f[r] \in Entry
    OBVIOUS
  <2>1. r.record \in Records /\ r.ttl \in TTLs
    OBVIOUS
  <2>2. now + enforceTTLBounds(r.ttl) * Second \in Nat
    BY <1>1, <2>1, TTLFacts
  <2> QED BY <2>1, <2>2 DEF Entry
<1>4. IsFiniteSet(kept)
  <2> DEFINE P == Records \X TTLs
             R == [record : Records, ttl : TTLs]
             g == [p \in P |-> [record |-> p[1], ttl |-> p[2]]]
  <2>1. IsFiniteSet(P)
    BY CacheAssumption, FS_Product
  <2>2. g \in Surjection(P, R)
    <3>1. g \in [P -> R]
      OBVIOUS
    <3>2. ASSUME NEW r \in R PROVE \E p \in P : g[p] = r
      <4>1. <<r.record, r.ttl>> \in P /\ g[<<r.record, r.ttl>>] = r
        OBVIOUS
      <4> QED BY <4>1
    <3> QED BY <3>1, <3>2 DEF Surjection
  <2>3. IsFiniteSet(R)
    BY <2>1, <2>2, FS_Surjection
  <2> QED BY <2>3, FS_Subset
<1> HIDE DEF kept, f
<1>5. f \in Surjection(kept, pendEntries')
  <2>1. f \in [kept -> pendEntries']
    BY <1>2 DEF f
  <2> QED BY <1>2, <2>1 DEF Surjection
<1>6. IsFiniteSet(pendEntries')
  BY <1>4, <1>5, FS_Surjection
<1>7. pendKey' \in Keys
  BY KeyFacts DEF insert
<1> QED BY <1>2, <1>3, <1>6, <1>7

\* The eviction takes one node and one bucket.
LEMMA EvictStep ==
  ASSUME IInv, evictLRU
  PROVE  IInv'
<1> DEFINE node == lruList[Len(lruList)]
           E    == SubSeq(lruList, 1, Len(lruList) - 1)
<1>1. /\ TypeOK /\ ListInv /\ lruList # <<>> /\ lruList \in Seq(Keys)
      /\ lruMap \in SUBSET Keys
      /\ NoDuplicates(lruList) /\ lruMap = Nodes(lruList) /\ Cached \subseteq lruMap
      /\ ListOrdered(lruList, lastUsed) /\ lastUsed \in [Keys -> Nat]
      /\ \A k \in Keys : lastUsed[k] <= now
      /\ now \in Nat
  BY DEF evictLRU, IInv, TypeOK, ListInv, LRUConsistent, LRUOrdered, ListOrdered,
         UsedInPast
<1>2. /\ E \in Seq(Keys) /\ node \in Keys /\ NoDuplicates(E)
      /\ Nodes(E) = Nodes(lruList) \ {node} /\ ListOrdered(E, lastUsed)
  BY <1>1, PopBackFacts
<1>3. /\ cache' = [cache EXCEPT ![node] = {}]
      /\ Uncount(Cardinality(cache[node]))
      /\ lruList' = E /\ lruMap' = lruMap \ {node}
      /\ lastUsed' = [lastUsed EXCEPT ![node] = 0]
      /\ UNCHANGED <<now, negativeCache, nsCache, locals>>
  BY DEF evictLRU
<1> HIDE DEF node, E
<1>4. /\ cache' \in [Keys -> SUBSET Entry]
      /\ cache'[node] = {} /\ \A k \in Keys \ {node} : cache'[k] = cache[k]
      /\ Cached' = Cached \ {node}
  <2>1. {} \in SUBSET Entry
    OBVIOUS
  <2> QED BY <1>1, <1>2, <1>3, <2>1, BucketFacts
<1>5. currentEntries' \in 0..(SizeMod - 1)
  <2>1. IsFiniteSet(cache[node])
    BY <1>2 DEF IInv, FiniteBuckets
  <2>2. Cardinality(cache[node]) \in Int
    BY <2>1, FS_CardinalityType
  <2> QED BY <1>1, <1>3, <2>2, UncountFacts
<1>6. FiniteBuckets'
  BY <1>3, <1>4, FS_EmptySet DEF IInv, FiniteBuckets, locals
<1>7. /\ lastUsed' \in [Keys -> Nat]
      /\ ListOrdered(lruList', lastUsed')
      /\ \A k \in Keys : lastUsed'[k] <= now
  <2>1. ListOrdered(E, [lastUsed EXCEPT ![node] = 0])
    BY <1>1, <1>2, ForgetFacts
  <2> QED BY <1>1, <1>2, <1>3, <2>1
<1>8. TypeOK'
  BY <1>1, <1>2, <1>3, <1>4, <1>5, <1>7 DEF TypeOK, locals
<1>9. ListInv'
  <2>1. LRUConsistent'
    BY <1>1, <1>2, <1>3, <1>4 DEF LRUConsistent
  <2>2. LRUOrdered' /\ UsedInPast'
    BY <1>3, <1>7 DEF LRUOrdered, ListOrdered, UsedInPast
  <2> QED BY <2>1, <2>2 DEF ListInv
<1> QED BY <1>6, <1>8, <1>9 DEF IInv

\* The end of insert.
LEMMA StoreStep ==
  ASSUME IInv, insertStore
  PROVE  IInv'
<1>1. /\ TypeOK /\ ListInv /\ phase = "insert" /\ pendKey \in Keys
      /\ pendEntries \in SUBSET Entry /\ IsFiniteSet(pendEntries)
  BY DEF insertStore, IInv, TypeOK, FiniteBuckets
<1>2. /\ phase' = "idle" /\ pendKey' = None /\ pendEntries' = {}
      /\ UNCHANGED <<now, currentEntries, negativeCache, nsCache, todo>>
  BY DEF insertStore
<1>3. CASE pendEntries # {}
  <2>1. cache' = [cache EXCEPT ![pendKey] = pendEntries] /\ updateLRU(pendKey)
    BY <1>3 DEF insertStore
  <2>2. /\ cache' \in [Keys -> SUBSET Entry]
        /\ cache'[pendKey] = pendEntries
        /\ \A k \in Keys \ {pendKey} : cache'[k] = cache[k]
        /\ Cached' = Cached \cup {pendKey}
    BY <1>1, <1>3, <2>1, BucketFacts
  <2>3. /\ lruList' \in Seq(Keys) /\ lruMap' \in SUBSET Keys
        /\ lastUsed' \in [Keys -> Nat]
        /\ NoDuplicates(lruList') /\ lruMap' = Nodes(lruList')
        /\ lruMap' = lruMap \cup {pendKey}
        /\ ListOrdered(lruList', lastUsed')
        /\ \A k \in Keys : lastUsed'[k] <= now
    BY <1>1, <2>1, UpdateLRUFacts
  <2>4. TypeOK'
    BY <1>1, <1>2, <2>2, <2>3 DEF TypeOK
  <2>5. FiniteBuckets'
    BY <1>1, <1>2, <2>2, FS_EmptySet DEF IInv, FiniteBuckets
  <2>6. ListInv'
    BY <1>1, <1>2, <2>2, <2>3
    DEF ListInv, LRUConsistent, LRUOrdered, ListOrdered, UsedInPast
  <2> QED BY <2>4, <2>5, <2>6 DEF IInv
<1>4. CASE pendEntries = {}
  <2>1. UNCHANGED <<cache, lru>>
    BY <1>4 DEF insertStore
  <2>2. ListInv' /\ \A k \in Keys : IsFiniteSet(cache'[k])
    BY <1>1, <1>2, <2>1, FrameFacts DEF TypeOK
  <2>3. TypeOK'
    BY <1>1, <1>2, <2>1 DEF TypeOK, lru
  <2> QED BY <1>2, <2>2, <2>3, FS_EmptySet DEF IInv, FiniteBuckets
<1> QED BY <1>3, <1>4

\* One bucket of the cleanup.
LEMMA CleanupBucketStep ==
  ASSUME IInv, NEW key \in Keys, cleanupBucket(key)
  PROVE  IInv'
<1> DEFINE fresh == removeExpiredEntries(cache[key])
           rest == IF key \in lruMap THEN EraseNode(lruList, key) ELSE lruList
<1>1. /\ TypeOK /\ ListInv /\ lruList \in Seq(Keys) /\ lruMap \in SUBSET Keys
      /\ NoDuplicates(lruList) /\ lruMap = Nodes(lruList) /\ Cached \subseteq lruMap
      /\ ListOrdered(lruList, lastUsed) /\ lastUsed \in [Keys -> Nat]
      /\ \A k \in Keys : lastUsed[k] <= now
      /\ now \in Nat /\ cache[key] \in SUBSET Entry /\ IsFiniteSet(cache[key])
  BY DEF IInv, TypeOK, ListInv, LRUConsistent, LRUOrdered, ListOrdered,
         UsedInPast, FiniteBuckets
<1>2. /\ fresh \in SUBSET Entry /\ IsFiniteSet(fresh)
      /\ Cardinality(cache[key]) - Cardinality(fresh) \in Int
  BY <1>1, RemoveExpiredFacts
<1>3. /\ todo' = todo \ {key}
      /\ cache' = [cache EXCEPT ![key] = fresh]
      /\ Uncount(Cardinality(cache[key]) - Cardinality(fresh))
      /\ IF fresh = {}
         THEN /\ lruList' = rest /\ lruMap' = lruMap \ {key}
              /\ lastUsed' = [lastUsed EXCEPT ![key] = 0]
         ELSE UNCHANGED lru
      /\ UNCHANGED <<now, negativeCache, nsCache, phase, pendKey, pendEntries>>
  BY DEF cleanupBucket
<1> HIDE DEF fresh
<1>4. /\ cache' \in [Keys -> SUBSET Entry]
      /\ cache'[key] = fresh /\ \A k \in Keys \ {key} : cache'[k] = cache[k]
      /\ Cached' = IF fresh = {} THEN Cached \ {key} ELSE Cached \cup {key}
  BY <1>1, <1>2, <1>3, BucketFacts
<1>5. currentEntries' \in 0..(SizeMod - 1)
  BY <1>1, <1>2, <1>3, UncountFacts
<1>6. FiniteBuckets'
  BY <1>2, <1>3, <1>4 DEF IInv, FiniteBuckets
<1>7. CASE fresh = {}
  <2>1. /\ rest \in Seq(Keys) /\ NoDuplicates(rest)
        /\ Nodes(rest) = Nodes(lruList) \ {key}
        /\ ListOrdered(rest, lastUsed)
    <3>1. CASE key \in lruMap
      BY <1>1, <3>1, EraseNodeFacts
    <3>2. CASE key \notin lruMap
      BY <1>1, <3>2
    <3> QED BY <3>1, <3>2
  <2> HIDE DEF rest
  <2>2. ListOrdered(rest, [lastUsed EXCEPT ![key] = 0])
    BY <1>1, <2>1, ForgetFacts
  <2>3. /\ lastUsed' \in [Keys -> Nat] /\ ListOrdered(lruList', lastUsed')
        /\ \A k \in Keys : lastUsed'[k] <= now
    <3>1. lruList' = rest /\ lastUsed' = [lastUsed EXCEPT ![key] = 0]
      BY <1>3, <1>7
    <3>2. ListOrdered(lruList', lastUsed')
      BY <2>2, <3>1
    <3> QED BY <1>1, <3>1, <3>2
  <2>4. TypeOK'
    BY <1>1, <1>3, <1>4, <1>5, <1>7, <2>1, <2>3 DEF TypeOK
  <2>5. LRUConsistent'
    BY <1>1, <1>3, <1>4, <1>7, <2>1 DEF LRUConsistent
  <2>6. LRUOrdered' /\ UsedInPast'
    BY <1>3, <1>7, <2>3 DEF LRUOrdered, ListOrdered, UsedInPast
  <2> QED BY <1>6, <2>4, <2>5, <2>6 DEF IInv, ListInv
<1>8. CASE fresh # {}
  <2>1. key \in Cached
    <3>1. fresh \subseteq cache[key]
      BY <1>1, RemoveExpiredFacts DEF fresh
    <3> QED BY <1>8, <3>1 DEF Cached
  <2>2. TypeOK'
    BY <1>1, <1>3, <1>4, <1>5, <1>8 DEF TypeOK, lru
  <2>3. ListInv'
    BY <1>1, <1>3, <1>4, <1>8, <2>1
    DEF ListInv, LRUConsistent, LRUOrdered, UsedInPast, lru
  <2> QED BY <1>6, <2>2, <2>3 DEF IInv
<1> QED BY <1>7, <1>8

\* Every step preserves the invariant.
LEMMA IInvStep == IInv /\ [Next]_vars => IInv'
<1> SUFFICES ASSUME IInv, [Next]_vars PROVE IInv'
  OBVIOUS
<1>1. TypeOK /\ FiniteBuckets /\ ListInv /\ now \in Nat
  BY DEF IInv, TypeOK
<1>2. CASE Tick
  <2>1. now' = now + 1 /\ UNCHANGED <<store, lru, locals>>
    BY <1>2 DEF Tick
  <2>2. ListInv' /\ FiniteBuckets'
    BY <1>1, <2>1, FrameFacts DEF FiniteBuckets, store, locals
  <2>3. TypeOK'
    BY <1>1, <2>1 DEF TypeOK, store, lru, locals
  <2> QED BY <2>2, <2>3 DEF IInv
<1>3. ASSUME NEW n \in Names, NEW t \in QTypes, lookup(n, t) PROVE IInv'
  BY <1>3, LookupStep
<1>4. ASSUME NEW n \in Names, NEW t \in QTypes,
             NEW rs \in SUBSET [record : Records, ttl : TTLs], insert(n, t, rs)
      PROVE  IInv'
  <2>1. /\ pendKey' \in Keys /\ pendEntries' \in SUBSET Entry
        /\ IsFiniteSet(pendEntries')
    BY <1>1, <1>4, PendingFacts
  <2>2. phase' = "insert" /\ UNCHANGED <<now, store, lru, todo>>
    BY <1>4 DEF insert
  <2>3. ListInv' /\ FiniteBuckets'
    BY <1>1, <2>1, <2>2, FrameFacts DEF FiniteBuckets, store
  <2>4. TypeOK'
    BY <1>1, <2>1, <2>2 DEF TypeOK, store, lru
  <2> QED BY <2>3, <2>4 DEF IInv
<1>5. ASSUME NEW n \in Names, NEW t \in QTypes,
             NEW rc \in {"NXDOMAIN", "SERVFAIL"}, NEW ttl \in NegTTLs,
             insertNegative(n, t, rc, ttl)
      PROVE  IInv'
  <2>1. enforceNegTTL(ttl) \in Nat /\ Second \in Nat
    BY CacheAssumption DEF enforceNegTTL
  <2>2. now + enforceNegTTL(ttl) * Second \in Nat
    BY <1>1, <2>1
  <2>3. [resCode |-> rc, expiresAt |-> now + enforceNegTTL(ttl) * Second] \in NegEntry
    BY <2>2 DEF NegEntry
  <2>4. negativeCache' \in [Keys -> NegEntry \cup {None}]
    BY <1>1, <1>5, <2>3, KeyFacts DEF insertNegative, TypeOK
  <2>5. UNCHANGED <<now, cache, currentEntries, nsCache, lru, locals>>
    BY <1>5 DEF insertNegative
  <2>6. ListInv' /\ FiniteBuckets'
    BY <1>1, <2>5, FrameFacts DEF FiniteBuckets, locals
  <2>7. TypeOK'
    BY <1>1, <2>4, <2>5 DEF TypeOK, lru, locals
  <2> QED BY <2>6, <2>7 DEF IInv
<1>6. ASSUME NEW d \in Domains, lookupNS(d) PROVE IInv'
  <2>1. nsCache' \in [Domains -> NSEntry \cup {None}]
    BY <1>1, <1>6 DEF lookupNS, TypeOK
  <2>2. UNCHANGED <<now, cache, currentEntries, negativeCache, lru, locals>>
    BY <1>6 DEF lookupNS
  <2>3. ListInv' /\ FiniteBuckets'
    BY <1>1, <2>2, FrameFacts DEF FiniteBuckets, locals
  <2>4. TypeOK'
    BY <1>1, <2>1, <2>2 DEF TypeOK, lru, locals
  <2> QED BY <2>3, <2>4 DEF IInv
<1>7. ASSUME NEW d \in Domains, NEW ip \in IPs, NEW ttl \in TTLs, insertNS(d, ip, ttl)
      PROVE  IInv'
  <2>1. now + enforceTTLBounds(ttl) * Second \in Nat
    BY <1>1, TTLFacts, CacheAssumption
  <2>2. [ip |-> ip, expiresAt |-> now + enforceTTLBounds(ttl) * Second] \in NSEntry
    BY <2>1 DEF NSEntry
  <2>3. nsCache' \in [Domains -> NSEntry \cup {None}]
    BY <1>1, <1>7, <2>2 DEF insertNS, TypeOK
  <2>4. UNCHANGED <<now, cache, currentEntries, negativeCache, lru, locals>>
    BY <1>7 DEF insertNS
  <2>5. ListInv' /\ FiniteBuckets'
    BY <1>1, <2>4, FrameFacts DEF FiniteBuckets, locals
  <2>6. TypeOK'
    BY <1>1, <2>3, <2>4 DEF TypeOK, lru, locals
  <2> QED BY <2>5, <2>6 DEF IInv
<1>8. CASE evictLRU
  BY <1>8, EvictStep
<1>9. CASE insertStore
  BY <1>9, StoreStep
<1>10. CASE cleanupExpired
  <2>1. /\ phase' = "cleanup" /\ todo' = Cached
        /\ UNCHANGED <<now, store, lru, pendKey, pendEntries>>
    BY <1>10 DEF cleanupExpired
  <2>2. ListInv' /\ FiniteBuckets'
    BY <1>1, <2>1, FrameFacts DEF FiniteBuckets, store
  <2>3. TypeOK'
    BY <1>1, <2>1 DEF TypeOK, store, lru, Cached
  <2> QED BY <2>2, <2>3 DEF IInv
<1>11. ASSUME NEW k \in Keys, cleanupBucket(k) PROVE IInv'
  BY <1>11, CleanupBucketStep
<1>12. CASE cleanupSweep
  <2>1. /\ phase' = "idle"
        /\ UNCHANGED <<now, cache, currentEntries, lru, pendKey, pendEntries, todo>>
    BY <1>12 DEF cleanupSweep
  <2>2. /\ nsCache' \in [Domains -> NSEntry \cup {None}]
        /\ negativeCache' \in [Keys -> NegEntry \cup {None}]
    BY <1>1, <1>12 DEF cleanupSweep, TypeOK
  <2>3. ListInv' /\ FiniteBuckets'
    BY <1>1, <2>1, FrameFacts DEF FiniteBuckets
  <2>4. TypeOK'
    BY <1>1, <2>1, <2>2 DEF TypeOK, lru
  <2> QED BY <2>3, <2>4 DEF IInv
<1>13. CASE UNCHANGED vars
  <2>1. UNCHANGED <<now, store, lru, locals>>
    BY <1>13 DEF vars, store, lru, locals
  <2>2. ListInv' /\ FiniteBuckets'
    BY <1>1, <2>1, FrameFacts DEF FiniteBuckets, store, locals
  <2>3. TypeOK'
    BY <1>1, <2>1 DEF TypeOK, store, lru, locals
  <2> QED BY <2>2, <2>3 DEF IInv
<1> QED
  BY <1>2, <1>3, <1>4, <1>5, <1>6, <1>7, <1>8, <1>9, <1>10, <1>11, <1>12, <1>13
  DEF Next

\* Whatever the clients and the upstream servers do, every variable of the
\* cache keeps its type (currentEntries the range of a size_t).
THEOREM TypeCorrect == Spec => []TypeOK
<1>1. IInv => TypeOK
  BY DEF IInv
<1> QED BY IInvInit, IInvStep, <1>1, PTL DEF Spec

\* updateLRU, evictLRU and the erase of cleanupExpired keep lruList, lruMap
\* and the cache consistent.
THEOREM LRUConsistency == Spec => []LRUConsistent
<1>1. IInv => LRUConsistent
  BY DEF IInv, ListInv
<1> QED BY IInvInit, IInvStep, <1>1, PTL DEF Spec

\* The list is always sorted by last use.
THEOREM LRUOrder == Spec => []LRUOrdered
<1>1. IInv => LRUOrdered
  BY DEF IInv, ListInv
<1> QED BY IInvInit, IInvStep, <1>1, PTL DEF Spec

-----------------------------------------------------------------------------
(***************************************************************************)
(* Capacity, order of eviction and loss of records.                        *)
(***************************************************************************)

\* What each step does to the buckets: nothing, drop expired records of one
\* key, evict the back of the list, or store the pending entries.
LEMMA BucketSteps ==
  ASSUME IInv, [Next]_vars
  PROVE  \/ UNCHANGED cache
         \/ \E k \in Keys :
              /\ phase # "insert"
              /\ cache' = [cache EXCEPT ![k] = removeExpiredEntries(cache[k])]
         \/ evictLRU
         \/ insertStore
<1>1. ASSUME NEW n \in Names, NEW t \in QTypes, lookup(n, t)
      PROVE  \E k \in Keys :
               /\ phase # "insert"
               /\ cache' = [cache EXCEPT ![k] = removeExpiredEntries(cache[k])]
  <2>1. makeCacheKey(n, t) \in Keys
    BY KeyFacts
  <2>2. /\ phase # "insert"
        /\ cache' = [cache EXCEPT ![makeCacheKey(n, t)] =
                        removeExpiredEntries(cache[makeCacheKey(n, t)])]
    BY <1>1 DEF lookup
  <2> QED BY <2>1, <2>2
<1>2. ASSUME NEW k \in Keys, cleanupBucket(k)
      PROVE  /\ phase # "insert"
             /\ cache' = [cache EXCEPT ![k] = removeExpiredEntries(cache[k])]
  BY <1>2 DEF cleanupBucket
<1>3. ASSUME NEW n \in Names, NEW t \in QTypes,
             NEW rs \in SUBSET [record : Records, ttl : TTLs], insert(n, t, rs)
      PROVE  UNCHANGED cache
  BY <1>3 DEF insert, store
<1>4. ASSUME NEW n \in Names, NEW t \in QTypes, NEW rc, NEW ttl,
             insertNegative(n, t, rc, ttl)
      PROVE  UNCHANGED cache
  BY <1>4 DEF insertNegative
<1>5. ASSUME NEW d \in Domains, lookupNS(d) PROVE UNCHANGED cache
  BY <1>5 DEF lookupNS
<1>6. ASSUME NEW d \in Domains, NEW ip, NEW ttl, insertNS(d, ip, ttl)
      PROVE UNCHANGED cache
  BY <1>6 DEF insertNS
<1>7. Tick \/ cleanupExpired \/ cleanupSweep \/ UNCHANGED vars => UNCHANGED cache
  BY DEF Tick, cleanupExpired, cleanupSweep, vars, store
<1> QED BY <1>1, <1>2, <1>3, <1>4, <1>5, <1>6, <1>7 DEF Next

\* Only the end of insert makes the set of cached keys larger.
LEMMA CachedShrinks ==
  ASSUME IInv, [Next]_vars, ~insertStore
  PROVE  /\ Cached' \subseteq Cached
         /\ phase = "insert" /\ Cached' # Cached => evictLRU
<1>1. TypeOK
  BY DEF IInv
<1>2. CASE UNCHANGED cache
  BY <1>2 DEF Cached
<1>3. ASSUME NEW k \in Keys, phase # "insert",
             cache' = [cache EXCEPT ![k] = removeExpiredEntries(cache[k])]
      PROVE  Cached' \subseteq Cached
  <2>1. /\ removeExpiredEntries(cache[k]) \subseteq cache[k]
        /\ cache[k] \in SUBSET Entry
    BY <1>1 DEF removeExpiredEntries, TypeOK
  <2>2. Cached' = IF removeExpiredEntries(cache[k]) = {} THEN Cached \ {k}
                                                         ELSE Cached \cup {k}
    BY <1>1, <1>3, <2>1, BucketFacts
  <2>3. removeExpiredEntries(cache[k]) # {} => k \in Cached
    BY <2>1 DEF Cached
  <2> QED BY <2>2, <2>3
<1>4. CASE evictLRU
  <2>1. cache \in [Keys -> SUBSET Entry]
    BY <1>1 DEF TypeOK
  <2>2. cache' = [cache EXCEPT ![lruList[Len(lruList)]] = {}]
    BY <1>4 DEF evictLRU
  <2>3. \A k \in Keys : cache'[k] # {} => cache[k] # {}
    BY <2>1, <2>2
  <2> QED BY <1>4, <2>3 DEF Cached
<1> QED BY <1>2, <1>3, <1>4, BucketSteps

\* There are finitely many cached keys and cached nameservers.
LEMMA CachedFinite ==
  /\ IsFiniteSet(Cached) /\ Cardinality(Cached) \in Nat
  /\ IsFiniteSet(Cached') /\ Cardinality(Cached') \in Nat
<1>1. Cached \in SUBSET Keys /\ Cached' \in SUBSET Keys
  BY DEF Cached
<1>2. IsFiniteSet(Cached) /\ IsFiniteSet(Cached')
  BY <1>1, KeyFacts, FS_Subset
<1> QED BY <1>2, FS_CardinalityType

\* insert makes room before it stores: the cache never outgrows maxEntries.
THEOREM Capacity == Spec => []CacheBounded
<1>1. Init => CacheBounded
  <2> SUFFICES ASSUME Init PROVE CacheBounded
    OBVIOUS
  <2>1. Cached = {}
    BY DEF Init, Cached
  <2> QED BY <2>1, CacheAssumption, FS_EmptySet DEF CacheBounded
<1>2. IInv /\ CacheBounded /\ [Next]_vars => CacheBounded'
  <2> SUFFICES ASSUME IInv, CacheBounded, [Next]_vars PROVE CacheBounded'
    OBVIOUS
  <2>1. CASE insertStore
    <3>1. Cached' = Cached \/ Cached' = Cached \cup {pendKey}
      <4>1. CASE pendEntries = {}
        BY <2>1, <4>1 DEF insertStore, Cached
      <4>2. CASE pendEntries # {}
        <5>1. /\ TypeOK /\ pendKey \in Keys /\ pendEntries \in SUBSET Entry
              /\ cache' = [cache EXCEPT ![pendKey] = pendEntries]
          BY <2>1, <4>2 DEF IInv, TypeOK, insertStore
        <5> QED BY <4>2, <5>1, BucketFacts
      <4> QED BY <4>1, <4>2
    <3>2. Cardinality(Cached) < maxEntries
      <4>1. ~(Cardinality(Cached) >= maxEntries) \/ Cached = {}
        BY <2>1 DEF insertStore, Full
      <4> QED BY <4>1, CachedFinite, CacheAssumption, FS_EmptySet
    <3>3. Cardinality(Cached \cup {pendKey}) <= Cardinality(Cached) + 1
      <4>1. Cardinality(Cached \cup {pendKey}) =
              IF pendKey \in Cached THEN Cardinality(Cached) ELSE Cardinality(Cached) + 1
        BY CachedFinite, FS_AddElement
      <4> QED BY <4>1, CachedFinite
    <3>4. CASE Cached' = Cached
      BY <3>4 DEF CacheBounded
    <3>5. CASE Cached' = Cached \cup {pendKey}
      <4>1. Cardinality(Cached') <= Cardinality(Cached) + 1
        BY <3>3, <3>5
      <4> QED BY <3>2, <4>1, CachedFinite, CacheAssumption DEF CacheBounded
    <3> QED BY <3>1, <3>4, <3>5
  <2>2. CASE ~insertStore
    <3>1. Cached' \in SUBSET Cached
      BY <2>2, CachedShrinks
    <3>2. Cardinality(Cached') <= Cardinality(Cached)
      BY <3>1, CachedFinite, FS_Subset
    <3> QED BY <3>2, CachedFinite, CacheAssumption DEF CacheBounded
  <2> QED BY <2>1, <2>2
<1> QED BY IInvInit, IInvStep, <1>1, <1>2, PTL DEF Spec

\* evictLRU evicts the least recently used key: the back of a sorted list.
THEOREM EvictionOrder == Spec => EvictsLeastRecentlyUsed
<1>1. IInv /\ [Next]_vars => [EvictsOldest]_vars
  <2> SUFFICES ASSUME IInv, [Next]_vars,
                      NEW v \in Cached \ Cached', NEW q \in Cached', phase = "insert"
               PROVE  lastUsed[v] <= lastUsed[q]
    BY DEF EvictsOldest
  <2>1. ~insertStore
    <3> SUFFICES ASSUME insertStore PROVE FALSE
      OBVIOUS
    <3>1. CASE pendEntries = {}
      BY <3>1 DEF insertStore, Cached
    <3>2. CASE pendEntries # {}
      <4>1. /\ TypeOK /\ pendKey \in Keys /\ pendEntries \in SUBSET Entry
            /\ cache' = [cache EXCEPT ![pendKey] = pendEntries]
        BY <3>2 DEF IInv, TypeOK, insertStore
      <4>2. Cached' = Cached \cup {pendKey}
        BY <3>2, <4>1, BucketFacts
      <4> QED BY <4>2
    <3> QED BY <3>1, <3>2
  <2>2. evictLRU /\ Cached' \subseteq Cached
    BY <2>1, CachedShrinks
  <2> DEFINE last == Len(lruList)
  <2>3. /\ lruList \in Seq(Keys) /\ lruMap = Nodes(lruList) /\ Cached \subseteq lruMap
        /\ lastUsed \in [Keys -> Nat] /\ last \in Nat
    BY LenProperties DEF IInv, TypeOK, ListInv, LRUConsistent
  <2>4. v = lruList[last]
    <3>1. cache \in [Keys -> SUBSET Entry] /\ cache' = [cache EXCEPT ![lruList[last]] = {}]
      BY <2>2 DEF evictLRU, IInv, TypeOK
    <3>2. \A k \in Keys : k # lruList[last] => cache'[k] = cache[k]
      BY <3>1
    <3> QED BY <3>2 DEF Cached
  <2>5. PICK i \in 1..last : lruList[i] = q
    BY <2>2, <2>3 DEF Nodes
  <2>6. i # last
    BY <2>4, <2>5
  <2>7. i < last /\ last \in 1..last
    BY <2>3, <2>5, <2>6
  <2>8. lastUsed[lruList[i]] >= lastUsed[lruList[last]]
    BY <2>5, <2>7 DEF IInv, ListInv, LRUOrdered
  <2>9. v \in Keys /\ q \in Keys
    BY <2>2 DEF Cached
  <2> QED BY <2>3, <2>4, <2>5, <2>8, <2>9
<1> QED BY IInvInit, IInvStep, <1>1, PTL DEF Spec, EvictsLeastRecentlyUsed

\* Fresh records are lost to capacity and to replacement only.
THEOREM NoLoss == Spec => NoSpuriousLoss
<1>1. IInv /\ [Next]_vars =>
        [\A k \in Keys : \A e \in cache[k] \ cache'[k] :
           ~isExpired(e) => phase = "insert" /\ (Full \/ k = pendKey)]_vars
  <2> SUFFICES ASSUME IInv, [Next]_vars, NEW k \in Keys,
                      NEW e \in cache[k] \ cache'[k], ~isExpired(e)
               PROVE  phase = "insert" /\ (Full \/ k = pendKey)
    OBVIOUS
  <2>1. cache \in [Keys -> SUBSET Entry]
    BY DEF IInv, TypeOK
  <2>2. CASE UNCHANGED cache
    BY <2>2
  <2>3. ASSUME NEW q \in Keys,
               cache' = [cache EXCEPT ![q] = removeExpiredEntries(cache[q])]
        PROVE  FALSE
    BY <2>1, <2>3 DEF removeExpiredEntries
  <2>4. CASE evictLRU
    BY <2>4 DEF evictLRU
  <2>5. CASE insertStore
    <3>1. phase = "insert" /\ (UNCHANGED cache \/ cache' = [cache EXCEPT ![pendKey] = pendEntries])
      BY <2>5 DEF insertStore
    <3> QED BY <2>1, <3>1
  <2> QED BY <2>2, <2>3, <2>4, <2>5, BucketSteps
<1> QED BY IInvInit, IInvStep, <1>1, PTL DEF Spec, NoSpuriousLoss

-----------------------------------------------------------------------------
(***************************************************************************)
(* The nameserver cache and the expiry times.                              *)
(***************************************************************************)

\* What each step does to the clock, to the nameserver cache, to the negative
\* cache and to the entries insert holds.
LEMMA OtherSteps ==
  ASSUME [Next]_vars
  PROVE  /\ now' = now \/ now' = now + 1
         /\ \/ UNCHANGED nsCache
            \/ \E d \in Domains : lookupNS(d)
            \/ \E d \in Domains, ip \in IPs, ttl \in TTLs : insertNS(d, ip, ttl)
            \/ cleanupSweep
         /\ \/ UNCHANGED negativeCache
            \/ \E n \in Names, t \in QTypes : lookup(n, t)
            \/ \E n \in Names, t \in QTypes, rc \in {"NXDOMAIN", "SERVFAIL"},
                  ttl \in NegTTLs : insertNegative(n, t, rc, ttl)
            \/ cleanupSweep
         /\ \/ UNCHANGED pendEntries
            \/ \E n \in Names, t \in QTypes,
                  rs \in SUBSET [record : Records, ttl : TTLs] : insert(n, t, rs)
            \/ pendEntries' = {}
<1>1. ASSUME NEW n \in Names, NEW t \in QTypes, lookup(n, t)
      PROVE  UNCHANGED <<now, nsCache, pendEntries>>
  BY <1>1 DEF lookup, locals
<1>2. ASSUME NEW n \in Names, NEW t \in QTypes,
             NEW rs \in SUBSET [record : Records, ttl : TTLs], insert(n, t, rs)
      PROVE  UNCHANGED <<now, nsCache, negativeCache>>
  BY <1>2 DEF insert, store
<1>3. ASSUME NEW n \in Names, NEW t \in QTypes, NEW rc, NEW ttl,
             insertNegative(n, t, rc, ttl)
      PROVE  UNCHANGED <<now, nsCache, pendEntries>>
  BY <1>3 DEF insertNegative, locals
<1>4. ASSUME NEW d \in Domains, lookupNS(d)
      PROVE  UNCHANGED <<now, negativeCache, pendEntries>>
  BY <1>4 DEF lookupNS, locals
<1>5. ASSUME NEW d \in Domains, NEW ip, NEW ttl, insertNS(d, ip, ttl)
      PROVE  UNCHANGED <<now, negativeCache, pendEntries>>
  BY <1>5 DEF insertNS, locals
<1>6. Tick => now' = now + 1 /\ UNCHANGED <<nsCache, negativeCache, pendEntries>>
  BY DEF Tick, store, locals
<1>7. evictLRU => UNCHANGED <<now, nsCache, negativeCache, pendEntries>>
  BY DEF evictLRU, locals
<1>8. insertStore => UNCHANGED <<now, nsCache, negativeCache>> /\ pendEntries' = {}
  BY DEF insertStore
<1>9. cleanupExpired => UNCHANGED <<now, nsCache, negativeCache, pendEntries>>
  BY DEF cleanupExpired, store
<1>10. ASSUME NEW k \in Keys, cleanupBucket(k)
       PROVE  UNCHANGED <<now, nsCache, negativeCache, pendEntries>>
  BY <1>10 DEF cleanupBucket
<1>11. cleanupSweep => UNCHANGED <<now, pendEntries>>
  BY DEF cleanupSweep
<1>12. UNCHANGED vars => UNCHANGED <<now, nsCache, negativeCache, pendEntries>>
  BY DEF vars
<1> QED
  BY <1>1, <1>2, <1>3, <1>4, <1>5, <1>6, <1>7, <1>8, <1>9, <1>10, <1>11, <1>12
  DEF Next

\* insertNS tests the size before it adds an entry, and every other operation
\* only removes entries: the nameserver cache never outgrows maxNsEntries.
THEOREM NsCapacity == Spec => []NsBounded
<1>1. Init => NsBounded
  <2> SUFFICES ASSUME Init PROVE NsBounded
    OBVIOUS
  <2>1. NsCached = {}
    BY DEF Init, NsCached
  <2> QED BY <2>1, CacheAssumption, FS_EmptySet DEF NsBounded
<1>2. IInv /\ NsBounded /\ [Next]_vars => NsBounded'
  <2> SUFFICES ASSUME IInv, NsBounded, [Next]_vars PROVE NsBounded'
    OBVIOUS
  <2>1. /\ nsCache \in [Domains -> NSEntry \cup {None}] /\ maxNsEntries \in Nat
        /\ IsFiniteSet(NsCached) /\ Cardinality(NsCached) \in Nat
    <3>1. NsCached \in SUBSET Domains
      BY DEF NsCached
    <3>2. IsFiniteSet(NsCached)
      BY <3>1, CacheAssumption, FS_Subset
    <3> QED BY <3>2, CacheAssumption, FS_CardinalityType DEF IInv, TypeOK
  <2>2. ASSUME NEW S, IsFiniteSet(S), Cardinality(S) <= maxNsEntries, NsCached' \in SUBSET S
        PROVE  NsBounded'
    <3>1. IsFiniteSet(NsCached') /\ Cardinality(NsCached') <= Cardinality(S)
      BY <2>2, FS_Subset
    <3>2. Cardinality(NsCached') \in Nat /\ Cardinality(S) \in Nat
      BY <2>2, <3>1, FS_CardinalityType
    <3> QED BY <2>1, <2>2, <3>1, <3>2 DEF NsBounded
  <2>3. CASE UNCHANGED nsCache
    BY <2>1, <2>2, <2>3 DEF NsBounded, NsCached
  <2>4. ASSUME NEW d \in Domains, lookupNS(d) PROVE NsBounded'
    <3>1. NsCached' \in SUBSET NsCached
      BY <2>1, <2>4 DEF lookupNS, NsCached
    <3> QED BY <2>1, <2>2, <3>1 DEF NsBounded
  <2>5. ASSUME NEW d \in Domains, NEW ip \in IPs, NEW ttl \in TTLs, insertNS(d, ip, ttl)
        PROVE  NsBounded'
    <3>1. NsCached' \in SUBSET (NsCached \cup {d}) /\ Cardinality(NsCached) < maxNsEntries
      BY <2>1, <2>5 DEF insertNS, NsCached
    <3>2. /\ IsFiniteSet(NsCached \cup {d})
          /\ Cardinality(NsCached \cup {d}) =
               IF d \in NsCached THEN Cardinality(NsCached) ELSE Cardinality(NsCached) + 1
      BY <2>1, FS_AddElement
    <3>3. Cardinality(NsCached \cup {d}) <= maxNsEntries
      BY <2>1, <3>1, <3>2
    <3> QED BY <2>2, <3>1, <3>2, <3>3
  <2>6. CASE cleanupSweep
    <3>1. NsCached' \in SUBSET NsCached
      BY <2>6 DEF cleanupSweep, NsCached
    <3> QED BY <2>1, <2>2, <3>1 DEF NsBounded
  <2> QED BY <2>3, <2>4, <2>5, <2>6, OtherSteps
<1> QED BY IInvInit, IInvStep, <1>1, <1>2, PTL DEF Spec

\* A time given out now with a bounded TTL lies within the bound.
LEMMA ExpiryFacts ==
  ASSUME now \in Nat
  PROVE  /\ \A ttl \in TTLs : now + enforceTTLBounds(ttl) * Second <= now + maxTTL * Second
         /\ \A ttl \in NegTTLs : now + enforceNegTTL(ttl) * Second <= now + negMax * Second
<1>1. ASSUME NEW a \in Nat, NEW b \in Nat, NEW c \in Nat, a <= b
      PROVE  now + a * c <= now + b * c
  <2>1. a * c \in Nat /\ b * c \in Nat /\ a * c <= b * c
    BY <1>1
  <2> QED BY <2>1
<1>2. ASSUME NEW ttl \in TTLs
      PROVE  now + enforceTTLBounds(ttl) * Second <= now + maxTTL * Second
  <2>1. /\ enforceTTLBounds(ttl) \in Nat /\ maxTTL \in Nat /\ Second \in Nat
        /\ enforceTTLBounds(ttl) <= maxTTL
    BY TTLFacts, CacheAssumption
  <2> QED BY <1>1, <2>1
<1>3. ASSUME NEW ttl \in NegTTLs
      PROVE  now + enforceNegTTL(ttl) * Second <= now + negMax * Second
  <2>1. /\ enforceNegTTL(ttl) \in Nat /\ negMax \in Nat /\ Second \in Nat
        /\ enforceNegTTL(ttl) <= negMax
    BY CacheAssumption DEF enforceNegTTL
  <2> QED BY <1>1, <2>1
<1> QED BY <1>2, <1>3

\* Every expiry time is the clock's at some earlier moment plus an enforced
\* TTL, and the clock never goes back.
THEOREM Staleness == Spec => []StaleBounded
<1> DEFINE soon == now + maxTTL * Second
           negSoon == now + negMax * Second
<1>1. Init => StaleBounded
  BY DEF Init, StaleBounded
<1>2. IInv /\ StaleBounded /\ [Next]_vars => StaleBounded'
  <2> SUFFICES ASSUME IInv, StaleBounded, [Next]_vars PROVE StaleBounded'
    OBVIOUS
  <2>1. /\ now \in Nat /\ cache \in [Keys -> SUBSET Entry]
        /\ negativeCache \in [Keys -> NegEntry \cup {None}]
        /\ nsCache \in [Domains -> NSEntry \cup {None}]
        /\ pendEntries \in SUBSET Entry
    BY DEF IInv, TypeOK
  <2>2. /\ soon \in Nat /\ negSoon \in Nat /\ soon' \in Nat /\ negSoon' \in Nat
        /\ soon <= soon' /\ negSoon <= negSoon'
    <3>1. maxTTL * Second \in Nat /\ negMax * Second \in Nat
      BY CacheAssumption
    <3>2. now' \in Nat /\ now <= now'
      BY <2>1, OtherSteps
    <3> QED BY <2>1, <3>1, <3>2
  <2>3. /\ \A k \in Keys : \A e \in cache[k] : e.expiresAt <= soon
        /\ \A e \in pendEntries : e.expiresAt <= soon
        /\ \A d \in Domains : nsCache[d] # None => nsCache[d].expiresAt <= soon
        /\ \A k \in Keys :
             negativeCache[k] # None => negativeCache[k].expiresAt <= negSoon
    BY DEF StaleBounded
  <2>4. /\ \A ttl \in TTLs : now + enforceTTLBounds(ttl) * Second <= soon
        /\ \A ttl \in NegTTLs : now + enforceNegTTL(ttl) * Second <= negSoon
        /\ \A ttl \in TTLs : now + enforceTTLBounds(ttl) * Second \in Nat
        /\ \A ttl \in NegTTLs : now + enforceNegTTL(ttl) * Second \in Nat
    <3>1. \A ttl \in TTLs : enforceTTLBounds(ttl) * Second \in Nat
      BY TTLFacts, CacheAssumption
    <3>2. \A ttl \in NegTTLs : enforceNegTTL(ttl) \in Nat
      BY CacheAssumption DEF enforceNegTTL
    <3>3. \A ttl \in NegTTLs : enforceNegTTL(ttl) * Second \in Nat
      BY <3>2, CacheAssumption
    <3> QED BY <2>1, <3>1, <3>3, ExpiryFacts
  <2> HIDE DEF soon, negSoon
  <2>5. \A k \in Keys : \A e \in cache'[k] : e.expiresAt <= soon'
    <3>1. \A k \in Keys : \A e \in cache'[k] : e \in Entry /\ e.expiresAt <= soon
      <4>1. CASE UNCHANGED cache
        BY <2>1, <2>3, <4>1
      <4>2. ASSUME NEW q \in Keys,
                   cache' = [cache EXCEPT ![q] = removeExpiredEntries(cache[q])]
            PROVE  \A k \in Keys : \A e \in cache'[k] : e \in Entry /\ e.expiresAt <= soon
        BY <2>1, <2>3, <4>2 DEF removeExpiredEntries
      <4>3. CASE evictLRU
        BY <2>1, <2>3, <4>3 DEF evictLRU
      <4>4. CASE insertStore
        BY <2>1, <2>3, <4>4 DEF insertStore
      <4> QED BY <4>1, <4>2, <4>3, <4>4, BucketSteps
    <3> QED BY <2>2, <3>1 DEF Entry
  <2>6. \A e \in pendEntries' : e.expiresAt <= soon'
    <3>1. CASE UNCHANGED pendEntries \/ pendEntries' = {}
      BY <2>1, <2>2, <2>3, <3>1 DEF Entry
    <3>2. ASSUME NEW n \in Names, NEW t \in QTypes,
                 NEW rs \in SUBSET [record : Records, ttl : TTLs], insert(n, t, rs)
          PROVE  \A e \in pendEntries' : e.expiresAt <= soon'
      <4>1. \A e \in pendEntries' : \E r \in rs :
              e.expiresAt = now + enforceTTLBounds(r.ttl) * Second
        BY <3>2 DEF insert
      <4> QED BY <2>2, <2>4, <4>1
    <3> QED BY <3>1, <3>2, OtherSteps
  <2>7. \A d \in Domains : nsCache'[d] # None => nsCache'[d].expiresAt <= soon'
    <3>1. \A d \in Domains :
            nsCache'[d] # None => nsCache'[d].expiresAt \in Nat /\ nsCache'[d].expiresAt <= soon
      <4>1. \A d \in Domains : nsCache[d] # None => nsCache[d].expiresAt \in Nat
        BY <2>1 DEF NSEntry
      <4>2. CASE UNCHANGED nsCache
        BY <2>3, <4>1, <4>2
      <4>3. ASSUME NEW d \in Domains, lookupNS(d)
            PROVE  \A c \in Domains : nsCache'[c] # None => nsCache'[c] = nsCache[c]
        BY <2>1, <4>3 DEF lookupNS
      <4>4. ASSUME NEW d \in Domains, NEW ip \in IPs, NEW ttl \in TTLs, insertNS(d, ip, ttl)
            PROVE  \A c \in Domains :
                     \/ nsCache'[c] = nsCache[c]
                     \/ nsCache'[c].expiresAt = now + enforceTTLBounds(ttl) * Second
        BY <2>1, <4>4 DEF insertNS
      <4>5. cleanupSweep => \A c \in Domains : nsCache'[c] # None => nsCache'[c] = nsCache[c]
        BY DEF cleanupSweep
      <4> QED BY <2>3, <2>4, <4>1, <4>2, <4>3, <4>4, <4>5, OtherSteps
    <3> QED BY <2>2, <3>1
  <2>8. \A k \in Keys : negativeCache'[k] # None => negativeCache'[k].expiresAt <= negSoon'
    <3>1. \A k \in Keys :
            negativeCache'[k] # None =>
              negativeCache'[k].expiresAt \in Nat /\ negativeCache'[k].expiresAt <= negSoon
      <4>1. \A k \in Keys : negativeCache[k] # None => negativeCache[k].expiresAt \in Nat
        BY <2>1 DEF NegEntry
      <4>2. CASE UNCHANGED negativeCache
        BY <2>3, <4>1, <4>2
      <4>3. ASSUME NEW n \in Names, NEW t \in QTypes, lookup(n, t)
            PROVE  \A k \in Keys : negativeCache'[k] # None => negativeCache'[k] = negativeCache[k]
        BY <2>1, <4>3 DEF lookup
      <4>4. ASSUME NEW n \in Names, NEW t \in QTypes, NEW rc \in {"NXDOMAIN", "SERVFAIL"},
                   NEW ttl \in NegTTLs, insertNegative(n, t, rc, ttl)
            PROVE  \A k \in Keys :
                     \/ negativeCache'[k] = negativeCache[k]
                     \/ negativeCache'[k].expiresAt = now + enforceNegTTL(ttl) * Second
        BY <2>1, <4>4 DEF insertNegative
      <4>5. cleanupSweep =>
              \A k \in Keys : negativeCache'[k] # None => negativeCache'[k] = negativeCache[k]
        BY DEF cleanupSweep
      <4> QED BY <2>3, <2>4, <4>1, <4>2, <4>3, <4>4, <4>5, OtherSteps
    <3> QED BY <2>2, <3>1
  <2> QED BY <2>5, <2>6, <2>7, <2>8 DEF StaleBounded, soon, negSoon
<1> QED BY IInvInit, IInvStep, <1>1, <1>2, PTL DEF Spec

-----------------------------------------------------------------------------
(***************************************************************************)
(* The refinement of PromptCache.                                          *)
(***************************************************************************)

\* What is found does not change with what is not looked at, and an expired
\* entry is not found whether it is there or not.
LEMMA AnswersSame ==
  ASSUME UNCHANGED now,
         \A k \in Keys : removeExpiredEntries(cache[k])' = removeExpiredEntries(cache[k])
  PROVE  Answers' = Answers
BY DEF Answers

LEMMA FailuresSame ==
  ASSUME UNCHANGED now,
         \A k \in Keys : \/ negativeCache'[k] = negativeCache[k]
                         \/ ~LookupNegativeHit(k) /\ negativeCache'[k] = None
  PROVE  Failures' = Failures
BY DEF Failures, LookupNegativeHit, isExpired

LEMMA ServersSame ==
  ASSUME UNCHANGED now,
         \A d \in Domains :
           \/ nsCache'[d] = nsCache[d]
           \/ /\ nsCache[d] # None => isExpired(nsCache[d])
              /\ nsCache'[d] = None
  PROVE  NameServers' = NameServers
BY DEF NameServers, isExpired

\* Removing what has expired twice is removing it once.
LEMMA RemoveTwice ==
  ASSUME TypeOK, UNCHANGED now, NEW q \in Keys,
         cache' = [cache EXCEPT ![q] = removeExpiredEntries(cache[q])]
  PROVE  Answers' = Answers
<1>1. cache \in [Keys -> SUBSET Entry]
  BY DEF TypeOK
<1>2. ASSUME NEW k \in Keys
      PROVE  removeExpiredEntries(cache[k])' = removeExpiredEntries(cache[k])
  BY <1>1 DEF removeExpiredEntries, isExpired
<1> QED BY <1>2, AnswersSame

\* Writing one bucket changes what is found under its key.
LEMMA AnswersWrite ==
  ASSUME TypeOK, UNCHANGED now, NEW q \in Keys, NEW S \in SUBSET Entry,
         cache' = [cache EXCEPT ![q] = S]
  PROVE  Answers' = [Answers EXCEPT ![q] = removeExpiredEntries(S)]
<1>1. cache \in [Keys -> SUBSET Entry]
  BY DEF TypeOK
<1>2. cache'[q] = S /\ \A k \in Keys \ {q} : cache'[k] = cache[k]
  BY <1>1
<1>3. ASSUME NEW k \in Keys
      PROVE  removeExpiredEntries(cache[k])' =
               IF k = q THEN removeExpiredEntries(S) ELSE removeExpiredEntries(cache[k])
  BY <1>2 DEF removeExpiredEntries, isExpired
<1> QED BY <1>3 DEF Answers

\* PromptCache counts as DnsCache does.
LEMMA SameCardinality == \A S : Prompt!Cardinality(S) = Cardinality(S)
BY DEF Prompt!Cardinality, Cardinality

\* Nothing is found but what is stored, so a store that has room has room.
LEMMA UsedFacts ==
  /\ Cardinality(Prompt!Used(Answers)) \in Nat
  /\ Cardinality(Prompt!Used(Answers)) <= Cardinality(Cached)
  /\ Cardinality(Prompt!Used(NameServers)) \in Nat
  /\ Cardinality(Prompt!Used(NameServers)) <= Cardinality(NsCached)
<1>1. Prompt!Used(Answers) \in SUBSET Cached
  BY DEF Prompt!Used, Answers, removeExpiredEntries, Cached
<1>2. Prompt!Used(NameServers) \in SUBSET NsCached
  BY DEF Prompt!Used, NameServers, NsCached
<1>3. IsFiniteSet(Cached) /\ IsFiniteSet(NsCached)
  <2>1. NsCached \in SUBSET Domains
    BY DEF NsCached
  <2> QED BY <2>1, CachedFinite, CacheAssumption, FS_Subset
<1>4. IsFiniteSet(Prompt!Used(Answers)) /\ IsFiniteSet(Prompt!Used(NameServers))
  BY <1>1, <1>2, <1>3, FS_Subset
<1> QED BY <1>1, <1>2, <1>3, <1>4, FS_Subset, FS_CardinalityType

\* The clock moves on: what is found is what was found, less what ends now.
LEMMA TickPass == TypeOK /\ Tick => Prompt!Pass
<1> SUFFICES ASSUME TypeOK, Tick PROVE Prompt!Pass
  OBVIOUS
<1>1. /\ now \in Nat /\ now' = now + 1
      /\ UNCHANGED <<cache, negativeCache, nsCache, phase, pendKey, pendEntries>>
      /\ cache \in [Keys -> SUBSET Entry]
      /\ negativeCache \in [Keys -> NegEntry \cup {None}]
      /\ nsCache \in [Domains -> NSEntry \cup {None}]
  BY DEF Tick, TypeOK, store, locals
<1>2. Answers' = Prompt!Aged(Answers, now')
  <2>1. ASSUME NEW k \in Keys
        PROVE  removeExpiredEntries(cache[k])' =
                 Prompt!Live(removeExpiredEntries(cache[k]), now')
    BY <1>1 DEF removeExpiredEntries, isExpired, Prompt!Live, Entry
  <2> QED BY <2>1 DEF Answers, Prompt!Aged
<1>3. Failures' = Prompt!Aged(Failures, now')
  <2>1. ASSUME NEW k \in Keys
        PROVE  (IF LookupNegativeHit(k) THEN {negativeCache[k]} ELSE {})' =
                 Prompt!Live(IF LookupNegativeHit(k) THEN {negativeCache[k]} ELSE {}, now')
    <3>1. CASE negativeCache[k] = None
      BY <1>1, <3>1 DEF LookupNegativeHit, Prompt!Live
    <3>2. CASE negativeCache[k] # None
      <4>1. negativeCache[k].expiresAt \in Nat
        BY <1>1, <3>2 DEF NegEntry
      <4> QED BY <1>1, <3>2, <4>1 DEF LookupNegativeHit, isExpired, Prompt!Live
    <3> QED BY <3>1, <3>2
  <2> QED BY <2>1 DEF Failures, Prompt!Aged
<1>4. NameServers' = Prompt!Aged(NameServers, now')
  <2> DEFINE found(d) ==
        IF nsCache[d] # None /\ ~isExpired(nsCache[d]) THEN {nsCache[d]} ELSE {}
  <2>1. ASSUME NEW d \in Domains PROVE found(d)' = Prompt!Live(found(d), now')
    <3>1. CASE nsCache[d] = None
      BY <1>1, <3>1 DEF Prompt!Live
    <3>2. CASE nsCache[d] # None
      <4>1. nsCache[d].expiresAt \in Nat
        BY <1>1, <3>2 DEF NSEntry
      <4> QED BY <1>1, <3>2, <4>1 DEF isExpired, Prompt!Live
    <3> QED BY <3>1, <3>2
  <2> QED BY <2>1 DEF NameServers, Prompt!Aged
<1> QED BY <1>1, <1>2, <1>3, <1>4 DEF Prompt!Pass

\* The times entries are kept, from the first to the last permitted.
LEMMA TermFacts ==
  /\ \A ttl \in TTLs : enforceTTLBounds(ttl) # 0 =>
       enforceTTLBounds(ttl) * Second \in Second * minTTL .. Second * maxTTL
  /\ \A ttl \in NegTTLs :
       enforceNegTTL(ttl) * Second \in Second * negMin .. Second * negMax
  /\ \A t \in Second * minTTL .. Second * maxTTL : t \in Nat /\ t > 0
  /\ \A t \in Second * negMin .. Second * negMax : t \in Nat /\ t > 0
<1>1. ASSUME NEW s \in Nat \ {0}, NEW a \in Nat \ {0}, NEW b \in Nat
      PROVE  /\ \A e \in a .. b : e * s \in s * a .. s * b
             /\ \A t \in s * a .. s * b : t \in Nat /\ t > 0
  <2>1. ASSUME NEW x \in Nat, NEW y \in Nat, x <= y PROVE x * s <= y * s
    BY <2>1
  <2>2. s * a = a * s /\ s * b = b * s /\ a * s \in Nat /\ b * s \in Nat
    OBVIOUS
  <2>3. a * s >= 1
    <3>1. 1 * s <= a * s
      BY <2>1
    <3> QED BY <3>1, <2>2
  <2>4. ASSUME NEW e \in a .. b PROVE e * s \in a * s .. b * s
    <3>1. e \in Nat /\ a <= e /\ e <= b /\ e * s \in Int
      OBVIOUS
    <3>2. a * s <= e * s /\ e * s <= b * s
      BY <2>1, <3>1
    <3> QED BY <3>1, <3>2, <2>2
  <2>5. ASSUME NEW t \in a * s .. b * s PROVE t \in Nat /\ t > 0
    BY <2>2, <2>3
  <2> QED BY <2>2, <2>4, <2>5
<1>2. \A ttl \in TTLs : enforceTTLBounds(ttl) # 0 => enforceTTLBounds(ttl) \in minTTL .. maxTTL
  BY CacheAssumption DEF enforceTTLBounds
<1>3. \A ttl \in NegTTLs : enforceNegTTL(ttl) \in negMin .. negMax
  BY CacheAssumption DEF enforceNegTTL
<1> QED BY <1>1, <1>2, <1>3, CacheAssumption

\* The beginning of insert: its entries, and no others, are to be stored.
LEMMA InsertBegin ==
  ASSUME TypeOK, NEW n \in Names, NEW t \in QTypes,
         NEW rs \in SUBSET [record : Records, ttl : TTLs], insert(n, t, rs)
  PROVE  \E k \in Keys : Prompt!Begin(k)
<1> DEFINE key == makeCacheKey(n, t)
           kept == {q \in rs : enforceTTLBounds(q.ttl) # 0}
           es == {[record |-> r.record,
                   expiresAt |-> now + enforceTTLBounds(r.ttl) * Second] : r \in kept}
           Lasting == [record : Records,
                       expiresAt : {now + x : x \in Second * minTTL .. Second * maxTTL}]
<1>1. key \in Keys
  BY KeyFacts
<1>2. /\ phase = "idle" /\ phase' = "insert" /\ pendKey' = key /\ pendEntries' = es
      /\ UNCHANGED <<now, cache, negativeCache, nsCache>>
  BY DEF insert, store
<1>3. es \in SUBSET Lasting
  <2> SUFFICES ASSUME NEW r \in kept
               PROVE  [record |-> r.record,
                       expiresAt |-> now + enforceTTLBounds(r.ttl) * Second] \in Lasting
    OBVIOUS
  <2>1. r.record \in Records /\ r.ttl \in TTLs /\ enforceTTLBounds(r.ttl) # 0
    OBVIOUS
  <2>2. enforceTTLBounds(r.ttl) * Second \in Second * minTTL .. Second * maxTTL
    BY <2>1, TermFacts
  <2> QED BY <2>1, <2>2
<1>4. UNCHANGED <<Answers, Failures, NameServers>>
  <2>1. \A k \in Keys : removeExpiredEntries(cache[k])' = removeExpiredEntries(cache[k])
    BY <1>2 DEF removeExpiredEntries, isExpired
  <2> QED BY <1>2, <2>1, AnswersSame, FailuresSame, ServersSame
<1> HIDE DEF key, es
<1>5. Prompt!Begin(key)
  BY <1>2, <1>3, <1>4 DEF Prompt!Begin
<1> QED BY <1>1, <1>5

\* An iteration of the eviction loop takes out one whole answer.
LEMMA EvictMakesRoom ==
  ASSUME IInv, evictLRU
  PROVE  \E k \in Keys : Prompt!MakeRoom(k)
<1> DEFINE node == lruList[Len(lruList)]
<1>1. /\ phase = "insert" /\ lruList # <<>> /\ cache' = [cache EXCEPT ![node] = {}]
      /\ UNCHANGED <<now, negativeCache, nsCache, phase, pendKey, pendEntries>>
  BY DEF evictLRU, locals
<1>2. node \in Keys
  BY <1>1, PopBackFacts DEF IInv, TypeOK, ListInv, LRUConsistent
<1> HIDE DEF node
<1>3. Answers' = [Answers EXCEPT ![node] = {}]
  <2>1. removeExpiredEntries({}) = {} /\ {} \in SUBSET Entry
    BY DEF removeExpiredEntries
  <2>2. Answers' = [Answers EXCEPT ![node] = removeExpiredEntries({})]
    BY <1>1, <1>2, <2>1, AnswersWrite DEF IInv
  <2> QED BY <2>1, <2>2
<1>4. Failures' = Failures /\ NameServers' = NameServers
  BY <1>1, FailuresSame, ServersSame
<1>5. Prompt!MakeRoom(node)
  BY <1>1, <1>3, <1>4 DEF Prompt!MakeRoom
<1> QED BY <1>2, <1>5

\* The end of insert: there is room, and what is stored is what of the entries
\* has not expired while room was made.
LEMMA InsertStores == IInv /\ insertStore => Prompt!Store
<1> SUFFICES ASSUME IInv, insertStore PROVE Prompt!Store
  OBVIOUS
<1>1. /\ phase = "insert" /\ phase' = "idle" /\ ~Full
      /\ UNCHANGED <<now, negativeCache, nsCache>>
      /\ pendKey \in Keys /\ pendEntries \in SUBSET Entry /\ TypeOK
  BY DEF insertStore, IInv, TypeOK
<1>2. Cardinality(Prompt!Used(Answers)) < maxEntries
  <2>1. Cardinality(Cached) < maxEntries
    <3>1. ~(Cardinality(Cached) >= maxEntries) \/ Cached = {}
      BY <1>1 DEF Full
    <3> QED BY <3>1, CachedFinite, CacheAssumption, FS_EmptySet
  <2> QED BY <2>1, UsedFacts, CachedFinite, CacheAssumption
<1>3. Answers' = IF pendEntries = {} THEN Answers
                 ELSE [Answers EXCEPT ![pendKey] = Prompt!Live(pendEntries, now)]
  <2>1. CASE pendEntries = {}
    <3>1. \A k \in Keys : removeExpiredEntries(cache[k])' = removeExpiredEntries(cache[k])
      BY <1>1, <2>1 DEF insertStore, removeExpiredEntries, isExpired
    <3> QED BY <1>1, <2>1, <3>1, AnswersSame
  <2>2. CASE pendEntries # {}
    <3>1. cache' = [cache EXCEPT ![pendKey] = pendEntries]
      BY <2>2 DEF insertStore
    <3>2. Answers' = [Answers EXCEPT ![pendKey] = removeExpiredEntries(pendEntries)]
      BY <1>1, <3>1, AnswersWrite
    <3>3. removeExpiredEntries(pendEntries) = Prompt!Live(pendEntries, now)
      BY <1>1 DEF removeExpiredEntries, isExpired, Prompt!Live, Entry, TypeOK
    <3> QED BY <2>2, <3>2, <3>3
  <2> QED BY <2>1, <2>2
<1>4. Failures' = Failures /\ NameServers' = NameServers
  BY <1>1, FailuresSame, ServersSame
<1>5. \E w \in {<<pendKey, pendEntries>>} :
        Answers' = IF w[2] = {} THEN Answers
                   ELSE [Answers EXCEPT ![w[1]] = Prompt!Live(w[2], now)]
  BY <1>3
<1> QED BY <1>1, <1>2, <1>4, <1>5, SameCardinality DEF Prompt!Store

\* insertNegative stores one failure.
LEMMA NegativeFails ==
  ASSUME TypeOK, NEW n \in Names, NEW t \in QTypes, NEW rc \in {"NXDOMAIN", "SERVFAIL"},
         NEW ttl \in NegTTLs, insertNegative(n, t, rc, ttl)
  PROVE  \E k \in Keys : Prompt!Fail(k)
<1> DEFINE key == makeCacheKey(n, t)
           term == enforceNegTTL(ttl) * Second
           e == [resCode |-> rc, expiresAt |-> now + term]
<1>1. key \in Keys /\ term \in Second * negMin .. Second * negMax /\ term \in Nat /\ term > 0
  BY KeyFacts, TermFacts
<1>2. /\ phase = "idle" /\ negativeCache' = [negativeCache EXCEPT ![key] = e]
      /\ UNCHANGED <<now, cache, nsCache, phase, pendKey, pendEntries>>
      /\ now \in Nat /\ negativeCache \in [Keys -> NegEntry \cup {None}]
  BY DEF insertNegative, locals, TypeOK
<1> HIDE DEF key, term
<1>3. e # None
  <2>1. e \in NegEntry
    BY <1>1, <1>2 DEF NegEntry
  <2> QED BY <2>1, NoneAssumption
<1>4. Failures' = [Failures EXCEPT ![key] = {e}]
  <2>1. negativeCache'[key] = e /\ \A k \in Keys \ {key} : negativeCache'[k] = negativeCache[k]
    BY <1>1, <1>2
  <2>2. LookupNegativeHit(key)'
    BY <1>1, <1>2, <1>3, <2>1 DEF LookupNegativeHit, isExpired
  <2>3. \A k \in Keys \ {key} : LookupNegativeHit(k)' <=> LookupNegativeHit(k)
    BY <1>2, <2>1 DEF LookupNegativeHit, isExpired
  <2> HIDE DEF e
  <2> QED BY <1>1, <2>1, <2>2, <2>3 DEF Failures
<1>5. Answers' = Answers /\ NameServers' = NameServers
  <2>1. \A k \in Keys : removeExpiredEntries(cache[k])' = removeExpiredEntries(cache[k])
    BY <1>2 DEF removeExpiredEntries, isExpired
  <2> QED BY <1>2, <2>1, AnswersSame, ServersSame
<1>6. \E c \in {"NXDOMAIN", "SERVFAIL"}, x \in Second * negMin .. Second * negMax :
        Failures' = [Failures EXCEPT ![key] = {[resCode |-> c, expiresAt |-> now + x]}]
  BY <1>1, <1>4
<1>7. Prompt!Fail(key)
  BY <1>2, <1>5, <1>6 DEF Prompt!Fail
<1> QED BY <1>1, <1>7

\* insertNS stores one name server, if there is room.
LEMMA NSLearns ==
  ASSUME TypeOK, NEW d \in Domains, NEW ip \in IPs, NEW ttl \in TTLs, insertNS(d, ip, ttl)
  PROVE  Prompt!Learn(d)
<1> DEFINE term == enforceTTLBounds(ttl) * Second
           e == [ip |-> ip, expiresAt |-> now + term]
<1>1. term \in Second * minTTL .. Second * maxTTL /\ term \in Nat /\ term > 0
  <2>1. enforceTTLBounds(ttl) # 0
    BY DEF insertNS
  <2> QED BY <2>1, TermFacts
<1>2. /\ phase = "idle" /\ nsCache' = [nsCache EXCEPT ![d] = e]
      /\ Cardinality(NsCached) < maxNsEntries
      /\ UNCHANGED <<now, cache, negativeCache, phase, pendKey, pendEntries>>
      /\ now \in Nat /\ nsCache \in [Domains -> NSEntry \cup {None}]
  BY DEF insertNS, locals, TypeOK
<1> HIDE DEF term
<1>3. e # None
  <2>1. e \in NSEntry
    BY <1>1, <1>2 DEF NSEntry
  <2> QED BY <2>1, NoneAssumption
<1>4. NameServers' = [NameServers EXCEPT ![d] = {e}]
  <2>1. nsCache'[d] = e /\ \A k \in Domains \ {d} : nsCache'[k] = nsCache[k]
    BY <1>2
  <2>2. ~isExpired(nsCache[d])'
    BY <1>1, <1>2, <2>1 DEF isExpired
  <2>3. \A k \in Domains \ {d} : isExpired(nsCache[k])' <=> isExpired(nsCache[k])
    BY <1>2, <2>1 DEF isExpired
  <2> HIDE DEF e
  <2> QED BY <1>3, <2>1, <2>2, <2>3 DEF NameServers
<1>5. Answers' = Answers /\ Failures' = Failures
  <2>1. \A k \in Keys : removeExpiredEntries(cache[k])' = removeExpiredEntries(cache[k])
    BY <1>2 DEF removeExpiredEntries, isExpired
  <2> QED BY <1>2, <2>1, AnswersSame, FailuresSame
<1>6. Cardinality(Prompt!Used(NameServers)) < maxNsEntries
  <2>1. NsCached \in SUBSET Domains
    BY DEF NsCached
  <2>2. Cardinality(NsCached) \in Nat
    BY <2>1, CacheAssumption, FS_Subset, FS_CardinalityType
  <2> QED BY <1>2, <2>2, UsedFacts, CacheAssumption
<1>7. \E i \in IPs, x \in Second * minTTL .. Second * maxTTL :
        NameServers' = [NameServers EXCEPT ![d] = {[ip |-> i, expiresAt |-> now + x]}]
  BY <1>1, <1>4
<1> QED BY <1>2, <1>5, <1>6, <1>7, SameCardinality DEF Prompt!Learn

\* Looking up and cleaning up, and whatever else an operation does, are not seen.
LEMMA Invisible ==
  ASSUME TypeOK, UNCHANGED now, phase # "insert", phase' # "insert",
         UNCHANGED cache \/ \E q \in Keys :
           cache' = [cache EXCEPT ![q] = removeExpiredEntries(cache[q])],
         \A k \in Keys : \/ negativeCache'[k] = negativeCache[k]
                         \/ ~LookupNegativeHit(k) /\ negativeCache'[k] = None,
         \A d \in Domains : \/ nsCache'[d] = nsCache[d]
                            \/ /\ nsCache[d] # None => isExpired(nsCache[d])
                               /\ nsCache'[d] = None
  PROVE  UNCHANGED Prompt!vars
<1>1. Answers' = Answers
  <2>1. CASE UNCHANGED cache
    <3>1. \A k \in Keys : removeExpiredEntries(cache[k])' = removeExpiredEntries(cache[k])
      BY <2>1 DEF removeExpiredEntries, isExpired
    <3> QED BY <3>1, AnswersSame
  <2>2. CASE \E q \in Keys : cache' = [cache EXCEPT ![q] = removeExpiredEntries(cache[q])]
    BY <2>2, RemoveTwice
  <2> QED BY <2>1, <2>2
<1>2. Failures' = Failures /\ NameServers' = NameServers
  BY FailuresSame, ServersSame
<1> QED BY <1>1, <1>2 DEF Prompt!vars

\* DnsCache implements PromptCache: expiring late is not seen, evicting is seen
\* only while an insert makes room, and nothing else goes before its time.
THEOREM ExpiresPromptly == Spec => ImplementsPrompt
<1>1. Init => Prompt!Init
  <2> SUFFICES ASSUME Init PROVE Prompt!Init
    OBVIOUS
  <2>1. Answers = [k \in Keys |-> {}]
    BY DEF Init, Answers, removeExpiredEntries
  <2>2. Failures = [k \in Keys |-> {}] /\ NameServers = [d \in Domains |-> {}]
    BY DEF Init, Failures, NameServers, LookupNegativeHit
  <2> QED BY <2>1, <2>2 DEF Init, Prompt!Init
<1>2. IInv /\ [Next]_vars => [Prompt!Next]_(Prompt!vars)
  <2> SUFFICES ASSUME IInv, [Next]_vars PROVE [Prompt!Next]_(Prompt!vars)
    OBVIOUS
  <2>1. TypeOK
    BY DEF IInv
  <2>2. CASE Tick
    BY <2>1, <2>2, TickPass DEF Prompt!Next
  <2>3. ASSUME NEW n \in Names, NEW t \in QTypes, lookup(n, t)
        PROVE  UNCHANGED Prompt!vars
    <3>1. makeCacheKey(n, t) \in Keys
      BY KeyFacts
    <3>2. /\ phase = "idle" /\ UNCHANGED <<now, nsCache, phase>>
          /\ ~LookupNegativeHit(makeCacheKey(n, t))
          /\ negativeCache' = [negativeCache EXCEPT ![makeCacheKey(n, t)] = None]
          /\ cache' = [cache EXCEPT ![makeCacheKey(n, t)] =
                          removeExpiredEntries(cache[makeCacheKey(n, t)])]
      BY <2>3 DEF lookup, locals
    <3>3. \A k \in Keys : \/ negativeCache'[k] = negativeCache[k]
                          \/ ~LookupNegativeHit(k) /\ negativeCache'[k] = None
      BY <2>1, <3>2 DEF TypeOK
    <3> QED BY <2>1, <3>1, <3>2, <3>3, Invisible
  <2>4. ASSUME NEW n \in Names, NEW t \in QTypes,
               NEW rs \in SUBSET [record : Records, ttl : TTLs], insert(n, t, rs)
        PROVE  Prompt!Next
    BY <2>1, <2>4, InsertBegin DEF Prompt!Next
  <2>5. ASSUME NEW n \in Names, NEW t \in QTypes, NEW rc \in {"NXDOMAIN", "SERVFAIL"},
               NEW ttl \in NegTTLs, insertNegative(n, t, rc, ttl)
        PROVE  Prompt!Next
    BY <2>1, <2>5, NegativeFails DEF Prompt!Next
  <2>6. ASSUME NEW d \in Domains, lookupNS(d) PROVE UNCHANGED Prompt!vars
    <3>1. /\ phase = "idle" /\ UNCHANGED <<now, cache, negativeCache, phase>>
          /\ isExpired(nsCache[d]) /\ nsCache' = [nsCache EXCEPT ![d] = None]
      BY <2>6 DEF lookupNS, locals
    <3>2. \A c \in Domains : \/ nsCache'[c] = nsCache[c]
                             \/ /\ nsCache[c] # None => isExpired(nsCache[c])
                                /\ nsCache'[c] = None
      BY <2>1, <3>1 DEF TypeOK
    <3> QED BY <2>1, <3>1, <3>2, Invisible
  <2>7. ASSUME NEW d \in Domains, NEW ip \in IPs, NEW ttl \in TTLs, insertNS(d, ip, ttl)
        PROVE  Prompt!Next
    BY <2>1, <2>7, NSLearns DEF Prompt!Next
  <2>8. CASE evictLRU
    BY <2>8, EvictMakesRoom DEF Prompt!Next
  <2>9. CASE insertStore
    BY <2>9, InsertStores DEF Prompt!Next
  <2>10. CASE cleanupExpired
    <3>1. phase = "idle" /\ phase' = "cleanup" /\ UNCHANGED <<now, cache, negativeCache, nsCache>>
      BY <2>10 DEF cleanupExpired, store
    <3> QED BY <2>1, <3>1, Invisible
  <2>11. ASSUME NEW k \in Keys, cleanupBucket(k) PROVE UNCHANGED Prompt!vars
    <3>1. /\ phase = "cleanup" /\ UNCHANGED <<now, negativeCache, nsCache, phase>>
          /\ cache' = [cache EXCEPT ![k] = removeExpiredEntries(cache[k])]
      BY <2>11 DEF cleanupBucket
    <3> QED BY <2>1, <3>1, Invisible
  <2>12. CASE cleanupSweep
    <3>1. phase = "cleanup" /\ phase' = "idle" /\ UNCHANGED <<now, cache>>
      BY <2>12 DEF cleanupSweep
    <3>2. \A k \in Keys : \/ negativeCache'[k] = negativeCache[k]
                          \/ ~LookupNegativeHit(k) /\ negativeCache'[k] = None
      BY <2>12 DEF cleanupSweep, LookupNegativeHit
    <3>3. \A d \in Domains : \/ nsCache'[d] = nsCache[d]
                             \/ /\ nsCache[d] # None => isExpired(nsCache[d])
                                /\ nsCache'[d] = None
      BY <2>12 DEF cleanupSweep
    <3> QED BY <2>1, <3>1, <3>2, <3>3, Invisible
  <2>13. CASE UNCHANGED vars
    <3>1. Answers' = Answers
      <4>1. \A k \in Keys : removeExpiredEntries(cache[k])' = removeExpiredEntries(cache[k])
        BY <2>13 DEF vars, removeExpiredEntries, isExpired
      <4> QED BY <2>13, <4>1, AnswersSame DEF vars
    <3>2. Failures' = Failures /\ NameServers' = NameServers
      BY <2>13, FailuresSame, ServersSame DEF vars
    <3> QED BY <2>13, <3>1, <3>2 DEF vars, Prompt!vars
  <2> QED BY <2>2, <2>3, <2>4, <2>5, <2>6, <2>7, <2>8, <2>9, <2>10, <2>11, <2>12, <2>13
          DEF Next
<1> QED BY IInvInit, IInvStep, <1>1, <1>2, PTL DEF Spec, ImplementsPrompt, Prompt!Spec

=============================================================================
