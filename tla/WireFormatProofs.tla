-------------------------- MODULE WireFormatProofs --------------------------
(***************************************************************************)
(* What readQName and DnsPacket do with a buffer of any bytes, of any      *)
(* size from a header's on, and for every limit on jumps and labels.       *)
(*                                                                         *)
(* Four invariants stand on Typed: Within (the limits), Placed (where a    *)
(* name ends), Fits (what is written is no longer than what was read) and  *)
(* Understood (what is read is what the bytes mean by RFC 1035).           *)
(* Behind and FlattenSeq are recursive, and are reasoned about by sets of  *)
(* numbers in place of predicates: Induction and Recursion.                *)
(***************************************************************************)
EXTENDS WireFormat, FiniteSetTheorems, SequenceTheorems, WellFoundedInduction, TLAPS

(***************************************************************************)
(* Recursion.                                                              *)
(***************************************************************************)
LEMMA LeastNat ==
  ASSUME NEW T, T \subseteq Nat, T # {}
  PROVE  \E x \in T : \A y \in T : x <= y
<1> DEFINE D == {0 .. k - 1 : k \in T}
<1>1. IsWellFoundedOn(StrictSubsetOrdering(Nat), FiniteSubsetsOf(Nat))
  BY FS_StrictSubsetOrderingWellFounded
<1>2. D \subseteq FiniteSubsetsOf(Nat) /\ D # {}
  <2>1. \A k \in T : IsFiniteSet(0 .. k - 1) /\ 0 .. k - 1 \in SUBSET Nat
    BY FS_Interval
  <2> QED BY <2>1 DEF FiniteSubsetsOf
<1>3. PICK d \in D : \A e \in D : <<e, d>> \notin StrictSubsetOrdering(Nat)
  <2> HIDE DEF D
  <2> QED BY <1>1, <1>2, WFMin
<1>4. PICK x \in T : d = 0 .. x - 1
  OBVIOUS
<1>5. ASSUME NEW y \in T, y < x PROVE FALSE
  <2>1. 0 .. y - 1 \in D /\ 0 .. y - 1 \subseteq d /\ 0 .. y - 1 # d
    BY <1>4, <1>5
  <2>2. <<0 .. y - 1, d>> \in StrictSubsetOrdering(Nat)
    BY <1>2, <2>1 DEF StrictSubsetOrdering, FiniteSubsetsOf
  <2> QED BY <1>3, <2>1, <2>2
<1> QED BY <1>5

\* Induction over 1 .. L, with the set of the numbers it is about.
LEMMA Induction ==
  ASSUME NEW L \in Nat, NEW G, 0 \in G, \A i \in 1 .. L : i - 1 \in G => i \in G
  PROVE  0 .. L \subseteq G
<1> SUFFICES ASSUME NEW k \in 0 .. L, k \notin G PROVE FALSE
  OBVIOUS
<1> DEFINE T == (0 .. L) \ G
<1>1. T \subseteq Nat /\ T # {}
  OBVIOUS
<1>2. PICK j \in T : \A i \in T : j <= i
  <2> HIDE DEF T
  <2> QED BY <1>1, LeastNat
<1>3. j \in 1 .. L /\ j - 1 \in 0 .. L /\ ~(j <= j - 1)
  OBVIOUS
<1>4. j - 1 \in G
  BY <1>2, <1>3
<1> QED BY <1>3, <1>4

Iterates(f, L, b, op) == f[0] = b /\ \A i \in 1 .. L : f[i] = op[i][f[i - 1]]

\* A function can be defined by what it is at 0 and how each value follows from
\* the one before.
LEMMA Recursion ==
  ASSUME NEW L \in Nat, NEW V, NEW b \in V, NEW op \in [1 .. L -> [V -> V]]
  PROVE  \E f \in [0 .. L -> V] : Iterates(f, L, b, op)
<1> DEFINE Upto(k) == \E f \in [0 .. k -> V] :
                        f[0] = b /\ \A i \in 1 .. k : f[i] = op[i][f[i - 1]]
           G == {k \in 0 .. L : Upto(k)}
<1>1. Upto(0)
  <2> DEFINE z == [i \in 0 .. 0 |-> b]
  <2>1. z \in [0 .. 0 -> V] /\ z[0] = b /\ 1 .. 0 = {}
    OBVIOUS
  <2> HIDE DEF z
  <2> QED BY <2>1
<1>2. ASSUME NEW k \in 1 .. L, Upto(k - 1) PROVE Upto(k)
  <2>1. PICK f \in [0 .. k - 1 -> V] :
          f[0] = b /\ \A i \in 1 .. k - 1 : f[i] = op[i][f[i - 1]]
    BY <1>2
  <2> DEFINE g == [i \in 0 .. k |-> IF i = k THEN op[k][f[k - 1]] ELSE f[i]]
  <2>2. k - 1 \in 0 .. k - 1 /\ 0 \in 0 .. k /\ 0 # k
    OBVIOUS
  <2>3. op[k][f[k - 1]] \in V
    BY <2>1, <2>2
  <2>4. \A i \in 0 .. k : i # k => i \in 0 .. k - 1
    OBVIOUS
  <2>5. g \in [0 .. k -> V] /\ g[0] = b
    BY <2>1, <2>2, <2>3, <2>4
  <2>6. ASSUME NEW i \in 1 .. k PROVE g[i] = op[i][g[i - 1]]
    <3>1. i - 1 \in 0 .. k /\ i - 1 # k /\ i \in 0 .. k
      OBVIOUS
    <3>2. g[i - 1] = f[i - 1]
      BY <3>1
    <3>3. i # k => i \in 1 .. k - 1 /\ g[i] = f[i]
      BY <3>1
    <3>4. i = k => g[i] = op[k][f[k - 1]]
      BY <3>1
    <3> HIDE DEF g
    <3> QED BY <2>1, <3>2, <3>3, <3>4
  <2> HIDE DEF g
  <2> QED BY <2>5, <2>6
<1>3. 0 .. L \subseteq G
  <2> HIDE DEF Upto
  <2>1. 0 \in G /\ \A k \in 1 .. L : k - 1 \in G => k \in G
    BY <1>1, <1>2
  <2> HIDE DEF G
  <2> QED BY <2>1, Induction
<1>4. Upto(L)
  <2> HIDE DEF Upto
  <2> QED BY <1>3
<1> QED BY <1>4 DEF Iterates

\* What FlattenSeq returns, by the values its recursion passes through.
LEMMA FlattenFacts ==
  ASSUME NEW S, NEW s \in Seq(Seq(S)), s # <<>>
  PROVE  \E f \in [1 .. Len(s) -> Seq(S)] :
           /\ FlattenSeq(s) = f[Len(s)] /\ f[1] = s[1]
           /\ \A i \in 2 .. Len(s) : f[i] = f[i - 1] \o s[i]
<1> DEFINE L == Len(s)
           V == Seq(S)
           nil == <<>>
           op == [i \in 1 .. L |-> [v \in V |-> v \o s[i]]]
           Def(h) == h = [i \in 1 .. L |-> IF i = 1 THEN s[i] ELSE h[i - 1] \o s[i]]
           h == CHOOSE h : Def(h)
<1>1. L \in Nat /\ L >= 1 /\ \A i \in 1 .. L : s[i] \in V
  OBVIOUS
<1>2. nil \in V /\ (\A v \in V : nil \o v = v) /\ \A v, w \in V : v \o w \in V
  OBVIOUS
<1>3. FlattenSeq(s) = h[L]
  BY <1>1 DEF FlattenSeq
<1> HIDE DEF h, V
<1>4. op \in [1 .. L -> [V -> V]]
  BY <1>1, <1>2
<1>5. \A i \in 1 .. L : \A v \in V : op[i][v] = v \o s[i]
  OBVIOUS
<1> HIDE DEF op, L, nil
<1>6. PICK f \in [0 .. L -> V] : Iterates(f, L, nil, op)
  <2>1. L \in Nat /\ nil \in V
    BY <1>1, <1>2
  <2> QED BY <2>1, <1>4, Recursion, Zenon
<1>7. \A i \in 1 .. L : i - 1 \in 0 .. L /\ i \in 0 .. L
  BY <1>1
<1>8. \A i \in 1 .. L : f[i] = f[i - 1] \o s[i]
  BY <1>5, <1>6, <1>7 DEF Iterates
<1> DEFINE g == [i \in 1 .. L |-> f[i]]
<1>9. /\ g \in [1 .. L -> V] /\ g[1] = s[1]
      /\ \A i \in 2 .. L : g[i] = g[i - 1] \o s[i]
  <2>1. g \in [1 .. L -> V]
    BY <1>6, <1>7
  <2>2. 1 \in 1 .. L /\ 1 - 1 = 0
    BY <1>1
  <2>3. g[1] = s[1]
    <3>1. g[1] = f[1] /\ f[1] = f[0] \o s[1]
      BY <1>8, <2>2
    <3> HIDE DEF g
    <3> QED BY <1>1, <1>2, <1>6, <2>2, <3>1 DEF Iterates
  <2>4. \A i \in 2 .. L : i \in 1 .. L /\ i - 1 \in 1 .. L
    BY <1>1
  <2> QED BY <1>8, <2>1, <2>3, <2>4
<1> HIDE DEF g
<1>10. Def(g)
  <2>1. \A i \in 1 .. L : i # 1 => i \in 2 .. L
    BY <1>1
  <2> QED BY <1>9, <2>1
<1>11. Def(h)
  <2> HIDE DEF Def
  <2> QED BY <1>10 DEF h
<1>12. ASSUME NEW i \in 1 .. L
       PROVE  h[i] = IF i = 1 THEN s[i] ELSE h[i - 1] \o s[i]
  BY <1>11
<1>13. DOMAIN h = 1 .. L /\ h = [i \in DOMAIN h |-> h[i]]
  BY <1>11
<1> HIDE DEF Def
<1> DEFINE G == {i \in 0 .. L : i = 0 \/ h[i] = g[i]}
<1>14. ASSUME NEW i \in 1 .. L, i - 1 \in G PROVE h[i] = g[i]
  <2>1. i # 1 => i \in 2 .. L /\ h[i - 1] = g[i - 1]
    BY <1>1, <1>14
  <2> QED BY <1>9, <1>12, <2>1
<1>15. 0 \in G /\ \A i \in 1 .. L : i - 1 \in G => i \in G
  BY <1>1, <1>14
<1>16. 0 .. L \subseteq G
  <2> HIDE DEF G
  <2> QED BY <1>1, <1>15, Induction
<1>17. h[L] = g[L]
  BY <1>1, <1>16
<1> QED BY <1>3, <1>9, <1>17 DEF L, V

LEMMA FlattenType ==
  ASSUME NEW S, NEW s \in Seq(Seq(S))
  PROVE  FlattenSeq(s) \in Seq(S)
<1>1. CASE s = <<>>
  BY <1>1 DEF FlattenSeq
<1>2. CASE s # <<>>
  <2> DEFINE V == Seq(S)
             L == Len(s)
  <2>1. L \in 1 .. L
    BY <1>2
  <2>2. PICK f \in [1 .. L -> V] : FlattenSeq(s) = f[L]
    BY <1>2, FlattenFacts
  <2> HIDE DEF V, L
  <2>3. f[L] \in V
    BY <2>1, <2>2
  <2> QED BY <2>2, <2>3 DEF V
<1> QED BY <1>1, <1>2

\* FlattenSeq takes an appended sequence to the end of what it returned before.
LEMMA FlattenAppend ==
  ASSUME NEW S, NEW s \in Seq(Seq(S)), NEW e \in Seq(S)
  PROVE  FlattenSeq(Append(s, e)) = FlattenSeq(s) \o e
<1> DEFINE V == Seq(S)
           L == Len(s)
           t == Append(s, e)
           nil == <<>>
<1>1. t \in Seq(V) /\ t # <<>> /\ Len(t) = L + 1 /\ L \in Nat
  <2>1. s \in Seq(V) /\ e \in V
    OBVIOUS
  <2> HIDE DEF V
  <2>2. t \in Seq(V) /\ Len(t) = L + 1 /\ L \in Nat
    BY <2>1
  <2> HIDE DEF t
  <2>3. t # <<>>
    BY <2>2
  <2> QED BY <2>2, <2>3
<1>2. t[L + 1] = e /\ \A i \in 1 .. L : t[i] = s[i]
  OBVIOUS
<1>3. PICK g \in [1 .. L + 1 -> V] :
        /\ FlattenSeq(t) = g[L + 1] /\ g[1] = t[1]
        /\ \A i \in 2 .. L + 1 : g[i] = g[i - 1] \o t[i]
  <2> HIDE DEF t, L
  <2>1. \E g \in [1 .. Len(t) -> Seq(S)] :
           /\ FlattenSeq(t) = g[Len(t)] /\ g[1] = t[1]
           /\ \A i \in 2 .. Len(t) : g[i] = g[i - 1] \o t[i]
    <3>1. t \in Seq(Seq(S)) /\ t # <<>>
      BY <1>1 DEF V
    <3> QED BY ONLY <3>1, FlattenFacts
  <2> QED BY <1>1, <2>1, Zenon DEF V
<1>4. CASE s = nil
  <2>1. FlattenSeq(s) = nil /\ L = 0 /\ nil \o e = e
    BY <1>4 DEF FlattenSeq
  <2> HIDE DEF t, L, nil
  <2>2. FlattenSeq(t) = FlattenSeq(s) \o e
    BY <1>1, <1>2, <1>3, <2>1
  <2> QED BY <2>2 DEF t
<1>5. CASE s # nil
  <2>1. PICK f \in [1 .. L -> V] :
          /\ FlattenSeq(s) = f[L] /\ f[1] = s[1]
          /\ \A i \in 2 .. L : f[i] = f[i - 1] \o s[i]
    BY <1>5, FlattenFacts
  <2>2. L >= 1
    BY <1>5
  <2> HIDE DEF t, L, V
  <2> DEFINE G == {i \in 0 .. L : i = 0 \/ f[i] = g[i]}
  <2>3. ASSUME NEW i \in 1 .. L, i - 1 \in G PROVE f[i] = g[i]
    <3>1. i # 1 => i \in 2 .. L /\ i \in 2 .. L + 1 /\ f[i - 1] = g[i - 1]
      BY <1>1, <2>3
    <3>2. i = 1 => f[i] = g[i]
      BY <1>2, <1>3, <2>1
    <3> QED BY <1>2, <1>3, <2>1, <3>1, <3>2
  <2>4. 0 \in G /\ \A i \in 1 .. L : i - 1 \in G => i \in G
    BY <1>1, <2>3
  <2>5. 0 .. L \subseteq G
    <3> HIDE DEF G
    <3> QED BY <1>1, <2>4, Induction
  <2>6. f[L] = g[L]
    BY <1>1, <2>2, <2>5
  <2>7. L + 1 \in 2 .. L + 1 /\ L + 1 - 1 = L
    BY <1>1, <2>2
  <2>8. g[L + 1] = g[L] \o e
    <3> DEFINE k == L + 1
    <3>1. k \in 2 .. L + 1 /\ k - 1 = L
      BY <1>1, <2>7
    <3>2. t[k] = e
      BY <1>2, Zenon
    <3> HIDE DEF k
    <3>3. g[k] = g[k - 1] \o t[k]
      BY <1>3, <3>1
    <3> QED BY <3>1, <3>2, <3>3, Zenon DEF k
  <2>9. FlattenSeq(t) = FlattenSeq(s) \o e
    BY <1>3, <2>1, <2>6, <2>8
  <2> QED BY <2>9 DEF t
<1> QED BY <1>4, <1>5

-----------------------------------------------------------------------------
(***************************************************************************)
(* What is written, as bytes and by its length.                            *)
(***************************************************************************)
Bytes == Seq(Nat)

\* Concatenation and Len, of bytes, for steps that need no more than Joined.
Join(s, t) == s \o t
Length(s) == Len(s)

LEMMA Joined ==
  ASSUME NEW s \in Bytes, NEW t \in Bytes
  PROVE  Join(s, t) \in Bytes /\ Length(Join(s, t)) = Length(s) + Length(t) /\ Length(s) \in Nat
BY DEF Bytes, Join, Length

LEMMA W16Facts ==
  ASSUME NEW v \in Nat
  PROVE  W16(v) \in Bytes /\ Length(W16(v)) = 2
<1>1. v \div 256 \in Nat /\ v % 256 \in Nat
  OBVIOUS
<1> QED BY <1>1 DEF W16, Bytes, Length

LEMMA W32Facts ==
  ASSUME NEW v \in Nat
  PROVE  W32(v) \in Bytes /\ Length(W32(v)) = 4
<1> DEFINE a == v \div 65536
           b == v % 65536
<1>1. a \in Nat /\ b \in Nat
  OBVIOUS
<1>2. W32(v) = W16(a) \o W16(b)
  BY DEF W32
<1> HIDE DEF a, b
<1>3. /\ W16(a) \in Bytes /\ Length(W16(a)) = 2
      /\ W16(b) \in Bytes /\ Length(W16(b)) = 2
  BY <1>1, W16Facts
<1>4. Join(W16(a), W16(b)) \in Bytes /\ Length(Join(W16(a), W16(b))) = 4
  BY <1>3, Joined
<1> QED BY <1>2, <1>4 DEF Join

\* The bytes a name that was read took in place: its labels with a length each.
NameSize(s) == IF s = <<>> THEN 1 ELSE Len(s) + 2

LEMMA LabelSizeNat ==
  ASSUME NEW s \in Bytes, NEW i \in Nat
  PROVE  labelSize(s, i) \in Nat
<1> DEFINE T == {j \in i .. Len(s) : \A d \in i .. j : s[d] # Dot}
<1>1. IsFiniteSet(i .. Len(s)) /\ T \subseteq i .. Len(s)
  BY FS_Interval DEF Bytes
<1>2. IsFiniteSet(T)
  BY <1>1, FS_Subset
<1> QED BY <1>2, FS_CardinalityType DEF labelSize

LEMMA NameFacts ==
  ASSUME NEW s \in Bytes
  PROVE  writeQName(s) \in Bytes /\ Length(writeQName(s)) <= NameSize(s)
<1> DEFINE k == Len(s) + (IF s = <<>> \/ s[Len(s)] = Dot THEN 0 ELSE 1)
<1>1. k \in Nat /\ k <= Len(s) + 1 /\ (s = <<>> => k = 0)
  BY DEF Bytes
<1>2. ASSUME NEW i \in 1 .. k
      PROVE  (IF i \in splitString(s) THEN labelSize(s, i) ELSE s[i - 1]) \in Nat
  <2>1. CASE i \in splitString(s)
    BY <2>1, LabelSizeNat
  <2>2. CASE i \notin splitString(s)
    <3>1. s # <<>> /\ Len(s) \in Nat /\ Len(s) >= 1
      BY <1>1 DEF Bytes
    <3>2. i # 1
      BY <2>2, <3>1 DEF splitString, Bytes
    <3>3. i - 1 \in 1 .. Len(s)
      BY <1>1, <3>1, <3>2
    <3> QED BY <2>2, <3>3 DEF Bytes
  <2> QED BY <2>1, <2>2
<1>3. Labels(s) = [i \in 1 .. k |-> IF i \in splitString(s) THEN labelSize(s, i) ELSE s[i - 1]]
  BY DEF Labels
<1> HIDE DEF k
<1>4. Labels(s) \in Bytes /\ Length(Labels(s)) = k
  BY <1>1, <1>2, <1>3 DEF Bytes, Length
<1>5. <<0>> \in Bytes /\ Length(<<0>>) = 1
  BY DEF Bytes, Length
<1>6. writeQName(s) \in Bytes /\ Length(writeQName(s)) = k + 1
  BY <1>1, <1>4, <1>5, Joined DEF writeQName, Join
<1> QED BY <1>1, <1>6 DEF NameSize, Bytes

Question == [name : Bytes, type : Nat]
Carried == [name : Bytes, type : Nat, ttl : Nat, length : Nat, fixed : Bytes, host : Bytes]
DnsHeader == [id : Nat, opcode : Nat, rescode : Nat, flags : SUBSET DOMAIN Flag,
              counts : [1 .. 4 -> Nat]]

LEMMA HeaderFacts ==
  ASSUME NEW h \in DnsHeader, NEW counts \in [1 .. 4 -> Nat]
  PROVE  writeHeader(h, counts) \in Bytes /\ Length(writeHeader(h, counts)) = 12
<1> DEFINE flags == h.rescode + 2048 * h.opcode
                      + Bit(h, "recursionDesired") + Bit(h, "truncatedMessage")
                      + Bit(h, "authoritativeAnswer") + Bit(h, "response")
                      + Bit(h, "checkingDisabled") + Bit(h, "authedData") + Bit(h, "z")
                      + Bit(h, "recursionAvailable")
<1>1. \A f \in DOMAIN Flag : Bit(h, f) \in Nat
  BY DEF Bit, Flag
<1>2. h.id \in Nat /\ h.rescode \in Nat /\ h.opcode \in Nat
  BY DEF DnsHeader
<1>3. flags \in Nat
  <2>1. {"recursionDesired", "truncatedMessage", "authoritativeAnswer", "response",
         "checkingDisabled", "authedData", "z", "recursionAvailable"} \subseteq DOMAIN Flag
    BY DEF Flag
  <2> QED BY <1>1, <1>2, <2>1
<1>4. writeHeader(h, counts) =
        W16(h.id) \o W16(flags) \o W16(counts[1]) \o W16(counts[2]) \o W16(counts[3])
          \o W16(counts[4])
  BY DEF writeHeader
<1> HIDE DEF flags
<1> DEFINE a == W16(h.id)
           b == Join(a, W16(flags))
           c == Join(b, W16(counts[1]))
           d == Join(c, W16(counts[2]))
           e == Join(d, W16(counts[3]))
           f == Join(e, W16(counts[4]))
<1>5. a \in Bytes /\ Length(a) = 2
  BY <1>2, W16Facts
<1>6. /\ W16(flags) \in Bytes /\ Length(W16(flags)) = 2
      /\ \A i \in 1 .. 4 : W16(counts[i]) \in Bytes /\ Length(W16(counts[i])) = 2
  BY <1>3, W16Facts
<1> HIDE DEF a
<1>7. b \in Bytes /\ Length(b) = 4
  BY <1>5, <1>6, Joined
<1> HIDE DEF b
<1>8. c \in Bytes /\ Length(c) = 6
  BY <1>6, <1>7, Joined
<1> HIDE DEF c
<1>9. d \in Bytes /\ Length(d) = 8
  BY <1>6, <1>8, Joined
<1> HIDE DEF d
<1>10. e \in Bytes /\ Length(e) = 10
  BY <1>6, <1>9, Joined
<1> HIDE DEF e
<1>11. f \in Bytes /\ Length(f) = 12
  BY <1>6, <1>10, Joined
<1> QED BY <1>4, <1>11 DEF a, b, c, d, e, Join

LEMMA QuestionFacts ==
  ASSUME NEW q \in Question
  PROVE  /\ writeQuestion(q) \in Bytes
         /\ Length(writeQuestion(q)) <= NameSize(q.name) + 4
<1> DEFINE a == writeQName(q.name)
           b == Join(a, W16(q.type))
<1>1. q.name \in Bytes /\ q.type \in Nat
  BY DEF Question
<1>2. a \in Bytes /\ Length(a) <= NameSize(q.name)
  BY <1>1, NameFacts
<1>3. /\ W16(q.type) \in Bytes /\ Length(W16(q.type)) = 2
      /\ W16(1) \in Bytes /\ Length(W16(1)) = 2
  BY <1>1, W16Facts
<1>4. NameSize(q.name) \in Nat
  BY <1>1 DEF NameSize, Bytes
<1>5. writeQuestion(q) = Join(b, W16(1))
  BY DEF writeQuestion, Join
<1> HIDE DEF a
<1>6. b \in Bytes /\ Length(b) = Length(a) + 2 /\ Length(a) \in Nat
  BY <1>2, <1>3, Joined
<1> HIDE DEF b
<1>7. Join(b, W16(1)) \in Bytes /\ Length(Join(b, W16(1))) = Length(a) + 4
  BY <1>3, <1>6, Joined
<1> QED BY <1>2, <1>4, <1>5, <1>6, <1>7

\* The bytes a record that was read took in place.
Room(r) ==
  NameSize(r.name) + 10 + Length(r.fixed) + (IF HasHost(r.type) THEN NameSize(r.host) ELSE 0)

LEMMA RecordFacts ==
  ASSUME NEW r \in Carried
  PROVE  /\ writeDnsRecord(r) \in Bytes
         /\ Known(r.type) => Length(writeDnsRecord(r)) <= Room(r)
         /\ ~Known(r.type) => Length(writeDnsRecord(r)) = 0
<1>1. /\ r.name \in Bytes /\ r.type \in Nat /\ r.ttl \in Nat /\ r.fixed \in Bytes
      /\ r.host \in Bytes
  BY DEF Carried
<1>2. CASE ~Known(r.type)
  BY <1>2 DEF writeDnsRecord, Bytes, Length
<1>3. CASE Known(r.type)
  <2> DEFINE host == IF HasHost(r.type) THEN writeQName(r.host) ELSE <<>>
             most == IF HasHost(r.type) THEN NameSize(r.host) ELSE 0
             a == writeQName(r.name)
             b == Join(a, W16(r.type))
             c == Join(b, W16(1))
             d == Join(c, W32(r.ttl))
             e == Join(d, W16(dataSize(r)))
             f == Join(e, Data(r))
  <2>1. host \in Bytes /\ Length(host) <= most /\ most \in Nat
    <3>1. <<>> \in Bytes /\ Length(<<>>) = 0
      BY DEF Bytes, Length
    <3>2. NameSize(r.host) \in Nat
      BY <1>1 DEF NameSize, Bytes
    <3>3. writeQName(r.host) \in Bytes /\ Length(writeQName(r.host)) <= NameSize(r.host)
      BY <1>1, NameFacts
    <3> QED BY <3>1, <3>2, <3>3
  <2>2. Data(r) = Join(r.fixed, host)
    BY DEF Data, Join
  <2>3. Room(r) = NameSize(r.name) + 10 + Length(r.fixed) + most
    BY DEF Room
  <2> HIDE DEF host, most
  <2>4. /\ Data(r) \in Bytes /\ Length(Data(r)) = Length(r.fixed) + Length(host)
        /\ Length(r.fixed) \in Nat /\ Length(host) \in Nat
    <3>1. Length(host) \in Nat
      BY <2>1 DEF Bytes, Length
    <3> QED BY <1>1, <2>1, <2>2, <3>1, Joined
  <2>5. a \in Bytes /\ Length(a) <= NameSize(r.name) /\ NameSize(r.name) \in Nat
    <3>1. NameSize(r.name) \in Nat
      BY <1>1 DEF NameSize, Bytes
    <3> QED BY <1>1, <3>1, NameFacts
  <2>6. /\ W16(r.type) \in Bytes /\ Length(W16(r.type)) = 2
        /\ W16(1) \in Bytes /\ Length(W16(1)) = 2
        /\ W32(r.ttl) \in Bytes /\ Length(W32(r.ttl)) = 4
        /\ W16(dataSize(r)) \in Bytes /\ Length(W16(dataSize(r))) = 2
    <3>1. dataSize(r) \in Nat
      BY <2>4 DEF dataSize, Bytes, Length
    <3> QED BY <1>1, <3>1, W16Facts, W32Facts
  <2>7. writeDnsRecord(r) = f
    BY <1>3 DEF writeDnsRecord, Join
  <2> HIDE DEF a
  <2>8. b \in Bytes /\ Length(b) = Length(a) + 2 /\ Length(a) \in Nat
    BY <2>5, <2>6, Joined
  <2> HIDE DEF b
  <2>9. c \in Bytes /\ Length(c) = Length(a) + 4
    BY <2>6, <2>8, Joined
  <2> HIDE DEF c
  <2>10. d \in Bytes /\ Length(d) = Length(a) + 8
    BY <2>6, <2>8, <2>9, Joined
  <2> HIDE DEF d
  <2>11. e \in Bytes /\ Length(e) = Length(a) + 10
    BY <2>6, <2>8, <2>10, Joined
  <2> HIDE DEF e
  <2>12. f \in Bytes /\ Length(f) = Length(a) + 10 + Length(r.fixed) + Length(host)
    BY <2>4, <2>8, <2>11, Joined
  <2> HIDE DEF f
  <2> QED BY <1>3, <2>1, <2>3, <2>4, <2>5, <2>7, <2>8, <2>12
<1> QED BY <1>2, <1>3

LEMMA QuestionsFacts ==
  ASSUME NEW qs \in Seq(Question)
  PROVE  /\ Questions(qs) \in Bytes
         /\ qs = <<>> => Length(Questions(qs)) = 0
         /\ \A q \in Question : Length(Questions(Append(qs, q)))
                                  = Length(Questions(qs)) + Length(writeQuestion(q))
<1> DEFINE bytes(xs) == [i \in DOMAIN xs |-> writeQuestion(xs[i])]
<1>1. \A q \in Question : writeQuestion(q) \in Bytes
  BY QuestionFacts
<1>2. bytes(qs) \in Seq(Bytes)
  BY <1>1
<1>3. Questions(qs) = FlattenSeq(bytes(qs))
  BY DEF Questions
<1>4. Questions(qs) \in Bytes
  BY <1>2, <1>3, FlattenType DEF Bytes
<1>5. ASSUME qs = <<>> PROVE Length(Questions(qs)) = 0
  <2>1. bytes(qs) = <<>>
    BY <1>5
  <2> QED BY <1>3, <2>1 DEF FlattenSeq, Length
<1>6. ASSUME NEW q \in Question
      PROVE  Length(Questions(Append(qs, q)))
               = Length(Questions(qs)) + Length(writeQuestion(q))
  <2>1. bytes(Append(qs, q)) = Append(bytes(qs), writeQuestion(q))
    OBVIOUS
  <2>2. Questions(Append(qs, q)) = FlattenSeq(bytes(Append(qs, q)))
    BY DEF Questions
  <2> HIDE DEF bytes
  <2>3. Questions(Append(qs, q)) = Join(Questions(qs), writeQuestion(q))
    BY <1>1, <1>2, <1>3, <2>1, <2>2, FlattenAppend DEF Join, Bytes
  <2> QED BY <1>1, <1>4, <2>3, Joined
<1> QED BY <1>4, <1>5, <1>6

LEMMA RecordsFacts ==
  ASSUME NEW rs \in Seq(Carried)
  PROVE  /\ Records(rs) \in Bytes
         /\ rs = <<>> => Length(Records(rs)) = 0
         /\ \A r \in Carried : Length(Records(Append(rs, r)))
                                 = Length(Records(rs)) + Length(writeDnsRecord(r))
<1> DEFINE bytes(xs) == [i \in DOMAIN xs |-> writeDnsRecord(xs[i])]
<1>1. \A r \in Carried : writeDnsRecord(r) \in Bytes
  BY RecordFacts
<1>2. bytes(rs) \in Seq(Bytes)
  BY <1>1
<1>3. Records(rs) = FlattenSeq(bytes(rs))
  BY DEF Records
<1>4. Records(rs) \in Bytes
  BY <1>2, <1>3, FlattenType DEF Bytes
<1>5. ASSUME rs = <<>> PROVE Length(Records(rs)) = 0
  <2>1. bytes(rs) = <<>>
    BY <1>5
  <2> QED BY <1>3, <2>1 DEF FlattenSeq, Length
<1>6. ASSUME NEW r \in Carried
      PROVE  Length(Records(Append(rs, r)))
               = Length(Records(rs)) + Length(writeDnsRecord(r))
  <2>1. bytes(Append(rs, r)) = Append(bytes(rs), writeDnsRecord(r))
    OBVIOUS
  <2>2. Records(Append(rs, r)) = FlattenSeq(bytes(Append(rs, r)))
    BY DEF Records
  <2> HIDE DEF bytes
  <2>3. Records(Append(rs, r)) = Join(Records(rs), writeDnsRecord(r))
    BY <1>1, <1>2, <1>3, <2>1, <2>2, FlattenAppend DEF Join, Bytes
  <2> QED BY <1>1, <1>4, <2>3, Joined
<1> QED BY <1>4, <1>5, <1>6

\* The four sections of a packet, and what they take when they are written.
Sections == {ss \in [1 .. 4 -> Seq(Question \cup Carried)] :
               ss[1] \in Seq(Question) /\ \A i \in 2 .. 4 : ss[i] \in Seq(Carried)}

Kind(s) == IF s = 1 THEN Question ELSE Carried
Image(s, x) == IF s = 1 THEN writeQuestion(x) ELSE writeDnsRecord(x)

Used(ss) == Length(Questions(ss[1])) + Length(Records(ss[2])) + Length(Records(ss[3]))
              + Length(Records(ss[4]))

LEMMA UsedNat ==
  ASSUME NEW ss \in Sections
  PROVE  /\ Used(ss) \in Nat /\ Length(Questions(ss[1])) \in Nat
         /\ \A i \in 2 .. 4 : Length(Records(ss[i])) \in Nat
<1>1. ss[1] \in Seq(Question) /\ \A i \in 2 .. 4 : ss[i] \in Seq(Carried)
  BY DEF Sections
<1>2. Questions(ss[1]) \in Bytes /\ \A i \in 2 .. 4 : Records(ss[i]) \in Bytes
  BY <1>1, QuestionsFacts, RecordsFacts
<1>3. \A b \in Bytes : Length(b) \in Nat
  BY DEF Bytes, Length
<1>4. 2 \in 2 .. 4 /\ 3 \in 2 .. 4 /\ 4 \in 2 .. 4
  OBVIOUS
<1> QED BY <1>2, <1>3, <1>4 DEF Used

LEMMA WrittenFacts ==
  ASSUME NEW h \in DnsHeader, NEW ss \in Sections
  PROVE  Written(h, ss) \in Bytes /\ Length(Written(h, ss)) = 12 + Used(ss)
<1> DEFINE counts == [s \in 1 .. 4 |-> Len(ss[s])]
           a == writeHeader(h, counts)
           b == Join(a, Questions(ss[1]))
           c == Join(b, Records(ss[2]))
           d == Join(c, Records(ss[3]))
           e == Join(d, Records(ss[4]))
<1>1. ss[1] \in Seq(Question) /\ \A i \in 2 .. 4 : ss[i] \in Seq(Carried)
  BY DEF Sections
<1>2. counts \in [1 .. 4 -> Nat]
  BY DEF Sections
<1>3. Written(h, ss) = e
  BY DEF Written, Join
<1> HIDE DEF counts
<1>4. a \in Bytes /\ Length(a) = 12
  BY <1>2, HeaderFacts
<1>5. /\ Questions(ss[1]) \in Bytes
      /\ Records(ss[2]) \in Bytes /\ Records(ss[3]) \in Bytes /\ Records(ss[4]) \in Bytes
  BY <1>1, QuestionsFacts, RecordsFacts
<1> HIDE DEF a
<1>6. b \in Bytes /\ Length(b) = 12 + Length(Questions(ss[1]))
  BY <1>4, <1>5, Joined
<1> HIDE DEF b
<1>7. c \in Bytes /\ Length(c) = Length(b) + Length(Records(ss[2]))
  BY <1>5, <1>6, Joined
<1> HIDE DEF c
<1>8. d \in Bytes /\ Length(d) = Length(c) + Length(Records(ss[3]))
  BY <1>5, <1>7, Joined
<1> HIDE DEF d
<1>9. e \in Bytes /\ Length(e) = Length(d) + Length(Records(ss[4]))
  BY <1>5, <1>8, Joined
<1> HIDE DEF e
<1>10. /\ Length(Questions(ss[1])) \in Nat /\ Length(Records(ss[2])) \in Nat
       /\ Length(Records(ss[3])) \in Nat /\ Length(Records(ss[4])) \in Nat
  BY UsedNat
<1> QED BY <1>3, <1>6, <1>7, <1>8, <1>9, <1>10 DEF Used

LEMMA NothingUsed == NoSections \in Sections /\ Used(NoSections) = 0
<1>1. /\ NoSections \in Sections
      /\ NoSections[1] = <<>> /\ NoSections[2] = <<>> /\ NoSections[3] = <<>>
      /\ NoSections[4] = <<>>
  <2> DEFINE nil == <<>>
  <2>1. NoSections = <<nil, nil, nil, nil>>
    BY DEF NoSections
  <2>2. nil \in Seq(Question \cup Carried) /\ nil \in Seq(Question) /\ nil \in Seq(Carried)
    OBVIOUS
  <2> HIDE DEF nil
  <2>3. /\ NoSections \in [1 .. 4 -> Seq(Question \cup Carried)]
        /\ NoSections[1] = nil /\ NoSections[2] = nil
        /\ NoSections[3] = nil /\ NoSections[4] = nil
    BY <2>1, <2>2
  <2>4. \A i \in 2 .. 4 : NoSections[i] = nil
    BY <2>3
  <2> QED BY <2>2, <2>3, <2>4 DEF Sections, nil
<1>2. <<>> \in Seq(Question) /\ <<>> \in Seq(Carried)
  OBVIOUS
<1>3. Length(Questions(<<>>)) = 0 /\ Length(Records(<<>>)) = 0
  BY <1>2, QuestionsFacts, RecordsFacts
<1> QED BY <1>1, <1>3 DEF Used

\* A section grows by one item, and what is written by what that item takes.
LEMMA AppendFacts ==
  ASSUME NEW ss \in Sections, NEW s \in 1 .. 4, NEW x, x \in Kind(s),
         NEW new, new = [ss EXCEPT ![s] = Append(ss[s], x)]
  PROVE  /\ new \in Sections
         /\ Len(new[s]) = Len(ss[s]) + 1
         /\ \A i \in 1 .. 4 : i # s => new[i] = ss[i]
         /\ Used(new) = Used(ss) + Length(Image(s, x))
<1>1. /\ ss \in [1 .. 4 -> Seq(Question \cup Carried)]
      /\ ss[1] \in Seq(Question) /\ \A i \in 2 .. 4 : ss[i] \in Seq(Carried)
  BY DEF Sections
<1>2. /\ new[s] = Append(ss[s], x) /\ \A i \in 1 .. 4 : i # s => new[i] = ss[i]
      /\ DOMAIN new = 1 .. 4
  BY <1>1
<1>3. new \in Sections /\ Len(new[s]) = Len(ss[s]) + 1
  <2>1. new[1] \in Seq(Question)
    BY <1>1, <1>2 DEF Kind
  <2>2. \A i \in 2 .. 4 : new[i] \in Seq(Carried)
    BY <1>1, <1>2 DEF Kind
  <2>3. new \in [1 .. 4 -> Seq(Question \cup Carried)]
    BY <1>1 DEF Kind
  <2>4. Len(new[s]) = Len(ss[s]) + 1
    BY <1>1, <1>2
  <2> QED BY <2>1, <2>2, <2>3, <2>4 DEF Sections
<1>4. /\ Length(Questions(ss[1])) \in Nat /\ Length(Records(ss[2])) \in Nat
      /\ Length(Records(ss[3])) \in Nat /\ Length(Records(ss[4])) \in Nat
  BY UsedNat
<1>5. /\ s = 1 => writeQuestion(x) \in Bytes
      /\ s # 1 => writeDnsRecord(x) \in Bytes
  BY QuestionFacts, RecordFacts DEF Kind
<1>6. \A b \in Bytes : Length(b) \in Nat
  BY DEF Bytes, Length
<1>7. CASE s = 1
  <2>1. Length(Questions(new[1])) = Length(Questions(ss[1])) + Length(writeQuestion(x))
    BY <1>1, <1>2, <1>7, QuestionsFacts DEF Kind
  <2>2. new[2] = ss[2] /\ new[3] = ss[3] /\ new[4] = ss[4]
    BY <1>2, <1>7
  <2>3. Length(writeQuestion(x)) \in Nat
    BY <1>5, <1>6, <1>7
  <2>4. Used(new) = Used(ss) + Length(writeQuestion(x))
    BY <1>4, <2>1, <2>2, <2>3 DEF Used
  <2> QED BY <1>2, <1>3, <1>7, <2>4 DEF Image
<1>8. CASE s \in 2 .. 4
  <2>1. Length(Records(new[s])) = Length(Records(ss[s])) + Length(writeDnsRecord(x))
    BY <1>1, <1>2, <1>8, RecordsFacts DEF Kind
  <2>2. Length(writeDnsRecord(x)) \in Nat
    BY <1>5, <1>6, <1>8
  <2>3. new[1] = ss[1] /\ \A i \in 2 .. 4 : i # s => new[i] = ss[i]
    BY <1>2, <1>8
  <2>4. Used(new) = Used(ss) + Length(writeDnsRecord(x))
    <3>1. CASE s = 2
      BY <1>4, <2>1, <2>2, <2>3, <3>1 DEF Used
    <3>2. CASE s = 3
      BY <1>4, <2>1, <2>2, <2>3, <3>2 DEF Used
    <3>3. CASE s = 4
      BY <1>4, <2>1, <2>2, <2>3, <3>3 DEF Used
    <3> QED BY <1>8, <3>1, <3>2, <3>3
  <2> QED BY <1>2, <1>3, <1>8, <2>4 DEF Image
<1> QED BY <1>7, <1>8

-----------------------------------------------------------------------------
(***************************************************************************)
(* What is read.                                                           *)
(***************************************************************************)
LEMMA ByteFacts ==
  ASSUME buf \in Bytes, NEW p \in Nat
  PROVE  /\ p < Size => Get(p) \in Nat
         /\ p + 1 < Size => U16(p) \in Nat
         /\ p + 3 < Size => U32(p) \in Nat
<1>1. \A i \in Nat : i < Size => Get(i) \in Nat
  BY DEF Bytes, Size, Get
<1>2. Size \in Nat
  BY DEF Bytes, Size
<1>3. \A i \in Nat : i + 1 < Size => U16(i) \in Nat
  BY <1>1, <1>2 DEF U16
<1> QED BY <1>1, <1>2, <1>3 DEF U32

LEMMA Slice ==
  ASSUME buf \in Bytes, NEW p \in Nat, NEW k \in Nat, p + k <= Size
  PROVE  SubSeq(buf, p + 1, p + k) \in Bytes /\ Length(SubSeq(buf, p + 1, p + k)) = k
BY DEF Bytes, Size, Length

Counted ==
  header \in DnsHeader /\ \A s \in 1 .. 4 : Len(sections[s]) <= header.counts[s]

LEMMA SectionFacts ==
  ASSUME sections \in Sections, Counted
  PROVE  /\ section \in 1 .. 5
         /\ section # 5 => Len(sections[section]) < header.counts[section]
         /\ \A r \in 1 .. section - 1 : Len(sections[r]) = header.counts[r]
<1> DEFINE len == [s \in 1 .. 4 |-> Len(sections[s])]
           c == header.counts
           P(s) == /\ \A r \in 1 .. s - 1 : len[r] = c[r]
                   /\ s = 5 \/ len[s] < c[s]
<1>1. /\ \A s \in 1 .. 4 : len[s] \in Nat /\ c[s] \in Nat /\ len[s] <= c[s]
      /\ \A s \in 1 .. 4 : len[s] = Len(sections[s])
  BY DEF Sections, Counted, DnsHeader
<1> HIDE DEF len, c
<1>2. \E s \in 1 .. 5 : P(s)
  <2>1. CASE len[1] # c[1]
    BY <1>1, <2>1
  <2>2. CASE len[1] = c[1] /\ len[2] # c[2]
    <3>1. P(2)
      BY <1>1, <2>2
    <3> QED BY <3>1
  <2>3. CASE len[1] = c[1] /\ len[2] = c[2] /\ len[3] # c[3]
    <3>1. P(3)
      BY <1>1, <2>3
    <3> QED BY <3>1
  <2>4. CASE len[1] = c[1] /\ len[2] = c[2] /\ len[3] = c[3] /\ len[4] # c[4]
    <3>1. P(4)
      BY <1>1, <2>4
    <3> QED BY <3>1
  <2>5. CASE len[1] = c[1] /\ len[2] = c[2] /\ len[3] = c[3] /\ len[4] = c[4]
    <3>1. P(5)
      BY <1>1, <2>5
    <3> QED BY <3>1
  <2> QED BY <2>1, <2>2, <2>3, <2>4, <2>5
<1>3. section = CHOOSE s \in 1 .. 5 : P(s)
  <2>1. \A s \in 1 .. 5 : P(s) <=> /\ \A r \in 1 .. s - 1 : Len(sections[r]) = c[r]
                                   /\ s = 5 \/ Len(sections[s]) < c[s]
    <3>1. \A s \in 1 .. 5 : (\A r \in 1 .. s - 1 : r \in 1 .. 4) /\ (s # 5 => s \in 1 .. 4)
      OBVIOUS
    <3>2. ASSUME NEW s \in 1 .. 5
          PROVE  /\ \A r \in 1 .. s - 1 : len[r] = Len(sections[r])
                 /\ s # 5 => len[s] = Len(sections[s])
      BY <1>1, <3>1
    <3> QED BY <3>2
  <2> QED BY <2>1 DEF section, c
<1> HIDE DEF P
<1>4. section \in 1 .. 5 /\ P(section)
  BY <1>2, <1>3
<1>5. \A r \in 1 .. section - 1 : r \in 1 .. 4
  BY <1>4
<1> PICK m : m = section
  OBVIOUS
<1>6. m \in 1 .. 5 /\ P(m) /\ \A r \in 1 .. m - 1 : r \in 1 .. 4
  BY <1>4, <1>5
<1>7. \A r \in 1 .. m - 1 : Len(sections[r]) = c[r]
  BY <1>1, <1>6 DEF P
<1>8. m # 5 => Len(sections[m]) < c[m]
  <2> SUFFICES ASSUME m # 5 PROVE Len(sections[m]) < c[m]
    OBVIOUS
  <2>1. m \in 1 .. 4 /\ len[m] < c[m]
    BY <1>6 DEF P
  <2>2. len[m] = Len(sections[m])
    BY <1>1, <2>1
  <2> QED BY <2>1, <2>2
<1> QED BY <1>6, <1>7, <1>8 DEF c

Naming == [start : Nat, pos : Nat, jumped : BOOLEAN, jumps : Nat, out : Bytes]
InItem == stage \in {"name", "host", "fields"}
Stages == {"header", "item", "name", "host", "fields", "done"} \cup Ended

\* The types, and the section whose item is being read: it is not full.
Typed ==
  /\ buf \in Bytes /\ Size >= 12 /\ currPos \in Nat /\ stage \in Stages
  /\ n # None \/ InItem => n \in Naming
  /\ sections \in Sections
  /\ IF stage = "header" THEN header = None /\ sections = NoSections ELSE Counted
  /\ InItem => section # 5
  /\ stage = "host" => item \in Carried /\ section # 1 /\ Known(item.type)

LEMMA PushFacts ==
  ASSUME Typed, NEW x, InItem, Push(x), UNCHANGED header,
         x \in Kind(section)
  PROVE  /\ sections' \in Sections /\ Counted'
         /\ Used(sections') = Used(sections)
              + Length(Image(section, x))
<1> DEFINE s == section
<1>1. Counted /\ sections \in Sections
  BY DEF Typed, InItem
<1>2. s \in 1 .. 4 /\ Len(sections[s]) < header.counts[s]
  <2>1. s \in 1 .. 5 /\ (s # 5 => Len(sections[s]) < header.counts[s]) /\ s # 5
    BY <1>1, SectionFacts DEF Typed
  <2> QED BY <2>1
<1>3. sections' = [sections EXCEPT ![s] = Append(sections[s], x)]
  BY DEF Push
<1> HIDE DEF s
<1>4. /\ sections' \in Sections
      /\ Len(sections'[s]) = Len(sections[s]) + 1
      /\ \A i \in 1 .. 4 : i # s => sections'[i] = sections[i]
      /\ Used(sections') = Used(sections)
           + Length(Image(s, x))
  <2>1. x \in Kind(s)
    BY DEF s
  <2>2. sections \in Sections /\ s \in 1 .. 4
    BY <1>1, <1>2
  <2>3. \A y : y \in Kind(s) => \A new :
          new = [sections EXCEPT ![s] = Append(sections[s], y)] =>
            /\ new \in Sections
            /\ Len(new[s]) = Len(sections[s]) + 1
            /\ \A i \in 1 .. 4 : i # s => new[i] = sections[i]
            /\ Used(new) = Used(sections) + Length(Image(s, y))
    BY <2>2, AppendFacts, Zenon
  <2> QED BY <1>3, <2>1, <2>3, Zenon
<1>5. Counted'
  <2>1. \A i \in 1 .. 4 : Len(sections[i]) \in Nat /\ header.counts[i] \in Nat
    BY <1>1 DEF Sections, Counted, DnsHeader
  <2>2. \A i \in 1 .. 4 : Len(sections'[i]) <= header.counts[i]
    <3> DEFINE k == Len(sections[s])
               k1 == Len(sections'[s])
               c == header.counts[s]
    <3>1. k \in Nat /\ c \in Nat /\ k < c /\ k1 = k + 1
      BY <1>2, <1>4, <2>1
    <3>2. k1 <= c
      <4> HIDE DEF k, k1, c
      <4> QED BY <3>1
    <3>3. \A i \in 1 .. 4 : i # s => Len(sections'[i]) <= header.counts[i]
      BY <1>1, <1>4 DEF Counted
    <3> QED BY <3>2, <3>3
  <2> QED BY <1>1, <2>2 DEF Counted
<1> QED BY <1>4, <1>5 DEF s

LEMMA SectionSame ==
  ASSUME UNCHANGED <<header, sections>>
  PROVE  section' = section /\ Counted' = Counted
<1>1. header' = header /\ sections' = sections
  OBVIOUS
<1> QED BY <1>1 DEF section, Counted

LEMMA TypedInit == Init => Typed
<1> SUFFICES ASSUME NEW input \in Inputs, Start(input) PROVE Typed
  BY DEF Init
<1>1. input.bytes \in Seq(0 .. 255) /\ Len(input.bytes) >= 12
  BY WireAssumption
<1>2. buf \in Bytes /\ Size >= 12
  <2> DEFINE b == input.bytes
  <2>1. b \in Seq(0 .. 255) /\ Len(b) >= 12
    BY <1>1
  <2>2. buf = b
    BY DEF Start
  <2> HIDE DEF b
  <2>3. b \in Seq(Nat)
    <3>1. 0 .. 255 \subseteq Nat
      OBVIOUS
    <3> QED BY <2>1, <3>1, SeqMonotonic, Zenon
  <2> QED BY <2>1, <2>2, <2>3 DEF Bytes, Size
<1>3. sections \in Sections /\ sections = NoSections
  BY NothingUsed DEF Start
<1> QED BY <1>2, <1>3 DEF Start, Typed, InItem, Stages

\* Turn: the byte at n.pos is there, and with it all that the turn reads.
LEMMA TurnFacts ==
  ASSUME Typed, Turn
  PROVE  /\ InItem /\ n \in Naming /\ n.pos \in Nat /\ n.pos < Size /\ Size \in Nat
         /\ Get(n.pos) \in Nat
         /\ n.pos + Needed(Get(n.pos)) <= Size
         /\ n.jumps <= maxJumps
<1>1. InItem /\ n \in Naming /\ n.pos \in Nat /\ n.jumps <= maxJumps
  BY DEF Typed, Turn, Reading, InItem, Naming
<1>2. Size \in Nat
  BY DEF Typed, Bytes, Size
<1>3. n.pos < Size /\ ~(n.pos + Needed(Get(n.pos)) > Size)
  BY DEF Turn, OutOfRange
<1>4. Get(n.pos) \in Nat
  BY <1>1, <1>3, ByteFacts DEF Typed
<1>5. Needed(Get(n.pos)) \in Nat
  BY <1>4 DEF Needed
<1> QED BY <1>1, <1>2, <1>3, <1>4, <1>5

LEMMA JumpFacts ==
  ASSUME Typed, jump
  PROVE  /\ Target \in Nat /\ n.pos + 2 \in Nat
         /\ n' \in Naming
         /\ n'.start = n.start /\ n'.pos = Target /\ n'.jumped = TRUE
         /\ n'.jumps = n.jumps + 1 /\ n'.out = n.out
<1>1. Turn /\ IsPointer(Get(n.pos))
  BY DEF jump
<1>2. n \in Naming /\ n.pos \in Nat /\ Get(n.pos) \in Nat /\ Size \in Nat
  BY <1>1, TurnFacts
<1>3. n.pos + 1 < Size
  BY <1>1, <1>2, TurnFacts DEF Needed
<1>4. Get(n.pos + 1) \in Nat
  BY <1>2, <1>3, ByteFacts DEF Typed
<1>5. Target \in Nat
  BY <1>1, <1>2, <1>4 DEF Target, IsPointer
<1>6. n' = [n EXCEPT !.pos = Target, !.jumped = TRUE, !.jumps = @ + 1]
  BY DEF jump
<1>7. /\ n' \in Naming
      /\ n'.start = n.start /\ n'.pos = Target /\ n'.jumped = TRUE
      /\ n'.jumps = n.jumps + 1 /\ n'.out = n.out
  <2>1. n' = [start |-> n.start, pos |-> Target, jumped |-> TRUE,
              jumps |-> n.jumps + 1, out |-> n.out]
    BY <1>2, <1>6 DEF Naming
  <2>2. n.start \in Nat /\ n.jumps + 1 \in Nat /\ n.out \in Bytes
    BY <1>2 DEF Naming
  <2>3. n' \in Naming
    BY <1>5, <2>1, <2>2 DEF Naming
  <2> QED BY <2>1, <2>3
<1> QED BY <1>2, <1>5, <1>7

LEMMA LabelFacts ==
  ASSUME Typed, label
  PROVE  LET len == Get(n.pos)
         IN  /\ len \in Nat /\ len >= 1 /\ n.pos + 1 + len <= Size
             /\ n' \in Naming
             /\ n'.start = n.start /\ n'.pos = n.pos + 1 + len
             /\ n'.jumped = n.jumped /\ n'.jumps = n.jumps
             /\ Length(n'.out) = Length(n.out) + (IF n.out = <<>> THEN 0 ELSE 1) + len
<1> DEFINE len == Get(n.pos)
           dot == IF n.out = <<>> THEN <<>> ELSE <<Dot>>
           text == SubSeq(buf, n.pos + 2, n.pos + 1 + len)
           out == Join(Join(n.out, dot), text)
<1>1. /\ Turn /\ ~IsPointer(len) /\ len # 0
      /\ n' = [n EXCEPT !.pos = @ + 1 + len, !.out = out]
  BY DEF label, Join
<1>2. n \in Naming /\ n.pos \in Nat /\ len \in Nat /\ Size \in Nat
  BY <1>1, TurnFacts
<1>3. n.pos + 1 + len <= Size
  BY <1>1, <1>2, TurnFacts DEF Needed
<1> HIDE DEF len
<1>4. text \in Bytes /\ Length(text) = len
  <2>1. n.pos + 1 \in Nat /\ n.pos + 1 + 1 = n.pos + 2
    BY <1>2
  <2> QED BY <1>2, <1>3, <2>1, Slice DEF Typed
<1>5. dot \in Bytes /\ Length(dot) = IF n.out = <<>> THEN 0 ELSE 1
  BY DEF Bytes, Length, Dot
<1> HIDE DEF text, dot
<1>6. n.out \in Bytes
  BY <1>2 DEF Naming
<1>7. out \in Bytes /\ Length(out) = Length(n.out) + Length(dot) + len
  BY <1>4, <1>5, <1>6, Joined
<1> HIDE DEF out
<1>8. /\ n' \in Naming /\ n'.start = n.start /\ n'.pos = n.pos + 1 + len
      /\ n'.jumped = n.jumped /\ n'.jumps = n.jumps /\ n'.out = out
  <2>1. n' = [start |-> n.start, pos |-> n.pos + 1 + len, jumped |-> n.jumped,
              jumps |-> n.jumps, out |-> out]
    BY <1>1, <1>2 DEF Naming
  <2>2. n.start \in Nat /\ n.jumps \in Nat /\ n.jumped \in BOOLEAN /\ n.pos + 1 + len \in Nat
    BY <1>2 DEF Naming
  <2>3. n' \in Naming
    BY <1>7, <2>1, <2>2 DEF Naming
  <2> QED BY <2>1, <2>3
<1> QED BY <1>1, <1>2, <1>3, <1>5, <1>7, <1>8 DEF len

LEMMA ThrowTyped ==
  ASSUME Typed, InItem, Throw
  PROVE  Typed'
<1>1. Counted'
  BY SectionSame DEF Throw, packet, Typed, InItem
<1> QED BY <1>1 DEF Throw, packet, Typed, InItem, Stages, Ended, Size

LEMMA StartName ==
  ASSUME NEW p \in Nat
  PROVE  Name(p) \in Naming /\ Name(p).out = <<>> /\ Name(p).start = p /\ Name(p).pos = p
         /\ Name(p).jumped = FALSE /\ Name(p).jumps = 0
BY DEF Name, Naming, Bytes

\* What readRecord reads in front of the host of a record.
LEMMA FixedFacts ==
  ASSUME Typed, InRecord
  PROVE  /\ InItem /\ section # 1 /\ section \in 1 .. 4 /\ U16(currPos) \in Nat
         /\ U16(currPos + 8) \in Nat /\ Record \in Carried
         /\ Record.name = n.out /\ Record.type = U16(currPos)
         /\ currPos + 10 <= Size /\ n \in Naming
<1>1. /\ InItem /\ section # 5 /\ section > 1 /\ currPos \in Nat /\ currPos + 10 <= Size
      /\ n \in Naming /\ Size \in Nat
  BY DEF Typed, InRecord, InItem, Has, Bytes, Size
<1>2. section \in 1 .. 5
  BY <1>1, SectionFacts DEF Typed, InItem
<1>3. U16(currPos) \in Nat /\ U16(currPos + 8) \in Nat
  <2>1. currPos + 8 \in Nat /\ currPos + 8 + 1 < Size /\ currPos + 1 < Size
    BY <1>1
  <2> QED BY <1>1, <2>1, ByteFacts DEF Typed
<1>4. U32(currPos + 4) \in Nat
  <2>1. currPos + 4 \in Nat /\ currPos + 4 + 3 < Size
    BY <1>1
  <2> QED BY <2>1, ByteFacts DEF Typed
<1>5. n.out \in Bytes /\ <<>> \in Bytes
  BY <1>1 DEF Naming, Bytes
<1>6. Record \in Carried /\ Record.name = n.out /\ Record.type = U16(currPos)
  BY <1>3, <1>4, <1>5 DEF Record, Carried
<1> QED BY <1>1, <1>2, <1>3, <1>6

LEMMA KnownFacts ==
  ASSUME Typed, readKnown
  PROVE  LET r == [Record EXCEPT !.fixed = SubSeq(buf, currPos + 11, currPos + 10 + Width)]
         IN  /\ r \in Carried /\ r.name = n.out /\ r.type = U16(currPos) /\ Known(r.type)
             /\ Width \in Nat /\ Length(r.fixed) = Width
             /\ currPos + 10 + Width <= Size
<1> DEFINE fixed == SubSeq(buf, currPos + 11, currPos + 10 + Width)
           r == [Record EXCEPT !.fixed = fixed]
<1>1. InRecord /\ Known(U16(currPos)) /\ Has(10 + Width)
  BY DEF readKnown
<1>2. /\ Record \in Carried /\ Record.name = n.out /\ Record.type = U16(currPos)
      /\ currPos \in Nat /\ U16(currPos) \in Nat
  BY <1>1, FixedFacts DEF Typed
<1>3. Width \in Nat
  BY <1>1 DEF Width, Known, Fixed
<1>4. currPos + 10 + Width <= Size
  BY <1>1, <1>2, <1>3 DEF Has
<1>5. fixed \in Bytes /\ Length(fixed) = Width
  <2>1. currPos + 10 \in Nat /\ currPos + 10 + 1 = currPos + 11
    BY <1>2
  <2> HIDE DEF Width
  <2> QED BY <1>3, <1>4, <2>1, Slice DEF Typed
<1> HIDE DEF fixed
<1>6. r \in Carried /\ r.name = n.out /\ r.type = U16(currPos) /\ r.fixed = fixed
  BY <1>2, <1>5 DEF Carried
<1> HIDE DEF r
<1>7. /\ r \in Carried /\ r.name = n.out /\ r.type = U16(currPos) /\ Known(r.type)
      /\ Length(r.fixed) = Width
  BY <1>1, <1>5, <1>6
<1> QED BY <1>3, <1>4, <1>7 DEF r, fixed

LEMMA HeaderTyped ==
  ASSUME Typed, readHeader
  PROVE  Typed'
<1>1. stage = "header" /\ sections = NoSections /\ sections \in Sections /\ Size \in Nat
      /\ Size >= 12 /\ buf \in Bytes
  BY DEF readHeader, Typed, Bytes, Size
<1>2. \A i \in 0 .. 10 : U16(i) \in Nat
  BY <1>1, ByteFacts
<1> DEFINE flags == U16(2)
           on == {f \in DOMAIN Flag : (flags \div Flag[f]) % 2 = 1}
           counts == [s \in 1 .. 4 |-> U16(2 + 2 * s)]
           opcode == (flags \div 2048) % 16
           rescode == resultCodeFromNum(flags % 16)
<1>3. header' = [id |-> U16(0), opcode |-> opcode, rescode |-> rescode, flags |-> on,
                 counts |-> counts]
  BY DEF readHeader
<1>4. U16(0) \in Nat /\ opcode \in Nat /\ rescode \in Nat /\ on \subseteq DOMAIN Flag
  BY <1>2 DEF resultCodeFromNum
<1>5. counts \in [1 .. 4 -> Nat]
  BY <1>2
<1> HIDE DEF on, counts, opcode, rescode
<1>6. header' \in DnsHeader /\ header'.counts = counts
  BY <1>3, <1>4, <1>5 DEF DnsHeader
<1>7. sections' = sections /\ \A s \in 1 .. 4 : Len(sections[s]) = 0
  <2>1. \A s \in 1 .. 4 : NoSections[s] = <<>>
    BY DEF NoSections
  <2> QED BY <1>1, <2>1 DEF readHeader
<1>8. Counted'
  BY <1>5, <1>6, <1>7 DEF Counted
<1> QED BY <1>1, <1>7, <1>8 DEF readHeader, Typed, InItem, Stages, Ended, Size

LEMMA EndTyped ==
  ASSUME Typed, endName
  PROVE  Typed'
<1>1. /\ Turn /\ n \in Naming /\ n.pos \in Nat /\ InItem /\ n.out \in Bytes
      /\ (stage = "name" \/ stage = "host")
  BY TurnFacts DEF endName, Naming, Turn, Reading
<1>2. currPos' \in Nat
  BY <1>1 DEF endName, Typed
<1>3. CASE stage = "host"
  <2> DEFINE x == [item EXCEPT !.host = n.out]
  <2>1. item \in Carried /\ section # 1 /\ Push(x)
    BY <1>3 DEF Typed, endName
  <2>2. x \in Carried
    BY <1>1, <2>1 DEF Carried
  <2>3. x \in Kind(section)
    BY <2>1, <2>2 DEF Kind
  <2>4. UNCHANGED header
    BY DEF endName
  <2> HIDE DEF x
  <2>5. sections' \in Sections /\ Counted'
    BY <1>1, <2>1, <2>3, <2>4, PushFacts
  <2> QED BY <1>1, <1>2, <2>1, <2>5 DEF endName, Push, Typed, InItem, Stages, Size
<1>4. CASE stage = "name"
  <2>1. UNCHANGED <<header, sections>> /\ stage' = "fields"
    BY <1>4 DEF endName
  <2>2. section' = section /\ Counted' = Counted
    BY <2>1, SectionSame
  <2> QED BY <1>1, <1>2, <1>4, <2>1, <2>2 DEF endName, Typed, InItem, Stages, Size
<1> QED BY <1>1, <1>3, <1>4

LEMMA ItemTyped ==
  ASSUME Typed, readQuestion \/ readUnknown
  PROVE  /\ Typed'
         /\ readQuestion => [name |-> n.out, type |-> U16(currPos)] \in Question
<1>1. n \in Naming /\ n.out \in Bytes /\ currPos \in Nat /\ InItem
  BY DEF Typed, readQuestion, readUnknown, InRecord, InItem, Naming
<1>2. CASE readQuestion
  <2> DEFINE x == [name |-> n.out, type |-> U16(currPos)]
  <2>1. section = 1 /\ currPos + 4 <= Size /\ Push(x) /\ UNCHANGED header
    BY <1>2 DEF readQuestion, Has
  <2>2. U16(currPos) \in Nat
    <3>1. currPos + 1 < Size
      BY <1>1, <2>1 DEF Typed, Bytes, Size
    <3> QED BY <1>1, <3>1, ByteFacts DEF Typed
  <2>3. x \in Question /\ x \in Kind(section)
    BY <1>1, <2>1, <2>2 DEF Question, Kind
  <2> HIDE DEF x
  <2>4. sections' \in Sections /\ Counted'
    BY <1>1, <2>1, <2>3, PushFacts
  <2>5. Typed'
    BY <1>1, <1>2, <2>1, <2>4 DEF readQuestion, Push, Typed, InItem, Stages, Size
  <2> QED BY <2>3, <2>5 DEF x
<1>3. CASE readUnknown
  <2>1. InRecord /\ Push(Record) /\ UNCHANGED header
    BY <1>3 DEF readUnknown
  <2>2. Record \in Kind(section) /\ U16(currPos + 8) \in Nat
    BY <2>1, FixedFacts DEF Kind
  <2>3. sections' \in Sections /\ Counted'
    BY <1>1, <2>1, <2>2, PushFacts
  <2>4. currPos' \in Nat
    BY <1>1, <1>3, <2>2 DEF readUnknown
  <2>5. Typed'
    BY <1>1, <1>3, <2>1, <2>3, <2>4 DEF readUnknown, Push, Typed, InItem, Stages, Size
  <2>6. ~readQuestion
    BY <2>1 DEF InRecord, readQuestion
  <2> QED BY <2>5, <2>6
<1> QED BY <1>2, <1>3

LEMMA KnownTyped ==
  ASSUME Typed, readKnown
  PROVE  Typed'
<1> DEFINE r == [Record EXCEPT !.fixed = SubSeq(buf, currPos + 11, currPos + 10 + Width)]
<1>1. /\ r \in Carried /\ Known(r.type) /\ Width \in Nat
  BY KnownFacts
<1>2. InItem /\ section # 1 /\ n \in Naming /\ InRecord
  BY FixedFacts DEF readKnown
<1>3. currPos' = currPos + 10 + Width /\ currPos' \in Nat
  BY <1>1 DEF readKnown, Typed
<1>4. CASE HasHost(r.type)
  <2>1. /\ item' = r /\ n' = Name(currPos') /\ stage' = "host" /\ UNCHANGED <<header, sections>>
    BY <1>4 DEF readKnown
  <2>2. n' \in Naming
    BY <1>3, <2>1, StartName
  <2>3. section' = section /\ Counted' = Counted
    BY <2>1, SectionSame
  <2> HIDE DEF r
  <2> QED BY <1>1, <1>2, <1>3, <2>1, <2>2, <2>3 DEF readKnown, Typed, InItem, Stages, Size
<1>5. CASE ~HasHost(r.type)
  <2>1. Push(r) /\ UNCHANGED <<n, header>> /\ UNCHANGED buf
    BY <1>5 DEF readKnown
  <2>2. r \in Kind(section)
    BY <1>1, <1>2 DEF Kind
  <2> HIDE DEF r
  <2>3. sections' \in Sections /\ Counted'
    BY <1>2, <2>1, <2>2, PushFacts
  <2> QED BY <1>2, <1>3, <2>1, <2>3 DEF Push, Typed, InItem, Stages, Size
<1> QED BY <1>4, <1>5

\* A packet that fits is written to the front of a buffer of the same size.
LEMMA WriteFacts ==
  ASSUME Typed, write
  PROVE  /\ buf' \in Bytes /\ Size' = Size /\ Size \in Nat
         /\ stage' \in {"unsent", "header"} /\ first' # <<>>
         /\ stage' = "unsent" => UNCHANGED <<buf, currPos, packet>>
<1>1. Counted /\ sections \in Sections /\ buf \in Bytes /\ Size \in Nat
  BY DEF Typed, write, Bytes, Size
<1> DEFINE w == Written(header, sections)
           tail == Zeros(Size - Len(w))
<1>2. w \in Bytes
  BY <1>1, WrittenFacts DEF Counted
<1>3. first' # <<>>
  BY DEF write, packet
<1>4. CASE Unwritable(sections) \/ Len(w) > Size
  BY <1>1, <1>3, <1>4 DEF write, packet, Size
<1>5. CASE ~(Unwritable(sections) \/ Len(w) > Size)
  <2>1. buf' = Join(w, tail) /\ stage' = "header"
    BY <1>5 DEF write, Join
  <2>2. Size - Len(w) \in Nat
    BY <1>1, <1>2, <1>5 DEF Bytes
  <2> HIDE DEF w
  <2>3. tail \in Bytes /\ Length(tail) = Size - Len(w)
    BY <2>2 DEF Zeros, Bytes, Length
  <2> HIDE DEF tail
  <2>4. Join(w, tail) \in Bytes /\ Length(Join(w, tail)) = Length(w) + Length(tail)
    BY <1>2, <2>3, Joined
  <2>5. Length(w) = Len(w) /\ Length(w) \in Nat /\ Size' = Length(buf')
    BY <1>2 DEF Length, Bytes, Size
  <2>6. Size' = Size
    BY <1>1, <2>1, <2>3, <2>4, <2>5
  <2> QED BY <1>1, <1>3, <2>1, <2>4, <2>6
<1> QED BY <1>4, <1>5

LEMMA WriteTyped ==
  ASSUME Typed, write
  PROVE  Typed'
<1>1. /\ buf' \in Bytes /\ Size' = Size /\ Size \in Nat /\ Size >= 12
      /\ n' = n /\ item' = item /\ stage = "done"
  BY WriteFacts DEF write, Typed
<1>2. CASE stage' = "unsent"
  <2>1. UNCHANGED <<header, sections, currPos>>
    BY <1>2, WriteFacts DEF packet
  <2>2. Counted' = Counted
    BY <2>1, SectionSame
  <2> QED BY <1>1, <1>2, <2>1, <2>2 DEF Typed, InItem, Stages, Ended
<1>3. CASE stage' = "header"
  <2>1. currPos' = 0 /\ header' = None /\ sections' = NoSections
    BY <1>3 DEF write
  <2> QED BY <1>1, <1>3, <2>1, NothingUsed DEF Typed, InItem, Stages
<1> QED BY <1>2, <1>3, WriteFacts

LEMMA TypedStep == Typed /\ [Next]_vars => Typed'
<1> SUFFICES ASSUME Typed, [Next]_vars PROVE Typed'
  OBVIOUS
<1>1. CASE readHeader
  BY <1>1, HeaderTyped
<1>2. CASE nextItem
  <2>1. UNCHANGED <<header, sections>> /\ section # 5 /\ Name(currPos) \in Naming
    <3>1. section <= 4 /\ section \in 1 .. 5 /\ UNCHANGED <<header, sections>>
      BY <1>2, SectionFacts DEF nextItem, packet, Typed
    <3>2. Name(currPos) \in Naming
      BY StartName DEF Typed
    <3> QED BY <3>1, <3>2
  <2>2. section' = section /\ Counted' = Counted
    BY <2>1, SectionSame
  <2> QED BY <1>2, <2>1, <2>2 DEF nextItem, packet, Typed, InItem, Stages, Size
<1>3. CASE allRead
  <2>1. UNCHANGED <<header, sections>>
    BY <1>3 DEF allRead, packet
  <2>2. Counted' = Counted
    BY <2>1, SectionSame
  <2> QED BY <1>3, <2>1, <2>2 DEF allRead, Typed, InItem, Stages, Size
<1>4. CASE jumpLimit \/ endOfBuffer \/ fieldsCut
  <2>1. InItem /\ Throw
    BY <1>4 DEF jumpLimit, endOfBuffer, fieldsCut, Reading, InItem
  <2> QED BY <2>1, ThrowTyped
<1>5. CASE jump
  <2>1. InItem /\ n' \in Naming /\ currPos' \in Nat /\ UNCHANGED <<header, sections>>
    BY <1>5, JumpFacts, TurnFacts DEF jump, packet, Typed
  <2>2. section' = section /\ Counted' = Counted
    BY <2>1, SectionSame
  <2> QED BY <1>5, <2>1, <2>2 DEF jump, Typed, InItem, Stages, Size
<1>6. CASE label
  <2>1. InItem /\ n' \in Naming /\ UNCHANGED <<header, sections>>
    BY <1>6, LabelFacts, TurnFacts DEF label, packet
  <2>2. section' = section /\ Counted' = Counted
    BY <2>1, SectionSame
  <2> QED BY <1>6, <2>1, <2>2 DEF label, Typed, InItem, Stages, Size
<1>7. CASE endName
  BY <1>7, EndTyped
<1>8. CASE readQuestion \/ readUnknown
  BY <1>8, ItemTyped
<1>9. CASE readKnown
  BY <1>9, KnownTyped
<1>10. CASE write
  BY <1>10, WriteTyped
<1>11. CASE UNCHANGED vars
  <2>1. UNCHANGED <<header, sections>>
    BY <1>11 DEF vars, packet
  <2>2. section' = section /\ Counted' = Counted
    BY <2>1, SectionSame
  <2> QED BY <1>11, <2>1, <2>2 DEF vars, Typed, InItem, Stages, Size
<1> QED BY <1>1, <1>2, <1>3, <1>4, <1>5, <1>6, <1>7, <1>8, <1>9, <1>10, <1>11
    DEF Next, Step, Over

LEMMA AlwaysTyped == Spec => []Typed
BY TypedInit, TypedStep, PTL DEF Spec

-----------------------------------------------------------------------------
(***************************************************************************)
(* The limits.  A name has at most as many bytes as the passes over the    *)
(* buffer that its pointers began, and as this pass has come.              *)
(***************************************************************************)
Within ==
  n # None \/ InItem =>
    /\ n.jumps <= maxJumps + 1
    /\ Length(n.out) <= n.jumps * Size + n.pos
    /\ Length(n.out) <= (n.jumps + 1) * Size

LEMMA Passes ==
  ASSUME NEW j \in Nat, NEW k \in Nat
  PROVE  /\ j * k \in Nat /\ (j + 1) * k = j * k + k
         /\ \A m \in Nat : j <= m => j * k <= m * k
<1>1. j * k \in Nat /\ (j + 1) * k = j * k + k
  OBVIOUS
<1>2. ASSUME NEW m \in Nat, j <= m PROVE j * k <= m * k
  <2>1. m - j \in Nat /\ (m - j) * k \in Nat
    BY <1>2
  <2>2. (m - j) * k = m * k - j * k
    BY <1>2
  <2> QED BY <1>1, <2>1, <2>2
<1> QED BY <1>1, <1>2

LEMMA WithinInit == Init => Within
BY DEF Init, Start, Within, InItem

LEMMA WithinStart ==
  ASSUME NEW p \in Nat, Size' \in Nat, n' = Name(p)
  PROVE  Within'
<1>1. /\ n'.jumps = 0 /\ n'.pos = p /\ Length(n'.out) = 0
  BY StartName DEF Length
<1>2. n'.jumps * Size' = 0 /\ (n'.jumps + 1) * Size' = Size'
  <2>1. \A k \in Nat : 0 * k = 0 /\ (0 + 1) * k = k
    OBVIOUS
  <2> QED BY <1>1, <2>1, Zenon
<1>3. /\ n'.jumps <= maxJumps + 1
      /\ Length(n'.out) <= n'.jumps * Size' + n'.pos
      /\ Length(n'.out) <= (n'.jumps + 1) * Size'
  <2> DEFINE c == n'.jumps * Size'
             d == (n'.jumps + 1) * Size'
             k == Size'
             l == Length(n'.out)
             j == n'.jumps
  <2>1. c = 0 /\ d = k /\ k \in Nat /\ l = 0 /\ n'.pos = p /\ j = 0
    BY <1>1, <1>2
  <2>2. maxJumps \in Nat
    BY WireAssumption
  <2> HIDE DEF c, d, k, l, j
  <2>3. j <= maxJumps + 1 /\ l <= c + n'.pos /\ l <= d
    BY <2>1, <2>2
  <2> QED BY <2>3, Zenon DEF c, d, l, j
<1> QED BY <1>3 DEF Within

LEMMA WithinJump ==
  ASSUME Typed, Within, jump
  PROVE  Within'
<1>1. /\ n \in Naming /\ n.pos < Size /\ n.jumps <= maxJumps /\ InItem
  BY TurnFacts DEF jump
<1>2. n.jumps \in Nat /\ n.pos \in Nat /\ Size \in Nat /\ Length(n.out) \in Nat
  BY <1>1, TurnFacts DEF jump, Naming, Bytes, Length
<1>3. n'.jumps = n.jumps + 1 /\ n'.pos \in Nat /\ n'.out = n.out /\ Size' = Size
  BY JumpFacts DEF jump, Size
<1> DEFINE j == n.jumps
           k == Size
           l == Length(n.out)
<1>4. l <= j * k + n.pos
  BY <1>1 DEF Within
<1>5. j * k \in Nat /\ (j + 1) * k = j * k + k /\ (j + 1) * k \in Nat
      /\ (j + 2) * k = (j + 1) * k + k
  <2>1. j + 1 \in Nat /\ j + 1 + 1 = j + 2
    BY <1>2
  <2> HIDE DEF j, k
  <2> QED BY <1>2, <2>1, Passes DEF j, k
<1>6. l <= (j + 1) * k
  <2> HIDE DEF j, l
  <2> QED BY <1>1, <1>2, <1>4, <1>5 DEF j, l
<1>7. l <= (j + 1) * k + n'.pos /\ l <= (j + 2) * k
  BY <1>2, <1>3, <1>5, <1>6
<1>8. j + 1 <= maxJumps + 1
  BY <1>1, <1>2, WireAssumption
<1>9. n'.jumps * Size' = (j + 1) * k /\ (n'.jumps + 1) * Size' = (j + 2) * k
  <2>1. n'.jumps + 1 = j + 2
    BY <1>2, <1>3
  <2> QED BY <1>3, <2>1, Zenon
<1>10. /\ n'.jumps <= maxJumps + 1
       /\ Length(n'.out) <= n'.jumps * Size' + n'.pos
       /\ Length(n'.out) <= (n'.jumps + 1) * Size'
  <2> DEFINE a == (j + 1) * k
             b == (j + 2) * k
             c == n'.jumps * Size'
             d == (n'.jumps + 1) * Size'
  <2>1. l <= a + n'.pos /\ l <= b /\ c = a /\ d = b /\ n'.jumps <= maxJumps + 1
        /\ Length(n'.out) = l
    BY <1>3, <1>7, <1>8, <1>9
  <2> HIDE DEF a, b, c, d
  <2> QED BY <2>1 DEF c, d
<1> QED BY <1>10 DEF Within

LEMMA WithinLabel ==
  ASSUME Typed, Within, label
  PROVE  Within'
<1> DEFINE len == Get(n.pos)
           j == n.jumps
           p == j * Size
           q == (j + 1) * Size
           l == Length(n.out)
           l1 == Length(n'.out)
<1>1. /\ n \in Naming /\ n.pos < Size /\ j <= maxJumps /\ InItem
  BY TurnFacts DEF label
<1>2. j \in Nat /\ n.pos \in Nat /\ Size \in Nat /\ l \in Nat
  BY <1>1, TurnFacts DEF label, Naming, Bytes, Length
<1>3. /\ len \in Nat /\ n.pos + 1 + len <= Size
      /\ n'.pos = n.pos + 1 + len /\ n'.jumps = j
      /\ l1 = l + (IF n.out = <<>> THEN 0 ELSE 1) + len
  BY LabelFacts
<1>4. Size' = Size
  BY DEF label, Size
<1>5. l <= p + n.pos /\ j <= maxJumps + 1
  BY <1>1 DEF Within
<1>6. p \in Nat /\ q = p + Size
  BY <1>2, Passes
<1>7. n'.jumps * Size' = p /\ (n'.jumps + 1) * Size' = q
  BY <1>3, <1>4, Zenon
<1>8. l1 <= p + n'.pos /\ l1 <= q
  <2> HIDE DEF len, p, q, l, l1
  <2>1. l1 <= l + 1 + len
    BY <1>2, <1>3
  <2>2. l1 \in Nat
    BY <1>2, <1>3
  <2> QED BY <1>2, <1>3, <1>5, <1>6, <2>1, <2>2
<1>9. /\ n'.jumps <= maxJumps + 1
      /\ l1 <= n'.jumps * Size' + n'.pos
      /\ l1 <= (n'.jumps + 1) * Size'
  <2> DEFINE c == n'.jumps * Size'
             d == (n'.jumps + 1) * Size'
  <2>1. c = p /\ d = q
    BY <1>7
  <2> HIDE DEF c, d, p, q
  <2> QED BY <1>3, <1>5, <1>8, <2>1 DEF c, d
<1> QED BY <1>9 DEF Within

LEMMA WithinSame ==
  ASSUME Typed, Within, UNCHANGED n, Size' = Size, InItem' => InItem
  PROVE  Within'
<1>1. n' = n /\ Size' = Size
  OBVIOUS
<1> QED BY <1>1, Zenon DEF Within

LEMMA WithinStep == Typed /\ Within /\ [Next]_vars => Within'
<1> SUFFICES ASSUME Typed, Within, [Next]_vars PROVE Within'
  OBVIOUS
<1>1. Size \in Nat /\ currPos \in Nat
  BY DEF Typed, Bytes, Size
<1>2. CASE readHeader \/ allRead \/ readQuestion \/ readUnknown \/ endName
  <2>1. UNCHANGED <<n, buf>> /\ (InItem' => InItem)
    BY <1>2 DEF readHeader, allRead, readQuestion, readUnknown, endName, Push, InItem,
       InRecord, Turn, Reading
  <2> QED BY <2>1, WithinSame DEF Size
<1>3. CASE nextItem
  <2>1. n' = Name(currPos) /\ Size' = Size
    BY <1>3 DEF nextItem, Size
  <2> QED BY <1>1, <2>1, WithinStart
<1>4. CASE jumpLimit \/ endOfBuffer \/ fieldsCut
  <2>1. UNCHANGED <<n, buf>> /\ ~InItem'
    BY <1>4 DEF jumpLimit, endOfBuffer, fieldsCut, Throw, InItem
  <2> QED BY <2>1, WithinSame DEF Size
<1>5. CASE jump
  BY <1>5, WithinJump
<1>6. CASE label
  BY <1>6, WithinLabel
<1>7. CASE readKnown
  <2>1. currPos' = currPos + 10 + Width /\ Width \in Nat /\ UNCHANGED buf /\ InItem
    BY <1>7, KnownFacts, FixedFacts DEF readKnown
  <2>2. CASE n' = n
    BY <2>1, <2>2, WithinSame DEF Size
  <2>3. CASE n' # n
    <3>1. n' = Name(currPos')
      BY <1>7, <2>3 DEF readKnown
    <3>2. currPos' \in Nat /\ Size' \in Nat
      BY <1>1, <2>1 DEF Size
    <3> QED BY <3>1, <3>2, WithinStart
  <2> QED BY <2>2, <2>3
<1>8. CASE write
  <2>1. UNCHANGED n /\ Size' = Size /\ ~InItem'
    BY <1>8, WriteFacts DEF write, InItem
  <2> QED BY <2>1, WithinSame
<1>9. CASE UNCHANGED vars
  <2>1. UNCHANGED <<n, buf, stage>>
    BY <1>9 DEF vars
  <2> QED BY <2>1, WithinSame DEF Size, InItem
<1> QED BY <1>2, <1>3, <1>4, <1>5, <1>6, <1>7, <1>8, <1>9 DEF Next, Step, Over

\* A name is read in at most maxJumps + 1 jumps, holds no more bytes than as many
\* passes over the buffer, and no section outgrows its count, whatever the bytes.
THEOREM ReadingBounded == Spec => []Bounded
<1>1. ASSUME Typed, Within PROVE Bounded
  <2>1. stage \in {"header", "item", "name", "host", "fields", "done"} \cup Ended
    BY <1>1 DEF Typed, Stages
  <2>2. ASSUME n # None PROVE n.jumps <= maxJumps + 1 /\ Len(n.out) <= (maxJumps + 2) * Size
    <3>1. n.jumps \in Nat /\ Size \in Nat /\ maxJumps \in Nat /\ Length(n.out) \in Nat
      BY <1>1, <2>2, WireAssumption DEF Typed, Naming, Bytes, Size, Length
    <3>2. n.jumps <= maxJumps + 1 /\ Length(n.out) <= (n.jumps + 1) * Size
      BY <1>1, <2>2 DEF Within
    <3> DEFINE j == n.jumps + 1
               m == maxJumps + 2
    <3>3. j \in Nat /\ m \in Nat /\ j <= m
      BY <3>1, <3>2
    <3> HIDE DEF j, m
    <3>4. j * Size <= m * Size /\ j * Size \in Nat /\ m * Size \in Nat
      BY <3>1, <3>3, Passes
    <3>5. Length(n.out) <= j * Size
      BY <3>2 DEF j
    <3>6. Length(n.out) <= m * Size
      <4> DEFINE a == j * Size
                 b == m * Size
      <4> HIDE DEF a, b
      <4>1. Length(n.out) <= a /\ a <= b /\ a \in Nat /\ b \in Nat
        BY <3>4, <3>5 DEF a, b
      <4> QED BY <3>1, <4>1 DEF b
    <3> QED BY <3>2, <3>6 DEF m, Length
  <2>3. ASSUME header # None, NEW s \in 1 .. 4 PROVE Len(sections[s]) <= header.counts[s]
    BY <1>1, <2>3 DEF Typed, Counted
  <2> QED BY <2>1, <2>2, <2>3 DEF Bounded
<1>2. Init => Within
  BY WithinInit
<1> QED BY <1>1, <1>2, AlwaysTyped, WithinStep, PTL DEF Spec

-----------------------------------------------------------------------------
(***************************************************************************)
(* Where a name ends in place.                                             *)
(***************************************************************************)
\* The recursion of Behind.
EndAfter(f, p) ==
  CASE p = Size -> None
    [] p < Size /\ IsPointer(Get(p)) -> p + 2
    [] p < Size /\ Get(p) = 0 -> p + 1
    [] OTHER -> IF p + 1 + Get(p) > Size THEN None ELSE f[p + 1 + Get(p)]

LEMMA EndAfterFacts ==
  ASSUME buf \in Bytes, NEW p \in 0 .. Size
  PROVE  /\ \A f \in [0 .. Size -> Nat \cup {None}] : EndAfter(f, p) \in Nat \cup {None}
         /\ \A f, g : (\A q \in p + 1 .. Size : f[q] = g[q]) => EndAfter(f, p) = EndAfter(g, p)
<1>1. Size \in Nat /\ p \in Nat
  BY DEF Bytes, Size
<1>2. p # Size => p < Size /\ Get(p) \in Nat
  BY <1>1, ByteFacts
<1> HIDE DEF Size, Get
<1>3. CASE p = Size
  BY <1>3 DEF EndAfter
<1>4. CASE p # Size /\ IsPointer(Get(p))
  BY <1>1, <1>2, <1>4 DEF EndAfter
<1>5. CASE p # Size /\ ~IsPointer(Get(p)) /\ Get(p) = 0
  BY <1>1, <1>2, <1>5 DEF EndAfter
<1>6. CASE p # Size /\ ~IsPointer(Get(p)) /\ Get(p) # 0
  <2> DEFINE q == p + 1 + Get(p)
  <2>1. q \in Nat /\ q > p
    BY <1>1, <1>2, <1>6
  <2>2. \A f : EndAfter(f, p) = IF q > Size THEN None ELSE f[q]
    BY <1>2, <1>6 DEF EndAfter
  <2> HIDE DEF q
  <2> QED BY <1>1, <2>1, <2>2
<1> QED BY <1>3, <1>4, <1>5, <1>6

LEMMA BehindExists ==
  ASSUME buf \in Bytes
  PROVE  \E f : f = [p \in 0 .. Size |-> EndAfter(f, p)]
<1> DEFINE N == Size
           V == [0 .. N -> Nat \cup {None}]
           at(i) == N + 1 - i
           op == [i \in 1 .. N + 1 |-> [v \in V |-> [v EXCEPT ![at(i)] = EndAfter(v, at(i))]]]
           b == [p \in 0 .. N |-> None]
<1>1. N \in Nat
  BY DEF Bytes, Size
<1>2. /\ \A p \in 0 .. N : \A f \in V : EndAfter(f, p) \in Nat \cup {None}
      /\ \A p \in 0 .. N : \A f, g \in V :
           (\A q \in p + 1 .. N : f[q] = g[q]) => EndAfter(f, p) = EndAfter(g, p)
  BY EndAfterFacts
<1>3. \A i \in 1 .. N + 1 : at(i) \in 0 .. N
  BY <1>1
<1>4. op \in [1 .. N + 1 -> [V -> V]] /\ b \in V /\ N + 1 \in Nat
  <2> HIDE DEF N, at
  <2> QED BY <1>1, <1>2, <1>3
<1> HIDE DEF N
<1>5. \A i \in 1 .. N + 1 : \A v \in V :
        op[i][v] = [v EXCEPT ![at(i)] = EndAfter(v, at(i))]
  BY <1>4
<1> HIDE DEF V, op, b
<1>6. PICK f \in [0 .. N + 1 -> V] : Iterates(f, N + 1, b, op)
  <2> DEFINE M == N + 1
  <2> HIDE DEF M
  <2>1. M \in Nat /\ b \in V /\ op \in [1 .. M -> [V -> V]]
    BY <1>4 DEF M
  <2>2. \E f \in [0 .. M -> V] : Iterates(f, M, b, op)
    BY <2>1, Recursion, Zenon
  <2> QED BY <2>2 DEF M
<1> DEFINE Good(i) == \A p \in 0 .. N : p > N - i => f[i][p] = EndAfter(f[i], p)
           G == {i \in 0 .. N + 1 : Good(i)}
<1>7. ASSUME NEW i \in 1 .. N + 1, i - 1 \in G PROVE Good(i)
  <2>1. i \in 0 .. N + 1 /\ i - 1 \in 0 .. N + 1
    BY <1>1
  <2> DEFINE v == f[i - 1]
             w == f[i]
  <2>2. v \in V /\ w \in V /\ w = [v EXCEPT ![at(i)] = EndAfter(v, at(i))]
    BY <1>5, <1>6, <2>1 DEF Iterates
  <2>3. Good(i - 1)
    BY <1>7
  <2>4. \A p \in 0 .. N : p > N - (i - 1) => v[p] = EndAfter(v, p)
    BY <2>3
  <2> HIDE DEF v, w, Good
  <2>5. \A q \in 0 .. N : q # at(i) => w[q] = v[q]
    BY <2>2 DEF V
  <2>6. w[at(i)] = EndAfter(v, at(i))
    BY <1>3, <2>2 DEF V
  <2>7. ASSUME NEW p \in 0 .. N, p > N - i PROVE w[p] = EndAfter(w, p)
    <3>1. \A q \in p + 1 .. N : q \in 0 .. N /\ q # at(i)
      BY <1>1, <2>7
    <3>2. \A q \in p + 1 .. N : v[q] = w[q]
      BY <2>5, <3>1
    <3>3. EndAfter(v, p) = EndAfter(w, p)
      <4> HIDE DEF at
      <4> QED BY <1>2, <2>2, <3>2
    <3>4. CASE p = at(i)
      BY <2>6, <3>3, <3>4
    <3>5. CASE p # at(i)
      <4>1. p > N - (i - 1)
        BY <1>1, <2>7, <3>5
      <4> QED BY <2>4, <2>5, <3>3, <3>5, <4>1
    <3> QED BY <3>4, <3>5
  <2> QED BY <2>7 DEF Good, w
<1>8. 0 .. N + 1 \subseteq G
  <2>1. Good(0)
    BY <1>1
  <2> HIDE DEF Good
  <2>2. 0 \in G /\ \A i \in 1 .. N + 1 : i - 1 \in G => i \in G
    BY <1>1, <1>7, <2>1
  <2> HIDE DEF G
  <2>3. N + 1 \in Nat
    BY <1>1
  <2> QED BY <2>2, <2>3, Induction
<1> DEFINE h == f[N + 1]
<1>9. h \in V /\ \A p \in 0 .. N : h[p] = EndAfter(h, p)
  <2>1. N + 1 \in 0 .. N + 1
    BY <1>1
  <2>2. Good(N + 1)
    BY <1>8, <2>1
  <2>3. \A p \in 0 .. N : p > N - (N + 1)
    BY <1>1
  <2> QED BY <1>6, <2>1, <2>2, <2>3
<1> HIDE DEF h
<1>10. h = [p \in 0 .. N |-> EndAfter(h, p)]
  BY <1>9 DEF V
<1> QED BY <1>10 DEF N

LEMMA BehindIs ==
  ASSUME buf \in Bytes, NEW p \in 0 .. Size
  PROVE  Behind[p] = EndAfter(Behind, p)
<1> DEFINE Def(f) == f = [q \in 0 .. Size |-> EndAfter(f, q)]
<1>1. Behind = CHOOSE f : Def(f)
  BY DEF Behind, EndAfter
<1>2. \E f : Def(f)
  BY BehindExists
<1> HIDE DEF Def
<1>3. Def(Behind)
  BY <1>1, <1>2
<1>4. Behind = [q \in 0 .. Size |-> EndAfter(Behind, q)]
  BY <1>3 DEF Def
<1> QED BY <1>4

LEMMA BehindFacts ==
  ASSUME buf \in Bytes, NEW p \in Nat, p < Size
  PROVE  /\ IsPointer(Get(p)) => Behind[p] = p + 2
         /\ Get(p) = 0 => Behind[p] = p + 1
         /\ ~IsPointer(Get(p)) /\ Get(p) # 0 /\ p + 1 + Get(p) <= Size =>
              Behind[p] = Behind[p + 1 + Get(p)]
<1>1. Size \in Nat /\ p \in 0 .. Size /\ p # Size
  BY DEF Bytes, Size
<1>2. Get(p) \in Nat
  BY ByteFacts
<1>3. Behind[p] = EndAfter(Behind, p)
  BY <1>1, BehindIs
<1> HIDE DEF Size, Get, Behind
<1>4. CASE IsPointer(Get(p))
  BY <1>1, <1>2, <1>3, <1>4 DEF EndAfter, IsPointer
<1>5. CASE Get(p) = 0
  BY <1>1, <1>2, <1>3, <1>5 DEF EndAfter, IsPointer
<1>6. CASE ~IsPointer(Get(p)) /\ Get(p) # 0
  BY <1>1, <1>2, <1>3, <1>6 DEF EndAfter
<1> QED BY <1>4, <1>5, <1>6

\* Before its first jump a name ends in place where what is left of it does.
Placed ==
  /\ Reading => IF n.jumped THEN currPos = Behind[n.start]
                ELSE Behind[n.start] = Behind[n.pos]
  /\ CursorBehindName

LEMMA PlacedStep == Typed /\ Placed /\ [Next]_vars => Placed'
<1> SUFFICES ASSUME Typed, Placed, [Next]_vars PROVE Placed'
  OBVIOUS
<1>1. buf' = buf => Behind' = Behind
  BY DEF Behind, Size, Get
<1>2. CASE readHeader \/ allRead \/ readQuestion \/ readUnknown \/ jumpLimit \/ endOfBuffer
           \/ fieldsCut
  BY <1>2 DEF readHeader, allRead, readQuestion, readUnknown, jumpLimit, endOfBuffer,
     fieldsCut, Throw, Push, Placed, CursorBehindName, Reading
<1>3. CASE nextItem
  <2>1. stage' = "name" /\ n' = Name(currPos)
    BY <1>3 DEF nextItem
  <2>2. n'.start = n'.pos /\ n'.jumped = FALSE
    BY <2>1, StartName DEF Typed
  <2> QED BY <2>1, <2>2 DEF Placed, CursorBehindName, Reading
<1>4. CASE jump
  <2>1. Turn /\ IsPointer(Get(n.pos)) /\ UNCHANGED <<buf, stage>>
        /\ currPos' = IF n.jumped THEN currPos ELSE n.pos + 2
    BY <1>4 DEF jump
  <2>2. n.pos \in Nat /\ n.pos < Size
    BY <2>1, TurnFacts
  <2>3. Behind[n.pos] = n.pos + 2
    BY <2>1, <2>2, BehindFacts DEF Typed
  <2>4. n'.start = n.start /\ n'.jumped = TRUE
    BY <1>4, JumpFacts
  <2>5. Reading /\ Behind' = Behind
    BY <1>1, <2>1 DEF Turn
  <2>6. currPos' = Behind'[n'.start]
    BY <2>1, <2>3, <2>4, <2>5 DEF Placed
  <2> QED BY <2>1, <2>4, <2>5, <2>6 DEF Placed, CursorBehindName, Reading
<1>5. CASE label
  <2> DEFINE len == Get(n.pos)
  <2>1. Turn /\ ~IsPointer(len) /\ len # 0 /\ UNCHANGED <<buf, stage, currPos>>
    BY <1>5 DEF label
  <2>2. n.pos \in Nat /\ n.pos < Size
    BY <2>1, TurnFacts
  <2>3. n.pos + 1 + len <= Size /\ n'.pos = n.pos + 1 + len
        /\ n'.start = n.start /\ n'.jumped = n.jumped
    BY <1>5, LabelFacts
  <2>4. Behind[n.pos] = Behind[n.pos + 1 + len]
    BY <2>1, <2>2, <2>3, BehindFacts DEF Typed
  <2>5. Reading /\ Behind' = Behind
    BY <1>1, <2>1 DEF Turn
  <2> QED BY <2>1, <2>3, <2>4, <2>5 DEF Placed, CursorBehindName, Reading
<1>6. CASE endName
  <2>1. Turn /\ Get(n.pos) = 0 /\ UNCHANGED <<buf, n>>
        /\ currPos' = IF n.jumped THEN currPos ELSE n.pos + 1
    BY <1>6 DEF endName
  <2>2. n.pos \in Nat /\ n.pos < Size
    BY <2>1, TurnFacts
  <2>3. Behind[n.pos] = n.pos + 1
    BY <2>1, <2>2, BehindFacts DEF Typed
  <2>4. Reading /\ Behind' = Behind
    BY <1>1, <2>1 DEF Turn
  <2>5. currPos' = Behind'[n'.start]
    BY <2>1, <2>3, <2>4 DEF Placed
  <2>6. stage' \in {"item", "fields"}
    BY <1>6 DEF endName, Push
  <2> QED BY <2>5, <2>6 DEF Placed, CursorBehindName, Reading
<1>7. CASE readKnown
  <2>1. currPos' \in Nat /\ (stage' = "item" \/ (stage' = "host" /\ n' = Name(currPos')))
    <3>1. currPos' \in Nat
      BY <1>7, KnownTyped DEF Typed
    <3> QED BY <1>7, <3>1 DEF readKnown, Push
  <2>2. stage' = "host" => n'.start = n'.pos /\ n'.jumped = FALSE
    BY <2>1 DEF Name
  <2> QED BY <2>1, <2>2 DEF Placed, CursorBehindName, Reading
<1>8. CASE write
  <2>1. stage' \in {"unsent", "header"}
    BY <1>8, WriteFacts
  <2> QED BY <2>1 DEF Placed, CursorBehindName, Reading
<1>9. CASE UNCHANGED vars
  <2>1. UNCHANGED <<buf, currPos, stage, n>> /\ Behind' = Behind
    BY <1>1, <1>9 DEF vars
  <2> QED BY <2>1 DEF Placed, CursorBehindName, Reading
<1> QED BY <1>2, <1>3, <1>4, <1>5, <1>6, <1>7, <1>8, <1>9 DEF Next, Step, Over

\* After a name the cursor stands where the name ends in place: behind its first
\* pointer or its closing zero, however often and wherever its pointers jump.
THEOREM CursorAfterName == Spec => []CursorBehindName
<1>1. Init => Placed
  BY DEF Init, Start, Placed, CursorBehindName, Reading
<1>2. Placed => CursorBehindName
  BY DEF Placed
<1> QED BY <1>1, <1>2, AlwaysTyped, PlacedStep, PTL DEF Spec

-----------------------------------------------------------------------------
(***************************************************************************)
(* A packet read without a pointer takes no more room when it is written.  *)
(***************************************************************************)
\* What the items read so far take when they are written, the header included,
\* and what the record under way takes in front of its host.
Taken == 12 + Used(sections)
Ahead == IF stage = "host" THEN NameSize(item.name) + 10 + Length(item.fixed) ELSE 0

\* The part of a name that is read stands where the name starts.
InPlace ==
  ~n.jumped /\ n.pos = n.start + (IF n.out = <<>> THEN 0 ELSE Length(n.out) + 1)

\* While no pointer was followed the cursor is at least as far as a writer of
\* what was read would be.
Fits ==
  /\ first = <<>> /\ ~jumpedOnce =>
       /\ stage = "item" => Taken <= currPos
       /\ stage \in {"item", "done"} => Taken <= Size
       /\ Reading => Taken + Ahead <= n.start /\ InPlace
       /\ stage = "fields" => Taken + NameSize(n.out) <= currPos
  /\ stage = "host" => HasHost(item.type)
  /\ LostOnlyIfCompressed

LEMMA SizeNat ==
  ASSUME NEW s \in Bytes
  PROVE  /\ Length(s) \in Nat /\ NameSize(s) \in Nat
         /\ NameSize(s) = (IF s = <<>> THEN 0 ELSE Length(s) + 1) + 1
BY DEF Bytes, Length, NameSize

LEMMA TakenNat ==
  ASSUME Typed
  PROVE  Taken \in Nat /\ Size \in Nat /\ currPos \in Nat
BY UsedNat DEF Typed, Taken, Bytes, Size

\* An item that was read is put to its section.
LEMMA PushTaken ==
  ASSUME Typed, InItem, NEW x \in Kind(section), Push(x), UNCHANGED header
  PROVE  /\ Taken' = Taken + Length(Image(section, x))
         /\ stage' = "item"
<1>1. /\ sections' \in Sections
      /\ Used(sections') = Used(sections) + Length(Image(section, x))
  BY PushFacts
<1>2. Used(sections) \in Nat /\ Used(sections') \in Nat
  BY <1>1, UsedNat DEF Typed
<1>3. Length(Image(section, x)) \in Nat
  <2>1. Image(section, x) \in Bytes
    BY QuestionFacts, RecordFacts DEF Kind, Image
  <2> QED BY <2>1, SizeNat
<1>4. stage' = "item"
  BY DEF Push
<1> QED BY <1>1, <1>2, <1>3, <1>4 DEF Taken

\* What an item takes at most, once it is read.
LEMMA ImageFacts ==
  /\ \A q \in Question : /\ Image(1, q) \in Bytes
                         /\ Length(Image(1, q)) <= NameSize(q.name) + 4
  /\ \A s, r : s # 1 /\ r \in Carried =>
       /\ Image(s, r) \in Bytes
       /\ Known(r.type) => Length(Image(s, r)) <= Room(r)
       /\ ~Known(r.type) => Length(Image(s, r)) = 0
BY QuestionFacts, RecordFacts DEF Image

LEMMA FitsLabel ==
  ASSUME Typed, Fits, label
  PROVE  Fits'
<1> DEFINE len == Get(n.pos)
<1>1. /\ len \in Nat /\ len >= 1
      /\ n' \in Naming /\ n'.start = n.start /\ n'.pos = n.pos + 1 + len
      /\ n'.jumped = n.jumped
      /\ Length(n'.out) = Length(n.out) + (IF n.out = <<>> THEN 0 ELSE 1) + len
  BY LabelFacts
<1>2. /\ Turn /\ n \in Naming /\ n.pos \in Nat /\ Reading
  BY TurnFacts DEF label, Turn
<1>3. /\ n.start \in Nat /\ Length(n.out) \in Nat /\ (n.out = <<>> => Length(n.out) = 0)
      /\ (n'.out = <<>> => Length(n'.out) = 0)
  BY <1>2, SizeNat DEF Naming, Length
<1> HIDE DEF len
<1>4. ASSUME InPlace PROVE InPlace'
  BY <1>1, <1>2, <1>3, <1>4 DEF InPlace
<1>5. UNCHANGED <<stage, item, sections, first, jumpedOnce>>
  BY DEF label, packet, history
<1>6. Taken' = Taken /\ Ahead' = Ahead /\ Reading' = Reading
  BY <1>5 DEF Taken, Ahead, Reading
<1>7. stage' \in {"name", "host"}
  BY <1>2, <1>5 DEF Reading
<1> HIDE DEF Taken, Ahead
<1> QED BY <1>1, <1>2, <1>4, <1>5, <1>6, <1>7 DEF Fits, LostOnlyIfCompressed

LEMMA FitsStart ==
  ASSUME Typed, NEW p \in Nat, n' = Name(p)
  PROVE  InPlace' /\ n'.start = p
<1>1. n'.start = p /\ n'.pos = p /\ ~n'.jumped /\ n'.out = <<>>
  BY StartName
<1>2. p + 0 = p
  OBVIOUS
<1> QED BY <1>1, <1>2, Zenon DEF InPlace

\* Where a name that was read in place ends.
LEMMA EndPlace ==
  ASSUME Typed, Fits, endName, first = <<>>, ~jumpedOnce
  PROVE  /\ currPos' = n.start + NameSize(n.out) /\ currPos' <= Size
         /\ n.start \in Nat /\ n.out \in Bytes /\ Taken + Ahead <= n.start
<1>1. /\ Turn /\ n \in Naming /\ n.pos \in Nat /\ n.pos < Size /\ Size \in Nat
  BY TurnFacts DEF endName
<1>2. Taken + Ahead <= n.start /\ InPlace
  BY <1>1 DEF Fits, Turn
<1>3. currPos' = n.pos + 1
  BY <1>2 DEF endName, InPlace
<1>4. n.start \in Nat /\ n.out \in Bytes
  BY <1>1 DEF Naming
<1>5. currPos' = n.start + NameSize(n.out)
  <2>1. /\ Length(n.out) \in Nat
        /\ NameSize(n.out) = (IF n.out = <<>> THEN 0 ELSE Length(n.out) + 1) + 1
    BY <1>4, SizeNat
  <2> QED BY <1>1, <1>2, <1>3, <1>4, <2>1 DEF InPlace
<1> QED BY <1>1, <1>2, <1>3, <1>4, <1>5

LEMMA FitsEnd ==
  ASSUME Typed, Fits, endName
  PROVE  Fits'
<1>1. Turn /\ InItem /\ (stage = "name" \/ stage = "host") /\ UNCHANGED <<buf, n, header, history>>
  BY TurnFacts DEF endName, Turn, Reading
<1>2. CASE stage = "name"
  <2>1. stage' = "fields" /\ UNCHANGED <<item, sections>>
    BY <1>2 DEF endName
  <2>2. ASSUME first = <<>>, ~jumpedOnce
        PROVE  Taken' + NameSize(n'.out) <= currPos'
    <3>1. /\ currPos' = n.start + NameSize(n.out) /\ n.start \in Nat /\ n.out \in Bytes
          /\ Taken + Ahead <= n.start
      BY <2>2, EndPlace
    <3>2. Taken' = Taken /\ Ahead = 0 /\ n' = n
      BY <1>1, <1>2, <2>1 DEF Taken, Ahead
    <3>3. NameSize(n.out) \in Nat /\ Taken \in Nat
      BY <3>1, SizeNat, TakenNat
    <3> HIDE DEF Taken, Ahead
    <3> QED BY <3>1, <3>2, <3>3
  <2> QED BY <1>1, <2>1, <2>2 DEF Fits, LostOnlyIfCompressed, Reading, history
<1>3. CASE stage = "host"
  <2> DEFINE x == [item EXCEPT !.host = n.out]
  <2>1. /\ item \in Carried /\ section # 1 /\ Push(x) /\ Known(item.type)
        /\ HasHost(item.type)
    BY <1>3 DEF Typed, endName, Fits
  <2>2. n.out \in Bytes
    BY TurnFacts DEF endName, Naming
  <2>3. x \in Carried /\ x.name = item.name /\ x.type = item.type /\ x.fixed = item.fixed
        /\ x.host = n.out
    BY <2>1, <2>2 DEF Carried
  <2> HIDE DEF x
  <2>4. Taken' = Taken + Length(Image(section, x)) /\ stage' = "item"
    <3>1. x \in Kind(section)
      BY <2>1, <2>3 DEF Kind
    <3> QED BY <1>1, <2>1, <3>1, PushTaken
  <2>5. ASSUME first = <<>>, ~jumpedOnce
        PROVE  Taken' <= currPos' /\ Taken' <= Size'
    <3>1. /\ currPos' = n.start + NameSize(n.out) /\ n.start \in Nat /\ currPos' <= Size
          /\ Taken + Ahead <= n.start
      BY <2>5, EndPlace
    <3>2. Image(section, x) \in Bytes /\ Length(Image(section, x)) <= Room(x)
      BY <2>1, <2>3, ImageFacts
    <3>3. /\ NameSize(n.out) \in Nat /\ Taken \in Nat /\ Length(Image(section, x)) \in Nat
          /\ NameSize(item.name) \in Nat /\ Length(item.fixed) \in Nat /\ Size \in Nat
      BY <2>1, <2>2, <3>2, SizeNat, TakenNat DEF Carried
    <3>4. Ahead = NameSize(item.name) + 10 + Length(item.fixed)
      BY <1>3 DEF Ahead
    <3>5. Room(x) = Ahead + NameSize(n.out) /\ Ahead \in Nat
      BY <2>1, <2>3, <3>3, <3>4 DEF Room
    <3>6. Size' = Size
      BY <1>1 DEF Size
    <3> HIDE DEF Taken, Ahead, Size
    <3> QED BY <2>4, <3>1, <3>2, <3>3, <3>5, <3>6
  <2> QED BY <1>1, <2>4, <2>5 DEF Fits, LostOnlyIfCompressed, Reading, history
<1> QED BY <1>1, <1>2, <1>3

LEMMA FitsItem ==
  ASSUME Typed, Fits, readQuestion \/ readUnknown
  PROVE  Fits'
<1>1. /\ stage = "fields" /\ InItem /\ n \in Naming /\ n.out \in Bytes
      /\ UNCHANGED <<buf, n, header, history>>
  BY DEF Typed, readQuestion, readUnknown, InRecord, InItem, Naming
<1>2. NameSize(n.out) \in Nat /\ Taken \in Nat /\ Size \in Nat /\ currPos \in Nat
  BY <1>1, SizeNat, TakenNat
<1>3. ASSUME first = <<>>, ~jumpedOnce PROVE Taken + NameSize(n.out) <= currPos
  BY <1>1, <1>3 DEF Fits
<1>4. Size' = Size
  BY <1>1 DEF Size
<1>5. CASE readQuestion
  <2> DEFINE x == [name |-> n.out, type |-> U16(currPos)]
  <2>1. section = 1 /\ currPos + 4 <= Size /\ Push(x) /\ currPos' = currPos + 4
    BY <1>5 DEF readQuestion, Has
  <2>2. x \in Question /\ x.name = n.out
    BY <1>5, ItemTyped
  <2> HIDE DEF x
  <2>3. Taken' = Taken + Length(Image(1, x)) /\ stage' = "item"
    <3>1. x \in Kind(section)
      BY <2>1, <2>2 DEF Kind
    <3> QED BY <1>1, <2>1, <3>1, PushTaken
  <2>4. Length(Image(1, x)) \in Nat /\ Length(Image(1, x)) <= NameSize(n.out) + 4
    BY <2>2, ImageFacts, SizeNat
  <2>5. ASSUME first = <<>>, ~jumpedOnce PROVE Taken' <= currPos' /\ Taken' <= Size'
    <3> HIDE DEF Taken, Size
    <3> QED BY <1>2, <1>3, <1>4, <2>1, <2>3, <2>4, <2>5
  <2> QED BY <1>1, <2>3, <2>5 DEF Fits, LostOnlyIfCompressed, Reading, history
<1>6. CASE readUnknown
  <2>1. /\ InRecord /\ Push(Record) /\ ~Known(U16(currPos))
        /\ currPos' = currPos + 10 + U16(currPos + 8)
    BY <1>6 DEF readUnknown
  <2>2. /\ Record \in Carried /\ Record.type = U16(currPos) /\ U16(currPos + 8) \in Nat
        /\ section # 1 /\ currPos + 10 <= Size
    BY <2>1, FixedFacts
  <2>3. Taken' = Taken + Length(Image(section, Record)) /\ stage' = "item"
    <3>1. Record \in Kind(section)
      BY <2>2 DEF Kind
    <3> QED BY <1>1, <2>1, <3>1, PushTaken
  <2>4. Length(Image(section, Record)) = 0
    BY <2>1, <2>2, ImageFacts
  <2>5. ASSUME first = <<>>, ~jumpedOnce PROVE Taken' <= currPos' /\ Taken' <= Size'
    <3> HIDE DEF Taken, Size, Record
    <3> QED BY <1>2, <1>3, <1>4, <2>1, <2>2, <2>3, <2>4, <2>5
  <2> QED BY <1>1, <2>3, <2>5 DEF Fits, LostOnlyIfCompressed, Reading, history
<1> QED BY <1>5, <1>6

LEMMA FitsKnown ==
  ASSUME Typed, Fits, readKnown
  PROVE  Fits'
<1> DEFINE r == [Record EXCEPT !.fixed = SubSeq(buf, currPos + 11, currPos + 10 + Width)]
<1>1. /\ r \in Carried /\ r.name = n.out /\ Known(r.type) /\ Width \in Nat
      /\ Length(r.fixed) = Width /\ currPos + 10 + Width <= Size
  BY KnownFacts
<1>2. /\ InItem /\ stage = "fields" /\ section # 1 /\ n \in Naming /\ n.out \in Bytes
  BY FixedFacts DEF readKnown, InRecord, Naming
<1>3. NameSize(n.out) \in Nat /\ Taken \in Nat /\ Size \in Nat /\ currPos \in Nat
  BY <1>2, SizeNat, TakenNat
<1>4. ASSUME first = <<>>, ~jumpedOnce PROVE Taken + NameSize(n.out) <= currPos
  BY <1>2, <1>4 DEF Fits
<1>5. /\ currPos' = currPos + 10 + Width /\ UNCHANGED <<buf, header, history>>
      /\ IF HasHost(r.type)
         THEN item' = r /\ n' = Name(currPos') /\ stage' = "host" /\ UNCHANGED sections
         ELSE Push(r) /\ UNCHANGED n
  BY DEF readKnown
<1>6. Size' = Size
  BY <1>5 DEF Size
<1> HIDE DEF r, Width
<1>7. CASE HasHost(r.type)
  <2>1. item' = r /\ n' = Name(currPos') /\ stage' = "host" /\ Taken' = Taken
    BY <1>5, <1>7 DEF Taken
  <2>2. InPlace' /\ n'.start = currPos'
    <3>1. \A p \in Nat : n' = Name(p) => InPlace' /\ n'.start = p
      BY FitsStart
    <3>2. currPos' \in Nat
      BY <1>1, <1>3, <1>5
    <3> QED BY <2>1, <3>1, <3>2
  <2>3. Ahead' = NameSize(n.out) + 10 + Width
    BY <1>1, <2>1 DEF Ahead
  <2>4. ASSUME first = <<>>, ~jumpedOnce PROVE Taken' + Ahead' <= n'.start
    <3> HIDE DEF Taken, Ahead
    <3> QED BY <1>1, <1>3, <1>4, <1>5, <2>1, <2>2, <2>3, <2>4
  <2> QED BY <1>5, <1>7, <2>1, <2>2, <2>4 DEF Fits, LostOnlyIfCompressed, Reading, history
<1>8. CASE ~HasHost(r.type)
  <2>1. Push(r) /\ UNCHANGED header
    BY <1>5, <1>8
  <2>2. Taken' = Taken + Length(Image(section, r)) /\ stage' = "item"
    <3>1. r \in Kind(section)
      BY <1>1, <1>2 DEF Kind
    <3> QED BY <1>2, <2>1, <3>1, PushTaken
  <2>3. Length(Image(section, r)) \in Nat /\ Length(Image(section, r)) <= Room(r)
    BY <1>1, <1>2, ImageFacts, SizeNat
  <2>4. Room(r) = NameSize(n.out) + 10 + Width
    BY <1>1, <1>3, <1>8 DEF Room
  <2>5. ASSUME first = <<>>, ~jumpedOnce PROVE Taken' <= currPos' /\ Taken' <= Size'
    <3> HIDE DEF Taken, Size
    <3> QED BY <1>1, <1>3, <1>4, <1>5, <1>6, <2>2, <2>3, <2>4, <2>5
  <2> QED BY <1>5, <2>2, <2>5 DEF Fits, LostOnlyIfCompressed, Reading, history
<1> QED BY <1>7, <1>8

LEMMA FitsWrite ==
  ASSUME Typed, Fits, write
  PROVE  Fits'
<1>1. first' # <<>> /\ stage' \in {"unsent", "header"}
  BY WriteFacts
<1>2. ASSUME stage' = "unsent" PROVE (jumpedOnce \/ Unwritable(sections))'
  <2>1. UNCHANGED <<jumpedOnce, header, sections>> /\ stage = "done" /\ first = <<>>
    BY <1>2, WriteFacts DEF write, packet
  <2>2. Unwritable(sections)' = Unwritable(sections)
    BY <2>1 DEF Unwritable
  <2>3. Unwritable(sections) \/ Len(Written(header, sections)) > Size
    BY <1>2 DEF write
  <2>4. Len(Written(header, sections)) = Taken /\ Taken \in Nat /\ Size \in Nat
    BY <2>1, WrittenFacts, TakenNat DEF Typed, Counted, Length, Taken
  <2>5. ~jumpedOnce => Taken <= Size
    BY <2>1 DEF Fits
  <2> QED BY <2>1, <2>2, <2>3, <2>4, <2>5
<1> QED BY <1>1, <1>2 DEF Fits, LostOnlyIfCompressed

LEMMA FitsStep == Typed /\ Fits /\ [Next]_vars => Fits'
<1> SUFFICES ASSUME Typed, Fits, [Next]_vars PROVE Fits'
  OBVIOUS
<1>1. Taken \in Nat /\ Size \in Nat /\ currPos \in Nat
  BY TakenNat
<1>2. CASE readHeader
  <2>1. stage' = "item" /\ currPos' = 12 /\ sections = NoSections /\ UNCHANGED <<sections, buf>>
    BY <1>2 DEF readHeader, Typed
  <2>2. Taken' = 12 /\ Size' = Size /\ Size >= 12
    BY <2>1, NothingUsed DEF Taken, Size, Typed
  <2> QED BY <2>1, <2>2 DEF Fits, LostOnlyIfCompressed, Reading
<1>3. CASE nextItem
  <2>1. /\ stage = "item" /\ stage' = "name" /\ n' = Name(currPos)
        /\ UNCHANGED <<sections, first, jumpedOnce>>
    BY <1>3 DEF nextItem, packet, history
  <2>2. InPlace' /\ n'.start = currPos
    BY <1>1, <2>1, FitsStart
  <2>3. Taken' = Taken /\ Ahead' = 0
    BY <2>1 DEF Taken, Ahead
  <2>4. first = <<>> /\ ~jumpedOnce => Taken <= currPos
    BY <2>1 DEF Fits
  <2> HIDE DEF Taken, Ahead
  <2> QED BY <1>1, <2>1, <2>2, <2>3, <2>4 DEF Fits, LostOnlyIfCompressed, Reading
<1>4. CASE allRead
  <2>1. stage = "item" /\ stage' = "done" /\ UNCHANGED <<buf, sections, first, jumpedOnce>>
    BY <1>4 DEF allRead, packet, history
  <2>2. Taken' = Taken /\ Size' = Size
    BY <2>1 DEF Taken, Size
  <2> QED BY <2>1, <2>2 DEF Fits, LostOnlyIfCompressed, Reading
<1>5. CASE jumpLimit \/ endOfBuffer \/ fieldsCut
  BY <1>5 DEF jumpLimit, endOfBuffer, fieldsCut, Throw, Fits, LostOnlyIfCompressed, Reading
<1>6. CASE jump
  <2>1. Reading /\ UNCHANGED <<stage, item, first>> /\ jumpedOnce' = (jumpedOnce \/ first = <<>>)
    BY <1>6 DEF jump, Turn
  <2>2. ~(first' = <<>> /\ ~jumpedOnce')
    BY <2>1
  <2> QED BY <2>1, <2>2 DEF Fits, LostOnlyIfCompressed, Reading
<1>7. CASE label
  BY <1>7, FitsLabel
<1>8. CASE endName
  BY <1>8, FitsEnd
<1>9. CASE readQuestion \/ readUnknown
  BY <1>9, FitsItem
<1>10. CASE readKnown
  BY <1>10, FitsKnown
<1>11. CASE write
  BY <1>11, FitsWrite
<1>12. CASE UNCHANGED vars
  <2>1. UNCHANGED <<buf, currPos, stage, n, item, sections, first, jumpedOnce>>
    BY <1>12 DEF vars, packet, history
  <2>2. Taken' = Taken /\ Ahead' = Ahead /\ Size' = Size /\ InPlace' = InPlace
        /\ Reading' = Reading /\ Unwritable(sections)' = Unwritable(sections)
    BY <2>1 DEF Taken, Ahead, Size, InPlace, Reading, Unwritable
  <2> QED BY <2>1, <2>2 DEF Fits, LostOnlyIfCompressed
<1> QED BY <1>2, <1>3, <1>4, <1>5, <1>6, <1>7, <1>8, <1>9, <1>10, <1>11, <1>12
    DEF Next, Step, Over

\* A packet read without following a pointer, whose labels are short enough, is
\* never too large for the buffer it is written to.
THEOREM NoneLost == Spec => []LostOnlyIfCompressed
<1>1. Init => Fits
  BY DEF Init, Start, Fits, LostOnlyIfCompressed, Reading
<1>2. Fits => LostOnlyIfCompressed
  BY DEF Fits
<1> QED BY <1>1, <1>2, AlwaysTyped, FitsStep, PTL DEF Spec

(***************************************************************************)
(* The names of a message, by RFC 1035: the recursion of NamesUpto.        *)
(***************************************************************************)
Nil == <<>>
Point == <<Dot>>
Glue(out, rem) == IF rem = Nil THEN out ELSE IF out = Nil THEN rem ELSE Join(Join(out, Point), rem)

LEMMA Assoc ==
  ASSUME NEW a \in Bytes, NEW b \in Bytes, NEW c \in Bytes
  PROVE  Join(Join(a, b), c) = Join(a, Join(b, c))
BY DEF Bytes, Join

LEMMA JoinNil ==
  ASSUME NEW a \in Bytes
  PROVE  /\ Join(a, Nil) = a /\ Join(Nil, a) = a /\ Nil \in Bytes /\ Length(Nil) = 0
         /\ Length(a) = 0 => a = Nil
BY DEF Bytes, Join, Nil, Length

LEMMA GlueStep ==
  ASSUME NEW out \in Bytes, NEW lab \in Bytes, NEW r \in Bytes, lab # Nil
  PROVE  Glue(Join(Join(out, IF out = Nil THEN Nil ELSE Point), lab), r)
           = Glue(out, IF r = Nil THEN lab ELSE Join(Join(lab, Point), r))
<1>1. Point \in Bytes
  BY DEF Point, Bytes, Dot
<1>2. Join(lab, Point) \in Bytes /\ Join(out, Point) \in Bytes /\ Join(out, lab) \in Bytes
  BY <1>1, Joined
<1> DEFINE x == Join(out, Point)
           y == Join(lab, Point)
<1>3. Length(lab) # 0 /\ Length(lab) \in Nat
  BY JoinNil DEF Length, Bytes
<1>4. Length(Nil) = 0
  BY DEF Nil, Length
<1>5. Join(x, lab) # Nil /\ Join(y, r) # Nil
  <2>1. Length(Join(x, lab)) = Length(x) + Length(lab) /\ Length(x) \in Nat
    BY <1>2, Joined
  <2>2. Length(Join(y, r)) = Length(lab) + Length(Point) + Length(r)
    BY <1>1, <1>2, Joined
  <2>3. Length(r) \in Nat /\ Length(Point) = 1
    BY DEF Length, Bytes, Point
  <2> QED BY <1>3, <1>4, <2>1, <2>2, <2>3
<1>6. CASE out = Nil
  <2>1. Join(Join(out, Nil), lab) = lab
    BY <1>6, JoinNil
  <2> QED BY <1>5, <1>6, <2>1 DEF Glue
<1>7. CASE out # Nil
  <2>1. CASE r = Nil
    BY <1>7, <2>1 DEF Glue
  <2>2. CASE r # Nil
    <3>1. Join(x, Join(y, r)) = Join(Join(x, y), r)
      BY <1>2, Assoc
    <3>2. Join(x, y) = Join(Join(x, lab), Point)
      BY <1>1, <1>2, Assoc
    <3> QED BY <1>5, <1>7, <2>2, <3>1, <3>2 DEF Glue
  <2> QED BY <2>1, <2>2
<1> QED BY <1>6, <1>7

Spelling == [text : Bytes, end : Nat, pointers : Nat]

\* A name is none, ends, begins with a label or with a pointer.
LEMMA OneMoreCases ==
  ASSUME NEW b \in Bytes, NEW p \in 0 .. Len(b) - 1, NEW f
  PROVE  LET len == b[p + 1]
             target == (len - 192) * 256 + b[p + 2]
             next == p + 1 + len
             lab == SubSeq(b, p + 2, next)
             dot == IF f[next].text = Nil THEN Nil ELSE Point
         IN  \/ OneMore(b, f, p) = None
             \/ /\ len = 0
                /\ OneMore(b, f, p) = [text |-> Nil, end |-> p + 1, pointers |-> 0]
             \/ /\ len \in 1 .. 63 /\ next < Len(b) /\ f[next] # None
                /\ OneMore(b, f, p) = [text |-> Join(Join(lab, dot), f[next].text),
                                       end |-> f[next].end, pointers |-> f[next].pointers]
             \/ /\ len >= 192 /\ p + 2 <= Len(b) /\ target < Len(b) /\ f[target] # None
                /\ OneMore(b, f, p) = [text |-> f[target].text, end |-> p + 2,
                                       pointers |-> f[target].pointers + 1]
<1> DEFINE L == Len(b)
           len == b[p + 1]
           target == (len - 192) * 256 + b[p + 2]
           next == IF IsPointer(len) THEN target ELSE p + 1 + len
           Label == len \in 1 .. 63 /\ next < L /\ f[next] # None
           Pointer == IsPointer(len) /\ p + 2 <= L /\ next < L /\ f[next] # None
           atEnd == [text |-> <<>>, end |-> p + 1, pointers |-> 0]
           atLabel == [text |-> SubSeq(b, p + 2, next)
                         \o (IF f[next].text = <<>> THEN <<>> ELSE <<Dot>>) \o f[next].text,
                       end |-> f[next].end, pointers |-> f[next].pointers]
           atPointer == [text |-> f[next].text, end |-> p + 2, pointers |-> f[next].pointers + 1]
<1>1. len \in Nat
  BY DEF Bytes
<1>2. OneMore(b, f, p) = CASE len = 0 -> atEnd [] Label -> atLabel [] Pointer -> atPointer
                           [] OTHER -> None
  BY DEF OneMore
<1>3. /\ len \in 1 .. 63 => next = p + 1 + len
      /\ IsPointer(len) => next = target /\ len >= 192
  <2> HIDE DEF len, target
  <2> QED BY <1>1 DEF IsPointer
<1> HIDE DEF L, len, target, next
<1>4. (Label => len # 0 /\ ~Pointer) /\ (Pointer => len # 0)
  BY <1>1 DEF IsPointer
<1>5. \/ OneMore(b, f, p) = None
      \/ len = 0 /\ OneMore(b, f, p) = atEnd
      \/ Label /\ OneMore(b, f, p) = atLabel
      \/ Pointer /\ OneMore(b, f, p) = atPointer
  <2> HIDE DEF Label, Pointer, atEnd, atLabel, atPointer
  <2> QED BY <1>2, <1>4
<1>6. ASSUME Label, OneMore(b, f, p) = atLabel
      PROVE  LET q == p + 1 + len
             IN  /\ len \in 1 .. 63 /\ q < L /\ f[q] # None
                 /\ OneMore(b, f, p)
                      = [text |-> Join(Join(SubSeq(b, p + 2, q),
                                            IF f[q].text = Nil THEN Nil ELSE Point), f[q].text),
                         end |-> f[q].end, pointers |-> f[q].pointers]
  BY <1>3, <1>6 DEF Join, Nil, Point
<1>7. ASSUME Pointer, OneMore(b, f, p) = atPointer
      PROVE  /\ len >= 192 /\ p + 2 <= L /\ target < L /\ f[target] # None
             /\ OneMore(b, f, p) = [text |-> f[target].text, end |-> p + 2,
                                    pointers |-> f[target].pointers + 1]
  BY <1>3, <1>7
<1>8. atEnd = [text |-> Nil, end |-> p + 1, pointers |-> 0]
  BY DEF Nil
<1> HIDE DEF Label, Pointer, atEnd, atLabel, atPointer
<1> QED BY <1>5, <1>6, <1>7, <1>8, Zenon DEF L, len, target

LEMMA OneMoreType ==
  ASSUME NEW b \in Bytes, NEW p \in 0 .. Len(b) - 1,
         NEW f \in [0 .. Len(b) - 1 -> Spelling \cup {None}]
  PROVE  OneMore(b, f, p) \in Spelling \cup {None}
<1> DEFINE len == b[p + 1]
           target == (len - 192) * 256 + b[p + 2]
           next == p + 1 + len
           lab == SubSeq(b, p + 2, next)
           dot == IF f[next].text = Nil THEN Nil ELSE Point
           text == Join(Join(lab, dot), f[next].text)
<1>1. /\ len \in Nat /\ p \in Nat /\ Len(b) \in Nat /\ Nil \in Bytes /\ Point \in Bytes
      /\ p + 2 <= Len(b) => b[p + 2] \in Nat
  BY DEF Bytes, Nil, Point, Dot
<1>2. CASE OneMore(b, f, p) = [text |-> Nil, end |-> p + 1, pointers |-> 0]
  BY <1>1, <1>2 DEF Spelling
<1>3. CASE /\ len \in 1 .. 63 /\ next < Len(b) /\ f[next] # None
           /\ OneMore(b, f, p) = [text |-> text, end |-> f[next].end, pointers |-> f[next].pointers]
  <2>1. next \in 0 .. Len(b) - 1 /\ p + 2 \in 1 .. Len(b) + 1
    <3> HIDE DEF len
    <3> QED BY <1>1, <1>3
  <2>2. lab \in Bytes
    <3> HIDE DEF next
    <3> QED BY <2>1 DEF Bytes
  <2> HIDE DEF lab, next
  <2>3. f[next] \in Spelling
    BY <1>3, <2>1
  <2>4. dot \in Bytes /\ f[next].text \in Bytes
    BY <1>1, <2>3 DEF Spelling
  <2> HIDE DEF dot
  <2>5. text \in Bytes
    BY <2>2, <2>4, Joined
  <2> HIDE DEF text, len
  <2> QED BY <1>3, <2>3, <2>5 DEF Spelling
<1>4. CASE /\ len >= 192 /\ p + 2 <= Len(b) /\ target < Len(b) /\ f[target] # None
           /\ OneMore(b, f, p) = [text |-> f[target].text, end |-> p + 2,
                                  pointers |-> f[target].pointers + 1]
  <2>1. target \in 0 .. Len(b) - 1
    <3> HIDE DEF len
    <3> QED BY <1>1, <1>4
  <2> HIDE DEF target
  <2>2. f[target] \in Spelling
    BY <1>4, <2>1
  <2> QED BY <1>1, <1>4, <2>2 DEF Spelling
<1>5. CASE OneMore(b, f, p) = None
  BY <1>5
<1> HIDE DEF len, target, next, text
<1> QED BY <1>2, <1>3, <1>4, <1>5, OneMoreCases DEF len, target, next, text, lab, dot

\* The recursion of NamesUpto.
LEMMA NamesFacts ==
  ASSUME NEW b \in Bytes
  PROVE  /\ NamesUpto(b) \in [0 .. Len(b) -> [0 .. Len(b) - 1 -> Spelling \cup {None}]]
         /\ \A k \in 0 .. Len(b) : \A p \in 0 .. Len(b) - 1 :
              NamesUpto(b)[k][p] = IF k = 0 THEN None ELSE OneMore(b, NamesUpto(b)[k - 1], p)
<1> DEFINE L == Len(b)
           V == [0 .. L - 1 -> Spelling \cup {None}]
           none == [p \in 0 .. L - 1 |-> None]
           op == [i \in 1 .. L |-> [v \in V |-> [p \in 0 .. L - 1 |-> OneMore(b, v, p)]]]
           Turned(f, k) == [p \in 0 .. L - 1 |-> IF k = 0 THEN None ELSE OneMore(b, f[k - 1], p)]
           Def(f) == f = [k \in 0 .. L |-> Turned(f, k)]
           h == NamesUpto(b)
<1>1. L \in Nat
  BY DEF Bytes
<1>2. \A v \in V : \A p \in 0 .. L - 1 : OneMore(b, v, p) \in Spelling \cup {None}
  BY OneMoreType
<1>3. h = CHOOSE f : Def(f)
  BY DEF NamesUpto
<1> HIDE DEF L, h
<1>4. /\ op \in [1 .. L -> [V -> V]] /\ none \in V
      /\ \A i \in 1 .. L : \A v \in V : op[i][v] = [p \in 0 .. L - 1 |-> OneMore(b, v, p)]
  BY <1>2
<1> HIDE DEF V, op, none
<1>5. PICK f \in [0 .. L -> V] : Iterates(f, L, none, op)
  BY <1>1, <1>4, Recursion, Zenon
<1>6. Def(f)
  <2>1. f[0] = Turned(f, 0)
    BY <1>5 DEF Iterates, none
  <2>2. ASSUME NEW k \in 0 .. L, k # 0 PROVE f[k] = Turned(f, k)
    <3>1. k \in 1 .. L /\ k - 1 \in 0 .. L
      BY <1>1, <2>2
    <3>2. f[k] = op[k][f[k - 1]] /\ f[k - 1] \in V
      BY <1>5, <3>1 DEF Iterates
    <3> QED BY <1>4, <2>2, <3>1, <3>2
  <2> HIDE DEF Turned
  <2>3. \A k \in 0 .. L : f[k] = Turned(f, k)
    BY <2>1, <2>2
  <2>4. f = [k \in 0 .. L |-> f[k]]
    BY <1>5
  <2> QED BY <2>3, <2>4
<1>7. Def(h)
  <2> HIDE DEF Def
  <2> QED BY <1>3, <1>6
<1>8. \A k \in 0 .. L : h[k] = Turned(h, k)
  <2> HIDE DEF Turned
  <2> QED BY <1>7
<1> DEFINE G == {k \in 0 .. L : h[k] \in V}
<1>9. ASSUME NEW k \in 1 .. L, h[k - 1] \in V PROVE h[k] \in V
  <2>1. h[k] = [p \in 0 .. L - 1 |-> OneMore(b, h[k - 1], p)]
    BY <1>1, <1>8
  <2> QED BY <1>2, <1>9, <2>1 DEF V
<1>10. h[0] \in V
  <2>1. 0 \in 0 .. L
    BY <1>1
  <2>2. h[0] = Turned(h, 0)
    <3> HIDE DEF Turned
    <3> QED BY <1>8, <2>1
  <2>3. h[0] = none
    BY <2>2 DEF none
  <2> QED BY <1>4, <2>3
<1>11. 0 .. L \subseteq G
  <2>1. 0 \in G /\ \A k \in 1 .. L : k - 1 \in G => k \in G
    BY <1>1, <1>9, <1>10
  <2> HIDE DEF G
  <2> QED BY <1>1, <2>1, Induction
<1>12. h \in [0 .. L -> V]
  <2>1. h = [k \in 0 .. L |-> h[k]]
    <3> HIDE DEF Turned
    <3>1. h = [k \in 0 .. L |-> Turned(h, k)]
      BY <1>7
    <3> QED BY <1>8, <3>1
  <2>2. \A k \in 0 .. L : h[k] \in V
    BY <1>11
  <2> QED BY <2>1, <2>2
<1>13. \A k \in 0 .. L : \A p \in 0 .. L - 1 :
         h[k][p] = IF k = 0 THEN None ELSE OneMore(b, h[k - 1], p)
  BY <1>8
<1> QED BY <1>12, <1>13 DEF h, L, V

Cells(b, k, p) == NamesUpto(b)[k][p]

\* A turn of readQName where a name of at most k labels and pointers lies ahead.
LEMMA TurnMeans ==
  ASSUME buf \in Bytes, NEW k \in 0 .. Size, NEW p \in Nat, p < Size, Cells(buf, k, p) # None
  PROVE  LET len == Get(p)
             cur == Cells(buf, k, p)
             target == (len - 192) * 256 + Get(p + 1)
             after == Cells(buf, k - 1, p + 1 + len)
             there == Cells(buf, k - 1, target)
             lab == SubSeq(buf, p + 2, p + 1 + len)
         IN  /\ cur \in Spelling /\ k - 1 \in 0 .. Size /\ len \in Nat
             /\ p + Needed(len) <= Size
             /\ len = 0 => cur.text = Nil /\ cur.end = p + 1
             /\ len # 0 /\ ~IsPointer(len) =>
                  /\ p + 1 + len < Size /\ after # None /\ after \in Spelling
                  /\ cur.text = Join(Join(lab, IF after.text = Nil THEN Nil ELSE Point), after.text)
                  /\ cur.end = after.end /\ cur.pointers = after.pointers
             /\ IsPointer(len) =>
                  /\ target \in Nat /\ target < Size /\ there # None /\ there \in Spelling
                  /\ cur.text = there.text /\ cur.end = p + 2 /\ cur.pointers = there.pointers + 1
<1> DEFINE len == Get(p)
           target == (len - 192) * 256 + Get(p + 1)
           next == p + 1 + len
           f == NamesUpto(buf)[k - 1]
           lab == SubSeq(buf, p + 2, p + 1 + len)
           cur == Cells(buf, k, p)
<1>1. Size = Len(buf) /\ Size \in Nat /\ p \in 0 .. Size - 1 /\ len \in Nat
      /\ (p + 1 < Size => Get(p + 1) \in Nat)
  BY ByteFacts DEF Bytes, Size
<1>2. k # 0 /\ cur = OneMore(buf, f, p) /\ cur \in Spelling
  <2>1. cur = IF k = 0 THEN None ELSE OneMore(buf, f, p)
    BY <1>1, NamesFacts DEF Cells
  <2>2. cur \in Spelling \cup {None}
    <3>1. NamesUpto(buf) \in [0 .. Size -> [0 .. Size - 1 -> Spelling \cup {None}]]
      BY <1>1, NamesFacts
    <3> QED BY <1>1, <3>1 DEF Cells
  <2> HIDE DEF cur, f
  <2> QED BY <2>1, <2>2 DEF cur
<1>3. k - 1 \in 0 .. Size
  BY <1>1, <1>2
<1>4. \A q \in 0 .. Size - 1 : Cells(buf, k - 1, q) = f[q] /\ f[q] \in Spelling \cup {None}
  <2>1. NamesUpto(buf) \in [0 .. Size -> [0 .. Size - 1 -> Spelling \cup {None}]]
    BY <1>1, NamesFacts
  <2> QED BY <1>3, <2>1 DEF Cells
<1>5. \/ len = 0 /\ cur = [text |-> Nil, end |-> p + 1, pointers |-> 0]
      \/ /\ len \in 1 .. 63 /\ next < Size /\ f[next] # None
         /\ cur = [text |-> Join(Join(lab, IF f[next].text = Nil THEN Nil ELSE Point),
                                 f[next].text),
                   end |-> f[next].end, pointers |-> f[next].pointers]
      \/ /\ len >= 192 /\ p + 2 <= Size /\ target < Size /\ f[target] # None
         /\ cur = [text |-> f[target].text, end |-> p + 2, pointers |-> f[target].pointers + 1]
  <2>1. Get(p) = buf[p + 1] /\ Get(p + 1) = buf[p + 2]
    BY DEF Get
  <2>2. cur # None
    OBVIOUS
  <2> HIDE DEF cur, f
  <2>3. p \in 0 .. Len(buf) - 1
    BY <1>1
  <2>4. \/ OneMore(buf, f, p) = None
        \/ /\ buf[p + 1] = 0
           /\ OneMore(buf, f, p) = [text |-> Nil, end |-> p + 1, pointers |-> 0]
        \/ /\ buf[p + 1] \in 1 .. 63 /\ p + 1 + buf[p + 1] < Len(buf)
           /\ f[p + 1 + buf[p + 1]] # None
           /\ OneMore(buf, f, p)
                = [text |-> Join(Join(SubSeq(buf, p + 2, p + 1 + buf[p + 1]),
                                      IF f[p + 1 + buf[p + 1]].text = Nil THEN Nil ELSE Point),
                                 f[p + 1 + buf[p + 1]].text),
                   end |-> f[p + 1 + buf[p + 1]].end,
                   pointers |-> f[p + 1 + buf[p + 1]].pointers]
        \/ /\ buf[p + 1] >= 192 /\ p + 2 <= Len(buf)
           /\ (buf[p + 1] - 192) * 256 + buf[p + 2] < Len(buf)
           /\ f[(buf[p + 1] - 192) * 256 + buf[p + 2]] # None
           /\ OneMore(buf, f, p)
                = [text |-> f[(buf[p + 1] - 192) * 256 + buf[p + 2]].text, end |-> p + 2,
                   pointers |-> f[(buf[p + 1] - 192) * 256 + buf[p + 2]].pointers + 1]
    BY <2>3, OneMoreCases
  <2>5. Len(buf) = Size
    BY <1>1
  <2> HIDE DEF Size, Get
  <2> QED BY <1>2, <2>1, <2>2, <2>4, <2>5 DEF len, target, next, lab
<1> HIDE DEF cur, f, lab
<1>6. CASE len = 0 /\ cur = [text |-> Nil, end |-> p + 1, pointers |-> 0]
  <2>1. p + Needed(len) <= Size /\ ~IsPointer(len)
    BY <1>1, <1>6 DEF Needed, IsPointer
  <2> HIDE DEF len, target
  <2> QED BY <1>2, <1>3, <1>1, <1>6, <2>1 DEF len, cur, target
<1>7. CASE /\ len \in 1 .. 63 /\ next < Size /\ f[next] # None
           /\ cur = [text |-> Join(Join(lab, IF f[next].text = Nil THEN Nil ELSE Point),
                                   f[next].text),
                     end |-> f[next].end, pointers |-> f[next].pointers]
  <2> HIDE DEF len, target
  <2>1. next \in 0 .. Size - 1 /\ p + Needed(len) <= Size /\ ~IsPointer(len) /\ len # 0
    BY <1>1, <1>7 DEF Needed, IsPointer
  <2> HIDE DEF next
  <2>2. f[next] \in Spelling /\ Cells(buf, k - 1, next) = f[next]
    BY <1>4, <1>7, <2>1
  <2> DEFINE text == Join(Join(lab, IF f[next].text = Nil THEN Nil ELSE Point), f[next].text)
  <2>3. cur.text = text /\ cur.end = f[next].end /\ cur.pointers = f[next].pointers
    <3> HIDE DEF text
    <3> QED BY <1>7 DEF text
  <2> QED BY <1>1, <1>2, <1>3, <1>7, <2>1, <2>2, <2>3 DEF len, cur, target, lab, next
<1>8. CASE /\ len >= 192 /\ p + 2 <= Size /\ target < Size /\ f[target] # None
           /\ cur = [text |-> f[target].text, end |-> p + 2, pointers |-> f[target].pointers + 1]
  <2> HIDE DEF len
  <2>1. Get(p + 1) \in Nat /\ len # 0 /\ IsPointer(len) /\ p + Needed(len) <= Size
    BY <1>1, <1>8 DEF Needed, IsPointer
  <2>2. target \in 0 .. Size - 1
    BY <1>1, <1>8, <2>1
  <2> HIDE DEF target
  <2>3. f[target] \in Spelling /\ Cells(buf, k - 1, target) = f[target]
    BY <1>4, <1>8, <2>2
  <2>4. cur.text = f[target].text /\ cur.end = p + 2 /\ cur.pointers = f[target].pointers + 1
    BY <1>8
  <2> QED BY <1>1, <1>2, <1>3, <1>8, <2>1, <2>2, <2>3, <2>4 DEF len, cur, target
<1> QED BY <1>5, <1>6, <1>7, <1>8

\* readQName reads the name that began at p: what is ahead of it is the rest.
Spells(m, p, cursor) ==
  /\ m.start = p /\ NameAt(buf, p) # None /\ m.pos \in Nat /\ m.pos < Size
  /\ \E k \in 0 .. Size :
       LET whole == NameAt(buf, p)
           rest == Cells(buf, k, m.pos)
       IN  /\ rest # None /\ whole.text = Glue(m.out, rest.text)
           /\ whole.pointers = m.jumps + rest.pointers
           /\ whole.end = IF m.jumped THEN cursor ELSE rest.end

\* A name of a message, of any number of labels.
LEMMA NameAtFacts ==
  ASSUME buf \in Bytes, NEW p \in Nat, NameAt(buf, p) # None
  PROVE  /\ NameAt(buf, p) = Cells(buf, Size, p) /\ p < Size /\ Size \in 0 .. Size
         /\ NameAt(buf, p) \in Spelling /\ NameAt(buf, p).pointers <= maxJumps
<1>1. Size = Len(buf) /\ Size \in Nat
  BY DEF Bytes, Size
<1> DEFINE x == Cells(buf, Size, p)
<1>2. NameAt(buf, p) = IF p < Size /\ x # None /\ x.pointers <= maxJumps THEN x ELSE None
  BY DEF NameAt, Cells, Size
<1>3. p < Size => x \in Spelling \cup {None}
  <2>1. NamesUpto(buf) \in [0 .. Size -> [0 .. Size - 1 -> Spelling \cup {None}]]
    BY <1>1, NamesFacts
  <2> QED BY <1>1, <2>1 DEF Cells
<1> HIDE DEF x
<1> QED BY <1>1, <1>2, <1>3 DEF x

LEMMA SpellsStart ==
  ASSUME buf \in Bytes, NEW p \in Nat, NameAt(buf, p) # None, NEW cursor
  PROVE  Spells(Name(p), p, cursor)
<1> DEFINE x == NameAt(buf, p)
           m == Name(p)
<1>1. /\ x = Cells(buf, Size, p) /\ p < Size /\ Size \in 0 .. Size
      /\ x # None /\ x \in Spelling
  BY NameAtFacts
<1>2. /\ m.start = p /\ m.pos = p /\ m.jumped = FALSE /\ m.jumps = 0 /\ m.out = Nil
  BY StartName DEF Nil
<1>3. Glue(Nil, x.text) = x.text /\ 0 + x.pointers = x.pointers
  BY <1>1 DEF Glue, Spelling
<1> HIDE DEF x, m
<1> QED BY <1>1, <1>2, <1>3 DEF Spells, x, m

\* It does not throw, ...
LEMMA SpellsOn ==
  ASSUME Typed, NEW p \in Nat, Spells(n, p, currPos), Reading
  PROVE  n.jumps <= maxJumps /\ ~OutOfRange
<1>1. n \in Naming /\ buf \in Bytes /\ Size \in Nat /\ maxJumps \in Nat /\ n.jumps \in Nat
  BY WireAssumption DEF Typed, InItem, Reading, Bytes, Size, Naming
<1>2. PICK k \in 0 .. Size :
        /\ Cells(buf, k, n.pos) # None
        /\ NameAt(buf, p).pointers = n.jumps + Cells(buf, k, n.pos).pointers
  BY DEF Spells
<1>3. NameAt(buf, p) # None /\ n.pos \in Nat /\ n.pos < Size
  BY DEF Spells
<1>4. Cells(buf, k, n.pos) \in Spelling /\ n.pos + Needed(Get(n.pos)) <= Size
      /\ Get(n.pos) \in Nat
  BY <1>1, <1>2, <1>3, TurnMeans
<1>5. NameAt(buf, p).pointers <= maxJumps
  BY <1>1, <1>3, NameAtFacts
<1>6. Cells(buf, k, n.pos).pointers \in Nat
  BY <1>4 DEF Spelling
<1>7. Needed(Get(n.pos)) \in Nat
  BY <1>4 DEF Needed
<1>8. n.jumps <= maxJumps
  BY <1>1, <1>2, <1>5, <1>6
<1>9. ~OutOfRange
  <2> HIDE DEF Get, Size, Needed
  <2> QED BY <1>1, <1>3, <1>4, <1>7 DEF OutOfRange
<1> QED BY <1>8, <1>9

\* ... follows pointers, ...
LEMMA SpellsJump ==
  ASSUME Typed, NEW p \in Nat, Spells(n, p, currPos), jump
  PROVE  Spells(n, p, currPos)'
<1>1. /\ n \in Naming /\ buf \in Bytes /\ Size \in Nat /\ n.jumps \in Nat
      /\ IsPointer(Get(n.pos))
  BY DEF Typed, InItem, Reading, Bytes, Size, Naming, jump, Turn
<1>2. PICK k \in 0 .. Size :
        /\ Cells(buf, k, n.pos) # None
        /\ NameAt(buf, p).text = Glue(n.out, Cells(buf, k, n.pos).text)
        /\ NameAt(buf, p).pointers = n.jumps + Cells(buf, k, n.pos).pointers
        /\ NameAt(buf, p).end = IF n.jumped THEN currPos ELSE Cells(buf, k, n.pos).end
  BY DEF Spells
<1>3. NameAt(buf, p) # None /\ n.pos \in Nat /\ n.pos < Size /\ n.start = p
  BY DEF Spells
<1> DEFINE cur == Cells(buf, k, n.pos)
           there == Cells(buf, k - 1, Target)
<1>4. /\ k - 1 \in 0 .. Size /\ Target \in Nat /\ Target < Size
      /\ there # None /\ there \in Spelling
      /\ cur.text = there.text /\ cur.end = n.pos + 2 /\ cur.pointers = there.pointers + 1
  BY <1>1, <1>2, <1>3, TurnMeans DEF Target
<1>5. /\ n'.start = n.start /\ n'.pos = Target /\ n'.jumped = TRUE
      /\ n'.jumps = n.jumps + 1 /\ n'.out = n.out
  BY JumpFacts
<1>6. currPos' = (IF n.jumped THEN currPos ELSE n.pos + 2) /\ buf' = buf /\ Size' = Size
  BY DEF jump, Size
<1>7. there.pointers \in Nat
  BY <1>4 DEF Spelling
<1> DEFINE w == NameAt(buf, p)
<1>8. /\ w.text = Glue(n'.out, there.text) /\ w.pointers = n'.jumps + there.pointers
      /\ w.end = currPos'
  <2> HIDE DEF w, cur, there
  <2> QED BY <1>1, <1>2, <1>4, <1>5, <1>6, <1>7 DEF w, cur
<1>9. w # None
  BY <1>3
<1> HIDE DEF w, there, cur
<1> QED BY <1>3, <1>4, <1>5, <1>6, <1>8, <1>9 DEF Spells, w, there

\* ... takes labels ...
LEMMA SpellsLabel ==
  ASSUME Typed, NEW p \in Nat, Spells(n, p, currPos), label
  PROVE  Spells(n, p, currPos)'
<1> DEFINE len == Get(n.pos)
           lab == SubSeq(buf, n.pos + 2, n.pos + 1 + len)
<1>1. /\ n \in Naming /\ buf \in Bytes /\ Size \in Nat /\ n.jumps \in Nat /\ n.out \in Bytes
      /\ ~IsPointer(len) /\ len # 0
  BY DEF Typed, InItem, Reading, Bytes, Size, Naming, label, Turn
<1>2. PICK k \in 0 .. Size :
        /\ Cells(buf, k, n.pos) # None
        /\ NameAt(buf, p).text = Glue(n.out, Cells(buf, k, n.pos).text)
        /\ NameAt(buf, p).pointers = n.jumps + Cells(buf, k, n.pos).pointers
        /\ NameAt(buf, p).end = IF n.jumped THEN currPos ELSE Cells(buf, k, n.pos).end
  BY DEF Spells
<1>3. NameAt(buf, p) # None /\ n.pos \in Nat /\ n.pos < Size /\ n.start = p
  BY DEF Spells
<1> DEFINE next == n.pos + 1 + len
           cur == Cells(buf, k, n.pos)
           rest == Cells(buf, k - 1, next)
<1>4. /\ k - 1 \in 0 .. Size /\ next < Size /\ rest # None /\ rest \in Spelling
      /\ cur.text = Join(Join(lab, IF rest.text = Nil THEN Nil ELSE Point), rest.text)
      /\ cur.end = rest.end /\ cur.pointers = rest.pointers
  BY <1>1, <1>2, <1>3, TurnMeans
<1>5. /\ len \in Nat /\ len >= 1 /\ next <= Size
      /\ n'.start = n.start /\ n'.pos = next /\ n'.jumped = n.jumped /\ n'.jumps = n.jumps
  BY LabelFacts
<1>6. n'.out = Join(Join(n.out, IF n.out = Nil THEN Nil ELSE Point), lab)
  <2>1. n' = [n EXCEPT !.pos = @ + 1 + len,
                       !.out = @ \o (IF @ = <<>> THEN <<>> ELSE <<Dot>>) \o lab]
    BY DEF label
  <2> HIDE DEF lab, len
  <2> QED BY <1>1, <2>1 DEF Naming, Join, Nil, Point
<1>7. lab \in Bytes /\ lab # Nil
  <2>1. n.pos + 1 \in Nat /\ n.pos + 1 + 1 = n.pos + 2
    BY <1>3
  <2>2. lab \in Bytes /\ Length(lab) = len
    <3> HIDE DEF len
    <3> QED BY <1>1, <1>5, <2>1, Slice
  <2>3. Length(Nil) = 0
    BY DEF Nil, Length
  <2> HIDE DEF len, lab
  <2> QED BY <1>5, <2>2, <2>3
<1> HIDE DEF lab
<1>8. rest.text \in Bytes /\ next \in Nat
  <2>1. next \in Nat
    <3> HIDE DEF len
    <3> QED BY <1>3, <1>5
  <2> QED BY <1>4, <2>1 DEF Spelling
<1> DEFINE w == NameAt(buf, p)
<1>9. Glue(n'.out, rest.text) = Glue(n.out, cur.text)
  <2>1. Glue(n'.out, rest.text)
          = Glue(n.out, IF rest.text = Nil THEN lab ELSE Join(Join(lab, Point), rest.text))
    <3> HIDE DEF rest
    <3> QED BY <1>1, <1>6, <1>7, <1>8, GlueStep
  <2>2. cur.text = IF rest.text = Nil THEN lab ELSE Join(Join(lab, Point), rest.text)
    <3> HIDE DEF rest, cur
    <3>1. Join(Join(lab, Nil), Nil) = lab
      BY <1>7, JoinNil
    <3> QED BY <1>4, <3>1
  <2> QED BY <2>1, <2>2
<1>10. currPos' = currPos /\ buf' = buf /\ Size' = Size
  BY DEF label, Size
<1>11. /\ w.text = Glue(n'.out, rest.text) /\ w.pointers = n'.jumps + rest.pointers
       /\ w.end = IF n'.jumped THEN currPos' ELSE rest.end
  <2> HIDE DEF w, cur, rest
  <2> QED BY <1>2, <1>4, <1>5, <1>9, <1>10 DEF w, cur
<1>12. w # None
  BY <1>3
<1> HIDE DEF w, rest, cur, next
<1> QED BY <1>3, <1>4, <1>5, <1>8, <1>10, <1>11, <1>12 DEF Spells, w, rest

\* ... and ends with the name, behind it.
LEMMA SpellsEnd ==
  ASSUME Typed, NEW p \in Nat, Spells(n, p, currPos), endName
  PROVE  n.out = NameAt(buf, p).text /\ currPos' = NameAt(buf, p).end
<1>1. /\ n \in Naming /\ buf \in Bytes /\ Size \in Nat /\ Get(n.pos) = 0
      /\ currPos' = IF n.jumped THEN currPos ELSE n.pos + 1
  BY DEF Typed, InItem, Reading, Bytes, Size, endName, Turn
<1>2. PICK k \in 0 .. Size :
        /\ Cells(buf, k, n.pos) # None
        /\ NameAt(buf, p).text = Glue(n.out, Cells(buf, k, n.pos).text)
        /\ NameAt(buf, p).end = IF n.jumped THEN currPos ELSE Cells(buf, k, n.pos).end
  BY DEF Spells
<1>3. n.pos \in Nat /\ n.pos < Size
  BY DEF Spells
<1>4. Cells(buf, k, n.pos).text = Nil /\ Cells(buf, k, n.pos).end = n.pos + 1
  BY <1>1, <1>2, <1>3, TurnMeans
<1>5. Glue(n.out, Nil) = n.out
  BY DEF Glue
<1> QED BY <1>1, <1>2, <1>4, <1>5

(***************************************************************************)
(* The items of a message, by RFC 1035.  A section holds the items that its *)
(* bytes say, and the next one is read from where the last one ends.       *)
(***************************************************************************)
\* The code reads the same numbers.
LEMMA WordIs ==
  ASSUME NEW p \in Nat
  PROVE  Word(buf, p) = U16(p)
<1>1. p + 1 + 1 = p + 2
  OBVIOUS
<1> QED BY <1>1, Zenon DEF Word, U16, Get

LEMMA QuestionMeans ==
  ASSUME buf \in Bytes, NEW p \in Nat, QuestionAt(buf, p) # None
  PROVE  LET name == NameAt(buf, p)
         IN  /\ name # None /\ name \in Spelling /\ name.end + 4 <= Size
             /\ QuestionAt(buf, p).end = name.end + 4
             /\ QuestionAt(buf, p).is = [name |-> name.text, type |-> U16(name.end)]
<1> DEFINE name == NameAt(buf, p)
           x == [is |-> [name |-> name.text, type |-> Word(buf, name.end)],
                 end |-> name.end + 4]
<1>1. QuestionAt(buf, p) = IF name # None /\ name.end + 4 <= Size THEN x ELSE None
  BY DEF QuestionAt, Size
<1> HIDE DEF x
<1>2. name # None /\ name.end + 4 <= Size /\ QuestionAt(buf, p) = x
  BY <1>1
<1>3. name \in Spelling
  BY <1>2, NameAtFacts
<1> HIDE DEF name
<1>4. Word(buf, name.end) = U16(name.end)
  BY <1>3, WordIs DEF Spelling
<1> QED BY <1>2, <1>3, <1>4 DEF x, name

DataWidth(t) == IF Known(t) THEN Fixed[t] ELSE 0

LEMMA RecordMeans ==
  ASSUME buf \in Bytes, NEW p \in Nat, RecordAt(buf, p) # None
  PROVE  LET name == NameAt(buf, p)
             q == name.end
             t == U16(q)
             rest == q + 10 + DataWidth(t)
             host == NameAt(buf, rest)
             x == RecordAt(buf, p)
         IN  /\ name # None /\ name \in Spelling /\ DataWidth(t) \in Nat
             /\ q + 10 <= Size /\ t \in Nat /\ U16(q + 8) \in Nat
             /\ x.end = q + 10 + U16(q + 8) /\ x.end <= Size
             /\ x.is = [name |-> name.text, type |-> t, length |-> U16(q + 8), ttl |-> U32(q + 4),
                        fixed |-> SubSeq(buf, q + 11, rest),
                        host |-> IF HasHost(t) THEN host.text ELSE Nil]
             /\ Known(t) /\ HasHost(t) => host # None /\ host.end = x.end
             /\ Known(t) /\ ~HasHost(t) => x.end = rest
<1> DEFINE name == NameAt(buf, p)
           q == name.end
           t == Word(buf, q)
           len == Word(buf, q + 8)
           data == q + 10
           end == data + len
           rest == data + DataWidth(t)
           host == NameAt(buf, rest)
           is == [name |-> name.text, type |-> t, length |-> end - data,
                  ttl |-> 65536 * Word(buf, q + 4) + Word(buf, q + 6),
                  fixed |-> SubSeq(buf, data + 1, rest),
                  host |-> IF HasHost(t) THEN host.text ELSE <<>>]
           Right == /\ name # None /\ data <= Size /\ end <= Size
                    /\ Known(t) => IF HasHost(t) THEN host # None /\ host.end = end
                                   ELSE rest = end
<1>1. RecordAt(buf, p) = IF Right THEN [is |-> is, end |-> end] ELSE None
  BY DEF RecordAt, Size, DataWidth
<1>2. Right /\ RecordAt(buf, p) = [is |-> is, end |-> end]
  <2> HIDE DEF Right, is, end
  <2> QED BY <1>1
<1>3. name \in Spelling /\ q \in Nat
  <2>1. name \in Spelling
    BY <1>2, NameAtFacts
  <2> HIDE DEF name
  <2> QED BY <2>1 DEF Spelling
<1>4. t = U16(q) /\ len = U16(q + 8) /\ Word(buf, q + 4) = U16(q + 4)
      /\ Word(buf, q + 6) = U16(q + 4 + 2)
  <2> HIDE DEF name
  <2>1. q + 8 \in Nat /\ q + 4 \in Nat /\ q + 6 \in Nat /\ q + 4 + 2 = q + 6
    BY <1>3
  <2> QED BY <1>3, <2>1, WordIs
<1>5. 65536 * Word(buf, q + 4) + Word(buf, q + 6) = U32(q + 4)
  <2> HIDE DEF name
  <2> QED BY <1>4 DEF U32
<1>6. t \in Nat /\ len \in Nat
  <2>1. q + 1 < Size /\ q + 8 \in Nat /\ q + 8 + 1 < Size
    <3>1. q + 10 <= Size /\ Size \in Nat
      BY <1>2 DEF Bytes, Size
    <3> HIDE DEF name
    <3> QED BY <1>3, <3>1
  <2> HIDE DEF name
  <2> QED BY <1>3, <1>4, <2>1, ByteFacts
<1>7. DataWidth(t) \in Nat
  <2> HIDE DEF t
  <2> QED BY DEF DataWidth, Known, Fixed
<1> HIDE DEF name, t, len
<1>8. end - data = len /\ data + 1 = q + 11
  BY <1>3, <1>6
<1>9. is = [name |-> name.text, type |-> t, length |-> len, ttl |-> U32(q + 4),
            fixed |-> SubSeq(buf, q + 11, rest),
            host |-> IF HasHost(t) THEN host.text ELSE Nil]
  <2> DEFINE ttl == 65536 * Word(buf, q + 4) + Word(buf, q + 6)
             h == IF HasHost(t) THEN host.text ELSE <<>>
  <2>1. is = [name |-> name.text, type |-> t, length |-> end - data, ttl |-> ttl,
              fixed |-> SubSeq(buf, data + 1, rest), host |-> h]
    OBVIOUS
  <2>2. ttl = U32(q + 4) /\ h = IF HasHost(t) THEN host.text ELSE Nil
    BY <1>5 DEF Nil
  <2> HIDE DEF ttl, h, is, host, rest, end, data
  <2> QED BY <1>8, <2>1, <2>2
<1>10. RecordAt(buf, p).is = is /\ RecordAt(buf, p).end = end
  <2> HIDE DEF is, end
  <2> QED BY <1>2
<1>11. /\ Known(t) /\ HasHost(t) => host # None /\ host.end = end
       /\ Known(t) /\ ~HasHost(t) => end = rest
       /\ name # None /\ data <= Size /\ end <= Size
  BY <1>2
<1> HIDE DEF is
<1> QED BY <1>3, <1>4, <1>6, <1>7, <1>9, <1>10, <1>11, Zenon DEF name

\* The recursion of Ends.
LEMMA EndsFacts ==
  ASSUME buf \in Bytes, Total(buf) \in Nat
  PROVE  /\ Ends(buf)[0] = 12 /\ \A i \in 0 .. Total(buf) : Ends(buf)[i] \in Nat
         /\ \A i \in 1 .. Total(buf) : Ends(buf)[i] = EndOf(buf, i, Ends(buf)[i - 1])
<1> DEFINE T == Total(buf)
           op == [i \in 1 .. T |-> [v \in Nat |-> EndOf(buf, i, v)]]
           Def(f) == f = [i \in 0 .. T |-> IF i = 0 THEN 12 ELSE EndOf(buf, i, f[i - 1])]
           h == Ends(buf)
<1>1. T \in Nat
  OBVIOUS
<1>2. \A i : \A p \in Nat : EndOf(buf, i, p) \in Nat
  <2> SUFFICES ASSUME NEW i, NEW p \in Nat, ItemAt(buf, i, p) # None
               PROVE  ItemAt(buf, i, p).end \in Nat
    BY DEF EndOf, Bytes
  <2>1. CASE i <= Count(buf, 1)
    <3>1. QuestionAt(buf, p) # None /\ ItemAt(buf, i, p) = QuestionAt(buf, p)
      BY <2>1 DEF ItemAt
    <3>2. NameAt(buf, p) \in Spelling /\ QuestionAt(buf, p).end = NameAt(buf, p).end + 4
      BY <3>1, QuestionMeans
    <3> QED BY <3>1, <3>2 DEF Spelling
  <2>2. CASE ~(i <= Count(buf, 1))
    <3>1. RecordAt(buf, p) # None /\ ItemAt(buf, i, p) = RecordAt(buf, p)
      BY <2>2 DEF ItemAt
    <3>2. /\ NameAt(buf, p) \in Spelling /\ U16(NameAt(buf, p).end + 8) \in Nat
          /\ RecordAt(buf, p).end = NameAt(buf, p).end + 10 + U16(NameAt(buf, p).end + 8)
      BY <3>1, RecordMeans
    <3> QED BY <3>1, <3>2 DEF Spelling
  <2> QED BY <2>1, <2>2
<1>3. h = CHOOSE f : Def(f)
  BY DEF Ends
<1> HIDE DEF T, h
<1>4. op \in [1 .. T -> [Nat -> Nat]] /\ 12 \in Nat
      /\ \A i \in 1 .. T : \A v \in Nat : op[i][v] = EndOf(buf, i, v)
  BY <1>2
<1> HIDE DEF op
<1>5. PICK f \in [0 .. T -> Nat] : Iterates(f, T, 12, op)
  BY <1>1, <1>4, Recursion, Zenon
<1>6. Def(f)
  <2>1. f[0] = 12
    BY <1>5 DEF Iterates
  <2>2. ASSUME NEW i \in 0 .. T, i # 0 PROVE f[i] = EndOf(buf, i, f[i - 1])
    <3>1. i \in 1 .. T /\ i - 1 \in 0 .. T
      BY <1>1, <2>2
    <3>2. f[i] = op[i][f[i - 1]] /\ f[i - 1] \in Nat
      BY <1>5, <3>1 DEF Iterates
    <3> QED BY <1>4, <3>1, <3>2
  <2> QED BY <1>5, <2>1, <2>2
<1>7. Def(h)
  <2> HIDE DEF Def
  <2> QED BY <1>3, <1>6
<1>8. h[0] = 12 /\ \A i \in 1 .. T : h[i] = EndOf(buf, i, h[i - 1])
  <2>1. \A i \in 0 .. T : h[i] = IF i = 0 THEN 12 ELSE EndOf(buf, i, h[i - 1])
    BY <1>7
  <2>2. 0 \in 0 .. T /\ \A i \in 1 .. T : i \in 0 .. T /\ i # 0
    BY <1>1
  <2> QED BY <2>1, <2>2
<1> DEFINE G == {i \in 0 .. T : h[i] \in Nat}
<1>9. 0 .. T \subseteq G
  <2>1. 0 \in G
    BY <1>1, <1>8
  <2>2. ASSUME NEW i \in 1 .. T, i - 1 \in G PROVE i \in G
    <3>1. h[i] = EndOf(buf, i, h[i - 1]) /\ h[i - 1] \in Nat
      BY <1>8, <2>2
    <3> QED BY <1>1, <1>2, <3>1
  <2> HIDE DEF G
  <2> QED BY <1>1, <2>1, <2>2, Induction
<1> QED BY <1>8, <1>9 DEF h, T

Done == Len(sections[1]) + Len(sections[2]) + Len(sections[3]) + Len(sections[4])
Mark == Ends(buf)[Done]

\* The sections that were read are what the bytes say first, and the sections of a
\* record follow each other.
Gathered ==
  /\ \A s \in 1 .. 4 : header.counts[s] = Count(buf, s)
  /\ \A s \in 1 .. 4 : \A i \in 1 .. Len(sections[s]) : sections[s][i] = Said(buf)[s][i]
  /\ \A s, r \in 1 .. 4 : r < s /\ Len(sections[s]) # 0 => Len(sections[r]) = header.counts[r]

\* The item under way.
LEMMA Current ==
  ASSUME buf \in Bytes, Counted, sections \in Sections, Gathered, section # 5, WellFormed(buf)
  PROVE  LET s == section
             k == Len(sections[s])
             x == ItemAt(buf, Done + 1, Mark)
         IN  /\ s \in 1 .. 4 /\ Mark \in Nat /\ Done \in Nat /\ k \in Nat
             /\ x = IF s = 1 THEN QuestionAt(buf, Mark) ELSE RecordAt(buf, Mark)
             /\ x # None /\ Said(buf)[s][k + 1] = x.is /\ Ends(buf)[Done + 1] = x.end
<1> DEFINE c == header.counts
<1> PICK s : s = section
  OBVIOUS
<1>1. s \in 1 .. 4 /\ Len(sections[s]) < c[s] /\ \A r \in 1 .. s - 1 : Len(sections[r]) = c[r]
  <2>1. section \in 1 .. 5 /\ section # 5
    BY SectionFacts
  <2>2. s \in 1 .. 4
    BY <2>1
  <2> QED BY <2>2, SectionFacts
<1>2. \A i \in 1 .. 4 : c[i] = Count(buf, i) /\ Count(buf, i) \in Nat /\ Len(sections[i]) \in Nat
  BY DEF Gathered, Counted, DnsHeader, Sections
<1>3. \A r \in 1 .. 4 : s < r => Len(sections[r]) = 0
  BY <1>1, <1>2 DEF Gathered
<1> PICK l : l = [i \in 1 .. 4 |-> Len(sections[i])]
  OBVIOUS
<1> PICK d : d = [i \in 1 .. 4 |-> Count(buf, i)]
  OBVIOUS
<1>4. /\ \A i \in 1 .. 4 : l[i] = Len(sections[i]) /\ d[i] = Count(buf, i)
      /\ \A i \in 1 .. 4 : l[i] \in Nat /\ d[i] \in Nat
  BY <1>2
<1>5. /\ l[s] < d[s] /\ \A r \in 1 .. 4 : s < r => l[r] = 0
  BY <1>1, <1>2, <1>3, <1>4
<1>6. \A r \in 1 .. s - 1 : l[r] = d[r]
  <2>1. \A r \in 1 .. s - 1 : r \in 1 .. 4
    BY <1>1
  <2>2. \A i \in 1 .. 4 : c[i] = d[i]
    BY <1>2, <1>4
  <2> QED BY <1>1, <1>4, <2>1, <2>2
<1> DEFINE k == l[s]
           B == (IF s > 1 THEN d[1] ELSE 0) + (IF s > 2 THEN d[2] ELSE 0)
                  + (IF s > 3 THEN d[3] ELSE 0)
<1>7. /\ Before(buf, s) = B /\ Done = l[1] + l[2] + l[3] + l[4]
      /\ Total(buf) = d[1] + d[2] + d[3] + d[4]
  <2>1. Total(buf) = Before(buf, 4) + d[4]
    BY <1>4 DEF Total
  <2>2. Before(buf, 4) = d[1] + d[2] + d[3]
    <3>1. 4 > 1 /\ 4 > 2 /\ 4 > 3
      OBVIOUS
    <3> QED BY <1>4, <3>1 DEF Before
  <2> QED BY <1>1, <1>4, <2>1, <2>2 DEF Before, Done
<1>8. /\ B + k = l[1] + l[2] + l[3] + l[4] /\ k \in Nat /\ B \in Nat
      /\ B + k + 1 <= d[1] + d[2] + d[3] + d[4]
      /\ (B + k + 1 <= d[1] <=> s = 1)
  <2> USE <1>4
  <2>0. /\ l[1] \in Nat /\ l[2] \in Nat /\ l[3] \in Nat /\ l[4] \in Nat
        /\ d[1] \in Nat /\ d[2] \in Nat /\ d[3] \in Nat /\ d[4] \in Nat
    OBVIOUS
  <2>1. CASE s = 1
    <3>1. l[1] < d[1] /\ l[2] = 0 /\ l[3] = 0 /\ l[4] = 0 /\ k = l[1] /\ B = 0
      BY <1>5, <2>1
    <3> HIDE DEF k, B
    <3> QED BY ONLY <2>0, <2>1, <3>1
  <2>2. CASE s = 2
    <3>1. l[1] = d[1] /\ l[2] < d[2] /\ l[3] = 0 /\ l[4] = 0 /\ k = l[2] /\ B = d[1]
      BY <1>5, <1>6, <2>0, <2>2
    <3> HIDE DEF k, B
    <3> QED BY ONLY <2>0, <2>2, <3>1
  <2>3. CASE s = 3
    <3>1. l[1] = d[1] /\ l[2] = d[2] /\ l[3] < d[3] /\ l[4] = 0 /\ k = l[3] /\ B = d[1] + d[2]
      BY <1>5, <1>6, <2>0, <2>3
    <3> HIDE DEF k, B
    <3> QED BY ONLY <2>0, <2>3, <3>1
  <2>4. CASE s = 4
    <3>1. /\ l[1] = d[1] /\ l[2] = d[2] /\ l[3] = d[3] /\ l[4] < d[4] /\ k = l[4]
          /\ B = d[1] + d[2] + d[3]
      BY <1>5, <1>6, <2>0, <2>4
    <3> HIDE DEF k, B
    <3> QED BY ONLY <2>0, <2>4, <3>1
  <2>5. s = 1 \/ s = 2 \/ s = 3 \/ s = 4
    BY <1>1
  <2> HIDE DEF k, B
  <2> QED BY <2>1, <2>2, <2>3, <2>4, <2>5, Zenon
<1> DEFINE x == ItemAt(buf, Done + 1, Mark)
<1>9. /\ Done \in Nat /\ Done = Before(buf, s) + k /\ Done + 1 \in 1 .. Total(buf)
      /\ Done \in 0 .. Total(buf) /\ Total(buf) \in Nat
      /\ (Done + 1 <= Count(buf, 1) <=> s = 1)
  <2>1. /\ Done = B + k /\ Before(buf, s) = B /\ Total(buf) = d[1] + d[2] + d[3] + d[4]
        /\ Count(buf, 1) = d[1]
    <3> HIDE DEF B, k
    <3>1. Count(buf, 1) = d[1]
      BY <1>4
    <3> QED BY <1>7, <1>8, <3>1, Zenon
  <2> HIDE DEF B, k
  <2>2. d[1] + d[2] + d[3] + d[4] \in Nat
    BY <1>4
  <2> QED BY <1>8, <2>1, <2>2
<1>10. (Done + 1) - 1 = Done
  BY <1>9
<1>11. Mark \in Nat /\ x # None
  <2>1. Mark \in Nat
    BY <1>9, EndsFacts DEF Mark
  <2>2. ItemAt(buf, Done + 1, Ends(buf)[(Done + 1) - 1]) # None
    <3> DEFINE i == Done + 1
    <3>1. i \in 1 .. Total(buf)
      BY <1>9
    <3> HIDE DEF i
    <3>2. ItemAt(buf, i, Ends(buf)[i - 1]) # None
      BY <3>1 DEF WellFormed
    <3> QED BY <3>2, Zenon DEF i
  <2> QED BY <1>10, <2>1, <2>2 DEF Mark
<1>12. Ends(buf)[Done + 1] = x.end
  <2>1. Ends(buf)[Done + 1] = EndOf(buf, Done + 1, Ends(buf)[(Done + 1) - 1])
    BY <1>9, EndsFacts
  <2> QED BY <1>10, <1>11, <2>1 DEF EndOf, Mark
<1>13. Said(buf)[s][k + 1] = x.is
  <2>1. k + 1 \in 1 .. Count(buf, s) /\ Before(buf, s) + (k + 1) = Done + 1
    <3>1. k \in Nat /\ k < d[s] /\ d[s] = Count(buf, s) /\ d[s] \in Nat /\ Before(buf, s) = B
      BY <1>1, <1>4, <1>5, <1>7
    <3> HIDE DEF k, B
    <3> QED BY <1>8, <1>9, <3>1
  <2>2. Said(buf)[s][k + 1]
          = ItemAt(buf, Before(buf, s) + (k + 1), Ends(buf)[Before(buf, s) + (k + 1) - 1]).is
    <3> HIDE DEF k
    <3> QED BY <1>1, <2>1 DEF Said
  <2>3. Before(buf, s) + (k + 1) - 1 = Done
    <3>1. k \in Nat /\ Before(buf, s) = B
      BY <1>7, <1>8
    <3> HIDE DEF k, B
    <3> QED BY <1>8, <1>9, <3>1
  <2> QED BY <2>1, <2>2, <2>3, Zenon DEF Mark
<1>14. x = IF s = 1 THEN QuestionAt(buf, Mark) ELSE RecordAt(buf, Mark)
  BY <1>9 DEF ItemAt
<1>15. k = Len(sections[s]) /\ k \in Nat
  BY <1>1, <1>4
<1> HIDE DEF x, k
<1> QED BY <1>1, <1>9, <1>11, <1>12, <1>13, <1>14, <1>15 DEF x

(***************************************************************************)
(* What is read of a message that is well formed is what it means.         *)
(***************************************************************************)
\* The first reading of a message is where the reading of its meaning is.
Understood ==
  first = <<>> /\ means # None =>
    /\ WellFormed(buf) /\ means = Said(buf) /\ stage # "threw"
    /\ stage # "header" => Gathered
    /\ stage = "item" => currPos = Mark
    /\ stage = "name" => Spells(n, Mark, currPos)
    /\ stage = "fields" => /\ NameAt(buf, Mark) # None /\ n.out = NameAt(buf, Mark).text
                           /\ currPos = NameAt(buf, Mark).end
    /\ stage = "host" => \E p \in Nat :
         /\ Spells(n, p, currPos)
         /\ [item EXCEPT !.host = NameAt(buf, p).text] = RecordAt(buf, Mark).is
         /\ NameAt(buf, p).end = RecordAt(buf, Mark).end
    /\ stage = "done" => \A s \in 1 .. 4 : Len(sections[s]) = header.counts[s]

LEMMA UnderstoodInit == Init => Understood
<1> SUFFICES ASSUME NEW input \in Inputs, Start(input), means # None PROVE Understood
  BY DEF Init, Understood
<1>1. buf = input.bytes /\ means = input.means /\ stage = "header"
  BY DEF Start
<1>2. WellFormed(buf) /\ means = Said(buf)
  BY <1>1, SendersMean
<1> QED BY <1>1, <1>2 DEF Understood

\* Gathered is a fact about the buffer, the header and the sections.
LEMMA GatheredSame ==
  ASSUME UNCHANGED <<buf, header, sections>>
  PROVE  Gathered' = Gathered /\ Mark' = Mark
<1>1. buf' = buf /\ header' = header /\ sections' = sections
  OBVIOUS
<1> QED BY <1>1, Zenon DEF Gathered, Mark, Done

\* An item that was read as it was meant is put to its section.
LEMMA PushMeans ==
  ASSUME Typed, Gathered, WellFormed(buf), InItem, NEW x \in Kind(section), Push(x),
         UNCHANGED <<buf, header>>, x = ItemAt(buf, Done + 1, Mark).is
  PROVE  Gathered' /\ Mark' = ItemAt(buf, Done + 1, Mark).end
<1>1. Counted /\ sections \in Sections /\ section # 5 /\ buf \in Bytes
  BY DEF Typed, InItem
<1> PICK s : s = section
  OBVIOUS
<1> DEFINE k == Len(sections[s])
<1>2. /\ s \in 1 .. 4 /\ Done \in Nat /\ k \in Nat
      /\ Said(buf)[s][k + 1] = x /\ Ends(buf)[Done + 1] = ItemAt(buf, Done + 1, Mark).end
  BY <1>1, Current
<1>3. \A i \in 1 .. 4 : sections[i] \in Seq(Question \cup Carried)
  BY <1>1 DEF Sections
<1>4. sections' = [sections EXCEPT ![s] = Append(sections[s], x)] /\ DOMAIN sections = 1 .. 4
  BY <1>1 DEF Push, Sections
<1>5. /\ sections'[s] = Append(sections[s], x)
      /\ \A i \in 1 .. 4 : i # s => sections'[i] = sections[i]
  BY <1>2, <1>4
<1>6. x \in Question \cup Carried
  BY DEF Kind
<1>7. Len(sections'[s]) = k + 1 /\ sections'[s][k + 1] = x
      /\ \A i \in 1 .. k : sections'[s][i] = sections[s][i]
  BY <1>2, <1>3, <1>5, <1>6
<1>8. \A i \in 1 .. 4 : Len(sections[i]) \in Nat
  BY <1>3
<1>9. Done' = Done + 1
  <2> PICK l : l = [i \in 1 .. 4 |-> Len(sections[i])]
    OBVIOUS
  <2> PICK m : m = [i \in 1 .. 4 |-> Len(sections'[i])]
    OBVIOUS
  <2>1. /\ l[1] \in Nat /\ l[2] \in Nat /\ l[3] \in Nat /\ l[4] \in Nat
        /\ m[s] = l[s] + 1 /\ \A i \in 1 .. 4 : i # s => m[i] = l[i]
    <3>1. m[s] = l[s] + 1
      BY <1>2, <1>7
    <3>2. \A i \in 1 .. 4 : i # s => m[i] = l[i]
      BY <1>5
    <3>3. \A i \in 1 .. 4 : l[i] \in Nat
      BY <1>8
    <3> QED BY <3>1, <3>2, <3>3
  <2>2. Done = l[1] + l[2] + l[3] + l[4] /\ Done' = m[1] + m[2] + m[3] + m[4]
    BY DEF Done
  <2>3. m[1] + m[2] + m[3] + m[4] = l[1] + l[2] + l[3] + l[4] + 1
    <3>1. s = 1 \/ s = 2 \/ s = 3 \/ s = 4
      BY <1>2
    <3> QED BY ONLY <2>1, <3>1
  <2> QED BY <2>2, <2>3
<1>10. Mark' = Ends(buf)[Done + 1]
  <2>1. buf' = buf
    OBVIOUS
  <2> QED BY <1>9, <2>1, Zenon DEF Mark
<1>11. Gathered'
  <2>1. buf' = buf /\ header' = header
    OBVIOUS
  <2>2. \A i \in 1 .. 4 : header'.counts[i] = Count(buf', i)
    BY <2>1 DEF Gathered
  <2>3. ASSUME NEW r \in 1 .. 4, NEW i \in 1 .. Len(sections'[r])
        PROVE  sections'[r][i] = Said(buf')[r][i]
    <3>1. CASE r # s
      BY <1>5, <2>1, <3>1 DEF Gathered
    <3>2. CASE r = s /\ i = k + 1
      <4> HIDE DEF k
      <4> QED BY <1>2, <1>7, <2>1, <3>2
    <3>3. CASE r = s /\ i # k + 1
      <4>1. i \in 1 .. k
        <5> HIDE DEF k
        <5> QED BY <1>2, <1>7, <3>3
      <4>2. sections[s][i] = Said(buf)[s][i]
        BY <1>2, <4>1 DEF Gathered
      <4> HIDE DEF k
      <4> QED BY <1>7, <2>1, <3>3, <4>1, <4>2
    <3> QED BY <3>1, <3>2, <3>3
  <2>4. ASSUME NEW q \in 1 .. 4, NEW r \in 1 .. 4, r < q, Len(sections'[q]) # 0
        PROVE  Len(sections'[r]) = header'.counts[r]
    <3>1. Len(sections[r]) = header.counts[r]
      <4>1. CASE q # s
        BY <1>5, <2>4, <4>1 DEF Gathered
      <4>2. CASE q = s
        <5>1. r \in 1 .. s - 1
          BY <1>2, <2>4, <4>2
        <5> QED BY <1>1, <5>1, SectionFacts
      <4> QED BY <4>1, <4>2
    <3>2. r # s
      <4>1. Len(sections[s]) < header.counts[s] /\ header.counts[s] \in Nat
        BY <1>1, <1>2, SectionFacts DEF Counted, DnsHeader
      <4> HIDE DEF k
      <4> QED BY <1>2, <1>8, <3>1, <4>1
    <3> QED BY <1>5, <2>1, <3>1, <3>2
  <2> QED BY <2>2, <2>3, <2>4 DEF Gathered
<1> QED BY <1>2, <1>10, <1>11

LEMMA MeansHeader ==
  ASSUME Typed, WellFormed(buf), readHeader
  PROVE  Gathered' /\ currPos' = Mark'
<1>1. /\ buf' = buf /\ sections' = NoSections /\ buf \in Bytes /\ currPos' = 12
      /\ header'.counts = [s \in 1 .. 4 |-> U16(2 + 2 * s)]
  BY DEF readHeader, Typed
<1>2. \A s \in 1 .. 4 : Count(buf, s) = header'.counts[s] /\ Count(buf, s) \in Nat
  <2>1. \A s \in 1 .. 4 : 2 + 2 * s \in Nat
    OBVIOUS
  <2>2. \A s \in 1 .. 4 : Count(buf, s) = U16(2 + 2 * s)
    BY <2>1, WordIs DEF Count
  <2>3. Typed' /\ stage' # "header"
    BY HeaderTyped DEF readHeader
  <2>4. \A s \in 1 .. 4 : header'.counts[s] \in Nat
    BY <2>3 DEF Typed, Counted, DnsHeader
  <2> QED BY <1>1, <2>2, <2>4
<1>3. \A s \in 1 .. 4 : Len(NoSections[s]) = 0
  BY DEF NoSections
<1>4. Gathered'
  <2>1. \A s \in 1 .. 4 : Len(sections'[s]) = 0
    BY <1>1, <1>3
  <2> QED BY <1>1, <1>2, <2>1 DEF Gathered
<1>5. Total(buf) \in Nat
  <2>1. Count(buf, 1) \in Nat /\ Count(buf, 2) \in Nat /\ Count(buf, 3) \in Nat
        /\ Count(buf, 4) \in Nat
    BY <1>2
  <2> QED BY <2>1 DEF Total, Before
<1>6. Done' = 0
  <2>1. /\ Len(sections'[1]) = 0 /\ Len(sections'[2]) = 0 /\ Len(sections'[3]) = 0
        /\ Len(sections'[4]) = 0
    BY <1>1, <1>3
  <2> QED BY <2>1 DEF Done
<1>7. Mark' = Ends(buf)[0]
  BY <1>1, <1>6 DEF Mark
<1> QED BY <1>1, <1>4, <1>5, <1>7, EndsFacts

\* What is read behind the name of an item.
Heard == first = <<>> /\ means # None

LEMMA MeansFields ==
  ASSUME Typed, Understood, Heard, stage = "fields"
  PROVE  LET x == ItemAt(buf, Done + 1, Mark)
         IN  /\ x # None /\ Mark \in Nat
             /\ section = 1 =>
                  /\ Has(4) /\ x.end = currPos + 4
                  /\ x.is = [name |-> n.out, type |-> U16(currPos)]
             /\ section # 1 =>
                  /\ x = RecordAt(buf, Mark) /\ Has(10) /\ Has(10 + Width)
                  /\ DataWidth(U16(currPos)) = Width /\ Width \in Nat
                  /\ x.end = currPos + 10 + U16(currPos + 8)
                  /\ x.is = [name |-> n.out, type |-> U16(currPos), ttl |-> U32(currPos + 4),
                             length |-> U16(currPos + 8),
                             fixed |-> SubSeq(buf, currPos + 11, currPos + 10 + Width),
                             host |-> IF HasHost(U16(currPos))
                                      THEN NameAt(buf, currPos + 10 + Width).text ELSE Nil]
                  /\ Known(U16(currPos)) /\ HasHost(U16(currPos)) =>
                       /\ NameAt(buf, currPos + 10 + Width) # None
                       /\ NameAt(buf, currPos + 10 + Width).end = x.end
                  /\ Known(U16(currPos)) /\ ~HasHost(U16(currPos)) =>
                       x.end = currPos + 10 + Width
<1> DEFINE x == ItemAt(buf, Done + 1, Mark)
           name == NameAt(buf, Mark)
<1>1. /\ buf \in Bytes /\ Counted /\ sections \in Sections /\ section # 5 /\ currPos \in Nat
      /\ Size \in Nat
  BY DEF Typed, InItem, Bytes, Size
<1>2. /\ Gathered /\ WellFormed(buf) /\ n.out = name.text /\ currPos = name.end
  BY DEF Understood, Heard
<1>3. /\ x # None /\ Mark \in Nat
      /\ x = IF section = 1 THEN QuestionAt(buf, Mark) ELSE RecordAt(buf, Mark)
  BY <1>1, <1>2, Current
<1> HIDE DEF x, name
<1>4. CASE section = 1
  <2>1. QuestionAt(buf, Mark) # None /\ x = QuestionAt(buf, Mark)
    BY <1>3, <1>4
  <2>2. /\ currPos + 4 <= Size /\ x.end = currPos + 4
        /\ x.is = [name |-> n.out, type |-> U16(currPos)]
    BY <1>1, <1>2, <1>3, <2>1, QuestionMeans DEF name
  <2> QED BY <1>3, <1>4, <2>2 DEF Has, x
<1>5. CASE section # 1
  <2> DEFINE t == U16(currPos)
             rest == currPos + 10 + DataWidth(t)
             host == NameAt(buf, rest)
  <2>1. RecordAt(buf, Mark) # None /\ x = RecordAt(buf, Mark)
    BY <1>3, <1>5
  <2>2. /\ DataWidth(t) \in Nat /\ currPos + 10 <= Size /\ U16(currPos + 8) \in Nat
        /\ x.end = currPos + 10 + U16(currPos + 8) /\ x.end <= Size
        /\ x.is = [name |-> n.out, type |-> t, length |-> U16(currPos + 8),
                   ttl |-> U32(currPos + 4), fixed |-> SubSeq(buf, currPos + 11, rest),
                   host |-> IF HasHost(t) THEN host.text ELSE Nil]
        /\ Known(t) /\ HasHost(t) => host # None /\ host.end = x.end
        /\ Known(t) /\ ~HasHost(t) => x.end = rest
    BY <1>1, <1>2, <1>3, <2>1, RecordMeans DEF name
  <2>3. DataWidth(t) = Width
    BY DEF DataWidth, Width
  <2> HIDE DEF t, host
  <2>4. rest <= Size
    <3>1. CASE Known(t) /\ HasHost(t)
      <4>1. rest \in Nat
        BY <1>1, <2>2
      <4> HIDE DEF rest
      <4>2. rest < Size
        BY <1>1, <2>2, <3>1, <4>1, NameAtFacts DEF host
      <4> QED BY <1>1, <4>1, <4>2
    <3>2. CASE Known(t) /\ ~HasHost(t)
      BY <2>2, <3>2
    <3>3. CASE ~Known(t)
      <4>1. DataWidth(t) = 0
        BY <3>3 DEF DataWidth
      <4> QED BY <1>1, <2>2, <4>1
    <3> QED BY <3>1, <3>2, <3>3
  <2>5. Has(10) /\ Has(10 + Width)
    <3>1. currPos + (10 + Width) = rest
      BY <1>1, <2>2, <2>3
    <3> QED BY <2>2, <2>4, <3>1, Zenon DEF Has
  <2>6. x.is = [name |-> n.out, type |-> t, ttl |-> U32(currPos + 4),
                length |-> U16(currPos + 8), fixed |-> SubSeq(buf, currPos + 11, rest),
                host |-> IF HasHost(t) THEN host.text ELSE Nil]
    BY <2>2
  <2>7. rest = currPos + 10 + Width
    BY <2>3
  <2> HIDE DEF rest
  <2> QED BY <1>3, <1>5, <2>1, <2>2, <2>3, <2>5, <2>6, <2>7 DEF t, host, x
<1> QED BY <1>4, <1>5

\* An item is put to its section: the next one begins where it ends.
LEMMA MeansPush ==
  ASSUME Typed, Understood, Heard, InItem, NEW x \in Kind(section), Push(x),
         UNCHANGED <<buf, header, history>>, x = ItemAt(buf, Done + 1, Mark).is,
         currPos' = ItemAt(buf, Done + 1, Mark).end
  PROVE  Understood'
<1>1. WellFormed(buf) /\ means = Said(buf) /\ Gathered
  BY DEF Understood, Heard, InItem
<1>2. Gathered' /\ Mark' = currPos'
  BY <1>1, PushMeans
<1>3. stage' = "item" /\ buf' = buf /\ means' = means
  BY DEF Push, history
<1> QED BY <1>1, <1>2, <1>3 DEF Understood

LEMMA MeansNext ==
  ASSUME Typed, Understood, Heard, nextItem
  PROVE  Understood'
<1>1. /\ stage = "item" /\ section # 5 /\ Gathered /\ WellFormed(buf) /\ means = Said(buf)
      /\ currPos = Mark
  <2>1. stage = "item" /\ section <= 4
    BY DEF nextItem
  <2>2. section \in 1 .. 5
    BY <2>1, SectionFacts DEF Typed
  <2> QED BY <2>1, <2>2 DEF Understood, Heard
<1>2. buf \in Bytes /\ Counted /\ sections \in Sections
  BY <1>1 DEF Typed
<1>3. Mark \in Nat /\ NameAt(buf, Mark) # None
  <2>1. /\ Mark \in Nat /\ ItemAt(buf, Done + 1, Mark) # None
        /\ ItemAt(buf, Done + 1, Mark)
             = IF section = 1 THEN QuestionAt(buf, Mark) ELSE RecordAt(buf, Mark)
    BY <1>1, <1>2, Current
  <2> QED BY <1>2, <2>1, QuestionMeans, RecordMeans
<1>4. Spells(Name(Mark), Mark, currPos)
  BY <1>2, <1>3, SpellsStart
<1>5. /\ n' = Name(Mark) /\ stage' = "name" /\ UNCHANGED <<buf, currPos, header, sections, means>>
  BY <1>1 DEF nextItem, packet, history
<1>6. Gathered' = Gathered /\ Mark' = Mark
  BY <1>5, GatheredSame
<1>7. Spells(n, Mark, currPos)'
  <2>1. buf' = buf /\ Size' = Size
    BY <1>5 DEF Size
  <2> QED BY <1>4, <1>5, <1>6, <2>1 DEF Spells
<1>8. WellFormed(buf') /\ means' = Said(buf')
  BY <1>1, <1>5
<1> QED BY <1>1, <1>5, <1>6, <1>7, <1>8 DEF Understood

LEMMA MeansDone ==
  ASSUME Typed, Understood, Heard, allRead
  PROVE  Understood'
<1>1. /\ stage = "item" /\ section = 5 /\ stage' = "done"
      /\ UNCHANGED <<buf, header, sections, means>>
  BY DEF allRead, packet, history
<1>2. Gathered /\ WellFormed(buf) /\ means = Said(buf)
  BY <1>1 DEF Understood, Heard
<1>3. \A s \in 1 .. 4 : Len(sections[s]) = header.counts[s]
  <2>1. \A r \in 1 .. section - 1 : Len(sections[r]) = header.counts[r]
    BY <1>1, SectionFacts DEF Typed
  <2> QED BY <1>1, <2>1
<1>4. Gathered' = Gathered
  BY <1>1, GatheredSame
<1>5. header' = header /\ sections' = sections /\ buf' = buf /\ means' = means
  BY <1>1
<1> QED BY <1>1, <1>2, <1>3, <1>4, <1>5 DEF Understood

LEMMA MeansTurn ==
  ASSUME Typed, Understood, Heard, Reading
  PROVE  /\ ~jumpLimit /\ ~endOfBuffer
         /\ jump \/ label => Understood'
<1>1. PICK p \in Nat :
        /\ Spells(n, p, currPos)
        /\ stage = "name" => p = Mark
        /\ stage = "host" => /\ [item EXCEPT !.host = NameAt(buf, p).text]
                                  = RecordAt(buf, Mark).is
                             /\ NameAt(buf, p).end = RecordAt(buf, Mark).end
  <2>1. CASE stage = "name"
    <3>1. Spells(n, Mark, currPos)
      BY <2>1 DEF Understood, Heard
    <3>2. Mark \in Nat
      <4>1. Mark = n.start /\ n \in Naming
        BY <2>1, <3>1 DEF Spells, Typed, InItem
      <4> QED BY <4>1 DEF Naming
    <3> QED BY <2>1, <3>1, <3>2
  <2>2. CASE stage = "host"
    BY <2>2 DEF Understood, Heard
  <2> QED BY <2>1, <2>2 DEF Reading
<1>2. n.jumps <= maxJumps /\ ~OutOfRange
  BY <1>1, SpellsOn
<1>3. ~jumpLimit /\ ~endOfBuffer
  <2>1. ~(n.jumps > maxJumps)
    <3>1. n.jumps \in Nat /\ maxJumps \in Nat
      BY WireAssumption DEF Typed, Reading, InItem, Naming
    <3> QED BY <1>2, <3>1
  <2> QED BY <1>2, <2>1 DEF jumpLimit, endOfBuffer
<1>4. ASSUME jump \/ label PROVE Understood'
  <2>1. UNCHANGED <<buf, stage, item, header, sections, first, means>>
    BY <1>4 DEF jump, label, packet, history
  <2>2. Spells(n, p, currPos)'
    BY <1>1, <1>4, SpellsJump, SpellsLabel
  <2>3. Gathered' = Gathered /\ Mark' = Mark
    BY <2>1, GatheredSame
  <2>4. Gathered /\ WellFormed(buf) /\ means = Said(buf) /\ (stage = "name" \/ stage = "host")
    BY DEF Understood, Heard, Reading
  <2>5. WellFormed(buf') /\ means' = Said(buf')
    BY <2>1, <2>4
  <2>6. CASE stage = "name"
    <3>1. Spells(n, Mark, currPos)'
      BY <1>1, <2>2, <2>3, <2>6
    <3> QED BY <2>1, <2>3, <2>4, <2>5, <2>6, <3>1 DEF Understood
  <2>7. CASE stage = "host"
    <3>1. /\ [item' EXCEPT !.host = NameAt(buf', p).text] = RecordAt(buf', Mark').is
          /\ NameAt(buf', p).end = RecordAt(buf', Mark').end
      BY <1>1, <2>1, <2>3, <2>7
    <3> QED BY <2>1, <2>2, <2>3, <2>4, <2>5, <2>7, <3>1 DEF Understood
  <2> QED BY <2>4, <2>6, <2>7
<1> QED BY <1>3, <1>4

LEMMA MeansEnd ==
  ASSUME Typed, Understood, Heard, endName
  PROVE  Understood'
<1>1. InItem /\ Turn /\ UNCHANGED <<buf, n, header, history>> /\ (stage = "name" \/ stage = "host")
  BY TurnFacts DEF endName, Turn, Reading
<1>2. Gathered /\ WellFormed(buf) /\ means = Said(buf)
  BY <1>1 DEF Understood, Heard
<1>3. CASE stage = "name"
  <2>1. Spells(n, Mark, currPos)
    BY <1>3 DEF Understood, Heard
  <2>2. Mark \in Nat
    <3>1. Mark = n.start /\ n \in Naming
      BY <1>1, <2>1 DEF Spells, Typed
    <3> QED BY <3>1 DEF Naming
  <2>3. n.out = NameAt(buf, Mark).text /\ currPos' = NameAt(buf, Mark).end
        /\ NameAt(buf, Mark) # None
    <3>1. NameAt(buf, Mark) # None
      BY <2>1 DEF Spells
    <3> QED BY <2>1, <2>2, <3>1, SpellsEnd
  <2>4. stage' = "fields" /\ UNCHANGED <<item, sections>>
    BY <1>3 DEF endName
  <2>5. Gathered' = Gathered /\ Mark' = Mark
    BY <1>1, <2>4, GatheredSame
  <2>6. buf' = buf /\ n' = n /\ means' = means
    BY <1>1 DEF history
  <2> QED BY <1>2, <2>3, <2>4, <2>5, <2>6 DEF Understood
<1>4. CASE stage = "host"
  <2>1. PICK p \in Nat :
          /\ Spells(n, p, currPos)
          /\ [item EXCEPT !.host = NameAt(buf, p).text] = RecordAt(buf, Mark).is
          /\ NameAt(buf, p).end = RecordAt(buf, Mark).end
    BY <1>4 DEF Understood, Heard
  <2>2. n.out = NameAt(buf, p).text /\ currPos' = NameAt(buf, p).end
    BY <2>1, SpellsEnd
  <2> DEFINE x == [item EXCEPT !.host = n.out]
  <2>3. section # 1 /\ section # 5 /\ item \in Carried /\ Push(x)
    BY <1>1, <1>4 DEF Typed, endName
  <2>4. x \in Kind(section)
    <3>1. n.out \in Bytes
      BY <1>1 DEF Typed, Naming
    <3> QED BY <2>3, <3>1 DEF Kind, Carried
  <2>5. ItemAt(buf, Done + 1, Mark) = RecordAt(buf, Mark)
    <3>1. buf \in Bytes /\ Counted /\ sections \in Sections
      BY <1>1 DEF Typed, InItem
    <3> QED BY <1>2, <2>3, <3>1, Current
  <2>6. x = ItemAt(buf, Done + 1, Mark).is /\ currPos' = ItemAt(buf, Done + 1, Mark).end
    BY <2>1, <2>2, <2>5
  <2> HIDE DEF x
  <2> QED BY <1>1, <2>3, <2>4, <2>6, MeansPush
<1> QED BY <1>1, <1>3, <1>4

\* What is behind a name is there, and is read as it was meant.
LEMMA MeansItem ==
  ASSUME Typed, Understood, Heard, stage = "fields"
  PROVE  /\ ~fieldsCut
         /\ readQuestion \/ readUnknown \/ readKnown => Understood'
<1> DEFINE x == ItemAt(buf, Done + 1, Mark)
           t == U16(currPos)
           rest == currPos + 10 + Width
           host == NameAt(buf, rest)
           fixed == SubSeq(buf, currPos + 11, rest)
           told == [name |-> n.out, type |-> t, ttl |-> U32(currPos + 4),
                    length |-> U16(currPos + 8), fixed |-> fixed,
                    host |-> IF HasHost(t) THEN host.text ELSE Nil]
<1>1. /\ InItem /\ section \in 1 .. 4 /\ n \in Naming /\ n.out \in Bytes /\ currPos \in Nat
  <2>1. InItem /\ section # 5 /\ Counted /\ sections \in Sections /\ n \in Naming /\ currPos \in Nat
    BY DEF Typed, InItem
  <2>2. section \in 1 .. 5
    BY <2>1, SectionFacts
  <2> QED BY <2>1, <2>2 DEF Naming
<1>2. /\ section = 1 =>
           /\ Has(4) /\ x.end = currPos + 4 /\ x.is = [name |-> n.out, type |-> t]
      /\ section # 1 =>
           /\ x = RecordAt(buf, Mark) /\ Has(10) /\ Has(10 + Width)
           /\ DataWidth(t) = Width /\ Width \in Nat /\ x.end = currPos + 10 + U16(currPos + 8)
           /\ x.is = told
           /\ Known(t) /\ HasHost(t) => host # None /\ host.end = x.end
           /\ Known(t) /\ ~HasHost(t) => x.end = rest
  BY MeansFields
<1> HIDE DEF x
<1>3. ~fieldsCut
  BY <1>2 DEF fieldsCut
<1>4. ASSUME readQuestion PROVE Understood'
  <2> DEFINE q == [name |-> n.out, type |-> t]
  <2>1. /\ section = 1 /\ Push(q) /\ currPos' = currPos + 4 /\ UNCHANGED <<buf, header, history>>
    BY <1>4 DEF readQuestion
  <2>2. q \in Kind(section)
    BY <1>4, <2>1, ItemTyped DEF Kind
  <2>3. q = x.is /\ currPos' = x.end
    BY <1>2, <2>1
  <2> HIDE DEF q
  <2> QED BY <1>1, <2>1, <2>2, <2>3, MeansPush DEF x
<1>5. ASSUME readUnknown PROVE Understood'
  <2>1. /\ InRecord /\ ~Known(t) /\ Push(Record) /\ section # 1
        /\ currPos' = currPos + 10 + U16(currPos + 8) /\ UNCHANGED <<buf, header, history>>
    BY <1>1, <1>5 DEF readUnknown, InRecord
  <2>2. Record \in Kind(section)
    BY <2>1, FixedFacts DEF Kind
  <2>3. Record = x.is
    <3>1. ~HasHost(t) /\ Width = 0
      BY <1>2, <2>1 DEF DataWidth, HasHost, Known, Fixed
    <3>2. fixed = Nil
      <4>1. rest = currPos + 10 /\ currPos + 10 < currPos + 11
        BY <1>1, <3>1
      <4> HIDE DEF rest
      <4>2. buf \in Seq(Nat)
        BY DEF Typed, Bytes
      <4> QED BY <1>1, <4>1, <4>2 DEF Nil
    <3> HIDE DEF fixed
    <3> QED BY <1>2, <2>1, <3>1, <3>2 DEF Record, Nil
  <2>4. currPos' = x.end
    BY <1>2, <2>1
  <2> QED BY <1>1, <2>1, <2>2, <2>3, <2>4, MeansPush DEF x
<1>6. ASSUME readKnown PROVE Understood'
  <2> DEFINE r == [Record EXCEPT !.fixed = SubSeq(buf, currPos + 11, currPos + 10 + Width)]
  <2>1. r \in Carried /\ r.type = t /\ Known(t) /\ section # 1
    BY <1>6, KnownFacts DEF readKnown, InRecord
  <2>2. /\ currPos' = rest /\ UNCHANGED <<buf, header, history>>
        /\ IF HasHost(t)
           THEN item' = r /\ n' = Name(currPos') /\ stage' = "host" /\ UNCHANGED sections
           ELSE Push(r) /\ UNCHANGED n
    BY <1>6, <2>1 DEF readKnown
  <2>3. r = [name |-> n.out, type |-> t, ttl |-> U32(currPos + 4),
             length |-> U16(currPos + 8), fixed |-> fixed, host |-> <<>>]
    <3> HIDE DEF fixed
    <3>1. Record = [name |-> n.out, type |-> t, ttl |-> U32(currPos + 4),
                    length |-> U16(currPos + 8), fixed |-> <<>>, host |-> <<>>]
      BY DEF Record
    <3>2. r = [Record EXCEPT !.fixed = fixed]
      BY DEF fixed
    <3> HIDE DEF t, r
    <3> QED BY <3>1, <3>2
  <2> HIDE DEF r
  <2>4. CASE ~HasHost(t)
    <3>1. r = x.is /\ currPos' = x.end
      <4> HIDE DEF fixed, host, t, rest
      <4> QED BY <1>2, <2>1, <2>2, <2>3, <2>4 DEF Nil
    <3>2. r \in Kind(section)
      BY <2>1 DEF Kind
    <3> QED BY <1>1, <2>2, <2>4, <3>1, <3>2, MeansPush DEF x
  <2>5. CASE HasHost(t)
    <3>1. /\ item' = r /\ n' = Name(rest) /\ stage' = "host"
          /\ UNCHANGED <<buf, header, sections, means>>
      BY <2>2, <2>5 DEF history
    <3>2. rest \in Nat /\ host # None /\ host.end = x.end
      BY <1>1, <1>2, <2>1, <2>5
    <3> HIDE DEF rest
    <3> PICK p \in Nat : p = rest
      BY <3>2
    <3>3. n' = Name(p) /\ Spells(Name(p), p, currPos')
      BY <3>1, <3>2, SpellsStart DEF Typed
    <3>4. Spells(n, p, currPos)'
      <4>1. buf' = buf /\ Size' = Size
        BY <3>1 DEF Size
      <4> QED BY <3>1, <3>3, <4>1 DEF Spells
    <3>5. [r EXCEPT !.host = host.text] = x.is
      <4> HIDE DEF fixed, host, t
      <4> QED BY <1>2, <2>1, <2>3, <2>5
    <3>6. Gathered' = Gathered /\ Mark' = Mark
      BY <3>1, GatheredSame
    <3>7. Gathered /\ WellFormed(buf) /\ means = Said(buf)
      BY DEF Understood, Heard
    <3>8. WellFormed(buf') /\ means' = Said(buf')
      BY <3>1, <3>7
    <3>9. /\ [item' EXCEPT !.host = NameAt(buf', p).text] = RecordAt(buf', Mark').is
          /\ NameAt(buf', p).end = RecordAt(buf', Mark').end
      <4>1. buf' = buf /\ item' = r /\ x = RecordAt(buf, Mark) /\ host = NameAt(buf, p)
        BY <1>2, <2>1, <3>1
      <4> HIDE DEF host
      <4> QED BY <3>2, <3>5, <3>6, <4>1
    <3> QED BY <3>1, <3>2, <3>4, <3>6, <3>7, <3>8, <3>9 DEF Understood
  <2> QED BY <2>4, <2>5
<1> QED BY <1>3, <1>4, <1>5, <1>6

LEMMA UnderstoodStep == Typed /\ Understood /\ [Next]_vars => Understood'
<1> SUFFICES ASSUME Typed, Understood, [Next]_vars, Heard' PROVE Understood'
  BY DEF Understood, Heard
<1>1. CASE write
  <2>1. first' # <<>>
    BY <1>1, WriteFacts
  <2> QED BY <2>1 DEF Heard
<1>2. CASE UNCHANGED vars
  <2>1. UNCHANGED <<buf, currPos, stage, n, item, header, sections, first, means>>
    BY <1>2 DEF vars, packet, history
  <2>2. Gathered' = Gathered /\ Mark' = Mark /\ Size' = Size
    BY <2>1, GatheredSame DEF Size
  <2>3. Understood' = Understood
    BY <2>1, <2>2 DEF Understood, Spells
  <2> QED BY <2>3
<1> SUFFICES ASSUME Step, ~write PROVE Understood'
  BY <1>1, <1>2 DEF Next, Over
<1>3. UNCHANGED <<first, means>> /\ Heard
  <2>1. UNCHANGED <<first, means>>
    BY DEF Step, readHeader, nextItem, allRead, jumpLimit, endOfBuffer, jump, label, endName,
       readQuestion, readUnknown, readKnown, fieldsCut, Throw, history
  <2> QED BY <2>1 DEF Heard
<1>4. CASE readHeader
  <2>1. WellFormed(buf) /\ means = Said(buf)
    BY <1>3 DEF Understood, Heard
  <2>2. Gathered' /\ currPos' = Mark'
    BY <1>4, <2>1, MeansHeader
  <2>3. stage' = "item" /\ buf' = buf
    BY <1>4 DEF readHeader
  <2> QED BY <1>3, <2>1, <2>2, <2>3 DEF Understood
<1>5. CASE jumpLimit \/ endOfBuffer \/ jump \/ label
  <2>1. Reading
    BY <1>5 DEF jumpLimit, endOfBuffer, jump, label, Turn
  <2> QED BY <1>3, <1>5, <2>1, MeansTurn
<1>6. CASE readQuestion \/ readUnknown \/ readKnown \/ fieldsCut
  <2>1. stage = "fields"
    BY <1>6 DEF readQuestion, readUnknown, readKnown, fieldsCut, InRecord
  <2> QED BY <1>3, <1>6, <2>1, MeansItem
<1> QED BY <1>3, <1>4, <1>5, <1>6, MeansNext, MeansDone, MeansEnd DEF Step

\* A well-formed message is never refused, and what is read of it is what RFC 1035
\* says it means: whatever its names, pointers and records, in a buffer of any size.
THEOREM MeaningKept == Spec => []ReadAsMeant
<1>1. ASSUME Typed, Understood PROVE ReadAsMeant
  <2> SUFFICES ASSUME Heard PROVE stage # "threw" /\ (stage = "done" => sections = means)
    BY DEF ReadAsMeant, Heard
  <2>1. stage # "threw" /\ means = Said(buf)
    BY <1>1 DEF Understood, Heard
  <2>2. ASSUME stage = "done" PROVE sections = means
    <3>1. Gathered /\ \A s \in 1 .. 4 : Len(sections[s]) = header.counts[s]
      BY <1>1, <2>2 DEF Understood, Heard
    <3>2. \A s \in 1 .. 4 : sections[s] \in Seq(Question \cup Carried)
      BY <1>1 DEF Typed, Sections
    <3>3. \A s \in 1 .. 4 : Len(sections[s]) = Count(buf, s)
      BY <3>1 DEF Gathered
    <3> DEFINE said(s, i) == ItemAt(buf, Before(buf, s) + i, Ends(buf)[Before(buf, s) + i - 1]).is
    <3>4. Said(buf) = [s \in 1 .. 4 |-> [i \in 1 .. Count(buf, s) |-> said(s, i)]]
      BY DEF Said
    <3> HIDE DEF said
    <3>5. ASSUME NEW s \in 1 .. 4 PROVE sections[s] = Said(buf)[s]
      <4>1. sections[s] = [i \in 1 .. Count(buf, s) |-> sections[s][i]]
        BY <3>2, <3>3
      <4>2. Said(buf)[s] = [i \in 1 .. Count(buf, s) |-> said(s, i)]
        BY <3>4
      <4>3. \A i \in 1 .. Count(buf, s) : sections[s][i] = Said(buf)[s][i]
        BY <3>1, <3>3 DEF Gathered
      <4> QED BY <4>1, <4>2, <4>3
    <3>6. sections = [s \in 1 .. 4 |-> sections[s]]
      BY <1>1 DEF Typed, Sections
    <3>7. Said(buf) = [s \in 1 .. 4 |-> Said(buf)[s]]
      BY <3>4
    <3> QED BY <2>1, <3>5, <3>6, <3>7
  <2> QED BY <2>1, <2>2
<1> QED BY <1>1, UnderstoodInit, UnderstoodStep, AlwaysTyped, PTL DEF Spec

=============================================================================
