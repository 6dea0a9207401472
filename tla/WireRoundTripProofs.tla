------------------------ MODULE WireRoundTripProofs ------------------------
(***************************************************************************)
(* What was written is read back: proofs of PassedOn and LengthsTrue of    *)
(* WireFormat, for any bytes read first.                                   *)
(*                                                                         *)
(* 1. Reads(p, a, t): from p on the buffer holds the bytes a and then t.   *)
(*    What is read of a name, a question, a record or a header that lies   *)
(*    ahead is what was written (NameAhead, AskingAhead, FieldsAhead,      *)
(*    HeaderAhead).  A name is one label and a shorter name (NameSplit),   *)
(*    which a turn of readQName takes off (SpellLabel).                    *)
(* 2. Proper: what the first reading leaves can be written and read back,  *)
(*    its flags, codes and counts have their range and its records of      *)
(*    known types the fixed data of their type.                            *)
(* 3. Tracks: the second reading is at a place of what was sent.  What it  *)
(*    has read and what lies ahead make up the questions and the records   *)
(*    of known types that were sent (Left); behind them are zeros, which   *)
(*    read as blank records until the counts are met or the buffer ends.   *)
(***************************************************************************)
EXTENDS WireFormatProofs

(***************************************************************************)
(* Bytes in the buffer.                                                    *)
(***************************************************************************)
\* From position p on, the buffer holds the bytes a and then t.
Rest(p) == SubSeq(buf, p + 1, Len(buf))
Reads(p, a, t) == p \in Nat /\ p <= Size /\ a \in Bytes /\ t \in Bytes /\ Rest(p) = Join(a, t)

LEMMA RestNat ==
  ASSUME buf \in Bytes, NEW p \in Nat, p <= Size
  PROVE  /\ Rest(p) \in Bytes /\ Length(Rest(p)) = Size - p
         /\ \A i \in 1 .. Size - p : Rest(p)[i] = Get(p + i - 1)
         /\ \A k \in 0 .. Size - p : SubSeq(Rest(p), 1, k) = SubSeq(buf, p + 1, p + k)
         /\ \A k \in 0 .. Size - p : Rest(p + k) = SubSeq(Rest(p), k + 1, Size - p)
<1> DEFINE N == Len(buf)
           r == SubSeq(buf, p + 1, N)
<1>1. N \in Nat /\ p <= N /\ Size = N
  BY DEF Bytes, Size
<1>2. r \in Seq(Nat) /\ Len(r) = N - p
  BY <1>1 DEF Bytes
<1>3. \A i \in 1 .. N - p : r[i] = buf[p + i]
  BY <1>1 DEF Bytes
<1>4. \A i \in 1 .. N - p : p + i - 1 + 1 = p + i
  BY <1>1
<1>5. ASSUME NEW k \in 0 .. N - p PROVE SubSeq(r, 1, k) = SubSeq(buf, p + 1, p + k)
  BY <1>1 DEF Bytes
<1>6. ASSUME NEW k \in 0 .. N - p PROVE SubSeq(buf, p + k + 1, N) = SubSeq(r, k + 1, N - p)
  BY <1>1 DEF Bytes
<1> QED BY <1>1, <1>2, <1>3, <1>4, <1>5, <1>6 DEF Rest, Get, Bytes, Length

LEMMA JoinParts ==
  ASSUME NEW a \in Bytes, NEW t \in Bytes
  PROVE  /\ \A i \in 1 .. Length(a) : Join(a, t)[i] = a[i]
         /\ SubSeq(Join(a, t), 1, Length(a)) = a
         /\ SubSeq(Join(a, t), Length(a) + 1, Length(a) + Length(t)) = t
<1>1. SubSeq(a \o t, 1, Len(a)) = a
  BY DEF Bytes
<1>2. SubSeq(a \o t, Len(a) + 1, Len(a) + Len(t)) = t
  BY DEF Bytes
<1>3. \A i \in 1 .. Len(a) : (a \o t)[i] = a[i]
  BY DEF Bytes
<1> QED BY <1>1, <1>2, <1>3 DEF Join, Length

\* What can be read at p, and what is left behind it.
LEMMA ReadsFacts ==
  ASSUME buf \in Bytes, NEW p, NEW a, NEW t, Reads(p, a, t)
  PROVE  /\ p + Length(a) <= Size /\ p + Length(a) \in Nat
         /\ Length(a) \in Nat /\ Length(t) \in Nat
         /\ \A i \in 1 .. Length(a) : Get(p + i - 1) = a[i]
         /\ SubSeq(buf, p + 1, p + Length(a)) = a
         /\ Rest(p + Length(a)) = t
<1>1. /\ Join(a, t) \in Bytes /\ Length(Join(a, t)) = Length(a) + Length(t)
      /\ Length(a) \in Nat /\ Length(t) \in Nat
      /\ p \in Nat /\ p <= Size /\ Size \in Nat
  <2>1. Size \in Nat
    BY DEF Size, Bytes
  <2>2. Length(t) \in Nat
    BY DEF Reads, Bytes, Length
  <2> QED BY <2>1, <2>2, Joined DEF Reads
<1>2. Length(a) + Length(t) = Size - p
  BY <1>1, RestNat DEF Reads
<1> DEFINE k == Length(a)
<1>3. k \in 0 .. Size - p /\ k + Length(t) = Size - p
  BY <1>1, <1>2
<1> HIDE DEF k
<1>4. /\ \A i \in 1 .. Size - p : Join(a, t)[i] = Get(p + i - 1)
      /\ SubSeq(Join(a, t), 1, k) = SubSeq(buf, p + 1, p + k)
      /\ Rest(p + k) = SubSeq(Join(a, t), k + 1, Size - p)
  BY <1>1, <1>3, RestNat DEF Reads
<1>5. /\ \A i \in 1 .. k : Join(a, t)[i] = a[i]
      /\ SubSeq(Join(a, t), 1, k) = a
      /\ SubSeq(Join(a, t), k + 1, k + Length(t)) = t
  BY JoinParts DEF Reads, k
<1>6. ASSUME NEW i \in 1 .. k PROVE Get(p + i - 1) = a[i]
  <2>1. i \in 1 .. Size - p
    <3> HIDE DEF Size
    <3> QED BY <1>1, <1>3
  <2>2. Join(a, t)[i] = Get(p + i - 1) /\ Join(a, t)[i] = a[i]
    BY <1>4, <1>5, <2>1
  <2> QED BY <2>2
<1>7. SubSeq(buf, p + 1, p + k) = a
  BY <1>4, <1>5
<1>8. Rest(p + k) = t
  <2>1. SubSeq(Join(a, t), k + 1, Size - p) = SubSeq(Join(a, t), k + 1, k + Length(t))
    BY <1>3
  <2> QED BY <1>4, <1>5, <2>1
<1>9. p + k <= Size /\ p + k \in Nat
  BY <1>1, <1>3
<1> QED BY <1>1, <1>6, <1>7, <1>8, <1>9 DEF k

\* Reading on behind a.
LEMMA ReadsOn ==
  ASSUME buf \in Bytes, NEW p, NEW a \in Bytes, NEW b \in Bytes, NEW t \in Bytes,
         Reads(p, Join(a, b), t)
  PROVE  Reads(p, a, Join(b, t)) /\ Reads(p + Length(a), b, t)
<1>1. Reads(p, a, Join(b, t))
  <2>1. Join(b, t) \in Bytes
    <3>1. Length(t) \in Nat
      BY DEF Length, Bytes
    <3> QED BY Joined
  <2>2. Join(Join(a, b), t) = Join(a, Join(b, t))
    BY Assoc
  <2> QED BY <2>1, <2>2 DEF Reads
<1>2. /\ p + Length(a) <= Size /\ p + Length(a) \in Nat
      /\ Rest(p + Length(a)) = Join(b, t)
  BY <1>1, ReadsFacts
<1> QED BY <1>1, <1>2 DEF Reads

\* A number is read as it was written.
LEMMA ReadU16 ==
  ASSUME buf \in Bytes, NEW p, NEW v \in Nat, NEW t, Reads(p, W16(v), t)
  PROVE  U16(p) = v /\ p \in Nat /\ p + 2 <= Size /\ Rest(p + 2) = t
<1>1. Length(W16(v)) = 2 /\ W16(v)[1] = v \div 256 /\ W16(v)[2] = v % 256
  BY DEF W16, Length
<1>2. p \in Nat /\ p + 1 - 1 = p /\ p + 2 - 1 = p + 1
  BY DEF Reads
<1>3. /\ p + 2 <= Size /\ Rest(p + 2) = t
      /\ Get(p + 1 - 1) = v \div 256 /\ Get(p + 2 - 1) = v % 256
  <2> DEFINE w == W16(v)
  <2>1. Length(w) = 2 /\ Reads(p, w, t) /\ w[1] = v \div 256 /\ w[2] = v % 256
    BY <1>1
  <2> HIDE DEF w
  <2>2. 1 \in 1 .. Length(w) /\ 2 \in 1 .. Length(w)
    BY <2>1
  <2> QED BY <2>1, <2>2, ReadsFacts
<1>4. U16(p) = 256 * (v \div 256) + (v % 256)
  BY <1>2, <1>3 DEF U16
<1>5. 256 * (v \div 256) + (v % 256) = v
  OBVIOUS
<1> QED BY <1>2, <1>3, <1>4, <1>5

LEMMA ReadU32 ==
  ASSUME buf \in Bytes, NEW p, NEW v \in Nat, NEW t \in Bytes, Reads(p, W32(v), t)
  PROVE  U32(p) = v /\ p \in Nat /\ p + 4 <= Size /\ Rest(p + 4) = t
<1> DEFINE x == v \div 65536
           y == v % 65536
<1>1. x \in Nat /\ y \in Nat /\ 65536 * x + y = v
  OBVIOUS
<1>2. W32(v) = Join(W16(x), W16(y))
  BY DEF W32, Join
<1> HIDE DEF x, y
<1>3. W16(x) \in Bytes /\ W16(y) \in Bytes /\ Length(W16(x)) = 2
  BY <1>1, W16Facts
<1>4. Reads(p, W16(x), Join(W16(y), t)) /\ Reads(p + 2, W16(y), t)
  BY <1>2, <1>3, ReadsOn
<1>5. U16(p) = x /\ p \in Nat
  BY <1>1, <1>4, ReadU16
<1>6. U16(p + 2) = y /\ p + 2 + 2 <= Size /\ Rest(p + 2 + 2) = t
  BY <1>1, <1>4, ReadU16
<1>7. p + 2 + 2 = p + 4
  BY <1>5
<1> QED BY <1>1, <1>5, <1>6, <1>7 DEF U32

-----------------------------------------------------------------------------
(***************************************************************************)
(* Names in place.                                                         *)
(***************************************************************************)
\* e bytes from i on are a token: no dot, and a dot or the end behind them.
Token(s, i, e) ==
  /\ i + e - 1 <= Len(s) /\ \A d \in i .. i + e - 1 : s[d] # Dot
  /\ i + e = Len(s) + 1 \/ s[i + e] = Dot

LEMMA TokenSize ==
  ASSUME NEW s \in Bytes, NEW i \in 1 .. Len(s) + 1, NEW e \in Nat, Token(s, i, e)
  PROVE  labelSize(s, i) = e
<1> DEFINE T == {j \in i .. Len(s) : \A d \in i .. j : s[d] # Dot}
<1>1. Len(s) \in Nat /\ i \in Nat /\ i + e - 1 \in Int
  BY DEF Bytes
<1>2. ASSUME NEW j \in T PROVE j \in i .. i + e - 1
  <2>1. j \in Int /\ j >= i /\ j <= Len(s) /\ \A d \in i .. j : s[d] # Dot
    BY <1>1, <1>2
  <2>2. ASSUME j > i + e - 1 PROVE FALSE
    <3>1. i + e \in i .. j /\ i + e # Len(s) + 1
      BY <1>1, <2>1, <2>2
    <3> QED BY <2>1, <3>1 DEF Token
  <2> QED BY <1>1, <2>1, <2>2
<1>3. ASSUME NEW j \in i .. i + e - 1 PROVE j \in T
  <2>1. j \in i .. Len(s)
    BY <1>1, <1>3 DEF Token
  <2>2. \A d \in i .. j : d \in i .. i + e - 1
    BY <1>1, <1>3
  <2> QED BY <2>1, <2>2 DEF Token
<1>4. T = i .. i + e - 1
  BY <1>2, <1>3
<1>5. Cardinality(i .. i + e - 1) = e
  BY <1>1, FS_Interval
<1> QED BY <1>4, <1>5 DEF labelSize

LEMMA TokenThere ==
  ASSUME NEW s \in Bytes, NEW i \in 1 .. Len(s) + 1
  PROVE  Token(s, i, labelSize(s, i)) /\ labelSize(s, i) \in Nat
<1> DEFINE T == {e \in Nat : i + e = Len(s) + 1 \/ (i + e <= Len(s) /\ s[i + e] = Dot)}
<1>1. Len(s) \in Nat /\ i \in Nat
  BY DEF Bytes
<1>2. Len(s) + 1 - i \in T
  BY <1>1
<1>3. PICK e \in T : \A f \in T : e <= f
  <2> HIDE DEF T
  <2>1. T \subseteq Nat
    BY DEF T
  <2> QED BY <1>2, <2>1, LeastNat
<1>4. e \in Nat /\ e <= Len(s) + 1 - i
  BY <1>2, <1>3
<1>5. ASSUME NEW d \in i .. i + e - 1 PROVE s[d] # Dot
  <2>1. d - i \in Nat /\ i + (d - i) = d /\ ~(e <= d - i) /\ d <= Len(s)
    BY <1>1, <1>4, <1>5
  <2> QED BY <1>3, <2>1
<1>6. Token(s, i, e)
  BY <1>1, <1>3, <1>4, <1>5 DEF Token
<1> QED BY <1>4, <1>6, TokenSize

\* A name that readQName reads back as it is.
Writable(s) == s \in Bytes /\ NormalName(s) /\ ~LongLabel(s)

FirstSize(s) == labelSize(s, 1)
FirstLabel(s) == SubSeq(s, 1, FirstSize(s))
AfterFirst(s) == SubSeq(s, FirstSize(s) + 2, Len(s))

LEMMA FirstFacts ==
  ASSUME NEW s, Writable(s), s # Nil
  PROVE  LET k == FirstSize(s)
             N == Len(s)
         IN  /\ N \in Nat /\ k \in 1 .. N /\ k <= 63
             /\ \A d \in 1 .. k : s[d] # Dot
             /\ s[N] # Dot
             /\ k = N \/ (k + 1 < N /\ s[k + 1] = Dot)
<1> DEFINE k == FirstSize(s)
           N == Len(s)
<1>1. s \in Bytes /\ N \in Nat /\ N >= 1
  BY DEF Writable, Nil, Bytes
<1>2. 1 \in splitString(s)
  BY <1>1 DEF splitString, Bytes
<1>3. k > 0 /\ s[N] # Dot
  BY <1>2 DEF Writable, NormalName, Nil, Last, FirstSize
<1>4. k <= maxLabel /\ maxLabel <= 63 /\ maxLabel \in Nat
  <2>1. ~(k > maxLabel)
    BY <1>2 DEF Writable, LongLabel, FirstSize
  <2>2. k \in Nat
    BY <1>1, TokenThere DEF FirstSize
  <2> HIDE DEF k
  <2> QED BY <2>1, <2>2, WireAssumption
<1>5. Token(s, 1, k) /\ k \in Nat
  BY <1>1, TokenThere DEF FirstSize
<1> HIDE DEF k
<1>6. k <= N /\ (\A d \in 1 .. k : s[d] # Dot) /\ (k = N \/ s[k + 1] = Dot)
  <2>1. 1 + k - 1 = k /\ 1 + k = k + 1
    BY <1>5
  <2> QED BY <1>1, <1>5, <2>1 DEF Token
<1>7. s[k + 1] = Dot => k + 1 # N
  BY <1>3
<1>8. k = N \/ (k + 1 < N /\ s[k + 1] = Dot)
  BY <1>1, <1>5, <1>6, <1>7
<1> QED BY <1>1, <1>3, <1>4, <1>5, <1>6, <1>8 DEF k

\* Behind the first dot the tokens are those of the rest.
LEMMA RestTokens ==
  ASSUME NEW s, Writable(s), s # Nil, FirstSize(s) # Len(s)
  PROVE  LET k == FirstSize(s)
             r == AfterFirst(s)
         IN  /\ r \in Bytes /\ Len(r) = Len(s) - k - 1 /\ Len(r) >= 1
             /\ \A j \in 1 .. Len(r) : r[j] = s[k + 1 + j]
             /\ \A j \in 1 .. Len(r) : /\ j \in splitString(r) <=> k + 1 + j \in splitString(s)
                                       /\ labelSize(r, j) = labelSize(s, k + 1 + j)
             /\ Writable(r)
<1> DEFINE k == FirstSize(s)
           N == Len(s)
           r == AfterFirst(s)
           M == Len(r)
<1>1. s \in Bytes /\ N \in Nat /\ k \in 1 .. N /\ k + 1 < N /\ s[k + 1] = Dot /\ s[N] # Dot
      /\ k \in Nat
  BY FirstFacts DEF Writable
<1>2. r = SubSeq(s, k + 2, N)
  BY DEF AfterFirst
<1> HIDE DEF k, N, r
<1>3. r \in Bytes /\ M = N - k - 1 /\ M \in Nat /\ M >= 1
  BY <1>1, <1>2 DEF Bytes, N
<1>4. ASSUME NEW j \in 1 .. M PROVE r[j] = s[k + 1 + j]
  BY <1>1, <1>2, <1>3 DEF Bytes, N
<1> HIDE DEF M
<1>5. ASSUME NEW j \in 1 .. M
      PROVE  /\ j \in splitString(r) <=> k + 1 + j \in splitString(s)
             /\ labelSize(r, j) = labelSize(s, k + 1 + j)
  <2>1. k + 1 + j \in 1 .. N /\ k + 1 + j # 1 /\ k + 1 + j - 1 = k + j
    BY <1>1, <1>3
  <2>2. DOMAIN s = 1 .. N /\ DOMAIN r = 1 .. M
    BY <1>1, <1>3 DEF Bytes, N, M
  <2>3. k + 1 + j \in splitString(s) <=> s[k + j] = Dot
    <3> DEFINE i == k + 1 + j
    <3>1. i \in 1 .. N /\ i # 1 /\ i - 1 = k + j
      BY <1>1, <1>3, <2>1
    <3> HIDE DEF i
    <3>2. i \in splitString(s) <=> s[i - 1] = Dot
      BY <2>2, <3>1 DEF splitString
    <3> QED BY <3>1, <3>2 DEF i
  <2>4. j # 1 => r[j - 1] = s[k + j]
    <3>1. j # 1 => j - 1 \in 1 .. M /\ k + 1 + (j - 1) = k + j
      BY <1>1, <1>3
    <3> QED BY <1>4, <3>1
  <2>5. j \in splitString(r) <=> (j = 1 \/ r[j - 1] = Dot)
    BY <2>2 DEF splitString
  <2>6. j \in splitString(r) <=> s[k + j] = Dot
    BY <1>1, <2>4, <2>5
  <2> DEFINE e == labelSize(r, j)
  <2>7. e \in Nat /\ Token(r, j, e)
    <3>1. j \in 1 .. Len(r) + 1
      BY <1>3 DEF M
    <3> QED BY <1>3, <3>1, TokenThere
  <2> HIDE DEF e
  <2>8. j + e - 1 <= M /\ (\A d \in j .. j + e - 1 : r[d] # Dot) /\ (j + e = M + 1 \/ r[j + e] = Dot)
    BY <2>7 DEF Token, M
  <2>9. Token(s, k + 1 + j, e)
    <3>1. k + 1 + j + e - 1 <= N
      BY <1>1, <1>3, <2>7, <2>8
    <3>2. ASSUME NEW d \in k + 1 + j .. k + 1 + j + e - 1 PROVE s[d] # Dot
      <4>1. d - k - 1 \in j .. j + e - 1 /\ d - k - 1 \in 1 .. M /\ k + 1 + (d - k - 1) = d
        BY <1>1, <1>3, <2>7, <2>8
      <4> QED BY <1>4, <2>8, <4>1
    <3>3. k + 1 + j + e = N + 1 \/ s[k + 1 + j + e] = Dot
      <4>1. CASE j + e = M + 1
        BY <1>1, <1>3, <2>7, <4>1
      <4>2. CASE j + e # M + 1
        <5>1. j + e \in 1 .. M /\ k + 1 + (j + e) = k + 1 + j + e
          BY <1>1, <1>3, <2>7, <2>8, <4>2
        <5> QED BY <1>4, <2>8, <4>2, <5>1
      <4> QED BY <4>1, <4>2
    <3> QED BY <3>1, <3>2, <3>3 DEF Token, N
  <2>10. labelSize(s, k + 1 + j) = e
    <3>1. k + 1 + j \in 1 .. Len(s) + 1
      BY <1>1, <2>1 DEF N
    <3> QED BY <1>1, <2>7, <2>9, <3>1, TokenSize
  <2> QED BY <2>3, <2>6, <2>10 DEF e
<1>6. Writable(r)
  <2>1. DOMAIN r = 1 .. M /\ splitString(r) \subseteq 1 .. M
    BY <1>3 DEF Bytes, M, splitString
  <2>2. \A j \in splitString(r) :
          k + 1 + j \in splitString(s) /\ labelSize(r, j) = labelSize(s, k + 1 + j)
    BY <1>5, <2>1
  <2>3. NormalName(s) /\ ~LongLabel(s) /\ s # <<>>
    BY DEF Writable, Nil
  <2>4. Last(r) # Dot
    <3>1. M \in 1 .. M /\ k + 1 + M = N
      BY <1>1, <1>3
    <3> QED BY <1>1, <1>4, <3>1 DEF Last, M
  <2>5. NormalName(r)
    BY <2>2, <2>3, <2>4 DEF NormalName
  <2>6. ~LongLabel(r)
    BY <2>2, <2>3 DEF LongLabel
  <2> QED BY <1>3, <2>5, <2>6 DEF Writable
<1> QED BY <1>3, <1>4, <1>5, <1>6 DEF k, N, r, M

LEMMA JoinAt ==
  ASSUME NEW a \in Bytes, NEW t \in Bytes
  PROVE  /\ \A i \in 1 .. Length(a) : Join(a, t)[i] = a[i]
         /\ \A j \in 1 .. Length(t) : Join(a, t)[Length(a) + j] = t[j]
<1>1. \A i \in 1 .. Len(a) : (a \o t)[i] = a[i]
  BY DEF Bytes
<1>2. ASSUME NEW j \in 1 .. Len(t) PROVE (a \o t)[Len(a) + j] = t[j]
  BY DEF Bytes
<1> QED BY <1>1, <1>2 DEF Join, Length

LEMMA SameBytes ==
  ASSUME NEW a \in Bytes, NEW b \in Bytes, Length(a) = Length(b),
         \A i \in 1 .. Length(a) : a[i] = b[i]
  PROVE  a = b
BY DEF Bytes, Length

\* The first label of a name with its length, and the rest.
LEMMA NameSplit ==
  ASSUME NEW s, Writable(s), s # Nil
  PROVE  LET k == FirstSize(s)
             lab == FirstLabel(s)
             r == AfterFirst(s)
         IN  /\ k \in 1 .. 63 /\ lab \in Bytes /\ Length(lab) = k /\ Writable(r)
             /\ Len(r) < Len(s)
             /\ s = IF r = Nil THEN lab ELSE Join(Join(lab, <<Dot>>), r)
             /\ Labels(s) = Join(Join(<<k>>, lab), Labels(r))
             /\ Labels(s) \in Bytes /\ Labels(r) \in Bytes
<1> DEFINE k == FirstSize(s)
           N == Len(s)
           lab == FirstLabel(s)
           r == AfterFirst(s)
<1>1. /\ s \in Bytes /\ N \in Nat /\ k \in 1 .. N /\ k <= 63 /\ s[N] # Dot /\ k \in Nat
      /\ \A d \in 1 .. k : s[d] # Dot
      /\ k = N \/ (k + 1 < N /\ s[k + 1] = Dot)
  BY FirstFacts DEF Writable
<1>2. lab = SubSeq(s, 1, k) /\ r = SubSeq(s, k + 2, N)
  BY DEF FirstLabel, AfterFirst
<1>3. Labels(s) = [i \in 1 .. N + 1 |-> IF i \in splitString(s) THEN labelSize(s, i) ELSE s[i - 1]]
  BY <1>1 DEF Labels, Nil
<1>4. labelSize(s, 1) = k /\ DOMAIN s = 1 .. N /\ 1 \in splitString(s)
  BY <1>1 DEF FirstSize, splitString, Bytes
<1> HIDE DEF k, N, lab, r
<1>5. lab \in Bytes /\ Length(lab) = k /\ \A i \in 1 .. k : lab[i] = s[i]
  BY <1>1, <1>2 DEF Bytes, Length, N
<1>6. <<k>> \in Bytes /\ Length(<<k>>) = 1
  BY <1>1 DEF Bytes, Length
<1> DEFINE h == Join(<<k>>, lab)
<1>7. h \in Bytes /\ Length(h) = k + 1 /\ h[1] = k /\ \A i \in 1 .. k : h[i + 1] = s[i]
  <2>1. h \in Bytes /\ Length(h) = k + 1
    BY <1>1, <1>5, <1>6, Joined
  <2>2. h[1] = k /\ \A i \in 1 .. k : h[i + 1] = lab[i]
    BY <1>1, <1>5 DEF Join, Bytes, Length
  <2> QED BY <1>5, <2>1, <2>2
<1> HIDE DEF h
<1>8. ASSUME NEW i \in 1 .. k + 1 PROVE Labels(s)[i] = h[i]
  <2>1. i \in 1 .. N + 1
    BY <1>1
  <2>2. CASE i = 1
    BY <1>3, <1>4, <1>7, <2>1, <2>2
  <2>3. CASE i # 1
    <3> DEFINE j == i - 1
    <3>1. j \in 1 .. k /\ j + 1 = i
      BY <1>1, <2>3
    <3>2. s[j] # Dot /\ h[i] = s[j]
      BY <1>1, <1>7, <3>1
    <3>3. i \notin splitString(s)
      BY <2>3, <3>2 DEF splitString
    <3>4. Labels(s)[i] = s[i - 1]
      BY <1>3, <2>1, <3>3
    <3> QED BY <3>2, <3>4
  <2> QED BY <2>2, <2>3
<1>9. Labels(s) \in Bytes /\ Length(Labels(s)) = N + 1
  <2>1. \A i \in 1 .. N + 1 : Labels(s)[i] \in Nat
    <3>1. ASSUME NEW i \in 1 .. N + 1
          PROVE  (IF i \in splitString(s) THEN labelSize(s, i) ELSE s[i - 1]) \in Nat
      <4>1. labelSize(s, i) \in Nat
        BY <1>1, LabelSizeNat
      <4>2. i # 1 => i - 1 \in 1 .. N
        BY <1>1
      <4>3. i # 1 => s[i - 1] \in Nat
        BY <1>1, <1>4, <4>2 DEF Bytes
      <4> QED BY <1>4, <4>1, <4>3
    <3> QED BY <1>3, <3>1
  <2> QED BY <1>1, <1>3, <2>1 DEF Bytes, Length
<1>10. CASE k = N
  <2>1. r = Nil /\ lab = s
    BY <1>1, <1>2, <1>10 DEF Bytes, Nil, N
  <2>2. Labels(r) = Nil
    BY <2>1 DEF Labels, Nil
  <2>3. Labels(s) = h
    BY <1>7, <1>8, <1>9, <1>10, SameBytes
  <2>4. Labels(s) = Join(h, Labels(r)) /\ Nil \in Bytes
    BY <1>7, <2>2, <2>3, JoinNil
  <2>5. Writable(r)
    BY <2>1, <2>4 DEF Writable, NormalName, LongLabel, splitString, Nil
  <2>6. Len(r) < N
    BY <1>1, <2>1 DEF Nil
  <2>7. Labels(s) = Join(Join(<<k>>, lab), Labels(r))
    BY <2>4 DEF h
  <2>8. k \in 1 .. 63 /\ Len(r) < Len(s)
    BY <1>1, <2>6 DEF N
  <2>9. Labels(r) \in Bytes /\ s = IF r = Nil THEN lab ELSE Join(Join(lab, <<Dot>>), r)
    BY <2>1, <2>2, <2>4
  <2>10. /\ k \in 1 .. 63 /\ lab \in Bytes /\ Length(lab) = k /\ Writable(r)
         /\ Len(r) < Len(s)
         /\ s = IF r = Nil THEN lab ELSE Join(Join(lab, <<Dot>>), r)
         /\ Labels(s) = Join(Join(<<k>>, lab), Labels(r))
         /\ Labels(s) \in Bytes /\ Labels(r) \in Bytes
    BY <1>5, <1>9, <2>5, <2>7, <2>8, <2>9
  <2> QED BY <2>10 DEF k, lab, r
<1>11. CASE k # N
  <2>1. /\ r \in Bytes /\ Len(r) = N - k - 1 /\ Len(r) >= 1 /\ Writable(r)
        /\ \A j \in 1 .. Len(r) : r[j] = s[k + 1 + j]
        /\ \A j \in 1 .. Len(r) : /\ j \in splitString(r) <=> k + 1 + j \in splitString(s)
                                  /\ labelSize(r, j) = labelSize(s, k + 1 + j)
    BY <1>11, RestTokens DEF k, N, r
  <2> DEFINE M == Len(r)
  <2>2. r # Nil /\ M \in Nat /\ M = N - k - 1
    BY <1>1, <2>1 DEF Nil
  <2>3. r[M] = s[N] /\ s[k + 1] = Dot
    <3>1. M \in 1 .. M /\ k + 1 + M = N
      BY <1>1, <2>1, <2>2
    <3> QED BY <1>1, <1>11, <2>1, <3>1
  <2>4. Labels(r) = [j \in 1 .. M + 1 |-> IF j \in splitString(r) THEN labelSize(r, j) ELSE r[j - 1]]
    BY <1>1, <2>2, <2>3 DEF Labels, Nil
  <2> HIDE DEF M
  <2>5. ASSUME NEW j \in 1 .. M + 1 PROVE Labels(r)[j] = Labels(s)[k + 1 + j]
    <3> DEFINE i == k + 1 + j
    <3>1. i \in 1 .. N + 1 /\ i # 1 /\ i - 1 = k + j
      BY <1>1, <2>2
    <3>2. DOMAIN r = 1 .. M
      BY <2>1 DEF Bytes, M
    <3> HIDE DEF i
    <3>3. j \in splitString(r) <=> i \in splitString(s)
      <4>1. CASE j \in 1 .. M
        BY <2>1, <4>1 DEF i, M
      <4>2. CASE j = M + 1
        BY <1>1, <1>4, <2>2, <3>2, <4>2 DEF splitString, i
      <4> QED BY <2>2, <4>1, <4>2
    <3>4. j \in splitString(r) => labelSize(r, j) = labelSize(s, i)
      BY <2>1, <3>2 DEF i, M, splitString
    <3>5. j \notin splitString(r) => r[j - 1] = s[i - 1]
      <4>1. 1 \in splitString(r)
        BY <2>2, <2>1, <3>2 DEF splitString, M
      <4>2. j # 1 => j - 1 \in 1 .. M /\ k + 1 + (j - 1) = k + j
        BY <1>1, <2>2
      <4>3. j # 1 => r[j - 1] = s[k + j]
        BY <2>1, <4>2 DEF M
      <4> QED BY <3>1, <4>1, <4>3
    <3>6. Labels(r)[j] = IF j \in splitString(r) THEN labelSize(r, j) ELSE r[j - 1]
      BY <2>4
    <3>7. Labels(s)[i] = IF i \in splitString(s) THEN labelSize(s, i) ELSE s[i - 1]
      BY <1>3, <3>1
    <3> QED BY <3>3, <3>4, <3>5, <3>6, <3>7 DEF i
  <2>6. Labels(r) \in Bytes /\ Length(Labels(r)) = M + 1
    <3>1. \A j \in 1 .. M + 1 : Labels(r)[j] \in Nat
      <4>1. \A j \in 1 .. M + 1 : k + 1 + j \in 1 .. N + 1
        BY <1>1, <2>2
      <4>2. \A i \in 1 .. N + 1 : Labels(s)[i] \in Nat
        BY <1>9 DEF Bytes, Length
      <4> QED BY <2>5, <4>1, <4>2
    <3> QED BY <2>2, <2>4, <3>1 DEF Bytes, Length
  <2> DEFINE w == Join(h, Labels(r))
  <2>7. w \in Bytes /\ Length(w) = N + 1
    BY <1>1, <1>7, <2>2, <2>6, Joined
  <2>8. /\ \A i \in 1 .. k + 1 : w[i] = h[i]
        /\ \A j \in 1 .. M + 1 : w[k + 1 + j] = Labels(r)[j]
    BY <1>7, <2>6, JoinAt
  <2> HIDE DEF w
  <2>9. ASSUME NEW i \in 1 .. N + 1 PROVE Labels(s)[i] = w[i]
    <3>1. CASE i \in 1 .. k + 1
      BY <1>8, <2>8, <3>1
    <3>2. CASE i \notin 1 .. k + 1
      <4> DEFINE j == i - k - 1
      <4>1. j \in 1 .. M + 1 /\ k + 1 + j = i
        BY <1>1, <2>2, <3>2
      <4> QED BY <2>5, <2>8, <4>1
    <3> QED BY <3>1, <3>2
  <2>10. Labels(s) = w
    BY <1>9, <2>7, <2>9, SameBytes
  <2>11. s = Join(Join(lab, <<Dot>>), r)
    <3> DEFINE d == Join(lab, <<Dot>>)
               v == Join(d, r)
    <3>1. <<Dot>> \in Bytes /\ Length(<<Dot>>) = 1
      BY DEF Bytes, Length, Dot
    <3>2. d \in Bytes /\ Length(d) = k + 1
      BY <1>5, <3>1, Joined
    <3>3. d[k + 1] = Dot /\ \A i \in 1 .. k : d[i] = lab[i]
      BY <1>1, <1>5 DEF Join, Bytes, Length
    <3> HIDE DEF d
    <3>4. Length(r) = M /\ Length(s) = N
      BY DEF Length, M, N
    <3>5. v \in Bytes /\ Length(v) = N
      BY <1>1, <2>1, <2>2, <3>2, <3>4, Joined
    <3>6. /\ \A i \in 1 .. k + 1 : v[i] = d[i]
          /\ \A j \in 1 .. M : v[k + 1 + j] = r[j]
      BY <2>1, <3>2, <3>4, JoinAt
    <3> HIDE DEF v
    <3>7. ASSUME NEW i \in 1 .. N PROVE s[i] = v[i]
      <4>1. CASE i \in 1 .. k
        <5>1. i \in 1 .. k + 1
          BY <1>1, <4>1
        <5> QED BY <1>5, <3>3, <3>6, <4>1, <5>1
      <4>2. CASE i = k + 1
        <5>1. i \in 1 .. k + 1
          BY <1>1, <4>2
        <5> QED BY <2>3, <3>3, <3>6, <4>2, <5>1
      <4>3. CASE i \notin 1 .. k + 1
        <5> DEFINE j == i - k - 1
        <5>1. j \in 1 .. M /\ k + 1 + j = i
          BY <1>1, <2>2, <4>3
        <5> QED BY <2>1, <3>6, <5>1 DEF M
      <4>4. i \in 1 .. k + 1 => i \in 1 .. k \/ i = k + 1
        BY <1>1
      <4> QED BY <4>1, <4>2, <4>3, <4>4
    <3>8. s = v
      BY <1>1, <3>4, <3>5, <3>7, SameBytes
    <3> QED BY <3>8 DEF v, d
  <2>12. Len(r) < N
    BY <1>1, <2>1
  <2>13. /\ k \in 1 .. 63 /\ lab \in Bytes /\ Length(lab) = k /\ Writable(r)
         /\ Len(r) < Len(s)
         /\ s = IF r = Nil THEN lab ELSE Join(Join(lab, <<Dot>>), r)
         /\ Labels(s) = Join(Join(<<k>>, lab), Labels(r))
         /\ Labels(s) \in Bytes /\ Labels(r) \in Bytes
    <3>1. Labels(s) = Join(Join(<<k>>, lab), Labels(r))
      BY <2>10 DEF w, h
    <3>2. k \in 1 .. 63 /\ Len(r) < Len(s)
      BY <1>1, <2>12 DEF N
    <3> QED BY <1>5, <1>9, <2>1, <2>2, <2>6, <2>11, <3>1, <3>2
  <2> QED BY <2>13 DEF k, lab, r
<1> QED BY <1>10, <1>11

LEMMA NameBytes ==
  /\ Writable(Nil) /\ writeQName(Nil) = <<0>> /\ Length(<<0>>) = 1
  /\ \A s : Writable(s) => writeQName(s) \in Bytes
  /\ \A s : Writable(s) /\ s # Nil =>
       writeQName(s) = Join(Join(<<FirstSize(s)>>, FirstLabel(s)), writeQName(AfterFirst(s)))
<1>1. Writable(Nil) /\ writeQName(Nil) = <<0>> /\ Length(<<0>>) = 1
  <2>1. Labels(Nil) = Nil /\ <<0>> \in Bytes /\ Nil \in Bytes /\ Length(<<0>>) = 1
    BY DEF Labels, Nil, Bytes, Length
  <2>2. writeQName(Nil) = <<0>>
    BY <2>1, JoinNil DEF writeQName, Join
  <2> QED BY <2>1, <2>2 DEF Writable, NormalName, LongLabel, splitString, Nil
<1>2. \A s : Writable(s) => writeQName(s) \in Bytes
  BY NameFacts DEF Writable
<1>3. ASSUME NEW s, Writable(s), s # Nil
      PROVE  writeQName(s)
               = Join(Join(<<FirstSize(s)>>, FirstLabel(s)), writeQName(AfterFirst(s)))
  <2> DEFINE h == Join(<<FirstSize(s)>>, FirstLabel(s))
             r == AfterFirst(s)
             z == <<0>>
  <2>1. /\ FirstSize(s) \in 1 .. 63 /\ FirstLabel(s) \in Bytes
        /\ Labels(s) = Join(h, Labels(r)) /\ Labels(r) \in Bytes
    BY <1>3, NameSplit
  <2>2. h \in Bytes /\ z \in Bytes
    <3> DEFINE k == FirstSize(s)
    <3>1. k \in Nat
      <4>1. k \in 1 .. 63
        BY <2>1
      <4> QED BY <4>1
    <3>2. z \in Bytes
      <4>1. Writable(Nil) /\ writeQName(Nil) = z
        BY <1>1
      <4> QED BY <1>2, <4>1
    <3> HIDE DEF k
    <3>3. <<k>> \in Bytes
      BY <3>1 DEF Bytes
    <3>4. Join(<<k>>, FirstLabel(s)) \in Bytes
      BY <2>1, <3>3, Joined
    <3> QED BY <3>4, <3>2 DEF k
  <2>3. writeQName(s) = Join(Labels(s), z) /\ writeQName(r) = Join(Labels(r), z)
    BY DEF writeQName, Join
  <2> HIDE DEF h, r, z
  <2>4. Join(Join(h, Labels(r)), z) = Join(h, Join(Labels(r), z))
    BY <2>1, <2>2, Assoc
  <2>5. writeQName(s) = Join(h, writeQName(r))
    BY <2>1, <2>3, <2>4
  <2> QED BY <2>5 DEF h, r
<1> QED BY <1>1, <1>2, <1>3

\* What readQName finds where a name was written.
LEMMA NameAhead ==
  ASSUME buf \in Bytes, NEW p, NEW s, Writable(s), NEW t, Reads(p, writeQName(s), t)
  PROVE  /\ p \in Nat /\ p < Size /\ p + 1 <= Size
         /\ s = Nil => Get(p) = 0 /\ Reads(p + 1, Nil, t)
         /\ s # Nil => LET k == FirstSize(s)
                       IN  /\ k \in 1 .. 63 /\ Get(p) = k /\ p + 1 + k <= Size
                           /\ SubSeq(buf, p + 2, p + 1 + k) = FirstLabel(s)
                           /\ Writable(AfterFirst(s))
                           /\ Reads(p + 1 + k, writeQName(AfterFirst(s)), t)
<1>1. p \in Nat /\ t \in Bytes /\ Size \in Nat
  BY DEF Reads, Bytes, Size
<1>2. CASE s = Nil
  <2> DEFINE z == <<0>>
  <2>1. Reads(p, z, t) /\ Length(z) = 1 /\ z[1] = 0
    BY <1>2, NameBytes
  <2> HIDE DEF z
  <2>2. p + 1 <= Size /\ Get(p + 1 - 1) = 0 /\ Rest(p + 1) = t
    <3>1. 1 \in 1 .. Length(z)
      BY <2>1
    <3> QED BY <2>1, <3>1, ReadsFacts
  <2>3. p + 1 - 1 = p /\ p < Size /\ p + 1 \in Nat
    BY <1>1, <2>2
  <2>4. Reads(p + 1, Nil, t)
    BY <1>1, <2>2, <2>3, JoinNil DEF Reads
  <2> QED BY <1>1, <1>2, <2>2, <2>3, <2>4
<1>3. CASE s # Nil
  <2> DEFINE k == FirstSize(s)
             lab == FirstLabel(s)
             r == AfterFirst(s)
             b == <<k>>
             h == Join(b, lab)
  <2>1. k \in 1 .. 63 /\ lab \in Bytes /\ Length(lab) = k /\ Writable(r)
    BY <1>3, NameSplit
  <2>2. b \in Bytes /\ Length(b) = 1 /\ b[1] = k
    BY <2>1 DEF Bytes, Length
  <2>3. writeQName(s) = Join(h, writeQName(r)) /\ writeQName(r) \in Bytes
    BY <1>3, <2>1, NameBytes
  <2> HIDE DEF k, lab, r, b
  <2>4. h \in Bytes /\ Length(h) = 1 + k
    BY <2>1, <2>2, Joined
  <2>5. Reads(p, h, Join(writeQName(r), t)) /\ Reads(p + (1 + k), writeQName(r), t)
    BY <1>1, <2>3, <2>4, ReadsOn
  <2>6. Join(writeQName(r), t) \in Bytes
    BY <2>5 DEF Reads
  <2>7. Reads(p, b, Join(lab, Join(writeQName(r), t)))
        /\ Reads(p + 1, lab, Join(writeQName(r), t))
    BY <2>1, <2>2, <2>5, <2>6, ReadsOn
  <2>8. Get(p + 1 - 1) = k
    <3>1. 1 \in 1 .. Length(b)
      BY <2>2
    <3> QED BY <2>2, <2>7, <3>1, ReadsFacts
  <2>9. SubSeq(buf, p + 1 + 1, p + 1 + k) = lab /\ p + 1 + k <= Size
    BY <2>1, <2>7, ReadsFacts
  <2>10. /\ p + 1 - 1 = p /\ p + 1 + 1 = p + 2 /\ p + (1 + k) = p + 1 + k
         /\ p < Size /\ p + 1 <= Size
    BY <1>1, <2>1, <2>9
  <2>11. /\ k \in 1 .. 63 /\ Get(p) = k /\ p + 1 + k <= Size
         /\ SubSeq(buf, p + 2, p + 1 + k) = lab /\ Writable(r)
         /\ Reads(p + 1 + k, writeQName(r), t)
    BY <2>1, <2>5, <2>8, <2>9, <2>10
  <2> QED BY <1>1, <1>3, <2>10, <2>11 DEF k, lab, r
<1> QED BY <1>2, <1>3

\* In place, a name that was written ends where its bytes do.
LEMMA BehindName ==
  ASSUME buf \in Bytes, NEW p, NEW s, Writable(s), NEW t, Reads(p, writeQName(s), t)
  PROVE  Behind[p] = p + Length(writeQName(s))
<1> DEFINE P(v) == \A q : Reads(q, writeQName(v), t) => Behind[q] = q + Length(writeQName(v))
           G == {m \in Nat : \A v : Writable(v) /\ Len(v) <= m => P(v)}
<1>1. P(Nil)
  <2> SUFFICES ASSUME NEW q, Reads(q, writeQName(Nil), t)
               PROVE  Behind[q] = q + Length(writeQName(Nil))
    OBVIOUS
  <2>1. q \in Nat /\ q < Size /\ Get(q) = 0
    BY NameAhead, NameBytes
  <2> QED BY <2>1, BehindFacts, NameBytes
<1>2. \A v : Writable(v) => Len(v) \in Nat /\ (Len(v) = 0 => v = Nil)
  BY DEF Writable, Bytes, Nil
<1>3. 0 \in G
  <2> HIDE DEF P
  <2>1. \A v : Writable(v) /\ Len(v) <= 0 => v = Nil
    BY <1>2
  <2> QED BY <1>1, <2>1
<1>4. ASSUME NEW m \in Nat, m # 0, m - 1 \in G PROVE m \in G
  <2> SUFFICES ASSUME NEW v, Writable(v), Len(v) <= m, v # Nil,
                      NEW q, Reads(q, writeQName(v), t)
               PROVE  Behind[q] = q + Length(writeQName(v))
    BY <1>1
  <2> DEFINE k == FirstSize(v)
             r == AfterFirst(v)
  <2>1. /\ q \in Nat /\ q < Size /\ k \in 1 .. 63 /\ Get(q) = k /\ q + 1 + k <= Size
        /\ Writable(r) /\ Reads(q + 1 + k, writeQName(r), t)
    BY <1>4, NameAhead
  <2>2. Len(r) < Len(v)
    BY <1>4, NameSplit
  <2>3. Len(r) <= m - 1
    BY <1>2, <1>4, <2>1, <2>2
  <2>4. P(r)
    BY <1>4, <2>1, <2>3
  <2>5. Behind[q + 1 + k] = q + 1 + k + Length(writeQName(r))
    BY <2>1, <2>4
  <2>6. Behind[q] = Behind[q + 1 + k]
    <3> HIDE DEF k, r
    <3>1. ~(k >= 192) /\ k # 0 /\ q + 1 + Get(q) = q + 1 + k
      BY <2>1
    <3>2. ~IsPointer(Get(q)) /\ Get(q) # 0
      BY <2>1, <3>1 DEF IsPointer
    <3> QED BY <2>1, <3>1, <3>2, BehindFacts
  <2>7. Length(writeQName(v)) = 1 + k + Length(writeQName(r)) /\ Length(writeQName(r)) \in Nat
    <3> DEFINE b == <<k>>
               lab == FirstLabel(v)
    <3>1. lab \in Bytes /\ Length(lab) = k
      BY <1>4, NameSplit
    <3>2. b \in Bytes /\ Length(b) = 1
      <4>1. k \in 1 .. 63
        BY <2>1
      <4> HIDE DEF k
      <4> QED BY <4>1 DEF Bytes, Length
    <3>3. writeQName(v) = Join(Join(b, lab), writeQName(r)) /\ writeQName(r) \in Bytes
      BY <1>4, <2>1, NameBytes
    <3> HIDE DEF b, lab, k, r
    <3>4. Join(b, lab) \in Bytes /\ Length(Join(b, lab)) = 1 + k
      BY <3>1, <3>2, Joined
    <3>5. Length(writeQName(r)) \in Nat
      BY <3>3 DEF Length, Bytes
    <3> QED BY <3>3, <3>4, <3>5, Joined
  <2> HIDE DEF k, r
  <2> QED BY <2>1, <2>5, <2>6, <2>7
<1> DEFINE L == Len(s)
<1>5. 0 .. L \subseteq G
  <2>1. L \in Nat /\ \A m \in 1 .. L : m - 1 \in G => m \in G
    <3> HIDE DEF G
    <3> QED BY <1>2, <1>4
  <2> HIDE DEF G, L
  <2> QED BY <1>3, <2>1, Induction
<1>6. L \in G
  <2> HIDE DEF G
  <2> QED BY <1>2, <1>5
<1>7. P(s)
  <2> HIDE DEF P
  <2> QED BY <1>2, <1>6
<1> QED BY <1>7

(***************************************************************************)
(* readQName, where a name was written.                                    *)
(***************************************************************************)
\* With the state m of its loop readQName has rem ahead of it, of the name s;
\* behind the name are the bytes t.
Spelled(m, s, t) ==
  /\ m.jumped = FALSE /\ m.jumps = 0
  /\ \E rem : Writable(rem) /\ Glue(m.out, rem) = s /\ Reads(m.pos, writeQName(rem), t)

LEMMA SpellStart ==
  ASSUME NEW p \in Nat, NEW s, Writable(s), NEW t, Reads(p, writeQName(s), t)
  PROVE  Spelled(Name(p), s, t)
<1>1. Glue(Nil, s) = s
  BY DEF Glue
<1>2. Name(p).out = Nil /\ Name(p).pos = p /\ ~Name(p).jumped /\ Name(p).jumps = 0
  BY StartName DEF Nil
<1> QED BY <1>1, <1>2 DEF Spelled, Name

LEMMA SpellLabel ==
  ASSUME Typed, NEW s, NEW t, Spelled(n, s, t), label
  PROVE  Spelled(n', s, t)
<1>1. PICK rem : Writable(rem) /\ Glue(n.out, rem) = s /\ Reads(n.pos, writeQName(rem), t)
  BY DEF Spelled
<1>2. buf \in Bytes /\ n.jumped = FALSE /\ n.jumps = 0
  BY DEF Typed, Spelled
<1> DEFINE k == FirstSize(rem)
           r == AfterFirst(rem)
           lab == FirstLabel(rem)
           dot == IF n.out = Nil THEN Nil ELSE Point
<1>3. Get(n.pos) # 0 /\ n.out \in Bytes
  BY TurnFacts DEF label, Naming
<1>4. rem # Nil
  BY <1>1, <1>2, <1>3, NameAhead
<1>5. /\ k \in 1 .. 63 /\ Get(n.pos) = k /\ SubSeq(buf, n.pos + 2, n.pos + 1 + k) = lab
      /\ Writable(r) /\ Reads(n.pos + 1 + k, writeQName(r), t)
  BY <1>1, <1>2, <1>4, NameAhead
<1>6. lab \in Bytes /\ Length(lab) = k
      /\ rem = IF r = Nil THEN lab ELSE Join(Join(lab, Point), r)
  BY <1>1, <1>4, NameSplit DEF Point
<1>7. n'.pos = n.pos + 1 + k /\ n'.jumped = FALSE /\ n'.jumps = 0
  BY <1>2, <1>5, LabelFacts
<1>8. n'.out = Join(Join(n.out, dot), lab)
  <2>1. n' = [n EXCEPT !.pos = @ + 1 + Get(n.pos),
                       !.out = Join(Join(n.out, dot), SubSeq(buf, n.pos + 2, n.pos + 1 + Get(n.pos)))]
    BY DEF label, Join, Nil, Point
  <2>2. n \in Naming
    BY TurnFacts DEF label
  <2> HIDE DEF dot
  <2> QED BY <1>5, <2>1, <2>2 DEF Naming
<1>9. Glue(n'.out, r) = s
  <2>1. lab # Nil /\ r \in Bytes
    <3>1. k \in 1 .. 63 /\ Writable(r)
      BY <1>5
    <3> HIDE DEF lab, r, k
    <3>2. Length(lab) # 0 /\ Length(Nil) = 0
      BY <1>6, <3>1 DEF Length, Nil
    <3>3. lab # Nil
      BY <3>2
    <3> QED BY <3>1, <3>3 DEF Writable
  <2> HIDE DEF lab, r, k
  <2>2. Glue(Join(Join(n.out, dot), lab), r)
          = Glue(n.out, IF r = Nil THEN lab ELSE Join(Join(lab, Point), r))
    BY <1>3, <1>6, <2>1, GlueStep
  <2> QED BY <1>1, <1>6, <1>8, <2>2
<1> HIDE DEF r, k
<1> QED BY <1>5, <1>7, <1>9 DEF Spelled

\* No pointer, no limit, no end of the buffer: only label and endName read it.
LEMMA SpellOn ==
  ASSUME Typed, NEW s, NEW t, Spelled(n, s, t), Reading
  PROVE  ~jump /\ ~jumpLimit /\ ~endOfBuffer
<1>1. PICK rem : Writable(rem) /\ Glue(n.out, rem) = s /\ Reads(n.pos, writeQName(rem), t)
  BY DEF Spelled
<1>2. buf \in Bytes /\ n.jumps = 0 /\ Size \in Nat
  BY DEF Typed, Spelled, Bytes, Size
<1> DEFINE b == Get(n.pos)
<1>3. n.pos \in Nat /\ n.pos < Size /\ b \in 0 .. 63 /\ n.pos + 1 + b <= Size
  <2>1. CASE rem = Nil
    <3>1. n.pos \in Nat /\ n.pos < Size /\ b = 0
      BY <1>1, <1>2, <2>1, NameAhead
    <3> QED BY <1>2, <3>1
  <2>2. CASE rem # Nil
    <3> DEFINE k == FirstSize(rem)
    <3>1. n.pos \in Nat /\ n.pos < Size /\ b = k /\ k \in 1 .. 63 /\ n.pos + 1 + k <= Size
      BY <1>1, <1>2, <2>2, NameAhead
    <3> HIDE DEF k, b
    <3> QED BY <3>1
  <2> QED BY <2>1, <2>2
<1> HIDE DEF b
<1>4. ~IsPointer(b) /\ ~(n.pos + Needed(b) > Size) /\ maxJumps \in Nat
  BY <1>2, <1>3, WireAssumption DEF IsPointer, Needed
<1> QED BY <1>2, <1>3, <1>4 DEF jump, jumpLimit, endOfBuffer, OutOfRange, b

LEMMA SpellEnd ==
  ASSUME Typed, NEW s, NEW t, Spelled(n, s, t), endName
  PROVE  n.out = s /\ currPos' = n.pos + 1 /\ Reads(currPos', Nil, t)
<1>1. PICK rem : Writable(rem) /\ Glue(n.out, rem) = s /\ Reads(n.pos, writeQName(rem), t)
  BY DEF Spelled
<1>2. buf \in Bytes /\ n.jumped = FALSE
  BY DEF Typed, Spelled
<1>3. Get(n.pos) = 0 /\ currPos' = IF n.jumped THEN currPos ELSE n.pos + 1
  BY DEF endName
<1>4. rem = Nil
  <2>1. ASSUME rem # Nil PROVE FALSE
    <3>1. FirstSize(rem) \in 1 .. 63 /\ Get(n.pos) = FirstSize(rem)
      BY <1>1, <1>2, <2>1, NameAhead
    <3>2. 0 \notin 1 .. 63
      OBVIOUS
    <3> QED BY <1>3, <3>1, <3>2
  <2> QED BY <2>1
<1>5. n.out = s
  BY <1>1, <1>4 DEF Glue
<1>6. Reads(n.pos + 1, Nil, t)
  BY <1>1, <1>2, <1>4, NameAhead
<1> QED BY <1>2, <1>3, <1>5, <1>6

-----------------------------------------------------------------------------
(***************************************************************************)
(* Items in place.  A question, or a record without its length, is good    *)
(* when it is written in full and can be read back.                        *)
(***************************************************************************)
Tiny == [name : Bytes, type : Nat, ttl : Nat, fixed : Bytes, host : Bytes]
Asked == {q \in Question : Writable(q.name)}
Good == {x \in Tiny :
           /\ Known(x.type) /\ Writable(x.name) /\ Length(x.fixed) = Fixed[x.type]
           /\ IF HasHost(x.type) THEN Writable(x.host) ELSE x.host = Nil}

\* What is written behind the name.
Asking(q) == Join(W16(q.type), W16(1))
Host(r) == IF HasHost(r.type) THEN writeQName(r.host) ELSE Nil
Carrying(r) == Join(r.fixed, Host(r))
Fields(r) ==
  Join(W16(r.type), Join(W16(1), Join(W32(r.ttl), Join(W16(dataSize(r)), Carrying(r)))))

LEMMA QuestionBytes ==
  ASSUME NEW q \in Asked
  PROVE  /\ writeQuestion(q) = Join(writeQName(q.name), Asking(q))
         /\ writeQName(q.name) \in Bytes /\ Asking(q) \in Bytes
<1>1. Writable(q.name) /\ q.type \in Nat
  BY DEF Asked, Question
<1>2. writeQName(q.name) \in Bytes /\ W16(q.type) \in Bytes /\ W16(1) \in Bytes
  <2>1. 1 \in Nat
    OBVIOUS
  <2> QED BY <1>1, <2>1, NameBytes, W16Facts
<1>3. writeQuestion(q) = Join(Join(writeQName(q.name), W16(q.type)), W16(1))
  BY DEF writeQuestion, Join
<1>4. Join(Join(writeQName(q.name), W16(q.type)), W16(1)) = Join(writeQName(q.name), Asking(q))
  BY <1>2, Assoc DEF Asking
<1>5. Asking(q) \in Bytes
  BY <1>2, Joined DEF Asking
<1> QED BY <1>2, <1>3, <1>4, <1>5

LEMMA AskingAhead ==
  ASSUME buf \in Bytes, NEW p, NEW q \in Asked, NEW t, Reads(p, Asking(q), t)
  PROVE  U16(p) = q.type /\ p \in Nat /\ p + 4 <= Size /\ Reads(p + 4, Nil, t)
<1> DEFINE b == W16(q.type)
           c == W16(1)
<1>1. q.type \in Nat /\ 1 \in Nat /\ t \in Bytes
  BY DEF Asked, Question, Reads
<1>2. b \in Bytes /\ c \in Bytes /\ Length(b) = 2
  BY <1>1, W16Facts
<1>3. Reads(p, b, Join(c, t)) /\ Reads(p + 2, c, t)
  <2>1. Reads(p, Join(b, c), t)
    BY DEF Asking
  <2> HIDE DEF b, c
  <2> QED BY <1>1, <1>2, <2>1, ReadsOn
<1>4. U16(p) = q.type /\ p \in Nat
  BY <1>1, <1>3, ReadU16
<1>5. p + 2 + 2 <= Size /\ Rest(p + 2 + 2) = t
  BY <1>1, <1>3, ReadU16
<1>6. p + 4 \in Nat /\ p + 2 + 2 = p + 4
  BY <1>4
<1> QED BY <1>1, <1>4, <1>5, <1>6, JoinNil DEF Reads

LEMMA GoodFacts ==
  ASSUME NEW x \in Good
  PROVE  /\ x.name \in Bytes /\ Writable(x.name) /\ x.type \in Nat /\ x.ttl \in Nat
         /\ x.fixed \in Bytes /\ x.host \in Bytes /\ Known(x.type)
         /\ Fixed[x.type] \in Nat /\ Length(x.fixed) = Fixed[x.type]
         /\ HasHost(x.type) => Writable(x.host)
         /\ ~HasHost(x.type) => x.host = Nil
         /\ Host(x) \in Bytes /\ dataSize(x) \in Nat
         /\ Carrying(x) \in Bytes /\ Fields(x) \in Bytes
         /\ dataSize(x) = Fixed[x.type] + Length(Host(x)) /\ Length(Host(x)) \in Nat
<1>1. /\ x.name \in Bytes /\ Writable(x.name) /\ x.type \in Nat /\ x.ttl \in Nat
      /\ x.fixed \in Bytes /\ x.host \in Bytes /\ Known(x.type)
      /\ Length(x.fixed) = Fixed[x.type]
      /\ HasHost(x.type) => Writable(x.host)
      /\ ~HasHost(x.type) => x.host = Nil
  BY DEF Good, Tiny
<1>2. Fixed[x.type] \in Nat
  BY <1>1 DEF Length, Bytes
<1>3. Host(x) \in Bytes
  BY <1>1, NameBytes, JoinNil DEF Host
<1>4. dataSize(x) = Length(Carrying(x))
  BY DEF dataSize, Data, Carrying, Host, Join, Length, Nil
<1>5. Carrying(x) \in Bytes /\ Length(Carrying(x)) = Length(x.fixed) + Length(Host(x))
      /\ Length(Host(x)) \in Nat
  <2>1. Length(Host(x)) \in Nat
    BY <1>3 DEF Length, Bytes
  <2> QED BY <1>1, <1>3, <2>1, Joined DEF Carrying
<1>6. dataSize(x) \in Nat /\ dataSize(x) = Fixed[x.type] + Length(Host(x))
  BY <1>1, <1>2, <1>4, <1>5
<1>7. Fields(x) \in Bytes
  <2> DEFINE a == Join(W16(dataSize(x)), Carrying(x))
             b == Join(W32(x.ttl), a)
             c == Join(W16(1), b)
  <2>1. a \in Bytes
    BY <1>5, <1>6, W16Facts, Joined
  <2>2. b \in Bytes
    <3> HIDE DEF a
    <3> QED BY <1>1, <2>1, W32Facts, Joined
  <2>3. c \in Bytes
    <3>1. 1 \in Nat
      OBVIOUS
    <3> HIDE DEF b
    <3> QED BY <2>2, <3>1, W16Facts, Joined
  <2>4. Fields(x) = Join(W16(x.type), c)
    BY DEF Fields
  <2> HIDE DEF c
  <2> QED BY <1>1, <2>3, <2>4, W16Facts, Joined
<1> QED BY <1>1, <1>2, <1>3, <1>5, <1>6, <1>7

LEMMA RecordBytes ==
  ASSUME NEW x \in Good
  PROVE  /\ writeDnsRecord(x) = Join(writeQName(x.name), Fields(x))
         /\ writeQName(x.name) \in Bytes /\ Fields(x) \in Bytes
<1> DEFINE a == writeQName(x.name)
           b == W16(x.type)
           c == W16(1)
           d == W32(x.ttl)
           e == W16(dataSize(x))
           f == Carrying(x)
<1>1. /\ Known(x.type) /\ x.type \in Nat /\ x.ttl \in Nat /\ dataSize(x) \in Nat /\ 1 \in Nat
      /\ Writable(x.name) /\ f \in Bytes /\ Fields(x) \in Bytes
  BY GoodFacts
<1>2. a \in Bytes /\ b \in Bytes /\ c \in Bytes /\ d \in Bytes /\ e \in Bytes
  BY <1>1, NameBytes, W16Facts, W32Facts
<1>3. writeDnsRecord(x) = Join(Join(Join(Join(Join(a, b), c), d), e), f)
  BY <1>1 DEF writeDnsRecord, Data, Join, Carrying, Host, Nil
<1>4. Fields(x) = Join(b, Join(c, Join(d, Join(e, f))))
  BY DEF Fields
<1> HIDE DEF a, b, c, d, e, f
<1>5. /\ Join(a, b) \in Bytes /\ Join(Join(a, b), c) \in Bytes
      /\ Join(Join(Join(a, b), c), d) \in Bytes
  BY <1>2, Joined
<1>6. /\ Join(e, f) \in Bytes /\ Join(d, Join(e, f)) \in Bytes
      /\ Join(c, Join(d, Join(e, f))) \in Bytes
  BY <1>1, <1>2, Joined
<1>7. writeDnsRecord(x) = Join(Join(Join(Join(a, b), c), d), Join(e, f))
  BY <1>1, <1>2, <1>3, <1>5, Assoc
<1>8. Join(Join(Join(Join(a, b), c), d), Join(e, f))
        = Join(Join(Join(a, b), c), Join(d, Join(e, f)))
  BY <1>2, <1>5, <1>6, Assoc
<1>9. Join(Join(Join(a, b), c), Join(d, Join(e, f)))
        = Join(Join(a, b), Join(c, Join(d, Join(e, f))))
  BY <1>2, <1>5, <1>6, Assoc
<1>10. Join(Join(a, b), Join(c, Join(d, Join(e, f)))) = Join(a, Fields(x))
  BY <1>2, <1>4, <1>6, Assoc
<1> QED BY <1>1, <1>2, <1>7, <1>8, <1>9, <1>10 DEF a

\* What readRecord finds where the fields of a record were written.
LEMMA FieldsAhead ==
  ASSUME buf \in Bytes, NEW p, NEW x \in Good, NEW t, Reads(p, Fields(x), t)
  PROVE  /\ p \in Nat /\ p + 10 <= Size /\ p + 10 + Fixed[x.type] <= Size
         /\ U16(p) = x.type /\ U32(p + 4) = x.ttl /\ U16(p + 8) = dataSize(x)
         /\ SubSeq(buf, p + 11, p + 10 + Fixed[x.type]) = x.fixed
         /\ Reads(p + 10 + Fixed[x.type], Host(x), t)
<1> DEFINE k == Fixed[x.type]
           b == W16(x.type)
           c == W16(1)
           d == W32(x.ttl)
           e == W16(dataSize(x))
           f == x.fixed
           g == Host(x)
           e1 == Join(e, Join(f, g))
           d1 == Join(d, e1)
           c1 == Join(c, d1)
<1>1. /\ x.type \in Nat /\ x.ttl \in Nat /\ dataSize(x) \in Nat /\ 1 \in Nat /\ p \in Nat
      /\ f \in Bytes /\ g \in Bytes /\ Length(f) = k /\ k \in Nat /\ t \in Bytes
  BY GoodFacts DEF Reads
<1>2. /\ b \in Bytes /\ c \in Bytes /\ d \in Bytes /\ e \in Bytes
      /\ Length(b) = 2 /\ Length(c) = 2 /\ Length(d) = 4 /\ Length(e) = 2
  BY <1>1, W16Facts, W32Facts
<1>3. Fields(x) = Join(b, c1)
  BY DEF Fields, Carrying
<1> HIDE DEF k, f, g, e1, d1, c1
<1>4. Join(f, g) \in Bytes /\ e1 \in Bytes /\ d1 \in Bytes /\ c1 \in Bytes
  <2>1. Join(f, g) \in Bytes
    BY <1>1, Joined
  <2>2. e1 \in Bytes
    BY <1>2, <2>1, Joined DEF e1
  <2>3. d1 \in Bytes
    BY <1>2, <2>2, Joined DEF d1
  <2> QED BY <1>2, <2>1, <2>2, <2>3, Joined DEF c1
<1>5. Reads(p, b, Join(c1, t)) /\ Reads(p + 2, c1, t)
  BY <1>1, <1>2, <1>3, <1>4, ReadsOn
<1>6. Reads(p + 2 + 2, d1, t)
  BY <1>1, <1>2, <1>4, <1>5, ReadsOn DEF c1
<1>7. Reads(p + 4, d, Join(e1, t)) /\ Reads(p + 4 + 4, e1, t)
  <2>1. p + 2 + 2 = p + 4
    BY <1>1
  <2> QED BY <1>1, <1>2, <1>4, <1>6, <2>1, ReadsOn DEF d1
<1>8. Reads(p + 8, e, Join(Join(f, g), t)) /\ Reads(p + 8 + 2, Join(f, g), t)
  <2>1. p + 4 + 4 = p + 8
    BY <1>1
  <2> QED BY <1>1, <1>2, <1>4, <1>7, <2>1, ReadsOn DEF e1
<1>9. Reads(p + 10, f, Join(g, t)) /\ Reads(p + 10 + k, g, t)
  <2>1. p + 8 + 2 = p + 10
    BY <1>1
  <2> QED BY <1>1, <1>8, <2>1, ReadsOn
<1>10. U16(p) = x.type
  BY <1>1, <1>5, ReadU16
<1>11. U32(p + 4) = x.ttl
  <2>1. Join(e1, t) \in Bytes
    BY <1>7 DEF Reads
  <2> QED BY <1>1, <1>7, <2>1, ReadU32
<1>12. U16(p + 8) = dataSize(x)
  BY <1>1, <1>8, ReadU16
<1>13. SubSeq(buf, p + 11, p + 10 + k) = f
  <2> DEFINE m == p + 10
  <2>1. Reads(m, f, Join(g, t)) /\ p + 11 = m + 1
    BY <1>1, <1>9
  <2> HIDE DEF m
  <2>2. SubSeq(buf, m + 1, m + Length(f)) = f
    BY <2>1, ReadsFacts
  <2>3. SubSeq(buf, p + 11, m + k) = f
    BY <1>1, <2>1, <2>2
  <2> QED BY <2>3 DEF m
<1>14. p + 10 <= Size /\ p + 10 + k <= Size
  BY <1>9 DEF Reads
<1> QED BY <1>1, <1>9, <1>10, <1>11, <1>12, <1>13, <1>14 DEF k, f, g

-----------------------------------------------------------------------------
(***************************************************************************)
(* The header.                                                             *)
(***************************************************************************)
\* The headers that can be read.
Heading == {h \in DnsHeader : h.opcode \in 0 .. 15 /\ h.rescode \in 0 .. 5}

FlagsWord(h) ==
  h.rescode + 2048 * h.opcode
    + Bit(h, "recursionDesired") + Bit(h, "truncatedMessage")
    + Bit(h, "authoritativeAnswer") + Bit(h, "response")
    + Bit(h, "checkingDisabled") + Bit(h, "authedData") + Bit(h, "z")
    + Bit(h, "recursionAvailable")

FlagsOf(v) == {f \in DOMAIN Flag : (v \div Flag[f]) % 2 = 1}

LEMMA FlagsFacts ==
  ASSUME NEW h \in Heading
  PROVE  LET v == FlagsWord(h)
         IN  /\ v \in Nat /\ (v \div 2048) % 16 = h.opcode
             /\ resultCodeFromNum(v % 16) = h.rescode
             /\ FlagsOf(v) = h.flags
<1> DEFINE v == FlagsWord(h)
           on(f) == IF f \in h.flags THEN 1 ELSE 0
<1>1. h.opcode \in 0 .. 15 /\ h.rescode \in 0 .. 5 /\ h.flags \subseteq DOMAIN Flag
  BY DEF Heading, DnsHeader
<1>2. DOMAIN Flag = {"recursionDesired", "truncatedMessage", "authoritativeAnswer", "response",
                     "checkingDisabled", "authedData", "z", "recursionAvailable"}
  BY DEF Flag
<1>3. /\ Flag["recursionDesired"] = 256 /\ Flag["truncatedMessage"] = 512
      /\ Flag["authoritativeAnswer"] = 1024 /\ Flag["response"] = 32768
      /\ Flag["checkingDisabled"] = 16 /\ Flag["authedData"] = 32 /\ Flag["z"] = 64
      /\ Flag["recursionAvailable"] = 128
  BY DEF Flag
<1>4. \A f : on(f) \in 0 .. 1
  OBVIOUS
<1>5. \A f \in DOMAIN Flag : Bit(h, f) = Flag[f] * on(f)
  BY <1>2, <1>3 DEF Bit
<1> HIDE DEF on, v
<1>6. v = h.rescode + 2048 * h.opcode + 256 * on("recursionDesired")
            + 512 * on("truncatedMessage") + 1024 * on("authoritativeAnswer")
            + 32768 * on("response") + 16 * on("checkingDisabled") + 32 * on("authedData")
            + 64 * on("z") + 128 * on("recursionAvailable")
  <2>1. /\ Bit(h, "recursionDesired") = 256 * on("recursionDesired")
        /\ Bit(h, "truncatedMessage") = 512 * on("truncatedMessage")
        /\ Bit(h, "authoritativeAnswer") = 1024 * on("authoritativeAnswer")
        /\ Bit(h, "response") = 32768 * on("response")
        /\ Bit(h, "checkingDisabled") = 16 * on("checkingDisabled")
        /\ Bit(h, "authedData") = 32 * on("authedData")
        /\ Bit(h, "z") = 64 * on("z")
        /\ Bit(h, "recursionAvailable") = 128 * on("recursionAvailable")
    BY <1>2, <1>3, <1>5
  <2> QED BY <2>1 DEF v, FlagsWord
<1>7. /\ v \in Nat /\ v % 16 = h.rescode /\ (v \div 2048) % 16 = h.opcode
      /\ (v \div 256) % 2 = on("recursionDesired") /\ (v \div 512) % 2 = on("truncatedMessage")
      /\ (v \div 1024) % 2 = on("authoritativeAnswer") /\ (v \div 32768) % 2 = on("response")
      /\ (v \div 16) % 2 = on("checkingDisabled") /\ (v \div 32) % 2 = on("authedData")
      /\ (v \div 64) % 2 = on("z") /\ (v \div 128) % 2 = on("recursionAvailable")
  <2> DEFINE r == h.rescode
             o == h.opcode
             a == on("recursionDesired")
             b == on("truncatedMessage")
             c == on("authoritativeAnswer")
             d == on("response")
             e == on("checkingDisabled")
             f == on("authedData")
             g == on("z")
             k == on("recursionAvailable")
  <2>1. /\ r \in 0 .. 5 /\ o \in 0 .. 15
        /\ a \in 0 .. 1 /\ b \in 0 .. 1 /\ c \in 0 .. 1 /\ d \in 0 .. 1
        /\ e \in 0 .. 1 /\ f \in 0 .. 1 /\ g \in 0 .. 1 /\ k \in 0 .. 1
        /\ v = r + 2048 * o + 256 * a + 512 * b + 1024 * c + 32768 * d
                 + 16 * e + 32 * f + 64 * g + 128 * k
    BY <1>1, <1>4, <1>6
  <2> HIDE DEF r, o, a, b, c, d, e, f, g, k
  <2>2. v \in Nat
    BY <2>1
  <2>3. v % 16 = r
    BY <2>1
  <2>4. (v \div 2048) % 16 = o
    <3>1. v \div 2048 = o + 16 * d
      BY <2>1
    <3> QED BY <2>1, <3>1
  <2>5. (v \div 256) % 2 = a
    <3>1. v \div 256 = a + 2 * (b + 2 * c + 4 * o + 64 * d)
      BY <2>1
    <3> QED BY <2>1, <3>1
  <2>6. (v \div 512) % 2 = b
    <3>1. v \div 512 = b + 2 * (c + 2 * o + 32 * d)
      BY <2>1
    <3> QED BY <2>1, <3>1
  <2>7. (v \div 1024) % 2 = c
    <3>1. v \div 1024 = c + 2 * (o + 16 * d)
      BY <2>1
    <3> QED BY <2>1, <3>1
  <2>8. (v \div 32768) % 2 = d
    <3>1. v \div 32768 = d
      BY <2>1
    <3> QED BY <2>1, <3>1
  <2>9. (v \div 16) % 2 = e
    <3>1. v \div 16 = e + 2 * (f + 2 * g + 4 * k + 8 * a + 16 * b + 32 * c + 64 * o + 1024 * d)
      BY <2>1
    <3> QED BY <2>1, <3>1
  <2>10. (v \div 32) % 2 = f
    <3>1. v \div 32 = f + 2 * (g + 2 * k + 4 * a + 8 * b + 16 * c + 32 * o + 512 * d)
      BY <2>1
    <3> QED BY <2>1, <3>1
  <2>11. (v \div 64) % 2 = g
    <3>1. v \div 64 = g + 2 * (k + 2 * a + 4 * b + 8 * c + 16 * o + 256 * d)
      BY <2>1
    <3> QED BY <2>1, <3>1
  <2>12. (v \div 128) % 2 = k
    <3>1. v \div 128 = k + 2 * (a + 2 * b + 4 * c + 8 * o + 128 * d)
      BY <2>1
    <3> QED BY <2>1, <3>1
  <2>13. /\ v \in Nat /\ v % 16 = r /\ (v \div 2048) % 16 = o
         /\ (v \div 256) % 2 = a /\ (v \div 512) % 2 = b /\ (v \div 1024) % 2 = c
         /\ (v \div 32768) % 2 = d /\ (v \div 16) % 2 = e /\ (v \div 32) % 2 = f
         /\ (v \div 64) % 2 = g /\ (v \div 128) % 2 = k
    BY <2>2, <2>3, <2>4, <2>5, <2>6, <2>7, <2>8, <2>9, <2>10, <2>11, <2>12
  <2> QED BY <2>13 DEF r, o, a, b, c, d, e, f, g, k
<1>8. \A f \in DOMAIN Flag : (v \div Flag[f]) % 2 = on(f)
  BY <1>2, <1>3, <1>7
<1>9. FlagsOf(v) = {f \in DOMAIN Flag : on(f) = 1}
  BY <1>8 DEF FlagsOf
<1>10. {f \in DOMAIN Flag : on(f) = 1} = h.flags
  BY <1>1 DEF on
<1>11. resultCodeFromNum(v % 16) = h.rescode
  BY <1>1, <1>7 DEF resultCodeFromNum
<1> QED BY <1>7, <1>9, <1>10, <1>11 DEF v

\* What readHeader returns.
HeaderRead ==
  [id |-> U16(0), opcode |-> (U16(2) \div 2048) % 16,
   rescode |-> resultCodeFromNum(U16(2) % 16),
   flags |-> FlagsOf(U16(2)),
   counts |-> [s \in 1 .. 4 |-> U16(2 + 2 * s)]]

LEMMA HeaderAhead ==
  ASSUME buf \in Bytes, NEW h \in Heading, NEW t, Reads(0, writeHeader(h, h.counts), t)
  PROVE  HeaderRead = h /\ Reads(12, Nil, t)
<1> DEFINE i == W16(h.id)
           j == W16(FlagsWord(h))
           c == h.counts
           w1 == W16(c[1])
           w2 == W16(c[2])
           w3 == W16(c[3])
           w4 == W16(c[4])
           h2 == Join(i, j)
           h3 == Join(h2, w1)
           h4 == Join(h3, w2)
           h5 == Join(h4, w3)
           h6 == Join(h5, w4)
<1>1. h.id \in Nat /\ FlagsWord(h) \in Nat /\ c \in [1 .. 4 -> Nat] /\ t \in Bytes
  BY FlagsFacts DEF Heading, DnsHeader, Reads
<1>2. /\ i \in Bytes /\ j \in Bytes /\ Length(i) = 2 /\ Length(j) = 2
      /\ w1 \in Bytes /\ w2 \in Bytes /\ w3 \in Bytes /\ w4 \in Bytes
      /\ Length(w1) = 2 /\ Length(w2) = 2 /\ Length(w3) = 2 /\ Length(w4) = 2
  BY <1>1, W16Facts
<1>3. writeHeader(h, c) = h6
  BY DEF writeHeader, FlagsWord, Join
<1> HIDE DEF i, j, c, w1, w2, w3, w4
<1>4. h2 \in Bytes /\ Length(h2) = 4
  BY <1>2, Joined
<1> HIDE DEF h2
<1>5. h3 \in Bytes /\ Length(h3) = 6
  BY <1>2, <1>4, Joined
<1> HIDE DEF h3
<1>6. h4 \in Bytes /\ Length(h4) = 8
  BY <1>2, <1>5, Joined
<1> HIDE DEF h4
<1>7. h5 \in Bytes /\ Length(h5) = 10
  BY <1>2, <1>6, Joined
<1> HIDE DEF h5
<1> DEFINE t5 == Join(w4, t)
           t4 == Join(w3, t5)
           t3 == Join(w2, t4)
           t2 == Join(w1, t3)
<1>8. t5 \in Bytes /\ t4 \in Bytes /\ t3 \in Bytes /\ t2 \in Bytes
  BY <1>1, <1>2, Joined
<1> HIDE DEF t5, t4, t3, t2
<1>9. Reads(0, h5, t5) /\ Reads(0 + 10, w4, t)
  <2>1. Reads(0, Join(h5, w4), t)
    BY <1>3 DEF c
  <2> QED BY <1>1, <1>2, <1>7, <2>1, ReadsOn DEF t5
<1>10. Reads(0, h4, t4) /\ Reads(0 + 8, w3, t5)
  <2>1. Reads(0, Join(h4, w3), t5)
    BY <1>9 DEF h5
  <2> QED BY <1>2, <1>6, <1>8, <2>1, ReadsOn DEF t4
<1>11. Reads(0, h3, t3) /\ Reads(0 + 6, w2, t4)
  <2>1. Reads(0, Join(h3, w2), t4)
    BY <1>10 DEF h4
  <2> QED BY <1>2, <1>5, <1>8, <2>1, ReadsOn DEF t3
<1>12. Reads(0, h2, t2) /\ Reads(0 + 4, w1, t3)
  <2>1. Reads(0, Join(h2, w1), t3)
    BY <1>11 DEF h3
  <2> QED BY <1>2, <1>4, <1>8, <2>1, ReadsOn DEF t2
<1>13. Reads(0, i, Join(j, t2)) /\ Reads(0 + 2, j, t2)
  <2>1. Reads(0, Join(i, j), t2)
    BY <1>12 DEF h2
  <2> QED BY <1>2, <1>8, <2>1, ReadsOn
<1>14. \A p, v, u : v \in Nat /\ Reads(p, W16(v), u) =>
         U16(p) = v /\ p + 2 <= Size /\ Rest(p + 2) = u
  BY ReadU16
<1>15. 0 + 2 = 2 /\ 0 + 4 = 4 /\ 0 + 6 = 6 /\ 0 + 8 = 8 /\ 0 + 10 = 10 /\ 10 + 2 = 12 /\ 12 \in Nat
  OBVIOUS
<1>16. U16(0) = h.id
  BY <1>1, <1>13, <1>14 DEF i
<1>17. U16(2) = FlagsWord(h)
  BY <1>1, <1>13, <1>14, <1>15 DEF j
<1>18. U16(4) = c[1] /\ U16(6) = c[2] /\ U16(8) = c[3] /\ U16(10) = c[4]
       /\ 12 <= Size /\ Rest(12) = t
  <2>1. /\ Reads(4, W16(c[1]), t3) /\ Reads(6, W16(c[2]), t4)
        /\ Reads(8, W16(c[3]), t5) /\ Reads(10, W16(c[4]), t)
    BY <1>9, <1>10, <1>11, <1>12, <1>15 DEF w1, w2, w3, w4
  <2>2. c[1] \in Nat /\ c[2] \in Nat /\ c[3] \in Nat /\ c[4] \in Nat
    BY <1>1
  <2> QED BY <1>14, <1>15, <2>1, <2>2
<1>19. [s \in 1 .. 4 |-> U16(2 + 2 * s)] = c
  <2>1. ASSUME NEW s \in 1 .. 4 PROVE U16(2 + 2 * s) = c[s]
    <3>1. s = 1 \/ s = 2 \/ s = 3 \/ s = 4
      OBVIOUS
    <3>2. CASE s = 1
      <4>1. 2 + 2 * s = 4
        BY <3>2
      <4> QED BY <1>18, <3>2, <4>1
    <3>3. CASE s = 2
      <4>1. 2 + 2 * s = 6
        BY <3>3
      <4> QED BY <1>18, <3>3, <4>1
    <3>4. CASE s = 3
      <4>1. 2 + 2 * s = 8
        BY <3>4
      <4> QED BY <1>18, <3>4, <4>1
    <3>5. CASE s = 4
      <4>1. 2 + 2 * s = 10
        BY <3>5
      <4> QED BY <1>18, <3>5, <4>1
    <3> QED BY <3>1, <3>2, <3>3, <3>4, <3>5
  <2> QED BY <1>1, <2>1
<1>20. HeaderRead = [id |-> h.id, opcode |-> h.opcode, rescode |-> h.rescode,
                     flags |-> h.flags, counts |-> c]
  <2> DEFINE v == FlagsWord(h)
             cs == [s \in 1 .. 4 |-> U16(2 + 2 * s)]
  <2>1. (v \div 2048) % 16 = h.opcode /\ resultCodeFromNum(v % 16) = h.rescode
        /\ FlagsOf(v) = h.flags
    BY FlagsFacts
  <2>2. HeaderRead = [id |-> U16(0), opcode |-> (U16(2) \div 2048) % 16,
                      rescode |-> resultCodeFromNum(U16(2) % 16), flags |-> FlagsOf(U16(2)),
                      counts |-> cs]
    BY DEF HeaderRead
  <2>3. cs = c /\ U16(0) = h.id /\ U16(2) = v
    BY <1>16, <1>17, <1>19
  <2> HIDE DEF v, cs
  <2> QED BY <2>1, <2>2, <2>3
<1>21. HeaderRead = h
  BY <1>20 DEF Heading, DnsHeader, c
<1>22. Reads(12, Nil, t)
  BY <1>1, <1>15, <1>18, JoinNil DEF Reads
<1> QED BY <1>21, <1>22

-----------------------------------------------------------------------------
(***************************************************************************)
(* Sequences of items.                                                     *)
(***************************************************************************)
\* Induction over a sequence, with the set of the sequences it is about.
LEMMA AppendInduction ==
  ASSUME NEW S, NEW s \in Seq(S), NEW G, <<>> \in G,
         \A x \in Seq(S) : \A e \in S : x \in G => Append(x, e) \in G
  PROVE  s \in G
<1> DEFINE L == Len(s)
           upto(i) == SubSeq(s, 1, i)
           H == {i \in 0 .. L : upto(i) \in G}
<1>1. L \in Nat /\ upto(0) = <<>> /\ upto(L) = s
  OBVIOUS
<1>2. ASSUME NEW i \in 1 .. L, i - 1 \in H PROVE i \in H
  <2>1. upto(i - 1) \in Seq(S) /\ s[i] \in S
    OBVIOUS
  <2>2. upto(i) = Append(upto(i - 1), s[i])
    OBVIOUS
  <2>3. upto(i - 1) \in G
    BY <1>2
  <2> HIDE DEF upto
  <2>4. upto(i) \in G
    BY <2>1, <2>2, <2>3
  <2>5. i \in 0 .. L
    BY <1>1
  <2> QED BY <2>4, <2>5
<1>3. 0 .. L \subseteq H
  <2>1. 0 \in H
    <3> HIDE DEF upto, L
    <3>1. 0 \in 0 .. L
      BY <1>1
    <3> QED BY <1>1, <3>1
  <2> HIDE DEF H, L
  <2> QED BY <1>1, <1>2, <2>1, Induction
<1>4. L \in H
  BY <1>1, <1>3
<1> QED BY <1>1, <1>4

LEMMA FlattenJoin ==
  ASSUME NEW S, NEW s \in Seq(Seq(S)), NEW t \in Seq(Seq(S))
  PROVE  FlattenSeq(s \o t) = FlattenSeq(s) \o FlattenSeq(t)
<1> DEFINE V == Seq(S)
           P(x) == FlattenSeq(s \o x) = FlattenSeq(s) \o FlattenSeq(x)
           G == {x \in Seq(V) : P(x)}
<1>1. \A x \in Seq(V) : FlattenSeq(x) \in V
  BY FlattenType
<1>2. <<>> \in G
  <2>1. FlattenSeq(<<>>) = <<>> /\ s \o <<>> = s /\ <<>> \in Seq(V)
    BY DEF FlattenSeq
  <2>2. FlattenSeq(s) \o <<>> = FlattenSeq(s)
    BY <1>1
  <2> QED BY <2>1, <2>2
<1>3. ASSUME NEW x \in Seq(V), NEW e \in V, x \in G PROVE Append(x, e) \in G
  <2>1. s \o Append(x, e) = Append(s \o x, e) /\ s \o x \in Seq(V) /\ Append(x, e) \in Seq(V)
    <3> HIDE DEF V
    <3>1. s \in Seq(V)
      BY DEF V
    <3> QED BY <3>1
  <2>2. FlattenSeq(Append(s \o x, e)) = FlattenSeq(s \o x) \o e
    BY <2>1, FlattenAppend
  <2>3. FlattenSeq(Append(x, e)) = FlattenSeq(x) \o e
    BY FlattenAppend
  <2>4. FlattenSeq(s \o x) = FlattenSeq(s) \o FlattenSeq(x)
    BY <1>3
  <2>5. (FlattenSeq(s) \o FlattenSeq(x)) \o e = FlattenSeq(s) \o (FlattenSeq(x) \o e)
    <3>1. FlattenSeq(s) \in V /\ FlattenSeq(x) \in V
      BY <1>1
    <3> HIDE DEF P, G
    <3> QED BY <3>1
  <2>6. P(Append(x, e))
    BY <2>1, <2>2, <2>3, <2>4, <2>5, Zenon
  <2> QED BY <2>1, <2>6
<1>4. t \in Seq(V)
  OBVIOUS
<1>5. t \in G
  <2> HIDE DEF G, V
  <2> QED BY <1>2, <1>3, <1>4, AppendInduction
<1> QED BY <1>5

\* One sequence in front.
LEMMA FlattenFront ==
  ASSUME NEW S, NEW e \in Seq(S), NEW t \in Seq(Seq(S))
  PROVE  FlattenSeq(<<e>> \o t) = e \o FlattenSeq(t)
<1> DEFINE V == Seq(S)
           nil == <<>>
<1>1. nil \in Seq(V) /\ FlattenSeq(nil) = nil /\ nil \o e = e /\ Append(nil, e) = <<e>>
      /\ <<e>> \in Seq(V)
  BY DEF FlattenSeq
<1>2. FlattenSeq(<<e>>) = e
  <2>1. FlattenSeq(Append(nil, e)) = FlattenSeq(nil) \o e
    BY <1>1, FlattenAppend
  <2> HIDE DEF nil
  <2> QED BY <1>1, <2>1
<1> QED BY <1>1, <1>2, FlattenJoin

LEMMA QuestionsFront ==
  ASSUME NEW q \in Asked, NEW qs \in Seq(Asked)
  PROVE  /\ Questions(<<q>> \o qs) = Join(writeQuestion(q), Questions(qs))
         /\ Questions(qs) \in Bytes
<1> DEFINE bytes(xs) == [i \in DOMAIN xs |-> writeQuestion(xs[i])]
<1>1. \A x \in Asked : writeQuestion(x) \in Bytes
  BY QuestionFacts DEF Asked
<1>2. bytes(qs) \in Seq(Bytes)
  BY <1>1
<1>3. bytes(<<q>> \o qs) = <<writeQuestion(q)>> \o bytes(qs)
  OBVIOUS
<1>4. Questions(<<q>> \o qs) = FlattenSeq(bytes(<<q>> \o qs)) /\ Questions(qs) = FlattenSeq(bytes(qs))
  BY DEF Questions
<1> HIDE DEF bytes
<1>5. FlattenSeq(<<writeQuestion(q)>> \o bytes(qs)) = writeQuestion(q) \o FlattenSeq(bytes(qs))
  BY <1>1, <1>2, FlattenFront DEF Bytes
<1>6. Questions(qs) \in Bytes
  BY <1>2, <1>4, FlattenType DEF Bytes
<1> QED BY <1>3, <1>4, <1>5, <1>6 DEF Join

\* The same of records, of any set whose elements are written as bytes.
LEMMA RecordsFront ==
  ASSUME NEW T, \A x \in T : writeDnsRecord(x) \in Bytes,
         NEW r \in T, NEW rs \in Seq(T)
  PROVE  /\ Records(<<r>> \o rs) = Join(writeDnsRecord(r), Records(rs))
         /\ Records(Append(rs, r)) = Join(Records(rs), writeDnsRecord(r))
         /\ Records(rs) \in Bytes
<1> DEFINE bytes(xs) == [i \in DOMAIN xs |-> writeDnsRecord(xs[i])]
<1>1. bytes(rs) \in Seq(Bytes) /\ writeDnsRecord(r) \in Bytes
  OBVIOUS
<1>2. bytes(<<r>> \o rs) = <<writeDnsRecord(r)>> \o bytes(rs)
  OBVIOUS
<1>3. bytes(Append(rs, r)) = Append(bytes(rs), writeDnsRecord(r))
  OBVIOUS
<1>4. \A xs : Records(xs) = FlattenSeq(bytes(xs))
  BY DEF Records
<1> HIDE DEF bytes
<1>5. FlattenSeq(<<writeDnsRecord(r)>> \o bytes(rs)) = writeDnsRecord(r) \o FlattenSeq(bytes(rs))
  BY <1>1, FlattenFront DEF Bytes
<1>6. FlattenSeq(Append(bytes(rs), writeDnsRecord(r))) = FlattenSeq(bytes(rs)) \o writeDnsRecord(r)
  BY <1>1, FlattenAppend DEF Bytes
<1>7. Records(rs) \in Bytes
  BY <1>1, <1>4, FlattenType DEF Bytes
<1> QED BY <1>2, <1>3, <1>4, <1>5, <1>6, <1>7 DEF Join

LEMMA RecordsJoin ==
  ASSUME NEW rs \in Seq(Carried), NEW xs \in Seq(Carried)
  PROVE  Records(rs \o xs) = Join(Records(rs), Records(xs))
<1> DEFINE bytes(s) == [i \in DOMAIN s |-> writeDnsRecord(s[i])]
<1>1. \A x \in Carried : writeDnsRecord(x) \in Bytes
  BY RecordFacts
<1>2. bytes(rs) \in Seq(Bytes) /\ bytes(xs) \in Seq(Bytes)
  BY <1>1
<1>3. bytes(rs \o xs) = bytes(rs) \o bytes(xs)
  OBVIOUS
<1>4. \A s : Records(s) = FlattenSeq(bytes(s))
  BY DEF Records
<1> HIDE DEF bytes
<1>5. FlattenSeq(bytes(rs) \o bytes(xs)) = FlattenSeq(bytes(rs)) \o FlattenSeq(bytes(xs))
  BY <1>2, FlattenJoin DEF Bytes
<1> QED BY <1>3, <1>4, <1>5 DEF Join

LEMMA KnownAppend ==
  ASSUME NEW bs \in Seq(Tiny), NEW b \in Tiny
  PROVE  /\ KnownOnly(Append(bs, b))
              = IF Known(b.type) THEN Append(KnownOnly(bs), b) ELSE KnownOnly(bs)
         /\ KnownOnly(bs) \in Seq(Tiny) /\ KnownOnly(<<>>) = <<>>
<1> DEFINE one(x) == IF Known(x.type) THEN <<x>> ELSE <<>>
           ones(xs) == [i \in DOMAIN xs |-> one(xs[i])]
<1>1. \A x \in Tiny : one(x) \in Seq(Tiny)
  OBVIOUS
<1>2. \A xs : KnownOnly(xs) = FlattenSeq(ones(xs))
  BY DEF KnownOnly
<1>3. ones(<<>>) = <<>>
  OBVIOUS
<1> HIDE DEF one
<1>4. ones(bs) \in Seq(Seq(Tiny)) /\ ones(Append(bs, b)) = Append(ones(bs), one(b))
  <2>1. one(b) \in Seq(Tiny) /\ DOMAIN bs = 1 .. Len(bs) /\ Len(bs) \in Nat
    BY <1>1
  <2>2. \A i \in DOMAIN bs : one(bs[i]) \in Seq(Tiny)
    BY <1>1
  <2>3. ones(bs) \in Seq(Seq(Tiny))
    BY <2>1, <2>2
  <2>4. ones(Append(bs, b)) = Append(ones(bs), one(b))
    OBVIOUS
  <2> QED BY <2>3, <2>4
<1> HIDE DEF ones
<1>5. FlattenSeq(Append(ones(bs), one(b))) = FlattenSeq(ones(bs)) \o one(b)
  BY <1>1, <1>4, FlattenAppend
<1>6. KnownOnly(bs) \in Seq(Tiny)
  BY <1>2, <1>4, FlattenType
<1>7. KnownOnly(Append(bs, b)) = KnownOnly(bs) \o one(b)
  BY <1>2, <1>4, <1>5
<1>8. KnownOnly(bs) \o <<b>> = Append(KnownOnly(bs), b) /\ KnownOnly(bs) \o <<>> = KnownOnly(bs)
  BY <1>6
<1>9. KnownOnly(<<>>) = <<>>
  BY <1>2, <1>3 DEF FlattenSeq
<1> QED BY <1>6, <1>7, <1>8, <1>9 DEF one

\* A record as it was read; one that is written in full when its type is known.
Whole == {r \in Carried : Known(r.type) => /\ Length(r.fixed) = Fixed[r.type]
                                           /\ ~HasHost(r.type) => r.host = Nil}
Fine == {r \in Whole : Known(r.type) => /\ Writable(r.name)
                                        /\ HasHost(r.type) => Writable(r.host)}
Bareds(rs) == [i \in DOMAIN rs |-> Bared(rs[i])]

LEMMA BaredFacts ==
  ASSUME NEW r \in Carried
  PROVE  /\ Bared(r) \in Tiny /\ Bared(r).type = r.type
         /\ writeDnsRecord(Bared(r)) = writeDnsRecord(r)
         /\ r \in Fine /\ Known(r.type) => Bared(r) \in Good
<1> DEFINE b == Bared(r)
<1>1. /\ b \in Tiny /\ b.type = r.type /\ b.name = r.name /\ b.ttl = r.ttl
      /\ b.fixed = r.fixed /\ b.host = r.host
  BY DEF Bared, Tiny, Carried
<1> HIDE DEF b
<1>2. Data(b) = Data(r)
  BY <1>1 DEF Data
<1>3. writeDnsRecord(b) = writeDnsRecord(r)
  BY <1>1, <1>2 DEF writeDnsRecord, dataSize
<1>4. ASSUME r \in Fine, Known(r.type) PROVE b \in Good
  BY <1>1, <1>4 DEF Fine, Whole, Good
<1> QED BY <1>1, <1>3, <1>4 DEF b

LEMMA BaredsFacts ==
  ASSUME NEW rs \in Seq(Carried)
  PROVE  /\ Bareds(rs) \in Seq(Tiny) /\ Len(Bareds(rs)) = Len(rs)
         /\ \A r \in Carried : Bareds(Append(rs, r)) = Append(Bareds(rs), Bared(r))
<1>1. \A x \in Carried : Bared(x) \in Tiny
  BY BaredFacts
<1>2. DOMAIN rs = 1 .. Len(rs) /\ Len(rs) \in Nat /\ \A i \in DOMAIN rs : rs[i] \in Carried
  OBVIOUS
<1>3. Bareds(rs) = [i \in 1 .. Len(rs) |-> Bared(rs[i])]
  BY <1>2 DEF Bareds
<1>4. Bareds(rs) \in Seq(Tiny) /\ Len(Bareds(rs)) = Len(rs)
  BY <1>1, <1>2, <1>3
<1>5. ASSUME NEW r \in Carried PROVE Bareds(Append(rs, r)) = Append(Bareds(rs), Bared(r))
  BY DEF Bareds
<1> QED BY <1>4, <1>5

\* The records that are written are those of known types, as they are.
LEMMA Kept ==
  ASSUME NEW rs \in Seq(Fine)
  PROVE  LET kept == KnownOnly(Bareds(rs))
         IN  /\ kept \in Seq(Good) /\ Records(kept) = Records(rs) /\ Records(rs) \in Bytes
             /\ Len(kept) <= Len(rs)
<1> DEFINE kept(s) == KnownOnly(Bareds(s))
           P(s) == kept(s) \in Seq(Good) /\ Records(kept(s)) = Records(s) /\ Len(kept(s)) <= Len(s)
           G == {s \in Seq(Fine) : P(s)}
           nil == <<>>
<1>1. Fine \subseteq Carried /\ Seq(Fine) \subseteq Seq(Carried)
  BY SeqMonotonic, Zenon DEF Fine, Whole
<1>2. nil \in G
  <2>1. Bareds(nil) = nil /\ nil \in Seq(Tiny) /\ nil \in Seq(Good) /\ nil \in Seq(Fine)
    BY DEF Bareds
  <2>2. KnownOnly(nil) = nil
    BY DEF KnownOnly, FlattenSeq
  <2> HIDE DEF nil
  <2>3. kept(nil) = nil /\ Len(nil) <= Len(nil)
    BY <2>1, <2>2 DEF nil
  <2> HIDE DEF kept
  <2> QED BY <2>1, <2>3
<1>3. (\A x \in Good : writeDnsRecord(x) \in Bytes) /\ \A x \in Fine : writeDnsRecord(x) \in Bytes
  <2>1. \A x \in Good : writeDnsRecord(x) \in Bytes
    BY RecordBytes, Joined
  <2>2. \A x \in Fine : writeDnsRecord(x) \in Bytes
    BY <1>1, RecordFacts
  <2> QED BY <2>1, <2>2
<1>4. ASSUME NEW s \in Seq(Fine), NEW r \in Fine, s \in G PROVE Append(s, r) \in G
  <2> DEFINE t == Append(s, r)
             b == Bared(r)
  <2>1. s \in Seq(Carried) /\ r \in Carried /\ t \in Seq(Fine)
    BY <1>1
  <2>2. Bareds(s) \in Seq(Tiny) /\ Bareds(t) = Append(Bareds(s), b) /\ b \in Tiny /\ b.type = r.type
    BY <2>1, BaredsFacts, BaredFacts
  <2>3. kept(t) = IF Known(r.type) THEN Append(kept(s), b) ELSE kept(s)
    BY <2>2, KnownAppend
  <2>4. kept(s) \in Seq(Good) /\ Records(kept(s)) = Records(s) /\ Len(kept(s)) <= Len(s)
    BY <1>4
  <2>5. Records(t) = Join(Records(s), writeDnsRecord(r)) /\ Records(s) \in Bytes
    BY <1>3, RecordsFront
  <2>6. Len(t) = Len(s) + 1 /\ Len(s) \in Nat
    OBVIOUS
  <2> HIDE DEF kept, t, b
  <2>7. CASE Known(r.type)
    <3>1. b \in Good /\ writeDnsRecord(b) = writeDnsRecord(r)
      BY <2>1, <2>7, BaredFacts DEF b
    <3>2. Records(Append(kept(s), b)) = Join(Records(kept(s)), writeDnsRecord(b))
      BY <1>3, <2>4, <3>1, RecordsFront
    <3>3. kept(t) \in Seq(Good) /\ Len(kept(t)) = Len(kept(s)) + 1 /\ Len(kept(s)) \in Nat
      BY <2>3, <2>4, <2>7, <3>1
    <3>4. Records(kept(t)) = Records(t)
      BY <2>3, <2>4, <2>5, <2>7, <3>1, <3>2
    <3> QED BY <2>1, <2>4, <2>6, <3>3, <3>4 DEF t
  <2>8. CASE ~Known(r.type)
    <3>1. writeDnsRecord(r) = Nil
      BY <2>8 DEF writeDnsRecord, Nil
    <3>2. Records(t) = Records(s)
      BY <2>5, <3>1, JoinNil
    <3>3. kept(t) = kept(s)
      BY <2>3, <2>8
    <3>4. Len(kept(t)) <= Len(t)
      BY <2>4, <2>6, <3>3
    <3>5. P(t)
      BY <2>4, <3>2, <3>3, <3>4
    <3> QED BY <2>1, <3>5 DEF t
  <2> QED BY <2>7, <2>8
<1>5. rs \in G
  <2> HIDE DEF G
  <2> QED BY <1>2, <1>4, AppendInduction
<1>6. Records(rs) \in Bytes
  <2>1. rs \in Seq(Carried)
    BY <1>1
  <2> QED BY <2>1, RecordsFacts
<1> QED BY <1>5, <1>6

-----------------------------------------------------------------------------
(***************************************************************************)
(* A message as it arrives.                                                *)
(***************************************************************************)
\* What is read of any buffer, and what of it is written.
WholeSections == {ss \in Sections : \A s \in 2 .. 4 : ss[s] \in Seq(Whole)}
Packet(h, ss) ==
  h \in Heading /\ ss \in WholeSections /\ h.counts = [s \in 1 .. 4 |-> Len(ss[s])]
Kepts(ss) == KnownOnly(Bare(ss))

LEMMA PlainFacts ==
  ASSUME NEW ss \in WholeSections, Plain(ss), ~Unwritable(ss)
  PROVE  ss[1] \in Seq(Asked) /\ \A s \in 2 .. 4 : ss[s] \in Seq(Fine)
<1>1. ss[1] \in Seq(Question) /\ \A s \in 2 .. 4 : ss[s] \in Seq(Whole)
  BY DEF WholeSections, Sections
<1>2. \A s \in 1 .. 4 : \A i \in 1 .. Len(ss[s]) : ss[s][i] \in Range(ss[s])
  <2>1. \A s \in 1 .. 4 : DOMAIN ss[s] = 1 .. Len(ss[s])
    BY DEF WholeSections, Sections
  <2> QED BY <2>1 DEF Range
<1>3. ASSUME NEW i \in 1 .. Len(ss[1]) PROVE ss[1][i] \in Asked
  <2> DEFINE q == ss[1][i]
  <2>1. q \in Question /\ q \in Range(ss[1])
    BY <1>1, <1>2
  <2>2. NormalName(q.name) /\ ~LongLabel(q.name)
    BY <2>1 DEF Plain, Unwritable
  <2> HIDE DEF q
  <2>3. q \in Asked
    BY <2>1, <2>2 DEF Asked, Question, Writable
  <2> QED BY <2>3 DEF q
<1>4. ASSUME NEW s \in 2 .. 4, NEW i \in 1 .. Len(ss[s]) PROVE ss[s][i] \in Fine
  <2> DEFINE r == ss[s][i]
  <2>1. r \in Whole /\ r \in Range(ss[s])
    BY <1>1, <1>2
  <2>2. NormalName(r.name) /\ NormalName(r.host)
    <3>1. s \in 1 .. 4 /\ s # 1
      OBVIOUS
    <3> QED BY <2>1, <3>1 DEF Plain
  <2>3. Known(r.type) => ~LongLabel(r.name) /\ (HasHost(r.type) => ~LongLabel(r.host))
    BY <2>1 DEF Unwritable
  <2> HIDE DEF r
  <2>4. r.name \in Bytes /\ r.host \in Bytes
    BY <2>1 DEF Whole, Carried
  <2>5. r \in Fine
    BY <2>1, <2>2, <2>3, <2>4 DEF Fine, Writable
  <2> QED BY <2>5 DEF r
<1>5. ss[1] \in Seq(Asked)
  <2> DEFINE v == ss[1]
  <2>1. v \in Seq(Question) /\ \A i \in 1 .. Len(v) : v[i] \in Asked
    BY <1>1, <1>3
  <2> HIDE DEF v
  <2>2. v \in Seq(Asked)
    BY <2>1
  <2> QED BY <2>2 DEF v
<1>6. ASSUME NEW s \in 2 .. 4 PROVE ss[s] \in Seq(Fine)
  <2> DEFINE v == ss[s]
  <2>1. v \in Seq(Whole) /\ \A i \in 1 .. Len(v) : v[i] \in Fine
    BY <1>1, <1>4
  <2> HIDE DEF v
  <2>2. v \in Seq(Fine)
    BY <2>1
  <2> QED BY <2>2 DEF v
<1> QED BY <1>5, <1>6

LEMMA AllFacts ==
  ASSUME NEW ss \in Sections
  PROVE  /\ AllRecords(ss) \in Seq(Carried)
         /\ Len(AllRecords(ss)) = Len(ss[2]) + Len(ss[3]) + Len(ss[4])
         /\ Bare(ss) = Bareds(AllRecords(ss)) /\ Bare(ss) \in Seq(Tiny)
         /\ Len(Bare(ss)) = Len(AllRecords(ss))
<1> DEFINE a == ss[2]
           b == ss[3]
           c == ss[4]
<1>1. a \in Seq(Carried) /\ b \in Seq(Carried) /\ c \in Seq(Carried)
  BY DEF Sections
<1>2. AllRecords(ss) = a \o b \o c
  BY DEF AllRecords
<1> HIDE DEF a, b, c
<1>3. a \o b \o c \in Seq(Carried) /\ Len(a \o b \o c) = Len(a) + Len(b) + Len(c)
  BY <1>1
<1>4. Bare(ss) = Bareds(AllRecords(ss))
  BY DEF Bare, Bareds
<1>5. Bareds(AllRecords(ss)) \in Seq(Tiny) /\ Len(Bareds(AllRecords(ss))) = Len(AllRecords(ss))
  BY <1>2, <1>3, BaredsFacts
<1> QED BY <1>2, <1>3, <1>4, <1>5 DEF a, b, c

\* Where a packet was written the reader finds its header, then its questions
\* and the records that were kept.
LEMMA Arrival ==
  ASSUME buf \in Bytes, NEW h, NEW ss, Packet(h, ss), Plain(ss), ~Unwritable(ss),
         NEW t, Reads(0, Written(h, ss), t)
  PROVE  /\ HeaderRead = h
         /\ ss[1] \in Seq(Asked) /\ Kepts(ss) \in Seq(Good)
         /\ Reads(12, Join(Questions(ss[1]), Records(Kepts(ss))), t)
<1> DEFINE H == writeHeader(h, h.counts)
           Q == Questions(ss[1])
           a == ss[2]
           b == ss[3]
           c == ss[4]
           R == Records(AllRecords(ss))
<1>1. /\ h \in Heading /\ h \in DnsHeader /\ h.counts \in [1 .. 4 -> Nat]
      /\ h.counts = [s \in 1 .. 4 |-> Len(ss[s])] /\ ss \in WholeSections /\ ss \in Sections
      /\ t \in Bytes
  BY DEF Packet, Heading, DnsHeader, WholeSections, Reads
<1>2. ss[1] \in Seq(Asked) /\ a \in Seq(Fine) /\ b \in Seq(Fine) /\ c \in Seq(Fine)
  BY <1>1, PlainFacts
<1>3. a \in Seq(Carried) /\ b \in Seq(Carried) /\ c \in Seq(Carried) /\ ss[1] \in Seq(Question)
  BY <1>1 DEF Sections
<1>4. AllRecords(ss) = (a \o b) \o c
  BY DEF AllRecords
<1>5. Written(h, ss) = Join(Join(Join(Join(H, Q), Records(a)), Records(b)), Records(c))
  BY <1>1 DEF Written, Join
<1>6. H \in Bytes /\ Length(H) = 12
  BY <1>1, HeaderFacts
<1> HIDE DEF H, Q, a, b, c, R
<1>7. Q \in Bytes /\ Records(a) \in Bytes /\ Records(b) \in Bytes /\ Records(c) \in Bytes
  BY <1>3, QuestionsFacts, RecordsFacts DEF Q
<1>8. AllRecords(ss) \in Seq(Fine) /\ a \o b \in Seq(Carried)
  BY <1>2, <1>3, <1>4
<1>9. R = Join(Join(Records(a), Records(b)), Records(c))
  <2>1. Records((a \o b) \o c) = Join(Records(a \o b), Records(c))
    BY <1>3, <1>8, RecordsJoin
  <2>2. Records(a \o b) = Join(Records(a), Records(b))
    BY <1>3, RecordsJoin
  <2> QED BY <1>4, <2>1, <2>2 DEF R
<1>10. Kepts(ss) \in Seq(Good) /\ Records(Kepts(ss)) = R /\ R \in Bytes
  <2>1. Bare(ss) = Bareds(AllRecords(ss))
    BY DEF Bare, Bareds
  <2> QED BY <1>8, <2>1, Kept DEF Kepts, R
<1>11. Written(h, ss) = Join(H, Join(Q, R))
  <2> DEFINE x == Records(a)
             y == Records(b)
             z == Records(c)
  <2>1. x \in Bytes /\ y \in Bytes /\ z \in Bytes
    BY <1>7
  <2>2. Written(h, ss) = Join(Join(Join(Join(H, Q), x), y), z) /\ R = Join(Join(x, y), z)
    BY <1>5, <1>9
  <2> HIDE DEF x, y, z
  <2>3. Join(H, Q) \in Bytes /\ Join(x, y) \in Bytes
    BY <1>6, <1>7, <2>1, Joined
  <2>4. Join(Join(Join(H, Q), x), y) = Join(Join(H, Q), Join(x, y))
    BY <2>1, <2>3, Assoc
  <2>5. Join(Join(Join(H, Q), Join(x, y)), z) = Join(Join(H, Q), Join(Join(x, y), z))
    BY <2>1, <2>3, Assoc
  <2>6. Join(Join(H, Q), R) = Join(H, Join(Q, R))
    BY <1>6, <1>7, <1>10, Assoc
  <2> QED BY <2>2, <2>4, <2>5, <2>6
<1>12. Join(Q, R) \in Bytes
  BY <1>7, <1>10, Joined
<1>13. Reads(0, H, Join(Join(Q, R), t)) /\ Reads(0 + 12, Join(Q, R), t)
  BY <1>1, <1>6, <1>11, <1>12, ReadsOn
<1>14. HeaderRead = h
  BY <1>1, <1>13, HeaderAhead DEF H
<1>15. 0 + 12 = 12
  OBVIOUS
<1> QED BY <1>2, <1>10, <1>13, <1>14, <1>15 DEF Q

-----------------------------------------------------------------------------
(***************************************************************************)
(* What is read of any buffer can be written.                              *)
(***************************************************************************)
\* Sections fill one after the other, with items that are whole; what was read
\* first is a packet.
Proper ==
  /\ sections \in WholeSections
  /\ stage # "header" =>
       /\ header \in Heading
       /\ \A s, t \in 1 .. 4 :
            s < t /\ Len(sections[s]) < header.counts[s] => sections[t] = Nil
  /\ stage = "done" => \A s \in 1 .. 4 : Len(sections[s]) = header.counts[s]
  /\ stage = "host" => /\ item.host = Nil /\ HasHost(item.type)
                       /\ Length(item.fixed) = Fixed[item.type]
  /\ first # <<>> => Packet(first[1], first[2])

LEMMA NoneWhole == NoSections \in WholeSections /\ \A s \in 1 .. 4 : NoSections[s] = Nil
<1>1. NoSections \in Sections /\ \A s \in 1 .. 4 : NoSections[s] = Nil
  BY NothingUsed DEF NoSections, Nil
<1>2. \A s \in 2 .. 4 : NoSections[s] \in Seq(Whole)
  <2>1. Nil \in Seq(Whole) /\ \A s \in 2 .. 4 : s \in 1 .. 4
    BY DEF Nil
  <2> QED BY <1>1, <2>1
<1> QED BY <1>1, <1>2 DEF WholeSections

LEMMA ProperInit == Init => Proper
<1> SUFFICES ASSUME NEW input \in Inputs, Start(input) PROVE Proper
  BY DEF Init
<1> QED BY NoneWhole DEF Start, Proper

\* A section that is not full takes an item.
LEMMA PushProper ==
  ASSUME Typed, Proper, InItem, NEW x, Push(x), UNCHANGED <<header, first>>,
         x \in Kind(section), section # 1 => x \in Whole
  PROVE  Proper'
<1> DEFINE s == section
<1>1. Counted /\ sections \in Sections /\ header \in Heading /\ stage # "header"
  BY DEF Typed, Proper, InItem
<1>2. /\ s \in 1 .. 4 /\ Len(sections[s]) < header.counts[s]
      /\ \A r \in 1 .. s - 1 : Len(sections[r]) = header.counts[r]
  <2>1. s \in 1 .. 5 /\ s # 5 /\ (s # 5 => Len(sections[s]) < header.counts[s])
        /\ \A r \in 1 .. s - 1 : Len(sections[r]) = header.counts[r]
    BY <1>1, SectionFacts DEF Typed
  <2> QED BY <2>1
<1>3. sections' = [sections EXCEPT ![s] = Append(sections[s], x)] /\ stage' = "item"
  BY DEF Push
<1>4. sections' \in Sections
  BY PushFacts
<1> HIDE DEF s
<1>5. DOMAIN sections = 1 .. 4 /\ sections'[s] = Append(sections[s], x)
      /\ \A t \in 1 .. 4 : t # s => sections'[t] = sections[t]
  <2>1. DOMAIN sections = 1 .. 4
    BY <1>1 DEF Sections
  <2> QED BY <1>2, <1>3, <2>1
<1>6. sections' \in WholeSections
  <2>1. ASSUME NEW t \in 2 .. 4 PROVE sections'[t] \in Seq(Whole)
    <3>1. sections[t] \in Seq(Whole)
      BY DEF Proper, WholeSections
    <3>2. t = s => x \in Whole
      BY DEF s
    <3>3. \A v \in Seq(Whole) : \A y \in Whole : Append(v, y) \in Seq(Whole)
      OBVIOUS
    <3>4. t # s => sections'[t] = sections[t]
      BY <1>5
    <3>5. t = s => sections'[t] = Append(sections[t], x)
      BY <1>5
    <3> QED BY <3>1, <3>2, <3>3, <3>4, <3>5
  <2> QED BY <1>4, <2>1 DEF WholeSections
<1>7. ASSUME NEW r \in 1 .. 4, NEW t \in 1 .. 4, r < t, Len(sections'[r]) < header.counts[r]
      PROVE  sections'[t] = Nil
  <2>1. \A i \in 1 .. 4 : Len(sections[i]) \in Nat /\ header.counts[i] \in Nat
    BY <1>1 DEF Sections, Counted, DnsHeader
  <2>2. Len(sections[r]) < header.counts[r]
    <3>1. CASE r = s
      BY <1>2, <3>1
    <3>2. CASE r # s
      BY <1>5, <1>7, <3>2
    <3> QED BY <3>1, <3>2
  <2>3. sections[t] = Nil
    BY <1>1, <1>7, <2>2 DEF Proper
  <2>4. t # s
    <3>1. ASSUME t = s PROVE FALSE
      <4>1. r \in 1 .. s - 1
        BY <1>2, <1>7, <3>1
      <4>2. Len(sections[r]) = header.counts[r]
        BY <1>2, <4>1
      <4> QED BY <2>1, <2>2, <4>2
    <3> QED BY <3>1
  <2> QED BY <1>5, <2>3, <2>4
<1> QED BY <1>1, <1>3, <1>6, <1>7 DEF Proper

LEMMA ProperSame ==
  ASSUME Proper, UNCHANGED <<header, sections, first>>,
         stage # "header", stage' \notin {"header", "host", "done"}
  PROVE  Proper'
BY DEF Proper

LEMMA ProperStep == Typed /\ Proper /\ [Next]_vars => Proper'
<1> SUFFICES ASSUME Typed, Proper, [Next]_vars PROVE Proper'
  OBVIOUS
<1>1. CASE readHeader
  <2>1. /\ header' = HeaderRead /\ sections' = NoSections /\ first' = first
        /\ stage' = "item" /\ stage = "header"
    BY <1>1 DEF readHeader, HeaderRead, FlagsOf, history, Typed
  <2>2. header' \in DnsHeader
    BY <1>1, <2>1, HeaderTyped DEF Typed, Counted
  <2>3. header' \in Heading
    <3>1. header'.opcode = (U16(2) \div 2048) % 16
          /\ header'.rescode = resultCodeFromNum(U16(2) % 16)
      BY <2>1 DEF HeaderRead
    <3>2. U16(2) \in Nat
      <4>1. Size \in Nat /\ Size >= 12 /\ buf \in Bytes
        BY DEF Typed, Bytes, Size
      <4>2. 2 \in Nat /\ 2 + 1 < Size
        BY <4>1
      <4> QED BY <4>1, <4>2, ByteFacts
    <3>3. (U16(2) \div 2048) % 16 \in 0 .. 15
      BY <3>2
    <3>4. resultCodeFromNum(U16(2) % 16) \in 0 .. 5
      BY DEF resultCodeFromNum
    <3> QED BY <2>2, <3>1, <3>3, <3>4 DEF Heading
  <2> QED BY <2>1, <2>3, NoneWhole DEF Proper
<1>2. CASE nextItem
  <2>1. /\ UNCHANGED <<header, sections, first>> /\ stage # "header"
        /\ stage' \notin {"header", "host", "done"}
    BY <1>2 DEF nextItem, packet, history
  <2> QED BY <2>1, ProperSame
<1>3. CASE allRead
  <2>1. UNCHANGED <<header, sections, first>> /\ stage = "item" /\ stage' = "done" /\ section = 5
    BY <1>3 DEF allRead, packet, history
  <2>2. \A s \in 1 .. 4 : Len(sections[s]) = header.counts[s]
    <3>1. \A s \in 1 .. section - 1 : Len(sections[s]) = header.counts[s]
      BY <2>1, SectionFacts DEF Typed
    <3> QED BY <2>1, <3>1
  <2> QED BY <2>1, <2>2 DEF Proper
<1>4. CASE jumpLimit \/ endOfBuffer \/ fieldsCut
  <2>1. /\ UNCHANGED <<header, sections, first>> /\ stage # "header"
        /\ stage' \notin {"header", "host", "done"}
    BY <1>4 DEF jumpLimit, endOfBuffer, fieldsCut, Reading, Throw, packet, history
  <2> QED BY <2>1, ProperSame
<1>5. CASE jump \/ label
  <2>1. UNCHANGED <<header, sections, first, stage, item>>
    BY <1>5 DEF jump, label, packet, history
  <2> QED BY <2>1 DEF Proper
<1>6. CASE endName
  <2>1. CASE stage = "host"
    <3> DEFINE x == [item EXCEPT !.host = n.out]
    <3>1. Push(x) /\ UNCHANGED <<header, first>> /\ InItem /\ section # 1
      BY <1>6, <2>1 DEF endName, history, InItem, Typed
    <3>2. item \in Carried /\ n.out \in Bytes /\ HasHost(item.type)
          /\ Length(item.fixed) = Fixed[item.type]
      BY <2>1 DEF Typed, Proper, InItem, Naming
    <3>3. x \in Carried /\ x.type = item.type /\ x.fixed = item.fixed
      BY <3>2 DEF Carried
    <3> HIDE DEF x
    <3>4. x \in Whole /\ x \in Kind(section)
      BY <3>1, <3>2, <3>3 DEF Whole, Kind
    <3> QED BY <3>1, <3>4, PushProper
  <2>2. CASE stage # "host"
    <3>1. /\ UNCHANGED <<header, sections, first>> /\ stage # "header"
          /\ stage' \notin {"header", "host", "done"}
      BY <1>6, <2>2 DEF endName, Turn, Reading, history
    <3> QED BY <3>1, ProperSame
  <2> QED BY <2>1, <2>2
<1>7. CASE readQuestion
  <2> DEFINE x == [name |-> n.out, type |-> U16(currPos)]
  <2>1. Push(x) /\ UNCHANGED <<header, first>> /\ InItem /\ section = 1
    BY <1>7 DEF readQuestion, history, InItem
  <2>2. x \in Kind(section)
    BY <1>7, <2>1, ItemTyped DEF Kind
  <2> HIDE DEF x
  <2> QED BY <2>1, <2>2, PushProper
<1>8. CASE readUnknown
  <2>1. /\ Push(Record) /\ UNCHANGED <<header, first>> /\ InItem /\ section # 1 /\ InRecord
        /\ Record \in Carried /\ ~Known(Record.type)
    BY <1>8, FixedFacts DEF readUnknown, history
  <2>2. Record \in Whole /\ Record \in Kind(section)
    BY <2>1 DEF Whole, Kind
  <2> QED BY <2>1, <2>2, PushProper
<1>9. CASE readKnown
  <2> DEFINE r == [Record EXCEPT !.fixed = SubSeq(buf, currPos + 11, currPos + 10 + Width)]
  <2>1. /\ r \in Carried /\ r.type = U16(currPos) /\ Known(r.type) /\ Length(r.fixed) = Width
    BY <1>9, KnownFacts
  <2>2. Width = Fixed[r.type] /\ r.host = Nil
    BY <2>1 DEF Width, Record, Nil
  <2>3. IF HasHost(r.type) THEN item' = r /\ stage' = "host" /\ UNCHANGED sections ELSE Push(r)
    BY <1>9 DEF readKnown
  <2>4. UNCHANGED <<header, first>> /\ InItem /\ section # 1 /\ stage # "header"
    BY <1>9, FixedFacts DEF readKnown, history, InItem
  <2> HIDE DEF r
  <2>5. r \in Whole /\ r \in Kind(section)
    BY <2>1, <2>2, <2>4 DEF Whole, Kind
  <2>6. CASE HasHost(r.type)
    BY <2>1, <2>2, <2>3, <2>4, <2>6 DEF Proper
  <2>7. CASE ~HasHost(r.type)
    BY <2>3, <2>4, <2>5, <2>7, PushProper
  <2> QED BY <2>6, <2>7
<1>10. CASE write
  <2>1. first' = <<header, sections>> /\ stage = "done"
    BY <1>10 DEF write, packet
  <2>2. header \in Heading /\ sections \in WholeSections
        /\ \A s \in 1 .. 4 : Len(sections[s]) = header.counts[s]
    BY <2>1 DEF Proper
  <2>3. Packet(header, sections)
    <3>1. header.counts \in [1 .. 4 -> Nat]
      BY <2>2 DEF Heading, DnsHeader
    <3>2. header.counts = [s \in 1 .. 4 |-> Len(sections[s])]
      BY <2>2, <3>1
    <3> QED BY <2>2, <3>2 DEF Packet
  <2>4. Packet(first'[1], first'[2])
    BY <2>1, <2>3
  <2>5. CASE stage' = "unsent"
    <3>1. UNCHANGED <<header, sections>>
      BY <1>10, <2>5, WriteFacts DEF packet
    <3> QED BY <2>1, <2>4, <2>5, <3>1 DEF Proper
  <2>6. CASE stage' = "header"
    <3>1. sections' = NoSections
      BY <1>10, <2>6 DEF write
    <3> QED BY <2>4, <2>6, <3>1, NoneWhole DEF Proper
  <2> QED BY <1>10, <2>5, <2>6, WriteFacts
<1>11. CASE UNCHANGED vars
  BY <1>11 DEF vars, packet, history, Proper
<1> QED BY <1>1, <1>2, <1>3, <1>4, <1>5, <1>6, <1>7, <1>8, <1>9, <1>10, <1>11
    DEF Next, Step, Over

LEMMA AlwaysProper == Spec => []Proper
BY ProperInit, ProperStep, AlwaysTyped, PTL DEF Spec

-----------------------------------------------------------------------------
(***************************************************************************)
(* The second reading.                                                     *)
(***************************************************************************)
Blanks(b) == [i \in 1 .. b |-> Blank]

\* The questions qs and the records rs are left to read of what was sent; when
\* none is left, b blank records were read.
Left(qs, rs, b) ==
  /\ qs \in Seq(Asked) /\ rs \in Seq(Good) /\ b \in Nat /\ (b # 0 => rs = Nil)
  /\ header = first[1]
  /\ first[2][1] = sections[1] \o qs
  /\ Bare(sections) \o rs = Kepts(first[2]) \o Blanks(b)

Coming(qs, rs) == Join(Questions(qs), Records(rs))
Then(qs, rs, k) == Join(Coming(qs, rs), Zeros(k))

\* In an item of the name s, whose bytes behind the name are rest.
InName(s, rest, more) ==
  /\ rest \in Bytes /\ more \in Bytes
  /\ \/ stage = "name" /\ Spelled(n, s, Join(rest, more))
     \/ stage = "fields" /\ n.out = s /\ Reads(currPos, rest, more)

InHost(x, more) ==
  /\ stage = "host" /\ HasHost(x.type)
  /\ item.name = x.name /\ item.type = x.type /\ item.ttl = x.ttl /\ item.fixed = x.fixed
  /\ item.length = dataSize(x)
  /\ Reads(currPos, writeQName(x.host), more) /\ Spelled(n, x.host, more)

Arrived ==
  /\ stage = "header" /\ ~Unwritable(first[2])
  /\ \E k \in Nat : Reads(0, Written(first[1], first[2]), Zeros(k))
Between ==
  /\ stage = "item"
  /\ \E qs, rs, b : \E k \in Nat :
       Left(qs, rs, b) /\ Reads(currPos, Coming(qs, rs), Zeros(k))
InQuestion ==
  /\ section = 1
  /\ \E q \in Asked : \E qs \in Seq(Asked) : \E rs, b : \E k \in Nat :
       Left(<<q>> \o qs, rs, b) /\ InName(q.name, Asking(q), Then(qs, rs, k))
InKnown ==
  /\ section # 1
  /\ \E x \in Good : \E rs \in Seq(Good) : \E b : \E k \in Nat :
       /\ Left(Nil, <<x>> \o rs, b)
       /\ InName(x.name, Fields(x), Then(Nil, rs, k)) \/ InHost(x, Then(Nil, rs, k))

\* Behind the message, in zeros or at the end of the buffer.
InBlank ==
  /\ section # 1
  /\ \E b : Left(Nil, Nil, b)
  /\ \/ \E k \in Nat : InName(Nil, Nil, Zeros(k))
     \/ stage = "name" /\ n = Name(Size)
Finished == stage = "done" /\ \E b : Left(Nil, Nil, b)
Cut ==
  /\ stage = "threw" /\ Len(Kepts(first[2])) < Len(Bare(first[2]))
  /\ \E b : Left(Nil, Nil, b)

\* Where the reader of a packet is that was passed on.
Tracks ==
  first # <<>> /\ Plain(first[2]) /\ stage # "unsent" =>
    Arrived \/ Between \/ InQuestion \/ InKnown \/ InBlank \/ Finished \/ Cut

LEMMA LeftSame ==
  ASSUME UNCHANGED <<header, sections, first>>, NEW qs, NEW rs, NEW b, Left(qs, rs, b)
  PROVE  Left(qs, rs, b)'
BY DEF Left

\* The buffer does not change while it is read.
LEMMA NameSame ==
  ASSUME UNCHANGED buf, NEW s, NEW rest \in Bytes, NEW more \in Bytes,
         stage' = "name", Spelled(n', s, Join(rest, more))
  PROVE  InName(s, rest, more)'
BY DEF InName, Spelled, Reads, Rest, Size

LEMMA FieldsSame ==
  ASSUME UNCHANGED buf, NEW s, NEW rest \in Bytes, NEW more \in Bytes,
         stage' = "fields", n'.out = s, Reads(currPos', rest, more)
  PROVE  InName(s, rest, more)'
BY DEF InName, Reads, Rest, Size

LEMMA BetweenNext ==
  ASSUME UNCHANGED buf, stage' = "item", NEW qs, NEW rs, NEW b, NEW k \in Nat,
         Left(qs, rs, b)', Reads(currPos', Coming(qs, rs), Zeros(k))
  PROVE  Between'
<1>1. Reads(currPos, Coming(qs, rs), Zeros(k))'
  BY DEF Reads, Rest, Size
<1> QED BY <1>1 DEF Between

LEMMA ComingFacts ==
  ASSUME NEW qs \in Seq(Asked), NEW rs \in Seq(Good), NEW k \in Nat
  PROVE  /\ Coming(qs, rs) \in Bytes /\ Zeros(k) \in Bytes /\ Then(qs, rs, k) \in Bytes
         /\ Length(Zeros(k)) = k
         /\ Coming(Nil, rs) = Records(rs) /\ Coming(Nil, Nil) = Nil
         /\ \A q \in Asked : Coming(<<q>> \o qs, rs)
                               = Join(Join(writeQName(q.name), Asking(q)), Coming(qs, rs))
         /\ \A x \in Good : Coming(Nil, <<x>> \o rs)
                              = Join(Join(writeQName(x.name), Fields(x)), Coming(Nil, rs))
<1>1. \A x \in Good : writeDnsRecord(x) \in Bytes
  BY RecordBytes, Joined
<1>2. Questions(Nil) = Nil /\ Records(Nil) = Nil /\ Nil \in Seq(Good)
  BY DEF Questions, Records, Nil, FlattenSeq
<1>3. Questions(qs) \in Bytes
  <2>1. Seq(Asked) \subseteq Seq(Question)
    BY SeqMonotonic, Zenon DEF Asked
  <2> QED BY <2>1, QuestionsFacts
<1>4. Records(rs) \in Bytes
  <2> DEFINE bytes == [i \in DOMAIN rs |-> writeDnsRecord(rs[i])]
  <2>1. bytes \in Seq(Bytes)
    BY <1>1
  <2>2. FlattenSeq(bytes) \in Bytes
    BY <2>1, FlattenType DEF Bytes
  <2> QED BY <2>2 DEF Records
<1>5. Coming(qs, rs) \in Bytes
  BY <1>3, <1>4, Joined DEF Coming
<1>6. Zeros(k) \in Bytes /\ Length(Zeros(k)) = k
  BY DEF Zeros, Bytes, Length
<1>7. Then(qs, rs, k) \in Bytes
  BY <1>5, <1>6, Joined DEF Then
<1>8. Coming(Nil, rs) = Records(rs) /\ Coming(Nil, Nil) = Nil
  <2>1. Nil \in Bytes
    BY <1>3, JoinNil
  <2> QED BY <1>2, <1>4, <2>1, JoinNil DEF Coming
<1>9. ASSUME NEW q \in Asked
      PROVE  Coming(<<q>> \o qs, rs)
               = Join(Join(writeQName(q.name), Asking(q)), Coming(qs, rs))
  <2> DEFINE w == Join(writeQName(q.name), Asking(q))
  <2>1. w \in Bytes /\ writeQuestion(q) = w
    BY QuestionBytes, Joined
  <2>2. Questions(<<q>> \o qs) = Join(w, Questions(qs))
    BY <2>1, QuestionsFront
  <2> HIDE DEF w
  <2>3. Join(Join(w, Questions(qs)), Records(rs)) = Join(w, Join(Questions(qs), Records(rs)))
    BY <1>3, <1>4, <2>1, Assoc
  <2>4. Coming(<<q>> \o qs, rs) = Join(w, Coming(qs, rs))
    BY <2>2, <2>3 DEF Coming
  <2> QED BY <2>4 DEF w
<1>10. ASSUME NEW x \in Good
       PROVE  Coming(Nil, <<x>> \o rs)
                = Join(Join(writeQName(x.name), Fields(x)), Coming(Nil, rs))
  <2> DEFINE w == Join(writeQName(x.name), Fields(x))
  <2>1. w \in Bytes /\ writeDnsRecord(x) = w
    BY RecordBytes, Joined
  <2>2. Records(<<x>> \o rs) = Join(w, Records(rs))
    BY <1>1, <2>1, RecordsFront
  <2> HIDE DEF w
  <2>3. Join(w, Records(rs)) \in Bytes
    BY <1>4, <2>1, Joined
  <2>4. Coming(Nil, <<x>> \o rs) = Join(w, Records(rs))
    BY <1>2, <2>2, <2>3, JoinNil DEF Coming
  <2> QED BY <1>8, <2>4 DEF w
<1> QED BY <1>5, <1>6, <1>7, <1>8, <1>9, <1>10

\* An item begins with its name.
LEMMA NameFirst ==
  ASSUME buf \in Bytes, NEW p, NEW s, Writable(s), NEW rest \in Bytes, NEW c \in Bytes,
         NEW z \in Bytes, Reads(p, Join(Join(writeQName(s), rest), c), z)
  PROVE  Spelled(Name(p), s, Join(rest, Join(c, z)))
<1> DEFINE w == writeQName(s)
<1>1. w \in Bytes /\ p \in Nat
  BY NameBytes DEF Reads
<1> HIDE DEF w
<1>2. Join(Join(w, rest), c) = Join(w, Join(rest, c)) /\ Join(rest, c) \in Bytes
  BY <1>1, Assoc, Joined
<1>3. Reads(p, w, Join(Join(rest, c), z))
  <2>1. Reads(p, Join(w, Join(rest, c)), z)
    BY <1>2 DEF w
  <2> QED BY <1>1, <1>2, <2>1, ReadsOn
<1>4. Join(Join(rest, c), z) = Join(rest, Join(c, z))
  BY Assoc
<1>5. Reads(p, writeQName(s), Join(rest, Join(c, z)))
  BY <1>3, <1>4 DEF w
<1> QED BY <1>1, <1>5, SpellStart

LEMMA NameLabel ==
  ASSUME Typed, label, NEW s, NEW rest, NEW more, InName(s, rest, more)
  PROVE  InName(s, rest, more)'
<1>1. stage \in {"name", "host"} /\ stage' = stage /\ UNCHANGED buf
  BY DEF label, Turn, Reading
<1>2. stage = "name" /\ Spelled(n, s, Join(rest, more)) /\ rest \in Bytes /\ more \in Bytes
  BY <1>1 DEF InName
<1>3. Spelled(n', s, Join(rest, more))
  BY <1>2, SpellLabel
<1> QED BY <1>1, <1>2, <1>3, NameSame

\* Nothing left to read of a part: what comes next can be read.
LEMMA NilRead ==
  ASSUME NEW p, NEW a \in Bytes, NEW t \in Bytes, Reads(p, Nil, Join(a, t))
  PROVE  Reads(p, a, t)
<1>1. Join(a, t) \in Bytes
  BY DEF Reads
<1>2. Join(Nil, Join(a, t)) = Join(a, t)
  BY <1>1, JoinNil
<1> QED BY <1>2 DEF Reads

LEMMA NameEnd ==
  ASSUME Typed, endName, NEW s, NEW rest, NEW more, InName(s, rest, more)
  PROVE  InName(s, rest, more)' /\ stage = "name"
<1>1. stage = "name" /\ Spelled(n, s, Join(rest, more)) /\ rest \in Bytes /\ more \in Bytes
  BY DEF endName, Turn, Reading, InName
<1>2. stage' = "fields" /\ UNCHANGED <<buf, n>>
  BY <1>1 DEF endName
<1>3. n.out = s /\ Reads(currPos', Nil, Join(rest, more))
  BY <1>1, SpellEnd
<1>4. Reads(currPos', rest, more)
  BY <1>1, <1>3, NilRead
<1> QED BY <1>1, <1>2, <1>3, <1>4, FieldsSame

\* An element between two sequences.
Add(x, e) == Append(x, e)

LEMMA AddJoin == \A S, x, y, e : x \in Seq(S) /\ y \in Seq(S) /\ e \in S =>
                   Add(Join(x, y), e) = Join(x, Add(y, e))
BY DEF Join, Add

LEMMA JoinLength == \A S, T, x, y : x \in Seq(S) /\ y \in Seq(T) =>
                      Length(Join(x, y)) = Length(x) + Length(y)
BY DEF Join, Length

LEMMA JoinFirst == \A S, x, y, e : x \in Seq(S) /\ y \in Seq(S) /\ e \in S =>
                     Join(x, Join(<<e>>, y)) = Join(Add(x, e), y)
BY DEF Join, Add

\* A push, as Left sees it.
LEMMA PushQuestion ==
  ASSUME sections \in Sections, section = 1, NEW q, Push(q), UNCHANGED <<header, first>>,
         NEW qs, NEW rs, NEW b, qs \in Seq(Asked), q \in Asked, Left(<<q>> \o qs, rs, b)
  PROVE  Left(qs, rs, b)'
<1>1. sections' = [sections EXCEPT ![1] = Append(sections[1], q)]
  BY DEF Push
<1>2. DOMAIN sections = 1 .. 4 /\ sections[1] \in Seq(Question)
  BY DEF Sections
<1>3. sections'[1] = Append(sections[1], q) /\ \A t \in 2 .. 4 : sections'[t] = sections[t]
  BY <1>1, <1>2
<1>4. AllRecords(sections') = AllRecords(sections)
  <2>1. sections'[2] = sections[2] /\ sections'[3] = sections[3] /\ sections'[4] = sections[4]
    BY <1>3
  <2> QED BY <2>1, Zenon DEF AllRecords
<1>5. Bare(sections') = Bare(sections)
  BY <1>4 DEF Bare
<1>6. sections[1] \o (<<q>> \o qs) = Append(sections[1], q) \o qs
  <2>1. q \in Question /\ qs \in Seq(Question)
    <3>1. Seq(Asked) \subseteq Seq(Question)
      BY SeqMonotonic, Zenon DEF Asked
    <3> QED BY <3>1 DEF Asked
  <2>2. Join(sections[1], Join(<<q>>, qs)) = Join(Add(sections[1], q), qs)
    BY <1>2, <2>1, JoinFirst
  <2> QED BY <2>2, Zenon DEF Join, Add
<1>7. first'[2][1] = sections'[1] \o qs
  BY <1>3, <1>6 DEF Left
<1> QED BY <1>5, <1>7 DEF Left

LEMMA PushRecord ==
  ASSUME Typed, Proper, InItem, NEW r \in Carried, section # 1, Push(r),
         UNCHANGED <<header, first>>
  PROVE  /\ Bare(sections') = Append(Bare(sections), Bared(r))
         /\ Bare(sections) \in Seq(Tiny) /\ Bared(r) \in Tiny
         /\ sections'[1] = sections[1]
<1> DEFINE s == section
           a == AllRecords(sections)
<1>1. sections \in Sections /\ Counted /\ stage # "header"
  BY DEF Typed, InItem
<1>2. s \in 2 .. 4 /\ Len(sections[s]) < header.counts[s]
  <2>1. s \in 1 .. 5 /\ s # 5 /\ s # 1 /\ (s # 5 => Len(sections[s]) < header.counts[s])
    BY <1>1, SectionFacts DEF Typed
  <2> QED BY <2>1
<1>3. sections' = [sections EXCEPT ![s] = Append(sections[s], r)]
  BY DEF Push
<1> HIDE DEF s
<1>4. \A t \in 1 .. 4 : s < t => sections[t] = Nil
  BY <1>1, <1>2 DEF Proper
<1>5. /\ sections'[s] = Append(sections[s], r)
      /\ \A t \in 1 .. 4 : t # s => sections'[t] = sections[t]
  <2>1. DOMAIN sections = 1 .. 4
    BY <1>1 DEF Sections
  <2> QED BY <1>2, <1>3, <2>1
<1>6. sections[2] \in Seq(Carried) /\ sections[3] \in Seq(Carried) /\ sections[4] \in Seq(Carried)
  BY <1>1 DEF Sections
<1> DEFINE x == sections[2]
           y == sections[3]
           z == sections[4]
<1>7. AllRecords(sections') = Append(a, r)
  <2>1. CASE s = 2
    <3>1. y = Nil /\ z = Nil /\ sections'[2] = Append(x, r) /\ sections'[3] = y /\ sections'[4] = z
      BY <1>4, <1>5, <2>1
    <3> HIDE DEF x, y, z
    <3>2. Append(x, r) \o y \o z = Append(x \o y \o z, r)
      BY <1>6, <3>1 DEF x, Nil
    <3> QED BY <3>1, <3>2 DEF AllRecords, x, y, z
  <2>2. CASE s = 3
    <3>1. z = Nil /\ sections'[2] = x /\ sections'[3] = Append(y, r) /\ sections'[4] = z
      BY <1>4, <1>5, <2>2
    <3> HIDE DEF x, y, z
    <3>2. x \o Append(y, r) \o z = Append(x \o y \o z, r)
      <4>1. x \in Seq(Carried) /\ y \in Seq(Carried) /\ x \o y \in Seq(Carried)
            /\ Append(x \o y, r) \in Seq(Carried)
        BY <1>6 DEF x, y
      <4>2. x \o Append(y, r) = Append(x \o y, r)
        <5>1. Add(Join(x, y), r) = Join(x, Add(y, r))
          BY <4>1, AddJoin
        <5> QED BY <5>1, Zenon DEF Add, Join
      <4> DEFINE w == x \o y
      <4> HIDE DEF w
      <4>3. Append(w, r) \o <<>> = Append(w, r) /\ w \o <<>> = w
        BY <4>1 DEF w
      <4> QED BY <3>1, <4>2, <4>3, Zenon DEF w, Nil
    <3> QED BY <3>1, <3>2 DEF AllRecords, x, y, z
  <2>3. CASE s = 4
    <3>1. sections'[2] = x /\ sections'[3] = y /\ sections'[4] = Append(z, r)
      BY <1>5, <2>3
    <3> HIDE DEF x, y, z
    <3>2. x \o y \o Append(z, r) = Append(x \o y \o z, r)
      <4>1. x \o y \in Seq(Carried) /\ z \in Seq(Carried)
        BY <1>6 DEF x, y, z
      <4> DEFINE w == x \o y
      <4> HIDE DEF w
      <4>2. Add(Join(w, z), r) = Join(w, Add(z, r))
        <5>1. w \in Seq(Carried)
          BY <4>1, Zenon DEF w
        <5> QED BY <4>1, <5>1, AddJoin
      <4>3. Add(Join(Join(x, y), z), r) = Join(Join(x, y), Add(z, r))
        BY <4>2, Zenon DEF Join, w
      <4> QED BY <4>3, Zenon DEF Add, Join
    <3> QED BY <3>1, <3>2 DEF AllRecords, x, y, z
  <2> QED BY <1>2, <2>1, <2>2, <2>3
<1>8. a \in Seq(Carried) /\ Bare(sections) = Bareds(a) /\ Bare(sections) \in Seq(Tiny)
  BY <1>1, AllFacts
<1>9. Bare(sections') = Bareds(AllRecords(sections'))
  BY DEF Bare, Bareds
<1>10. Bareds(Append(a, r)) = Append(Bareds(a), Bared(r))
  BY <1>8, BaredsFacts
<1>11. Bared(r) \in Tiny
  BY BaredFacts
<1>12. sections'[1] = sections[1]
  BY <1>2, <1>5
<1> HIDE DEF a
<1> QED BY <1>7, <1>8, <1>9, <1>10, <1>11, <1>12

LEMMA PushKnown ==
  ASSUME Typed, Proper, InItem, NEW r \in Carried, section # 1, Push(r),
         UNCHANGED <<header, first>>,
         NEW rs \in Seq(Good), NEW b, Left(Nil, <<Bared(r)>> \o rs, b)
  PROVE  Left(Nil, rs, b)'
<1> DEFINE x == Bared(r)
           v == Bare(sections)
<1>1. Bare(sections') = Append(v, x) /\ v \in Seq(Tiny) /\ x \in Tiny /\ sections'[1] = sections[1]
  BY PushRecord
<1>2. v \o (<<x>> \o rs) = Kepts(first[2]) \o Blanks(b)
  BY DEF Left
<1>3. rs \in Seq(Tiny)
  <2>1. Seq(Good) \subseteq Seq(Tiny)
    BY SeqMonotonic, Zenon DEF Good
  <2> QED BY <2>1
<1>4. (b = 0) /\ b \in Nat
  <2>1. <<x>> \o rs # Nil
    BY <1>1, <1>3 DEF Nil
  <2> QED BY <2>1 DEF Left
<1> HIDE DEF x, v
<1>5. v \o (<<x>> \o rs) = Append(v, x) \o rs
  <2>1. Join(v, Join(<<x>>, rs)) = Join(Add(v, x), rs)
    BY <1>1, <1>3, JoinFirst
  <2> QED BY <2>1, Zenon DEF Join, Add
<1>6. Bare(sections') \o rs = Kepts(first'[2]) \o Blanks(b)
  BY <1>1, <1>2, <1>5
<1>7. first'[2][1] = sections'[1] \o Nil /\ header' = first'[1] /\ Nil \in Seq(Asked)
  BY <1>1 DEF Left
<1> QED BY <1>4, <1>6, <1>7 DEF Left

LEMMA PushBlank ==
  ASSUME Typed, Proper, InItem, NEW r \in Carried, section # 1, Push(r),
         UNCHANGED <<header, first>>, Bared(r) = Blank, NEW b, Left(Nil, Nil, b),
         Kepts(first[2]) \in Seq(Tiny)
  PROVE  Left(Nil, Nil, b + 1)'
<1> DEFINE v == Bare(sections)
           u == Kepts(first[2])
<1>1. Bare(sections') = Append(v, Blank) /\ v \in Seq(Tiny) /\ Blank \in Tiny
      /\ sections'[1] = sections[1]
  BY PushRecord
<1>2. v \o Nil = u \o Blanks(b) /\ b \in Nat
  BY DEF Left
<1> HIDE DEF v
<1>3. Append(v, Blank) = u \o Blanks(b + 1)
  <2>1. v \o Nil = v
    BY <1>1 DEF Nil
  <2>2. Blanks(b) \in Seq(Tiny) /\ Append(Blanks(b), Blank) = Blanks(b + 1)
    BY <1>1, <1>2 DEF Blanks
  <2> HIDE DEF u
  <2>3. u \in Seq(Tiny)
    BY DEF u
  <2>4. Append(u \o Blanks(b), Blank) = u \o Append(Blanks(b), Blank)
    <3>1. Add(Join(u, Blanks(b)), Blank) = Join(u, Add(Blanks(b), Blank))
      BY <1>1, <2>2, <2>3, AddJoin
    <3> QED BY <3>1, Zenon DEF Add, Join
  <2> QED BY <1>2, <2>1, <2>2, <2>4
<1>4. Append(v, Blank) \o Nil = Append(v, Blank)
  BY <1>1 DEF Nil
<1>5. Bare(sections') \o Nil = Kepts(first'[2]) \o Blanks(b + 1)
  BY <1>1, <1>3, <1>4
<1>6. first'[2][1] = sections'[1] \o Nil /\ header' = first'[1] /\ Nil \in Seq(Asked)
      /\ Nil \in Seq(Good) /\ b + 1 \in Nat
  BY <1>1, <1>2 DEF Left
<1> QED BY <1>5, <1>6 DEF Left

LEMMA KeptLength ==
  ASSUME NEW bs \in Seq(Tiny)
  PROVE  KnownOnly(bs) \in Seq(Tiny) /\ Len(KnownOnly(bs)) <= Len(bs)
<1> DEFINE P(s) == KnownOnly(s) \in Seq(Tiny) /\ Len(KnownOnly(s)) <= Len(s)
           G == {s \in Seq(Tiny) : P(s)}
           nil == <<>>
<1>1. nil \in G
  <2>1. KnownOnly(nil) = nil
    BY DEF KnownOnly, FlattenSeq
  <2>2. nil \in Seq(Tiny) /\ Len(nil) \in Nat
    OBVIOUS
  <2> HIDE DEF nil
  <2> QED BY <2>1, <2>2
<1>2. ASSUME NEW s \in Seq(Tiny), NEW e \in Tiny, s \in G PROVE Append(s, e) \in G
  <2> DEFINE k == KnownOnly(s)
             m == KnownOnly(Append(s, e))
  <2>1. k \in Seq(Tiny) /\ Len(k) <= Len(s)
    BY <1>2
  <2>2. m = IF Known(e.type) THEN Append(k, e) ELSE k
    BY KnownAppend
  <2>3. Append(s, e) \in Seq(Tiny) /\ Len(Append(s, e)) = Len(s) + 1 /\ Len(s) \in Nat
    OBVIOUS
  <2> HIDE DEF k, m
  <2>4. Append(k, e) \in Seq(Tiny) /\ Len(Append(k, e)) = Len(k) + 1 /\ Len(k) \in Nat
    BY <2>1
  <2>5. m \in Seq(Tiny) /\ Len(m) <= Len(Append(s, e))
    BY <2>1, <2>2, <2>3, <2>4
  <2> QED BY <2>3, <2>5 DEF m
<1> HIDE DEF G
<1>3. bs \in G
  BY <1>1, <1>2, AppendInduction, Zenon
<1> QED BY <1>3 DEF G

\* What was sent begins the buffer, with zeros behind it.
LEMMA TrackWrite ==
  ASSUME Typed, Proper, write, stage' # "unsent"
  PROVE  Arrived'
<1>1. first' = <<header, sections>> /\ stage = "done" /\ stage' = "header"
  BY WriteFacts DEF write, packet
<1> PICK W : W = Written(header, sections)
  OBVIOUS
<1> PICK k : k = Size - Len(W)
  OBVIOUS
<1>2. ~Unwritable(sections) /\ ~(Len(W) > Size) /\ buf' = W \o Zeros(k)
  BY <1>1 DEF write
<1>3. W \in Bytes /\ Size \in Nat /\ buf' \in Bytes
  <2>1. Counted /\ sections \in Sections
    BY <1>1 DEF Typed
  <2> QED BY <2>1, WrittenFacts, WriteFacts DEF Counted
<1>4. k \in Nat
  BY <1>2, <1>3 DEF Bytes
<1>5. Zeros(k) \in Bytes
  BY <1>4 DEF Zeros, Bytes
<1>6. buf' = Join(W, Zeros(k))
  BY <1>2 DEF Join
<1>7. SubSeq(buf', 0 + 1, Len(buf')) = buf' /\ 0 \in Nat /\ 0 <= Len(buf')
  BY <1>3 DEF Bytes
<1>8. Reads(0, W, Zeros(k))'
  BY <1>3, <1>5, <1>6, <1>7 DEF Reads, Rest, Size
<1>9. W = Written(first'[1], first'[2]) /\ ~Unwritable(first'[2])
  BY <1>1, <1>2
<1> QED BY <1>1, <1>4, <1>8, <1>9 DEF Arrived

LEMMA TrackHeader ==
  ASSUME Typed, Proper, readHeader, first # <<>>, Plain(first[2]), Arrived
  PROVE  Between'
<1> PICK h, ss : h = first[1] /\ ss = first[2]
  OBVIOUS
<1>1. PICK k \in Nat : Reads(0, Written(h, ss), Zeros(k))
  BY DEF Arrived
<1>2. Packet(h, ss) /\ ~Unwritable(ss) /\ Plain(ss) /\ buf \in Bytes
  BY DEF Proper, Arrived, Typed
<1> PICK qs, rs : qs = ss[1] /\ rs = Kepts(ss)
  OBVIOUS
<1>3. HeaderRead = h /\ qs \in Seq(Asked) /\ rs \in Seq(Good)
      /\ Reads(12, Join(Questions(qs), Records(rs)), Zeros(k))
  BY <1>1, <1>2, Arrival
<1>4. /\ header' = HeaderRead /\ sections' = NoSections /\ UNCHANGED <<first, buf>>
      /\ stage' = "item" /\ currPos' = 12
  BY DEF readHeader, HeaderRead, FlagsOf, history, Typed
<1>5. Bare(NoSections) = Nil /\ NoSections[1] = Nil
  <2>1. NoSections \in Sections /\ \A s \in 1 .. 4 : NoSections[s] = Nil
    BY NoneWhole DEF WholeSections
  <2>2. NoSections[1] = Nil /\ NoSections[2] = Nil /\ NoSections[3] = Nil /\ NoSections[4] = Nil
    BY <2>1
  <2>3. Bare(NoSections) \in Seq(Tiny) /\ Len(Bare(NoSections)) = Len(AllRecords(NoSections))
        /\ Len(AllRecords(NoSections)) = Len(Nil) + Len(Nil) + Len(Nil)
    <3>1. Len(AllRecords(NoSections))
            = Len(NoSections[2]) + Len(NoSections[3]) + Len(NoSections[4])
      BY <2>1, AllFacts
    <3> QED BY <2>1, <2>2, <3>1, AllFacts, Zenon
  <2> DEFINE v == Bare(NoSections)
  <2> HIDE DEF v
  <2>4. v = Nil
    <3>1. v \in Seq(Tiny) /\ Len(v) = Len(Nil) + Len(Nil) + Len(Nil)
      BY <2>3 DEF v
    <3> QED BY <3>1 DEF Nil
  <2> QED BY <2>2, <2>4 DEF v
<1>6. Left(qs, rs, 0)'
  <2>1. header' = first'[1] /\ 0 \in Nat
    BY <1>3, <1>4
  <2>2. first'[2][1] = sections'[1] \o qs
    <3>1. Nil \o qs = qs
      BY <1>3 DEF Nil
    <3> QED BY <1>4, <1>5, <3>1
  <2>3. Bare(sections') \o rs = Kepts(first'[2]) \o Blanks(0)
    <3>1. Blanks(0) = Nil
      BY DEF Blanks, Nil
    <3>2. Nil \o rs = rs \o Nil
      BY <1>3 DEF Nil
    <3> QED BY <1>4, <1>5, <3>1, <3>2
  <2> QED BY <1>3, <2>1, <2>2, <2>3 DEF Left
<1>7. Reads(currPos', Coming(qs, rs), Zeros(k))
  BY <1>3, <1>4 DEF Coming
<1> QED BY <1>4, <1>6, <1>7, BetweenNext

\* What is left to read, by the counts of the header.
LEMMA LeftCounts ==
  ASSUME Typed, Proper, first # <<>>, stage # "header", NEW qs, NEW rs, NEW b, Left(qs, rs, b)
  PROVE  /\ header.counts[1] = Len(sections[1]) + Len(qs)
         /\ Len(sections[2]) + Len(sections[3]) + Len(sections[4]) + Len(rs)
              = Len(Kepts(first[2])) + b
         /\ header.counts[2] + header.counts[3] + header.counts[4] = Len(Bare(first[2]))
         /\ Len(Kepts(first[2])) <= Len(Bare(first[2]))
         /\ \A s \in 1 .. 4 : /\ Len(sections[s]) \in Nat /\ header.counts[s] \in Nat
                              /\ Len(sections[s]) <= header.counts[s]
         /\ Len(qs) \in Nat /\ Len(rs) \in Nat /\ b \in Nat
         /\ Len(Kepts(first[2])) \in Nat /\ Kepts(first[2]) \in Seq(Tiny)
         /\ Len(Bare(first[2])) \in Nat
<1> DEFINE h == first[1]
           ss == first[2]
<1>1. Counted /\ sections \in Sections /\ header \in DnsHeader
  BY DEF Typed, Counted
<1>2. ss \in Sections /\ h.counts = [s \in 1 .. 4 |-> Len(ss[s])]
  BY DEF Proper, Packet, WholeSections
<1>3. /\ qs \in Seq(Asked) /\ rs \in Seq(Good) /\ b \in Nat /\ header = h
      /\ ss[1] = sections[1] \o qs /\ Bare(sections) \o rs = Kepts(ss) \o Blanks(b)
  BY DEF Left
<1>4. header.counts = [s \in 1 .. 4 |-> Len(ss[s])]
  BY <1>2, <1>3
<1> HIDE DEF h, ss
<1>5. header.counts[1] = Len(sections[1]) + Len(qs)
  <2>1. header.counts[1] = Len(ss[1])
    BY <1>4
  <2>2. sections[1] \in Seq(Question)
    BY <1>1 DEF Sections
  <2> DEFINE v == sections[1]
  <2> HIDE DEF v
  <2>3. v \in Seq(Question) /\ qs \in Seq(Asked)
    BY <1>3, <2>2 DEF v
  <2>4. Len(v \o qs) = Len(v) + Len(qs)
    BY <2>3
  <2> QED BY <1>3, <2>1, <2>4 DEF v
<1>6. header.counts[2] + header.counts[3] + header.counts[4] = Len(Bare(ss))
  <2>1. header.counts[2] = Len(ss[2]) /\ header.counts[3] = Len(ss[3])
        /\ header.counts[4] = Len(ss[4])
    BY <1>4
  <2>2. Len(AllRecords(ss)) = Len(ss[2]) + Len(ss[3]) + Len(ss[4])
        /\ Len(Bare(ss)) = Len(AllRecords(ss))
    BY <1>2, AllFacts
  <2> QED BY <2>1, <2>2
<1>7. Bare(ss) \in Seq(Tiny) /\ Bare(sections) \in Seq(Tiny)
  BY <1>1, <1>2, AllFacts
<1>8. Kepts(ss) \in Seq(Tiny) /\ Len(Kepts(ss)) <= Len(Bare(ss))
  BY <1>7, KeptLength DEF Kepts
<1>9. Len(sections[2]) + Len(sections[3]) + Len(sections[4]) + Len(rs) = Len(Kepts(ss)) + b
  <2>1. Len(Bare(sections)) = Len(sections[2]) + Len(sections[3]) + Len(sections[4])
    BY <1>1, AllFacts
  <2> DEFINE v == Bare(sections)
             u == Kepts(ss)
             w == Blanks(b)
  <2>2. w \in Seq({Blank}) /\ Len(w) = b
    BY <1>3 DEF Blanks
  <2> HIDE DEF v, u, w
  <2>3. v \in Seq(Tiny) /\ u \in Seq(Tiny) /\ rs \in Seq(Good)
    BY <1>3, <1>7, <1>8 DEF v, u
  <2>4. Len(v \o rs) = Len(v) + Len(rs)
    <3>1. Length(Join(v, rs)) = Length(v) + Length(rs)
      BY <2>3, JoinLength
    <3> QED BY <3>1, Zenon DEF Join, Length
  <2>5. Len(u \o w) = Len(u) + Len(w)
    <3>1. Length(Join(u, w)) = Length(u) + Length(w)
      BY <2>2, <2>3, JoinLength
    <3> QED BY <3>1, Zenon DEF Join, Length
  <2>6. v \o rs = u \o w
    BY <1>3 DEF v, u, w
  <2> QED BY <2>1, <2>2, <2>4, <2>5, <2>6 DEF v, u
<1>10. \A s \in 1 .. 4 : /\ Len(sections[s]) \in Nat /\ header.counts[s] \in Nat
                        /\ Len(sections[s]) <= header.counts[s]
  BY <1>1 DEF Sections, Counted, DnsHeader
<1>11. Len(qs) \in Nat /\ Len(rs) \in Nat /\ b \in Nat
  BY <1>3
<1>12. Len(Kepts(ss)) \in Nat /\ Len(Bare(ss)) \in Nat
  BY <1>7, <1>8
<1> QED BY <1>5, <1>6, <1>8, <1>9, <1>10, <1>11, <1>12 DEF ss

LEMMA TrackDone ==
  ASSUME Typed, Proper, first # <<>>, allRead, Between
  PROVE  Finished'
<1>1. PICK qs, rs, b : Left(qs, rs, b)
  BY DEF Between
<1>2. stage = "item" /\ section = 5 /\ stage' = "done" /\ UNCHANGED <<header, sections, first>>
  BY DEF allRead, packet, history
<1>3. \A r \in 1 .. 4 : Len(sections[r]) = header.counts[r]
  <2>1. \A r \in 1 .. section - 1 : Len(sections[r]) = header.counts[r]
    BY <1>2, SectionFacts DEF Typed
  <2> QED BY <1>2, <2>1
<1>4. Len(sections[1]) = header.counts[1] /\ Len(sections[2]) = header.counts[2]
      /\ Len(sections[3]) = header.counts[3] /\ Len(sections[4]) = header.counts[4]
  BY <1>3
<1>5. /\ header.counts[1] = Len(sections[1]) + Len(qs)
      /\ Len(sections[2]) + Len(sections[3]) + Len(sections[4]) + Len(rs)
              = Len(Kepts(first[2])) + b
      /\ header.counts[2] + header.counts[3] + header.counts[4] = Len(Bare(first[2]))
      /\ Len(Kepts(first[2])) <= Len(Bare(first[2]))
      /\ Len(qs) \in Nat /\ Len(rs) \in Nat /\ b \in Nat
      /\ Len(Kepts(first[2])) \in Nat /\ Len(Bare(first[2])) \in Nat
      /\ \A s \in 1 .. 4 : Len(sections[s]) \in Nat
  BY <1>1, <1>2, LeftCounts
<1>6. Len(sections[1]) \in Nat /\ Len(sections[2]) \in Nat /\ Len(sections[3]) \in Nat
      /\ Len(sections[4]) \in Nat
  BY <1>5
<1>7. Len(qs) = 0 /\ (b = 0 => Len(rs) = 0)
  BY <1>4, <1>5, <1>6
<1>8. qs \in Seq(Asked) /\ rs \in Seq(Good) /\ (b # 0 => rs = Nil)
  BY <1>1 DEF Left
<1>9. qs = Nil /\ rs = Nil
  BY <1>7, <1>8 DEF Nil
<1>10. Left(Nil, Nil, b)'
  BY <1>1, <1>2, <1>9, LeftSame
<1> QED BY <1>2, <1>10 DEF Finished

LEMMA ZerosFirst ==
  ASSUME NEW k \in Nat
  PROVE  /\ Zeros(k) \in Bytes /\ Len(Zeros(k)) = k
         /\ k # 0 => Zeros(k) = Join(<<0>>, Zeros(k - 1)) /\ k - 1 \in Nat
<1>1. \A j \in Nat : Zeros(j) \in Bytes /\ Len(Zeros(j)) = j
  BY DEF Zeros, Bytes
<1>2. ASSUME k # 0 PROVE Zeros(k) = <<0>> \o Zeros(k - 1) /\ k - 1 \in Nat
  BY <1>2 DEF Zeros
<1> QED BY <1>1, <1>2 DEF Join

LEMMA HeadTail ==
  ASSUME NEW S, NEW s \in Seq(S), s # Nil
  PROVE  \E x \in S : \E t \in Seq(S) : s = <<x>> \o t
<1>1. Head(s) \in S /\ Tail(s) \in Seq(S) /\ s = <<Head(s)>> \o Tail(s)
  BY DEF Nil
<1> QED BY <1>1

\* The next item is a question or a record that was sent, or lies behind them.
LEMMA TrackItem ==
  ASSUME Typed, Proper, first # <<>>, nextItem, Between
  PROVE  InQuestion' \/ InKnown' \/ InBlank'
<1>1. PICK qs, rs, b : \E k \in Nat : Left(qs, rs, b) /\ Reads(currPos, Coming(qs, rs), Zeros(k))
  BY DEF Between
<1>2. PICK k \in Nat : Left(qs, rs, b) /\ Reads(currPos, Coming(qs, rs), Zeros(k))
  BY <1>1
<1>3. /\ stage = "item" /\ section <= 4 /\ stage' = "name" /\ n' = Name(currPos)
      /\ UNCHANGED <<header, sections, first, buf>>
  BY DEF nextItem, packet, history
<1>4. section' = section /\ buf \in Bytes /\ currPos \in Nat /\ Size \in Nat
  BY <1>3, SectionSame DEF Typed, Bytes, Size
<1>5. section \in 1 .. 4 /\ Len(sections[section]) < header.counts[section]
      /\ (section # 1 => Len(sections[1]) = header.counts[1])
  <2>1. section \in 1 .. 5 /\ (section # 5 => Len(sections[section]) < header.counts[section])
        /\ \A r \in 1 .. section - 1 : Len(sections[r]) = header.counts[r]
    BY <1>3, SectionFacts DEF Typed
  <2> QED BY <1>3, <2>1
<1>6. /\ header.counts[1] = Len(sections[1]) + Len(qs)
      /\ Len(sections[1]) \in Nat /\ Len(qs) \in Nat
  <2>1. /\ header.counts[1] = Len(sections[1]) + Len(qs) /\ Len(qs) \in Nat
        /\ \A s \in 1 .. 4 : Len(sections[s]) \in Nat
    BY <1>2, <1>3, LeftCounts
  <2> QED BY <2>1
<1>7. qs \in Seq(Asked) /\ rs \in Seq(Good)
  BY <1>2 DEF Left
<1>8. \A s, rest, c :
        /\ Writable(s) /\ rest \in Bytes /\ c \in Bytes
        /\ Reads(currPos, Join(Join(writeQName(s), rest), c), Zeros(k))
        => InName(s, rest, Join(c, Zeros(k)))'
  <2> SUFFICES ASSUME NEW s, NEW rest, NEW c, Writable(s), rest \in Bytes, c \in Bytes,
                      Reads(currPos, Join(Join(writeQName(s), rest), c), Zeros(k))
               PROVE  InName(s, rest, Join(c, Zeros(k)))'
    OBVIOUS
  <2>1. Zeros(k) \in Bytes
    BY ZerosFirst
  <2>2. Spelled(n', s, Join(rest, Join(c, Zeros(k))))
    BY <1>3, <1>4, <2>1, NameFirst
  <2>3. Join(c, Zeros(k)) \in Bytes
    BY <2>1, Joined
  <2> QED BY <1>3, <2>2, <2>3, NameSame
<1>9. CASE section = 1
  <2>1. qs # Nil
    BY <1>5, <1>6, <1>9 DEF Nil
  <2>2. PICK q \in Asked : \E ts \in Seq(Asked) : qs = <<q>> \o ts
    BY <1>7, <2>1, HeadTail, Zenon
  <2>3. PICK ts \in Seq(Asked) : qs = <<q>> \o ts
    BY <2>2
  <2>4. Left(<<q>> \o ts, rs, b)'
    BY <1>2, <1>3, <2>3, LeftSame
  <2>5. Reads(currPos, Join(Join(writeQName(q.name), Asking(q)), Coming(ts, rs)), Zeros(k))
    BY <1>2, <1>7, <2>3, ComingFacts
  <2>6. Writable(q.name) /\ Asking(q) \in Bytes /\ Coming(ts, rs) \in Bytes
    BY <1>7, QuestionBytes, ComingFacts DEF Asked
  <2>7. InName(q.name, Asking(q), Then(ts, rs, k))'
    BY <1>8, <2>5, <2>6 DEF Then
  <2> QED BY <1>4, <1>9, <2>4, <2>7 DEF InQuestion
<1>10. CASE section # 1 /\ rs # Nil
  <2>1. qs = Nil
    BY <1>5, <1>6, <1>7, <1>10 DEF Nil
  <2>2. PICK x \in Good : \E ts \in Seq(Good) : rs = <<x>> \o ts
    BY <1>7, <1>10, HeadTail, Zenon
  <2>3. PICK ts \in Seq(Good) : rs = <<x>> \o ts
    BY <2>2
  <2>4. Left(Nil, <<x>> \o ts, b)'
    BY <1>2, <1>3, <2>1, <2>3, LeftSame
  <2>5. Reads(currPos, Join(Join(writeQName(x.name), Fields(x)), Coming(Nil, ts)), Zeros(k))
    BY <1>2, <1>7, <2>1, <2>3, ComingFacts
  <2>6. Writable(x.name) /\ Fields(x) \in Bytes /\ Coming(Nil, ts) \in Bytes
    BY <1>7, <2>1, GoodFacts, ComingFacts
  <2>7. InName(x.name, Fields(x), Then(Nil, ts, k))'
    BY <1>8, <2>5, <2>6 DEF Then
  <2> QED BY <1>4, <1>10, <2>4, <2>7 DEF InKnown
<1>11. CASE section # 1 /\ rs = Nil
  <2>1. qs = Nil
    BY <1>5, <1>6, <1>7, <1>11 DEF Nil
  <2>2. Left(Nil, Nil, b)'
    BY <1>2, <1>3, <1>11, <2>1, LeftSame
  <2>3. Reads(currPos, Nil, Zeros(k))
    BY <1>2, <1>7, <1>11, <2>1, ComingFacts
  <2>4. CASE k = 0
    <3>1. Len(Rest(currPos)) = 0 /\ currPos <= Size
      <4>1. Rest(currPos) = Zeros(k) /\ currPos <= Size
        BY <2>3, JoinNil DEF Reads
      <4> QED BY <2>4, <4>1, ZerosFirst
    <3>2. currPos = Size
      <4>1. Length(Rest(currPos)) = Size - currPos
        BY <1>4, <3>1, RestNat
      <4> QED BY <1>4, <3>1, <4>1 DEF Length
    <3>3. n' = Name(Size')
      BY <1>3, <3>2 DEF Size
    <3> QED BY <1>3, <1>4, <1>11, <2>2, <3>3 DEF InBlank
  <2>5. CASE k # 0
    <3>1. Zeros(k) = Join(<<0>>, Zeros(k - 1)) /\ k - 1 \in Nat /\ Zeros(k - 1) \in Bytes
      BY <2>5, ZerosFirst
    <3>2. Writable(Nil) /\ writeQName(Nil) = <<0>> /\ <<0>> \in Bytes /\ Nil \in Bytes
      BY NameBytes, JoinNil DEF Bytes
    <3>3. Reads(currPos, writeQName(Nil), Zeros(k - 1))
      BY <2>3, <3>1, <3>2, NilRead
    <3>4. Spelled(n', Nil, Zeros(k - 1))
      BY <1>3, <1>4, <3>2, <3>3, SpellStart
    <3>5. Join(Nil, Zeros(k - 1)) = Zeros(k - 1)
      BY <3>1, JoinNil
    <3>6. InName(Nil, Nil, Zeros(k - 1))'
      BY <1>3, <3>1, <3>2, <3>4, <3>5, NameSame
    <3> QED BY <1>4, <1>11, <2>2, <3>1, <3>6 DEF InBlank
  <2> QED BY <2>4, <2>5
<1> QED BY <1>9, <1>10, <1>11

LEMMA NameOn ==
  ASSUME Typed, NEW s, NEW rest, NEW more, InName(s, rest, more)
  PROVE  /\ ~jump /\ ~jumpLimit /\ ~endOfBuffer
         /\ stage \in {"name", "fields"} /\ rest \in Bytes /\ more \in Bytes
         /\ ~readHeader /\ ~nextItem /\ ~allRead /\ ~write
<1>1. stage \in {"name", "fields"} /\ rest \in Bytes /\ more \in Bytes
  BY DEF InName
<1>2. ~jump /\ ~jumpLimit /\ ~endOfBuffer
  <2>1. CASE stage = "name"
    BY <2>1, SpellOn DEF InName, Reading
  <2>2. CASE stage = "fields"
    BY <2>2 DEF jump, jumpLimit, endOfBuffer, Turn, Reading
  <2> QED BY <1>1, <2>1, <2>2
<1>3. ~readHeader /\ ~nextItem /\ ~allRead /\ ~write
  BY <1>1 DEF readHeader, nextItem, allRead, write
<1> QED BY <1>1, <1>2, <1>3

LEMMA TrackQuestion ==
  ASSUME Typed, Proper, first # <<>>, InQuestion, Step
  PROVE  InQuestion' \/ Between'
<1>1. section = 1 /\ \E q \in Asked : \E qs \in Seq(Asked) : \E rs, b : \E k \in Nat :
        Left(<<q>> \o qs, rs, b) /\ InName(q.name, Asking(q), Then(qs, rs, k))
  BY DEF InQuestion
<1>2. PICK q \in Asked : \E qs \in Seq(Asked) : \E rs, b : \E k \in Nat :
        Left(<<q>> \o qs, rs, b) /\ InName(q.name, Asking(q), Then(qs, rs, k))
  BY <1>1
<1>3. PICK qs \in Seq(Asked) : \E rs, b : \E k \in Nat :
        Left(<<q>> \o qs, rs, b) /\ InName(q.name, Asking(q), Then(qs, rs, k))
  BY <1>2
<1>4. PICK rs, b : \E k \in Nat :
        Left(<<q>> \o qs, rs, b) /\ InName(q.name, Asking(q), Then(qs, rs, k))
  BY <1>3
<1>5. PICK k \in Nat : Left(<<q>> \o qs, rs, b) /\ InName(q.name, Asking(q), Then(qs, rs, k))
  BY <1>4
<1>6. /\ ~jump /\ ~jumpLimit /\ ~endOfBuffer /\ stage \in {"name", "fields"}
      /\ ~readHeader /\ ~nextItem /\ ~allRead /\ ~write
      /\ Asking(q) \in Bytes /\ Then(qs, rs, k) \in Bytes
  BY <1>5, NameOn
<1>7. ~readUnknown /\ ~readKnown
  BY <1>1 DEF readUnknown, readKnown, InRecord
<1>8. rs \in Seq(Good) /\ buf \in Bytes /\ sections \in Sections
  BY <1>5 DEF Left, Typed
<1>9. ASSUME label \/ endName PROVE InQuestion'
  <2>1. InName(q.name, Asking(q), Then(qs, rs, k))' /\ (endName => stage = "name")
    BY <1>5, <1>9, NameLabel, NameEnd
  <2>2. UNCHANGED <<header, sections, first>>
    BY <1>9, <2>1 DEF label, endName, packet, history
  <2>3. Left(<<q>> \o qs, rs, b)' /\ section' = 1
    BY <1>1, <1>5, <2>2, LeftSame, SectionSame
  <2> QED BY <2>1, <2>3 DEF InQuestion
<1>10. stage = "fields" => /\ n.out = q.name /\ U16(currPos) = q.type /\ Has(4)
                          /\ Reads(currPos + 4, Nil, Then(qs, rs, k))
  <2> HAVE stage = "fields"
  <2>1. n.out = q.name /\ Reads(currPos, Asking(q), Then(qs, rs, k))
    BY <1>5 DEF InName
  <2> QED BY <1>6, <1>8, <2>1, AskingAhead DEF Has
<1>11. ~fieldsCut
  BY <1>1, <1>10 DEF fieldsCut
<1>12. ASSUME readQuestion PROVE Between'
  <2>1. stage = "fields" /\ currPos' = currPos + 4 /\ UNCHANGED <<header, first, buf>>
        /\ Push([name |-> n.out, type |-> U16(currPos)])
    BY <1>12 DEF readQuestion, history
  <2>2. [name |-> n.out, type |-> U16(currPos)] = q
    BY <1>10, <2>1 DEF Asked, Question
  <2>3. Left(qs, rs, b)'
    BY <1>1, <1>5, <1>8, <2>1, <2>2, PushQuestion
  <2>4. Coming(qs, rs) \in Bytes /\ Zeros(k) \in Bytes
    BY <1>8, ComingFacts
  <2>5. Reads(currPos', Coming(qs, rs), Zeros(k))
    BY <1>10, <2>1, <2>4, NilRead DEF Then
  <2>6. stage' = "item"
    BY <2>1 DEF Push
  <2> QED BY <2>1, <2>3, <2>5, <2>6, BetweenNext
<1> QED BY <1>6, <1>7, <1>9, <1>11, <1>12 DEF Step

LEMMA HostSame ==
  ASSUME UNCHANGED buf, stage' = "host", NEW x, NEW more, HasHost(x.type),
         item'.name = x.name, item'.type = x.type, item'.ttl = x.ttl, item'.fixed = x.fixed,
         item'.length = dataSize(x),
         Reads(currPos', writeQName(x.host), more), Spelled(n', x.host, more)
  PROVE  InHost(x, more)'
BY DEF InHost, Spelled, Reads, Rest, Size

\* A record that was read is the one that was sent, but for its length.
LEMMA SameRecord ==
  ASSUME NEW r \in Carried, NEW x \in Good, r.name = x.name, r.type = x.type, r.ttl = x.ttl,
         r.fixed = x.fixed, r.host = x.host
  PROVE  Bared(r) = x
BY DEF Bared, Good, Tiny, Carried

\* In the host of a record that was sent.
LEMMA TrackHost ==
  ASSUME Typed, Proper, first # <<>>, Step, NEW x \in Good, NEW rs \in Seq(Good), NEW b,
         NEW k \in Nat, Left(Nil, <<x>> \o rs, b), InHost(x, Then(Nil, rs, k))
  PROVE  InKnown' \/ Between'
<1> DEFINE T == Then(Nil, rs, k)
<1>1. /\ stage = "host" /\ HasHost(x.type)
      /\ item.name = x.name /\ item.type = x.type /\ item.ttl = x.ttl /\ item.fixed = x.fixed
      /\ item.length = dataSize(x)
      /\ Reads(currPos, writeQName(x.host), T) /\ Spelled(n, x.host, T)
  BY DEF InHost
<1>2. item \in Carried /\ section # 1 /\ InItem
  BY <1>1 DEF Typed, InItem
<1>3. ~jump /\ ~jumpLimit /\ ~endOfBuffer
  BY <1>1, SpellOn DEF Reading
<1>4. /\ ~readHeader /\ ~nextItem /\ ~allRead /\ ~write /\ ~readQuestion /\ ~readUnknown
      /\ ~readKnown /\ ~fieldsCut
  BY <1>1 DEF readHeader, nextItem, allRead, write, readQuestion, readUnknown, readKnown,
              fieldsCut, InRecord
<1>5. ASSUME label PROVE InKnown'
  <2>1. UNCHANGED <<header, sections, first, buf, stage, item, currPos>>
    BY <1>5 DEF label, packet, history
  <2>2. Spelled(n', x.host, T)
    BY <1>1, <1>5, SpellLabel
  <2> HIDE DEF T
  <2>3. InHost(x, T)'
    BY <1>1, <2>1, <2>2, HostSame
  <2>4. Left(Nil, <<x>> \o rs, b)' /\ section' # 1
    BY <1>2, <2>1, LeftSame, SectionSame
  <2> QED BY <2>3, <2>4 DEF InKnown, T
<1>6. ASSUME endName PROVE Between'
  <2> PICK r : r = [item EXCEPT !.host = n.out]
    OBVIOUS
  <2>1. Push(r) /\ UNCHANGED <<header, first, buf>>
    BY <1>1, <1>6 DEF endName, history
  <2>2. n.out = x.host /\ Reads(currPos', Nil, T)
    BY <1>1, <1>6, SpellEnd
  <2>3. r \in Carried /\ Bared(r) = x
    <3>1. x.host \in Bytes
      BY GoodFacts
    <3>2. /\ r \in Carried /\ r.name = x.name /\ r.type = x.type /\ r.ttl = x.ttl
          /\ r.fixed = x.fixed /\ r.host = x.host
      BY <1>1, <1>2, <2>2, <3>1 DEF Carried
    <3> QED BY <3>2, SameRecord
  <2>4. Left(Nil, rs, b)'
    BY <1>2, <2>1, <2>3, PushKnown
  <2>5. Nil \in Seq(Asked)
    BY DEF Nil
  <2>6. Coming(Nil, rs) \in Bytes /\ Zeros(k) \in Bytes
    BY <2>5, ComingFacts
  <2>7. Reads(currPos', Coming(Nil, rs), Zeros(k))
    BY <2>2, <2>6, NilRead DEF Then
  <2>8. stage' = "item"
    BY <2>1 DEF Push
  <2> QED BY <2>1, <2>4, <2>7, <2>8, BetweenNext
<1> QED BY <1>3, <1>4, <1>5, <1>6 DEF Step

\* In a record that was sent.
LEMMA TrackKnown ==
  ASSUME Typed, Proper, first # <<>>, Step, NEW x \in Good, NEW rs \in Seq(Good), NEW b,
         NEW k \in Nat, Left(Nil, <<x>> \o rs, b), section # 1,
         InName(x.name, Fields(x), Then(Nil, rs, k))
  PROVE  InKnown' \/ Between'
<1> DEFINE T == Then(Nil, rs, k)
<1>1. /\ ~jump /\ ~jumpLimit /\ ~endOfBuffer /\ stage \in {"name", "fields"}
      /\ ~readHeader /\ ~nextItem /\ ~allRead /\ ~write /\ ~readQuestion
      /\ Fields(x) \in Bytes /\ T \in Bytes
  BY NameOn DEF readQuestion
<1>2. buf \in Bytes /\ currPos \in Nat /\ InItem
  BY <1>1 DEF Typed, InItem
<1>3. ASSUME label \/ endName PROVE InKnown'
  <2>1. InName(x.name, Fields(x), T)' /\ (endName => stage = "name")
    BY <1>3, NameLabel, NameEnd
  <2>2. UNCHANGED <<header, sections, first>>
    BY <1>3, <2>1 DEF label, endName, packet, history
  <2>3. Left(Nil, <<x>> \o rs, b)' /\ section' # 1
    BY <2>2, LeftSame, SectionSame
  <2> QED BY <2>1, <2>3 DEF InKnown
<1>4. ASSUME stage = "fields"
      PROVE  /\ n.out = x.name /\ currPos + 10 <= Size /\ currPos + 10 + Width <= Size
             /\ U16(currPos) = x.type /\ Known(x.type) /\ Width = Fixed[x.type]
             /\ U32(currPos + 4) = x.ttl /\ U16(currPos + 8) = dataSize(x)
             /\ SubSeq(buf, currPos + 11, currPos + 10 + Width) = x.fixed
             /\ Reads(currPos + 10 + Width, Host(x), T)
  <2>1. n.out = x.name /\ Reads(currPos, Fields(x), T)
    BY <1>4 DEF InName
  <2>2. /\ currPos + 10 <= Size /\ currPos + 10 + Fixed[x.type] <= Size
        /\ U16(currPos) = x.type /\ U32(currPos + 4) = x.ttl /\ U16(currPos + 8) = dataSize(x)
        /\ SubSeq(buf, currPos + 11, currPos + 10 + Fixed[x.type]) = x.fixed
        /\ Reads(currPos + 10 + Fixed[x.type], Host(x), T)
    BY <1>2, <2>1, FieldsAhead
  <2>3. Known(x.type) /\ Width = Fixed[x.type]
    BY <2>2, GoodFacts DEF Width
  <2> QED BY <2>1, <2>2, <2>3
<1>5. ~fieldsCut /\ ~readUnknown
  <2>1. ASSUME stage = "fields" PROVE Has(10) /\ Has(10 + Width) /\ Known(U16(currPos))
    <3>1. Width \in Nat /\ Size \in Nat
      <4>1. Width = Fixed[x.type] /\ Fixed[x.type] \in Nat
        BY <1>4, <2>1, GoodFacts
      <4>2. Size \in Nat
        BY <1>2 DEF Bytes, Size
      <4> QED BY <4>1, <4>2
    <3>2. currPos + 10 <= Size /\ currPos + 10 + Width <= Size /\ Known(U16(currPos))
      BY <1>4, <2>1
    <3> DEFINE w == Width
    <3> HIDE DEF w
    <3>3. currPos + (10 + w) <= Size
      BY <1>2, <3>1, <3>2 DEF w
    <3> QED BY <3>2, <3>3 DEF Has, w
  <2>2. ~fieldsCut
    BY <2>1, Zenon DEF fieldsCut
  <2>3. ~readUnknown
    BY <2>1, Zenon DEF readUnknown, InRecord
  <2> QED BY <2>2, <2>3
<1>6. ASSUME readKnown PROVE InKnown' \/ Between'
  <2> PICK r : r = [Record EXCEPT !.fixed = SubSeq(buf, currPos + 11, currPos + 10 + Width)]
    OBVIOUS
  <2>1. stage = "fields" /\ currPos' = currPos + 10 + Width /\ UNCHANGED <<header, first, buf>>
    BY <1>6 DEF readKnown, InRecord, history
  <2>2. r \in Carried /\ r.name = n.out /\ r.type = U16(currPos) /\ Width \in Nat
    BY <1>6, KnownFacts
  <2>3. /\ r.ttl = U32(currPos + 4) /\ r.length = U16(currPos + 8) /\ r.host = Nil
        /\ r.fixed = SubSeq(buf, currPos + 11, currPos + 10 + Width)
    BY DEF Record, Nil
  <2>4. /\ r.name = x.name /\ r.type = x.type /\ r.ttl = x.ttl /\ r.fixed = x.fixed
        /\ r.length = dataSize(x) /\ Reads(currPos', Host(x), T)
    BY <1>4, <2>1, <2>2, <2>3
  <2>5. IF HasHost(r.type)
        THEN item' = r /\ n' = Name(currPos') /\ stage' = "host" /\ UNCHANGED sections
        ELSE Push(r)
    BY <1>6 DEF readKnown
  <2>6. currPos' \in Nat
    BY <1>2, <2>1, <2>2
  <2>7. CASE HasHost(x.type)
    <3>1. Writable(x.host) /\ Host(x) = writeQName(x.host)
      BY <2>7, GoodFacts DEF Host
    <3>2. item' = r /\ n' = Name(currPos') /\ stage' = "host" /\ UNCHANGED sections
      BY <2>4, <2>5, <2>7
    <3>3. Reads(currPos', writeQName(x.host), T)
      BY <2>4, <3>1
    <3>4. Spelled(Name(currPos'), x.host, T)
      BY <2>6, <3>1, <3>3, SpellStart
    <3> HIDE DEF T
    <3>5. InHost(x, T)'
      BY <2>1, <2>4, <2>7, <3>2, <3>3, <3>4, HostSame
    <3>6. Left(Nil, <<x>> \o rs, b)' /\ section' # 1
      BY <2>1, <3>2, LeftSame, SectionSame
    <3> QED BY <3>5, <3>6 DEF InKnown, T
  <2>8. CASE ~HasHost(x.type)
    <3>1. x.host = Nil /\ Host(x) = Nil
      BY <2>8, GoodFacts DEF Host
    <3>2. Push(r) /\ r.host = x.host
      BY <2>3, <2>4, <2>5, <2>8, <3>1
    <3>3. Bared(r) = x
      BY <2>2, <2>4, <3>2, SameRecord
    <3>4. Left(Nil, rs, b)'
      BY <1>2, <2>1, <2>2, <3>2, <3>3, PushKnown
    <3>5. Nil \in Seq(Asked)
      BY DEF Nil
    <3>6. Coming(Nil, rs) \in Bytes /\ Zeros(k) \in Bytes
      BY <3>5, ComingFacts
    <3>7. Reads(currPos', Coming(Nil, rs), Zeros(k))
      BY <2>4, <3>1, <3>6, NilRead DEF Then
    <3>8. stage' = "item"
      BY <3>2 DEF Push
    <3> QED BY <2>1, <3>4, <3>7, <3>8, BetweenNext
  <2> QED BY <2>7, <2>8
<1> QED BY <1>1, <1>3, <1>5, <1>6 DEF Step

\* Zeros, read as numbers.
LEMMA ZerosAhead ==
  ASSUME buf \in Bytes, NEW p, NEW k \in Nat, Reads(p, Nil, Zeros(k)), p + 10 <= Size
  PROVE  /\ p \in Nat /\ U16(p) = 0 /\ U32(p + 4) = 0 /\ U16(p + 8) = 0
         /\ k - 10 \in Nat /\ Reads(p + 10, Nil, Zeros(k - 10))
<1>1. p \in Nat /\ p <= Size /\ Rest(p) = Zeros(k) /\ Size \in Nat
  BY ZerosFirst, JoinNil DEF Reads, Bytes, Size
<1>2. Size - p = k
  BY <1>1, RestNat, ZerosFirst DEF Length
<1>3. \A i \in 1 .. Size - p : Rest(p)[i] = Get(p + i - 1)
  BY <1>1, RestNat
<1>4. \A i \in 1 .. k : Get(p + i - 1) = 0
  BY <1>1, <1>2, <1>3 DEF Zeros
<1>5. \A j \in 0 .. 9 : Get(p + j) = 0
  <2>1. ASSUME NEW j \in 0 .. 9 PROVE Get(p + j) = 0
    <3>1. j + 1 \in 1 .. k /\ p + (j + 1) - 1 = p + j
      BY <1>1, <1>2
    <3> QED BY <1>4, <3>1
  <2> QED BY <2>1
<1>6. /\ Get(p) = 0 /\ Get(p + 1) = 0 /\ Get(p + 4) = 0 /\ Get(p + 5) = 0 /\ Get(p + 6) = 0
      /\ Get(p + 7) = 0 /\ Get(p + 8) = 0 /\ Get(p + 9) = 0
  <2>1. Get(p + 0) = 0 /\ Get(p + 1) = 0 /\ Get(p + 4) = 0 /\ Get(p + 5) = 0 /\ Get(p + 6) = 0
        /\ Get(p + 7) = 0 /\ Get(p + 8) = 0 /\ Get(p + 9) = 0
    <3>1. 0 \in 0 .. 9 /\ 1 \in 0 .. 9 /\ 4 \in 0 .. 9 /\ 5 \in 0 .. 9 /\ 6 \in 0 .. 9
          /\ 7 \in 0 .. 9 /\ 8 \in 0 .. 9 /\ 9 \in 0 .. 9
      OBVIOUS
    <3> QED BY <1>5, <3>1, Zenon
  <2>2. p + 0 = p
    BY <1>1
  <2> QED BY <2>1, <2>2
<1>7. U16(p) = 0 /\ U16(p + 8) = 0 /\ U32(p + 4) = 0
  <2>1. /\ p + 4 + 1 = p + 5 /\ p + 4 + 2 = p + 6 /\ p + 6 + 1 = p + 7 /\ p + 8 + 1 = p + 9
    BY <1>1
  <2>2. U16(p) = 256 * 0 + 0 /\ U16(p + 8) = 256 * 0 + 0 /\ U16(p + 4) = 256 * 0 + 0
        /\ U16(p + 6) = 256 * 0 + 0
    <3>1. /\ U16(p) = 256 * Get(p) + Get(p + 1)
          /\ U16(p + 8) = 256 * Get(p + 8) + Get(p + 8 + 1)
          /\ U16(p + 4) = 256 * Get(p + 4) + Get(p + 4 + 1)
          /\ U16(p + 6) = 256 * Get(p + 6) + Get(p + 6 + 1)
      BY DEF U16
    <3>2. Get(p + 8 + 1) = 0 /\ Get(p + 4 + 1) = 0 /\ Get(p + 6 + 1) = 0
      BY <1>6, <2>1
    <3> QED BY <1>6, <3>1, <3>2
  <2>3. U16(p) = 0 /\ U16(p + 8) = 0 /\ U16(p + 4) = 0 /\ U16(p + 6) = 0
    BY <2>2
  <2>4. U32(p + 4) = 65536 * 0 + 0
    <3>1. U32(p + 4) = 65536 * U16(p + 4) + U16(p + 4 + 2)
      BY DEF U32
    <3>2. U16(p + 4 + 2) = 0
      BY <2>1, <2>3, Zenon
    <3> QED BY <2>3, <3>1, <3>2
  <2> QED BY <2>3, <2>4
<1>8. k - 10 \in Nat /\ p + 10 \in Nat
  BY <1>1, <1>2
<1>9. Rest(p + 10) = Zeros(k - 10)
  <2>1. Rest(p + 10) = SubSeq(Zeros(k), 11, k)
    <3>1. 10 \in 0 .. Size - p
      BY <1>1, <1>2, <1>8
    <3>2. Rest(p + 10) = SubSeq(Rest(p), 10 + 1, Size - p)
      BY <1>1, <3>1, RestNat
    <3> QED BY <1>1, <1>2, <3>2
  <2>2. SubSeq(Zeros(k), 11, k) = Zeros(k - 10)
    BY <1>8 DEF Zeros
  <2> QED BY <2>1, <2>2
<1>10. Zeros(k - 10) \in Bytes /\ Nil \in Bytes /\ Join(Nil, Zeros(k - 10)) = Zeros(k - 10)
  BY <1>8, ZerosFirst, JoinNil
<1> QED BY <1>1, <1>7, <1>8, <1>9, <1>10 DEF Reads

LEMMA SumLess ==
  \A a, b, c, x, y, z, u, v :
    /\ a \in Nat /\ b \in Nat /\ c \in Nat /\ x \in Nat /\ y \in Nat /\ z \in Nat
    /\ u \in Nat /\ v \in Nat
    /\ a <= x /\ b <= y /\ c <= z /\ (a < x \/ b < y \/ c < z)
    /\ a + b + c + 0 = u + v
    => u < x + y + z
OBVIOUS

\* A blank record is read while the records sent are fewer than their counts.
LEMMA BlankShort ==
  ASSUME Typed, Proper, first # <<>>, InItem, section # 1, NEW b, Left(Nil, Nil, b)
  PROVE  Len(Kepts(first[2])) < Len(Bare(first[2]))
<1>1. section \in 2 .. 4 /\ Len(sections[section]) < header.counts[section]
  <2>1. /\ section \in 1 .. 5 /\ section # 5
        /\ section # 5 => Len(sections[section]) < header.counts[section]
    BY SectionFacts DEF Typed, InItem
  <2> QED BY <2>1
<1>2. /\ Len(sections[2]) + Len(sections[3]) + Len(sections[4]) + Len(Nil)
              = Len(Kepts(first[2])) + b
      /\ header.counts[2] + header.counts[3] + header.counts[4] = Len(Bare(first[2]))
      /\ b \in Nat /\ Len(Kepts(first[2])) \in Nat
      /\ \A s \in 1 .. 4 : /\ Len(sections[s]) \in Nat /\ header.counts[s] \in Nat
                           /\ Len(sections[s]) <= header.counts[s]
  BY LeftCounts DEF InItem
<1>3. /\ Len(sections[2]) \in Nat /\ header.counts[2] \in Nat /\ Len(sections[2]) <= header.counts[2]
      /\ Len(sections[3]) \in Nat /\ header.counts[3] \in Nat /\ Len(sections[3]) <= header.counts[3]
      /\ Len(sections[4]) \in Nat /\ header.counts[4] \in Nat /\ Len(sections[4]) <= header.counts[4]
      /\ Len(Nil) = 0
  BY <1>2 DEF Nil
<1>4. Len(sections[2]) < header.counts[2] \/ Len(sections[3]) < header.counts[3]
      \/ Len(sections[4]) < header.counts[4]
  BY <1>1
<1> PICK l2, l3, l4 : l2 = Len(sections[2]) /\ l3 = Len(sections[3]) /\ l4 = Len(sections[4])
  OBVIOUS
<1> PICK c2, c3, c4 : c2 = header.counts[2] /\ c3 = header.counts[3] /\ c4 = header.counts[4]
  OBVIOUS
<1> PICK u, m : u = Len(Kepts(first[2])) /\ m = Len(Bare(first[2]))
  OBVIOUS
<1>5. /\ l2 \in Nat /\ c2 \in Nat /\ l2 <= c2 /\ l3 \in Nat /\ c3 \in Nat /\ l3 <= c3
      /\ l4 \in Nat /\ c4 \in Nat /\ l4 <= c4 /\ u \in Nat /\ b \in Nat
      /\ (l2 < c2 \/ l3 < c3 \/ l4 < c4)
  BY <1>2, <1>3, <1>4, Zenon
<1>6. l2 + l3 + l4 + 0 = u + b /\ c2 + c3 + c4 = m
  BY <1>2, <1>3, Zenon
<1>7. u < m
  BY <1>5, <1>6, SumLess, Zenon
<1> QED BY <1>7, Zenon

\* In a blank record, behind what was sent.
LEMMA TrackBlank ==
  ASSUME Typed, Proper, first # <<>>, Step, InBlank
  PROVE  InBlank' \/ Between' \/ Cut'
<1>1. PICK b : Left(Nil, Nil, b)
  BY DEF InBlank
<1>2. /\ section # 1
      /\ (\E k \in Nat : InName(Nil, Nil, Zeros(k))) \/ (stage = "name" /\ n = Name(Size))
  BY DEF InBlank
<1>3. buf \in Bytes /\ Size \in Nat /\ currPos \in Nat
  BY DEF Typed, Bytes, Size
<1>4. stage \in {"name", "fields"} /\ InItem
  BY <1>2, NameOn DEF InItem
<1>5. ~readHeader /\ ~nextItem /\ ~allRead /\ ~write /\ ~readQuestion
  BY <1>2, <1>4 DEF readHeader, nextItem, allRead, write, readQuestion
<1>6. ASSUME Throw PROVE Cut'
  <2>1. UNCHANGED <<header, sections, first>> /\ stage' = "threw"
    BY <1>6 DEF Throw, packet, history
  <2>2. Left(Nil, Nil, b)'
    BY <1>1, <2>1, LeftSame
  <2>3. Len(Kepts(first[2])) < Len(Bare(first[2]))
    BY <1>1, <1>2, <1>4, BlankShort
  <2> QED BY <2>1, <2>2, <2>3 DEF Cut
<1>7. CASE stage = "name" /\ n = Name(Size)
  <2>1. n.pos = Size /\ n.jumps = 0
    BY <1>3, <1>7, StartName
  <2>2. OutOfRange
    BY <1>3, <2>1 DEF OutOfRange
  <2>3. ~jump /\ ~label /\ ~endName /\ ~jumpLimit
    BY <2>1, <2>2, WireAssumption DEF jump, label, endName, Turn, jumpLimit
  <2>4. ~readUnknown /\ ~readKnown /\ ~fieldsCut
    BY <1>7 DEF readUnknown, readKnown, fieldsCut, InRecord
  <2>5. endOfBuffer
    BY <1>5, <2>3, <2>4 DEF Step
  <2>6. Throw
    BY <2>5 DEF endOfBuffer
  <2> QED BY <1>6, <2>6
<1>8. CASE \E k \in Nat : InName(Nil, Nil, Zeros(k))
  <2>1. PICK k \in Nat : InName(Nil, Nil, Zeros(k))
    BY <1>8
  <2>2. ~jump /\ ~jumpLimit /\ ~endOfBuffer
    BY <2>1, NameOn
  <2>3. ASSUME label \/ endName PROVE InBlank'
    <3>1. InName(Nil, Nil, Zeros(k))' /\ (endName => stage = "name")
      BY <2>1, <2>3, NameLabel, NameEnd
    <3>2. UNCHANGED <<header, sections, first>>
      BY <2>3, <3>1 DEF label, endName, packet, history
    <3>3. Left(Nil, Nil, b)' /\ section' # 1
      BY <1>1, <1>2, <3>2, LeftSame, SectionSame
    <3> QED BY <3>1, <3>3 DEF InBlank
  <2>4. ASSUME stage = "fields", Has(10)
        PROVE  /\ n.out = Nil /\ U16(currPos) = 0 /\ U32(currPos + 4) = 0
               /\ U16(currPos + 8) = 0 /\ k - 10 \in Nat
               /\ Reads(currPos + 10, Nil, Zeros(k - 10)) /\ ~Known(U16(currPos))
    <3>1. n.out = Nil /\ Reads(currPos, Nil, Zeros(k))
      BY <2>1, <2>4 DEF InName
    <3>2. /\ U16(currPos) = 0 /\ U32(currPos + 4) = 0 /\ U16(currPos + 8) = 0
          /\ k - 10 \in Nat /\ Reads(currPos + 10, Nil, Zeros(k - 10))
      BY <1>3, <2>4, <3>1, ZerosAhead DEF Has
    <3>3. ~Known(0)
      BY DEF Known, Fixed, A, NS, CNAME, MX, AAAA
    <3> QED BY <3>1, <3>2, <3>3
  <2>5. ~readKnown
    BY <2>4 DEF readKnown, InRecord
  <2>6. ASSUME fieldsCut PROVE Cut'
    BY <1>6, <2>6 DEF fieldsCut
  <2>7. ASSUME readUnknown PROVE Between'
    <3>1. stage = "fields" /\ Has(10) /\ Push(Record) /\ UNCHANGED <<header, first, buf>>
          /\ currPos' = currPos + 10 + U16(currPos + 8) /\ InRecord
      BY <2>7 DEF readUnknown, InRecord, history
    <3> PICK r : r = Record
      OBVIOUS
    <3>2. r \in Carried
      BY <3>1, FixedFacts
    <3>3. Bared(r) = Blank
      BY <2>4, <3>1 DEF Bared, Blank, Record, Nil
    <3>4. Kepts(first[2]) \in Seq(Tiny) /\ b \in Nat
      BY <1>1, <1>4, LeftCounts DEF InItem
    <3>5. Left(Nil, Nil, b + 1)'
      BY <1>1, <1>2, <1>4, <3>1, <3>2, <3>3, <3>4, PushBlank
    <3>6. Nil \in Seq(Asked) /\ Nil \in Seq(Good)
      BY DEF Nil
    <3>7. Coming(Nil, Nil) = Nil
      BY <3>6, ComingFacts
    <3>8. k - 10 \in Nat /\ currPos' = currPos + 10
      BY <1>3, <2>4, <3>1
    <3>9. Reads(currPos', Coming(Nil, Nil), Zeros(k - 10))
      BY <2>4, <3>1, <3>7, <3>8
    <3>10. stage' = "item"
      BY <3>1 DEF Push
    <3> QED BY <3>1, <3>5, <3>8, <3>9, <3>10, BetweenNext
  <2> QED BY <1>5, <2>2, <2>3, <2>5, <2>6, <2>7 DEF Step
<1> QED BY <1>2, <1>7, <1>8

LEMMA TracksSame == Tracks /\ UNCHANGED vars => Tracks'
<1> SUFFICES ASSUME Tracks, UNCHANGED vars, first # <<>>, Plain(first[2]), stage # "unsent"
             PROVE  Tracks'
  BY DEF Tracks, vars, history
<1>1. UNCHANGED <<buf, currPos, stage, n, item, header, sections, first>>
  BY DEF vars, packet, history
<1>2. section' = section /\ \A qs, rs, b : Left(qs, rs, b) => Left(qs, rs, b)'
  BY <1>1, SectionSame, LeftSame
<1>3. \A s, rest, more : InName(s, rest, more) => InName(s, rest, more)'
  BY <1>1 DEF InName, Spelled, Reads, Rest, Size
<1>4. \A x, more : InHost(x, more) => InHost(x, more)'
  BY <1>1 DEF InHost, Spelled, Reads, Rest, Size
<1>5. \A p, a, t : Reads(p, a, t) => Reads(p, a, t)'
  BY <1>1 DEF Reads, Rest, Size
<1>6. Arrived => Arrived'
  BY <1>1, <1>5 DEF Arrived
<1>7. Between => Between'
  BY <1>1, <1>2, <1>5 DEF Between
<1>8. InQuestion => InQuestion'
  BY <1>2, <1>3 DEF InQuestion
<1>9. InKnown => InKnown'
  BY <1>2, <1>3, <1>4 DEF InKnown
<1>10. InBlank => InBlank'
  BY <1>1, <1>2, <1>3 DEF InBlank, Size
<1>11. Finished => Finished'
  BY <1>1, <1>2 DEF Finished
<1>12. Cut => Cut'
  BY <1>1, <1>2 DEF Cut
<1> QED BY <1>6, <1>7, <1>8, <1>9, <1>10, <1>11, <1>12 DEF Tracks

LEMMA TracksStep == Typed /\ Proper /\ Tracks /\ [Next]_vars => Tracks'
<1> SUFFICES ASSUME Typed, Proper, Tracks, [Next]_vars PROVE Tracks'
  OBVIOUS
<1>1. CASE UNCHANGED vars
  BY <1>1, TracksSame
<1>2. CASE write
  BY <1>2, TrackWrite DEF Tracks
<1>3. CASE Step /\ ~write
  <2>1. UNCHANGED first /\ stage # "unsent"
    BY <1>3 DEF Step, readHeader, nextItem, allRead, jumpLimit, endOfBuffer, jump, label,
       endName, readQuestion, readUnknown, readKnown, fieldsCut, Throw, Turn, Reading,
       InRecord, history
  <2> SUFFICES ASSUME first # <<>>, Plain(first[2]) PROVE Tracks'
    BY <2>1 DEF Tracks
  <2>2. Arrived \/ Between \/ InQuestion \/ InKnown \/ InBlank \/ Finished \/ Cut
    BY <2>1 DEF Tracks
  <2>3. /\ stage = "header" => readHeader
        /\ stage = "item" => nextItem \/ allRead
        /\ stage # "done" /\ stage # "threw"
    BY <1>3 DEF Step, readHeader, nextItem, allRead, jumpLimit, endOfBuffer, jump, label,
       endName, readQuestion, readUnknown, readKnown, fieldsCut, Turn, Reading, InRecord
  <2>4. CASE Arrived
    BY <2>3, <2>4, TrackHeader DEF Arrived, Tracks
  <2>5. CASE Between
    BY <2>3, <2>5, TrackItem, TrackDone DEF Between, Tracks
  <2>6. CASE InQuestion
    BY <1>3, <2>6, TrackQuestion DEF Tracks
  <2>7. CASE InKnown
    <3>1. PICK x \in Good : \E rs \in Seq(Good) : \E b : \E k \in Nat :
            /\ Left(Nil, <<x>> \o rs, b)
            /\ InName(x.name, Fields(x), Then(Nil, rs, k)) \/ InHost(x, Then(Nil, rs, k))
      BY <2>7 DEF InKnown
    <3>2. PICK rs \in Seq(Good) : \E b : \E k \in Nat :
            /\ Left(Nil, <<x>> \o rs, b)
            /\ InName(x.name, Fields(x), Then(Nil, rs, k)) \/ InHost(x, Then(Nil, rs, k))
      BY <3>1
    <3>3. PICK b : \E k \in Nat :
            /\ Left(Nil, <<x>> \o rs, b)
            /\ InName(x.name, Fields(x), Then(Nil, rs, k)) \/ InHost(x, Then(Nil, rs, k))
      BY <3>2
    <3>4. PICK k \in Nat :
            /\ Left(Nil, <<x>> \o rs, b)
            /\ InName(x.name, Fields(x), Then(Nil, rs, k)) \/ InHost(x, Then(Nil, rs, k))
      BY <3>3
    <3>5. section # 1
      BY <2>7 DEF InKnown
    <3>6. InKnown' \/ Between'
      BY <1>3, <3>4, <3>5, TrackKnown, TrackHost
    <3> QED BY <3>6 DEF Tracks
  <2>8. CASE InBlank
    BY <1>3, <2>8, TrackBlank DEF Tracks
  <2>9. CASE Finished \/ Cut
    BY <2>3, <2>9 DEF Finished, Cut
  <2> QED BY <2>2, <2>4, <2>5, <2>6, <2>7, <2>8, <2>9
<1> QED BY <1>1, <1>2, <1>3 DEF Next, Over

LEMMA AlwaysTracks == Spec => []Tracks
<1>1. Init => Tracks
  BY DEF Init, Start, Tracks
<1> QED BY <1>1, TracksStep, AlwaysTyped, AlwaysProper, PTL DEF Spec

\* PassedOn of WireFormat: a packet that is passed on arrives as it was, but
\* for the records of unknown types, in whose place blank records are read or
\* the end of the buffer is met (DnsRecord.hpp:191, DnsPacket.hpp:120-124).
THEOREM PassedOnIntact == Spec => []PassedOn
<1>1. Typed /\ Proper /\ Tracks => PassedOn
  <2> SUFFICES ASSUME Typed, Proper, Tracks, first # <<>>, stage \in {"done", "threw"},
                      Plain(first[2])
               PROVE  LET sent == KnownOnly(Bare(first[2]))
                          lost == Len(Bare(first[2])) - Len(sent)
                      IN  /\ stage = "threw" => lost > 0
                          /\ header = first[1] /\ sections[1] = first[2][1]
                          /\ stage = "done" =>
                               Bare(sections) = sent \o [i \in 1 .. lost |-> Blank]
    BY DEF PassedOn
  <2> DEFINE sent == Kepts(first[2])
             lost == Len(Bare(first[2])) - Len(sent)
  <2>1. Finished \/ Cut
    <3>1. ~Arrived /\ ~Between
      BY DEF Arrived, Between
    <3>2. ~InQuestion /\ ~InKnown /\ ~InBlank
      BY DEF InQuestion, InKnown, InBlank, InName, InHost
    <3> QED BY <3>1, <3>2 DEF Tracks
  <2>2. PICK b : Left(Nil, Nil, b)
    BY <2>1 DEF Finished, Cut
  <2>3. stage # "header"
    OBVIOUS
  <2>4. /\ Len(sections[2]) + Len(sections[3]) + Len(sections[4]) + Len(Nil) = Len(sent) + b
        /\ header.counts[2] + header.counts[3] + header.counts[4] = Len(Bare(first[2]))
        /\ b \in Nat /\ Len(sent) \in Nat /\ Len(Bare(first[2])) \in Nat
    BY <2>2, <2>3, LeftCounts
  <2>5. header = first[1] /\ sections[1] = first[2][1]
    <3>1. sections[1] \in Seq(Question) /\ first[2][1] = sections[1] \o Nil
      BY <2>2 DEF Typed, Sections, Left
    <3> DEFINE v == sections[1]
    <3> HIDE DEF v
    <3>2. v \o Nil = v
      BY <3>1 DEF v, Nil
    <3> QED BY <2>2, <3>1, <3>2 DEF v, Left
  <2>6. ASSUME stage = "threw" PROVE lost > 0
    <3>1. Len(sent) < Len(Bare(first[2]))
      BY <2>1, <2>6 DEF Finished, Cut
    <3> HIDE DEF sent
    <3> QED BY <2>4, <3>1
  <2>7. ASSUME stage = "done" PROVE Bare(sections) = sent \o Blanks(lost)
    <3>1. Len(sections[2]) = header.counts[2] /\ Len(sections[3]) = header.counts[3]
          /\ Len(sections[4]) = header.counts[4]
      BY <2>7 DEF Proper
    <3>2. Len(Bare(first[2])) + Len(Nil) = Len(sent) + b /\ Len(Nil) = 0
      <4>1. Len(Nil) = 0
        BY DEF Nil
      <4> QED BY <2>4, <3>1, <4>1, Zenon
    <3>3. b = lost
      <4> DEFINE u == Len(sent)
                 m == Len(Bare(first[2]))
      <4>1. u \in Nat /\ m \in Nat /\ b \in Nat /\ m + 0 = u + b
        BY <2>4, <3>2
      <4> HIDE DEF u, m
      <4>2. b = m - u
        BY <4>1
      <4> QED BY <4>2 DEF u, m
    <3>4. Bare(sections) \o Nil = sent \o Blanks(b)
      BY <2>2 DEF Left
    <3>5. Bare(sections) \in Seq(Tiny)
      BY AllFacts DEF Typed
    <3> DEFINE v == Bare(sections)
    <3> HIDE DEF v
    <3>6. v \o Nil = v
      BY <3>5 DEF v, Nil
    <3> QED BY <3>3, <3>4, <3>6, Zenon DEF v
  <2> QED BY <2>5, <2>6, <2>7 DEF Kepts, Blanks
<1> QED BY <1>1, AlwaysTyped, AlwaysProper, AlwaysTracks, PTL

\* LengthsTrue of WireFormat: the length that a written record announces, put
\* in when its data is written (DnsRecord.hpp:146-147), is where the host of
\* the record ends.
THEOREM LengthsHold == Spec => []LengthsTrue
<1>1. Typed /\ Tracks => LengthsTrue
  <2> SUFFICES ASSUME Typed, Tracks, first # <<>>, stage = "host", Plain(first[2])
               PROVE  Behind[currPos] = (currPos - Fixed[item.type]) + item.length
    BY DEF LengthsTrue
  <2>1. InKnown
    BY DEF Tracks, Arrived, Between, InQuestion, InBlank, InName, Finished, Cut
  <2>2. PICK x \in Good : \E rs : \E k : InHost(x, Then(Nil, rs, k))
    BY <2>1 DEF InKnown, InName
  <2>3. PICK rs, k : InHost(x, Then(Nil, rs, k))
    BY <2>2
  <2>4. /\ HasHost(x.type) /\ item.type = x.type /\ item.length = dataSize(x)
        /\ Reads(currPos, writeQName(x.host), Then(Nil, rs, k))
    BY <2>3 DEF InHost
  <2>5. /\ Writable(x.host) /\ Host(x) = writeQName(x.host)
        /\ dataSize(x) = Fixed[x.type] + Length(Host(x)) /\ Length(Host(x)) \in Nat
        /\ Fixed[x.type] \in Nat
    BY <2>4, GoodFacts DEF Host
  <2>6. Behind[currPos] = currPos + Length(Host(x)) /\ currPos \in Nat
    BY <2>4, <2>5, BehindName DEF Typed
  <2> DEFINE f == Fixed[x.type]
             l == Length(Host(x))
  <2>7. f \in Nat /\ l \in Nat /\ item.length = f + l /\ Fixed[item.type] = f
    BY <2>4, <2>5
  <2>8. Behind[currPos] = currPos + l
    BY <2>6
  <2> HIDE DEF f, l
  <2> QED BY <2>6, <2>7, <2>8
<1> QED BY <1>1, AlwaysTyped, AlwaysTracks, PTL

=============================================================================
