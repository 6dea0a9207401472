----------------------------- MODULE WireFormat -----------------------------
(***************************************************************************)
(* A message on the wire: lib/BytePacketBuffer.hpp, DnsHeader, DnsQuestion,*)
(* DnsRecord and DnsPacket (fromBuffer and write).                         *)
(*                                                                         *)
(* A buffer of any bytes is read; what was read is written to a buffer of  *)
(* the same size, as handleQueryThreaded does with the sections of a reply *)
(* it passes on, and read again as its receiver does.  readQName takes a   *)
(* step per turn of its loop; the fixed fields of an item are one step, as *)
(* an exception in any of them abandons the packet.                        *)
(*                                                                         *)
(* A std::string is the sequence of its bytes, a type its number.  What a  *)
(* record carries is a fixed part (address or priority) and the name of a  *)
(* host; of an unknown one only the length is kept.                        *)
(***************************************************************************)
EXTENDS Integers, Sequences, FiniteSets, SequencesExt, FiniteSetsExt

CONSTANTS
  Inputs,     \* the buffers read: [bytes, means], means None when arbitrary
  None,
  maxJumps,   \* 5, of readQName
  maxLabel    \* 63, of writeQName; smaller in the runs

ASSUME WireAssumption ==
  /\ maxJumps \in Nat /\ maxLabel \in 0 .. 63
  /\ \A input \in Inputs : input.bytes \in Seq(0 .. 255) /\ Len(input.bytes) >= 12

VARIABLES
  buf, currPos,          \* BytePacketBuffer; its size is Len(buf), 512 in the code
  stage,                 \* where fromBuffer is, or how it ended
  n,                     \* the locals of readQName
  item,                  \* the question or record under way
  header, sections,      \* DnsPacket: questions, answers, authorities, resources
  first,                 \* history: <<header, sections>> of the first reading, or <<>>
  means,                 \* history: what the sender meant
  jumpedOnce             \* history: the first reading followed a pointer

packet == <<header, sections>>
history == <<first, means, jumpedOnce>>
vars == <<buf, currPos, stage, n, item, packet, history>>

Size == Len(buf)
Get(p) == buf[p + 1]
U16(p) == 256 * Get(p) + Get(p + 1)
U32(p) == 65536 * U16(p) + U16(p + 2)
Dot == 46

\* The flags of DnsHeader by their bit of the flags word.
Flag == [recursionDesired |-> 256, truncatedMessage |-> 512, authoritativeAnswer |-> 1024,
         response |-> 32768, checkingDisabled |-> 16, authedData |-> 32, z |-> 64,
         recursionAvailable |-> 128]
resultCodeFromNum(c) == IF c \in 1 .. 5 THEN c ELSE 0

A == 1
NS == 2
CNAME == 5
MX == 15
AAAA == 28
Fixed == [t \in {A, NS, CNAME, MX, AAAA} |->
            CASE t = A -> 4 [] t = MX -> 2 [] t = AAAA -> 16 [] OTHER -> 0]
Known(t) == t \in DOMAIN Fixed
HasHost(t) == t \in {NS, CNAME, MX}

Zeros(k) == [i \in 1 .. k |-> 0]
NoSections == <<(<<>>), <<>>, <<>>, <<>> >>

Start(input) ==
  /\ buf = input.bytes /\ means = input.means
  /\ currPos = 0 /\ stage = "header" /\ n = None /\ item = None
  /\ header = None /\ sections = NoSections /\ first = <<>> /\ jumpedOnce = FALSE
Init == \E input \in Inputs : Start(input)

-----------------------------------------------------------------------------
\* The functions that write, as the bytes they write.
W16(v) == <<v \div 256, v % 256>>
W32(v) == W16(v \div 65536) \o W16(v % 65536)

\* std::getline up to each dot: where the tokens of s begin (none behind the
\* last dot), and how long the one is that begins at i.
splitString(s) == {i \in DOMAIN s : i = 1 \/ s[i - 1] = Dot}
labelSize(s, i) == Cardinality({j \in i .. Len(s) : \A d \in i .. j : s[d] # Dot})

LongLabel(s) == \E i \in splitString(s) : labelSize(s, i) > maxLabel

\* The length of a label takes the place of the dot before it.
Labels(s) ==
  [i \in 1 .. Len(s) + (IF s = <<>> \/ s[Len(s)] = Dot THEN 0 ELSE 1) |->
     IF i \in splitString(s) THEN labelSize(s, i) ELSE s[i - 1]]

\* Mutant: what is behind the last dot is a label too.
WriteRootLabel(s) == Labels(s) \o <<0, 0>>

writeQName(s) == Labels(s) \o <<0>>

Bit(h, f) == IF f \in h.flags THEN Flag[f] ELSE 0

writeHeader(h, counts) ==
  W16(h.id)
    \o W16(h.rescode + 2048 * h.opcode
             + Bit(h, "recursionDesired") + Bit(h, "truncatedMessage")
             + Bit(h, "authoritativeAnswer") + Bit(h, "response")
             + Bit(h, "checkingDisabled") + Bit(h, "authedData") + Bit(h, "z")
             + Bit(h, "recursionAvailable"))
    \o W16(counts[1]) \o W16(counts[2]) \o W16(counts[3]) \o W16(counts[4])

writeQuestion(q) == writeQName(q.name) \o W16(q.type) \o W16(1)

Data(r) == r.fixed \o (IF HasHost(r.type) THEN writeQName(r.host) ELSE <<>>)

\* Mutant: the size is taken from the position of the length field.
SizeFromField(r) == Len(Data(r)) + 2

\* The length put in behind the data.
dataSize(r) == Len(Data(r))

\* Mutant: the priority is left out.
WriteRecordBare(r) ==
  IF ~Known(r.type) THEN <<>>
  ELSE writeQName(r.name) \o W16(r.type) \o W16(1) \o W32(r.ttl) \o W16(dataSize(r))
         \o (IF HasHost(r.type) THEN writeQName(r.host) ELSE r.fixed)

\* A record of an unknown type is skipped.
writeDnsRecord(r) ==
  IF ~Known(r.type) THEN <<>>
  ELSE writeQName(r.name) \o W16(r.type) \o W16(1) \o W32(r.ttl) \o W16(dataSize(r))
         \o Data(r)

Questions(qs) == FlattenSeq([i \in DOMAIN qs |-> writeQuestion(qs[i])])
Records(rs) == FlattenSeq([i \in DOMAIN rs |-> writeDnsRecord(rs[i])])

\* DnsPacket::write: the counts are those of the sections, skipped records
\* included.
Written(h, secs) ==
  writeHeader(h, [s \in 1 .. 4 |-> Len(secs[s])])
    \o Questions(secs[1]) \o Records(secs[2]) \o Records(secs[3]) \o Records(secs[4])

\* Some label among what is written is too long.
Unwritable(secs) ==
  \/ \E q \in Range(secs[1]) : LongLabel(q.name)
  \/ \E s \in 2 .. 4 : \E r \in Range(secs[s]) :
       Known(r.type) /\ (LongLabel(r.name) \/ (HasHost(r.type) /\ LongLabel(r.host)))

\* A packet that was read is written.
write ==
  /\ stage = "done" /\ first = <<>>
  /\ first' = packet
  /\ IF Unwritable(sections) \/ Len(Written(header, sections)) > Size
     THEN stage' = "unsent" /\ UNCHANGED <<buf, currPos, packet>>
     ELSE /\ stage' = "header" /\ currPos' = 0 /\ header' = None /\ sections' = NoSections
          /\ buf' = Written(header, sections)
                      \o Zeros(Size - Len(Written(header, sections)))
  /\ UNCHANGED <<n, item, means, jumpedOnce>>

-----------------------------------------------------------------------------
Throw == stage' = "threw" /\ UNCHANGED <<buf, currPos, n, item, packet, history>>
Has(k) == currPos + k <= Size

readHeader ==
  /\ stage = "header"
  /\ LET flags == U16(2)
     IN  header' =
           [id |-> U16(0), opcode |-> (flags \div 2048) % 16,
            rescode |-> resultCodeFromNum(flags % 16),
            flags |-> {f \in DOMAIN Flag : (flags \div Flag[f]) % 2 = 1},
            counts |-> [s \in 1 .. 4 |-> U16(2 + 2 * s)]]
  /\ currPos' = 12 /\ stage' = "item"
  /\ UNCHANGED <<buf, n, item, sections, history>>

\* The section of the next item; 5 when all are read.
section == CHOOSE s \in 1 .. 5 :
             /\ \A r \in 1 .. s - 1 : Len(sections[r]) = header.counts[r]
             /\ s = 5 \/ Len(sections[s]) < header.counts[s]

Name(p) == [start |-> p, pos |-> p, jumped |-> FALSE, jumps |-> 0, out |-> <<>>]

nextItem ==
  /\ stage = "item" /\ section <= 4
  /\ n' = Name(currPos) /\ stage' = "name"
  /\ UNCHANGED <<buf, currPos, item, packet, history>>

allRead ==
  /\ stage = "item" /\ section = 5
  /\ stage' = "done"
  /\ UNCHANGED <<buf, currPos, n, item, packet, history>>

Push(x) ==
  /\ sections' = [sections EXCEPT ![section] = Append(@, x)]
  /\ item' = None /\ stage' = "item"

-----------------------------------------------------------------------------
\* readQName.
Reading == stage \in {"name", "host"}
IsPointer(b) == b >= 192
Needed(b) == IF IsPointer(b) THEN 2 ELSE 1 + b
OutOfRange == n.pos < Size => n.pos + Needed(Get(n.pos)) > Size
Turn == Reading /\ n.jumps <= maxJumps /\ ~OutOfRange

jumpLimit == Reading /\ n.jumps > maxJumps /\ Throw
endOfBuffer == Reading /\ n.jumps <= maxJumps /\ OutOfRange /\ Throw

Target == (Get(n.pos) - 192) * 256 + Get(n.pos + 1)

\* Mutant: every jump moves the cursor.
JumpSeeks ==
  /\ Turn /\ IsPointer(Get(n.pos))
  /\ currPos' = n.pos + 2
  /\ n' = [n EXCEPT !.pos = Target, !.jumped = TRUE, !.jumps = @ + 1]
  /\ jumpedOnce' = (jumpedOnce \/ first = <<>>)
  /\ UNCHANGED <<buf, stage, item, packet, first, means>>

\* Mutant: only the first jump is counted.
JumpUncounted ==
  /\ Turn /\ IsPointer(Get(n.pos))
  /\ currPos' = IF n.jumped THEN currPos ELSE n.pos + 2
  /\ n' = [n EXCEPT !.pos = Target, !.jumped = TRUE, !.jumps = 1]
  /\ jumpedOnce' = (jumpedOnce \/ first = <<>>)
  /\ UNCHANGED <<buf, stage, item, packet, first, means>>

\* Follow a pointer; the first one is where the name ends in place.
jump ==
  /\ Turn /\ IsPointer(Get(n.pos))
  /\ currPos' = IF n.jumped THEN currPos ELSE n.pos + 2
  /\ n' = [n EXCEPT !.pos = Target, !.jumped = TRUE, !.jumps = @ + 1]
  /\ jumpedOnce' = (jumpedOnce \/ first = <<>>)
  /\ UNCHANGED <<buf, stage, item, packet, first, means>>

\* Any other length but 0 is that of a label.
label ==
  LET len == Get(n.pos)
  IN  /\ Turn /\ ~IsPointer(len) /\ len # 0
      /\ n' = [n EXCEPT !.pos = @ + 1 + len,
                        !.out = @ \o (IF @ = <<>> THEN <<>> ELSE <<Dot>>)
                                  \o SubSeq(buf, n.pos + 2, n.pos + 1 + len)]
      /\ UNCHANGED <<buf, currPos, stage, item, packet, history>>

endName ==
  /\ Turn /\ Get(n.pos) = 0
  /\ currPos' = IF n.jumped THEN currPos ELSE n.pos + 1
  /\ IF stage = "host"
     THEN Push([item EXCEPT !.host = n.out])
     ELSE stage' = "fields" /\ UNCHANGED <<item, sections>>
  /\ UNCHANGED <<buf, n, header, history>>

-----------------------------------------------------------------------------
\* What follows the name of a question, ...
readQuestion ==
  /\ stage = "fields" /\ section = 1 /\ Has(4)
  /\ currPos' = currPos + 4
  /\ Push([name |-> n.out, type |-> U16(currPos)])
  /\ UNCHANGED <<buf, n, header, history>>

Record == [name |-> n.out, type |-> U16(currPos), ttl |-> U32(currPos + 4),
           length |-> U16(currPos + 8), fixed |-> <<>>, host |-> <<>>]
InRecord == stage = "fields" /\ section > 1 /\ Has(10)
Width == IF Known(U16(currPos)) THEN Fixed[U16(currPos)] ELSE 0

\* Mutant: the data of an unknown record is not skipped.
UnknownUnskipped ==
  /\ InRecord /\ ~Known(U16(currPos))
  /\ currPos' = currPos + 10
  /\ Push(Record)
  /\ UNCHANGED <<buf, n, header, history>>

\* ... of a record of an unknown type: step does not look at the end ...
readUnknown ==
  /\ InRecord /\ ~Known(U16(currPos))
  /\ currPos' = currPos + 10 + U16(currPos + 8)
  /\ Push(Record)
  /\ UNCHANGED <<buf, n, header, history>>

\* ... and of the others, which do not look at the length.
readKnown ==
  LET r == [Record EXCEPT !.fixed = SubSeq(buf, currPos + 11, currPos + 10 + Width)]
  IN  /\ InRecord /\ Known(U16(currPos)) /\ Has(10 + Width)
      /\ currPos' = currPos + 10 + Width
      /\ IF HasHost(r.type)
         THEN item' = r /\ n' = Name(currPos') /\ stage' = "host" /\ UNCHANGED sections
         ELSE Push(r) /\ UNCHANGED n
      /\ UNCHANGED <<buf, header, history>>

fieldsCut ==
  /\ stage = "fields"
  /\ ~Has(IF section = 1 THEN 4 ELSE IF Has(10) THEN 10 + Width ELSE 10)
  /\ Throw

Ended == {"threw", "unsent"}
Over == (stage \in Ended \/ (stage = "done" /\ first # <<>>)) /\ UNCHANGED vars

Step == \/ readHeader \/ nextItem \/ allRead \/ jumpLimit \/ endOfBuffer \/ jump \/ label
        \/ endName \/ readQuestion \/ readUnknown \/ readKnown \/ fieldsCut \/ write

Next == Step \/ Over
Spec == Init /\ [][Next]_vars

\* The thread that reads runs on.
FairSpec == Spec /\ WF_vars(Step)

-----------------------------------------------------------------------------
\* readQName stays within its limit on jumps, of which it allows one more than
\* maxJumps says (BytePacketBuffer.hpp:201), names stay within what that many
\* passes over the buffer can hold, and no section outgrows its count.
Bounded ==
  /\ stage \in {"header", "item", "name", "host", "fields", "done"} \cup Ended
  /\ n # None => n.jumps <= maxJumps + 1 /\ Len(n.out) <= (maxJumps + 2) * Size
  /\ header # None => \A s \in 1 .. 4 : Len(sections[s]) <= header.counts[s]

\* Reading ends, whatever the bytes: pointers may form loops.
ReadingEnds == stage = "header" ~> stage \in {"done"} \cup Ended

\* Where the name that starts at p ends in place.
Behind[p \in 0 .. Size] ==
  CASE p = Size -> None
    [] p < Size /\ IsPointer(Get(p)) -> p + 2
    [] p < Size /\ Get(p) = 0 -> p + 1
    [] OTHER -> IF p + 1 + Get(p) > Size THEN None ELSE Behind[p + 1 + Get(p)]

\* After a name the cursor is behind its last byte in place, however often and
\* wherever its pointers jump (BytePacketBuffer.hpp:209-211, 238-240).
CursorBehindName == stage = "fields" => currPos = Behind[n.start]

\* What the bytes b of a message mean by RFC 1035, 4.1, as functions of b.  The
\* name at p, by its first label or pointer and the names f that are shorter: its
\* text, where it ends in place, and how many pointers it follows.
OneMore(b, f, p) ==
  LET len == b[p + 1]
      next == IF IsPointer(len) THEN (len - 192) * 256 + b[p + 2] ELSE p + 1 + len
      rest == f[next]
  IN  CASE len = 0 -> [text |-> <<>>, end |-> p + 1, pointers |-> 0]
        [] len \in 1 .. 63 /\ next < Len(b) /\ rest # None ->
             [text |-> SubSeq(b, p + 2, next)
                         \o (IF rest.text = <<>> THEN <<>> ELSE <<Dot>>) \o rest.text,
              end |-> rest.end, pointers |-> rest.pointers]
        [] IsPointer(len) /\ p + 2 <= Len(b) /\ next < Len(b) /\ rest # None ->
             [text |-> rest.text, end |-> p + 2, pointers |-> rest.pointers + 1]
        [] OTHER -> None

\* The names of up to k labels and pointers.
NamesUpto(b) ==
  LET upto[k \in 0 .. Len(b)] ==
        [p \in 0 .. Len(b) - 1 |-> IF k = 0 THEN None ELSE OneMore(b, upto[k - 1], p)]
  IN  upto

\* None also where there are more pointers than readQName follows.
NameAt(b, p) ==
  LET name == NamesUpto(b)[Len(b)][p]
  IN  IF p < Len(b) /\ name # None /\ name.pointers <= maxJumps THEN name ELSE None

Word(b, p) == 256 * b[p + 1] + b[p + 2]

QuestionAt(b, p) ==
  LET name == NameAt(b, p)
  IN  IF name # None /\ name.end + 4 <= Len(b)
      THEN [is |-> [name |-> name.text, type |-> Word(b, name.end)], end |-> name.end + 4]
      ELSE None

\* The data of a record is as long as its length says, known or not.
RecordAt(b, p) ==
  LET name == NameAt(b, p)
      type == Word(b, name.end)
      data == name.end + 10
      end == data + Word(b, name.end + 8)
      rest == data + (IF Known(type) THEN Fixed[type] ELSE 0)
      host == NameAt(b, rest)
  IN  IF /\ name # None /\ data <= Len(b) /\ end <= Len(b)
         /\ Known(type) => IF HasHost(type) THEN host # None /\ host.end = end ELSE rest = end
      THEN [is |-> [name |-> name.text, type |-> type, length |-> end - data,
                    ttl |-> 65536 * Word(b, name.end + 4) + Word(b, name.end + 6),
                    fixed |-> SubSeq(b, data + 1, rest),
                    host |-> IF HasHost(type) THEN host.text ELSE <<>>],
            end |-> end]
      ELSE None

\* The items follow each other, in four sections behind the header.
Count(b, s) == Word(b, 2 + 2 * s)
Before(b, s) == (IF s > 1 THEN Count(b, 1) ELSE 0) + (IF s > 2 THEN Count(b, 2) ELSE 0)
                  + (IF s > 3 THEN Count(b, 3) ELSE 0)
Total(b) == Before(b, 4) + Count(b, 4)
ItemAt(b, i, p) == IF i <= Count(b, 1) THEN QuestionAt(b, p) ELSE RecordAt(b, p)
EndOf(b, i, p) == IF ItemAt(b, i, p) = None THEN Len(b) ELSE ItemAt(b, i, p).end

\* Where the first i items end.
Ends(b) ==
  LET ends[i \in 0 .. Total(b)] == IF i = 0 THEN 12 ELSE EndOf(b, i, ends[i - 1])
  IN  ends

WellFormed(b) == \A i \in 1 .. Total(b) : ItemAt(b, i, Ends(b)[i - 1]) # None
Said(b) ==
  [s \in 1 .. 4 |-> [i \in 1 .. Count(b, s) |->
     ItemAt(b, Before(b, s) + i, Ends(b)[Before(b, s) + i - 1]).is]]

\* A sender means what its bytes mean.
ASSUME SendersMean ==
  \A input \in Inputs :
    input.means # None => WellFormed(input.bytes) /\ input.means = Said(input.bytes)

\* A well-formed message is read to its end and as its sender meant it: pointers
\* are followed, the data of unknown records is skipped, and the lengths of the
\* others, which the reader never looks at, lead it nowhere else.
ReadAsMeant ==
  first = <<>> /\ means # None =>
    stage # "threw" /\ (stage = "done" => sections = means)

NormalName(s) ==
  s = <<>> \/ (Last(s) # Dot /\ \A i \in splitString(s) : labelSize(s, i) > 0)
Plain(secs) ==
  \A s \in 1 .. 4 : \A x \in Range(secs[s]) :
    NormalName(x.name) /\ (s # 1 => NormalName(x.host))

\* The records of a packet in order, without their lengths.
Bared(r) == [name |-> r.name, type |-> r.type, ttl |-> r.ttl, fixed |-> r.fixed, host |-> r.host]
AllRecords(secs) == secs[2] \o secs[3] \o secs[4]
Bare(secs) == [i \in DOMAIN AllRecords(secs) |-> Bared(AllRecords(secs)[i])]
KnownOnly(rs) ==
  FlattenSeq([i \in DOMAIN rs |-> IF Known(rs[i].type) THEN <<rs[i]>> ELSE <<>>])
Blank == [name |-> <<>>, type |-> 0, ttl |-> 0, fixed |-> <<>>, host |-> <<>>]

\* A packet that is passed on arrives as it was: header, questions and the
\* records of known types, in order.  The others vanish, yet are counted: as
\* many blank records are read from the zeros behind the message instead, or
\* the reader runs into the end (DnsRecord.hpp:191, DnsPacket.hpp:120-124).
PassedOn ==
  first # <<>> /\ stage \in {"done", "threw"} /\ Plain(first[2]) =>
    LET sent == KnownOnly(Bare(first[2]))
        lost == Len(Bare(first[2])) - Len(sent)
    IN  /\ stage = "threw" => lost > 0
        /\ header = first[1] /\ sections[1] = first[2][1]
        /\ stage = "done" => Bare(sections) = sent \o [i \in 1 .. lost |-> Blank]

\* The length a written record announces is that of its data, so that a reader
\* who skips it finds the next one (DnsRecord.hpp:146-147).
LengthsTrue ==
  first # <<>> /\ stage = "host" /\ Plain(first[2]) =>
    Behind[currPos] = (currPos - Fixed[item.type]) + item.length

\* A packet that was read fits the buffer when it is written, unless it had
\* been compressed or holds a label that is too long: names are written out.
LostOnlyIfCompressed == stage = "unsent" => jumpedOnce \/ Unwritable(sections)

=============================================================================
