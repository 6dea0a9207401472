---------------------------- MODULE MCWireFormat ----------------------------
(***************************************************************************)
(* Buffers for WireFormat: every short name, every flag, and the messages  *)
(* of a server that compresses names as RFC 1035 allows.                   *)
(***************************************************************************)
EXTENDS WireFormat

Pad(bytes, size) == bytes \o Zeros(size - Len(bytes))
HeaderBytes(flags, counts) ==
  <<0, 7>> \o W16(flags) \o FlattenSeq([s \in 1 .. 4 |-> W16(counts[s])])

\* Any four bytes where a question's name begins (at 12); then a type and a
\* class.  Pointers may lead anywhere, also into the header.
Odd == {0, 1, 2, 12, Dot, 192}
Names == {[bytes |-> HeaderBytes(0, <<1, 0, 0, 0>>) \o name \o <<0, 1, 0, 1>>, means |-> None] :
            name \in [1 .. 4 -> Odd]}

\* Chains of k pointers, which end at a name.
Chain(k) == FlattenSeq([i \in 1 .. k |-> <<192, 12 + 2 * i>>]) \o <<1, 120, 0>>
Chains == {[bytes |-> Pad(HeaderBytes(0, <<1, 0, 0, 0>>) \o Chain(k), 40), means |-> None] :
             k \in 0 .. maxJumps + 2}

Headers == {[bytes |-> HeaderBytes(f, <<0, 0, 0, 0>>), means |-> <<(<<>>), <<>>, <<>>, <<>> >>] :
              f \in 0 .. 255 \cup {256 * k : k \in 0 .. 255}}

\* Messages about "w.x", whose name is at 12.
W == <<119, Dot, 120>>
Query == [name |-> W, type |-> MX]
Rec(t, fixed, host) ==
  [name |-> W, type |-> t, ttl |-> 65537, length |-> 0, fixed |-> fixed, host |-> host]
Txt == Rec(16, <<>>, <<>>)
Recs == {Rec(A, <<1, 2, 3, 4>>, <<>>), Rec(MX, <<0, 9>>, W), Rec(NS, <<>>, <<121>>),
         Rec(CNAME, <<>>, <<120>>), Rec(AAAA, [i \in 1 .. 16 |-> i], <<>>), Txt}

\* A server's bytes for r: the owner, and "x" as a host, are pointers.
WBytes == <<1, 119, 1, 120, 0>>
HostBytes(h) ==
  CASE h = W -> WBytes [] h = <<121>> -> <<1, 121, 0>> [] h = <<120>> -> <<192, 14>>
DataBytes(r) ==
  IF r = Txt THEN <<2, 192, 12>>
  ELSE r.fixed \o (IF HasHost(r.type) THEN HostBytes(r.host) ELSE <<>>)
RecBytes(r) ==
  <<192, 12>> \o W16(r.type) \o W16(1) \o W32(r.ttl) \o W16(Len(DataBytes(r))) \o DataBytes(r)
Read(r) == [r EXCEPT !.length = Len(DataBytes(r))]

Sent(secs) ==
  HeaderBytes(32768, [s \in 1 .. 4 |-> Len(secs[s])])
    \o WBytes \o W16(secs[1][1].type) \o W16(1)
    \o FlattenSeq([i \in DOMAIN (secs[2] \o secs[3] \o secs[4]) |->
                     RecBytes((secs[2] \o secs[3] \o secs[4])[i])])
Message(secs, room) ==
  [bytes |-> Sent(secs) \o Zeros(room),
   means |-> <<secs[1]>> \o [s \in 1 .. 3 |-> [i \in DOMAIN secs[s + 1] |-> Read(secs[s + 1][i])]]]

\* In a buffer that is full, and in one with room.
Upto(S, k) == UNION {[1 .. i -> S] : i \in 0 .. k}
Messages ==
  {Message(<<(<<Query>>), an, ns, ar>>, room) :
     an \in Upto(Recs, 2), ns \in Upto({Rec(NS, <<>>, <<121>>)}, 1),
     ar \in Upto({Rec(A, <<1, 2, 3, 4>>, <<>>)}, 1), room \in {0, 40}}

AllInputs == Names \cup Chains \cup Headers \cup Messages

=============================================================================
