--------------------------- MODULE ResolverProofs ---------------------------
(***************************************************************************)
(* Proofs of the safety properties of Resolver, for every set of threads,  *)
(* names and servers, every internet and every depth limit.                *)
(***************************************************************************)
EXTENDS Resolver, SequenceTheorems, TLAPS

\* Turn i of the loop over the root servers asked the i-th of them, but perhaps
\* the first: there the cached name server may have been asked in its place.
Tried(f, S) ==
  \A i \in 1 .. f.root : Roots[i] \in S \/ (i = 1 /\ f.cached # None /\ f.cached \in S)

\* A frame whose locals are what its place in the code makes of them.
SoundFrame ==
  {f \in Frame :
     /\ f.pc \in {"enter", "walk"} => f.root = 0 /\ f.ns = None /\ f.cached = None
     /\ f.pc = "root" => /\ Tried(f, f.asked)
                         /\ f.timedOut \/ (f.root = 0 /\ f.ns = f.cached)
     /\ f.pc \in {"ask", "resume"} => /\ f.ns \in Servers
                                      /\ Tried(f, f.asked \cup {f.ns})
     /\ f.pc = "resume" => f.ns \in f.asked /\ f.response \in Packet}

\* The variables beside the stacks have their types.
Typed ==
  /\ pos \in [Questions -> SUBSET (Servers \cup {Other})]
  /\ neg \in [Questions -> {"NXDOMAIN", "SERVFAIL", None}]
  /\ nsCache \in [Zones -> Servers \cup {None}]
  /\ visited \in [Threads -> SUBSET Names]
  /\ ret \in [Threads -> Packet \cup {None}]
  /\ request \in [Threads -> Questions \cup {None}]
  /\ last \in [Threads -> [q : Questions \cup {None}, packet : Packet \cup {None}]
                          \cup {None}]

\* Only a call on its first lines may be below the depth limit; every call but
\* the last waits for the next, and the last one has its result when it is done;
\* calls are active only while a request is answered.
Stacked ==
  /\ stack \in [Threads -> Seq(SoundFrame)]
  /\ \A t \in Threads :
       /\ Len(stack[t]) <= MaxDepth + 1
       /\ stack[t] # <<>> /\ Top(t).pc # "enter" => Len(stack[t]) <= MaxDepth
       /\ \A i \in 1 .. Len(stack[t]) - 1 : stack[t][i].pc = "resume"
       /\ At(t, "resume") => ret[t] \in Packet
       /\ stack[t] # <<>> => request[t] # None

TypeInv == Typed /\ Stacked

-----------------------------------------------------------------------------
(***************************************************************************)
(* What the operations on a stack do to its frames.                        *)
(***************************************************************************)
LEMMA SetTopFacts ==
  ASSUME NEW S, stack \in [Threads -> Seq(S)], NEW t \in Threads, stack[t] # <<>>,
         NEW g \in S, SetTop(t, g)
  PROVE  /\ stack' \in [Threads -> Seq(S)]
         /\ Len(stack'[t]) = Len(stack[t])
         /\ Len(stack[t]) \in Nat /\ Len(stack[t]) >= 1
         /\ stack'[t][Len(stack[t])] = g
         /\ \A i \in 1 .. Len(stack[t]) - 1 : stack'[t][i] = stack[t][i]
         /\ \A u \in Threads \ {t} : stack'[u] = stack[u]
<1>1. stack[t] \in Seq(S) /\ Len(stack[t]) \in Nat /\ Len(stack[t]) >= 1
  OBVIOUS
<1>2. stack'[t] = [stack[t] EXCEPT ![Len(stack[t])] = g]
  BY DEF SetTop
<1>3. [stack[t] EXCEPT ![Len(stack[t])] = g] \in Seq(S)
  BY <1>1
<1> QED BY <1>1, <1>2, <1>3 DEF SetTop

LEMMA PushFacts ==
  ASSUME NEW S, stack \in [Threads -> Seq(S)], NEW t \in Threads, stack[t] # <<>>,
         NEW g \in S, NEW q, Call(q) \in S, Push(t, g, q)
  PROVE  /\ stack' \in [Threads -> Seq(S)]
         /\ Len(stack'[t]) = Len(stack[t]) + 1
         /\ Len(stack[t]) \in Nat /\ Len(stack[t]) >= 1
         /\ stack'[t][Len(stack[t]) + 1] = Call(q)
         /\ stack'[t][Len(stack[t])] = g
         /\ \A i \in 1 .. Len(stack[t]) - 1 : stack'[t][i] = stack[t][i]
         /\ \A u \in Threads \ {t} : stack'[u] = stack[u]
<1>1. stack[t] \in Seq(S) /\ Len(stack[t]) \in Nat /\ Len(stack[t]) >= 1
  OBVIOUS
<1> DEFINE s == [stack[t] EXCEPT ![Len(stack[t])] = g]
<1>2. s \in Seq(S) /\ Len(s) = Len(stack[t]) /\ s[Len(stack[t])] = g
      /\ \A i \in 1 .. Len(stack[t]) - 1 : s[i] = stack[t][i]
  BY <1>1
<1>3. stack' = [stack EXCEPT ![t] = Append(s, Call(q))]
  BY DEF Push
<1> HIDE DEF s
<1>4. stack'[t] = Append(s, Call(q)) /\ stack'[t] \in Seq(S)
  BY <1>2, <1>3
<1>5. \A i \in 1 .. Len(stack[t]) : stack'[t][i] = s[i]
  BY <1>2, <1>4
<1> QED BY <1>1, <1>2, <1>3, <1>4, <1>5

LEMMA FrontFacts ==
  ASSUME NEW S, NEW s \in Seq(S), s # <<>>
  PROVE  /\ Len(s) \in Nat /\ Len(s) >= 1
         /\ SubSeq(s, 1, Len(s) - 1) \in Seq(S)
         /\ Len(SubSeq(s, 1, Len(s) - 1)) = Len(s) - 1
         /\ \A i \in 1 .. Len(s) - 1 : SubSeq(s, 1, Len(s) - 1)[i] = s[i]
<1>1. Len(s) \in Nat /\ Len(s) >= 1 /\ \A i \in 1 .. Len(s) - 1 : s[i] \in S
  OBVIOUS
<1>2. ASSUME NEW n \in Int, n = Len(s) - 1
      PROVE  /\ SubSeq(s, 1, n) \in Seq(S) /\ Len(SubSeq(s, 1, n)) = n
             /\ \A i \in 1 .. n : SubSeq(s, 1, n)[i] = s[i]
  BY <1>1, <1>2, SubSeqProperties
<1>3. Len(s) - 1 \in Int
  BY <1>1
<1> QED BY <1>1, <1>2, <1>3, Zenon

LEMMA ReturnFacts ==
  ASSUME NEW S, stack \in [Threads -> Seq(S)], ret \in [Threads -> Packet \cup {None}],
         NEW t \in Threads, stack[t] # <<>>, NEW p \in Packet, ReturnPacket(t, p)
  PROVE  /\ stack' \in [Threads -> Seq(S)]
         /\ Len(stack[t]) \in Nat /\ Len(stack[t]) >= 1
         /\ Len(stack'[t]) = Len(stack[t]) - 1
         /\ \A i \in 1 .. Len(stack[t]) - 1 : stack'[t][i] = stack[t][i]
         /\ \A u \in Threads \ {t} : stack'[u] = stack[u]
         /\ ret' \in [Threads -> Packet \cup {None}]
         /\ ret'[t] = p /\ \A u \in Threads \ {t} : ret'[u] = ret[u]
<1>1. stack[t] \in Seq(S)
  OBVIOUS
<1>2. stack'[t] = SubSeq(stack[t], 1, Len(stack[t]) - 1)
  BY DEF ReturnPacket
<1>3. /\ Len(stack[t]) \in Nat /\ Len(stack[t]) >= 1
      /\ stack'[t] \in Seq(S) /\ Len(stack'[t]) = Len(stack[t]) - 1
      /\ \A i \in 1 .. Len(stack[t]) - 1 : stack'[t][i] = stack[t][i]
  <2> DEFINE s == stack[t]
  <2>1. s \in Seq(S) /\ s # <<>>
    BY <1>1
  <2> HIDE DEF s
  <2>2. /\ Len(s) \in Nat /\ Len(s) >= 1
        /\ SubSeq(s, 1, Len(s) - 1) \in Seq(S)
        /\ Len(SubSeq(s, 1, Len(s) - 1)) = Len(s) - 1
        /\ \A i \in 1 .. Len(s) - 1 : SubSeq(s, 1, Len(s) - 1)[i] = s[i]
    BY <2>1, FrontFacts, Zenon
  <2> QED BY <1>2, <2>2, Zenon DEF s
<1>4. stack' = [stack EXCEPT ![t] = stack'[t]]
  BY <1>2 DEF ReturnPacket
<1>5. /\ stack' \in [Threads -> Seq(S)]
      /\ \A u \in Threads \ {t} : stack'[u] = stack[u]
  BY <1>3, <1>4
<1>6. /\ ret' \in [Threads -> Packet \cup {None}]
      /\ ret'[t] = p /\ \A u \in Threads \ {t} : ret'[u] = ret[u]
  BY DEF ReturnPacket
<1> QED BY <1>3, <1>5, <1>6

-----------------------------------------------------------------------------
\* What the constants are assumed to be, apart from Internet.
LEMMA Constants ==
  /\ None \notin Servers \cup Codes \cup Questions /\ Other \notin Servers /\ A \in Types
  /\ Roots \in Seq(Servers) /\ MaxDepth \in Nat
  /\ Chain \in [Names -> Seq(Zones)] /\ EndsWith \in [Names -> SUBSET Zones]
BY ResolverAssumption, Zenon

(***************************************************************************)
(* The same operations keep Stacked, given what their callers do.          *)
(***************************************************************************)
LEMMA SetTopKeeps ==
  ASSUME Stacked, NEW t \in Threads, stack[t] # <<>>, NEW g \in SoundFrame,
         SetTop(t, g), g.pc \notin {"enter", "resume"}, Len(stack[t]) <= MaxDepth,
         \A u \in Threads \ {t} : ret'[u] = ret[u], UNCHANGED request
  PROVE  Stacked'
<1> DEFINE n == Len(stack[t])
<1>1. /\ stack' \in [Threads -> Seq(SoundFrame)]
      /\ Len(stack'[t]) = n /\ n \in Nat /\ n >= 1
      /\ stack'[t][n] = g
      /\ \A i \in 1 .. n - 1 : stack'[t][i] = stack[t][i]
      /\ \A u \in Threads \ {t} : stack'[u] = stack[u]
  <2>1. stack \in [Threads -> Seq(SoundFrame)]
    BY DEF Stacked
  <2> QED BY <2>1, SetTopFacts DEF n
<1> HIDE DEF n
<1>2. ASSUME NEW u \in Threads
      PROVE  /\ Len(stack'[u]) <= MaxDepth + 1
             /\ stack'[u] # <<>> /\ Top(u)'.pc # "enter" => Len(stack'[u]) <= MaxDepth
             /\ \A i \in 1 .. Len(stack'[u]) - 1 : stack'[u][i].pc = "resume"
             /\ At(u, "resume")' => ret'[u] \in Packet
             /\ stack'[u] # <<>> => request'[u] # None
  <2>1. CASE u # t
    BY <1>1, <2>1 DEF Stacked, Top, At
  <2>2. CASE u = t
    <3>1. n <= MaxDepth /\ \A i \in 1 .. n - 1 : stack[t][i].pc = "resume"
      BY DEF Stacked, n
    <3>2. Top(t)' = g
      BY <1>1 DEF Top
    <3>3. request'[t] # None
      BY DEF Stacked
    <3>4. /\ Len(stack'[t]) <= MaxDepth /\ Len(stack'[t]) <= MaxDepth + 1
          /\ \A i \in 1 .. Len(stack'[t]) - 1 : stack'[t][i].pc = "resume"
      <4>1. MaxDepth \in Nat
        BY Constants
      <4> QED BY <1>1, <3>1, <4>1
    <3>5. ~At(t, "resume")'
      BY <3>2 DEF At
    <3> QED BY <2>2, <3>3, <3>4, <3>5, Zenon
  <2> QED BY <2>1, <2>2
<1> QED BY <1>1, <1>2 DEF Stacked

LEMMA PushKeeps ==
  ASSUME Stacked, NEW t \in Threads, stack[t] # <<>>, NEW g \in SoundFrame,
         NEW q, Call(q) \in SoundFrame, Push(t, g, q), g.pc = "resume",
         Len(stack[t]) <= MaxDepth, UNCHANGED <<ret, request>>
  PROVE  Stacked'
<1> DEFINE n == Len(stack[t])
<1>1. /\ stack' \in [Threads -> Seq(SoundFrame)]
      /\ Len(stack'[t]) = n + 1 /\ n \in Nat /\ n >= 1
      /\ stack'[t][n + 1] = Call(q)
      /\ stack'[t][n] = g
      /\ \A i \in 1 .. n - 1 : stack'[t][i] = stack[t][i]
      /\ \A u \in Threads \ {t} : stack'[u] = stack[u]
  <2>1. stack \in [Threads -> Seq(SoundFrame)]
    BY DEF Stacked
  <2> QED BY <2>1, PushFacts DEF n
<1> HIDE DEF n
<1>2. ASSUME NEW u \in Threads
      PROVE  /\ Len(stack'[u]) <= MaxDepth + 1
             /\ stack'[u] # <<>> /\ Top(u)'.pc # "enter" => Len(stack'[u]) <= MaxDepth
             /\ \A i \in 1 .. Len(stack'[u]) - 1 : stack'[u][i].pc = "resume"
             /\ At(u, "resume")' => ret'[u] \in Packet
             /\ stack'[u] # <<>> => request'[u] # None
  <2>1. CASE u # t
    BY <1>1, <2>1 DEF Stacked, Top, At
  <2>2. CASE u = t
    <3>1. n <= MaxDepth /\ \A i \in 1 .. n - 1 : stack[t][i].pc = "resume"
      BY DEF Stacked, n
    <3>2. Top(t)'.pc = "enter"
      BY <1>1 DEF Top, Call
    <3>3. \A i \in 1 .. n : stack'[t][i].pc = "resume"
      BY <1>1, <3>1
    <3>4. request'[t] # None
      BY DEF Stacked
    <3> QED BY <1>1, <2>2, <3>1, <3>2, <3>3, <3>4, Constants DEF At
  <2> QED BY <2>1, <2>2
<1> QED BY <1>1, <1>2 DEF Stacked

LEMMA ReturnKeeps ==
  ASSUME Stacked, NEW t \in Threads, stack[t] # <<>>, NEW p \in Packet,
         ret \in [Threads -> Packet \cup {None}], ReturnPacket(t, p), UNCHANGED request
  PROVE  Stacked' /\ ret' \in [Threads -> Packet \cup {None}]
<1> DEFINE n == Len(stack[t])
<1>1. /\ stack' \in [Threads -> Seq(SoundFrame)]
      /\ n \in Nat /\ n >= 1
      /\ Len(stack'[t]) = n - 1
      /\ \A i \in 1 .. n - 1 : stack'[t][i] = stack[t][i]
      /\ \A u \in Threads \ {t} : stack'[u] = stack[u]
      /\ ret' \in [Threads -> Packet \cup {None}]
      /\ ret'[t] = p /\ \A u \in Threads \ {t} : ret'[u] = ret[u]
  <2>1. stack \in [Threads -> Seq(SoundFrame)]
    BY DEF Stacked
  <2> QED BY <2>1, ReturnFacts DEF n
<1> HIDE DEF n
<1>2. ASSUME NEW u \in Threads
      PROVE  /\ Len(stack'[u]) <= MaxDepth + 1
             /\ stack'[u] # <<>> /\ Top(u)'.pc # "enter" => Len(stack'[u]) <= MaxDepth
             /\ \A i \in 1 .. Len(stack'[u]) - 1 : stack'[u][i].pc = "resume"
             /\ At(u, "resume")' => ret'[u] \in Packet
             /\ stack'[u] # <<>> => request'[u] # None
  <2>1. CASE u # t
    BY <1>1, <2>1 DEF Stacked, Top, At
  <2>2. CASE u = t
    <3>1. n <= MaxDepth + 1 /\ \A i \in 1 .. n - 1 : stack[t][i].pc = "resume"
      BY DEF Stacked, n
    <3>2. \A i \in 1 .. Len(stack'[t]) - 1 : stack'[t][i].pc = "resume"
      BY <1>1, <3>1
    <3>3. Len(stack'[t]) <= MaxDepth /\ Len(stack'[t]) <= MaxDepth + 1
      BY <1>1, <3>1, Constants
    <3>4. request'[t] # None
      BY DEF Stacked
    <3> QED BY <1>1, <2>2, <3>2, <3>3, <3>4, Zenon
  <2> QED BY <2>1, <2>2
<1> QED BY <1>1, <1>2 DEF Stacked

\* A thread leaves all its calls, or begins with the first.
LEMMA RestartKeeps ==
  ASSUME Stacked, NEW t \in Threads,
         NEW s, s = <<>> \/ \E q \in Questions : s = <<Call(q)>>,
         stack' = [stack EXCEPT ![t] = s], \A q \in Questions : Call(q) \in SoundFrame,
         \A u \in Threads \ {t} : ret'[u] = ret[u] /\ request'[u] = request[u],
         s # <<>> => request'[t] # None
  PROVE  Stacked'
<1>1. /\ s \in Seq(SoundFrame) /\ Len(s) \in Nat /\ Len(s) <= 1
      /\ s # <<>> => Len(s) = 1 /\ s[1].pc = "enter"
  <2>1. ASSUME s = <<>>
        PROVE  s \in Seq(SoundFrame) /\ Len(s) \in Nat /\ Len(s) <= 1
    BY <2>1
  <2>2. ASSUME NEW q \in Questions, s = <<Call(q)>>
        PROVE  /\ s \in Seq(SoundFrame) /\ Len(s) \in Nat /\ Len(s) <= 1
               /\ Len(s) = 1 /\ s[1].pc = "enter"
    <3>1. Call(q) \in SoundFrame /\ Call(q).pc = "enter"
      BY DEF Call
    <3> QED BY <2>2, <3>1
  <2> QED BY <2>1, <2>2, Zenon
<1>2. /\ stack' \in [Threads -> Seq(SoundFrame)] /\ stack'[t] = s
      /\ \A u \in Threads \ {t} : stack'[u] = stack[u]
  BY <1>1 DEF Stacked
<1>3. ASSUME NEW u \in Threads
      PROVE  /\ Len(stack'[u]) <= MaxDepth + 1
             /\ stack'[u] # <<>> /\ Top(u)'.pc # "enter" => Len(stack'[u]) <= MaxDepth
             /\ \A i \in 1 .. Len(stack'[u]) - 1 : stack'[u][i].pc = "resume"
             /\ At(u, "resume")' => ret'[u] \in Packet
             /\ stack'[u] # <<>> => request'[u] # None
  <2>1. CASE u # t
    BY <1>2, <2>1 DEF Stacked, Top, At
  <2>2. CASE u = t
    <3>1. stack'[t] # <<>> => Top(t)'.pc = "enter"
      BY <1>1, <1>2 DEF Top
    <3> QED BY <1>1, <1>2, <2>2, <3>1, Constants DEF At
  <2> QED BY <2>1, <2>2
<1> QED BY <1>2, <1>3 DEF Stacked

-----------------------------------------------------------------------------
(***************************************************************************)
(* The frames the actions put in place of a sound one are sound.           *)
(***************************************************************************)
LEMMA NewCall ==
  ASSUME NEW q \in Questions
  PROVE  Call(q) \in SoundFrame
<1>1. Chain[q[1]] \in Seq(Zones) /\ 0 \in 0 .. Len(Roots) /\ q \in Questions
  BY Constants DEF Questions
<1>2. Call(q) \in Frame
  BY <1>1 DEF Call, Frame
<1> QED BY <1>2 DEF SoundFrame, Call, Tried

LEMMA WalkFrames ==
  ASSUME NEW f \in SoundFrame, f.pc \in {"enter", "walk"}
  PROVE  /\ [f EXCEPT !.pc = "walk"] \in SoundFrame
         /\ [f EXCEPT !.pc = "root"] \in SoundFrame
         /\ f.walk # <<>> => [f EXCEPT !.walk = Tail(@)] \in SoundFrame
         /\ \A s \in Servers :
              [f EXCEPT !.pc = "root", !.walk = <<>>, !.ns = s, !.cached = s] \in SoundFrame
<1>1. f \in Frame /\ f.root = 0 /\ f.ns = None /\ f.cached = None
  BY DEF SoundFrame
<1>2. [f EXCEPT !.pc = "walk"] \in SoundFrame
  BY <1>1 DEF SoundFrame, Frame, Tried
<1>3. [f EXCEPT !.pc = "root"] \in SoundFrame
  BY <1>1 DEF SoundFrame, Frame, Tried
<1>4. ASSUME f.walk # <<>> PROVE [f EXCEPT !.walk = Tail(@)] \in SoundFrame
  <2>1. f.walk \in Seq(Zones)
    BY <1>1 DEF Frame
  <2>2. Tail(f.walk) \in Seq(Zones)
    BY <1>4, <2>1, HeadTailProperties
  <2> QED BY <1>1, <2>2 DEF SoundFrame, Frame, Tried
<1>5. ASSUME NEW s \in Servers
      PROVE  [f EXCEPT !.pc = "root", !.walk = <<>>, !.ns = s, !.cached = s] \in SoundFrame
  <2> DEFINE g == [f EXCEPT !.pc = "root", !.walk = <<>>, !.ns = s, !.cached = s]
  <2>1. g \in Frame
    <3>1. <<>> \in Seq(Zones)
      OBVIOUS
    <3> QED BY <1>1, <3>1 DEF Frame
  <2>2. g.pc = "root" /\ g.root = 0 /\ g.ns = g.cached
    BY <1>1 DEF Frame
  <2> HIDE DEF g
  <2>3. g \in SoundFrame
    BY <2>1, <2>2 DEF SoundFrame, Tried
  <2> QED BY <2>3 DEF g
<1> QED BY <1>2, <1>3, <1>4, <1>5

\* The next turn of the loop: its server is asked next.
LEMMA RootFrame ==
  ASSUME NEW f \in SoundFrame, f.pc = "root", f.root < Len(Roots)
  PROVE  [f EXCEPT !.pc = "ask", !.root = @ + 1,
                   !.ns = IF @ = None \/ f.timedOut THEN Roots[f.root + 1] ELSE @]
           \in SoundFrame
<1> DEFINE n == f.root + 1
           s == IF f.ns = None \/ f.timedOut THEN Roots[n] ELSE f.ns
           g == [f EXCEPT !.pc = "ask", !.root = n, !.ns = s]
<1>1. f \in Frame /\ f.root \in Nat /\ Tried(f, f.asked)
      /\ (f.timedOut \/ (f.root = 0 /\ f.ns = f.cached))
  BY DEF SoundFrame, Frame
<1>2. n \in 1 .. Len(Roots) /\ Roots[n] \in Servers /\ s \in Servers
  BY <1>1, Constants DEF Frame
<1>3. Roots[n] = s \/ (n = 1 /\ f.cached # None /\ f.cached = s)
  BY <1>1
<1> HIDE DEF s, n
<1>4. /\ g.pc = "ask" /\ g.root = n /\ g.ns = s /\ g.cached = f.cached
      /\ g.asked = f.asked
  BY <1>1 DEF Frame
<1>8. n \in 0 .. Len(Roots)
  BY <1>2
<1>9. g \in Frame
  BY <1>1, <1>2, <1>8 DEF Frame
<1>5. \A i \in 1 .. n : i \in 1 .. f.root \/ i = n
  BY <1>1, <1>2 DEF n
<1>6. Tried(g, g.asked \cup {g.ns})
  BY <1>1, <1>3, <1>4, <1>5 DEF Tried
<1>7. g \in SoundFrame
  BY <1>2, <1>4, <1>6, <1>9 DEF SoundFrame
<1> QED BY <1>7 DEF g, s, n

\* After a timeout, with a referral, before and after a recursion.
LEMMA AskFrames ==
  ASSUME NEW f \in SoundFrame, f.pc = "ask"
  PROVE  LET h == [f EXCEPT !.asked = @ \cup {f.ns}]
         IN  /\ [h EXCEPT !.pc = "root", !.timedOut = TRUE] \in SoundFrame
             /\ \A s \in Servers : [h EXCEPT !.ns = s] \in SoundFrame
             /\ \A p \in Packet : [h EXCEPT !.pc = "resume", !.response = p] \in SoundFrame
<1> DEFINE S == f.asked \cup {f.ns}
           h == [f EXCEPT !.asked = S]
<1>1. f \in Frame /\ f.ns \in Servers /\ Tried(f, S)
  BY DEF SoundFrame
<1>2. h \in Frame /\ S \subseteq Servers
  BY <1>1 DEF Frame
<1>3. [h EXCEPT !.pc = "root", !.timedOut = TRUE] \in SoundFrame
  BY <1>1, <1>2 DEF SoundFrame, Frame, Tried
<1>4. ASSUME NEW s \in Servers PROVE [h EXCEPT !.ns = s] \in SoundFrame
  BY <1>1, <1>2 DEF SoundFrame, Frame, Tried
<1>5. ASSUME NEW p \in Packet
      PROVE  [h EXCEPT !.pc = "resume", !.response = p] \in SoundFrame
  BY <1>1, <1>2 DEF SoundFrame, Frame, Tried
<1> QED BY <1>3, <1>4, <1>5

LEMMA ResumeFrame ==
  ASSUME NEW f \in SoundFrame, f.pc = "resume", NEW s \in Servers
  PROVE  [f EXCEPT !.pc = "ask", !.ns = s, !.response = None] \in SoundFrame
<1>1. f \in Frame /\ f.ns \in f.asked /\ Tried(f, f.asked \cup {f.ns})
  BY DEF SoundFrame
<1> QED BY <1>1 DEF SoundFrame, Frame, Tried

-----------------------------------------------------------------------------
(***************************************************************************)
(* What a step may do to the i-th call of thread u: begin it, leave it as  *)
(* it is, or take it on, which only the last call can be.                  *)
(***************************************************************************)
Begun(u, i) ==
  stack'[u][i].pc = "enter" /\ (i = 1 => stack'[u][1].q = request'[u])

Same(u, i) == i \in 1 .. Len(stack[u]) /\ stack'[u][i] = stack[u][i]

TakenOn(u, i) ==
  /\ i = Len(stack[u]) /\ i \in 1 .. Len(stack[u])
  /\ stack'[u][i].q = stack[u][i].q
  /\ stack[u][i].pc = "enter" => /\ stack[u][i].q[1] \notin visited[u]
                                 /\ stack[u][i].q[1] \in visited'[u]
  /\ stack'[u][i].pc = "resume" =>
       \E c : <<stack[u][i].q, c, stack'[u][i].response.answers>> \in heard'

Moves == \A u \in Threads : \A i \in 1 .. Len(stack'[u]) :
           Begun(u, i) \/ Same(u, i) \/ TakenOn(u, i)

LEMMA SetTopMoves ==
  ASSUME Stacked, NEW t \in Threads, stack[t] # <<>>, NEW g \in SoundFrame, SetTop(t, g),
         g.q = Top(t).q, g.pc # "resume",
         Top(t).pc = "enter" => /\ Top(t).q[1] \notin visited[t]
                                /\ Top(t).q[1] \in visited'[t]
  PROVE  Moves
<1>1. stack \in [Threads -> Seq(SoundFrame)]
  BY DEF Stacked
<1>2. /\ Len(stack'[t]) = Len(stack[t])
      /\ Len(stack[t]) \in Nat /\ Len(stack[t]) >= 1
      /\ stack'[t][Len(stack[t])] = g
      /\ \A i \in 1 .. Len(stack[t]) - 1 : stack'[t][i] = stack[t][i]
      /\ \A u \in Threads \ {t} : stack'[u] = stack[u]
  BY <1>1, SetTopFacts
<1>3. ASSUME NEW i \in 1 .. Len(stack'[t]) PROVE Same(t, i) \/ TakenOn(t, i)
  <2>1. CASE i = Len(stack[t])
    BY <1>2, <2>1 DEF TakenOn, Top
  <2>2. CASE i # Len(stack[t])
    BY <1>2, <2>2 DEF Same
  <2> QED BY <2>1, <2>2
<1>4. \A u \in Threads \ {t} : \A i \in 1 .. Len(stack'[u]) : Same(u, i)
  BY <1>2 DEF Same
<1> QED BY <1>3, <1>4 DEF Moves

LEMMA PushMoves ==
  ASSUME Stacked, NEW t \in Threads, stack[t] # <<>>, NEW g \in SoundFrame,
         NEW q \in Questions, Push(t, g, q), g.q = Top(t).q, Top(t).pc = "ask",
         NEW c, <<g.q, c, g.response.answers>> \in heard'
  PROVE  Moves
<1>1. stack \in [Threads -> Seq(SoundFrame)] /\ Call(q) \in SoundFrame
  BY NewCall DEF Stacked
<1>2. /\ Len(stack'[t]) = Len(stack[t]) + 1
      /\ Len(stack[t]) \in Nat /\ Len(stack[t]) >= 1
      /\ stack'[t][Len(stack[t]) + 1] = Call(q)
      /\ stack'[t][Len(stack[t])] = g
      /\ \A i \in 1 .. Len(stack[t]) - 1 : stack'[t][i] = stack[t][i]
      /\ \A u \in Threads \ {t} : stack'[u] = stack[u]
  BY <1>1, PushFacts
<1>3. ASSUME NEW i \in 1 .. Len(stack'[t])
      PROVE  Begun(t, i) \/ Same(t, i) \/ TakenOn(t, i)
  <2>1. CASE i = Len(stack[t])
    <3>1. i \in 1 .. Len(stack[t]) /\ stack'[t][i] = g /\ stack[t][i] = Top(t)
      BY <1>2, <2>1 DEF Top
    <3>2. \E d : <<stack[t][i].q, d, stack'[t][i].response.answers>> \in heard'
      BY <3>1
    <3>3. stack'[t][i].q = stack[t][i].q /\ stack[t][i].pc # "enter"
      BY <3>1
    <3> QED BY <2>1, <3>1, <3>2, <3>3 DEF TakenOn
  <2>2. CASE i = Len(stack[t]) + 1
    <3>1. i # 1 /\ stack'[t][i] = Call(q)
      BY <1>2, <2>2
    <3>2. Call(q).pc = "enter"
      BY DEF Call
    <3> QED BY <3>1, <3>2, Zenon DEF Begun
  <2>3. CASE i \in 1 .. Len(stack[t]) - 1
    BY <1>2, <2>3 DEF Same
  <2> QED BY <1>2, <2>1, <2>2, <2>3
<1>4. \A u \in Threads \ {t} : \A i \in 1 .. Len(stack'[u]) : Same(u, i)
  BY <1>2 DEF Same
<1> QED BY <1>3, <1>4 DEF Moves

LEMMA ReturnMoves ==
  ASSUME Stacked, NEW t \in Threads, stack[t] # <<>>, NEW p \in Packet,
         ret \in [Threads -> Packet \cup {None}], ReturnPacket(t, p)
  PROVE  Moves
<1>1. stack \in [Threads -> Seq(SoundFrame)]
  BY DEF Stacked
<1>2. /\ Len(stack[t]) \in Nat /\ Len(stack[t]) >= 1
      /\ Len(stack'[t]) = Len(stack[t]) - 1
      /\ \A i \in 1 .. Len(stack[t]) - 1 : stack'[t][i] = stack[t][i]
      /\ \A u \in Threads \ {t} : stack'[u] = stack[u]
  BY <1>1, ReturnFacts
<1>3. \A u \in Threads : \A i \in 1 .. Len(stack'[u]) : Same(u, i)
  BY <1>2 DEF Same
<1> QED BY <1>3 DEF Moves

LEMMA RestartMoves ==
  ASSUME Stacked, NEW t \in Threads, NEW s, stack' = [stack EXCEPT ![t] = s],
         \/ s = <<>>
         \/ \E q \in Questions : s = <<Call(q)>> /\ request'[t] = q
  PROVE  Moves
<1>1. stack'[t] = s /\ \A u \in Threads \ {t} : stack'[u] = stack[u]
  BY DEF Stacked
<1>2. ASSUME NEW q \in Questions, s = <<Call(q)>>, request'[t] = q,
             NEW i \in 1 .. Len(stack'[t])
      PROVE  Begun(t, i)
  <2>1. i = 1 /\ stack'[t][1] = Call(q)
    <3> DEFINE f == Call(q)
    <3>1. stack'[t] = <<f>>
      BY <1>1, <1>2
    <3> HIDE DEF f
    <3>2. i \in 1 .. Len(<<f>>)
      BY <1>2, <3>1
    <3> QED BY <3>1, <3>2 DEF f
  <2> QED BY <1>2, <2>1 DEF Begun, Call
<1>3. ASSUME s = <<>>, NEW i \in 1 .. Len(stack'[t]) PROVE FALSE
  BY <1>1, <1>3
<1>4. \A u \in Threads \ {t} : \A i \in 1 .. Len(stack'[u]) : Same(u, i)
  BY <1>1 DEF Same
<1> QED BY <1>2, <1>3, <1>4 DEF Moves


-----------------------------------------------------------------------------
(***************************************************************************)
(* Every step keeps the types.                                             *)
(***************************************************************************)
LEMMA TopFacts ==
  ASSUME Stacked, NEW t \in Threads, NEW l, At(t, l)
  PROVE  /\ stack[t] # <<>> /\ Top(t).pc = l
         /\ Top(t) \in SoundFrame /\ Top(t) \in Frame
         /\ Top(t).q \in Questions /\ Top(t).q[1] \in Names
         /\ l # "enter" => Len(stack[t]) <= MaxDepth
<1>1. stack[t] # <<>> /\ Top(t).pc = l /\ stack[t] \in Seq(SoundFrame)
  BY DEF At, Stacked
<1>2. Top(t) \in SoundFrame
  BY <1>1 DEF Top
<1>3. Top(t) \in Frame
  BY <1>2 DEF SoundFrame
<1> QED BY <1>1, <1>2, <1>3 DEF Frame, Questions, Stacked

\* What is heard is a packet, and it is remembered.
LEMMA HearsFacts ==
  ASSUME Stacked, NEW t \in Threads, NEW p, Hears(t, p)
  PROVE  /\ At(t, "ask") /\ p \in Packet
         /\ heard' = heard \cup {<<Top(t).q, p.rcode, p.answers>>}
<1>1. At(t, "ask") /\ p \in Internet[Top(t).ns, Top(t).q]
      /\ heard' = heard \cup {<<Top(t).q, p.rcode, p.answers>>}
  BY Zenon DEF Hears
<1>2. Top(t).q \in Questions /\ Top(t).ns \in Servers
  BY <1>1, TopFacts DEF SoundFrame
<1> QED BY <1>1, <1>2, ResolverAssumption, Zenon

LEMMA FailPacket ==
  ASSUME NEW c \in Codes
  PROVE  Fail(c) \in Packet /\ Fail(c).answers = {}
BY DEF Fail, Packet

\* The steps of a call before it asks anyone.
LEMMA EarlySteps ==
  ASSUME TypeInv, NEW t \in Threads,
         \/ circular(t) \/ depthExceeded(t) \/ cacheHit(t) \/ cacheMiss(t)
         \/ walk(t) \/ nextRoot(t)
  PROVE  TypeInv' /\ Moves
<1> USE DEF TypeInv
<1>1. /\ "NXDOMAIN" \in Codes /\ "SERVFAIL" \in Codes /\ "NOERROR" \in Codes
  BY DEF Codes
<1>2. ASSUME visit(t), At(t, "enter") PROVE visited' \in [Threads -> SUBSET Names]
  BY <1>2, TopFacts DEF visit, Typed
<1>3. CASE circular(t)
  <2>1. At(t, "enter") /\ ReturnPacket(t, Fail("SERVFAIL")) /\ UNCHANGED request
    BY <1>3 DEF circular
  <2>2. Stacked' /\ ret' \in [Threads -> Packet \cup {None}] /\ Moves
    BY <1>1, <2>1, TopFacts, FailPacket, ReturnKeeps, ReturnMoves DEF Typed
  <2> QED BY <1>3, <2>2 DEF circular, caches, Typed
<1>4. CASE depthExceeded(t)
  <2>1. At(t, "enter") /\ ReturnPacket(t, Fail("SERVFAIL")) /\ UNCHANGED request
    BY <1>4 DEF depthExceeded
  <2>2. Stacked' /\ ret' \in [Threads -> Packet \cup {None}] /\ Moves
    BY <1>1, <2>1, TopFacts, FailPacket, ReturnKeeps, ReturnMoves DEF Typed
  <2> QED BY <1>2, <1>4, <2>2 DEF depthExceeded, caches, Typed
<1>5. CASE cacheHit(t)
  <2> DEFINE p == IF neg[Top(t).q] # None
                  THEN Fail("NXDOMAIN")
                  ELSE [rcode |-> "NOERROR", answers |-> pos[Top(t).q], ns |-> {}]
  <2>1. At(t, "enter") /\ ReturnPacket(t, p) /\ UNCHANGED request
    BY <1>5 DEF cacheHit
  <2>2. pos[Top(t).q] \subseteq Servers \cup {Other}
    BY <2>1, TopFacts DEF Typed
  <2>3. p \in Packet
    BY <1>1, <2>2, FailPacket DEF Packet
  <2> HIDE DEF p
  <2>4. Stacked' /\ ret' \in [Threads -> Packet \cup {None}] /\ Moves
    BY <2>1, <2>3, TopFacts, ReturnKeeps, ReturnMoves DEF Typed
  <2> QED BY <1>2, <1>5, <2>4 DEF cacheHit, caches, Typed
<1>6. CASE cacheMiss(t)
  <2>1. At(t, "enter") /\ SetTop(t, [Top(t) EXCEPT !.pc = "walk"]) /\ UNCHANGED <<ret, request>>
    BY <1>6 DEF cacheMiss
  <2>2. Len(stack[t]) <= MaxDepth
    <3>1. Len(stack[t]) \in Nat /\ ~(Len(stack[t]) - 1 >= MaxDepth)
      BY <1>6, <2>1, TopFacts DEF cacheMiss, tooDeep, Depth, Stacked
    <3> QED BY <3>1, Constants
  <2> DEFINE g == [Top(t) EXCEPT !.pc = "walk"]
  <2>3. g \in SoundFrame /\ g.pc = "walk" /\ g.q = Top(t).q
    BY <2>1, TopFacts, WalkFrames DEF Frame
  <2> HIDE DEF g
  <2>4. Stacked'
    BY <2>1, <2>2, <2>3, TopFacts, SetTopKeeps DEF g
  <2>5. Top(t).q[1] \notin visited[t] /\ Top(t).q[1] \in visited'[t]
    BY <1>6 DEF cacheMiss, visit, Typed
  <2>6. Moves
    BY <2>1, <2>3, <2>5, TopFacts, SetTopMoves DEF g
  <2> QED BY <1>2, <1>6, <2>4, <2>6 DEF cacheMiss, caches, Typed
<1>7. CASE walk(t)
  <2> DEFINE f == Top(t)
             g == IF f.walk = <<>> THEN [f EXCEPT !.pc = "root"]
                  ELSE IF nsCache[Head(f.walk)] # None
                  THEN [f EXCEPT !.pc = "root", !.walk = <<>>,
                                 !.ns = nsCache[Head(f.walk)],
                                 !.cached = nsCache[Head(f.walk)]]
                  ELSE [f EXCEPT !.walk = Tail(@)]
  <2>1. At(t, "walk") /\ SetTop(t, g) /\ UNCHANGED <<ret, request>>
    BY <1>7 DEF walk
  <2>2. f \in SoundFrame /\ f \in Frame /\ f.pc = "walk" /\ f.walk \in Seq(Zones)
    BY <2>1, TopFacts DEF Frame
  <2>3. f.walk # <<>> => nsCache[Head(f.walk)] \in Servers \cup {None}
    BY <2>2, HeadTailProperties DEF Typed
  <2>4. g \in SoundFrame
    BY <2>2, <2>3, WalkFrames
  <2>5. g.pc \in {"walk", "root"} /\ g.q = f.q
    BY <2>2 DEF Frame
  <2> HIDE DEF g
  <2>6. Stacked' /\ Moves
    BY <2>1, <2>4, <2>5, TopFacts, SetTopKeeps, SetTopMoves
  <2> QED BY <1>7, <2>6 DEF walk, caches, Typed
<1>8. CASE nextRoot(t)
  <2> DEFINE f == Top(t)
             g == [f EXCEPT !.pc = "ask", !.root = @ + 1,
                            !.ns = IF @ = None \/ f.timedOut
                                   THEN Roots[f.root + 1] ELSE @]
  <2>1. At(t, "root") /\ f.root < Len(Roots) /\ SetTop(t, g) /\ UNCHANGED <<ret, request>>
    BY <1>8 DEF nextRoot
  <2>2. f \in SoundFrame /\ f \in Frame /\ f.pc = "root"
    BY <2>1, TopFacts
  <2>3. g \in SoundFrame /\ g.pc = "ask" /\ g.q = f.q
    BY <2>1, <2>2, RootFrame DEF Frame
  <2> HIDE DEF g
  <2>4. Stacked' /\ Moves
    BY <2>1, <2>3, TopFacts, SetTopKeeps, SetTopMoves
  <2> QED BY <1>8, <2>4 DEF nextRoot, caches, Typed
<1> QED BY <1>3, <1>4, <1>5, <1>6, <1>7, <1>8

\* What a server's packet, a timeout and a recursive call lead to.
LEMMA AskSteps ==
  ASSUME TypeInv, NEW t \in Threads, NEW p,
         \/ answered(t, p) \/ failed(t, p) \/ referred(t, p) \/ recurse(t, p)
         \/ noReferral(t, p) \/ timedOut(t) \/ resume(t)
  PROVE  TypeInv' /\ Moves
<1> USE DEF TypeInv
<1>1. CASE answered(t, p)
  <2>1. Hears(t, p) /\ ReturnPacket(t, p) /\ UNCHANGED request
    BY <1>1 DEF answered
  <2>2. At(t, "ask") /\ p \in Packet
    BY <2>1, HearsFacts
  <2>3. Stacked' /\ ret' \in [Threads -> Packet \cup {None}] /\ Moves
    BY <2>1, <2>2, TopFacts, ReturnKeeps, ReturnMoves DEF Typed
  <2>4. pos' \in [Questions -> SUBSET (Servers \cup {Other})]
    BY <1>1, <2>2 DEF answered, Typed, Packet
  <2> QED BY <1>1, <2>3, <2>4 DEF answered, Typed
<1>2. CASE failed(t, p)
  <2>1. Hears(t, p) /\ ReturnPacket(t, p) /\ UNCHANGED request
    BY <1>2 DEF failed
  <2>2. At(t, "ask") /\ p \in Packet
    BY <2>1, HearsFacts
  <2>3. Stacked' /\ ret' \in [Threads -> Packet \cup {None}] /\ Moves
    BY <2>1, <2>2, TopFacts, ReturnKeeps, ReturnMoves DEF Typed
  <2>4. neg' \in [Questions -> {"NXDOMAIN", "SERVFAIL", None}]
    BY <1>2 DEF failed, Failed, Typed
  <2> QED BY <1>2, <2>3, <2>4 DEF failed, Typed
<1>3. CASE noReferral(t, p)
  <2>1. Hears(t, p) /\ ReturnPacket(t, p) /\ UNCHANGED request
    BY <1>3 DEF noReferral
  <2>2. At(t, "ask") /\ p \in Packet
    BY <2>1, HearsFacts
  <2>3. Stacked' /\ ret' \in [Threads -> Packet \cup {None}] /\ Moves
    BY <2>1, <2>2, TopFacts, ReturnKeeps, ReturnMoves DEF Typed
  <2> QED BY <1>3, <2>3 DEF noReferral, caches, Typed
<1>4. CASE referred(t, p)
  <2>1. Hears(t, p) /\ insertNS(p, Top(t).q[1]) /\ UNCHANGED <<ret, request>>
    BY <1>4 DEF referred
  <2>2. At(t, "ask") /\ p \in Packet
    BY <2>1, HearsFacts
  <2>3. PICK r \in glued(p, Top(t).q[1]) : SetTop(t, [Asked(t) EXCEPT !.ns = r.glue])
    BY <1>4 DEF referred
  <2>4. r.glue \in Servers
    <3>1. r \in p.ns /\ p.ns \subseteq NSRecord /\ r.glue # None
      BY <2>2, <2>3 DEF glued, getNs, Packet
    <3> QED BY <3>1 DEF NSRecord
  <2> DEFINE g == [Asked(t) EXCEPT !.ns = r.glue]
  <2>5. g \in SoundFrame
    <3> DEFINE f == Top(t)
    <3>1. f \in SoundFrame /\ f.pc = "ask"
      BY <2>2, TopFacts
    <3> HIDE DEF f
    <3>2. [[f EXCEPT !.asked = @ \cup {f.ns}] EXCEPT !.ns = r.glue] \in SoundFrame
      BY <2>4, <3>1, AskFrames
    <3> QED BY <3>2 DEF Asked, f
  <2>6. g.pc = "ask" /\ g.q = Top(t).q
    BY <2>2, TopFacts DEF Asked, Frame
  <2> HIDE DEF g
  <2>7. Stacked' /\ Moves
    BY <2>1, <2>2, <2>3, <2>5, <2>6, TopFacts, SetTopKeeps, SetTopMoves DEF g
  <2>8. nsCache' \in [Zones -> Servers \cup {None}]
    BY <2>1 DEF insertNS, Typed
  <2> QED BY <1>4, <2>7, <2>8 DEF referred, Typed
<1>5. CASE recurse(t, p)
  <2>1. Hears(t, p) /\ UNCHANGED <<ret, request>>
    BY <1>5 DEF recurse
  <2>2. At(t, "ask") /\ p \in Packet /\ <<Top(t).q, p.rcode, p.answers>> \in heard'
    BY <2>1, HearsFacts
  <2> DEFINE g == [Asked(t) EXCEPT !.pc = "resume", !.response = p]
  <2>3. PICK r \in getNs(p, Top(t).q[1]) : Push(t, g, <<r.host, A>>)
    BY <1>5 DEF recurse
  <2>4. <<r.host, A>> \in Questions
    <3>1. r \in p.ns /\ p.ns \subseteq NSRecord
      BY <2>2, <2>3 DEF getNs, Packet
    <3> QED BY <3>1, Constants DEF NSRecord, Questions
  <2>5. g \in SoundFrame
    BY <2>2, TopFacts, AskFrames DEF Asked
  <2>6. g.pc = "resume" /\ g.q = Top(t).q /\ g.response = p
    BY <2>2, TopFacts DEF Asked, Frame
  <2> HIDE DEF g
  <2>7. Stacked'
    BY <2>1, <2>2, <2>3, <2>4, <2>5, <2>6, NewCall, TopFacts, PushKeeps
  <2>8. Moves
    BY <2>2, <2>3, <2>4, <2>5, <2>6, TopFacts, PushMoves
  <2> QED BY <1>5, <2>7, <2>8 DEF recurse, caches, Typed
<1>6. CASE timedOut(t)
  <2> DEFINE g == [Asked(t) EXCEPT !.pc = "root", !.timedOut = TRUE]
  <2>1. At(t, "ask") /\ SetTop(t, g) /\ UNCHANGED <<ret, request>>
    BY <1>6 DEF timedOut
  <2>2. g \in SoundFrame
    BY <2>1, TopFacts, AskFrames DEF Asked
  <2>3. g.pc = "root" /\ g.q = Top(t).q
    BY <2>1, TopFacts DEF Asked, Frame
  <2> HIDE DEF g
  <2>4. Stacked' /\ Moves
    BY <2>1, <2>2, <2>3, TopFacts, SetTopKeeps, SetTopMoves
  <2> QED BY <1>6, <2>4 DEF timedOut, caches, Typed
<1>7. CASE resume(t)
  <2>1. At(t, "resume") /\ ret[t] \in Packet /\ UNCHANGED request
    BY <1>7 DEF resume, Stacked
  <2>2. ASSUME NEW a \in getA(ret[t]),
               SetTop(t, [Top(t) EXCEPT !.pc = "ask", !.ns = a, !.response = None]),
               ret' = [ret EXCEPT ![t] = None]
        PROVE  Stacked' /\ ret' \in [Threads -> Packet \cup {None}] /\ Moves
    <3>1. a \in Servers
      BY DEF getA
    <3> DEFINE g == [Top(t) EXCEPT !.pc = "ask", !.ns = a, !.response = None]
    <3>2. g \in SoundFrame /\ g.pc = "ask" /\ g.q = Top(t).q
      BY <2>1, <3>1, TopFacts, ResumeFrame DEF Frame
    <3>3. \A u \in Threads \ {t} : ret'[u] = ret[u]
      BY <2>2 DEF Typed
    <3>4. SetTop(t, g)
      BY <2>2
    <3> HIDE DEF g
    <3>5. Stacked'
      BY <2>1, <3>2, <3>3, <3>4, TopFacts, SetTopKeeps
    <3>6. Moves
      BY <2>1, <3>2, <3>4, TopFacts, SetTopMoves
    <3> QED BY <2>2, <3>5, <3>6 DEF Typed
  <2>3. ASSUME ReturnPacket(t, Top(t).response)
        PROVE  Stacked' /\ ret' \in [Threads -> Packet \cup {None}] /\ Moves
    <3>1. Top(t).response \in Packet
      BY <2>1, TopFacts DEF SoundFrame
    <3> QED BY <2>1, <2>3, <3>1, TopFacts, ReturnKeeps, ReturnMoves DEF Typed
  <2>4. Stacked' /\ ret' \in [Threads -> Packet \cup {None}] /\ Moves
    BY <1>7, <2>2, <2>3 DEF resume
  <2> QED BY <1>7, <2>4 DEF resume, caches, Typed
<1> QED BY <1>1, <1>2, <1>3, <1>4, <1>5, <1>6, <1>7

LEMMA FinishTyped ==
  ASSUME Typed, NEW t \in Threads, NEW p \in Packet \cup {None}, Finish(t, p),
         UNCHANGED caches
  PROVE  Typed' /\ \A u \in Threads \ {t} : ret'[u] = ret[u] /\ request'[u] = request[u]
BY DEF Finish, Typed, caches

\* A request begins, is turned away, ends with a reply or with an exception.
LEMMA RequestSteps ==
  ASSUME TypeInv, NEW t \in Threads,
         \/ \E q \in Questions : begin(t, q)
         \/ \E p \in {Fail("REFUSED"), Fail("FORMERR"), None} : turnAway(t, p)
         \/ respond(t) \/ allRootsFailed(t) \/ askThrows(t)
  PROVE  TypeInv' /\ Moves
<1> USE DEF TypeInv
<1>1. "REFUSED" \in Codes /\ "FORMERR" \in Codes /\ "SERVFAIL" \in Codes
  BY DEF Codes
<1>2. ASSUME NEW q \in Questions, begin(t, q) PROVE TypeInv' /\ Moves
  <2>1. /\ stack' = [stack EXCEPT ![t] = <<Call(q)>>] /\ UNCHANGED ret
        /\ request' = [request EXCEPT ![t] = q]
    BY <1>2 DEF begin
  <2>2. /\ request'[t] = q /\ q # None
        /\ \A u \in Threads \ {t} : request'[u] = request[u]
    BY <2>1, Constants DEF Typed
  <2>3. Stacked' /\ Moves
    BY <2>1, <2>2, NewCall, RestartKeeps, RestartMoves
  <2> QED BY <1>2, <2>3 DEF begin, caches, Typed
<1>3. ASSUME NEW p \in Packet \cup {None}, Finish(t, p), UNCHANGED caches,
             stack' = [stack EXCEPT ![t] = <<>>]
      PROVE  TypeInv' /\ Moves
  <2>1. /\ Typed'
        /\ \A u \in Threads \ {t} : ret'[u] = ret[u] /\ request'[u] = request[u]
    BY <1>3, FinishTyped
  <2>2. Stacked' /\ Moves
    BY <1>3, <2>1, NewCall, RestartKeeps, RestartMoves
  <2> QED BY <2>1, <2>2
<1>4. ASSUME stack[t] = <<>>, UNCHANGED stack PROVE stack' = [stack EXCEPT ![t] = <<>>]
  BY <1>4 DEF Stacked
<1>5. ASSUME NEW p \in {Fail("REFUSED"), Fail("FORMERR"), None}, turnAway(t, p)
      PROVE  TypeInv' /\ Moves
  <2>1. Finish(t, p) /\ UNCHANGED caches /\ UNCHANGED stack /\ stack[t] = <<>>
    BY <1>5 DEF turnAway, Stacked
  <2>2. p \in Packet \cup {None}
    BY <1>1, FailPacket
  <2> QED BY <1>3, <1>4, <2>1, <2>2
<1>6. CASE respond(t)
  <2>1. stack[t] = <<>> /\ UNCHANGED stack /\ UNCHANGED caches
        /\ (Finish(t, ret[t]) \/ Finish(t, None))
    BY <1>6 DEF respond
  <2>2. ret[t] \in Packet \cup {None}
    BY DEF Typed
  <2> QED BY <1>3, <1>4, <2>1, <2>2
<1>7. ASSUME Throw(t) PROVE TypeInv' /\ Moves
  BY <1>1, <1>3, <1>7, FailPacket DEF Throw
<1> QED BY <1>2, <1>5, <1>6, <1>7 DEF allRootsFailed, askThrows

\* The steps of Next, by the lemmas that treat them.
LEMMA Cases ==
  ASSUME Next
  PROVE  \/ \E t \in Threads :
              \/ \/ circular(t) \/ depthExceeded(t) \/ cacheHit(t) \/ cacheMiss(t)
                 \/ walk(t) \/ nextRoot(t)
              \/ \E p : \/ answered(t, p) \/ failed(t, p) \/ referred(t, p)
                        \/ recurse(t, p) \/ noReferral(t, p)
              \/ timedOut(t) \/ resume(t)
              \/ \E q \in Questions : begin(t, q)
              \/ \E p \in {Fail("REFUSED"), Fail("FORMERR"), None} : turnAway(t, p)
              \/ respond(t) \/ allRootsFailed(t) \/ askThrows(t)
         \/ Forget \/ UNCHANGED vars
<1>1. ASSUME NEW t \in Threads, Reply(t)
      PROVE  \E p : \/ answered(t, p) \/ failed(t, p) \/ referred(t, p)
                    \/ recurse(t, p) \/ noReferral(t, p)
  BY <1>1, Zenon DEF Reply
<1> QED BY <1>1, Zenon DEF Next, Step, Quiet

LEMMA TypeInductive ==
  ASSUME TypeInv, [Next]_vars
  PROVE  TypeInv' /\ Moves
<1>3. ASSUME UNCHANGED stack PROVE Moves
  BY <1>3 DEF Moves, Same
<1>1. CASE Forget
  <2>1. UNCHANGED <<stack, visited, ret, request, last>>
    BY <1>1 DEF Forget
  <2>2. /\ pos' \in [Questions -> SUBSET (Servers \cup {Other})]
        /\ neg' \in [Questions -> {"NXDOMAIN", "SERVFAIL", None}]
        /\ nsCache' \in [Zones -> Servers \cup {None}]
    BY <1>1 DEF Forget, forget, TypeInv, Typed
  <2> QED BY <1>3, <2>1, <2>2 DEF TypeInv, Typed, Stacked, At, Top
<1>2. CASE UNCHANGED vars
  BY <1>2, <1>3 DEF vars, caches, TypeInv, Typed, Stacked, At, Top
<1> QED BY <1>1, <1>2, Cases, EarlySteps, AskSteps, RequestSteps

\* The state has its types and at most MaxDepth + 1 calls are active: the depth
\* check comes after a call has begun (Core.hpp:160).
THEOREM TypeCorrect == Spec => []TypeOK
<1>1. Init => TypeInv
  BY Constants DEF Init, TypeInv, Typed, Stacked, At
<1>2. TypeInv /\ [Next]_vars => TypeInv'
  BY TypeInductive
<1>3. TypeInv => TypeOK
  <2> SUFFICES ASSUME TypeInv PROVE TypeOK
    OBVIOUS
  <2>1. ASSUME NEW t \in Threads, NEW i \in DOMAIN stack[t] PROVE stack[t][i] \in Frame
    <3>1. stack[t] \in Seq(SoundFrame)
      BY DEF TypeInv, Stacked
    <3>2. stack[t][i] \in SoundFrame
      BY <3>1
    <3> QED BY <3>2 DEF SoundFrame
  <2> QED BY <2>1 DEF TypeInv, Typed, Stacked, TypeOK
<1> QED BY <1>1, <1>2, <1>3, PTL DEF Spec

-----------------------------------------------------------------------------
\* "all root servers failed" only when each was asked, but perhaps the first:
\* then a cached name server was asked in its place and timed out
\* (Core.hpp:209-219).
THEOREM RootServersTried == Spec => RootsTried
<1>1. Init => TypeInv
  BY Constants DEF Init, TypeInv, Typed, Stacked, At
<1>2. TypeInv /\ [Next]_vars => TypeInv'
  BY TypeInductive
<1>3. ASSUME TypeInv, NEW t \in Threads, allRootsFailed(t)
      PROVE  AllTried(t)
  <2> DEFINE f == Top(t)
  <2>1. At(t, "root") /\ f.root >= Len(Roots)
    BY <1>3 DEF allRootsFailed
  <2>2. f \in SoundFrame /\ f.pc = "root"
    BY <1>3, <2>1, TopFacts DEF TypeInv
  <2>3. f.root \in Nat /\ Tried(f, f.asked)
    BY <2>2 DEF SoundFrame, Frame
  <2> HIDE DEF f
  <2>4. ASSUME NEW s \in Range(Roots) \ f.asked
        PROVE  s = Roots[1] /\ f.cached # None /\ f.cached \in f.asked
    <3>1. PICK i \in 1 .. Len(Roots) : s = Roots[i]
      BY Constants DEF Range
    <3>2. i \in 1 .. f.root
      BY <2>1, <2>3, Constants
    <3> QED BY <2>3, <3>1, <3>2 DEF Tried
  <2> QED BY <2>4 DEF f, AllTried
<1>4. TypeInv => [\A t \in Threads : allRootsFailed(t) => AllTried(t)]_vars
  BY <1>3
<1> QED BY <1>1, <1>2, <1>4, PTL DEF Spec, RootsTried

-----------------------------------------------------------------------------
\* What is cached was heard before, and is only forgotten otherwise.
LEMMA CacheKept ==
  ASSUME CacheHeard, heard \subseteq heard',
         \A q \in Questions : pos'[q] \subseteq pos[q] /\ neg'[q] \in {neg[q], None}
  PROVE  CacheHeard'
BY DEF CacheHeard

LEMMA CacheSteps ==
  ASSUME TypeInv, CacheHeard, [Next]_vars
  PROVE  CacheHeard'
<1> USE DEF TypeInv
<1>1. ASSUME UNCHANGED <<pos, neg>>, heard \subseteq heard' PROVE CacheHeard'
  BY <1>1, CacheKept
<1>2. CASE Forget
  <2>1. UNCHANGED heard
    BY <1>2 DEF Forget
  <2>2. \A q \in Questions : pos'[q] \subseteq pos[q] /\ neg'[q] \in {neg[q], None}
    BY <1>2 DEF Forget, forget, Typed
  <2> QED BY <2>1, <2>2, CacheKept
<1>3. CASE UNCHANGED vars
  BY <1>1, <1>3 DEF vars, caches
<1>4. ASSUME NEW t \in Threads,
             \/ circular(t) \/ depthExceeded(t) \/ cacheHit(t) \/ cacheMiss(t)
             \/ walk(t) \/ nextRoot(t) \/ timedOut(t) \/ resume(t)
             \/ \E q \in Questions : begin(t, q)
             \/ \E p \in {Fail("REFUSED"), Fail("FORMERR"), None} : turnAway(t, p)
             \/ respond(t) \/ allRootsFailed(t) \/ askThrows(t)
      PROVE  CacheHeard'
  BY <1>1, <1>4 DEF circular, depthExceeded, cacheHit, cacheMiss, walk, nextRoot,
     timedOut, resume, begin, turnAway, respond, allRootsFailed, askThrows, Throw, caches
<1>5. ASSUME NEW t \in Threads, NEW p, referred(t, p) \/ recurse(t, p) \/ noReferral(t, p)
      PROVE  CacheHeard'
  <2>1. Hears(t, p) /\ UNCHANGED <<pos, neg>>
    BY <1>5 DEF referred, recurse, noReferral, caches
  <2> QED BY <1>1, <2>1, HearsFacts
<1>6. ASSUME NEW t \in Threads, NEW p, answered(t, p) PROVE CacheHeard'
  <2>1. /\ Hears(t, p) /\ p.rcode = "NOERROR" /\ UNCHANGED neg
        /\ pos' = [pos EXCEPT ![Top(t).q] = p.answers] \/ UNCHANGED pos
    BY <1>6 DEF answered, Answered
  <2>2. At(t, "ask") /\ heard' = heard \cup {<<Top(t).q, p.rcode, p.answers>>}
    BY <2>1, HearsFacts
  <2>3. Top(t).q \in Questions
    BY <2>2, TopFacts
  <2>4. ASSUME NEW q \in Questions
        PROVE  pos'[q] # {} => \E h \in heard' : h[1] = q /\ h[2] = "NOERROR"
                                                  /\ pos'[q] \subseteq h[3]
    <3>1. CASE pos'[q] = pos[q]
      BY <2>2, <3>1 DEF CacheHeard
    <3>2. CASE pos'[q] # pos[q]
      <4> DEFINE e == <<q, p.rcode, p.answers>>
      <4>1. q = Top(t).q /\ pos'[q] = p.answers
        BY <2>1, <3>2 DEF Typed
      <4>2. e \in heard' /\ e[1] = q /\ e[2] = p.rcode /\ e[3] = p.answers
        BY <2>2, <4>1
      <4> QED BY <2>1, <4>1, <4>2
    <3> QED BY <3>1, <3>2
  <2> QED BY <2>1, <2>2, <2>4 DEF CacheHeard
<1>7. ASSUME NEW t \in Threads, NEW p, failed(t, p) PROVE CacheHeard'
  <2>1. /\ Hears(t, p) /\ UNCHANGED pos
        /\ neg' = [neg EXCEPT ![Top(t).q] = p.rcode]
    BY <1>7 DEF failed
  <2>2. At(t, "ask") /\ heard' = heard \cup {<<Top(t).q, p.rcode, p.answers>>}
    BY <2>1, HearsFacts
  <2>3. Top(t).q \in Questions
    BY <2>2, TopFacts
  <2>4. ASSUME NEW q \in Questions
        PROVE  neg'[q] # None => \E h \in heard' : h[1] = q /\ h[2] = neg'[q]
    <3>1. CASE q = Top(t).q
      <4> DEFINE e == <<q, p.rcode, p.answers>>
      <4>1. e \in heard' /\ e[1] = q /\ e[2] = p.rcode /\ e[3] = p.answers
        BY <2>2, <3>1
      <4>2. neg'[q] = p.rcode
        BY <2>1, <3>1 DEF Typed
      <4> QED BY <2>1, <4>1, <4>2
    <3>2. CASE q # Top(t).q
      BY <2>1, <2>2, <3>2 DEF CacheHeard, Typed
    <3> QED BY <3>1, <3>2
  <2> QED BY <2>1, <2>2, <2>4 DEF CacheHeard
<1> QED BY <1>2, <1>3, <1>4, <1>5, <1>6, <1>7, Cases

\* What is cached for a question, good or bad, a server said of that question.
THEOREM NothingInvented == Spec => []CacheHeard
<1>1. Init => TypeInv /\ CacheHeard
  BY Constants DEF Init, TypeInv, Typed, Stacked, At, CacheHeard
<1>2. TypeInv /\ CacheHeard /\ [Next]_vars => TypeInv' /\ CacheHeard'
  BY TypeInductive, CacheSteps
<1> QED BY <1>1, <1>2, PTL DEF Spec

-----------------------------------------------------------------------------
\* A call that is past its first lines has entered its name in visited, and no
\* two such calls are about the same name.
Visiting ==
  \A t \in Threads : \A i \in 1 .. Len(stack[t]) :
    stack[t][i].pc # "enter" =>
      /\ stack[t][i].q[1] \in visited[t]
      /\ \A j \in 1 .. Len(stack[t]) :
           stack[t][j].pc # "enter" /\ stack[t][i].q[1] = stack[t][j].q[1] => i = j

\* Names leave visited only when the request ends.
LEMMA VisitedGrows ==
  ASSUME TypeInv, [Next]_vars, NEW u \in Threads, stack'[u] # <<>>
  PROVE  visited[u] \subseteq visited'[u]
<1> USE DEF TypeInv
<1>1. ASSUME NEW t \in Threads, NEW p, Finish(t, p), stack'[t] = <<>>
      PROVE  visited[u] \subseteq visited'[u]
  BY <1>1 DEF Finish, Typed
<1>2. ASSUME NEW t \in Threads, visit(t) PROVE visited[u] \subseteq visited'[u]
  BY <1>2 DEF visit, Typed
<1>3. ASSUME NEW t \in Threads, depthExceeded(t) \/ cacheHit(t) \/ cacheMiss(t)
      PROVE  visited[u] \subseteq visited'[u]
  BY <1>2, <1>3 DEF depthExceeded, cacheHit, cacheMiss
<1>4. ASSUME NEW t \in Threads,
             \/ circular(t) \/ walk(t) \/ nextRoot(t) \/ timedOut(t) \/ resume(t)
             \/ \E q \in Questions : begin(t, q)
             \/ \E p : answered(t, p) \/ failed(t, p) \/ referred(t, p)
                       \/ recurse(t, p) \/ noReferral(t, p)
      PROVE  visited[u] \subseteq visited'[u]
  BY <1>4 DEF circular, walk, nextRoot, timedOut, resume, begin, answered, failed,
     referred, recurse, noReferral
<1>5. ASSUME NEW t \in Threads,
             \/ \E p \in {Fail("REFUSED"), Fail("FORMERR"), None} : turnAway(t, p)
             \/ respond(t)
      PROVE  visited[u] \subseteq visited'[u]
  <2>1. stack[t] = <<>> /\ UNCHANGED stack
    BY <1>5 DEF turnAway, respond, Stacked
  <2> QED BY <1>1, <1>5, <2>1 DEF turnAway, respond
<1>6. ASSUME NEW t \in Threads, allRootsFailed(t) \/ askThrows(t)
      PROVE  visited[u] \subseteq visited'[u]
  BY <1>1, <1>6 DEF allRootsFailed, askThrows, Throw, Stacked
<1>7. CASE Forget \/ UNCHANGED vars
  BY <1>7 DEF Forget, vars
<1> QED BY <1>3, <1>4, <1>5, <1>6, <1>7, Cases

\* No name waits for itself: the calls below the last are about different names,
\* all of them visited (Core.hpp:150-157).
THEOREM NoCircle == Spec => []NoSelfWait
<1>1. Init => TypeInv /\ Visiting
  BY Constants DEF Init, TypeInv, Typed, Stacked, At, Visiting
<1>2. TypeInv /\ Visiting /\ [Next]_vars => TypeInv' /\ Visiting'
  <2> SUFFICES ASSUME TypeInv, Visiting, [Next]_vars PROVE TypeInv' /\ Visiting'
    OBVIOUS
  <2>1. TypeInv' /\ Moves
    BY TypeInductive
  <2> SUFFICES ASSUME NEW t \in Threads, NEW i \in 1 .. Len(stack'[t]),
                      stack'[t][i].pc # "enter"
               PROVE  /\ stack'[t][i].q[1] \in visited'[t]
                      /\ \A j \in 1 .. Len(stack'[t]) :
                           /\ stack'[t][j].pc # "enter"
                           /\ stack'[t][i].q[1] = stack'[t][j].q[1]
                           => i = j
    BY <2>1 DEF Visiting
  <2>2. visited[t] \subseteq visited'[t]
    <3>1. stack'[t] # <<>>
      BY <2>1
    <3> QED BY <3>1, VisitedGrows
  <2>3. ASSUME NEW j \in 1 .. Len(stack'[t]), stack'[t][j].pc # "enter"
        PROVE  /\ j \in 1 .. Len(stack[t]) /\ stack'[t][j].q = stack[t][j].q
               /\ stack'[t][j].q[1] \in visited'[t]
               /\ stack[t][j].pc = "enter" => /\ j = Len(stack[t])
                                              /\ stack[t][j].q[1] \notin visited[t]
    <3>1. Same(t, j) \/ TakenOn(t, j)
      BY <2>1, <2>3 DEF Moves, Begun
    <3> QED BY <2>2, <2>3, <3>1 DEF Same, TakenOn, Visiting
  <2>4. ASSUME NEW j \in 1 .. Len(stack'[t]), stack'[t][j].pc # "enter",
               stack'[t][i].q[1] = stack'[t][j].q[1]
        PROVE  i = j
    <3>1. stack[t][i].q[1] = stack[t][j].q[1]
      BY <2>3, <2>4
    <3> QED BY <2>3, <2>4, <3>1 DEF Visiting
  <2> QED BY <2>3, <2>4
<1>3. TypeInv /\ Visiting => NoSelfWait
  <2> SUFFICES ASSUME TypeInv, Visiting, NEW t \in Threads,
                      NEW i \in 1 .. Len(stack[t]) - 1, NEW j \in 1 .. Len(stack[t]) - 1
               PROVE  /\ stack[t][i].q[1] \in visited[t]
                      /\ stack[t][i].q[1] = stack[t][j].q[1] => i = j
    BY DEF NoSelfWait
  <2>1. stack[t][i].pc = "resume" /\ stack[t][j].pc = "resume"
    BY DEF TypeInv, Stacked
  <2>2. i \in 1 .. Len(stack[t]) /\ j \in 1 .. Len(stack[t])
    BY DEF TypeInv, Stacked
  <2> QED BY <2>1, <2>2 DEF Visiting
<1> QED BY <1>1, <1>2, <1>3, PTL DEF Spec

-----------------------------------------------------------------------------
\* Something in H says the answers a of question q.
Grounded(q, a, H) == a # {} => \E h \in H : h[1] = q /\ a \subseteq h[3]

\* The first call is about the request, what a waiting call keeps was heard for
\* its question, and so was the result of the first call.
Replying ==
  \A t \in Threads :
    /\ stack[t] # <<>> => stack[t][1].q = request[t]
    /\ \A i \in 1 .. Len(stack[t]) :
         stack[t][i].pc = "resume" =>
           Grounded(stack[t][i].q, stack[t][i].response.answers, heard)
    /\ request[t] # None /\ stack[t] = <<>> => Grounded(request[t], ret[t].answers, heard)

\* The first call returns a packet whose answers were heard for the request.
LEMMA ReturnGrounded ==
  ASSUME TypeInv, Replying, NEW t \in Threads, stack[t] # <<>>, NEW p \in Packet,
         ReturnPacket(t, p), UNCHANGED request, heard \subseteq heard',
         Grounded(Top(t).q, p.answers, heard'),
         NEW u \in Threads, request'[u] # None, stack'[u] = <<>>
  PROVE  Grounded(request'[u], ret'[u].answers, heard')
<1>1. /\ stack \in [Threads -> Seq(SoundFrame)]
      /\ ret \in [Threads -> Packet \cup {None}]
  BY DEF TypeInv, Stacked, Typed
<1>2. /\ Len(stack[t]) \in Nat /\ Len(stack[t]) >= 1
      /\ Len(stack'[t]) = Len(stack[t]) - 1
      /\ \A v \in Threads \ {t} : stack'[v] = stack[v] /\ ret'[v] = ret[v]
      /\ ret'[t] = p
  BY <1>1, ReturnFacts
<1>3. CASE u = t
  <2>1. Len(stack[t]) = 1
    <3>1. stack'[t] = <<>>
      BY <1>3, Zenon
    <3>2. Len(stack'[t]) = 0
      BY <3>1
    <3>3. Len(stack[t]) \in Nat /\ Len(stack'[t]) = Len(stack[t]) - 1
      BY <1>2, Zenon
    <3>4. Len(stack[t]) - 1 = 0
      BY <3>2, <3>3, Zenon
    <3> QED BY <3>3, <3>4
  <2>2. Top(t).q = request[t]
    BY <2>1 DEF Top, Replying
  <2>3. Grounded(request'[t], ret'[t].answers, heard')
    BY <1>2, <2>2, Zenon
  <2> QED BY <1>3, <2>3
<1>4. CASE u # t
  BY <1>2, <1>4 DEF Replying, Grounded
<1> QED BY <1>3, <1>4

\* So does every call that returns.
LEMMA Returns ==
  ASSUME TypeInv, CacheHeard, Replying, [Next]_vars,
         NEW u \in Threads, request'[u] # None, stack'[u] = <<>>
  PROVE  Grounded(request'[u], ret'[u].answers, heard')
<1> USE DEF TypeInv
<1>1. /\ "NXDOMAIN" \in Codes /\ "SERVFAIL" \in Codes /\ "NOERROR" \in Codes
  BY DEF Codes
<1>2. ASSUME NEW t \in Threads, NEW c \in Codes, NEW l, At(t, l), ReturnPacket(t, Fail(c)),
             UNCHANGED <<request, heard>>
      PROVE  Grounded(request'[u], ret'[u].answers, heard')
  <2>1. Fail(c) \in Packet /\ Fail(c).answers = {}
    BY FailPacket
  <2>2. Grounded(Top(t).q, Fail(c).answers, heard')
    BY <2>1 DEF Grounded
  <2> QED BY <1>2, <2>1, <2>2, TopFacts, ReturnGrounded
<1>3. ASSUME NEW t \in Threads, circular(t) \/ depthExceeded(t)
      PROVE  Grounded(request'[u], ret'[u].answers, heard')
  BY <1>1, <1>2, <1>3 DEF circular, depthExceeded
<1>4. ASSUME NEW t \in Threads, cacheHit(t)
      PROVE  Grounded(request'[u], ret'[u].answers, heard')
  <2>1. At(t, "enter") /\ Hit(Top(t).q) /\ UNCHANGED <<request, heard>>
    BY <1>4 DEF cacheHit
  <2>2. CASE neg[Top(t).q] # None
    BY <1>1, <1>2, <1>4, <2>1, <2>2 DEF cacheHit
  <2>3. CASE neg[Top(t).q] = None
    <3> DEFINE p == [rcode |-> "NOERROR", answers |-> pos[Top(t).q], ns |-> {}]
    <3>1. ReturnPacket(t, p)
      BY <1>4, <2>3 DEF cacheHit
    <3>2. Top(t).q \in Questions /\ stack[t] # <<>>
      BY <2>1, TopFacts
    <3>3. p \in Packet
      BY <1>1, <3>2 DEF Packet, Typed
    <3>4. Grounded(Top(t).q, p.answers, heard')
      BY <2>1, <3>2 DEF Grounded, CacheHeard
    <3> HIDE DEF p
    <3> QED BY <2>1, <3>1, <3>2, <3>3, <3>4, ReturnGrounded
  <2> QED BY <2>2, <2>3
<1>5. ASSUME NEW t \in Threads, NEW p, answered(t, p) \/ failed(t, p) \/ noReferral(t, p)
      PROVE  Grounded(request'[u], ret'[u].answers, heard')
  <2>1. Hears(t, p) /\ ReturnPacket(t, p) /\ UNCHANGED request
    BY <1>5 DEF answered, failed, noReferral
  <2>2. /\ At(t, "ask") /\ p \in Packet
        /\ heard' = heard \cup {<<Top(t).q, p.rcode, p.answers>>}
    BY <2>1, HearsFacts
  <2>3. stack[t] # <<>>
    BY <2>2, TopFacts
  <2>4. Grounded(Top(t).q, p.answers, heard')
    <3> DEFINE e == <<Top(t).q, p.rcode, p.answers>>
    <3>1. e \in heard' /\ e[1] = Top(t).q /\ e[3] = p.answers
      BY <2>2
    <3> HIDE DEF e
    <3> QED BY <3>1 DEF Grounded
  <2> QED BY <2>1, <2>2, <2>3, <2>4, ReturnGrounded
<1>6. ASSUME NEW t \in Threads, resume(t)
      PROVE  Grounded(request'[u], ret'[u].answers, heard')
  <2>1. At(t, "resume") /\ UNCHANGED <<request, heard>>
    BY <1>6 DEF resume
  <2>2. stack[t] # <<>> /\ Top(t).response \in Packet
    <3>1. stack[t] # <<>> /\ Top(t) \in SoundFrame /\ Top(t).pc = "resume"
      BY <2>1, TopFacts
    <3> QED BY <3>1 DEF SoundFrame
  <2>3. Grounded(Top(t).q, Top(t).response.answers, heard')
    <3>1. Len(stack[t]) \in 1 .. Len(stack[t]) /\ Top(t) = stack[t][Len(stack[t])]
      BY <2>2 DEF Stacked, Top
    <3>2. stack[t][Len(stack[t])].pc = "resume"
      BY <2>1, <3>1, TopFacts
    <3> QED BY <2>1, <3>1, <3>2 DEF Replying
  <2>4. CASE ReturnPacket(t, Top(t).response)
    BY <2>1, <2>2, <2>3, <2>4, ReturnGrounded
  <2>5. ASSUME NEW g, SetTop(t, g), ret' = [ret EXCEPT ![t] = None]
        PROVE  Grounded(request'[u], ret'[u].answers, heard')
    <3>1. stack'[t] = [stack[t] EXCEPT ![Len(stack[t])] = g]
      BY <2>5 DEF SetTop, Stacked
    <3>2. Len(stack'[t]) = Len(stack[t]) /\ Len(stack[t]) # 0
      BY <2>2, <3>1 DEF Stacked
    <3>3. u # t
      BY <3>2
    <3>4. stack'[u] = stack[u] /\ ret'[u] = ret[u]
      BY <2>5, <3>3 DEF SetTop, Stacked, Typed
    <3> QED BY <2>1, <3>4 DEF Replying
  <2> QED BY <1>6, <2>4, <2>5 DEF resume
<1>7. ASSUME stack[u] = <<>>, request'[u] = request[u], ret'[u] = ret[u],
             heard \subseteq heard'
      PROVE  Grounded(request'[u], ret'[u].answers, heard')
  BY <1>7 DEF Replying, Grounded
<1>8. ASSUME NEW t \in Threads, NEW p, Finish(t, p), UNCHANGED heard,
             \A v \in Threads \ {t} : stack'[v] = stack[v]
      PROVE  Grounded(request'[u], ret'[u].answers, heard')
  <2>1. u # t
    BY <1>8 DEF Finish, Typed
  <2> QED BY <1>7, <1>8, <2>1 DEF Finish, Typed
<1>9. ASSUME NEW t \in Threads,
             \/ \E p \in {Fail("REFUSED"), Fail("FORMERR"), None} : turnAway(t, p)
             \/ respond(t) \/ allRootsFailed(t) \/ askThrows(t)
      PROVE  Grounded(request'[u], ret'[u].answers, heard')
  BY <1>8, <1>9 DEF turnAway, respond, allRootsFailed, askThrows, Throw, Stacked
<1>10. ASSUME NEW t \in Threads, UNCHANGED <<ret, request>>, heard \subseteq heard',
              \A v \in Threads \ {t} : stack'[v] = stack[v], stack'[t] # <<>>
       PROVE  Grounded(request'[u], ret'[u].answers, heard')
  BY <1>7, <1>10
<1>11. ASSUME NEW t \in Threads, NEW g, SetTop(t, g), stack[t] # <<>>
       PROVE  stack'[t] # <<>> /\ \A v \in Threads \ {t} : stack'[v] = stack[v]
  <2>1. stack'[t] = [stack[t] EXCEPT ![Len(stack[t])] = g]
    BY <1>11 DEF SetTop, Stacked
  <2>2. Len(stack'[t]) = Len(stack[t]) /\ Len(stack[t]) # 0
    BY <1>11, <2>1 DEF Stacked
  <2> QED BY <1>11, <2>2 DEF SetTop, Stacked
<1>12. ASSUME NEW t \in Threads,
              cacheMiss(t) \/ walk(t) \/ nextRoot(t) \/ timedOut(t)
       PROVE  Grounded(request'[u], ret'[u].answers, heard')
  <2>1. PICK g, l : /\ At(t, l) /\ SetTop(t, g)
                    /\ UNCHANGED <<ret, request, heard>>
    BY <1>12 DEF cacheMiss, walk, nextRoot, timedOut
  <2> QED BY <1>10, <1>11, <2>1, TopFacts
<1>13. ASSUME NEW t \in Threads, NEW p, referred(t, p)
       PROVE  Grounded(request'[u], ret'[u].answers, heard')
  <2>1. PICK g : Hears(t, p) /\ SetTop(t, g) /\ UNCHANGED <<ret, request>>
    BY <1>13 DEF referred
  <2>2. At(t, "ask") /\ heard \subseteq heard'
    BY <2>1, HearsFacts
  <2> QED BY <1>10, <1>11, <2>1, <2>2, TopFacts
<1>14. ASSUME NEW t \in Threads, NEW p, recurse(t, p)
       PROVE  Grounded(request'[u], ret'[u].answers, heard')
  <2>1. PICK g, q : Hears(t, p) /\ Push(t, g, q) /\ UNCHANGED <<ret, request>>
    BY <1>14 DEF recurse
  <2>2. At(t, "ask") /\ heard \subseteq heard'
    BY <2>1, HearsFacts
  <2>3. stack'[t] # <<>> /\ \A v \in Threads \ {t} : stack'[v] = stack[v]
    <3> DEFINE S == SoundFrame \cup {g, Call(q)}
    <3>1. \A v \in Threads : stack[v] \in Seq(S)
      BY DEF Stacked
    <3>2. stack \in [Threads -> Seq(S)] /\ g \in S /\ Call(q) \in S
      BY <3>1 DEF Stacked
    <3>3. stack[t] # <<>>
      BY <2>2, TopFacts
    <3> HIDE DEF S
    <3>4. /\ Len(stack'[t]) = Len(stack[t]) + 1 /\ Len(stack[t]) \in Nat
          /\ \A v \in Threads \ {t} : stack'[v] = stack[v]
      BY <2>1, <3>2, <3>3, PushFacts
    <3> QED BY <3>4
  <2> QED BY <1>10, <2>1, <2>2, <2>3
<1>15. ASSUME NEW t \in Threads, NEW q \in Questions, begin(t, q)
       PROVE  Grounded(request'[u], ret'[u].answers, heard')
  <2>1. /\ stack' = [stack EXCEPT ![t] = <<Call(q)>>] /\ UNCHANGED <<ret, heard>>
        /\ request' = [request EXCEPT ![t] = q]
    BY <1>15 DEF begin
  <2>2. u # t
    BY <2>1 DEF Stacked
  <2>3. stack'[u] = stack[u] /\ request'[u] = request[u]
    BY <2>1, <2>2 DEF Stacked, Typed
  <2> QED BY <1>7, <2>1, <2>3
<1>16. CASE Forget \/ UNCHANGED vars
  BY <1>7, <1>16 DEF Forget, vars
<1> QED BY <1>3, <1>4, <1>5, <1>6, <1>9, <1>12, <1>13, <1>14, <1>15, <1>16, Cases

\* A request changes only while no call is active.
LEMMA RequestKept ==
  ASSUME TypeInv, [Next]_vars, NEW u \in Threads, stack[u] # <<>>, stack'[u] # <<>>
  PROVE  request'[u] = request[u]
<1> USE DEF TypeInv
<1>1. ASSUME NEW t \in Threads,
             \/ circular(t) \/ depthExceeded(t) \/ cacheHit(t) \/ cacheMiss(t)
             \/ walk(t) \/ nextRoot(t) \/ timedOut(t) \/ resume(t)
             \/ \E p : answered(t, p) \/ failed(t, p) \/ referred(t, p)
                       \/ recurse(t, p) \/ noReferral(t, p)
      PROVE  request'[u] = request[u]
  BY <1>1 DEF circular, depthExceeded, cacheHit, cacheMiss, walk, nextRoot, timedOut,
     resume, answered, failed, referred, recurse, noReferral
<1>2. ASSUME NEW t \in Threads, NEW q \in Questions, begin(t, q)
      PROVE  request'[u] = request[u]
  BY <1>2 DEF begin, Stacked, Typed
<1>3. ASSUME NEW t \in Threads, NEW p, Finish(t, p), stack'[t] = <<>>
      PROVE  request'[u] = request[u]
  BY <1>3 DEF Finish, Typed
<1>4. ASSUME NEW t \in Threads,
             \/ \E p \in {Fail("REFUSED"), Fail("FORMERR"), None} : turnAway(t, p)
             \/ respond(t)
      PROVE  request'[u] = request[u]
  <2>1. stack[t] = <<>> /\ UNCHANGED stack
    BY <1>4 DEF turnAway, respond, Stacked
  <2> QED BY <1>3, <1>4, <2>1 DEF turnAway, respond
<1>5. ASSUME NEW t \in Threads, allRootsFailed(t) \/ askThrows(t)
      PROVE  request'[u] = request[u]
  BY <1>3, <1>5 DEF allRootsFailed, askThrows, Throw, Stacked
<1>6. CASE Forget \/ UNCHANGED vars
  BY <1>6 DEF Forget, vars
<1> QED BY <1>1, <1>2, <1>4, <1>5, <1>6, Cases

\* What was heard is remembered.
LEMMA HeardGrows ==
  ASSUME TypeInv, [Next]_vars
  PROVE  heard \subseteq heard'
<1>1. ASSUME NEW t \in Threads,
             \/ circular(t) \/ depthExceeded(t) \/ cacheHit(t) \/ cacheMiss(t)
             \/ walk(t) \/ nextRoot(t) \/ timedOut(t) \/ resume(t)
             \/ \E q \in Questions : begin(t, q)
             \/ \E p \in {Fail("REFUSED"), Fail("FORMERR"), None} : turnAway(t, p)
             \/ respond(t) \/ allRootsFailed(t) \/ askThrows(t)
      PROVE  heard \subseteq heard'
  BY <1>1 DEF circular, depthExceeded, cacheHit, cacheMiss, walk, nextRoot, timedOut,
     resume, begin, turnAway, respond, allRootsFailed, askThrows, Throw
<1>2. ASSUME NEW t \in Threads, NEW p,
             \/ answered(t, p) \/ failed(t, p) \/ referred(t, p)
             \/ recurse(t, p) \/ noReferral(t, p)
      PROVE  heard \subseteq heard'
  <2>1. Hears(t, p)
    BY <1>2 DEF answered, failed, referred, recurse, noReferral
  <2> QED BY <2>1, HearsFacts DEF TypeInv
<1>3. CASE Forget \/ UNCHANGED vars
  BY <1>3 DEF Forget, vars
<1> QED BY <1>1, <1>2, <1>3, Cases

\* The reply to a request is no answer, or the result of its first call.
LEMMA LastStep ==
  ASSUME TypeInv, [Next]_vars, NEW u \in Threads
  PROVE  \/ last'[u] = last[u]
         \/ last'[u].packet = None \/ last'[u].packet.answers = {}
         \/ /\ request[u] # None /\ stack[u] = <<>>
            /\ last'[u].q = request[u] /\ last'[u].packet = ret[u]
<1> USE DEF TypeInv
<1>1. ASSUME NEW t \in Threads,
             \/ circular(t) \/ depthExceeded(t) \/ cacheHit(t) \/ cacheMiss(t)
             \/ walk(t) \/ nextRoot(t) \/ timedOut(t) \/ resume(t)
             \/ \E q \in Questions : begin(t, q)
             \/ \E p : answered(t, p) \/ failed(t, p) \/ referred(t, p)
                       \/ recurse(t, p) \/ noReferral(t, p)
      PROVE  last'[u] = last[u]
  BY <1>1 DEF circular, depthExceeded, cacheHit, cacheMiss, walk, nextRoot, timedOut,
     resume, begin, answered, failed, referred, recurse, noReferral
<1>2. ASSUME NEW t \in Threads, NEW p, Finish(t, p)
      PROVE  \/ last'[u] = last[u]
             \/ u = t /\ last'[u].q = request[u] /\ last'[u].packet = p
  BY <1>2 DEF Finish, Typed
<1>3. ASSUME NEW t \in Threads, NEW p, Finish(t, p), p = None \/ p.answers = {}
      PROVE  last'[u] = last[u] \/ last'[u].packet = None \/ last'[u].packet.answers = {}
  BY <1>2, <1>3
<1>4. ASSUME NEW t \in Threads,
             \/ \E p \in {Fail("REFUSED"), Fail("FORMERR"), None} : turnAway(t, p)
             \/ allRootsFailed(t) \/ askThrows(t)
      PROVE  last'[u] = last[u] \/ last'[u].packet = None \/ last'[u].packet.answers = {}
  BY <1>3, <1>4 DEF turnAway, allRootsFailed, askThrows, Throw, Fail
<1>5. ASSUME NEW t \in Threads, respond(t)
      PROVE  \/ last'[u] = last[u]
             \/ last'[u].packet = None
             \/ /\ request[u] # None /\ stack[u] = <<>>
                /\ last'[u].q = request[u] /\ last'[u].packet = ret[u]
  <2>1. request[t] # None /\ stack[t] = <<>> /\ (Finish(t, ret[t]) \/ Finish(t, None))
    BY <1>5 DEF respond
  <2>2. CASE Finish(t, ret[t])
    BY <1>2, <2>1, <2>2
  <2>3. CASE Finish(t, None)
    BY <1>2, <2>3
  <2> QED BY <2>1, <2>2, <2>3
<1>6. CASE Forget \/ UNCHANGED vars
  BY <1>6 DEF Forget, vars
<1> QED BY <1>1, <1>4, <1>5, <1>6, Cases

LEMMA ReplyingSteps ==
  ASSUME TypeInv, CacheHeard, Replying, [Next]_vars
  PROVE  Replying'
<1>1. Moves /\ heard \subseteq heard'
  BY TypeInductive, HeardGrows
<1> SUFFICES ASSUME NEW u \in Threads
             PROVE  /\ stack'[u] # <<>> => stack'[u][1].q = request'[u]
                    /\ \A i \in 1 .. Len(stack'[u]) :
                         stack'[u][i].pc = "resume" =>
                           Grounded(stack'[u][i].q, stack'[u][i].response.answers, heard')
                    /\ request'[u] # None /\ stack'[u] = <<>> =>
                         Grounded(request'[u], ret'[u].answers, heard')
  BY DEF Replying
<1>2. ASSUME stack'[u] # <<>> PROVE stack'[u][1].q = request'[u]
  <2>1. 1 \in 1 .. Len(stack'[u])
    BY <1>2, TypeInductive DEF TypeInv, Stacked
  <2>2. ASSUME Same(u, 1) \/ TakenOn(u, 1) PROVE stack'[u][1].q = request'[u]
    <3>1. stack[u] # <<>> /\ stack'[u][1].q = stack[u][1].q
      BY <2>2 DEF Same, TakenOn
    <3> QED BY <1>2, <3>1, RequestKept DEF Replying
  <2> QED BY <1>1, <2>1, <2>2 DEF Moves, Begun
<1>3. ASSUME NEW i \in 1 .. Len(stack'[u]), stack'[u][i].pc = "resume"
      PROVE  Grounded(stack'[u][i].q, stack'[u][i].response.answers, heard')
  <2>1. CASE Same(u, i)
    BY <1>1, <1>3, <2>1 DEF Same, Replying, Grounded
  <2>2. CASE TakenOn(u, i)
    <3>1. PICK c : <<stack'[u][i].q, c, stack'[u][i].response.answers>> \in heard'
      BY <1>3, <2>2 DEF TakenOn
    <3> DEFINE e == <<stack'[u][i].q, c, stack'[u][i].response.answers>>
    <3>2. /\ e \in heard' /\ e[1] = stack'[u][i].q
          /\ e[3] = stack'[u][i].response.answers
      BY <3>1
    <3> HIDE DEF e
    <3> QED BY <3>2 DEF Grounded
  <2> QED BY <1>1, <1>3, <2>1, <2>2 DEF Moves, Begun
<1> QED BY <1>2, <1>3, Returns

\* A reply's answers were heard for the client's question and for no other, along
\* whatever chain of referrals, recursions and cache hits.
THEOREM RepliesHeard == Spec => []RepliesGrounded
<1> DEFINE Inv == TypeInv /\ CacheHeard /\ Replying /\ RepliesGrounded
<1>1. Init => Inv
  <2>1. Init => TypeInv
    BY Constants DEF Init, TypeInv, Typed, Stacked, At
  <2>2. Init => CacheHeard /\ Replying /\ RepliesGrounded
    BY DEF Init, CacheHeard, Replying, RepliesGrounded
  <2> QED BY <2>1, <2>2
<1>2. Inv /\ [Next]_vars => Inv'
  <2> SUFFICES ASSUME Inv, [Next]_vars PROVE Inv'
    OBVIOUS
  <2>1. TypeInv' /\ CacheHeard' /\ Replying' /\ heard \subseteq heard'
    BY TypeInductive, CacheSteps, ReplyingSteps, HeardGrows
  <2>2. ASSUME NEW u \in Threads, last'[u] # None, last'[u].packet # None,
               last'[u].packet.answers # {}
        PROVE  \E h \in heard' : h[1] = last'[u].q /\ last'[u].packet.answers \subseteq h[3]
    <3>1. CASE last'[u] = last[u]
      BY <2>1, <2>2, <3>1 DEF RepliesGrounded
    <3>2. CASE /\ request[u] # None /\ stack[u] = <<>>
               /\ last'[u].q = request[u] /\ last'[u].packet = ret[u]
      BY <2>1, <2>2, <3>2 DEF Replying, Grounded
    <3> QED BY <2>2, <3>1, <3>2, LastStep
  <2> QED BY <2>1, <2>2 DEF RepliesGrounded
<1>3. Inv => RepliesGrounded
  OBVIOUS
<1> QED BY <1>1, <1>2, <1>3, PTL DEF Spec

=============================================================================
