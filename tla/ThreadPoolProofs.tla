-------------------------- MODULE ThreadPoolProofs --------------------------
(***************************************************************************)
(* Safety of ThreadPool for any number of workers and tasks, and the       *)
(* refinement of WorkPool (its safety part).                               *)
(***************************************************************************)
EXTENDS ThreadPool, TLAPS, SequenceTheorems

\* The flags follow main: the queue is shut down only after the workers'
\* flag is cleared, and before anyone is told.
FlagsFollowMain ==
  /\ shutdown => ~running
  /\ main \in {"notifyAll", "join", "done"} => shutdown
  /\ main \in {"serve", "notify"} <=> running

\* A worker that has taken a late task is on its way out.
LateLeaves ==
  \A w \in Workers :
    late[w] # 0 => late[w] = 1 /\ ~running /\ pc[w] \in {"run", "loop", "exit"}

IInv == TypeOK /\ TakenInOrder /\ FlagsFollowMain /\ LateLeaves /\ NoSleeperAtJoin

\* Moving the head of the queue behind what was taken keeps their sum.
LEMMA MoveHead ==
  ASSUME NEW S, NEW a \in Seq(S), NEW q \in Seq(S), q # <<>>
  PROVE  /\ Append(a, Head(q)) \o Tail(q) = a \o q
         /\ Head(q) \in S /\ Tail(q) \in Seq(S) /\ Append(a, Head(q)) \in Seq(S)
<1>1. /\ Head(q) \in S /\ Tail(q) \in Seq(S) /\ Len(Tail(q)) = Len(q) - 1
      /\ \A i \in 1..Len(Tail(q)) : Tail(q)[i] = q[i + 1]
  BY HeadTailProperties
<1>2. <<Head(q)>> \in Seq(S) /\ Append(a, Head(q)) = a \o <<Head(q)>>
  BY <1>1, AppendIsConcat
<1>3. q = <<Head(q)>> \o Tail(q)
  <2> DEFINE h == <<Head(q)>>
             r == h \o Tail(q)
  <2>1. h \in Seq(S) /\ Len(h) = 1 /\ h[1] = Head(q)
    BY <1>1
  <2>2. Len(q) \in Nat /\ Len(q) >= 1 /\ Head(q) = q[1]
    <3>1. Len(q) \in Nat \ {0}
      BY EmptySeq
    <3> QED BY <3>1
  <2>3. /\ r \in Seq(S) /\ Len(r) = Len(h) + Len(Tail(q))
        /\ \A i \in 1..(Len(h) + Len(Tail(q))) :
             r[i] = IF i <= Len(h) THEN h[i] ELSE Tail(q)[i - Len(h)]
    BY <1>1, <2>1, ConcatProperties
  <2> HIDE DEF h, r
  <2>4. Len(r) = Len(q)
    BY <1>1, <2>1, <2>2, <2>3
  <2>5. ASSUME NEW i \in 1..Len(q) PROVE q[i] = r[i]
    <3>1. CASE i = 1
      BY <1>1, <2>1, <2>2, <2>3, <3>1
    <3>2. CASE i # 1
      <4>1. /\ i \in 1..(Len(h) + Len(Tail(q))) /\ ~(i <= Len(h))
            /\ i - Len(h) = i - 1
        BY <1>1, <2>1, <2>2, <3>2
      <4>2. r[i] = Tail(q)[i - 1]
        BY <2>3, <4>1
      <4>3. i - 1 \in 1..Len(Tail(q)) /\ (i - 1) + 1 = i
        BY <1>1, <2>2, <3>2
      <4> QED BY <1>1, <4>2, <4>3
    <3> QED BY <3>1, <3>2
  <2>6. q = r
    BY <2>3, <2>4, <2>5, SeqEqual
  <2> QED BY <2>6 DEF h, r
<1>4. (a \o <<Head(q)>>) \o Tail(q) = a \o (<<Head(q)>> \o Tail(q))
  BY <1>1, <1>2, ConcatAssociative
<1> QED BY <1>1, <1>2, <1>3, <1>4, AppendProperties

\* Appending to the queue appends to the sum.
LEMMA AppendToSum ==
  \A a, q \in Seq(Tasks) : \A t \in Tasks : Append(a \o q, t) = a \o Append(q, t)
<1> SUFFICES ASSUME NEW a \in Seq(Tasks), NEW q \in Seq(Tasks), NEW t \in Tasks
             PROVE  Append(a \o q, t) = a \o Append(q, t)
  OBVIOUS
<1>1. <<t>> \in Seq(Tasks) /\ a \o q \in Seq(Tasks)
  BY ConcatProperties
<1>2. Append(a \o q, t) = (a \o q) \o <<t>> /\ Append(q, t) = q \o <<t>>
  BY <1>1, AppendIsConcat
<1> QED BY <1>1, <1>2, ConcatAssociative

LEMMA InitIInv == Init => IInv
<1> SUFFICES ASSUME Init PROVE IInv
  OBVIOUS
<1>1. TypeOK
  <2>1. shutdown \in BOOLEAN /\ running \in BOOLEAN
    BY DEF Init
  <2>2. /\ queue \in Seq(Tasks) /\ pushed \in Seq(Tasks) /\ taken \in Seq(Tasks)
        /\ late \in [Workers -> Nat]
    BY DEF Init
  <2>3. /\ pc \in [Workers -> {"loop", "pop", "wait", "run", "exit"}]
        /\ task \in [Workers -> Tasks \cup {NoTask}]
        /\ \A w \in Workers : pc[w] = "run" <=> task[w] # NoTask
        /\ main = "serve"
    BY DEF Init
  <2> QED BY <2>1, <2>2, <2>3 DEF TypeOK
<1>2. TakenInOrder
  <2>1. <<>> \in Seq(Tasks)
    OBVIOUS
  <2>2. <<>> \o <<>> = <<>>
    BY <2>1, ConcatEmptySeq
  <2> QED BY <2>2 DEF Init, TakenInOrder
<1>3. FlagsFollowMain /\ LateLeaves /\ NoSleeperAtJoin
  BY DEF Init, FlagsFollowMain, LateLeaves, NoSleeperAtJoin
<1> QED BY <1>1, <1>2, <1>3 DEF IInv

LEMMA StepIInv == IInv /\ [Next]_vars => IInv'
<1> SUFFICES ASSUME IInv, [Next]_vars PROVE IInv'
  OBVIOUS
<1> USE PoolAssumption
<1>1. ASSUME NEW w \in Workers, loopTest(w) PROVE IInv'
  BY <1>1 DEF IInv, TypeOK, TakenInOrder, FlagsFollowMain, LateLeaves,
              NoSleeperAtJoin, Waiting, loopTest, Goto, history
<1>2. ASSUME NEW w \in Workers, popWait(w) PROVE IInv'
  BY <1>2 DEF IInv, TypeOK, TakenInOrder, FlagsFollowMain, LateLeaves,
              NoSleeperAtJoin, Waiting, popWait, Goto, history
<1>3. ASSUME NEW w \in Workers, popFail(w) PROVE IInv'
  BY <1>3 DEF IInv, TypeOK, TakenInOrder, FlagsFollowMain, LateLeaves,
              NoSleeperAtJoin, Waiting, popFail, Goto, history
<1>4. ASSUME NEW w \in Workers, popTask(w) PROVE IInv'
  <2>1. /\ queue \in Seq(Tasks) /\ taken \in Seq(Tasks) /\ queue # <<>>
        /\ queue' = Tail(queue) /\ taken' = Append(taken, Head(queue))
        /\ UNCHANGED <<shutdown, running, main, pushed>>
        /\ pc' = [pc EXCEPT ![w] = "run"] /\ pc[w] = "pop"
        /\ task' = [task EXCEPT ![w] = Head(queue)]
        /\ late' = IF running THEN late ELSE [late EXCEPT ![w] = @ + 1]
    BY <1>4 DEF popTask, Goto, IInv, TypeOK
  <2>2. /\ taken' \o queue' = taken \o queue
        /\ Head(queue) \in Tasks /\ queue' \in Seq(Tasks) /\ taken' \in Seq(Tasks)
    BY <2>1, MoveHead
  <2>3. TakenInOrder'
    BY <2>1, <2>2 DEF IInv, TakenInOrder
  <2>4. late[w] = 0
    BY <2>1 DEF IInv, LateLeaves
  <2>5. TypeOK'
    BY <2>1, <2>2, <2>4 DEF IInv, TypeOK
  <2>6. FlagsFollowMain' /\ NoSleeperAtJoin'
    BY <2>1 DEF IInv, TypeOK, FlagsFollowMain, NoSleeperAtJoin, Waiting
  <2>7. LateLeaves'
    BY <2>1, <2>4 DEF IInv, TypeOK, LateLeaves
  <2> QED BY <2>3, <2>5, <2>6, <2>7 DEF IInv
<1>5. ASSUME NEW w \in Workers, runTask(w) PROVE IInv'
  BY <1>5 DEF IInv, TypeOK, TakenInOrder, FlagsFollowMain, LateLeaves,
              NoSleeperAtJoin, Waiting, runTask, Goto, history
<1>6. ASSUME NEW w \in Workers, spuriousWakeup(w) PROVE IInv'
  BY <1>6 DEF IInv, TypeOK, TakenInOrder, FlagsFollowMain, LateLeaves,
              NoSleeperAtJoin, Waiting, spuriousWakeup, Goto, history
<1>7. ASSUME NEW t \in Tasks, push(t) PROVE IInv'
  <2>1. /\ queue \in Seq(Tasks) /\ taken \in Seq(Tasks) /\ pushed \in Seq(Tasks)
        /\ queue' = Append(queue, t) /\ pushed' = Append(pushed, t)
        /\ main = "serve" /\ main' = "notify"
        /\ UNCHANGED <<shutdown, running, pc, task, taken, late>>
    BY <1>7 DEF push, IInv, TypeOK
  <2>2. queue' \in Seq(Tasks) /\ pushed' \in Seq(Tasks)
    BY <2>1, AppendProperties
  <2>3. TakenInOrder'
    <3>1. taken \in Seq(Tasks) /\ queue \in Seq(Tasks) /\ t \in Tasks
      BY <2>1
    <3>2. pushed = taken \o queue
      BY DEF IInv, TakenInOrder
    <3> HIDE DEF IInv
    <3>3. Append(taken \o queue, t) = taken \o Append(queue, t)
      BY <3>1, AppendToSum, Zenon
    <3>4. pushed' = taken' \o queue'
      BY <2>1, <3>2, <3>3, Zenon
    <3> QED BY <3>4 DEF TakenInOrder
  <2>4. TypeOK'
    BY <2>1, <2>2 DEF IInv, TypeOK
  <2>5. FlagsFollowMain' /\ LateLeaves' /\ NoSleeperAtJoin'
    BY <2>1 DEF IInv, FlagsFollowMain, LateLeaves, NoSleeperAtJoin, Waiting
  <2> QED BY <2>3, <2>4, <2>5 DEF IInv
<1>8. CASE notifyOne
  BY <1>8 DEF IInv, TypeOK, TakenInOrder, FlagsFollowMain, LateLeaves,
              NoSleeperAtJoin, Waiting, notifyOne, Goto, history
<1>9. CASE stop
  BY <1>9 DEF IInv, TypeOK, TakenInOrder, FlagsFollowMain, LateLeaves,
              NoSleeperAtJoin, Waiting, stop, history
<1>10. CASE shutdownQueue
  BY <1>10 DEF IInv, TypeOK, TakenInOrder, FlagsFollowMain, LateLeaves,
              NoSleeperAtJoin, Waiting, shutdownQueue, history
<1>11. CASE notifyAll
  BY <1>11 DEF IInv, TypeOK, TakenInOrder, FlagsFollowMain, LateLeaves,
              NoSleeperAtJoin, Waiting, notifyAll, history
<1>12. CASE join
  BY <1>12 DEF IInv, TypeOK, TakenInOrder, FlagsFollowMain, LateLeaves,
              NoSleeperAtJoin, Waiting, join, history
<1>13. CASE UNCHANGED vars
  BY <1>13 DEF IInv, TypeOK, TakenInOrder, FlagsFollowMain, LateLeaves,
              NoSleeperAtJoin, Waiting, vars
<1> QED
  BY <1>1, <1>2, <1>3, <1>4, <1>5, <1>6, <1>7, <1>8, <1>9, <1>10, <1>11, <1>12,
     <1>13
  DEF Next, Terminated

\* The variables of the pool keep their types; a worker holds a task exactly
\* while it runs one.
THEOREM TypeCorrect == Spec => []TypeOK
<1>1. IInv => TypeOK
  BY DEF IInv
<1> QED BY InitIInv, StepIInv, <1>1, PTL DEF Spec

\* Nothing is lost, duplicated or reordered between push and pop.
THEOREM QueueFaithful == Spec => []TakenInOrder
<1>1. IInv => TakenInOrder
  BY DEF IInv
<1> QED BY InitIInv, StepIInv, <1>1, PTL DEF Spec

\* After the flag is cleared every worker takes at most one more task.
THEOREM StopBounded == Spec => []AtMostOneLate
<1>1. IInv => AtMostOneLate
  <2> SUFFICES ASSUME IInv, NEW w \in Workers PROVE late[w] <= 1
    BY DEF AtMostOneLate
  <2>1. late[w] = 0 \/ late[w] = 1
    BY DEF IInv, LateLeaves
  <2> QED BY <2>1
<1> QED BY InitIInv, StepIInv, <1>1, PTL DEF Spec

\* When main joins, no worker is blocked in cv.wait.
THEOREM NobodySleeps == Spec => []NoSleeperAtJoin
<1>1. IInv => NoSleeperAtJoin
  BY DEF IInv
<1> QED BY InitIInv, StepIInv, <1>1, PTL DEF Spec

\* The pool implements the safety part of its contract: every step of the
\* queue, the workers and main is a step of WorkPool or changes nothing there.
THEOREM PoolRefinesContract == Spec => Contract!SafeSpec
<1>1. Init => Contract!Init
  BY DEF Init, Contract!Init
<1>2. IInv /\ [Next]_vars => [Contract!Next]_(Contract!vars)
  <2> SUFFICES ASSUME IInv, [Next]_vars PROVE [Contract!Next]_(Contract!vars)
    OBVIOUS
  <2>1. ASSUME NEW w \in Workers, popTask(w) PROVE Contract!Begin
    <3>1. /\ queue \in Seq(Tasks) /\ taken \in Seq(Tasks) /\ queue # <<>>
          /\ taken' = Append(taken, Head(queue))
          /\ UNCHANGED <<running, pushed>> /\ pushed = taken \o queue
      BY <2>1 DEF popTask, IInv, TypeOK, TakenInOrder
    <3>2. Len(queue) \in Nat \ {0} /\ Len(taken) \in Nat /\ Head(queue) \in Tasks
      BY <3>1, EmptySeq, LenProperties, HeadTailProperties
    <3>3. Len(pushed) = Len(taken) + Len(queue) /\ Len(taken') = Len(taken) + 1
      BY <3>1, <3>2, ConcatProperties, AppendProperties
    <3>4. Len(taken) < Len(pushed)
      BY <3>2, <3>3
    <3> QED BY <3>1, <3>3, <3>4 DEF Contract!Begin
  <2>2. ASSUME NEW t \in Tasks, push(t) PROVE Contract!Submit(t)
    BY <2>2 DEF push, Contract!Submit, IInv, FlagsFollowMain
  <2>3. ASSUME stop PROVE Contract!Close
    <3>1. main = "serve" /\ running' = FALSE /\ UNCHANGED <<pushed, taken>>
      BY <2>3 DEF stop, history
    <3>2. running
      BY <3>1 DEF IInv, FlagsFollowMain
    <3> QED BY <3>1, <3>2, Zenon DEF Contract!Close
  <2>4. ASSUME UNCHANGED <<pushed, taken, running>> PROVE UNCHANGED Contract!vars
    BY <2>4 DEF Contract!vars
  <2>5. ASSUME NEW w \in Workers,
               \/ loopTest(w) \/ popWait(w) \/ popFail(w) \/ runTask(w)
               \/ spuriousWakeup(w)
        PROVE  UNCHANGED <<pushed, taken, running>>
    BY <2>5 DEF loopTest, popWait, popFail, runTask, spuriousWakeup, history
  <2>6. \/ notifyOne \/ shutdownQueue \/ notifyAll \/ join \/ Terminated
        \/ UNCHANGED vars
        => UNCHANGED <<pushed, taken, running>>
    BY DEF notifyOne, shutdownQueue, notifyAll, join, Terminated, vars, history
  <2> QED BY <2>1, <2>2, <2>3, <2>4, <2>5, <2>6 DEF Next, Contract!Next
<1> QED BY InitIInv, StepIInv, <1>1, <1>2, PTL DEF Spec, Contract!SafeSpec

=============================================================================
