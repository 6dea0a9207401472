----------------------------- MODULE ThreadPool -----------------------------
(***************************************************************************)
(* lib/ThreadPool.hpp over lib/WorkQueue.hpp, and the thread of main.cpp   *)
(* that feeds and destroys the pool.                                       *)
(*                                                                         *)
(* Everything done under the queue's mutex is one step; push and           *)
(* shutdownQueue notify after they have unlocked, in a step of their own.  *)
(* cv.wait releases the mutex and blocks in one step; a notified thread    *)
(* (or one woken for no reason) takes the mutex and tests its predicate    *)
(* again.  A task that throws a std::exception ends like one that returns. *)
(***************************************************************************)
EXTENDS Naturals, Sequences

CONSTANTS Workers, Tasks,
          NoTask,
          MaxTasks    \* bound on the tasks enqueued

ASSUME PoolAssumption == NoTask \notin Tasks /\ MaxTasks \in Nat

VARIABLES
  queue, shutdown,   \* the members of ThreadSafeQueue
  running,           \* __is_thread_running__
  pc, task,          \* per worker
  main,              \* the thread that owns the pool
  pushed, taken,     \* history: tasks pushed, and popped by a worker
  late               \* history: tasks a worker popped after running was cleared

vars == <<queue, shutdown, running, pc, task, main, pushed, taken, late>>
history == <<pushed, taken, late>>

Init ==
  /\ queue = <<>> /\ shutdown = FALSE /\ running = TRUE
  /\ pc = [w \in Workers |-> "loop"] /\ task = [w \in Workers |-> NoTask]
  /\ main = "serve"
  /\ pushed = <<>> /\ taken = <<>> /\ late = [w \in Workers |-> 0]

Goto(w, l) == pc' = [pc EXCEPT ![w] = l]
Waiting == {w \in Workers : pc[w] = "wait"}

-----------------------------------------------------------------------------
\* Mutant: the loop ends only when pop has returned false.
LoopDrains(w) ==
  /\ pc[w] = "loop"
  /\ Goto(w, IF running \/ queue # <<>> THEN "pop" ELSE "exit")
  /\ UNCHANGED <<queue, shutdown, running, task, main, history>>

\* while (__is_thread_running__)
loopTest(w) ==
  /\ pc[w] = "loop"
  /\ Goto(w, IF running THEN "pop" ELSE "exit")
  /\ UNCHANGED <<queue, shutdown, running, task, main, history>>

\* pop, its predicate false: block.
popWait(w) ==
  /\ pc[w] = "pop"
  /\ queue = <<>> /\ ~shutdown
  /\ Goto(w, "wait")
  /\ UNCHANGED <<queue, shutdown, running, task, main, history>>

\* Mutant: pop reports a task when the queue is shut down and empty.
PopEmpty(w) ==
  /\ pc[w] = "pop"
  /\ shutdown /\ queue = <<>>
  /\ Goto(w, "run")
  /\ UNCHANGED <<queue, shutdown, running, task, main, history>>

\* pop returns false.
popFail(w) ==
  /\ pc[w] = "pop"
  /\ shutdown /\ queue = <<>>
  /\ Goto(w, "loop")
  /\ UNCHANGED <<queue, shutdown, running, task, main, history>>

\* Mutant: the newest task is taken.
PopNewest(w) ==
  LET n == Len(queue)
  IN  /\ pc[w] = "pop"
      /\ queue # <<>>
      /\ task' = [task EXCEPT ![w] = queue[n]]
      /\ queue' = SubSeq(queue, 1, n - 1)
      /\ taken' = Append(taken, queue[n])
      /\ late' = IF running THEN late ELSE [late EXCEPT ![w] = @ + 1]
      /\ Goto(w, "run")
      /\ UNCHANGED <<shutdown, running, main, pushed>>

\* pop returns true, also after shutdown while tasks are left.
popTask(w) ==
  /\ pc[w] = "pop"
  /\ queue # <<>>
  /\ task' = [task EXCEPT ![w] = Head(queue)]
  /\ queue' = Tail(queue)
  /\ taken' = Append(taken, Head(queue))
  /\ late' = IF running THEN late ELSE [late EXCEPT ![w] = @ + 1]
  /\ Goto(w, "run")
  /\ UNCHANGED <<shutdown, running, main, pushed>>

\* task() returns or throws; its object dies at the end of the iteration.
runTask(w) ==
  /\ pc[w] = "run"
  /\ task' = [task EXCEPT ![w] = NoTask]
  /\ Goto(w, "loop")
  /\ UNCHANGED <<queue, shutdown, running, main, history>>

\* cv.wait may return without a notification.
spuriousWakeup(w) ==
  /\ pc[w] = "wait"
  /\ Goto(w, "pop")
  /\ UNCHANGED <<queue, shutdown, running, task, main, history>>

-----------------------------------------------------------------------------
\* enqueue: the locked part of push.
push(t) ==
  /\ main = "serve" /\ Len(pushed) < MaxTasks
  /\ queue' = Append(queue, t)
  /\ pushed' = Append(pushed, t)
  /\ main' = "notify"
  /\ UNCHANGED <<shutdown, running, pc, task, taken, late>>

\* Mutant: no notification.
PushSilently ==
  /\ main = "notify"
  /\ main' = "serve"
  /\ UNCHANGED <<queue, shutdown, running, pc, task, history>>

\* cv.notify_one: some waiting thread wakes up, if there is one.
notifyOne ==
  /\ main = "notify"
  /\ main' = "serve"
  /\ \/ Waiting = {} /\ UNCHANGED pc
     \/ \E w \in Waiting : Goto(w, "pop")
  /\ UNCHANGED <<queue, shutdown, running, task, history>>

\* ~ThreadPool: shutdown clears the flag of the workers' loops ...
stop ==
  /\ main = "serve"
  /\ running' = FALSE
  /\ main' = "shutdown"
  /\ UNCHANGED <<queue, shutdown, pc, task, history>>

\* ... then that of the queue, under its mutex ...
shutdownQueue ==
  /\ main = "shutdown"
  /\ shutdown' = TRUE
  /\ main' = "notifyAll"
  /\ UNCHANGED <<queue, running, pc, task, history>>

\* Mutant: one waiting thread is told.
NotifySome ==
  /\ main = "notifyAll"
  /\ main' = "join"
  /\ \/ Waiting = {} /\ UNCHANGED pc
     \/ \E w \in Waiting : Goto(w, "pop")
  /\ UNCHANGED <<queue, shutdown, running, task, history>>

\* ... wakes everyone ...
notifyAll ==
  /\ main = "notifyAll"
  /\ main' = "join"
  /\ pc' = [w \in Workers |-> IF pc[w] = "wait" THEN "pop" ELSE pc[w]]
  /\ UNCHANGED <<queue, shutdown, running, task, history>>

\* ... and joins every worker; the tasks left in the queue die with it.
join ==
  /\ main = "join"
  /\ \A w \in Workers : pc[w] = "exit"
  /\ main' = "done"
  /\ UNCHANGED <<queue, shutdown, running, pc, task, history>>

\* The process has ended.
Terminated == main = "done" /\ UNCHANGED vars

-----------------------------------------------------------------------------
Worker(w) == loopTest(w) \/ popWait(w) \/ popFail(w) \/ popTask(w) \/ runTask(w)
Main == notifyOne \/ shutdownQueue \/ notifyAll \/ join

Next ==
  \/ \E w \in Workers :
       \/ loopTest(w) \/ popWait(w) \/ popFail(w) \/ popTask(w) \/ runTask(w)
       \/ spuriousWakeup(w)
  \/ \E t \in Tasks : push(t)
  \/ notifyOne \/ stop \/ shutdownQueue \/ notifyAll \/ join
  \/ Terminated

Spec == Init /\ [][Next]_vars

\* Threads that can run do: no thread is starved of the processor or of the
\* mutex, and tasks end.  Nothing is assumed of spurious wakeups, and main
\* need neither push nor stop.
FairSpec == Spec /\ (\A w \in Workers : WF_vars(Worker(w))) /\ WF_vars(Main)

-----------------------------------------------------------------------------
\* The state has its types, and a worker holds a task exactly while it runs
\* one: pop returns true only with a task (WorkQueue.hpp:26-37).
TypeOK ==
  /\ queue \in Seq(Tasks) /\ shutdown \in BOOLEAN /\ running \in BOOLEAN
  /\ pc \in [Workers -> {"loop", "pop", "wait", "run", "exit"}]
  /\ task \in [Workers -> Tasks \cup {NoTask}]
  /\ main \in {"serve", "notify", "shutdown", "notifyAll", "join", "done"}
  /\ pushed \in Seq(Tasks) /\ taken \in Seq(Tasks)
  /\ late \in [Workers -> Nat]
  /\ \A w \in Workers : pc[w] = "run" <=> task[w] # NoTask

\* Between them the queue and the workers lose, duplicate and reorder nothing.
TakenInOrder == pushed = taken \o queue

\* A worker that was past its loop test when shutdown cleared the flag takes
\* at most one more task; main's join waits for one task per worker at most.
AtMostOneLate == \A w \in Workers : late[w] <= 1

\* Once shutdownQueue has notified, no worker sleeps: join cannot hang on a
\* thread nobody will wake.
NoSleeperAtJoin == main \in {"join", "done"} => Waiting = {}

\* The pool refines its contract: in order, at most once and, while it has
\* not been stopped, every enqueued task is taken up (no wakeup is lost).
Contract == INSTANCE WorkPool WITH
              submitted <- pushed, begun <- Len(taken), open <- running
ImplementsContract == Contract!Spec

=============================================================================
