------------------------------ MODULE WorkPool ------------------------------
(***************************************************************************)
(* What lib/ThreadPool.hpp promises its user: tasks begin in the order in  *)
(* which they were submitted, each at most once; while the pool is open    *)
(* every submitted task begins; closing is final and may abandon tasks.    *)
(***************************************************************************)
EXTENDS Sequences, Naturals

CONSTANTS Tasks, MaxTasks
VARIABLES
  submitted,   \* every task ever submitted, in order
  begun,       \* how many of them have begun
  open

vars == <<submitted, begun, open>>

Init == submitted = <<>> /\ begun = 0 /\ open = TRUE

Submit(task) ==
  /\ open
  /\ Len(submitted) < MaxTasks
  /\ submitted' = Append(submitted, task)
  /\ UNCHANGED <<begun, open>>

Begin ==
  /\ begun < Len(submitted)
  /\ begun' = begun + 1
  /\ UNCHANGED <<submitted, open>>

Close == open /\ open' = FALSE /\ UNCHANGED <<submitted, begun>>

Next == (\E t \in Tasks : Submit(t)) \/ Begin \/ Close

Spec == Init /\ [][Next]_vars /\ WF_vars(open /\ Begin)
SafeSpec == Init /\ [][Next]_vars
=============================================================================
