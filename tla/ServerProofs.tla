---------------------------- MODULE ServerProofs ----------------------------
(***************************************************************************)
(* Safety of Server for any number of workers and requests: main uses the  *)
(* pool as ThreadPool says (so that all its theorems hold of the server),  *)
(* the background threads run as long as the server serves and end before  *)
(* what they use, and the signal stops the intake.                         *)
(***************************************************************************)
EXTENDS Server, ThreadPoolProofs

\* Every step of the server is a step of the pool or leaves it alone.
LEMMA PoolStepOrNone == [ServerNext]_serverVars => [Next]_vars
<1> SUFFICES ASSUME [ServerNext]_serverVars PROVE Next \/ UNCHANGED vars
  OBVIOUS
<1>1. ASSUME MainStep PROVE Next \/ UNCHANGED vars
  <2>1. ASSUME NEW b \in Background,
               startThread(b) \/ stopFlag(b) \/ stopNotify(b) \/ stopJoin(b)
        PROVE  UNCHANGED vars
    BY <2>1 DEF startThread, stopFlag, stopNotify, stopJoin
  <2>2. loopWhile \/ recvTimeout \/ destroy => UNCHANGED vars
    BY DEF loopWhile, recvTimeout, destroy
  <2>3. ASSUME NEW t \in Tasks, receive(t) PROVE Next
    BY <2>3, Zenon DEF receive, Next
  <2>4. notifyOne \/ destroyPool => Next
    BY Zenon DEF destroyPool, Next
  <2> QED BY <1>1, <2>1, <2>2, <2>3, <2>4 DEF MainStep
<1>2. ASSUME NEW w \in Workers, PoolStep(w) \/ spuriousWakeup(w) PROVE Next
  BY <1>2, Zenon DEF PoolStep, Worker, Next
<1>3. ASSUME NEW b \in Background, BgStep(b) \/ bgSpurious(b) PROVE UNCHANGED vars
  BY <1>3 DEF BgStep, bgTest, bgCheck, bgWait, bgTimeout, bgWork, bgSpurious, BgOnly
<1>4. signalHandler \/ UNCHANGED serverVars => UNCHANGED vars
  BY DEF signalHandler, serverVars
<1> QED BY <1>1, <1>2, <1>3, <1>4 DEF ServerNext

\* The server uses its pool as ThreadPool describes, so that what is proved of
\* ThreadPool holds of the server.
THEOREM ServerUsesPool == ServerSpec => Spec
<1>1. ServerInit => Init
  BY DEF ServerInit
<1> QED BY <1>1, PoolStepOrNone, PTL DEF ServerSpec, Spec

\* No request is lost, taken twice or overtaken in the server either.
THEOREM RequestsInOrder == ServerSpec => []TakenInOrder
<1> QED BY ServerUsesPool, QueueFaithful, PTL

-----------------------------------------------------------------------------
\* Objects go only at the end, and then both background threads have ended:
\* main has joined the first before it turns to the second.
Stopping == {<<"stop", "logger">>, <<"notify", "logger">>, <<"join", "logger">>}
JoinedFirst ==
  /\ step = <<"end">> \/ gone = 0
  /\ step \in Stopping \cup {<<"end">>} => bg["cleanup"] = "exit"
  /\ step = <<"end">> => bg["logger"] = "exit"

\* After the signal one request at most comes out of recvfrom.
LastRequest ==
  /\ accepted \in {0, 1}
  /\ accepted = 1 => signalled /\ step # <<"recv">>

\* A thread that main has started finds its flag set until main begins to stop it.
Serves(b) == active[b] /\ bg[b] \notin {"none", "exit"}
Serving ==
  /\ step = <<"start", "logger">> => Serves("cleanup")
  /\ step \in {<<"loop">>, <<"recv">>} => \A b \in Background : Serves(b)

Places ==
  {<<"start", "cleanup">>, <<"start", "logger">>, <<"loop">>, <<"recv">>, <<"end">>,
   <<"stop", "cleanup">>, <<"notify", "cleanup">>, <<"join", "cleanup">>} \cup Stopping
SType ==
  /\ step \in Places /\ signalled \in BOOLEAN /\ gone \in 0 .. 5
  /\ active \in [Background -> BOOLEAN]
  /\ bg \in [Background -> {"none", "test", "check", "enter", "wait", "work", "exit"}]
SInv == SType /\ JoinedFirst /\ LastRequest /\ Serving

LEMMA InitSInv == ServerInit => SInv
<1> SUFFICES ASSUME ServerInit PROVE SInv
  OBVIOUS
<1>1. /\ step = <<"start", "cleanup">> /\ gone = 0 /\ accepted = 0
      /\ step # <<"end">> /\ step \notin Stopping
      /\ step \notin {<<"start", "logger">>, <<"loop">>, <<"recv">>}
  BY DEF ServerInit, Stopping
<1>2. active \in [Background -> BOOLEAN] /\ signalled \in BOOLEAN
  BY DEF ServerInit
<1>3. bg \in [Background -> {"none", "test", "check", "enter", "wait", "work", "exit"}]
  BY DEF ServerInit
<1> QED BY <1>1, <1>2, <1>3 DEF SInv, SType, Places, JoinedFirst, LastRequest, Serving, Serves

LEMMA StepSInv == SInv /\ [ServerNext]_serverVars => SInv'
<1> SUFFICES ASSUME SInv, [ServerNext]_serverVars PROVE SInv'
  OBVIOUS
<1> USE DEF SInv, SType, Places, Stopping
<1>1. ASSUME signalHandler PROVE SInv'
  BY <1>1 DEF signalHandler, vars, JoinedFirst, LastRequest, Serving, Serves
<1>2. ASSUME NEW b \in Background, startThread(b) PROVE SInv'
  BY <1>2 DEF startThread, vars, Background, JoinedFirst, LastRequest, Serving, Serves
<1>3. ASSUME NEW b \in Background, stopFlag(b) PROVE SInv'
  BY <1>3 DEF stopFlag, vars, Background, JoinedFirst, LastRequest, Serving, Serves
<1>4. ASSUME NEW b \in Background, stopNotify(b) PROVE SInv'
  BY <1>4 DEF stopNotify, vars, Background, JoinedFirst, LastRequest, Serving, Serves
<1>5. ASSUME NEW b \in Background, stopJoin(b) PROVE SInv'
  BY <1>5 DEF stopJoin, AfterJoin, vars, Background, JoinedFirst, LastRequest, Serving, Serves
<1>6. ASSUME loopWhile PROVE SInv'
  BY <1>6 DEF loopWhile, vars, JoinedFirst, LastRequest, Serving, Serves
<1>7. ASSUME recvTimeout PROVE SInv'
  BY <1>7 DEF recvTimeout, vars, JoinedFirst, LastRequest, Serving, Serves
<1>8. ASSUME NEW t \in Tasks, receive(t) PROVE SInv'
  BY <1>8 DEF receive, push, JoinedFirst, LastRequest, Serving, Serves
<1>9. ASSUME destroy PROVE SInv'
  BY <1>9 DEF destroy, Objects, vars, JoinedFirst, LastRequest, Serving, Serves
<1>10. ASSUME NEW b \in Background, BgStep(b) \/ bgSpurious(b) PROVE SInv'
  <2>1. /\ bg[b] \notin {"none", "exit"}
        /\ \E l \in {"check", "enter", "wait", "work", "exit", "test"} :
             bg' = [bg EXCEPT ![b] = l] /\ (l = "exit" => ~active[b])
    BY <1>10 DEF BgStep, bgTest, bgCheck, bgWait, bgTimeout, bgWork, bgSpurious,
                 BgGoto, Background
  <2>2. UNCHANGED <<vars, step, signalled, gone, active, accepted>>
    BY <1>10 DEF BgStep, bgTest, bgCheck, bgWait, bgTimeout, bgWork, bgSpurious, BgOnly
  <2> QED BY <2>1, <2>2 DEF Background, JoinedFirst, LastRequest, Serving, Serves, vars
<1>11. ASSUME UNCHANGED mainVars PROVE SInv'
  BY <1>11 DEF mainVars, JoinedFirst, LastRequest, Serving, Serves
<1>12. ASSUME (notifyOne /\ UNCHANGED mainVars) \/ destroyPool PROVE UNCHANGED mainVars
  BY <1>12 DEF destroyPool
<1>13. ASSUME NEW w \in Workers, PoolStep(w) \/ (spuriousWakeup(w) /\ UNCHANGED mainVars)
       PROVE  UNCHANGED mainVars
  BY <1>13 DEF PoolStep
<1>14. UNCHANGED serverVars => UNCHANGED mainVars
  BY DEF serverVars
<1>15. ASSUME MainStep PROVE SInv'
  BY <1>15, <1>2, <1>3, <1>4, <1>5, <1>6, <1>7, <1>8, <1>9, <1>11, <1>12 DEF MainStep
<1> QED BY <1>1, <1>10, <1>11, <1>13, <1>14, <1>15 DEF ServerNext

\* No background thread ends while the server serves, for any number of workers
\* and requests: what BackgroundServes asks beside the end of each wait.
THEOREM ThreadsServe ==
  ServerSpec => [](step \in {<<"loop">>, <<"recv">>} =>
                     \A b \in Background : bg[b] \notin {"none", "exit"})
<1>1. SInv => (step \in {<<"loop">>, <<"recv">>} =>
                 \A b \in Background : bg[b] \notin {"none", "exit"})
  BY DEF SInv, Serving, Serves
<1> QED BY InitSInv, StepSInv, <1>1, PTL DEF ServerSpec

\* The cleanup thread and the logger have ended when the cache or the logger
\* is destroyed.
THEOREM BackgroundEnds == ServerSpec => []ThreadsEndFirst
<1>1. gone = 0 => Lives("cache") /\ Lives("cacheStatsLogger")
  BY DEF Lives, Objects
<1>2. SInv => ThreadsEndFirst
  BY <1>1 DEF SInv, SType, JoinedFirst, ThreadsEndFirst
<1> QED BY InitSInv, StepSInv, <1>2, PTL DEF ServerSpec

\* After the signal one more request is accepted at most.
THEOREM IntakeStops == ServerSpec => []OneAfterSignal
<1>1. SInv => OneAfterSignal
  BY DEF SInv, LastRequest, OneAfterSignal
<1> QED BY InitSInv, StepSInv, <1>1, PTL DEF ServerSpec

=============================================================================
