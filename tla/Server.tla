------------------------------- MODULE Server -------------------------------
(***************************************************************************)
(* main of lib/main.cpp: the receive loop that feeds the ThreadPool, the   *)
(* signal that ends it, the two background threads (DnsCache's cleanup and *)
(* lib/cache/StatsLogger.hpp) and the end of main, where the objects the   *)
(* workers use are destroyed, the pool last.                               *)
(*                                                                         *)
(* ThreadPool's main is the same thread: its actions are taken at the      *)
(* places of main that call them.  The second calls of stopCleanup and     *)
(* stopLogger, from the destructors, find the flag cleared and do nothing. *)
(***************************************************************************)
EXTENDS ThreadPool

VARIABLES
  step,        \* where main is
  signalled,   \* g_shutdown_requested
  gone,        \* how many of Objects have been destroyed
  active,      \* per background thread, its _running flag
  bg,          \* per background thread, where it is
  accepted     \* history: requests accepted after the signal

mainVars == <<step, signalled, gone, active, bg, accepted>>
serverVars == <<vars, mainVars>>

Background == {"cleanup", "logger"}
\* What tasks and background threads use, in the order it goes.
Objects == <<"sockfd", "rateLimiter", "tracker", "cacheStatsLogger", "cache">>
Lives(o) == \E i \in gone + 1 .. Len(Objects) : Objects[i] = o

ServerInit ==
  /\ Init
  /\ step = <<"start", "cleanup">> /\ signalled = FALSE /\ gone = 0
  /\ active = [b \in Background |-> FALSE] /\ bg = [b \in Background |-> "none"]
  /\ accepted = 0

-----------------------------------------------------------------------------
\* signalHandler, at any time.
signalHandler ==
  /\ signalled' = TRUE
  /\ UNCHANGED <<vars, step, gone, active, bg, accepted>>

\* Mutant: the thread is there before its flag is set.
StartUnflagged(b) ==
  /\ step = <<"start", b>>
  /\ \/ bg[b] = "none" /\ bg' = [bg EXCEPT ![b] = "test"] /\ UNCHANGED <<active, step>>
     \/ bg[b] # "none" /\ active' = [active EXCEPT ![b] = TRUE] /\ UNCHANGED bg
        /\ step' = IF b = "cleanup" THEN <<"start", "logger">> ELSE <<"loop">>
  /\ UNCHANGED <<vars, signalled, gone, accepted>>

\* startCleanup, then startLogger.
startThread(b) ==
  /\ step = <<"start", b>>
  /\ active' = [active EXCEPT ![b] = TRUE] /\ bg' = [bg EXCEPT ![b] = "test"]
  /\ step' = IF b = "cleanup" THEN <<"start", "logger">> ELSE <<"loop">>
  /\ UNCHANGED <<vars, signalled, gone, accepted>>

\* while (!g_shutdown_requested)
loopWhile ==
  /\ step = <<"loop">> /\ main = "serve"
  /\ step' = IF signalled THEN <<"stop", "cleanup">> ELSE <<"recv">>
  /\ UNCHANGED <<vars, signalled, gone, active, bg, accepted>>

\* recvfrom fails, at the latest after a second.
recvTimeout ==
  /\ step = <<"recv">>
  /\ step' = <<"loop">>
  /\ UNCHANGED <<vars, signalled, gone, active, bg, accepted>>

\* Mutant: after a request the next one is awaited without a look at the flag.
ReceiveOn(t) ==
  /\ step = <<"recv">> /\ push(t)
  /\ accepted' = IF signalled THEN accepted + 1 ELSE accepted
  /\ UNCHANGED <<step, signalled, gone, active, bg>>

\* A request is handed to the pool.
receive(t) ==
  /\ step = <<"recv">> /\ push(t)
  /\ step' = <<"loop">>
  /\ accepted' = IF signalled THEN accepted + 1 ELSE accepted
  /\ UNCHANGED <<signalled, gone, active, bg>>

-----------------------------------------------------------------------------
\* stopCleanup, then stopLogger: clear the flag, without cvMtx ...
stopFlag(b) ==
  /\ step = <<"stop", b>>
  /\ active' = [active EXCEPT ![b] = FALSE]
  /\ step' = <<"notify", b>>
  /\ UNCHANGED <<vars, signalled, gone, bg, accepted>>

\* ... notify the thread, if it waits ...
stopNotify(b) ==
  /\ step = <<"notify", b>>
  /\ bg' = IF bg[b] = "wait" THEN [bg EXCEPT ![b] = "check"] ELSE bg
  /\ step' = <<"join", b>>
  /\ UNCHANGED <<vars, signalled, gone, active, accepted>>

AfterJoin(b) == IF b = "cleanup" THEN <<"stop", "logger">> ELSE <<"end">>

\* Mutant: the thread is left to its destructor.
StopDetached(b) ==
  /\ step = <<"join", b>>
  /\ step' = AfterJoin(b)
  /\ UNCHANGED <<vars, signalled, gone, active, bg, accepted>>

\* ... and join it.
stopJoin(b) ==
  /\ step = <<"join", b>> /\ bg[b] = "exit"
  /\ step' = AfterJoin(b)
  /\ UNCHANGED <<vars, signalled, gone, active, bg, accepted>>

\* close(sockfd), then main's locals in the reverse order of declaration ...
destroy ==
  /\ step = <<"end">> /\ gone < Len(Objects)
  /\ gone' = gone + 1
  /\ UNCHANGED <<vars, step, signalled, active, bg, accepted>>

\* ... the pool, which was declared first, after them.
destroyPool ==
  /\ step = <<"end">> /\ gone = Len(Objects)
  /\ stop \/ shutdownQueue \/ notifyAll \/ join
  /\ UNCHANGED mainVars

-----------------------------------------------------------------------------
\* _thread__cleanup and StatsLogger::printStats have the same loop.
BgGoto(b, l) == bg' = [bg EXCEPT ![b] = l]
BgOnly == UNCHANGED <<vars, step, signalled, gone, active, accepted>>

\* while (running) ...
bgTest(b) ==
  bg[b] = "test" /\ BgGoto(b, IF active[b] THEN "check" ELSE "exit") /\ BgOnly

\* ... wait_for tests its predicate ...
bgCheck(b) ==
  bg[b] = "check" /\ BgGoto(b, IF active[b] THEN "enter" ELSE "exit") /\ BgOnly

\* ... and blocks; a notification between the two is lost ...
bgWait(b) == bg[b] = "enter" /\ BgGoto(b, "wait") /\ BgOnly

\* Mutant: wait instead of wait_for.
WaitForever(b) == FALSE /\ BgOnly

\* ... until the interval has passed ...
bgTimeout(b) ==
  bg[b] = "wait" /\ BgGoto(b, IF active[b] THEN "work" ELSE "exit") /\ BgOnly

\* ... or for no reason ...
bgSpurious(b) == bg[b] = "wait" /\ BgGoto(b, "check") /\ BgOnly

\* ... cleanupExpired, or the cache's printStats.
bgWork(b) == bg[b] = "work" /\ BgGoto(b, "test") /\ BgOnly

-----------------------------------------------------------------------------
MainStep ==
  \/ \E b \in Background : startThread(b) \/ stopFlag(b) \/ stopNotify(b) \/ stopJoin(b)
  \/ loopWhile \/ recvTimeout \/ (\E t \in Tasks : receive(t))
  \/ notifyOne /\ UNCHANGED mainVars
  \/ destroy \/ destroyPool

PoolStep(w) == Worker(w) /\ UNCHANGED mainVars
BgStep(b) == bgTest(b) \/ bgCheck(b) \/ bgWait(b) \/ bgTimeout(b) \/ bgWork(b)

ServerNext ==
  \/ signalHandler
  \/ MainStep
  \/ \E w \in Workers : PoolStep(w) \/ (spuriousWakeup(w) /\ UNCHANGED mainVars)
  \/ \E b \in Background : BgStep(b) \/ bgSpurious(b)
  \/ main = "done" /\ UNCHANGED serverVars

ServerSpec == ServerInit /\ [][ServerNext]_serverVars

\* Threads that can run do, tasks end, and waits end with their timeouts, also
\* those that are interrupted again and again: wait_for fixes its deadline once.
\* Nothing is assumed of the signal, of requests or of spurious wakeups.
FairServer ==
  /\ ServerSpec
  /\ WF_serverVars(MainStep)
  /\ \A w \in Workers : WF_serverVars(PoolStep(w))
  /\ \A b \in Background : WF_serverVars(BgStep(b)) /\ SF_serverVars(bgTimeout(b))

-----------------------------------------------------------------------------
\* The background threads, whose mutex, condition variable and data are members
\* of the cache and the logger, have ended before these are destroyed
\* (main.cpp:128-129), and none is started again.
ThreadsEndFirst ==
  /\ bg["cleanup"] \notin {"none", "exit"} => Lives("cache")
  /\ bg["logger"] \notin {"none", "exit"} => Lives("cacheStatsLogger") /\ Lives("cache")

\* After the signal at most one more request is accepted, the one recvfrom was
\* waiting for: later ones are not handled (main.cpp:94-116).
OneAfterSignal == accepted <= 1

\* The server ends once it was told to, even when the notification of a
\* background thread is lost: the interval of its wait passes.
SignalEnds == signalled ~> main = "done"

\* Until the signal expired entries are removed and statistics printed again and
\* again: no background thread ends early, as one that looks at its flag before
\* startCleanup has set it would (DnsCache.hpp:84), and none waits for ever.
BackgroundServes == \A b \in Background : []<>(bg[b] = "work" \/ signalled)

\* A stop is graceful: what a task uses is there until the task has ended.
ObjectsOutliveTasks == (\E w \in Workers : pc[w] = "run") => gone = 0

=============================================================================
