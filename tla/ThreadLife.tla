----------------------------- MODULE ThreadLife -----------------------------
(***************************************************************************)
(* The life of one QThread: start, the OS thread it creates, finish, wait, *)
(* terminate, restart and destruction.                                     *)
(*                                                                         *)
(* Controllers are the threads that use the QThread object.  Each start()  *)
(* that has an effect creates one detached OS thread, numbered in order of *)
(* creation, which runs QThreadPrivate::start, run() and, as a cleanup     *)
(* handler, QThreadPrivate::finish.  A step is one critical section of     *)
(* QThreadPrivate::mutex, or what happens between two of them.             *)
(*                                                                         *)
(* Outside the code: pthread_cancel is delivered at a cancellation point   *)
(* with cancellation enabled, runs the cleanup handlers that are still     *)
(* pushed and ends the thread; a wait on a condition may wake up for no    *)
(* reason.                                                                 *)
(*                                                                         *)
(* Definitions whose comment begins with "Mutant" are wrong on purpose:    *)
(* they show that a property fails when the code has that mistake.         *)
(***************************************************************************)
EXTENDS Integers, FiniteSets

CONSTANTS
  Controllers,    \* the threads that call start, wait, terminate and the destructor
  MaxRuns,        \* bound: OS threads created
  MaxTerminates,  \* bound: calls of terminate
  MaxPosts        \* bound: events posted to the thread

ASSUME ThreadLifeAssumption ==
  /\ MaxRuns \in Nat \ {0} /\ MaxTerminates \in Nat /\ MaxPosts \in Nat

Runs == 1..MaxRuns
NoRun == 0

VARIABLES
  running, finished, terminated, isInFinish,
  threadId,     \* thread_id, the number of its OS thread, or NoRun
  dispatcher,   \* the event dispatcher, by the OS thread that made it, or NoRun
  exists,       \* the QThread is not destroyed
  ref,          \* QThreadData::_ref
  os,           \* where each OS thread is
  cancelled,    \* the OS threads for which pthread_cancel was called
  exiting,      \* those that are being cancelled: their handlers run
  cpc,          \* what each controller does
  notified,     \* the controllers whose wait on thread_done is over
  since,        \* the newest OS thread when the controller's wait() began
  held,         \* the dispatcher that a controller in postEvent is about to wake up
  runs, terminates, posts

flagVars == <<running, finished, terminated, isInFinish, threadId>>
osVars == <<dispatcher, exists, ref, os, cancelled, exiting, runs>>
callVars == <<cpc, notified, since, held>>
countVars == <<terminates, posts>>
vars == <<flagVars, osVars, callVars, countVars>>

OsPoints == {"none", "created", "started", "run", "ended", "signals", "deleting", "exit",
             "gone"}
CallPoints == {"idle", "starting", "waiting", "timedWaiting", "destroying", "posted", "waking"}
Waiting == {"starting", "waiting", "timedWaiting", "destroying"}

Init ==
  /\ running = FALSE /\ finished = FALSE /\ terminated = FALSE /\ isInFinish = FALSE
  /\ threadId = NoRun /\ dispatcher = NoRun /\ exists = TRUE /\ ref = 1
  /\ os = [r \in Runs |-> "none"] /\ cancelled = {} /\ exiting = {}
  /\ cpc = [c \in Controllers |-> "idle"] /\ notified = {}
  /\ since = [c \in Controllers |-> NoRun] /\ held = [c \in Controllers |-> NoRun]
  /\ runs = 0 /\ terminates = 0 /\ posts = 0

\* A controller may use the QThread until somebody begins to destroy it.
MayCall(c) == exists /\ cpc[c] = "idle" /\ \A d \in Controllers : cpc[d] # "destroying"
Goto(c, point) == cpc' = [cpc EXCEPT ![c] = point]
Step(r, point) == os' = [os EXCEPT ![r] = point]

-----------------------------------------------------------------------------
(* start.                                                                  *)

\* start() once nobody is in finish() or its wait is over: nothing if it is running,
\* and a thread that cannot be created changes the flags only.
Launch ==
  IF running
    THEN UNCHANGED <<flagVars, os, runs>>
    ELSE /\ finished' = FALSE /\ terminated' = FALSE
         /\ UNCHANGED isInFinish
         /\ \/ /\ runs < MaxRuns
               /\ running' = TRUE /\ threadId' = runs + 1
               /\ runs' = runs + 1 /\ Step(runs + 1, "created")
            \/ /\ running' = FALSE /\ threadId' = NoRun
               /\ UNCHANGED <<os, runs>>

Start(c) ==
  /\ MayCall(c)
  /\ IF isInFinish
       THEN /\ Goto(c, "starting") /\ notified' = notified \ {c}
            /\ UNCHANGED <<flagVars, os, runs>>
       ELSE Launch /\ UNCHANGED <<cpc, notified>>
  /\ UNCHANGED <<dispatcher, exists, ref, cancelled, exiting, since, held, countVars>>

\* It waits for finish() at most once.
StartWoken(c) ==
  /\ cpc[c] = "starting" /\ c \in notified
  /\ Launch
  /\ Goto(c, "idle") /\ notified' = notified \ {c}
  /\ UNCHANGED <<dispatcher, exists, ref, cancelled, exiting, since, held, countVars>>

-----------------------------------------------------------------------------
(* The OS thread.                                                          *)

\* Mutant of Begin: the thread holds no reference to its data.
BeginUncounted(r) ==
  /\ os[r] = "created"
  /\ Step(r, "started")
  /\ dispatcher' = r
  /\ UNCHANGED <<flagVars, exists, ref, cancelled, exiting, runs, callVars, countVars>>

\* QThreadPrivate::start with cancellation disabled...
Begin(r) ==
  /\ os[r] = "created"
  /\ Step(r, "started")
  /\ ref' = ref + 1
  /\ dispatcher' = r
  /\ UNCHANGED <<flagVars, exists, cancelled, exiting, runs, callVars, countVars>>

\* ... which is then enabled for run().
EnterRun(r) ==
  /\ os[r] = "started"
  /\ Step(r, "run")
  /\ UNCHANGED <<flagVars, dispatcher, exists, ref, cancelled, exiting, runs, callVars,
                 countVars>>

\* run() returns and pthread_cleanup_pop takes the handler off and calls it...
RunReturns(r) ==
  /\ os[r] = "run"
  /\ Step(r, "ended")
  /\ UNCHANGED <<flagVars, dispatcher, exists, ref, cancelled, exiting, runs, callVars,
                 countVars>>

\* Mutant of RunCancelled: pthread_cleanup_push is missing.
RunCancelledUnhandled(r) ==
  /\ os[r] = "run" /\ r \in cancelled
  /\ Step(r, "exit")
  /\ exiting' = exiting \cup {r}
  /\ UNCHANGED <<flagVars, dispatcher, exists, ref, cancelled, runs, callVars, countVars>>

\* ... or the thread is cancelled, which calls it as well; from then on it cannot be
\* cancelled again.
RunCancelled(r) ==
  /\ os[r] = "run" /\ r \in cancelled
  /\ Step(r, "ended")
  /\ exiting' = exiting \cup {r}
  /\ UNCHANGED <<flagVars, dispatcher, exists, ref, cancelled, runs, callVars, countVars>>

\* finish(): up to its signals and the deferred deletes...
FinishBegins(r) ==
  /\ os[r] = "ended"
  /\ isInFinish' = TRUE
  /\ Step(r, "signals")
  /\ UNCHANGED <<running, finished, terminated, threadId, dispatcher, exists, ref, cancelled,
                 exiting, runs, callVars, countVars>>

\* Mutant of TakeDispatcher: the thread counts as finished before its dispatcher is gone.
TakeDispatcherLast(r) ==
  /\ os[r] = "signals"
  /\ terminated' = FALSE /\ running' = FALSE /\ finished' = TRUE
  /\ dispatcher' = NoRun
  /\ Step(r, "deleting")
  /\ UNCHANGED <<isInFinish, threadId, exists, ref, cancelled, exiting, runs, callVars,
                 countVars>>

\* ... up to the deletion of the dispatcher, which happens with the mutex unlocked...
TakeDispatcher(r) ==
  /\ os[r] = "signals"
  /\ terminated' = FALSE
  /\ dispatcher' = NoRun
  /\ Step(r, "deleting")
  /\ UNCHANGED <<running, finished, isInFinish, threadId, exists, ref, cancelled, exiting,
                 runs, callVars, countVars>>

\* Mutant of FinishEnds: only one waiter is told.
FinishTellsOne(r) ==
  /\ os[r] = "deleting"
  /\ threadId' = NoRun /\ running' = FALSE /\ finished' = TRUE /\ isInFinish' = FALSE
  /\ LET waiters == {c \in Controllers : cpc[c] \in Waiting}
     IN  IF waiters = {} THEN UNCHANGED notified
                         ELSE \E c \in waiters : notified' = notified \cup {c}
  /\ Step(r, "exit")
  /\ UNCHANGED <<terminated, dispatcher, exists, ref, cancelled, exiting, runs, cpc, since,
                 held, countVars>>

\* ... and its end.
FinishEnds(r) ==
  /\ os[r] = "deleting"
  /\ threadId' = NoRun /\ running' = FALSE /\ finished' = TRUE /\ isInFinish' = FALSE
  /\ notified' = notified \cup {c \in Controllers : cpc[c] \in Waiting}
  /\ Step(r, "exit")
  /\ UNCHANGED <<terminated, dispatcher, exists, ref, cancelled, exiting, runs, cpc, since,
                 held, countVars>>

\* A thread that is cancelled in finish() after run() has returned: the handler is no
\* longer pushed, so the rest of it is not executed.
FinishCancelled(r) ==
  /\ os[r] \in {"signals", "deleting"} /\ r \in cancelled \ exiting
  /\ Step(r, "exit")
  /\ exiting' = exiting \cup {r}
  /\ UNCHANGED <<flagVars, dispatcher, exists, ref, cancelled, runs, callVars, countVars>>

\* The destructor of the thread's data key drops its reference.
DropData(r) ==
  /\ os[r] = "exit"
  /\ Step(r, "gone")
  /\ ref' = ref - 1
  /\ UNCHANGED <<flagVars, dispatcher, exists, cancelled, exiting, runs, callVars, countVars>>

-----------------------------------------------------------------------------
(* wait, terminate, the destructor and postEvent.                          *)

\* Mutant of StillWaits: any wake-up ends the wait.
NeverWaitsAgain == FALSE

\* while (d->running)
StillWaits == running

\* wait(), unless it returns at once.
Wait(c, point) ==
  /\ point \in {"waiting", "timedWaiting"}
  /\ MayCall(c)
  /\ ~finished /\ running
  /\ Goto(c, point)
  /\ notified' = notified \ {c}
  /\ since' = [since EXCEPT ![c] = runs]
  /\ UNCHANGED <<flagVars, osVars, held, countVars>>

\* The wait on thread_done is over: wait() waits again or returns true.
WaitWoken(c) ==
  /\ cpc[c] \in {"waiting", "timedWaiting"} /\ c \in notified
  /\ Goto(c, IF StillWaits THEN cpc[c] ELSE "idle")
  /\ notified' = notified \ {c}
  /\ UNCHANGED <<flagVars, osVars, since, held, countVars>>

\* wait() returns false.
WaitTimeout(c) ==
  /\ cpc[c] = "timedWaiting"
  /\ Goto(c, "idle")
  /\ UNCHANGED <<flagVars, osVars, notified, since, held, countVars>>

\* A std::condition_variable may wake up for no reason.
WakeForNothing(c) ==
  /\ cpc[c] \in Waiting /\ c \notin notified
  /\ notified' = notified \cup {c}
  /\ UNCHANGED <<flagVars, osVars, cpc, since, held, countVars>>

\* terminate(): the OS thread is cancelled if there is one.
Terminate(c) ==
  /\ MayCall(c) /\ terminates < MaxTerminates
  /\ threadId # NoRun
  /\ cancelled' = cancelled \cup {threadId}
  /\ terminated' = TRUE
  /\ terminates' = terminates + 1
  /\ UNCHANGED <<running, finished, isInFinish, threadId, dispatcher, exists, ref, os, exiting,
                 runs, callVars, posts>>

\* ~QThread and ~QThreadPrivate.
Gone == exists' = FALSE /\ ref' = ref - 1

MustJoin == isInFinish

\* A controller destroys a thread that was not started or isFinished(), when nobody else is
\* using it.
Destroy(c) ==
  /\ MayCall(c) /\ \A d \in Controllers \ {c} : cpc[d] = "idle"
  /\ running => isInFinish
  /\ IF MustJoin
       THEN Goto(c, "destroying") /\ UNCHANGED <<exists, ref>>
       ELSE Gone /\ UNCHANGED cpc
  /\ notified' = notified \ {c}
  /\ UNCHANGED <<flagVars, dispatcher, os, cancelled, exiting, runs, since, held, countVars>>

\* Its call of wait() is over, or waits again.
DestroyWoken(c) ==
  /\ cpc[c] = "destroying" /\ c \in notified
  /\ IF StillWaits THEN UNCHANGED <<cpc, exists, ref>> ELSE Gone /\ Goto(c, "idle")
  /\ notified' = notified \ {c}
  /\ UNCHANGED <<flagVars, dispatcher, os, cancelled, exiting, runs, since, held, countVars>>

\* postEvent to an object of the thread, up to the unlock of its list...
PostEvent(c) ==
  /\ MayCall(c) /\ posts < MaxPosts
  /\ Goto(c, "posted")
  /\ posts' = posts + 1
  /\ UNCHANGED <<flagVars, osVars, notified, since, held, terminates>>

\* ... then it tests eventDispatcher without a lock...
TestDispatcher(c) ==
  /\ cpc[c] = "posted"
  /\ Goto(c, IF dispatcher = NoRun THEN "idle" ELSE "waking")
  /\ held' = [held EXCEPT ![c] = dispatcher]
  /\ UNCHANGED <<flagVars, osVars, notified, since, countVars>>

\* ... and calls its wakeUp().
WakeUp(c) ==
  /\ cpc[c] = "waking"
  /\ Goto(c, "idle")
  /\ held' = [held EXCEPT ![c] = NoRun]
  /\ UNCHANGED <<flagVars, osVars, notified, since, countVars>>

\* What an OS thread does but for run(), which the application writes.
Library(r) ==
  \/ Begin(r) \/ EnterRun(r) \/ RunCancelled(r) \/ FinishBegins(r)
  \/ TakeDispatcher(r) \/ FinishEnds(r) \/ FinishCancelled(r) \/ DropData(r)

OsThread(r) == RunReturns(r) \/ Library(r)

InCall(c) == StartWoken(c) \/ WaitWoken(c) \/ DestroyWoken(c) \/ TestDispatcher(c) \/ WakeUp(c)

Application(c) ==
  \/ Start(c) \/ Wait(c, "waiting") \/ Wait(c, "timedWaiting") \/ Terminate(c) \/ Destroy(c)
  \/ PostEvent(c)

Next ==
  \/ \E r \in Runs : OsThread(r)
  \/ \E c \in Controllers :
       Application(c) \/ InCall(c) \/ WaitTimeout(c) \/ WakeForNothing(c)

Spec == Init /\ [][Next]_vars

\* The scheduler runs every thread.  run() need not return, but if it is cancelled it comes to
\* a cancellation point in the end.
Fairness ==
  /\ \A r \in Runs : WF_vars(Library(r))
  /\ \A c \in Controllers : WF_vars(InCall(c))

FairSpec == Spec /\ Fairness

-----------------------------------------------------------------------------
(* Properties.                                                             *)

TypeOK ==
  /\ running \in BOOLEAN /\ finished \in BOOLEAN /\ terminated \in BOOLEAN
  /\ isInFinish \in BOOLEAN /\ threadId \in Runs \cup {NoRun}
  /\ dispatcher \in Runs \cup {NoRun} /\ exists \in BOOLEAN /\ ref \in 0..(MaxRuns + 1)
  /\ os \in [Runs -> OsPoints] /\ cancelled \subseteq Runs /\ exiting \subseteq Runs
  /\ cpc \in [Controllers -> CallPoints] /\ notified \subseteq Controllers
  /\ since \in [Controllers -> Runs \cup {NoRun}]
  /\ held \in [Controllers -> Runs \cup {NoRun}]
  /\ runs \in 0..MaxRuns /\ terminates \in 0..MaxTerminates /\ posts \in 0..MaxPosts

\* An OS thread that still executes code of the QThread object.
Executing(r) == os[r] \in {"created", "started", "run", "ended", "signals", "deleting"}

\* The QThread never has two OS threads at once, however start(), finish() and
\* terminate() overlap: thread_id and the dispatcher are those of the one it has.  A QThread
\* that was destroyed when it isFinished() has left none behind (qthread.cpp:352).
OneThread ==
  /\ \A r, s \in Runs : Executing(r) /\ Executing(s) => r = s
  /\ \A r \in Runs : Executing(r) =>
       exists /\ running /\ threadId = r /\ dispatcher \in {NoRun, r}

\* When wait() returns true the thread has left run() and finish(), whatever woke the
\* waiter up (qthread.cpp:633, "will return true if the thread has finished").
WaitMeansFinished ==
  [][\A c \in Controllers :
       WaitWoken(c) /\ cpc'[c] = "idle" => \A r \in Runs : ~Executing(r)]_vars

\* QThreadData lives exactly as long as the QThread and its OS threads.
DataOutlivesUsers ==
  LET users == {r \in Runs : os[r] \notin {"none", "created", "gone"}}
  IN  ref = Cardinality(users) + (IF exists THEN 1 ELSE 0)

\* start() does nothing only when the thread is running (qthread.cpp:251, "If the thread
\* is already running, this function does nothing"), and then isRunning() is true.
StartHasEffect ==
  [][\A c \in Controllers : StartWoken(c) /\ running => ~isInFinish]_vars

\* wait() waits for the run that was going on when it was called
\* (qthread.cpp:632, "has finished execution (i.e. when it returns from run())").
WaitsForOneRun ==
  \A c \in Controllers :
    cpc[c] = "waiting" /\ c \notin notified => since[c] = runs

\* postEvent does not call a dispatcher that was deleted (qcoreapplication.cpp:785,
\* "\threadsafe").
NoDeletedDispatcherUsed ==
  \A c \in Controllers : cpc[c] = "waking" => os[held[c]] \notin {"exit", "gone"}

\* terminate() has cut off finish() after run() had returned: the thread is gone and its
\* QThread still says it runs.
CutOff == \E r \in Runs : os[r] \in {"exit", "gone"} /\ running /\ isInFinish /\ threadId = r

\* Whoever waits for finish() to end, in start() or in the destructor, is woken up in the
\* end, whatever else wakes up or starts on the same condition, unless finish() is cut off.
FinishIsWaitedOut ==
  \A c \in Controllers : cpc[c] \in {"starting", "destroying"} ~> cpc[c] = "idle" \/ CutOff

\* c is in wait() for run r, and terminate() was called.
WaitsForTerminated(c, r) == r \in cancelled /\ cpc[c] = "waiting" /\ since[c] = r

\* "When the thread is terminated, all threads waiting for the thread to finish will be
\* woken up" (qthread.cpp:607): wait() returns though run() itself would go on for ever,
\* unless terminate() cuts off finish() or the QThread is started again before the waiter
\* has the mutex.
TerminateWakesWaiters ==
  \A c \in Controllers, r \in Runs :
    WaitsForTerminated(c, r) ~> cpc[c] = "idle" \/ CutOff \/ runs > r

\* The same when the QThread is started again.
TerminateWakesLateWaiters ==
  \A c \in Controllers, r \in Runs : WaitsForTerminated(c, r) ~> cpc[c] = "idle" \/ CutOff

\* The same when finish() is cut off.
TerminateAlwaysWakes ==
  \A c \in Controllers, r \in Runs : WaitsForTerminated(c, r) ~> cpc[c] = "idle" \/ runs > r
=============================================================================
