----------------------------- MODULE ThreadPool -----------------------------
(***************************************************************************)
(* QThreadPool: its run queue, its pooled threads and how they sleep,      *)
(* expire, are restarted and are joined by waitForDone.                    *)
(*                                                                         *)
(* Everything but QRunnable::run, the end of a QThread and the join happens*)
(* under QThreadPoolPrivate::mutex, so a step is one critical section.     *)
(* tryToStartMoreThreads keeps the mutex over its rounds, which are steps  *)
(* of their own while moreThreads holds.  Who calls start, tryStart and    *)
(* the like makes no difference; the threads in waitForDone are told       *)
(* apart.                                                                  *)
(*                                                                         *)
(* A pooled QThread is "new", then between "run" and "finishing" while     *)
(* QThread::running is set ("ended" when run() has returned and finish()   *)
(* has not begun, "finishing" while isInFinish is set), then "finished",   *)
(* from where start() begins again, and at last "deleted".                 *)
(*                                                                         *)
(* Definitions whose comment begins with "Mutant" are wrong on purpose:    *)
(* they show that a property fails when the code has that mistake.         *)
(***************************************************************************)
EXTENDS Integers, Sequences, FiniteSets, SequencesExt

CONSTANTS
  Workers,      \* bound: the QThreadPoolThread objects that can be made
  Waiters,      \* the threads that call waitForDone
  Tasks,        \* the QRunnables
  AutoDelete,   \* those with autoDelete()
  NoTask,       \* runnable = 0
  Priorities,   \* the priorities given to start
  Limits,       \* the values given to setMaxThreadCount, with the first one
  FirstLimit,
  Expires,      \* whether a wait for work may end by expiryTimeout, or for no reason
  WakesForNothing, \* whether the wait for noActiveThreads may end for no reason
  StartAnyTime, \* whether others than tasks start tasks while a thread is in waitForDone
  MaxStarts,    \* bound: calls of start and tryStart for one task
  MaxReserved,  \* bound: reserved threads
  MaxChanges,   \* bound: calls of setMaxThreadCount, reserveThread and releaseThread
  MaxWaits      \* bound: calls of waitForDone by one thread

ASSUME ThreadPoolAssumption ==
  /\ IsFiniteSet(Workers) /\ AutoDelete \subseteq Tasks /\ NoTask \notin Tasks
  /\ Priorities \subseteq Int /\ Limits \subseteq Int /\ FirstLimit \in Limits
  /\ Expires \in BOOLEAN /\ WakesForNothing \in BOOLEAN /\ StartAnyTime \in BOOLEAN
  /\ MaxStarts \in Nat /\ MaxReserved \in Nat /\ MaxChanges \in Nat /\ MaxWaits \in Nat

VARIABLES
  allThreads, waitingThreads, expiredThreads, queue,
  isExiting, maxThreadCount, reservedThreads, activeThreads,
  moreThreads,   \* the mutex is held by tryToStartMoreThreads
  wpc,           \* where each pooled thread is
  runnable,      \* QThreadPoolThread::runnable of each
  current,       \* the task each is running
  ref,           \* QRunnable::ref of the tasks with autoDelete
  alive,         \* the tasks that are not deleted
  cpc,           \* where each thread in waitForDone is
  timed,         \* whether it gave a limit in milliseconds
  victims,       \* allThreadsCopy of its reset
  join,          \* the thread that its reset waits for, as a set of at most one
  started, ran,  \* how often each task was accepted, and how often it was run
  changes, waits

threadVars == <<wpc, runnable, current>>
poolVars == <<allThreads, waitingThreads, expiredThreads, queue, activeThreads>>
limitVars == <<isExiting, maxThreadCount, reservedThreads>>
waiterVars == <<cpc, timed, victims, join, waits>>
vars == <<threadVars, poolVars, limitVars, waiterVars, moreThreads, ref, alive, started, ran,
          changes>>

WorkerPoints == {"new", "run", "task", "waiting", "woken", "ended", "finishing", "finished",
                 "deleted"}
WaiterPoints == {"idle", "waiting", "awake", "reset", "joining"}

Init ==
  /\ allThreads = {} /\ waitingThreads = <<>> /\ expiredThreads = <<>> /\ queue = <<>>
  /\ isExiting = FALSE /\ maxThreadCount = FirstLimit /\ reservedThreads = 0
  /\ activeThreads = 0 /\ moreThreads = FALSE
  /\ wpc = [w \in Workers |-> "new"]
  /\ runnable = [w \in Workers |-> NoTask] /\ current = [w \in Workers |-> NoTask]
  /\ ref = [t \in Tasks |-> 0] /\ alive = Tasks
  /\ cpc = [c \in Waiters |-> "idle"] /\ timed = [c \in Waiters |-> FALSE]
  /\ victims = [c \in Waiters |-> {}] /\ join = [c \in Waiters |-> {}]
  /\ started = [t \in Tasks |-> 0] /\ ran = [t \in Tasks |-> 0]
  /\ changes = 0 /\ waits = [c \in Waiters |-> 0]

-----------------------------------------------------------------------------
(* Starting tasks.                                                         *)

activeThreadCount == Cardinality(allThreads) - Len(expiredThreads) - Len(waitingThreads)
                     + reservedThreads

\* QThreadPoolPrivate::tryStart: "always create at least one thread".
CanStart == allThreads = {} \/ activeThreadCount < maxThreadCount

\* enqueueTask: before the position qUpperBound finds in a queue that descends in priority.
Enqueued(q, t, priority) ==
  InsertAt(q, 1 + Cardinality({k \in DOMAIN q : q[k].priority >= priority}),
           [task |-> t, priority |-> priority])

Referenced(t) == IF t \in AutoDelete THEN [ref EXCEPT ![t] = @ + 1] ELSE ref

\* Mutant of Signalled: the wake-up is forgotten.
NotSignalled(w) == wpc

\* Waking a thread that may not wait any more changes nothing.
Signalled(w) == IF wpc[w] = "waiting" THEN [wpc EXCEPT ![w] = "woken"] ELSE wpc

\* QThread::start, which first waits for a finish() in progress and has no effect on a
\* thread that is still running.
Start(w) ==
  /\ wpc[w] # "finishing"
  /\ wpc' = IF wpc[w] \in {"new", "finished"} THEN [wpc EXCEPT ![w] = "run"] ELSE wpc

StartThread(t) ==
  \E w \in Workers :
    /\ wpc[w] = "new"
    /\ allThreads' = allThreads \cup {w}
    /\ activeThreads' = activeThreads + 1
    /\ runnable' = [runnable EXCEPT ![w] = t]
    /\ Start(w)
    /\ UNCHANGED <<waitingThreads, expiredThreads>>

\* "recycle an available thread": the task goes through the queue, with priority 0.
RecycleThread ==
  /\ wpc' = Signalled(Head(waitingThreads))
  /\ waitingThreads' = Tail(waitingThreads)
  /\ UNCHANGED <<allThreads, expiredThreads, activeThreads, runnable>>

RestartThread(t) ==
  LET w == Head(expiredThreads) IN
  /\ expiredThreads' = Tail(expiredThreads)
  /\ activeThreads' = activeThreads + 1
  /\ runnable' = [runnable EXCEPT ![w] = t]
  /\ Start(w)
  /\ UNCHANGED <<allThreads, waitingThreads>>

\* The rest of QThreadPoolPrivate::tryStart; first says that tryToStartMoreThreads
\* removes the first task from the queue afterwards.
TryStart(t, first) ==
  LET recycled == allThreads # {} /\ waitingThreads # <<>>
      q == IF recycled THEN Enqueued(queue, t, 0) ELSE queue
  IN
  /\ CASE recycled -> RecycleThread
       [] allThreads # {} /\ ~recycled /\ expiredThreads # <<>> -> RestartThread(t)
       [] OTHER -> StartThread(t)
  /\ queue' = IF first THEN Tail(q) ELSE q
  /\ ref' = Referenced(t)

Accept(t) == started' = [started EXCEPT ![t] = @ + 1]
MayStart(t) == ~moreThreads /\ t \in alive /\ started[t] < MaxStarts

\* While a thread is in waitForDone a task that is being run may start another one.  One with
\* autoDelete is started once but for tryStart(this): it may be gone afterwards.
MayOffer(t) ==
  /\ MayStart(t)
  /\ t \in AutoDelete => started[t] = 0
  /\ \/ StartAnyTime
     \/ \A c \in Waiters : cpc[c] = "idle"
     \/ \E w \in Workers : wpc[w] = "task"

\* QThreadPool::start
StartTask(t, priority) ==
  /\ MayOffer(t)
  /\ Accept(t)
  /\ IF CanStart
       THEN TryStart(t, FALSE)
       ELSE /\ queue' = Enqueued(queue, t, priority)
            /\ ref' = Referenced(t)
            /\ IF waitingThreads # <<>> THEN RecycleThread
               ELSE UNCHANGED <<wpc, allThreads, waitingThreads, expiredThreads,
                                activeThreads, runnable>>
  /\ UNCHANGED <<current, limitVars, waiterVars, moreThreads, alive, ran, changes>>

\* QThreadPool::tryStart that returns true; returning false changes nothing.
TryStartTask(t) ==
  /\ MayOffer(t)
  /\ CanStart
  /\ Accept(t)
  /\ TryStart(t, FALSE)
  /\ UNCHANGED <<current, limitVars, waiterVars, moreThreads, alive, ran, changes>>

\* A task that is being run calls tryStart(this).
TryStartAgain(w) ==
  /\ wpc[w] = "task" /\ MayStart(current[w])
  /\ CanStart
  /\ Accept(current[w])
  /\ TryStart(current[w], FALSE)
  /\ UNCHANGED <<current, limitVars, waiterVars, moreThreads, alive, ran, changes>>

SetMaxThreadCount(limit) ==
  /\ ~moreThreads /\ changes < MaxChanges
  /\ limit # maxThreadCount
  /\ maxThreadCount' = limit
  /\ moreThreads' = TRUE
  /\ changes' = changes + 1
  /\ UNCHANGED <<threadVars, poolVars, isExiting, reservedThreads, waiterVars, ref, alive,
                 started, ran>>

ReserveThread ==
  /\ ~moreThreads /\ changes < MaxChanges /\ reservedThreads < MaxReserved
  /\ reservedThreads' = reservedThreads + 1
  /\ changes' = changes + 1
  /\ UNCHANGED <<threadVars, poolVars, isExiting, maxThreadCount, waiterVars, moreThreads,
                 ref, alive, started, ran>>

ReleaseThread ==
  /\ ~moreThreads /\ changes < MaxChanges /\ reservedThreads > -MaxReserved
  /\ reservedThreads' = reservedThreads - 1
  /\ moreThreads' = TRUE
  /\ changes' = changes + 1
  /\ UNCHANGED <<threadVars, poolVars, isExiting, maxThreadCount, waiterVars, ref, alive,
                 started, ran>>

\* Mutant of StartMore: the task that was started stays in the queue.
StartMoreAgain ==
  /\ moreThreads /\ queue # <<>> /\ CanStart
  /\ TryStart(Head(queue).task, FALSE)
  /\ UNCHANGED <<current, limitVars, waiterVars, moreThreads, alive, started, ran, changes>>

\* tryToStartMoreThreads: one round of its loop...
StartMore ==
  /\ moreThreads /\ queue # <<>> /\ CanStart
  /\ TryStart(Head(queue).task, TRUE)
  /\ UNCHANGED <<current, limitVars, waiterVars, moreThreads, alive, started, ran, changes>>

\* ... and its end.
StartMoreDone ==
  /\ moreThreads /\ (queue = <<>> \/ ~CanStart)
  /\ moreThreads' = FALSE
  /\ UNCHANGED <<threadVars, poolVars, limitVars, waiterVars, ref, alive, started, ran,
                 changes>>

-----------------------------------------------------------------------------
(* The pooled threads.                                                     *)

tooManyThreadsActive ==
  activeThreadCount > maxThreadCount /\ activeThreadCount - reservedThreads > 1

\* Mutant of RegisterInactive: the last thread does not wake those in waitForDone.
InactiveQuietly(n) == activeThreads' = n - 1 /\ cpc' = cpc

\* registerThreadInactive, with n threads active before it.
RegisterInactive(n) ==
  /\ activeThreads' = n - 1
  /\ cpc' = IF n = 1 THEN [c \in Waiters |-> IF cpc[c] = "waiting" THEN "awake" ELSE cpc[c]]
                     ELSE cpc

EndAs(w, point) == wpc' = [wpc EXCEPT ![w] = point] /\ UNCHANGED queue

\* run() of thread w goes on with the mutex locked and n threads active: it takes the
\* next task from the queue, or it is over, or it waits for work.
Continue(w, n) ==
  IF ~tooManyThreadsActive /\ queue # <<>>
    THEN /\ current' = [current EXCEPT ![w] = Head(queue).task]
         /\ queue' = Tail(queue)
         /\ wpc' = [wpc EXCEPT ![w] = "task"]
         /\ activeThreads' = n
         /\ UNCHANGED <<waitingThreads, expiredThreads, cpc>>
    ELSE /\ current' = [current EXCEPT ![w] = NoTask]
         /\ RegisterInactive(n)
         /\ CASE isExiting ->
                   EndAs(w, "ended") /\ UNCHANGED <<waitingThreads, expiredThreads>>
              [] ~isExiting /\ tooManyThreadsActive ->
                   /\ EndAs(w, "ended")
                   /\ expiredThreads' = Append(expiredThreads, w)
                   /\ UNCHANGED waitingThreads
              [] OTHER ->
                   /\ EndAs(w, "waiting")
                   /\ waitingThreads' = Append(waitingThreads, w)
                   /\ UNCHANGED expiredThreads

\* The thread begins run() with the task it was given.
RunThread(w) ==
  /\ wpc[w] = "run" /\ ~moreThreads
  /\ runnable' = [runnable EXCEPT ![w] = NoTask]
  /\ current' = [current EXCEPT ![w] = runnable[w]]
  /\ wpc' = [wpc EXCEPT ![w] = "task"]
  /\ UNCHANGED <<poolVars, limitVars, waiterVars, moreThreads, ref, alive, started, ran,
                 changes>>

\* Mutant of LastReference: every run deletes the task.
EveryReference(t) == t \in AutoDelete

\* if (autoDelete && !--r->ref)
LastReference(t) == t \in AutoDelete /\ ref[t] = 1

\* QRunnable::run returns; the last one to run a task deletes it.
FinishTask(w) ==
  LET t == current[w] IN
  /\ wpc[w] = "task" /\ ~moreThreads
  /\ ran' = [ran EXCEPT ![t] = @ + 1]
  /\ ref' = IF t \in AutoDelete THEN [ref EXCEPT ![t] = @ - 1] ELSE ref
  /\ alive' = IF LastReference(t) THEN alive \ {t} ELSE alive
  /\ Continue(w, activeThreads)
  /\ UNCHANGED <<runnable, allThreads, limitVars, timed, victims, join, waits, moreThreads,
                 started, changes>>

\* runnableReady.wait returns: there is work, or reset wants the thread to exit, or the
\* timeout was reached first.
WakeThread(w) ==
  /\ wpc[w] = "woken" \/ (wpc[w] = "waiting" /\ Expires)
  /\ ~moreThreads
  /\ IF w \in ToSet(waitingThreads)
       THEN /\ \E k \in DOMAIN waitingThreads :
              waitingThreads[k] = w /\ waitingThreads' = RemoveAt(waitingThreads, k)
            /\ expiredThreads' = Append(expiredThreads, w)
            /\ EndAs(w, "ended")
            /\ RegisterInactive(activeThreads + 1)
            /\ UNCHANGED current
       ELSE Continue(w, activeThreads + 1)
  /\ UNCHANGED <<runnable, allThreads, limitVars, timed, victims, join, waits, moreThreads,
                 ref, alive, started, ran, changes>>

\* QThreadPrivate::finish up to its signals, and after them.
Finish(w) ==
  /\ wpc[w] \in {"ended", "finishing"}
  /\ wpc' = [wpc EXCEPT ![w] = IF @ = "ended" THEN "finishing" ELSE "finished"]
  /\ UNCHANGED <<runnable, current, poolVars, limitVars, waiterVars, moreThreads, ref, alive,
                 started, ran, changes>>

-----------------------------------------------------------------------------
(* waitForDone.                                                            *)

Busy == queue # <<>> \/ activeThreads # 0

\* It waits once, or finds the pool done.
WaitForDone(c, limit) ==
  /\ cpc[c] = "idle" /\ waits[c] < MaxWaits /\ ~moreThreads
  /\ cpc' = [cpc EXCEPT ![c] = IF Busy THEN "waiting" ELSE "reset"]
  /\ timed' = [timed EXCEPT ![c] = limit]
  /\ waits' = [waits EXCEPT ![c] = @ + 1]
  /\ UNCHANGED <<threadVars, poolVars, limitVars, victims, join, moreThreads, ref, alive,
                 started, ran, changes>>

\* The wait is over, and is not begun again; with a limit, the pool is only reset when it is
\* done.
WaitOver(c) ==
  /\ cpc[c] = "awake" \/ (cpc[c] = "waiting" /\ (timed[c] \/ WakesForNothing))
  /\ ~moreThreads
  /\ cpc' = [cpc EXCEPT ![c] = IF timed[c] /\ Busy THEN "idle" ELSE "reset"]
  /\ UNCHANGED <<threadVars, poolVars, limitVars, timed, victims, join, waits, moreThreads,
                 ref, alive, started, ran, changes>>

\* Mutant of Reset: the threads are copied after they were cleared.
ResetClearsFirst(c) ==
  /\ cpc[c] = "reset" /\ ~moreThreads
  /\ isExiting' = TRUE
  /\ allThreads' = {}
  /\ victims' = [victims EXCEPT ![c] = allThreads']
  /\ cpc' = [cpc EXCEPT ![c] = "joining"]
  /\ UNCHANGED <<threadVars, waitingThreads, expiredThreads, queue, activeThreads,
                 maxThreadCount, reservedThreads, timed, join, waits, moreThreads, ref, alive,
                 started, ran, changes>>

\* reset takes all threads out of the pool...
Reset(c) ==
  /\ cpc[c] = "reset" /\ ~moreThreads
  /\ isExiting' = TRUE
  /\ victims' = [victims EXCEPT ![c] = allThreads]
  /\ allThreads' = {}
  /\ cpc' = [cpc EXCEPT ![c] = "joining"]
  /\ UNCHANGED <<threadVars, waitingThreads, expiredThreads, queue, activeThreads,
                 maxThreadCount, reservedThreads, timed, join, waits, moreThreads, ref, alive,
                 started, ran, changes>>

\* ... wakes them up one by one, without the mutex...
WakeVictim(c) ==
  /\ cpc[c] = "joining" /\ join[c] = {}
  /\ \E w \in victims[c] :
       /\ join' = [join EXCEPT ![c] = {w}]
       /\ wpc' = Signalled(w)
  /\ UNCHANGED <<runnable, current, poolVars, limitVars, cpc, timed, victims, waits,
                 moreThreads, ref, alive, started, ran, changes>>

\* ... and deletes each when its QThread::wait returns...
JoinVictim(c) ==
  /\ cpc[c] = "joining"
  /\ \E w \in join[c] :
       /\ wpc[w] = "finished"
       /\ wpc' = [wpc EXCEPT ![w] = "deleted"]
       /\ victims' = [victims EXCEPT ![c] = @ \ {w}]
  /\ join' = [join EXCEPT ![c] = {}]
  /\ UNCHANGED <<runnable, current, poolVars, limitVars, cpc, timed, waits, moreThreads, ref,
                 alive, started, ran, changes>>

\* ... and does so again with those that came meanwhile, or forgets the threads that
\* waited or expired.
ResetAgain(c) ==
  /\ cpc[c] = "joining" /\ victims[c] = {} /\ ~moreThreads
  /\ IF allThreads # {}
       THEN /\ victims' = [victims EXCEPT ![c] = allThreads]
            /\ allThreads' = {}
            /\ UNCHANGED <<waitingThreads, expiredThreads, isExiting, cpc>>
       ELSE /\ waitingThreads' = <<>> /\ expiredThreads' = <<>>
            /\ isExiting' = FALSE
            /\ cpc' = [cpc EXCEPT ![c] = "idle"]
            /\ UNCHANGED <<victims, allThreads>>
  /\ UNCHANGED <<threadVars, queue, activeThreads, maxThreadCount, reservedThreads, timed,
                 join, waits, moreThreads, ref, alive, started, ran, changes>>

Worker(w) == RunThread(w) \/ FinishTask(w) \/ WakeThread(w) \/ Finish(w)
Waiter(c) == WaitOver(c) \/ Reset(c) \/ WakeVictim(c) \/ JoinVictim(c) \/ ResetAgain(c)
MoreThreads == StartMore \/ StartMoreDone

\* What the application decides.
Application ==
  \/ \E t \in Tasks, priority \in Priorities : StartTask(t, priority)
  \/ \E t \in Tasks : TryStartTask(t)
  \/ \E w \in Workers : TryStartAgain(w)
  \/ \E limit \in Limits : SetMaxThreadCount(limit)
  \/ ReserveThread \/ ReleaseThread
  \/ \E c \in Waiters, limit \in BOOLEAN : WaitForDone(c, limit)

Next ==
  \/ Application \/ MoreThreads
  \/ \E w \in Workers : Worker(w)
  \/ \E c \in Waiters : Waiter(c)

Spec == Init /\ [][Next]_vars

\* Threads are scheduled and get the mutex again and again, and every task returns.
Fairness ==
  /\ WF_vars(MoreThreads)
  /\ \A w \in Workers : WF_vars(Worker(w))
  /\ \A c \in Waiters : WF_vars(Waiter(c))

FairSpec == Spec /\ Fairness

-----------------------------------------------------------------------------
(* Properties.                                                             *)

TypeOK ==
  /\ allThreads \subseteq Workers
  /\ waitingThreads \in Seq(Workers) /\ expiredThreads \in Seq(Workers)
  /\ queue \in Seq([task : Tasks, priority : Priorities \cup {0}])
  /\ isExiting \in BOOLEAN /\ maxThreadCount \in Limits /\ reservedThreads \in Int
  /\ activeThreads \in 0..Cardinality(Workers) /\ moreThreads \in BOOLEAN
  /\ wpc \in [Workers -> WorkerPoints]
  /\ runnable \in [Workers -> Tasks \cup {NoTask}]
  /\ current \in [Workers -> Tasks \cup {NoTask}]
  /\ ref \in [Tasks -> Nat] /\ alive \subseteq Tasks
  /\ cpc \in [Waiters -> WaiterPoints] /\ timed \in [Waiters -> BOOLEAN]
  /\ victims \in [Waiters -> SUBSET Workers] /\ join \in [Waiters -> SUBSET Workers]
  /\ started \in [Tasks -> Nat] /\ ran \in [Tasks -> Nat]
  /\ changes \in Nat /\ waits \in [Waiters -> Nat]

\* Where a task is held to be run.
Held(t) == Cardinality({k \in DOMAIN queue : queue[k].task = t})
           + Cardinality({w \in Workers : runnable[w] = t})
           + Cardinality({w \in Workers : current[w] = t})

\* A task that was accepted n times is run n times: neither the queue, nor the way
\* through a recycled or restarted thread, nor tryToStartMoreThreads, which puts the task
\* into the queue and takes it out again, loses it or has it run twice.
EachStartRunsOnce == \A t \in Tasks : started[t] = ran[t] + Held(t)

\* autoDelete never deletes a task that is still to be run, or is being run by another
\* thread.
NoTaskDeletedEarly == \A t \in Tasks : Held(t) > 0 => t \in alive

\* A task with autoDelete is gone once it was run as often as it was accepted
\* (qthreadpool.cpp:300, "QThreadPool deletes the QRunnable automatically by default").
DeletedWhenDone ==
  \A t \in AutoDelete : started[t] > 0 /\ Held(t) = 0 => t \notin alive

\* A queued task has a thread that will look at the queue when it is done with what it
\* does now.
QueueHasWorker ==
  queue # <<>> /\ ~moreThreads => \E w \in Workers : wpc[w] \in {"run", "task", "woken"}

\* A task handed to a thread is run by it: the thread has been started
\* (qthreadpool.cpp:429, "Such threads will be restarted as needed").
RunnableHasThread == \A w \in Workers : runnable[w] # NoTask => wpc[w] = "run"

\* A pooled thread is not handed a task after it was deleted.
NoDeletedThreadUsed == \A w \in Workers : wpc[w] = "deleted" => runnable[w] = NoTask

\* When waitForDone() has reset the pool, everything was run and every pooled thread is
\* gone.
DoneIsDone ==
  [][\A c \in Waiters : cpc[c] = "joining" /\ cpc'[c] = "idle"
       => /\ \A t \in Tasks : Held(t) = 0
          /\ \A w \in Workers : wpc[w] \in {"new", "deleted"}]_vars

\* Every accepted task is run in the end.
EveryStartIsRun == \A t \in Tasks : Held(t) > 0 ~> Held(t) = 0

\* waitForDone returns: no worker sleeps through the reset, no reset waits for a thread
\* that was not told.
WaitForDoneReturns == \A c \in Waiters : cpc[c] # "idle" ~> cpc[c] = "idle"
=============================================================================
