# Katie: a verification project

Katie is a fork of Qt 4.8 (C++). These TLA+ modules model the part of it whose correctness
depends on interleavings: how threads sleep and are woken up, how posted events, timers and
sockets wait and are delivered, how pooled and plain threads live and end, how objects of
several threads stay connected while they come and go, and how shared objects are counted. TLC checks the modules on small instances and TLAPS proves
the main properties of the event loop for instances of any size.

All paths below are relative to the repository; the library itself is under `src/src/`.

## 1. The system

| Component | State it keeps | Operations | Hard because |
|---|---|---|---|
| Event loop and wake-up (`qeventloop`, `qeventdispatcher_unix`, `qthread.cpp`) | the stack of loops, their exit flags, `quitNow`, `interrupt`, `wakeUps`, the self-pipe, `canWait` | `exec`, `exit`, `processEvents`, `wakeUp`, `interrupt` | flags written by other threads without a lock, a thread that decides to sleep while others post |
| Posted events (`qcoreapplication`, `qthread_p.h`) | one list per thread with three offsets, counters per object and per thread | `postEvent`, `sendPostedEvents`, `removePostedEvents`, `deleteLater` | handlers nest calls that change the list under the outer call |
| Thread pool (`qthreadpool`) | the queue, sets of all, waiting and expired threads, counters | `start`, `tryStart`, `reserveThread`, `releaseThread`, `setMaxThreadCount`, `waitForDone` | recycled, expired and restarted threads, a reset that unlocks |
| Threads (`qthread`, `qthread_unix`) | `running`, `finished`, `isInFinish`, `thread_id`, the reference count of the thread's data | `start`, `wait`, `terminate`, `exit`, the destructor | restart during `finish()`, cancellation, spurious wake-ups |
| Mutexes, wait conditions, semaphores (`qmutex`, `qwaitcondition_unix`, `qsemaphore`) | the number of resources, two mutexes, the waiters | `acquire`, `tryAcquire`, `release`, `wait`, `wakeAll` | a release between test and sleep, time limits, wake-ups for no reason, destruction by the thread that was woken |
| Signals and slots (`qobject`, `qorderedmutexlocker_p.h`) | per signal a list of connections, per receiver a list of senders, `inUse`, `dirty`, `orphaned`, the current sender | `connect`, `disconnect`, `activate`, `~QObject` | two mutexes at a time, slots that change the list being walked |
| Timers (the timer list of the dispatcher, `qobject`) | a list sorted by time-out, `firstTimerInfo`, `activateRef`, identifiers | register, unregister, wait, activate | handlers that kill timers, delete their owners and run nested loops; timers that expire all the time |
| Socket notifiers (`qsocketnotifier`, the dispatcher) | three lists by descriptor, the descriptor sets, the pending list | register, unregister, select, activate | slots that unregister what is pending, descriptors closed under a notifier |
| Shared pointers (`qsharedpointer`, `qobject`) | per block a strong and a weak count, per `QObject` its block | copy, convert, clear, `getAndRef`, `~QObject` | a weak pointer is converted while the last owner goes; two threads make the first weak pointer |
| Item models, containers, I/O, network, D-Bus, GUI, declarative, script, XML, SVG, tools | - | - | mostly sequential: many cases, little protocol |

How they meet: `QThread` creates the dispatcher and runs `QEventLoop`; `postEvent`, queued
signals and `deleteLater` put events into the list of the receiver's thread and wake its
dispatcher; `QThreadPool` builds on `QThread` and `QRunnable`; `~QObject` removes events,
connections and, through the current sender, informs emissions in progress. Threads share
the lists (each under its mutex), the flags above and the objects themselves.

What makes each correct, in a sentence: a thread never sleeps on work or on an exit request;
an event is sent or removed exactly once, in order, to a living object; an accepted task is
run exactly once per acceptance and `waitForDone` returns when all is done; a `QThread` has
one OS thread at a time and whoever waits for it is told; an emission visits the connections
that were there, and nothing that was freed; a timer that expired and a socket that is ready
are delivered whatever the others do; what is owned is alive, and what nobody owns is
deleted; resources are handed out once, and to somebody as long as there are enough.

`PROJECT.json` lists every component with what is not modelled, and the hazards with the
properties that are aimed at them.

## 2. The modules

| Module | Models | Lines that matter |
|---|---|---|
| `EventLoop` | `QThread::exec/exit`, `QEventLoop::exec/exit/processEvents`, the dispatcher and its pipe, `postEvent`'s wake-up | `qthread.cpp:446-498`, `qeventloop.cpp:144-259`, `qeventdispatcher_unix.cpp:68-165, 688-780` |
| `EventLoopProofs` | theorems about `EventLoop` | |
| `PostEventList` | the list of posted events, nested `sendPostedEvents`, `removePostedEvents`, `deleteLater` | `qcoreapplication.cpp:789-1098`, `qthread_p.h:72-104` |
| `PostEventListProofs` | the theorems about `PostEventList` | |
| `ThreadPool` | all of `QThreadPool` | `qthreadpool.cpp` |
| `ThreadPoolProofs` | the theorems about `ThreadPool` | |
| `ThreadLife` | `QThread` from `start` to destruction | `qthread_unix.cpp:131-379`, `qthread.cpp:356-369` |
| `ThreadLifeProofs` | the theorems about `ThreadLife` | |
| `TimerList` | `QTimerInfoList`: the sorted list, re-arming, identifiers | `qeventdispatcher_unix.cpp:172-447`, `qabstracteventdispatcher.cpp:59-82` |
| `SocketNotifiers` | the lists of notifiers, the descriptor sets, the pending list | `qeventdispatcher_unix.cpp:75-122, 553-709` |
| `UnixDispatcher` | both, composed: `processEvents` and what slots and handlers do to it | `qeventdispatcher_unix.cpp:68-139, 394-459, 688-751`, `qobject.cpp:1213-1245` |
| `Sublists` | a list without some of its elements, for both | |
| `UnixDispatcherProofs` | the theorems about `UnixDispatcher` | |
| `SharedPointer` | the two counters of `QSharedPointer` and `QWeakPointer` | `qsharedpointer.h:225-603`, `qsharedpointer.cpp:1177-1212`, `qobject.cpp:559-576` |
| `Ownership` | what `QSharedPointer` promises; `SharedPointer` implements it | |
| `SharedPointerProofs` | the theorems about `SharedPointer` | |
| `Semaphore` | `QSemaphore` on `QMutex` and `QWaitCondition` | `qsemaphore.cpp:79-208`, `qwaitcondition_unix.cpp:32-82`, `qmutex.h:40-87` |
| `CountingSemaphore` | what `QSemaphore` promises; `Semaphore` implements it | |
| `SemaphoreProofs` | the theorems about `Semaphore` | |
| `SignalSlot` | `connect`, `disconnect`, `activate`, `~QObject`, the ordered mutexes | `qobject.cpp:129-259, 559-667, 1938-2037, 2189-2268, 2468-2891`, `qobject_p.h:212-230`, `qorderedmutexlocker_p.h` |
| `SignalSlotInvariants` | the parts of its inductive invariant and of what steps do to them | |
| `SignalSlotProofs` | the theorems about `SignalSlot` | |
| `MC...` | instances: symmetry sets, where objects live, the order of mutexes; `ThreadLife` and `SharedPointer` need none | |

Each module is one state machine; an action is one critical section, or the code between
two accesses to state that another thread can touch. Where the code holds a mutex over
several rounds of a loop (`sendPostedEvents`, `tryToStartMoreThreads`) the rounds are
actions and a variable keeps the others out. Program points are strings in `lpc`, `cpc`,
`os`, `wpc`, or the `at` field of a stack frame; `map` in `PROJECT.json` gives the lines of
every definition. Definitions named *Mutant of X* are deliberate mistakes: put in the place
of X they break the property they were written for.

### EventLoop
The loop thread goes through the program points of `exec` and `processEvents`. `queue` and
`quota` stand for the list and the part of it the running `sendPostedEvents` may send.
`wakeUps`, `pipe` and `interrupt` are the dispatcher's; the pipe holds a number of bytes,
and that it never holds two is a property, not an assumption. Other threads, and the handlers
of the loop thread, post and call `QThread::exit`, whose walk over the loops keeps
`QThreadPrivate::mutex` (`mutex`, `target`). A handler may run a nested `QEventLoop`. Timers
and sockets are one bit (`OtherSources`): something else may end `select()`.

### PostEventList
The stack has a frame for each `exec`, `processEvents` and `sendPostedEvents` in progress.
`recursion`, `startOffset`, `insertionOffset`, `canWait` and `postedEvents` are the code's.
`serial` and `owed` are history: what was posted and is neither sent nor removed. The
dispatcher is one flag (`wake`); `EventLoop` has the protocol behind it, with a list of one
priority. So the two modules overlap in `sendPostedEvents`: one has the threads, the other
the nesting and the order. `program` is what the handlers of a behaviour call: a program
with nested loops, removals and deletions, or one that calls `sendPostedEvents` and
`processEvents`; it never changes. `PriorityOrder` and `SleepsWithNothingToSend` are about
the programs for which they can hold; section 5 has the others.

### ThreadPool
A step is a critical section of the pool's mutex, or the end of a task or of a pooled
`QThread`. `wpc` tells where each pooled thread is; it distinguishes "ended" (`run()` has
returned), "finishing" (`isInFinish`) and "finished", because `QThread::start` behaves
differently in each. A wake-up of `runnableReady` for no reason looks like an expiry to the
code and is covered by it; with `WakesForNothing` the wait for `noActiveThreads` ends for no
reason too. Who calls `start` is not modelled, who is in `waitForDone` is; without `StartAnyTime`
tasks are started while a thread is in `waitForDone` only as long as a task runs, which may be
the one that starts them.

### ThreadLife
Controllers are the threads that use a `QThread`; each effective `start()` makes an OS
thread with its own program counter. `pthread_cancel` and spurious wake-ups are modelled
from how the code uses them. `ref` is `QThreadData`'s reference count. A controller destroys
the object only when it is not running or in `finish()` and nobody else uses it, as the
documentation demands (the code only warns otherwise). `run()` is the application's: it may
return at any time, or never.

### SignalSlot
A stack of frames per thread: `connect`, `disconnect`, `emit`, `destroy`, with the mutexes
held in `owner` and the re-locking of `QOrderedMutexLocker` as separate steps. The list of
connections is a sequence of numbers of connections, in order of creation; `inUse`, `dirty`
and "orphaned" are those of `QObjectConnectionListVector`; `currentSender` and `ref` the
protocol of `QObjectPrivate::Sender`. The caller's obligation is assumed: an object is
destroyed in its thread while no other thread's call needs it. Methods, arguments, children
and `moveToThread` are left out.

### TimerList, SocketNotifiers, UnixDispatcher
`UnixDispatcher` composes the other two: a stack of calls of `processEvents`, each with its
place in `doSelect`, `activateSocketNotifiers` or `activateTimers` and the local variables
that outlive a handler (`cur`, `time`, `left` for `currentTimerInfo`, `currentTime`,
`maxCount`). Handlers start and kill timers, destroy their owners, enable, disable, close and
read sockets and call `processEvents` again. A timer is its identifier; time is a small
number that may advance at any step. `select()` is external, with what the code relies on: it
returns when something is ready or its time is over, or fails when a descriptor was closed. The descriptor sets are modelled by the notifiers they were built from
(`watched`), so that leaving one out is visible. The wake-up pipe is `EventLoop`'s.

### SharedPointer, Ownership
One action is one atomic operation on a block (`ref`, `deref`, `testAndSet`), or the steps
around it that touch nothing shared. Blocks are allocated and freed, `strongref` and
`weakref` are the code's, -1 included. Two threads own pointers (`user`) and may hand them
over. `Ownership` has no counters: an owner takes part in what somebody owns, drops it, and
what nobody owns is deleted in the end. The refinement counts a thread in the middle of a
call as an owner (`InHand`).

### Semaphore, CountingSemaphore
One action is one lock, unlock or change under a lock: `QSemaphorePrivate::mutex` and
`QWaitConditionPrivate::mutex` are both in the model, because the first is let go of while the
second is held. The condition variable may wake a thread for no reason. The semaphore may be
destroyed by the thread that acquired all there was, as the sender of a blocking queued signal
does with the one on its stack. `CountingSemaphore` hands resources out in single steps;
`Semaphore` implements it, liveness included; `SemaphoreProofs` proves the steps.

## 3. The runs

Twelve runs, one per question; `PROJECT.json` has their exact lists of properties. Bounds
are small because each of these protocols already needs all its parts to go wrong: two
threads beside the loop thread, two levels of nesting, one thread more than the limit. All
runs switch the deadlock check off: the calls of the application are bounded, and a thread
with nothing to do is meant to sleep.

| Run | Instance | What it shows |
|---|---|---|
| `event_loop_nested` | loop thread, 2 others, a post and an exit each, handlers that post, exit and run a nested loop (1.3 million states) | no posted event is slept on, the wake-up token is in one place, `exit` tells every loop |
| `event_loop_live` | 1 other thread, 2 posts and an exit per thread, 2 calls of `exec`, no nesting, fair (73 000) | no exit is slept on, posted events are sent, `exit` makes `exec` return |
| `post_list` | 3 events, 2 priorities, 2 objects, another thread that posts and removes; handlers with nested event loops, removals and deletions, or with `sendPostedEvents` for one object or type and `processEvents` (3.6 million) | each event is sent or removed once, equal priorities stay in order, higher ones come first, deferred deletes wait for their loop and do not get stuck, no event for a dead object |
| `pool_tasks` | 3 pooled threads, limits 1 and 2 and changing, expiry, reservation, a `waitForDone` at any time, waits that end for no reason (519 000) | an accepted task is held or was run, exactly once per acceptance, and not deleted before |
| `pool_done` | limit 2, 4 pooled threads in sequence, 3 tasks that may start themselves and each other, two `waitForDone`, fair (231 000) | every task is run, `waitForDone` returns and then everything is done |
| `thread_life` | 2 controllers, 2 OS threads, 2 terminations, a posted event, a `run()` that need not return, fair (285 000) | one OS thread at a time, none after destruction, `wait()` means finished, the thread's data are counted, `start()` and the destructor outlast `finish()`, `terminate` wakes who waits for a `run()` without end |
| `signal_nested` | one thread, 2 objects, 3 connections, 3 calls deep (1.8 million) | nothing freed is used, a vector lives exactly as long as it is needed, current senders are valid, emissions are complete |
| `signal_threads` | 2 threads, 3 objects with mutexes below and above each other's, of which two send, one by blocking connections, and all receive, 2 connections (815 000) | both lists of a connection agree, no lock cycle, nothing changes under another thread's mutex |
| `unix_dispatcher` | 2 timers of intervals 0 and 1, 2 objects, 2 notifiers of different types and descriptors, 2 calls of `processEvents` within each other, 3 calls by handlers, fair (752 000) | no pointer is left behind, no timer recurses, the thread sleeps until the next timer and watches every notifier, nothing starves |
| `shared_pointer` | 2 threads, 2 strong and 2 weak pointers, a `QObject` owned by pointers and one deleted by hand, 3 blocks, fair (901 000) | what is owned is alive, freed counters are not touched, nothing is left behind; the counters implement `Ownership` |
| `semaphore` | 3 threads, 3 calls of 1 or 2 resources, with no limit, no wait or a timeout, a wake-up for no reason, fair (355 000) | no release is missed, a destroyed semaphore is not used, locks and waits implement `CountingSemaphore` |
| `pool_restart_expired` | violation, see section 5 | `RunnableHasThread` |

The remaining bounds are named by the constants `Max...` of the modules and only limit how
often the application calls something.

`event_loop_nested` allows nesting and therefore does not check `NoLostExit`, which is false
there (section 5); `event_loop_live` and the theorem have loops that are not nested. `pool_done` keeps
threads from starting tasks during `waitForDone` unless a task runs, threads from expiring and
the wait for `noActiveThreads` from ending for no reason, because
the properties are false otherwise; `pool_tasks` has all three.
`thread_life` allows `terminate` to hit `finish()`; what must happen then may fail, which its
two liveness properties except (`CutOff`). `TerminateWakesWaiters` also excepts a waiter that finds the QThread
started again when it gets the mutex: it is kept by the new run, which need not return. Both exceptions
are departures (section 5). What it shows holds because of the cleanup handler alone: `run()` has no
fairness, and without the handler nobody wakes the waiter. `Program`s of `post_list`
are alternatives, chosen at the start. The clock of `unix_dispatcher` ends at `MaxTime`: a timer of
interval 0 expires for ever, one of interval 1 for two rounds, enough for either to starve
the other. Three blocks are as many as two objects and a race for the second one's can use.

### Fairness
Only steps inside a call are fair: the loop thread and the calls of other threads in
`EventLoop`, the pooled threads, `tryToStartMoreThreads` and `waitForDone` in `ThreadPool`,
the OS threads and waiters in `ThreadLife`, the handlers and
`processEvents` in `UnixDispatcher`, the calls in `SharedPointer` and `Semaphore`. That is the operating system running every
thread and giving out mutexes in the end, which the code relies on, and it is weak fairness per
thread; where a mutex could be taken again and again by others, the bounds on their calls end
that. Application calls (`post`, `exit`, `start`, `terminate`, `waitForDone`) are not fair,
except that handlers and tasks return. `run()` need not: `Library` is what an OS thread does but for returning
from it, and of a `run()` that is cancelled it is only assumed that it comes to a cancellation point. `SignalSlot` and
`PostEventList` state no liveness.

## 4. The proofs

`EventLoopProofs` proves, for any number of threads, posts, exits and execs and any nesting,

- `TypeCorrect`: `Spec => []TypeOK`;
- `WakeUpTokenSafe`: `Spec => []OneWakeUpToken`: the pipe holds at most one byte and the
  failing branch in `processThreadWakeUp` is dead code;
- `NoWakeUpIsLost`: `Spec => []NoLostWakeup`;
- `ExitTellsAllLoops`: `Spec => []AllLoopsTold`;
- `NoExitIsLost`: `Spec => []NoLostExit` assuming `MaxDepth = 1`, which is needed.

They follow from `Invariance: Spec => []IInv`. The conjuncts of `IInv` and why they are there:

- `OneWakeUpToken` is inductive together with the types: `wakeUps` is 1 exactly while a byte is
  on its way into the pipe, in it, or read and not given back;
- `Control` says which control states are inside a loop and that the dispatcher then exists;
- `NothingLeft` ties `canWait`, read by the thread that goes to sleep, to the list: while it
  is set, nothing is in the list that the running `sendPostedEvents` would not send;
- `WakeUpOnTheWay` extends `NoLostWakeup` from sleeping to *going to sleep*: from the reading
  of `canWait` on, an event in the list has a poster that has not yet written or a byte in
  the pipe;
- `Telling` says how far an `exit` in progress has come: the loops it has passed are told.

`NoExitIsLost` adds `Shallow` (one loop) and `ExitSignalled` (a told loop on its way to
`select()` has a byte waiting or coming). Each part has a lemma that every action preserves
it, one step per action. The only assumption is `EventLoopAssumption`, on the constants.

`SemaphoreProofs` proves, for any number of threads, calls, amounts and timeouts and any number
of wake-ups for no reason,

- `NoReleaseIsMissed`: `Spec => []NoLostWakeup`;
- `DestructionIsSafe`: `Spec => []DestroyedQuietly`, assuming that no call releases nothing
  (`0 \notin Amounts`): a `release(0)` adds nothing that would keep the last taker from
  destroying the semaphore under it;
- `StepsAreCounting`: every step of `Semaphore` is one of `CountingSemaphore` or changes nothing
  there, under the same refinement mapping that the run `semaphore` uses. This is the safety part of
  `ImplementsCounting`; that the fair steps are taken stays with TLC.

They follow from `Invariance: Spec => []IInv`, whose conjuncts are `TypeOK`; `LocksHeld`, which
says at which steps a thread holds `QSemaphorePrivate::mutex` and at which the condition's; `MayWait`,
that `tryAcquire(n)` never waits and the waits of `acquire` do not time out, without which a
refusal could not be explained in `CountingSemaphore`; and `NoLostWakeup` itself, which is
inductive with the other two: the release that would invalidate it cannot take the condition's
mutex between a test and the sleep. `DestructionIsSafe` adds `Released`: what a release has
added is still in `avail` while it holds the mutex, so that nobody finds 0 there. The only
assumption besides is `SemaphoreAssumption`, on the constants.

`ThreadLifeProofs` proves, for any number of controllers, OS threads, terminations and posts,

- `OneThreadOnly`: `Spec => []OneThread`: however `start`, `finish`, `terminate` and the
  destructor overlap, a `QThread` has one OS thread that executes `run()` or `finish()`;
- `DataIsCounted`: `Spec => []DataOutlivesUsers`: the reference count of `QThreadData` is the
  number of its users, so that the last one and nobody before deletes it;
- `WaitIsOver`: `Spec => WaitMeansFinished`, an action property.

`IInv` is `TypeOK`, `DataOutlivesUsers` and three parts: `Numbered` (the OS threads that exist
are 1 to `runs`: the next one is new); `OneRun` (an OS thread between its creation and the end of
`finish()` is the one in `threadId`, and the dispatcher is its own), without which `OneThread` says
nothing about the start that comes next; and `Users` (a call in progress keeps the object there, a
destructor that waits is alone), without which a destroyed `QThread` could be started.

`ThreadPoolProofs` proves, for any number of pooled threads, tasks, callers of `waitForDone` and
limits that change at any time,

- `StartsRunOnce`: `Spec => []EachStartRunsOnce`: each accepted `start` is held in one place or
  was run, once;
- `TasksStay`: `Spec => []NoTaskDeletedEarly`;
- `ActiveAreCounted`: `activeThreads` is the number of threads with a task in their hands, which is
  what `waitForDone` waits for;
- `ExpiredAreFree`: the `Q_ASSERT` of `tryStart` (`qthreadpool.cpp:173`);
- `DoneWhenAlone`: `OneCaller => (Spec => DoneIsDone)`: when `waitForDone` has reset the pool, every
  accepted task was run and every pooled thread deleted;
- `DeletedUnlessStartedAgain`: `Spec /\ [][~StartMore]_vars => []DeletedWhenDone`;
- `NoTaskLostAlone`: `OneCaller => (Spec => [](RunnableHasThread /\ NoDeletedThreadUsed))`;
- `QueueIsServed`: with no `waitForDone`, no reserved thread and limits above zero,
  `Spec /\ []RunnableHasThread => []QueueHasWorker`;
- `QueueIsServedAlone`: `OneCaller` and a limit above zero, `Spec => []QueueHasWorker`;
- `TypeCorrect`: `Spec => []TypeOK`: `activeThreads` and `ref` never fall below zero.

`IInv` is `TypeOK`, `EachStartRunsOnce` and: `Hands` (when a thread has a task, or was started with one
that it never runs because it had already ended); `Expired` (an expired thread is listed once, has left its loop
and has no task: otherwise a restart would overwrite one); `ActiveCounted`; and `References` (`ref` is at
least the number of places that hold a task with `autoDelete`; at least and not exactly, because
a queued task is counted twice, section 5). The assumption
`ThreadPoolAssumption` has the set of pooled threads finite, since they are counted.

`DoneWhenAlone` needs `OneCaller`: one thread calls `waitForDone`, its wait does not end for no reason, tasks are
started meanwhile only while one runs, no thread expires, the limit and the reserved threads stay. `Orderly` is invariant
beside `IInv` then: `Limited` (never more threads than the limit, or than the one that is always
allowed, so `tooManyThreadsActive` never sends one to sleep); `Sleepers` (a thread listed in `waitingThreads` is
waiting, and listed once, until the reset wakes it); `Drained` (who was woken by `noActiveThreads`
finds an empty queue and no active thread, for good: a running task that starts another is
active itself, and a thread takes from the queue before it stops being active); and `Known` (a thread that was made is in `allThreads`, in the copy
of the reset, or deleted). Each hypothesis is needed: with a second waiter, with a wait that ends for no reason, with starts at any time
meanwhile, with threads that expire, with a limit that changes or a thread that is reserved, TLC
refutes `DoneIsDone` on three threads, in the case of expiry by the task handed to a thread that had already ended (section 5).

The four theorems after it say how far the departures of section 5 reach: the properties are refuted
by an instance there, and hold for every instance that leaves out one thing. `Exact` (`ref` is exactly
the number of runs still to come) shows that the second count in `tryToStartMoreThreads` is the
only way to leak a task. `NoneExpired` (outside a reset no thread is expired) shows that a task is lost only to an expired
thread, or to one the reset woke. And `Served` shows that such a lost task is the only way to strand the queue while nobody waits for the pool: `Placed`
(every thread made is at work, or listed as waiting or as expired) bounds `activeThreadCount()` by
the number of threads at work, so a `start` that is refused leaves one that will look at the queue, and a
thread that finds too many active leaves another. The limit has to be above zero, no thread reserved
(`ThreadPoolZeroLimit.cfg`; a reserved thread counts as active and does no work). `QueueIsServed` allows expiry
and changing limits, and takes `RunnableHasThread` as its hypothesis because the code does break it; TLC
explored the instances that keep it, so it excludes no more than the restart too early.
`QueueIsServedAlone` needs no such hypothesis, and goes through resets by `BackFromReset` and `NothingLeft`.

`SharedPointerProofs` proves, for any number of threads, pointers, objects and blocks,

- `CountersAreThere`: `Spec => []CountersOutliveUsers`;
- `CountersAgree`: `Spec => []CountsAgree`;
- `OwnedStaysAlive`: `Spec => []OwnedIsAlive`;
- `FreedUnlessRaceLost`: `Spec /\ [][~PublishLost]_vars => []FreedUnreferenced`: the race in `getAndRef`
  of section 5 is the only way the assertion of `~ExternalRefCountData` fails;
- `ImplementsOwnershipSafely`: every step of `SharedPointer` is one of `Ownership` or changes nothing
  there, and the initial states are initial states of it: the safety part of `ImplementsOwnership`.

The runs state the counts between calls; the inductive invariant has to state them in the middle of
every call of every thread. `StrongCounted` and `WeakCounted` say that `strongref` and `weakref` are the
numbers of owners and keepers, where a thread is one from the atomic increment to the assignment to the
pointer, and from the swap to the decrement. `Arguments` and `Uses` say whose pointers a call works on,
`Deletes` that who deletes an object does so alone, `Targets` that an object has one block and a block one
object. `CountedAssumption` says that what is counted together is kept apart and is finite.

`PostEventListProofs` proves, for any number of objects, events, priorities and threads that post,
and for handlers nested to any depth,

- `EventsAreKept`: `Spec => []NothingLostOrDoubled`;
- `CountersAreRight`: `Spec => []NoEventToDeleted`;
- `PostingOrderIsKept`: `Spec => []EqualPriorityInOrder`;
- `ListIsSorted`: `Spec => []PriorityOrder`;
- `DeletesWait`: `Spec => []DeferredDeleteWaits`;
- `SleepsWhenAllIsSent`: `Spec => []SleepsWithNothingToSend`;
- `TypeCorrect`: `Spec => []TypeOK`, with the two assertions on `startOffset`.

The invariant has two halves. `ListInv` is about the list alone: everything before `startOffset` is
null (otherwise erasing it would lose an event), `startOffset` is not behind `insertionOffset`, the
part of the list behind `insertionOffset`, which `qUpperBound` searches, is sorted, and the counters are those
of the events. `StackInv`, `Whole`, `Delivered` and `Asked` are about the calls in progress: `recursion`
and `loopLevel` are their numbers, so that nobody erases while a call holds a place; `startOffset` is
not 0 only during a call for everything; without calls for one object `insertionOffset` goes
back to 0, which is what `ListIsSorted` rests on; what is being delivered has left the list; and a
delete whose asker is running has a level between 1 and the level of that handler, which
`AllowDeferredDelete` then refuses. Lemmas on lists (what inserting, nulling and erasing do to the events
and to the order) carry the first half, and a classification of the steps (a call, a return, a
change of the innermost frame, none of them) the second. `MCPostEventList` checks instances of at most a few
frames and three events; nothing in the proof depends on `MaxEvents` or on the depth.

`SleepsWhenAllIsSent` needs to know what each call in progress has left behind, so `Asleep` says it for
handlers that run event loops, post, remove and delete but neither send nor process events themselves.
`Steady`: the calls then stand `exec`, `processEvents`, `sendPostedEvents` for everything, over and over.
`Exits`: an innermost loop that was told to exit has interrupted the dispatcher. `Served`: unless a wake-up is
pending (`canWait` is false), every event that could be sent now lies in front of the insertion point of the call
that is sending, and between two calls there is none. The hypothesis is not for convenience: with a handler that
calls `sendPostedEvents` or `processEvents` TLC finds a deferred delete that the inner call put back, that the
outer one never looks at and that the thread sleeps over (`PostEventListSleep.cfg`, section 5).

`SignalSlotProofs`, with the definitions of `SignalSlotInvariants`, proves, for any number of threads, objects, mutexes in any order, connections and
calls of slots within each other,

- `ListsStandTogether`: `Spec => []ListsAgree`;
- `LocksAreOrdered`: `Spec => []NoLockCycle`;
- `ChangesAreLocked`: `Spec => ChangedUnderLock`, an action property;
- `TypeCorrect`: `Spec => []TypeOK`;
- `WalksAreValid`: `Spec => []ConnectionsValid`;
- `SendersAreFound`: `Spec => []SenderPointersValid`;
- `EmissionsVisitAll`: `Spec => []EmissionComplete`.

`IInv` says four things. `Sent` and `Received`: a list of an object has, in the order they were made,
the connections that were made for it and are not freed, and the list of its senders those that are
not broken, once. `Joined`: an unbroken connection is not freed and its ends exist. `Locked`: which mutex
a thread holds, by the program point of its innermost call (`Holds`), and no other. `Called`: what a call
relies on (`Sane`): that a mutex it waits for while it holds another was relocked in order (`Relocks`);
that a walk is at a connection of its own object; how far a destructor has come (`Destroys`), namely
that the lists it is through with stay empty and a sender it has left does not come back while
`relock` has its mutex unlocked; and that an object that is destroyed is needed by no other thread
(`Alone`), and by no second destructor. `NoLockCycle` follows from `Locked` and `Relocks`: who waits with a mutex held
waits for a higher one, and in a finite set of threads one holds the highest. That is where
`SignalSlotAssumption` needs the set of threads to be finite. `Alone` is the obligation of the caller, which the guard of `Destroy` assumes.

`VInv`, for `TypeCorrect` and `WalksAreValid`, adds `Vectors`: `inUse` of an object is the number of the calls, at any depth
of any thread, that walk its vector (`Users`); whoever walks one has it in front of him, used or
orphaned, and is at a connection of that object that is freed only if the vector is orphaned or its
destructor is past its own lists (`FrameOk`); an orphaned vector has a user, so it is not deleted under
one (`VectorOk`). The count is what keeps a connection: `cleanConnectionLists` frees only at zero. Each
step is proved by the one frame it changes (`Moves`), which gives the change of `Users` and so, with the
theorems on cardinalities, that of the count.

`Chained`, for `SendersAreFound`, is about the emissions on the stack of a thread that call slots of one
object. `previous` leads from each to the next one further out, and `ref` is 1 in all but the innermost
(`ChainedAt`); `currentSender` is the innermost, or null if there is none that has not been told that the
object is destroyed (`Pointed`). `~QObject` clears the `ref` of the innermost only. The others learn of it
because `resetCurrentSender` hands its `ref` on to the one it returns to; that no slot of the object can begin
in between is `EndsInFront`: its destructor is in the foreground of the thread the slots run in.

`Complete`, for `EmissionsVisitAll`, extends what `EmissionComplete` says of the emission that holds the
mutex to every emission of every stack, those that wait for a slot or for another thread included. Such
an emission stands in its list (`Visiting`), not behind the connection that was last when it began with
the list, and has seen every one before it that is not broken; it has seen the one it is at if it is
activating it (`Done`). That stays true because a list loses nothing while a call walks it, the count of `VInv`
being above zero, and gets new connections only at its end (`Grown`), and because a list is in the order of the numbers
of its connections, so the next one in it is the next one to visit (`FollowsIs`). `~QObject` is the
exception: it takes its lists apart whoever walks them. `CompleteAt` promises nothing from then on,
and need not: by `Alone` every emission of the object is then calling a slot, and finds the vector
orphaned when that returns.

`UnixDispatcherProofs` proves, for any number of timers, objects and notifiers, any intervals, any
descriptors and any depth of nested calls,

- `PointersStayValid`: `Spec => []PointersValid`;
- `TimersWakeUp`: `Spec => []SleepsUntilNextTimer`;
- `NotifiersAgree`: `Spec => []WatchesEveryNotifier`.

None of the three is inductive. `SleepsUntilNextTimer` says that `timerWait` found the earliest timer,
and the code takes the first in the list that nobody delivers; so `Ordered` says that the list stays
sorted by timeout, with each timer once, through `timerInsert`, `unregisterTimers` and re-arming.
`WatchesEveryNotifier` has the highest descriptor, which `unregisterSocketNotifier` reads off the heads
of the lists; so `Listed` says that these fall from high to low, have each notifier once and only
those of their type. For `PointersValid`, `Linked` says that a call and the timer it delivers point to
each other, and that every call but the innermost is in user code: when `activateTimers` sends a timer that no
call has, no frame further out can have it either, and when a handler kills one, resetting its `activateRef`
finds the one frame that points to it. `Owned`: the owner of a registered timer lives. Half of the proof is
about lists: that `InsertAt`, `Tail` and a list without some elements keep an order and hold
each element once. The last is `Sublist`, defined by places, because the provers know nothing about
`SelectSeq`. The highest descriptor exists because `NotifiersAssumption` makes the set of notifiers
finite. `unix_dispatcher` checks small instances; nothing in the proof depends on `MaxCalls`, `MaxTime` or `MaxDepth`.

Model-checked only: the liveness properties, those of `CountingSemaphore` and `Ownership` included; every invariant and
action property of a passing run is a theorem. Each component's module but `UnixDispatcher` (with the two
it composes), whose invariant states its types in parts, has a `TypeOK`, and the theorem `TypeCorrect` about it; the runs
spend their properties on other things. Out of the prover's reach
altogether: liveness under fairness, `ENABLED`, and induction over data.

## 5. Where the code departs from its documentation

One of these is a run; the others are stated by a property in the module and an instance
beside it, in the configuration named, which TLC refutes in seconds.

- `pool_restart_expired` (`ThreadPoolRestart.cfg`, `RunnableHasThread`). `tryStart` calls
  `QThread::start` on an expired thread whose `run()` has returned but whose `finish()` has not
  begun; `running` is still set, `start()` returns and the task is never run
  (`qthreadpool.cpp:171-180`, `qthread_unix.cpp:303`).
- `EventLoopNestedExit.cfg`, `NoLostExit`. With a nested loop, an `exit` that falls between the
  inner loop's test of its flag and `interrupt = false` is forgotten: the inner `select()`
  consumes the byte, the outer loop goes to sleep although it was told to exit
  (`qeventdispatcher_unix.cpp:720`; the documentation of `QThread::exit`, `qthread.cpp:469`).
- `EventLoopExitCode.cfg`, `ExitAnswered`. An `exit(code)` between the unlock of
  `QThread::exec` and the lock of `QEventLoop::exec` makes `exec()` return -1
  (`qthread.cpp:437, 455`).
- `PostEventListSleep.cfg`, `NothingToSend`. A deferred delete put back behind
  `insertionOffset` by an inner call of `sendPostedEvents` or `processEvents` is not looked at by the outer one, which leaves `canWait`
  set (`qcoreapplication.cpp:967`, `qobject.cpp:1549`).
- `PostEventListOrder.cfg`, `Sorted`. `sendPostedEvents` for one receiver leaves
  `insertionOffset` at the end: later events are appended whatever their priority
  (`qcoreapplication.cpp:937`, `qthread_p.h:73`).
- `ThreadPoolReset.cfg`, `NoDeletedThreadUsed`. `reset()` unlocks while `waitingThreads` and
  `expiredThreads` still name the threads it deletes (`qthreadpool.cpp:253`).
- `ThreadPoolDelete.cfg`, `DeletedWhenDone`. `tryToStartMoreThreads` counts a queued task twice
  in `ref`, so that it is never deleted (`qthreadpool.cpp:206, 300`).
- `ThreadPoolTwoWaiters.cfg`, `WaitForDoneReturns`. Two overlapping `waitForDone()`: the first
  to end clears `isExiting` under the other, whose thread goes back to sleep
  (`qthreadpool.cpp:263`).
- `ThreadPoolWakeUp.cfg`, `NoDeletedThreadUsed`. `waitForDone` waits for `noActiveThreads` under an
  `if` (`qthreadpool.cpp:270`): when the wait ends for no reason, `reset()` runs beside a task, and the
  tasks that this one starts find a deleted thread in `expiredThreads` (line 171). The documentation
  says that it "waits for each thread to exit and removes all threads" (line 542); `DoneIsDone` fails too.
- `ThreadPoolZeroLimit.cfg`, `QueueHasWorker`. With a limit of 0 and its only thread expired the
  pool queues a task for nobody (`qthreadpool.cpp:158, 462`).
- `ThreadLifeStart.cfg`, `StartHasEffect`. `start()` waits for `finish()` with `if`, not `while`
  (`qthread_unix.cpp:300`).
- `ThreadLifeWait.cfg`, `WaitsForOneRun`. A waiter that finds the thread restarted waits for the
  next run too (`qthread_unix.cpp:374`, `qthread.cpp:632`).
- `ThreadLifePost.cfg`, `NoDeletedDispatcherUsed`. `postEvent` uses the dispatcher without the
  mutex under which `finish()` deletes it (`qcoreapplication.cpp:846`).
- `ThreadLifeCancel.cfg`, `TerminateAlwaysWakes`. A `terminate()` that hits `finish()` ends the
  thread inside it (`qthread_unix.cpp:179`, `qthread.cpp:607`).
- `ThreadLifeRestart.cfg`, `TerminateWakesLateWaiters`. A waiter that is told of the end of a terminated
  run, but gets the mutex only after another thread has started the QThread again, stays in `while (d->running)`
  (`qthread_unix.cpp:374`), for a `run()` that may never return, though "all threads waiting for the thread to finish
  will be woken up" (`qthread.cpp:607`).
- `SignalSlotPost.cfg`, `PostsToLiving`. A blocking emission unlocks before it posts to the
  receiver it has read (`qobject.cpp:2826`).
- `SignalSlotNew.cfg`, `NewConnectionsWait`. The last connection of the list for all signals is
  read after the slots of the signal's own list have run (`qobject.cpp:2799-2801`).
- `SemaphoreTimeout.cfg`, `AtMostTimeout`. A release of too little wakes
  `tryAcquire(n, timeout)`, which then waits the full timeout again; the documentation says "at
  most" (`qsemaphore.cpp:203, 181`).
- `SharedPointerAssert.cfg`, `FreedUnreferenced`. The thread that loses the race in `getAndRef`
  deletes its block with a weak count of 2, against `Q_ASSERT(!weakref)`
  (`qsharedpointer.cpp:1208`, `qsharedpointer.h:147`).

Two more are a line each and need no model: `QMutex::tryLock` with a negative timeout returns at
once, where the documentation says it is `lock()` (`qmutex.h:48`, `qmutex.cpp:127`), and
`QSemaphore::available()` reads the counter without the mutex (`qsemaphore.cpp:154`).

## 6. What is left out

Not modelled at all: the components of the last rows of the table in section 1, for the reasons
`PROJECT.json` gives: they are sequential look-ups, conversions, parsing, painting and layout, or
glue to the window system, D-Bus and the file system, whose behaviour would have to be
assumed. Within the modelled components: event filters, `notify`, start-up and
`moveToThread` in `PostEventList`, and the compression of `Quit` events; priorities,
stack sizes, `setTerminationEnabled`, a `pthread_cancel` that fails and a `wait()` of the thread on itself in
`ThreadLife`; methods, arguments, the lookup of signatures, the virtual `connectNotify` and
`disconnectNotify`, object trees, and explicit direct connections to a receiver in another thread
(`qobject.cpp:2812-2870`: the slot runs in the sender's thread, with no current sender) in `SignalSlot`; changes of the
system clock, `ExcludeSocketNotifiers`, `registeredTimers`, `QTimer` and `QBasicTimer`, which only call `startTimer` and
`killTimer`, in `UnixDispatcher`; casts, custom deleters, the `qFatal` for an object that gets a second block
(`qsharedpointer.cpp:1182`) and the other pointer classes in `SharedPointer`; `QMutexPool` and time limits on mutexes in `Semaphore`.

## 7. The plan

In the order of what matters most:

1. `EventLoop`, `PostEventList`, `ThreadPool`, `ThreadLife`, `SignalSlot`: written.
2. `TimerList`, `SocketNotifiers` and `UnixDispatcher`, which composes them: written.
3. `Semaphore` with its `QMutex` and `QWaitCondition`, and `CountingSemaphore`: written.
4. `SharedPointer` and `Ownership`: written.
5. Proofs: `EventLoop`, `Semaphore`, `ThreadLife`, `SharedPointer`, `ThreadPool`, `PostEventList`,
   `SignalSlot`, `UnixDispatcher`: written, for every safety property a run checks.
6. Candidates after that: `QAbstractSocket`'s states, the undo stack, the proxy model's mapping.
