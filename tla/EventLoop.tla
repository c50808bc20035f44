----------------------------- MODULE EventLoop -----------------------------
(***************************************************************************)
(* The event loop of one thread and the threads that wake it up.           *)
(*                                                                         *)
(* The loop thread runs QThread::exec, which runs a QEventLoop whose       *)
(* processEvents sends the posted events and then sleeps in select() on    *)
(* the dispatcher's pipe.  Other threads, and the handlers the loop thread *)
(* calls, post events (QCoreApplication::postEvent) and ask the thread to  *)
(* leave its loops (QThread::exit).  A handler may run a nested QEventLoop.*)
(*                                                                         *)
(* Every step is one access to state that another thread can touch: the    *)
(* bodies of the critical sections of postEventList.mutex and of           *)
(* QThreadPrivate::mutex, one compare-and-swap of wakeUps, one read or     *)
(* write of the pipe, one read or write of the plain flags interrupt and   *)
(* QEventLoopPrivate::exit, which the code accesses without a lock.        *)
(*                                                                         *)
(* Data that is abstracted: an event is <<its poster, its serial number>>, *)
(* all of one priority (PostEventList has the priorities), and the list    *)
(* holds only what is not sent yet, so that quota stands for               *)
(* insertionOffset - startOffset.  Timers and sockets are one bit: some    *)
(* other source may make select() return.                                  *)
(*                                                                         *)
(* Definitions whose comment begins with "Mutant" are wrong on purpose:    *)
(* they show that a property fails when the code has that mistake.         *)
(***************************************************************************)
EXTENDS Integers, Sequences, FiniteSets

CONSTANTS
  Clients,        \* the threads that post events and ask for an exit
  Loop,           \* the thread that runs the event loop
  Codes,          \* the return codes given to QThread::exit
  MaxPosts,       \* bound: events posted by one thread
  MaxExits,       \* bound: calls of QThread::exit or QEventLoop::exit by one thread
  MaxExecs,       \* bound: calls of QThread::exec by the loop thread
  MaxDepth,       \* bound: nested event loops
  OtherSources    \* whether timers and sockets may end a select()

Threads == Clients \cup {Loop}
NoThread == "none"

ASSUME EventLoopAssumption ==
  /\ Loop \notin Clients
  /\ NoThread \notin Threads
  /\ Codes \subseteq Nat
  /\ MaxPosts \in Nat /\ MaxExits \in Nat /\ MaxExecs \in Nat /\ MaxDepth \in Nat
  /\ OtherSources \in BOOLEAN

VARIABLES
  \* QThreadData, shared by all threads
  queue,       \* postEventList: the events not sent yet, in sending order
  quota,       \* how many of them the running sendPostedEvents may still send
  canWait,     \* QThreadData::canWait
  listMutex,   \* the thread that holds postEventList.mutex across steps
  dispatcher,  \* QThreadData::eventDispatcher # 0
  quitNow,     \* QThreadData::quitNow
  loops,       \* QThreadData::eventLoops, with where each loop was called from
  \* QThreadPrivate
  mutex,       \* the thread that holds QThreadPrivate::mutex across steps
  exited, returnCode,
  \* QEventDispatcherUNIXPrivate
  wakeUps, pipe, interrupt,
  \* the loop thread's control state
  lpc, site, mayBlock, result, execs,
  \* each thread's control state inside postEvent, exit and wakeUp
  cpc, target, posts, exits

queueVars == <<queue, quota, canWait, listMutex>>
exitVars == <<quitNow, loops, mutex, exited, returnCode>>
wakeVars == <<wakeUps, pipe, interrupt>>
loopVars == <<lpc, site, mayBlock, result, execs, dispatcher>>
clientVars == <<cpc, target, posts, exits>>
vars == <<queueVars, exitVars, wakeVars, loopVars, clientVars>>

Sites == {"thread", "send", "activate"}
LoopPoints == {"start", "create", "exec", "enter", "while", "begin", "send", "sending",
               "sent", "handler", "ask", "askInterrupt", "testInterrupt", "select",
               "consume", "reset", "activate", "leave", "execEnd", "returned"}
ClientPoints == {"idle", "posted", "nextLoop", "interrupt", "wake", "write"}
Events == Threads \X Nat

\* Local: returnCode of a loop that nobody has told to exit.
NoCode == -1

LoopRecord == [exit : BOOLEAN, code : Codes \cup {NoCode}, from : Sites]

TypeOK ==
  /\ queue \in Seq(Events) /\ quota \in Nat /\ canWait \in BOOLEAN
  /\ listMutex \in {NoThread, Loop} /\ dispatcher \in BOOLEAN
  /\ quitNow \in BOOLEAN /\ exited \in BOOLEAN /\ returnCode \in Codes \cup {NoCode}
  /\ loops \in Seq(LoopRecord)
  /\ mutex \in Threads \cup {NoThread}
  /\ wakeUps \in {0, 1} /\ pipe \in {0, 1} /\ interrupt \in BOOLEAN
  /\ lpc \in LoopPoints /\ site \in Sites /\ mayBlock \in BOOLEAN
  /\ result \in Codes \cup {NoCode} /\ execs \in Nat
  /\ cpc \in [Threads -> ClientPoints] /\ target \in [Threads -> Nat]
  /\ posts \in [Threads -> Nat] /\ exits \in [Threads -> Nat]

Init ==
  /\ queue = <<>> /\ quota = 0 /\ canWait = TRUE /\ listMutex = NoThread
  /\ dispatcher = FALSE /\ quitNow = FALSE /\ loops = <<>>
  /\ mutex = NoThread /\ exited = FALSE /\ returnCode = NoCode
  /\ wakeUps = 0 /\ pipe = 0 /\ interrupt = FALSE
  /\ lpc = "start" /\ site = "thread" /\ mayBlock = FALSE
  /\ result = NoCode /\ execs = 0
  /\ cpc = [t \in Threads |-> "idle"] /\ target = [t \in Threads |-> 0]
  /\ posts = [t \in Threads |-> 0] /\ exits = [t \in Threads |-> 0]

-----------------------------------------------------------------------------
(* Any thread: postEvent, QThread::exit, wakeUp.                           *)

\* Application code runs in the other threads at any time and in the loop
\* thread only while a handler is being called.
RunsUserCode(t) == cpc[t] = "idle" /\ (t = Loop => lpc = "handler")

Goto(t, point) == cpc' = [cpc EXCEPT ![t] = point]

\* Where wakeUp() returns to: QThread::exit goes on with the next loop,
\* postEvent is over.
AfterWakeUp(t) == IF mutex = t THEN "nextLoop" ELSE "idle"

\* postEvent: the critical section of postEventList.mutex.
PostEvent(t) ==
  /\ RunsUserCode(t) /\ posts[t] < MaxPosts
  /\ listMutex = NoThread
  /\ queue' = Append(queue, <<t, posts[t] + 1>>)
  /\ canWait' = FALSE
  /\ posts' = [posts EXCEPT ![t] = @ + 1]
  /\ Goto(t, "posted")
  /\ UNCHANGED <<quota, listMutex, exitVars, wakeVars, loopVars, target, exits>>

\* Mutant of TestDispatcher: the event is in the list, nobody is told.
LeaveAsleep(t) ==
  /\ cpc[t] = "posted"
  /\ Goto(t, "idle")
  /\ UNCHANGED <<queueVars, exitVars, wakeVars, loopVars, target, posts, exits>>

\* postEvent after the unlock: the dispatcher is woken up if there is one.
TestDispatcher(t) ==
  /\ cpc[t] = "posted"
  /\ Goto(t, IF dispatcher THEN "wake" ELSE "idle")
  /\ UNCHANGED <<queueVars, exitVars, wakeVars, loopVars, target, posts, exits>>

\* Mutant of TestAndSetWakeUps: the flag is set but not tested.
SetWakeUps(t) ==
  /\ cpc[t] = "wake"
  /\ wakeUps' = 1 /\ Goto(t, "write")
  /\ UNCHANGED <<queueVars, exitVars, pipe, interrupt, loopVars, target, posts, exits>>

\* wakeUp(): the compare-and-swap of wakeUps...
TestAndSetWakeUps(t) ==
  /\ cpc[t] = "wake"
  /\ IF wakeUps = 0
       THEN wakeUps' = 1 /\ Goto(t, "write")
       ELSE wakeUps' = wakeUps /\ Goto(t, AfterWakeUp(t))
  /\ UNCHANGED <<queueVars, exitVars, pipe, interrupt, loopVars, target, posts, exits>>

\* ... and the byte that ends the select().
WritePipe(t) ==
  /\ cpc[t] = "write"
  /\ pipe' = pipe + 1
  /\ Goto(t, AfterWakeUp(t))
  /\ UNCHANGED <<queueVars, exitVars, wakeUps, interrupt, loopVars, target, posts, exits>>

\* QThread::exit takes the mutex, keeps it to the end, and tells each loop.
ThreadExit(t) ==
  /\ RunsUserCode(t) /\ exits[t] < MaxExits
  /\ mutex = NoThread
  /\ mutex' = t
  /\ exited' = TRUE /\ quitNow' = TRUE
  /\ returnCode' \in Codes
  /\ exits' = [exits EXCEPT ![t] = @ + 1]
  /\ target' = [target EXCEPT ![t] = 0]
  /\ Goto(t, "nextLoop")
  /\ UNCHANGED <<queueVars, loops, wakeVars, loopVars, posts>>

\* QEventLoop::exit sets exit and returnCode of loop k.
Told(k, c) == [loops EXCEPT ![k] = [@ EXCEPT !.exit = TRUE, !.code = c]]

\* QThread::exit calls QEventLoop::exit for the next loop...
ExitNextLoop(t) ==
  /\ cpc[t] = "nextLoop"
  /\ target[t] < Len(loops)
  /\ target' = [target EXCEPT ![t] = @ + 1]
  /\ loops' = Told(target[t] + 1, returnCode)
  /\ Goto(t, "interrupt")
  /\ UNCHANGED <<queueVars, quitNow, mutex, exited, returnCode, wakeVars, loopVars,
                 posts, exits>>

\* Mutant of Interrupt: the dispatcher is not woken up.
InterruptOnly(t) ==
  /\ cpc[t] = "interrupt"
  /\ interrupt' = TRUE
  /\ Goto(t, AfterWakeUp(t))
  /\ UNCHANGED <<queueVars, exitVars, wakeUps, pipe, loopVars, target, posts, exits>>

\* ... and interrupts the dispatcher, which then wakes up.
Interrupt(t) ==
  /\ cpc[t] = "interrupt"
  /\ interrupt' = TRUE
  /\ Goto(t, "wake")
  /\ UNCHANGED <<queueVars, exitVars, wakeUps, pipe, loopVars, target, posts, exits>>

ThreadExitDone(t) ==
  /\ cpc[t] = "nextLoop"
  /\ target[t] >= Len(loops)
  /\ mutex' = NoThread
  /\ Goto(t, "idle")
  /\ UNCHANGED <<queueVars, quitNow, loops, exited, returnCode, wakeVars, loopVars,
                 target, posts, exits>>

\* A handler quits the innermost loop itself: QEventLoop::exit without the mutex.
LoopExit ==
  /\ RunsUserCode(Loop) /\ loops # <<>> /\ exits[Loop] < MaxExits
  /\ exits' = [exits EXCEPT ![Loop] = @ + 1]
  /\ \E c \in Codes : loops' = Told(Len(loops), c)
  /\ Goto(Loop, "interrupt")
  /\ UNCHANGED <<queueVars, quitNow, mutex, exited, returnCode, wakeVars, loopVars,
                 target, posts>>

Client(t) == \/ TestDispatcher(t) \/ TestAndSetWakeUps(t) \/ WritePipe(t)
             \/ ExitNextLoop(t) \/ Interrupt(t) \/ ThreadExitDone(t)

-----------------------------------------------------------------------------
(* The loop thread.                                                        *)

\* QThreadPrivate::start: an exit() that came first is remembered...
ThreadStart ==
  /\ lpc = "start" /\ mutex = NoThread
  /\ quitNow' = exited
  /\ lpc' = "create"
  /\ UNCHANGED <<queueVars, loops, mutex, exited, returnCode, wakeVars, site, mayBlock,
                 result, execs, dispatcher, clientVars>>

\* ... and the dispatcher is made under postEventList.mutex.
CreateEventDispatcher ==
  /\ lpc = "create" /\ listMutex = NoThread
  /\ dispatcher' = TRUE
  /\ lpc' = "exec"
  /\ UNCHANGED <<queueVars, exitVars, wakeVars, site, mayBlock, result, execs, clientVars>>

\* QThread::exec up to the construction of its QEventLoop.
ThreadExec ==
  /\ lpc = "exec" /\ mutex = NoThread
  /\ execs' = execs + 1
  /\ quitNow' = FALSE
  /\ site' = "thread"
  /\ IF exited
       THEN exited' = FALSE /\ result' = returnCode /\ lpc' = "returned"
       ELSE lpc' = "enter" /\ UNCHANGED <<exited, result>>
  /\ UNCHANGED <<queueVars, loops, mutex, returnCode, wakeVars, mayBlock, dispatcher,
                 clientVars>>

\* Where QEventLoop::exec returns to: QThread::exec or the handler that called it.
AfterLoop(caller) == IF caller = "thread" THEN "execEnd" ELSE "handler"

\* Mutant of EnterLoop: quitNow is not looked at.
EnterAnyLoop ==
  /\ lpc = "enter" /\ mutex = NoThread
  /\ loops' = Append(loops, [exit |-> FALSE, code |-> NoCode, from |-> site])
  /\ lpc' = "while"
  /\ UNCHANGED <<queueVars, quitNow, mutex, exited, returnCode, wakeVars, site, mayBlock,
                 result, execs, dispatcher, clientVars>>

\* QEventLoop::exec under QThreadPrivate::mutex: refuse, or become the innermost loop.
EnterLoop ==
  /\ lpc = "enter" /\ mutex = NoThread
  /\ IF quitNow
       THEN /\ lpc' = AfterLoop(site)
            /\ result' = IF site = "thread" THEN NoCode ELSE result
            /\ loops' = loops
       ELSE /\ loops' = Append(loops, [exit |-> FALSE, code |-> NoCode, from |-> site])
            /\ lpc' = "while"
            /\ result' = result
  /\ UNCHANGED <<queueVars, quitNow, mutex, exited, returnCode, wakeVars, site, mayBlock,
                 execs, dispatcher, clientVars>>

Innermost == loops[Len(loops)]

\* while (!d->exit) processEvents(...)
TestExit ==
  /\ lpc = "while"
  /\ lpc' = IF Innermost.exit THEN "leave" ELSE "begin"
  /\ UNCHANGED <<queueVars, exitVars, wakeVars, site, mayBlock, result, execs, dispatcher,
                 clientVars>>

\* QEventLoop::exec after its while loop.
LeaveLoop ==
  /\ lpc = "leave" /\ mutex = NoThread
  /\ loops' = SubSeq(loops, 1, Len(loops) - 1)
  /\ site' = Innermost.from
  /\ lpc' = AfterLoop(Innermost.from)
  /\ result' = IF Innermost.from = "thread" THEN Innermost.code ELSE result
  /\ UNCHANGED <<queueVars, quitNow, mutex, exited, returnCode, wakeVars, mayBlock, execs,
                 dispatcher, clientVars>>

\* QThread::exec after the loop.
ThreadExecEnd ==
  /\ lpc = "execEnd" /\ mutex = NoThread
  /\ exited' = FALSE /\ returnCode' = NoCode
  /\ lpc' = "returned"
  /\ UNCHANGED <<queueVars, quitNow, loops, mutex, wakeVars, site, mayBlock, result, execs,
                 dispatcher, clientVars>>

\* run() calls exec() again.
ExecAgain ==
  /\ lpc = "returned" /\ execs < MaxExecs
  /\ lpc' = "exec"
  /\ UNCHANGED <<queueVars, exitVars, wakeVars, site, mayBlock, result, execs, dispatcher,
                 clientVars>>

\* processEvents
ClearInterrupt ==
  /\ lpc = "begin"
  /\ interrupt' = FALSE
  /\ lpc' = "send"
  /\ UNCHANGED <<queueVars, exitVars, wakeUps, pipe, site, mayBlock, result, execs,
                 dispatcher, clientVars>>

\* sendPostedEvents(0, 0, data): the mutex is kept if there is something to send.
SendPostedEvents ==
  /\ lpc = "send" /\ listMutex = NoThread
  /\ canWait' = TRUE
  /\ quota' = Len(queue)
  /\ IF queue = <<>>
       THEN lpc' = "ask" /\ UNCHANGED listMutex
       ELSE lpc' = "sending" /\ listMutex' = Loop
  /\ UNCHANGED <<queue, exitVars, wakeVars, site, mayBlock, result, execs, dispatcher,
                 clientVars>>

\* One round of its loop: an event is taken out and sent with the mutex released.
SendEvent ==
  /\ lpc = "sending" /\ listMutex \in {NoThread, Loop}
  /\ queue # <<>> /\ quota > 0
  /\ queue' = Tail(queue)
  /\ quota' = quota - 1
  /\ listMutex' = NoThread
  /\ site' = "send" /\ lpc' = "handler"
  /\ UNCHANGED <<canWait, exitVars, wakeVars, mayBlock, result, execs, dispatcher, clientVars>>

\* postEventList.recursion > 0 once this call is over.
InOuterSend == \E k \in 1..Len(loops) : loops[k].from = "send"

\* The end of its loop, and with the mutex still held the wake-up for the
\* events that are left.
SendLoopDone ==
  /\ lpc = "sending" /\ listMutex \in {NoThread, Loop}
  /\ queue = <<>> \/ quota = 0
  /\ listMutex' = Loop
  /\ lpc' = "sent"
  /\ IF ~InOuterSend /\ ~canWait THEN Goto(Loop, "wake") ELSE UNCHANGED cpc
  /\ UNCHANGED <<queue, quota, canWait, exitVars, wakeVars, site, mayBlock, result, execs,
                 dispatcher, target, posts, exits>>

EraseSent ==
  /\ lpc = "sent" /\ cpc[Loop] = "idle"
  /\ listMutex' = NoThread
  /\ lpc' = "ask"
  /\ UNCHANGED <<queue, quota, canWait, exitVars, wakeVars, site, mayBlock, result, execs,
                 dispatcher, clientVars>>

\* A handler runs a local QEventLoop.
CallNestedLoop ==
  /\ RunsUserCode(Loop) /\ Len(loops) < MaxDepth
  /\ lpc' = "enter"
  /\ UNCHANGED <<queueVars, exitVars, wakeVars, site, mayBlock, result, execs, dispatcher,
                 clientVars>>

HandlerReturn ==
  /\ lpc = "handler" /\ cpc[Loop] = "idle"
  /\ lpc' = IF site = "send" THEN "sending" ELSE "activate"
  /\ UNCHANGED <<queueVars, exitVars, wakeVars, site, mayBlock, result, execs, dispatcher,
                 clientVars>>

\* const bool canWait = canWaitLocked() && !interrupt && WaitForMoreEvents
AskCanWait ==
  /\ lpc = "ask" /\ listMutex = NoThread
  /\ mayBlock' = canWait
  /\ lpc' = "askInterrupt"
  /\ UNCHANGED <<queueVars, exitVars, wakeVars, site, result, execs, dispatcher, clientVars>>

AskInterrupt ==
  /\ lpc = "askInterrupt"
  /\ mayBlock' = (mayBlock /\ ~interrupt)
  /\ lpc' = "testInterrupt"
  /\ UNCHANGED <<queueVars, exitVars, wakeVars, site, result, execs, dispatcher, clientVars>>

\* if (!d->interrupt) ... doSelect
TestInterrupt ==
  /\ lpc = "testInterrupt"
  /\ lpc' = IF interrupt THEN "while" ELSE "select"
  /\ UNCHANGED <<queueVars, exitVars, wakeVars, site, mayBlock, result, execs, dispatcher,
                 clientVars>>

\* select() returns with the pipe readable...
SelectPipe ==
  /\ lpc = "select" /\ pipe > 0
  /\ lpc' = "consume"
  /\ UNCHANGED <<queueVars, exitVars, wakeVars, site, mayBlock, result, execs, dispatcher,
                 clientVars>>

\* ... or without: it did not block, or a timer or a socket ended it.
SelectOther ==
  /\ lpc = "select" /\ pipe = 0
  /\ ~mayBlock \/ OtherSources
  /\ lpc' = "activate"
  /\ UNCHANGED <<queueVars, exitVars, wakeVars, site, mayBlock, result, execs, dispatcher,
                 clientVars>>

\* processThreadWakeUp reads the pipe dry...
ReadPipe ==
  /\ lpc = "consume"
  /\ pipe' = 0
  /\ lpc' = "reset"
  /\ UNCHANGED <<queueVars, exitVars, wakeUps, interrupt, site, mayBlock, result, execs,
                 dispatcher, clientVars>>

\* Mutant of ResetWakeUps: wakeUp() is never let write again.
KeepWakeUps ==
  /\ lpc = "reset"
  /\ lpc' = "activate"
  /\ UNCHANGED <<queueVars, exitVars, wakeVars, site, mayBlock, result, execs,
                 dispatcher, clientVars>>

\* ... and then lets wakeUp() write again; the failing swap changes nothing.
ResetWakeUps ==
  /\ lpc = "reset"
  /\ wakeUps' = IF wakeUps = 1 THEN 0 ELSE wakeUps
  /\ lpc' = "activate"
  /\ UNCHANGED <<queueVars, exitVars, pipe, interrupt, site, mayBlock, result, execs,
                 dispatcher, clientVars>>

\* activateSocketNotifiers and activateTimers call handlers...
ActivateHandler ==
  /\ lpc = "activate" /\ OtherSources
  /\ site' = "activate" /\ lpc' = "handler"
  /\ UNCHANGED <<queueVars, exitVars, wakeVars, mayBlock, result, execs, dispatcher,
                 clientVars>>

\* ... and processEvents returns.
ActivateDone ==
  /\ lpc = "activate"
  /\ lpc' = "while"
  /\ UNCHANGED <<queueVars, exitVars, wakeVars, site, mayBlock, result, execs, dispatcher,
                 clientVars>>

LoopThread ==
  \/ ThreadStart \/ CreateEventDispatcher \/ ThreadExec \/ EnterLoop \/ TestExit
  \/ LeaveLoop \/ ThreadExecEnd \/ ClearInterrupt \/ SendPostedEvents \/ SendEvent
  \/ SendLoopDone \/ EraseSent \/ HandlerReturn \/ AskCanWait \/ AskInterrupt
  \/ TestInterrupt \/ SelectPipe \/ SelectOther \/ ReadPipe \/ ResetWakeUps
  \/ ActivateDone

\* What the application decides: the program may always not do it.
Application ==
  \/ \E t \in Threads : PostEvent(t) \/ ThreadExit(t)
  \/ LoopExit \/ CallNestedLoop \/ ActivateHandler \/ ExecAgain

Next == LoopThread \/ Application \/ \E t \in Threads : Client(t)

Spec == Init /\ [][Next]_vars

\* A thread that is inside a call goes on with it: the scheduler runs every
\* thread, and the bounded calls release the mutexes again.  Nothing makes the
\* application call anything.
Fairness == WF_vars(LoopThread) /\ \A t \in Threads : WF_vars(Client(t))

FairSpec == Spec /\ Fairness

-----------------------------------------------------------------------------
(* Properties.                                                             *)

Asleep == lpc = "select" /\ mayBlock /\ pipe = 0

\* The wake-up token is in one place only: on its way into the pipe, in the
\* pipe, or read by the loop thread and not given back.  So the pipe never holds
\* two bytes and the swap of processThreadWakeUp never fails: its qWarning is
\* the dead code its comment hopes for (qeventdispatcher_unix.cpp:159).
Writer == \E t \in Threads : cpc[t] = "write"
OneWakeUpToken ==
  /\ \A t, u \in Threads : cpc[t] = "write" /\ cpc[u] = "write" => t = u
  /\ Writer => pipe = 0 /\ lpc # "reset"
  /\ pipe = 1 => lpc # "reset"
  /\ wakeUps = 1 <=> (Writer \/ pipe = 1 \/ lpc = "reset")
  /\ lpc = "consume" => pipe = 1

\* The loop thread never sleeps on a posted event unless a byte is still
\* coming: whoever asleep has events to send has a waker between its append to
\* postEventList and its write to the pipe (postEvent's unlock before wakeUp,
\* canWaitLocked before select()).
WakerComing == \E t \in Threads : cpc[t] \in {"posted", "wake", "write"}
NoLostWakeup == Asleep /\ queue # <<>> => WakerComing

\* The loop thread never sleeps in a loop that has been told to exit unless
\* the thread that told it is still about to wake it up.
ExitComing == \E t \in Threads : cpc[t] \in {"interrupt", "wake", "write"}
NoLostExit == Asleep /\ Innermost.exit => ExitComing

\* Once QThread::exit is over, every loop of the thread has been told, those
\* that were being entered at the time too: quitNow and eventLoops are read and
\* written under one mutex (qeventloop.cpp:148, "protect from race condition").
AllLoopsTold ==
  quitNow /\ mutex = NoThread => \A k \in 1..Len(loops) : loops[k].exit

\* A request to exit is answered: the exec() that takes it back returns its code
\* (qthread.cpp:437, "waits until exit() is called, returning the value that was
\* passed to exit()").
ExitAnswered == [][exited /\ ~exited' => (lpc' = "returned" /\ result' \in Codes)]_vars

\* Every posted event is sent, unless the thread leaves its event loop first.
PostedIsSent ==
  \A t \in Threads : \A n \in 1..MaxPosts :
    <<t, n>> \in {queue[k] : k \in DOMAIN queue}
      ~> (<<t, n>> \notin {queue[k] : k \in DOMAIN queue} \/ lpc = "returned")

\* A thread that is told to exit leaves its event loop, whatever it was doing.
ExitReturns == exited ~> lpc = "returned"
=============================================================================
