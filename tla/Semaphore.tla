------------------------------ MODULE Semaphore ------------------------------
(***************************************************************************)
(* QSemaphore (qsemaphore.cpp) with the QMutex and the QWaitCondition      *)
(* (qwaitcondition_unix.cpp) it is made of, one step for each lock, unlock *)
(* and change of shared data.  The condition variable of the standard      *)
(* library may wake a thread for no reason.  A thread that has acquired    *)
(* all there is may destroy the semaphore, as the sender of a blocking     *)
(* queued signal does.                                                     *)
(***************************************************************************)
EXTENDS Integers, FiniteSets

CONSTANTS
  Threads,
  Nobody,
  Initial,      \* QSemaphore(n)
  Amounts,      \* how many resources a call asks for or releases
  Timeouts,     \* Forever (acquire), NoWait (tryAcquire(n)) or milliseconds
  MaxCalls,     \* bound: calls of acquire, tryAcquire and release
  MaxSpurious,  \* bound: wake-ups for no reason
  MaxTime       \* bound: the clock

Forever == -1
NoWait == -2

ASSUME SemaphoreAssumption ==
  /\ Nobody \notin Threads /\ Initial \in Nat /\ Amounts \subseteq Nat
  /\ Timeouts \subseteq Nat \cup {Forever, NoWait}
  /\ MaxCalls \in Nat /\ MaxSpurious \in Nat /\ MaxTime \in Nat

VARIABLES
  avail,      \* QSemaphorePrivate::avail
  mutex,      \* who holds QSemaphorePrivate::mutex
  condMutex,  \* who holds QWaitConditionPrivate::mutex
  pc,         \* pc[t]: the next step of thread t
  need,       \* need[t], timeout[t]: the arguments of its call
  timeout,
  until,      \* until[t]: when its wait on the condition ends
  timedOut,   \* timedOut[t]: what its wait returned
  limit,      \* limit[t]: when the first wait of its call ends (for AtMostTimeout)
  taker,      \* who acquired last
  exists,     \* whether the semaphore exists
  now, calls, spurious

args == <<need, timeout>>
waits == <<until, timedOut, limit>>
life == <<taker, exists>>
bounds == <<now, calls, spurious>>
vars == <<avail, mutex, condMutex, pc, args, waits, life, bounds>>

Waiting == {"beginWait", "leave", "sleep", "asleep", "woken", "relock"}
Steps == Waiting \cup
  {"idle", "lock", "test", "granted", "refused", "add", "wakeAll", "released"}

Init ==
  /\ avail = Initial /\ mutex = Nobody /\ condMutex = Nobody
  /\ pc = [t \in Threads |-> "idle"]
  /\ need = [t \in Threads |-> 0] /\ timeout = [t \in Threads |-> Forever]
  /\ until = [t \in Threads |-> 0] /\ limit = [t \in Threads |-> 0]
  /\ timedOut = [t \in Threads |-> FALSE]
  /\ taker = Nobody /\ exists = TRUE /\ now = 0 /\ calls = 0 /\ spurious = 0

Move(t, from, to) == pc[t] = from /\ pc' = [pc EXCEPT ![t] = to]

Lock(t) == mutex = Nobody /\ mutex' = t
Unlock(t) == mutex' = IF mutex = t THEN Nobody ELSE mutex

-----------------------------------------------------------------------------
(* acquire and tryAcquire.                                                 *)

Call(t, n, step) ==
  /\ exists /\ calls < MaxCalls /\ calls' = calls + 1
  /\ Move(t, "idle", step)
  /\ need' = [need EXCEPT ![t] = n]

Acquire(t, n, time) ==
  /\ Call(t, n, "lock")
  /\ timeout' = [timeout EXCEPT ![t] = time]
  /\ UNCHANGED <<avail, mutex, condMutex, waits, life, now, spurious>>

LockToAcquire(t) ==
  /\ Move(t, "lock", "test") /\ Lock(t)
  /\ UNCHANGED <<avail, condMutex, args, waits, life, bounds>>

\* Mutant of Enough: the comparison is one off.
EnoughOrOneLess(t) == need[t] <= avail + 1

Enough(t) == need[t] <= avail

Take(t) ==
  /\ Enough(t) /\ Move(t, "test", "granted")
  /\ avail' = avail - need[t] /\ taker' = t
  /\ UNCHANGED <<mutex, condMutex, args, waits, exists, bounds>>

GiveUp(t) ==
  /\ ~Enough(t) /\ timeout[t] = NoWait /\ Move(t, "test", "refused")
  /\ UNCHANGED <<avail, mutex, condMutex, args, waits, life, bounds>>

Wait(t) ==
  /\ ~Enough(t) /\ timeout[t] # NoWait /\ Move(t, "test", "beginWait")
  /\ UNCHANGED <<avail, mutex, condMutex, args, waits, life, bounds>>

\* ~QMutexLocker
Leave(t) ==
  /\ pc[t] \in {"granted", "refused", "released"}
  /\ Unlock(t) /\ pc' = [pc EXCEPT ![t] = "idle"]
  /\ need' = [need EXCEPT ![t] = 0]
  /\ timeout' = [timeout EXCEPT ![t] = Forever]
  /\ limit' = [limit EXCEPT ![t] = 0]
  /\ UNCHANGED <<avail, condMutex, until, timedOut, life, bounds>>

-----------------------------------------------------------------------------
(* QWaitCondition::wait.                                                   *)

\* Mutant of LockCondition: the user's mutex is let go without it.
NoLockCondition(t) == UNCHANGED condMutex

LockCondition(t) == condMutex = Nobody /\ condMutex' = t

BeginWait(t) ==
  /\ Move(t, "beginWait", "leave") /\ LockCondition(t)
  /\ UNCHANGED <<avail, mutex, args, waits, life, bounds>>

UnlockToWait(t) ==
  /\ Move(t, "leave", "sleep") /\ Unlock(t)
  /\ UNCHANGED <<avail, condMutex, args, waits, life, bounds>>

\* wait and wait_for let go of the condition's mutex and sleep in one step.
Sleep(t) ==
  /\ Move(t, "sleep", "asleep")
  /\ condMutex' = IF condMutex = t THEN Nobody ELSE condMutex
  /\ LET end == IF timeout[t] = Forever THEN MaxTime + 1 ELSE now + timeout[t]
     IN  /\ until' = [until EXCEPT ![t] = end]
         /\ limit' = [limit EXCEPT ![t] = IF @ = 0 /\ timeout[t] > 0 THEN end ELSE @]
  /\ UNCHANGED <<avail, mutex, args, timedOut, life, bounds>>

TimesOut(t) ==
  /\ Move(t, "asleep", "woken") /\ until[t] <= now
  /\ timedOut' = [timedOut EXCEPT ![t] = TRUE]
  /\ UNCHANGED <<avail, mutex, condMutex, args, until, limit, life, bounds>>

WakesUp(t) ==
  /\ Move(t, "asleep", "woken")
  /\ spurious < MaxSpurious /\ spurious' = spurious + 1
  /\ UNCHANGED <<avail, mutex, condMutex, args, waits, life, now, calls>>

\* It takes the condition's mutex again, only to let it go.
PassCondition(t) ==
  /\ Move(t, "woken", "relock") /\ condMutex = Nobody
  /\ UNCHANGED <<avail, mutex, condMutex, args, waits, life, bounds>>

\* The caller tests again, or gives up after a timeout.
Relock(t) ==
  /\ Move(t, "relock", IF timedOut[t] THEN "refused" ELSE "test") /\ Lock(t)
  /\ timedOut' = [timedOut EXCEPT ![t] = FALSE]
  /\ until' = [until EXCEPT ![t] = 0]
  /\ UNCHANGED <<avail, condMutex, args, limit, life, bounds>>

-----------------------------------------------------------------------------
(* release.                                                                *)

Release(t, n) ==
  /\ Call(t, n, "add")
  /\ UNCHANGED <<avail, mutex, condMutex, timeout, waits, life, now, spurious>>

\* Mutant of Add: the mutex is let go before wakeAll.
AddUnlocks(t) ==
  /\ Move(t, "add", "wakeAll") /\ mutex = Nobody
  /\ avail' = avail + need[t]
  /\ UNCHANGED <<mutex, condMutex, args, waits, life, bounds>>

Add(t) ==
  /\ Move(t, "add", "wakeAll") /\ Lock(t)
  /\ avail' = avail + need[t]
  /\ UNCHANGED <<condMutex, args, waits, life, bounds>>

\* wakeAll
WakeAll(t) ==
  /\ pc[t] = "wakeAll" /\ condMutex = Nobody
  /\ pc' = [u \in Threads |-> IF u = t THEN "released"
                              ELSE IF pc[u] = "asleep" THEN "woken" ELSE pc[u]]
  /\ UNCHANGED <<avail, mutex, condMutex, args, waits, life, bounds>>

-----------------------------------------------------------------------------
\* The thread that has acquired the last resources there are, and knows that nobody acquires
\* any more, destroys the semaphore.
Destroy(t) ==
  /\ exists /\ taker = t /\ avail = 0 /\ pc[t] = "idle"
  /\ \A u \in Threads : pc[u] \in {"idle", "wakeAll", "released"}
  /\ exists' = FALSE
  /\ UNCHANGED <<avail, mutex, condMutex, pc, args, waits, taker, bounds>>

Tick ==
  /\ now < MaxTime /\ now' = now + 1
  /\ UNCHANGED <<avail, mutex, condMutex, pc, args, waits, life, calls, spurious>>

Step(t) ==
  \/ LockToAcquire(t) \/ Take(t) \/ GiveUp(t) \/ Wait(t) \/ Leave(t)
  \/ BeginWait(t) \/ UnlockToWait(t) \/ Sleep(t) \/ PassCondition(t) \/ Relock(t)
  \/ Add(t) \/ WakeAll(t)

Next ==
  \/ Tick
  \/ \E t \in Threads :
       \/ Step(t) \/ TimesOut(t) \/ WakesUp(t) \/ Destroy(t)
       \/ \E n \in Amounts : Release(t, n) \/ \E time \in Timeouts : Acquire(t, n, time)

Spec == Init /\ [][Next]_vars

\* A thread that is not blocked goes on, and the calls are finitely many, so that a thread
\* gets a mutex that others keep letting go of.
FairSpec == Spec /\ \A t \in Threads : WF_vars(Step(t))

-----------------------------------------------------------------------------
(* Properties.                                                             *)

TypeOK ==
  /\ avail \in Nat /\ mutex \in Threads \cup {Nobody} /\ condMutex \in Threads \cup {Nobody}
  /\ pc \in [Threads -> Steps] /\ need \in [Threads -> Amounts \cup {0}]
  /\ timeout \in [Threads -> Timeouts \cup {Forever}]
  /\ until \in [Threads -> Nat] /\ limit \in [Threads -> Nat]
  /\ timedOut \in [Threads -> BOOLEAN]
  /\ taker \in Threads \cup {Nobody} /\ exists \in BOOLEAN
  /\ now \in Nat /\ calls \in Nat /\ spurious \in Nat

\* Nobody waits for resources that are there, unless a release is about to wake everybody up:
\* a release cannot fall between the test in acquire and the sleep in wait().
NoLostWakeup ==
  \A t \in Threads : pc[t] \in {"beginWait", "leave", "sleep", "asleep"} /\ Enough(t) =>
    \E u \in Threads : pc[u] = "wakeAll"

\* When a semaphore is destroyed after the last acquire has returned, the release that made it
\* return does not touch it any more (qobject.cpp:2825, the semaphore is on the sender's stack).
DestroyedQuietly == ~exists => \A t \in Threads : pc[t] = "idle"

\* The doc of tryAcquire(n, timeout): "this call will wait for at most timeout milliseconds".
AtMostTimeout ==
  \A t \in Threads : pc[t] = "asleep" /\ timeout[t] > 0 => until[t] <= limit[t]

Phase(step) ==
  CASE step \in Waiting \cup {"lock", "test"} -> "asking"
    [] step = "add" -> "offering"
    [] step \in {"wakeAll", "released"} -> "given"
    [] OTHER -> step

Counting == INSTANCE CountingSemaphore WITH state <- [t \in Threads |-> Phase(pc[t])]

\* Locks, sleeping and waking implement resources that are handed out in single steps: no call
\* gets too much or is refused what is there, and somebody gets what is enough for somebody.
ImplementsCounting == Counting!Spec
=============================================================================
