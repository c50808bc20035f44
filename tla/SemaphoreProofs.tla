-------------------------- MODULE SemaphoreProofs --------------------------
(***************************************************************************)
(* Theorems about Semaphore, for any number of threads, calls, amounts and *)
(* timeouts.  The inductive invariant is TypeOK together with              *)
(*   LocksHeld      who holds the two mutexes,                             *)
(*   MayWait        whose waits may time out,                              *)
(*   NoLostWakeup   itself;                                                *)
(* Released and DestroyedQuietly are inductive relative to it.             *)
(***************************************************************************)
EXTENDS Semaphore, TLAPS

\* The steps in which a thread has the mutex of the semaphore, and that of the condition.
HoldingMutex == {"test", "granted", "refused", "beginWait", "leave", "wakeAll", "released"}
HoldingCondition == {"leave", "sleep"}

LocksHeld ==
  \A t \in Threads : /\ mutex = t <=> pc[t] \in HoldingMutex
                     /\ condMutex = t <=> pc[t] \in HoldingCondition

\* tryAcquire(n) does not wait, and the waits of acquire do not time out.
MayWait ==
  /\ now <= MaxTime
  /\ \A t \in Threads :
       /\ pc[t] \in Waiting => timeout[t] # NoWait
       /\ pc[t] = "asleep" /\ timeout[t] = Forever => until[t] = MaxTime + 1
       /\ timedOut[t] => pc[t] \in {"woken", "relock"} /\ timeout[t] # Forever

\* What a release has added is there until it lets go of the mutex.
Released ==
  /\ \A t \in Threads : pc[t] \in {"add", "wakeAll", "released"} => need[t] \in Amounts
  /\ \A t \in Threads : pc[t] \in {"wakeAll", "released"} => need[t] <= avail

IInv == TypeOK /\ LocksHeld /\ MayWait /\ NoLostWakeup

-----------------------------------------------------------------------------
\* The cases of Next.
LEMMA NextCases ==
  ASSUME [Next]_vars
  PROVE  \/ UNCHANGED vars
         \/ Tick
         \/ \E t \in Threads : \E n \in Amounts : Release(t, n)
         \/ \E t \in Threads : \E n \in Amounts : \E time \in Timeouts : Acquire(t, n, time)
         \/ \E t \in Threads : \/ LockToAcquire(t) \/ Take(t) \/ GiveUp(t) \/ Wait(t) \/ Leave(t)
                               \/ BeginWait(t) \/ UnlockToWait(t) \/ Sleep(t)
                               \/ PassCondition(t) \/ Relock(t) \/ Add(t) \/ WakeAll(t)
                               \/ TimesOut(t) \/ WakesUp(t) \/ Destroy(t)
  BY DEF Next, Step

\* The arguments of a call.
LEMMA ArgumentTypes ==
  ASSUME TypeOK, NEW t \in Threads
  PROVE  need[t] \in Nat /\ timeout[t] \in Nat \cup {Forever, NoWait}
<1>1. need[t] \in Amounts \cup {0} /\ timeout[t] \in Timeouts \cup {Forever}
  BY DEF TypeOK
<1>2. need[t] \in Nat
  <2>1. Amounts \subseteq Nat
    BY SemaphoreAssumption
  <2>2. CASE need[t] = 0
    BY <2>2
  <2>3. CASE need[t] \in Amounts
    BY <2>1, <2>3
  <2> QED BY <1>1, <2>2, <2>3
<1>3. timeout[t] \in Nat \cup {Forever, NoWait}
  BY <1>1, SemaphoreAssumption
<1> QED BY <1>2, <1>3

LEMMA InitIInv == Init => IInv
<1> SUFFICES ASSUME Init PROVE IInv
  OBVIOUS
<1>1. TypeOK
  BY SemaphoreAssumption DEF Init, TypeOK, Steps, Waiting, Forever
<1>2. LocksHeld
  BY SemaphoreAssumption DEF Init, LocksHeld, HoldingMutex, HoldingCondition
<1>3. MayWait
  BY SemaphoreAssumption DEF Init, MayWait, Waiting
<1>4. NoLostWakeup
  BY DEF Init, NoLostWakeup
<1> QED BY <1>1, <1>2, <1>3, <1>4 DEF IInv

LEMMA TypeStep == TypeOK /\ MayWait /\ [Next]_vars => TypeOK'
<1> SUFFICES ASSUME TypeOK, MayWait, [Next]_vars PROVE TypeOK'
  OBVIOUS
<1> USE SemaphoreAssumption DEF TypeOK, Steps, Waiting, Forever, NoWait
<1>1. CASE UNCHANGED vars
  BY <1>1 DEF vars, args, waits, life, bounds
<1>2. CASE Tick
  BY <1>2 DEF Tick, args, waits, life
<1>3. ASSUME NEW t \in Threads, NEW n \in Amounts, Release(t, n) PROVE TypeOK'
  BY <1>3 DEF Release, Call, Move, waits, life
<1>4. ASSUME NEW t \in Threads, NEW n \in Amounts, NEW time \in Timeouts, Acquire(t, n, time)
      PROVE TypeOK'
  BY <1>4 DEF Acquire, Call, Move, waits, life
<1>5. ASSUME NEW t \in Threads,
             LockToAcquire(t) \/ GiveUp(t) \/ Wait(t) \/ PassCondition(t) \/ UnlockToWait(t)
      PROVE TypeOK'
  BY <1>5 DEF LockToAcquire, GiveUp, Wait, PassCondition, UnlockToWait, Move, Lock, Unlock,
     args, waits, life, bounds
<1>6. ASSUME NEW t \in Threads, Take(t) PROVE TypeOK'
  <2>1. avail' \in Nat
    BY <1>6, ArgumentTypes DEF Take, Enough
  <2> QED BY <1>6, <2>1 DEF Take, Move, args, waits, bounds
<1>7. ASSUME NEW t \in Threads, Leave(t) PROVE TypeOK'
  BY <1>7 DEF Leave, Unlock, life, bounds
<1>8. ASSUME NEW t \in Threads, BeginWait(t) PROVE TypeOK'
  BY <1>8 DEF BeginWait, LockCondition, Move, args, waits, life, bounds
<1>9. ASSUME NEW t \in Threads, Sleep(t) PROVE TypeOK'
  <2> DEFINE end == IF timeout[t] = Forever THEN MaxTime + 1 ELSE now + timeout[t]
  <2>1. end \in Nat
    BY <1>9, ArgumentTypes DEF Sleep, Move, MayWait
  <2>2. /\ until' = [until EXCEPT ![t] = end]
        /\ limit' = [limit EXCEPT ![t] = IF @ = 0 /\ timeout[t] > 0 THEN end ELSE @]
    BY <1>9 DEF Sleep
  <2>3. until' \in [Threads -> Nat] /\ limit' \in [Threads -> Nat]
    BY <2>1, <2>2
  <2> QED BY <1>9, <2>3 DEF Sleep, Move, args, life, bounds
<1>10. ASSUME NEW t \in Threads, TimesOut(t) \/ WakesUp(t) PROVE TypeOK'
  <2>1. CASE TimesOut(t)
    BY <2>1 DEF TimesOut, Move, args, life, bounds
  <2>2. CASE WakesUp(t)
    BY <2>2 DEF WakesUp, Move, args, waits, life
  <2> QED BY <1>10, <2>1, <2>2
<1>11. ASSUME NEW t \in Threads, Relock(t) PROVE TypeOK'
  BY <1>11 DEF Relock, Move, Lock, args, life, bounds
<1>12. ASSUME NEW t \in Threads, Add(t) PROVE TypeOK'
  <2>1. avail' \in Nat
    BY <1>12, ArgumentTypes DEF Add
  <2> QED BY <1>12, <2>1 DEF Add, Move, Lock, args, waits, life, bounds
<1>13. ASSUME NEW t \in Threads, WakeAll(t) \/ Destroy(t) PROVE TypeOK'
  <2>1. CASE WakeAll(t)
    BY <2>1 DEF WakeAll, args, waits, life, bounds
  <2>2. CASE Destroy(t)
    BY <2>2 DEF Destroy, args, waits, bounds
  <2> QED BY <1>13, <2>1, <2>2
<1> QED BY <1>1, <1>2, <1>3, <1>4, <1>5, <1>6, <1>7, <1>8, <1>9, <1>10, <1>11, <1>12, <1>13,
           NextCases

LEMMA LocksStep == TypeOK /\ LocksHeld /\ [Next]_vars => LocksHeld'
<1> SUFFICES ASSUME TypeOK, LocksHeld, [Next]_vars PROVE LocksHeld'
  OBVIOUS
<1> USE SemaphoreAssumption DEF TypeOK, LocksHeld, HoldingMutex, HoldingCondition
<1>1. CASE UNCHANGED vars \/ Tick
  BY <1>1 DEF Tick, vars
<1>2. ASSUME NEW t \in Threads, NEW n \in Amounts, Release(t, n) PROVE LocksHeld'
  BY <1>2 DEF Release, Call, Move
<1>3. ASSUME NEW t \in Threads, NEW n \in Amounts, NEW time \in Timeouts, Acquire(t, n, time)
      PROVE LocksHeld'
  BY <1>3 DEF Acquire, Call, Move
<1>4. ASSUME NEW t \in Threads, LockToAcquire(t) \/ Add(t) \/ Relock(t) PROVE LocksHeld'
  BY <1>4 DEF LockToAcquire, Add, Relock, Move, Lock
<1>5. ASSUME NEW t \in Threads, Take(t) \/ GiveUp(t) \/ Wait(t) PROVE LocksHeld'
  BY <1>5 DEF Take, GiveUp, Wait, Move
<1>6. ASSUME NEW t \in Threads, Leave(t) \/ UnlockToWait(t) PROVE LocksHeld'
  BY <1>6 DEF Leave, UnlockToWait, Move, Unlock
<1>7. ASSUME NEW t \in Threads, BeginWait(t) PROVE LocksHeld'
  BY <1>7 DEF BeginWait, LockCondition, Move
<1>8. ASSUME NEW t \in Threads, Sleep(t) PROVE LocksHeld'
  BY <1>8 DEF Sleep, Move
<1>9. ASSUME NEW t \in Threads, PassCondition(t) \/ TimesOut(t) \/ WakesUp(t) PROVE LocksHeld'
  BY <1>9 DEF PassCondition, TimesOut, WakesUp, Move
<1>10. ASSUME NEW t \in Threads, WakeAll(t) \/ Destroy(t) PROVE LocksHeld'
  BY <1>10 DEF WakeAll, Destroy
<1> QED BY <1>1, <1>2, <1>3, <1>4, <1>5, <1>6, <1>7, <1>8, <1>9, <1>10, NextCases

LEMMA WaitStep == TypeOK /\ MayWait /\ [Next]_vars => MayWait'
<1> SUFFICES ASSUME TypeOK, MayWait, [Next]_vars PROVE MayWait'
  OBVIOUS
<1> USE SemaphoreAssumption DEF TypeOK, MayWait, Waiting, Forever, NoWait
<1>1. CASE UNCHANGED vars \/ Tick
  BY <1>1 DEF Tick, vars, args, waits, bounds
<1>2. ASSUME NEW t \in Threads, NEW n \in Amounts, Release(t, n) PROVE MayWait'
  BY <1>2 DEF Release, Call, Move, waits
<1>3. ASSUME NEW t \in Threads, NEW n \in Amounts, NEW time \in Timeouts, Acquire(t, n, time)
      PROVE MayWait'
  BY <1>3 DEF Acquire, Call, Move, waits
<1>4. ASSUME NEW t \in Threads, LockToAcquire(t) \/ Add(t) \/ Take(t) \/ GiveUp(t) \/ Wait(t)
      PROVE MayWait'
  BY <1>4 DEF LockToAcquire, Add, Take, GiveUp, Wait, Move, args, waits, bounds
<1>5. ASSUME NEW t \in Threads, BeginWait(t) \/ UnlockToWait(t) \/ PassCondition(t) PROVE MayWait'
  BY <1>5 DEF BeginWait, UnlockToWait, PassCondition, Move, args, waits, bounds
<1>6. ASSUME NEW t \in Threads, Leave(t) PROVE MayWait'
  BY <1>6 DEF Leave, bounds
<1>7. ASSUME NEW t \in Threads, Sleep(t) PROVE MayWait'
  BY <1>7 DEF Sleep, Move, args, bounds
<1>8. ASSUME NEW t \in Threads, TimesOut(t) \/ WakesUp(t) PROVE MayWait'
  BY <1>8 DEF TimesOut, WakesUp, Move, args, waits, bounds
<1>9. ASSUME NEW t \in Threads, Relock(t) PROVE MayWait'
  BY <1>9 DEF Relock, Move, args, bounds
<1>10. ASSUME NEW t \in Threads, WakeAll(t) \/ Destroy(t) PROVE MayWait'
  BY <1>10 DEF WakeAll, Destroy, args, waits, bounds
<1> QED BY <1>1, <1>2, <1>3, <1>4, <1>5, <1>6, <1>7, <1>8, <1>9, <1>10, NextCases

\* Of a thread that has found too little only a release changes that, and it wakes everybody
\* up: whoever holds one of the two mutexes keeps it from passing between test and sleep.
LEMMA WakeupStep == TypeOK /\ LocksHeld /\ NoLostWakeup /\ [Next]_vars => NoLostWakeup'
<1> SUFFICES ASSUME TypeOK, LocksHeld, NoLostWakeup, [Next]_vars PROVE NoLostWakeup'
  OBVIOUS
<1> USE DEF NoLostWakeup, Enough
<1>1. CASE UNCHANGED vars \/ Tick
  BY <1>1 DEF Tick, vars, args
<1>2. ASSUME NEW t \in Threads, NEW n \in Amounts, Release(t, n) PROVE NoLostWakeup'
  BY <1>2 DEF Release, Call, Move, TypeOK
<1>3. ASSUME NEW t \in Threads, NEW n \in Amounts, NEW time \in Timeouts, Acquire(t, n, time)
      PROVE NoLostWakeup'
  BY <1>3 DEF Acquire, Call, Move, TypeOK
<1>4. ASSUME NEW t \in Threads, LockToAcquire(t) \/ GiveUp(t) \/ Wait(t) PROVE NoLostWakeup'
  BY <1>4 DEF LockToAcquire, GiveUp, Wait, Move, TypeOK, args
<1>5. ASSUME NEW t \in Threads, Take(t) PROVE NoLostWakeup'
  <2>1. avail' <= avail
    BY <1>5, ArgumentTypes DEF Take, TypeOK
  <2>2. ASSUME NEW u \in Threads, need[u] <= avail' PROVE need[u] <= avail
    BY <1>5, <2>1, <2>2, ArgumentTypes DEF Take, TypeOK
  <2> QED BY <1>5, <2>2 DEF Take, Move, TypeOK, args
<1>6. ASSUME NEW t \in Threads, Leave(t) PROVE NoLostWakeup'
  BY <1>6 DEF Leave, TypeOK
<1>7. ASSUME NEW t \in Threads, BeginWait(t) \/ UnlockToWait(t) \/ Sleep(t) PROVE NoLostWakeup'
  BY <1>7 DEF BeginWait, UnlockToWait, Sleep, Move, TypeOK, args
<1>8. ASSUME NEW t \in Threads, PassCondition(t) \/ Relock(t) \/ TimesOut(t) \/ WakesUp(t)
      PROVE NoLostWakeup'
  BY <1>8 DEF PassCondition, Relock, TimesOut, WakesUp, Move, TypeOK, args
<1>9. ASSUME NEW t \in Threads, Add(t) PROVE NoLostWakeup'
  BY <1>9 DEF Add, Move, TypeOK
<1>10. ASSUME NEW t \in Threads, WakeAll(t) PROVE NoLostWakeup'
  <2>1. \A u \in Threads : pc[u] \notin {"beginWait", "leave", "sleep"}
    BY <1>10, SemaphoreAssumption
       DEF WakeAll, LocksHeld, HoldingMutex, HoldingCondition
  <2>2. \A u \in Threads : pc'[u] \notin {"beginWait", "leave", "sleep", "asleep"}
    BY <1>10, <2>1 DEF WakeAll
  <2> QED BY <2>2
<1>11. ASSUME NEW t \in Threads, Destroy(t) PROVE NoLostWakeup'
  BY <1>11 DEF Destroy, args
<1> QED BY <1>1, <1>2, <1>3, <1>4, <1>5, <1>6, <1>7, <1>8, <1>9, <1>10, <1>11, NextCases

LEMMA ReleaseStep == TypeOK /\ LocksHeld /\ Released /\ [Next]_vars => Released'
<1> SUFFICES ASSUME TypeOK, LocksHeld, Released, [Next]_vars PROVE Released'
  OBVIOUS
<1> USE DEF Released
<1>1. CASE UNCHANGED vars \/ Tick
  BY <1>1 DEF Tick, vars, args
<1>2. ASSUME NEW t \in Threads, NEW n \in Amounts, Release(t, n) PROVE Released'
  BY <1>2 DEF Release, Call, Move, TypeOK
<1>3. ASSUME NEW t \in Threads, NEW n \in Amounts, NEW time \in Timeouts, Acquire(t, n, time)
      PROVE Released'
  BY <1>3 DEF Acquire, Call, Move, TypeOK
<1>4. ASSUME NEW t \in Threads, LockToAcquire(t) \/ GiveUp(t) \/ Wait(t) PROVE Released'
  BY <1>4 DEF LockToAcquire, GiveUp, Wait, Move, TypeOK, args
<1>5. ASSUME NEW t \in Threads, Take(t) PROVE Released'
  <2>1. \A u \in Threads : pc'[u] \notin {"wakeAll", "released"}
    BY <1>5 DEF Take, Move, TypeOK, LocksHeld, HoldingMutex
  <2> QED BY <1>5, <2>1 DEF Take, Move, TypeOK, args
<1>6. ASSUME NEW t \in Threads, Leave(t) PROVE Released'
  BY <1>6 DEF Leave, TypeOK
<1>7. ASSUME NEW t \in Threads, BeginWait(t) \/ UnlockToWait(t) \/ Sleep(t) PROVE Released'
  BY <1>7 DEF BeginWait, UnlockToWait, Sleep, Move, TypeOK, args
<1>8. ASSUME NEW t \in Threads, PassCondition(t) \/ Relock(t) \/ TimesOut(t) \/ WakesUp(t)
      PROVE Released'
  BY <1>8 DEF PassCondition, Relock, TimesOut, WakesUp, Move, TypeOK, args
<1>9. ASSUME NEW t \in Threads, Add(t) PROVE Released'
  <2>1. avail' = avail + need[t] /\ need' = need
    BY <1>9 DEF Add, args
  <2>2. need[t] <= avail'
    BY <2>1, ArgumentTypes DEF TypeOK
  <2>3. \A u \in Threads : u # t => pc'[u] \notin {"wakeAll", "released"}
    BY <1>9, SemaphoreAssumption DEF Add, Lock, Move, TypeOK, LocksHeld, HoldingMutex
  <2> QED BY <1>9, <2>1, <2>2, <2>3 DEF Add, Move, TypeOK
<1>10. ASSUME NEW t \in Threads, WakeAll(t) PROVE Released'
  BY <1>10 DEF WakeAll, args
<1>11. ASSUME NEW t \in Threads, Destroy(t) PROVE Released'
  BY <1>11 DEF Destroy, args
<1> QED BY <1>1, <1>2, <1>3, <1>4, <1>5, <1>6, <1>7, <1>8, <1>9, <1>10, <1>11, NextCases

\* A thread that knows that it has taken the last resources knows that no release is under way.
LEMMA QuietStep ==
  ASSUME 0 \notin Amounts
  PROVE  TypeOK /\ Released /\ DestroyedQuietly /\ [Next]_vars => DestroyedQuietly'
<1> SUFFICES ASSUME TypeOK, Released, DestroyedQuietly, [Next]_vars PROVE DestroyedQuietly'
  OBVIOUS
<1> USE DEF DestroyedQuietly
<1>1. CASE UNCHANGED vars \/ Tick
  BY <1>1 DEF Tick, vars, life
<1>2. ASSUME NEW t \in Threads, NEW n \in Amounts, Release(t, n) PROVE DestroyedQuietly'
  BY <1>2 DEF Release, Call, life
<1>3. ASSUME NEW t \in Threads, NEW n \in Amounts, NEW time \in Timeouts, Acquire(t, n, time)
      PROVE DestroyedQuietly'
  BY <1>3 DEF Acquire, Call, life
<1>4. ASSUME NEW t \in Threads, Destroy(t) PROVE DestroyedQuietly'
  <2>1. ASSUME NEW u \in Threads, pc[u] \in {"wakeAll", "released"} PROVE FALSE
    <3>1. need[u] <= 0 /\ need[u] \in Amounts
      BY <1>4, <2>1 DEF Destroy, Released
    <3>2. need[u] = 0
      BY <3>1, ArgumentTypes
    <3> QED BY <3>1, <3>2
  <2> QED BY <1>4, <2>1 DEF Destroy
<1>5. ASSUME NEW t \in Threads, LockToAcquire(t) \/ Take(t) \/ GiveUp(t) \/ Wait(t) \/ Leave(t)
      PROVE DestroyedQuietly'
  BY <1>5 DEF LockToAcquire, Take, GiveUp, Wait, Leave, Move, life
<1>6. ASSUME NEW t \in Threads, BeginWait(t) \/ UnlockToWait(t) \/ Sleep(t) \/ PassCondition(t)
      PROVE DestroyedQuietly'
  BY <1>6 DEF BeginWait, UnlockToWait, Sleep, PassCondition, Move, life
<1>7. ASSUME NEW t \in Threads, Relock(t) \/ TimesOut(t) \/ WakesUp(t) \/ Add(t) \/ WakeAll(t)
      PROVE DestroyedQuietly'
  BY <1>7 DEF Relock, TimesOut, WakesUp, Add, WakeAll, Move, life
<1> QED BY <1>1, <1>2, <1>3, <1>4, <1>5, <1>6, <1>7, NextCases

-----------------------------------------------------------------------------
\* The refinement: what a change of one thread's step is for the abstract specification.
State == [t \in Threads |-> Phase(pc[t])]

LEMMA PhaseMoves ==
  ASSUME TypeOK, NEW t \in Threads, NEW to, pc' = [pc EXCEPT ![t] = to]
  PROVE  State' = [State EXCEPT ![t] = Phase(to)]
  BY DEF State, TypeOK

\* Steps between two of the same phase are none of the abstract specification.
LEMMA SamePhase ==
  ASSUME TypeOK, NEW t \in Threads, NEW to, pc' = [pc EXCEPT ![t] = to],
         Phase(to) = Phase(pc[t])
  PROVE  State' = State
  BY DEF State, TypeOK

LEMMA RefinementInit == Init => Counting!Init
  BY DEF Init, Counting!Init, Phase, Waiting, Forever, Counting!Forever

LEMMA RefinementStep ==
  TypeOK /\ MayWait /\ [Next]_vars => [Counting!Next]_(Counting!vars)
<1> SUFFICES ASSUME TypeOK, MayWait, [Next]_vars PROVE [Counting!Next]_(Counting!vars)
  OBVIOUS
<1> DEFINE Same == State' = State /\ UNCHANGED <<avail, args>>
<1>0. Same => [Counting!Next]_(Counting!vars)
  BY DEF State, Counting!vars, args
<1>1. CASE UNCHANGED vars \/ Tick
  BY <1>0, <1>1 DEF Tick, vars, State
<1>2. ASSUME NEW t \in Threads, NEW n \in Amounts, Release(t, n) PROVE Counting!Offer(t, n)
  BY <1>2, PhaseMoves DEF Release, Call, Move, Counting!Offer, Counting!Move, State, Phase, Waiting
<1>3. ASSUME NEW t \in Threads, NEW n \in Amounts, NEW time \in Timeouts, Acquire(t, n, time)
      PROVE Counting!Ask(t, n, time)
  BY <1>3, PhaseMoves DEF Acquire, Call, Move, Counting!Ask, Counting!Move, State, Phase, Waiting
<1>4. ASSUME NEW t \in Threads, Take(t) PROVE Counting!Grant(t)
  BY <1>4, PhaseMoves
     DEF Take, Enough, Move, args, Counting!Grant, Counting!Move, State, Phase, Waiting
<1>5. ASSUME NEW t \in Threads, GiveUp(t) PROVE Counting!Refuse(t)
  <2>1. State[t] = "asking" /\ State' = [State EXCEPT ![t] = "refused"]
    BY <1>5, PhaseMoves DEF GiveUp, Move, State, Phase, Waiting
  <2>2. timeout[t] # Forever /\ need[t] > avail
    BY <1>5, ArgumentTypes DEF GiveUp, Enough, TypeOK, NoWait, Forever
  <2> QED BY <1>5, <2>1, <2>2
          DEF GiveUp, args, Counting!Refuse, Counting!Move, Counting!Forever, Forever, State
<1>6. ASSUME NEW t \in Threads, Leave(t) PROVE Counting!Return(t)
  BY <1>6, PhaseMoves
     DEF Leave, Counting!Return, Counting!Forever, Forever, State, Phase, Waiting
<1>7. ASSUME NEW t \in Threads, Add(t) PROVE Counting!Give(t)
  BY <1>7, PhaseMoves DEF Add, Move, args, Counting!Give, Counting!Move, State, Phase, Waiting
<1>8. ASSUME NEW t \in Threads, Relock(t), timedOut[t] PROVE Counting!Refuse(t)
  <2>1. State[t] = "asking" /\ State' = [State EXCEPT ![t] = "refused"]
    BY <1>8, PhaseMoves DEF Relock, Move, State, Phase, Waiting
  <2>2. timeout[t] # Forever /\ timeout[t] # NoWait
    BY <1>8 DEF Relock, Move, MayWait, Waiting
  <2> QED BY <1>8, <2>1, <2>2
          DEF Relock, args, Counting!Refuse, Counting!Move, Counting!Forever, Forever,
              Counting!NoWait, NoWait, State
<1>9. ASSUME NEW t \in Threads, Relock(t), ~timedOut[t] PROVE Same
  BY <1>9, SamePhase DEF Relock, Move, Phase, Waiting
<1>10. ASSUME NEW t \in Threads, LockToAcquire(t) \/ Wait(t) PROVE Same
  BY <1>10, SamePhase DEF LockToAcquire, Wait, Move, Phase, Waiting
<1>11. ASSUME NEW t \in Threads, BeginWait(t) \/ UnlockToWait(t) \/ Sleep(t) PROVE Same
  BY <1>11, SamePhase DEF BeginWait, UnlockToWait, Sleep, Move, Phase, Waiting
<1>12. ASSUME NEW t \in Threads, PassCondition(t) \/ TimesOut(t) \/ WakesUp(t) PROVE Same
  BY <1>12, SamePhase DEF PassCondition, TimesOut, WakesUp, Move, Phase, Waiting
<1>13. ASSUME NEW t \in Threads, WakeAll(t) PROVE Same
  BY <1>13 DEF WakeAll, State, Phase, Waiting
<1>14. ASSUME NEW t \in Threads, Destroy(t) PROVE Same
  BY <1>14 DEF Destroy, State
<1>15. CASE \E t \in Threads : Relock(t)
  <2>1. PICK t \in Threads : Relock(t)
    BY <1>15
  <2>2. CASE timedOut[t]
    BY <1>8, <2>1, <2>2 DEF Counting!Next
  <2>3. CASE ~timedOut[t]
    BY <1>0, <1>9, <2>1, <2>3
  <2> QED BY <2>2, <2>3
<1>16. CASE \E t \in Threads : Take(t) \/ GiveUp(t) \/ Leave(t) \/ Add(t)
  BY <1>4, <1>5, <1>6, <1>7, <1>16 DEF Counting!Next
<1>17. CASE \E t \in Threads : \E n \in Amounts : Release(t, n)
  BY <1>2, <1>17 DEF Counting!Next
<1>18. CASE \E t \in Threads : \E n \in Amounts : \E time \in Timeouts : Acquire(t, n, time)
  BY <1>3, <1>18 DEF Counting!Next
<1>19. CASE \E t \in Threads :
              \/ LockToAcquire(t) \/ Wait(t) \/ BeginWait(t) \/ UnlockToWait(t) \/ Sleep(t)
              \/ PassCondition(t) \/ TimesOut(t) \/ WakesUp(t) \/ WakeAll(t) \/ Destroy(t)
  BY <1>0, <1>10, <1>11, <1>12, <1>13, <1>14, <1>19
<1> QED BY <1>1, <1>15, <1>16, <1>17, <1>18, <1>19, NextCases

-----------------------------------------------------------------------------
\* Every run of the semaphore keeps the inductive invariant.
THEOREM Invariance == Spec => []IInv
<1>1. IInv /\ [Next]_vars => IInv'
  BY TypeStep, LocksStep, WaitStep, WakeupStep DEF IInv
<1> QED BY <1>1, InitIInv, PTL DEF Spec

\* However acquire, tryAcquire and release overlap, and waits wake up for nothing or time out:
\* avail is never taken below zero (qsemaphore.cpp:125, :174 and :207).
THEOREM TypeCorrect == Spec => []TypeOK
<1>1. IInv => TypeOK
  BY DEF IInv
<1> QED BY <1>1, Invariance, PTL

\* No release falls between the test of a thread and its sleep.
THEOREM NoReleaseIsMissed == Spec => []NoLostWakeup
<1>1. IInv => NoLostWakeup
  BY DEF IInv
<1> QED BY <1>1, Invariance, PTL

\* A semaphore that is destroyed by the thread that took the last resources is used by nobody,
\* provided that nobody releases nothing.
THEOREM DestructionIsSafe == ASSUME 0 \notin Amounts PROVE Spec => []DestroyedQuietly
<1>1. Init => Released /\ DestroyedQuietly
  BY DEF Init, Released, DestroyedQuietly
<1>2. IInv /\ Released /\ DestroyedQuietly /\ [Next]_vars => Released' /\ DestroyedQuietly'
  BY ReleaseStep, QuietStep DEF IInv
<1> QED BY <1>1, <1>2, Invariance, PTL DEF Spec

\* The steps of QSemaphore, its mutex and its condition are those of a semaphore that hands
\* out its resources in single steps (the safety part of ImplementsCounting).
THEOREM StepsAreCounting == Spec => Counting!Init /\ [][Counting!Next]_(Counting!vars)
<1>1. IInv /\ [Next]_vars => [Counting!Next]_(Counting!vars)
  BY RefinementStep DEF IInv
<1> QED BY <1>1, RefinementInit, Invariance, PTL DEF Spec

============================================================================
