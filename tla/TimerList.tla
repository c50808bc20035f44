------------------------------ MODULE TimerList ------------------------------
(***************************************************************************)
(* QTimerInfoList (qeventdispatcher_unix.cpp) and the free list of timer    *)
(* identifiers (qabstracteventdispatcher.cpp): the timers of one thread, in *)
(* the order of their timeouts.  UnixDispatcher delivers them.              *)
(* A QTimerInfo and its identifier are one: both may be given out again     *)
(* after the timer is killed.  Time counts in steps of the clock.           *)
(***************************************************************************)
EXTENDS Integers, Sequences, SequencesExt, FiniteSetsExt, Sublists

CONSTANTS
  MaxTimers,  \* bound: the identifiers (QTimerMax)
  MaxTime,    \* bound: the clock
  Intervals,  \* the intervals programs ask for
  Objects,    \* the QObjects that own timers
  Nobody

ASSUME TimersAssumption == MaxTimers \in Nat /\ MaxTime \in Nat /\ Intervals \subseteq Nat

VARIABLES
  list,       \* the registered timers
  timeout,    \* timeout[t], interval[t], owner[t]: what the QTimerInfo of t says
  interval,
  owner,
  activateRef,  \* activateRef[t]: the call of activateTimers that delivers t, or 0
  firstTimer, \* firstTimerInfo, or 0
  now         \* the clock

timerVars == <<list, timeout, interval, owner, activateRef, firstTimer>>

Timers == 1..MaxTimers
Registered(t) == t \in ToSet(list)

\* Mutant of OwnedBy: the loop over the list skips the timer behind one that it removes.
OwnedBySkipping(o) ==
  {list[i] : i \in {j \in DOMAIN list : owner[list[j]] = o /\ (j = 1 \/ owner[list[j - 1]] # o)}}

OwnedBy(o) == {t \in ToSet(list) : owner[t] = o}
Expired(t, time) == timeout[t] <= time

TimersInit ==
  /\ list = <<>> /\ firstTimer = 0 /\ now = 0
  /\ timeout = [t \in Timers |-> 0] /\ interval = [t \in Timers |-> 0]
  /\ owner = [t \in Timers |-> Nobody]
  /\ activateRef = [t \in Timers |-> 0]

\* allocateTimerId: the first identifier that is free; the program dies without one.
FreeIds == Timers \ ToSet(list)

\* timerInsert: behind the last timer of l that is not later than time.
Behind(l, time) == Max({0} \cup {i \in DOMAIN l : timeout[l[i]] <= time})
TimerInsert(l, t, time) == InsertAt(l, Behind(l, time) + 1, t)

RegisterTimer(o, i) ==
  LET t == Min(FreeIds) IN
  /\ FreeIds # {}
  /\ interval' = [interval EXCEPT ![t] = i]
  /\ timeout' = [timeout EXCEPT ![t] = now + i]
  /\ owner' = [owner EXCEPT ![t] = o]
  /\ activateRef' = [activateRef EXCEPT ![t] = 0]
  /\ list' = TimerInsert(list, t, now + i)
  /\ UNCHANGED firstTimer

ForgetFirst(ts) == IF firstTimer \in ts THEN 0 ELSE firstTimer

\* unregisterTimer and unregisterTimers: the timers ts leave the list and are deleted.
Deleted(f, ts, none) == [t \in Timers |-> IF t \in ts THEN none ELSE f[t]]
UnregisterTimers(ts) ==
  /\ list' = Sublist(list, Timers \ ts)
  /\ firstTimer' = ForgetFirst(ts)
  /\ timeout' = Deleted(timeout, ts, 0)
  /\ interval' = Deleted(interval, ts, 0)
  /\ owner' = Deleted(owner, ts, Nobody)
  /\ activateRef' = Deleted(activateRef, ts, 0)

\* Mutant of TimerWait: the loop over the list goes on to its end.
WaitForLast == IF list = <<>> THEN MaxTime + 1 ELSE timeout[Last(list)]

\* timerWait: when the next timer that is not being delivered times out.
TimerWait ==
  LET waiting == Sublist(list, {t \in Timers : activateRef[t] = 0})
  IN  IF waiting = <<>> THEN MaxTime + 1 ELSE timeout[Head(waiting)]

\* activateTimers begins: how many timers have expired.
ExpiredCount == Cardinality({i \in DOMAIN list : \A j \in 1..i : Expired(list[j], now)})

\* The timer that is next in a call that began at time time and has left timers left.
MayFire(time, left) ==
  /\ left > 0 /\ list # <<>>
  /\ Expired(Head(list), time) /\ Head(list) # firstTimer

NextFirst(t) == IF firstTimer = 0 \/ interval[t] <= interval[firstTimer] THEN t ELSE firstTimer

\* Mutant of NextTimeout: a late timer is not put off, and stays at the head of the list.
NextTimeoutLate(t, time) == timeout[t] + interval[t]

NextTimeout(t, time) ==
  IF timeout[t] + interval[t] < time THEN time + interval[t] ELSE timeout[t] + interval[t]

\* The first timer is moved to its next timeout and, unless it is being delivered already,
\* marked as delivered by the call at depth.
Rearm(time, depth) ==
  LET t == Head(list) IN
  /\ firstTimer' = NextFirst(t)
  /\ timeout' = [timeout EXCEPT ![t] = NextTimeout(t, time)]
  /\ list' = TimerInsert(Tail(list), t, NextTimeout(t, time))
  /\ activateRef' = [activateRef EXCEPT ![t] = IF @ = 0 THEN depth ELSE @]
  /\ UNCHANGED <<interval, owner>>

Tick == now < MaxTime /\ now' = now + 1
=============================================================================
