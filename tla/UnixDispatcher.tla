---------------------------- MODULE UnixDispatcher ----------------------------
(***************************************************************************)
(* QEventDispatcherUNIX::processEvents of one thread: it selects, activates *)
(* the socket notifiers that are ready and then the timers that expired.    *)
(* Slots and event handlers start, kill, enable and disable both and call   *)
(* processEvents again (nested event loops), so a call may find lists,      *)
(* pointers and flags changed whenever a handler returns.  The calls are a  *)
(* stack; EventLoop has what wakes a thread up, PostEventList the events    *)
(* that are sent first.                                                    *)
(***************************************************************************)
EXTENDS TimerList, SocketNotifiers

CONSTANTS
  MaxDepth,  \* bound: calls of processEvents within each other
  MaxCalls   \* bound: timers and notifiers that are started, killed, enabled, ...

ASSUME DispatcherAssumption ==
  /\ MaxDepth \in Nat /\ MaxCalls \in Nat /\ Nobody \notin Notifiers \cup Objects

VARIABLES
  stack,  \* the calls of processEvents, the innermost last
  living, \* the QObjects that exist
  calls   \* counts against MaxCalls

vars == <<timerVars, now, notifierVars, ready, closed, stack, living, calls>>
timers == <<timerVars, now>>
notifiers == <<notifierVars, ready, closed>>

Depth == Len(stack)
Top == stack[Depth]
At(at) == stack # <<>> /\ Top.at = at

\* One call: where it is, until when select() may sleep, and of activateTimers the local
\* variables currentTimerInfo, currentTime and maxCount; to is whom the event went to.
NewCall(until) == [at |-> "select", until |-> until, cur |-> 0, time |-> 0, left |-> 0,
                   to |-> Nobody]
Go(f) == stack' = [stack EXCEPT ![Depth] = f]

\* The thread runs the program: outside processEvents, in a slot or in a handler.
InProgram == stack = <<>> \/ At("slot") \/ At("timerEvent")

Init ==
  /\ TimersInit /\ NotifiersInit
  /\ stack = <<>> /\ living = Objects /\ calls = 0

-----------------------------------------------------------------------------
(* The program.                                                            *)

Spend == InProgram /\ calls < MaxCalls /\ calls' = calls + 1

\* The activateRef of a timer that goes points to the local variable of a call.
Forget(ts) == [i \in DOMAIN stack |->
                 IF stack[i].cur \in ts THEN [stack[i] EXCEPT !.cur = 0] ELSE stack[i]]

StartTimer(o, i) ==
  /\ Spend /\ o \in living
  /\ RegisterTimer(o, i)
  /\ UNCHANGED <<now, notifiers, stack, living>>

KillTimer(t) ==
  /\ Spend /\ Registered(t)
  /\ UnregisterTimers({t})
  /\ stack' = Forget({t})
  /\ UNCHANGED <<now, notifiers, living>>

\* ~QObject, which kills the timers of the object; not while the object handles an event.
DestroyObject(o) ==
  /\ Spend /\ o \in living /\ \A i \in DOMAIN stack : stack[i].to # o
  /\ living' = living \ {o}
  /\ UnregisterTimers(OwnedBy(o))
  /\ stack' = Forget(OwnedBy(o))
  /\ UNCHANGED <<now, notifiers>>

Enable(n) ==
  /\ Spend /\ RegisterNotifier(n)
  /\ UNCHANGED <<timers, ready, closed, stack, living>>

\* setEnabled(false), also from ~QSocketNotifier.
Disable(n) ==
  /\ Spend /\ UnregisterNotifier(n)
  /\ UNCHANGED <<timers, ready, closed, stack, living>>

CloseFd(n) ==
  /\ Spend /\ Fd[n] \notin closed
  /\ closed' = closed \cup {Fd[n]}
  /\ ready' = {m \in ready : Fd[m] # Fd[n]}
  /\ UNCHANGED <<timers, notifierVars, stack, living>>

\* The program reads or writes what the socket has.
Consume(n) ==
  /\ InProgram /\ n \in ready
  /\ ready' = ready \ {n}
  /\ UNCHANGED <<timers, notifierVars, closed, stack, living, calls>>

Arrive(n) ==
  /\ n \notin ready /\ Fd[n] \notin closed
  /\ ready' = ready \cup {n}
  /\ UNCHANGED <<timers, notifierVars, closed, stack, living, calls>>

Clock ==
  /\ Tick
  /\ UNCHANGED <<timerVars, notifiers, stack, living, calls>>

-----------------------------------------------------------------------------
(* processEvents.                                                          *)

\* A call that may wait sleeps until the next timer, another one not at all.
ProcessEvents(canWait) ==
  /\ InProgram /\ Depth < MaxDepth
  /\ stack' = Append(stack, NewCall(IF canWait THEN TimerWait ELSE 0))
  /\ UNCHANGED <<timers, notifiers, living, calls>>

\* select() returns what is ready, if its time is over or (byPipe) somebody wakes the thread.
Select(byPipe) ==
  /\ At("select") /\ Bad = {}
  /\ byPipe \/ Top.until <= now \/ Selected # {}
  /\ SetPending
  /\ Go([Top EXCEPT !.at = "sockets"])
  /\ UNCHANGED <<timers, ready, closed, living, calls>>

\* select() fails with EBADF.
SelectFails ==
  /\ At("select") /\ Bad # {}
  /\ DisableBad
  /\ Go([Top EXCEPT !.at = "sockets"])
  /\ UNCHANGED <<timers, ready, closed, living, calls>>

ActivateNotifier ==
  /\ At("sockets") /\ TakePending
  /\ IF Activates THEN Go([Top EXCEPT !.at = "slot", !.to = Head(pending)]) ELSE UNCHANGED stack
  /\ UNCHANGED <<timers, ready, closed, living, calls>>

SlotReturns ==
  /\ At("slot")
  /\ Go([Top EXCEPT !.at = "sockets", !.to = Nobody])
  /\ UNCHANGED <<timers, notifiers, living, calls>>

\* activateTimers counts the timers that have expired ...
ActivateTimers ==
  /\ At("sockets") /\ pending = <<>> /\ list # <<>>
  /\ Go([Top EXCEPT !.at = "timers", !.time = now, !.left = ExpiredCount])
  /\ firstTimer' = 0
  /\ UNCHANGED <<list, timeout, interval, owner, activateRef, now, notifiers, living, calls>>

\* ... unless there is none at all: processEvents is over.
NoTimers ==
  /\ At("sockets") /\ pending = <<>> /\ list = <<>>
  /\ stack' = Front(stack)
  /\ UNCHANGED <<timers, notifiers, living, calls>>

MaySend(t) == activateRef[t] = 0

\* The first timer is sent its event, unless a call further out is just doing that.
FireTimer ==
  LET t == Head(list)
      f == [Top EXCEPT !.left = @ - 1]
  IN  /\ At("timers") /\ MayFire(Top.time, Top.left)
      /\ Rearm(Top.time, Depth)
      /\ Go(IF MaySend(t)
              THEN [f EXCEPT !.at = "timerEvent", !.cur = t, !.to = owner[t]] ELSE f)
      /\ UNCHANGED <<now, notifiers, living, calls>>

TimerEventReturns ==
  /\ At("timerEvent")
  /\ activateRef' = [t \in Timers |-> IF t = Top.cur THEN 0 ELSE activateRef[t]]
  /\ Go([Top EXCEPT !.at = "timers", !.cur = 0, !.to = Nobody])
  /\ UNCHANGED <<list, timeout, interval, owner, firstTimer, now, notifiers, living, calls>>

Return ==
  /\ At("timers") /\ ~MayFire(Top.time, Top.left)
  /\ stack' = Front(stack)
  /\ firstTimer' = 0
  /\ UNCHANGED <<list, timeout, interval, owner, activateRef, now, notifiers, living, calls>>

-----------------------------------------------------------------------------
Program ==
  \/ \E o \in Objects : DestroyObject(o) \/ \E i \in Intervals : StartTimer(o, i)
  \/ \E t \in Timers : KillTimer(t)
  \/ \E n \in Notifiers : Enable(n) \/ Disable(n) \/ CloseFd(n) \/ Consume(n)
  \/ ProcessEvents(FALSE)

Dispatch ==
  \/ Select(FALSE) \/ SelectFails \/ ActivateNotifier \/ SlotReturns
  \/ ActivateTimers \/ NoTimers \/ FireTimer \/ TimerEventReturns \/ Return

Next ==
  \/ Program \/ ProcessEvents(TRUE) \/ Dispatch \/ Select(TRUE)
  \/ Clock \/ \E n \in Notifiers : Arrive(n)

Spec == Init /\ [][Next]_vars

\* The event loop calls processEvents again and again, and slots and handlers return.
FairSpec == Spec /\ WF_vars(Dispatch) /\ WF_vars(stack = <<>> /\ ProcessEvents(TRUE))

-----------------------------------------------------------------------------
(* Properties.                                                             *)

\* No pointer outlives what it points to, whatever handlers kill and delete: firstTimerInfo
\* and the currentTimerInfo of every call that is under way are registered timers, activateRef
\* points to the one call that delivers the timer ("don't allow it to recurse"), every timer
\* has a living owner, and what is pending is enabled.
PointersValid ==
  /\ firstTimer # 0 => Registered(firstTimer)
  /\ \A i \in DOMAIN stack : stack[i].cur # 0 =>
        Registered(stack[i].cur) /\ activateRef[stack[i].cur] = i
  /\ \A t \in ToSet(list) : activateRef[t] # 0 =>
        activateRef[t] \in DOMAIN stack /\ stack[activateRef[t]].cur = t
  /\ \A t \in ToSet(list) : owner[t] \in living
  /\ \A n \in ToSet(pending) : Enabled(n)

\* A thread in select() wakes up no later than the first timer that can be delivered.
SleepsUntilNextTimer ==
  At("select") => \A t \in ToSet(list) : activateRef[t] = 0 => Top.until <= timeout[t]

\* What select() is told agrees with the lists of notifiers, and the pending list with its bits,
\* so that no enabled notifier is left out, in whatever order they are enabled and disabled.
WatchesEveryNotifier ==
  /\ watched = {n \in Notifiers : Enabled(n)}
  /\ highest = Max({-1} \cup {Fd[n] : n \in watched})
  /\ queued = ToSet(pending) /\ IsInjective(pending)

\* A timer that has expired is delivered or killed: others that expire all the time, are late or
\* run event loops do not keep it from that.
ExpiredIsDelivered ==
  \A t \in Timers : Registered(t) /\ Expired(t, now) ~> activateRef[t] # 0 \/ ~Registered(t)

\* A notifier that has something to tell is activated, unless it is disabled or the program
\* takes what there is: other notifiers and timers do not keep it from that.
ReadyIsActivated ==
  \A n \in Notifiers : Enabled(n) /\ n \in ready ~>
    \/ \E i \in DOMAIN stack : stack[i].to = n
    \/ ~Enabled(n) \/ n \notin ready
=============================================================================
