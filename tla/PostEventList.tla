--------------------------- MODULE PostEventList ---------------------------
(***************************************************************************)
(* The list of posted events of one thread: its order, its three offsets,  *)
(* and the calls that use it at the same time because handlers nest them.  *)
(*                                                                         *)
(* sendPostedEvents calls a handler with the list unlocked.  The handler   *)
(* may post, remove and send events, delete objects, ask for a deferred    *)
(* delete, call processEvents and run a local event loop, and so may the   *)
(* handlers called by those; other threads may post and remove at the same *)
(* time.  The stack has one frame for each exec(), processEvents() and     *)
(* sendPostedEvents() in progress.                                         *)
(*                                                                         *)
(* A step is what happens between two points where postEventList.mutex can *)
(* be taken by another thread; the rounds of the sending loop that keep it *)
(* are steps of their own, and nobody else can step between them.          *)
(* recursion is incremented before the mutex is taken, in a step of its    *)
(* own.  Waking up is reduced to one flag, the byte in the dispatcher's    *)
(* pipe; EventLoop has the protocol behind it.                             *)
(*                                                                         *)
(* Definitions whose comment begins with "Mutant" are wrong on purpose:    *)
(* they show that a property fails when the code has that mistake.         *)
(***************************************************************************)
EXTENDS Integers, Sequences, FiniteSets, SequencesExt

CONSTANTS
  Receivers,     \* the objects that live in the thread
  NoReceiver,    \* the receiver argument 0 of sendPostedEvents
  Priorities,    \* the priorities given to postEvent
  Types,         \* the types of events used, among "plain" and "DeferredDelete"
  Programs,      \* the programs: what their handlers call, among "exec", "processEvents",
                 \* "send", "remove" and "delete", and (a bound) how many calls deep
  MaxEvents      \* bound: events put into the list

AnyType == "any"
Deleting == "DeferredDelete"
NullEvent == 0

ASSUME PostEventListAssumption ==
  /\ NoReceiver \notin Receivers
  /\ Priorities \subseteq Int
  /\ Types \subseteq {"plain", Deleting}
  /\ \A p \in Programs : /\ p.frames \in Nat
                          /\ p.calls \subseteq {"exec", "processEvents", "send", "remove", "delete"}
  /\ MaxEvents \in Nat

VARIABLES
  program,          \* the program that runs
  list,             \* QPostEventList: entries [event, rcv, type, priority, level, by]
  recursion, startOffset, insertionOffset,
  canWait, loopLevel,
  postedEvents,     \* QObjectPrivate::postedEvents of each receiver
  alive,            \* the receivers that are not destroyed
  interrupt, wake,  \* the dispatcher's flag, and whether its pipe holds a byte
  stack,            \* the calls in progress, innermost last
  serial,           \* how many events were put into the list
  owed              \* the events in the list that nobody sent or removed

listVars == <<list, recursion, startOffset, insertionOffset, canWait>>
objectVars == <<postedEvents, alive>>
wakeVars == <<interrupt, wake>>
ghostVars == <<serial, owed>>
vars == <<program, listVars, loopLevel, objectVars, wakeVars, stack, ghostVars>>

Calls == program.calls
MaxFrames == program.frames

\* A frame of sendPostedEvents; begun says that it has taken the mutex, at is the local
\* startOffset of a call for one receiver or type, entry what is being delivered.
NoEntry == [event |-> NullEvent, rcv |-> NoReceiver, type |-> AnyType, priority |-> 0,
            level |-> 0, by |-> NullEvent]
Exec == [kind |-> "exec", exit |-> FALSE]
Process(wait) == [kind |-> "process", wait |-> wait, sent |-> FALSE]
Send(rcv, type) == [kind |-> "send", rcv |-> rcv, type |-> type, begun |-> FALSE,
                    at |-> 0, entry |-> NoEntry]

Top == stack[Len(stack)]
TopIs(kind) == stack # <<>> /\ Top.kind = kind
SetTop(frame) == [stack EXCEPT ![Len(stack)] = frame]
Pop == SubSeq(stack, 1, Len(stack) - 1)
Delivering(k) == stack[k].kind = "send" /\ stack[k].entry.event # NullEvent

Init ==
  /\ program \in Programs
  /\ list = <<>> /\ recursion = 0 /\ startOffset = 0 /\ insertionOffset = 0
  /\ canWait = TRUE /\ loopLevel = 0
  /\ postedEvents = [r \in Receivers |-> 0] /\ alive = Receivers
  /\ interrupt = FALSE /\ wake = FALSE
  /\ stack = <<>> /\ serial = 0 /\ owed = {}

\* The thread runs code of the application: before exec() or in a handler.
InUserCode == stack # <<>> => Delivering(Len(stack))
\* Nobody holds postEventList.mutex.
Unlocked == TopIs("send") /\ Top.begun => Delivering(Len(stack))

-----------------------------------------------------------------------------
(* postEvent and removePostedEvents.                                       *)

\* What is left of an entry in its place: only its priority is still read.
NullEntry(entry) == [NoEntry EXCEPT !.priority = entry.priority]

\* Mutant of UpperBound: qLowerBound.
LowerBound(l, offset, priority) ==
  offset + Cardinality({k \in (offset + 1)..Len(l) : l[k].priority > priority})

\* qUpperBound in the part of l after the first offset entries, which has to be sorted:
\* the entries before the place where priority goes.
UpperBound(l, offset, priority) ==
  offset + Cardinality({k \in (offset + 1)..Len(l) : l[k].priority >= priority})

\* Mutant of AddEvent: always the optimization.
AppendEvent(l, entry) == Append(l, entry)

\* QPostEventList::addEvent; an insertion point past the end appends.
AddEvent(l, entry) ==
  IF l = <<>> \/ Last(l).priority >= entry.priority
    THEN Append(l, entry)
    ELSE LET at == UpperBound(l, insertionOffset, entry.priority)
         IN  IF at >= Len(l) THEN Append(l, entry) ELSE InsertAt(l, at + 1, entry)

IsFor(entry, rcv, type) ==
  /\ entry.event # NullEvent
  /\ rcv \in {NoReceiver, entry.rcv}
  /\ type \in {AnyType, entry.type}

\* compressEvent: the receiver is going to be deleted already.
Compressed(rcv, type) ==
  /\ type = Deleting /\ postedEvents[rcv] > 0
  /\ \E k \in DOMAIN list : IsFor(list[k], rcv, type)

\* The event whose handler is running.
Handling == IF stack = <<>> THEN NullEvent ELSE Top.entry.event

PostEvent(own, rcv, type, priority) ==
  /\ own => InUserCode
  /\ Unlocked /\ rcv \in alive /\ serial < MaxEvents
  /\ ~Compressed(rcv, type)
  /\ serial' = serial + 1 /\ owed' = owed \cup {serial + 1}
  /\ list' = AddEvent(list, [event |-> serial + 1, rcv |-> rcv, type |-> type,
                             priority |-> priority,
                             level |-> IF own /\ type = Deleting THEN loopLevel ELSE 0,
                             by |-> IF own THEN Handling ELSE NullEvent])
  /\ postedEvents' = [postedEvents EXCEPT ![rcv] = @ + 1]
  /\ canWait' = FALSE /\ wake' = TRUE
  /\ UNCHANGED <<recursion, startOffset, insertionOffset, loopLevel, alive, interrupt, stack>>

\* Taking the events for rcv and type out: while somebody sends, they stay as null entries.
Without(rcv, type) ==
  IF recursion > 0
    THEN [k \in DOMAIN list |-> IF IsFor(list[k], rcv, type) THEN NullEntry(list[k])
                                                           ELSE list[k]]
    ELSE LET kept == {k \in DOMAIN list : ~IsFor(list[k], rcv, type)}
             upTo(k) == {j \in kept : j <= k}
         IN  [n \in 1..Cardinality(kept) |-> list[CHOOSE k \in kept : Cardinality(upTo(k)) = n]]

Pending(rcv, type) == {list[k].event : k \in {j \in DOMAIN list : IsFor(list[j], rcv, type)}}

\* Mutant of TakeOut: nothing is removed while somebody sends.
TakeOutUnlessSending(rcv, type) ==
  IF recursion > 0
    THEN UNCHANGED <<list, postedEvents, owed>>
    ELSE /\ list' = Without(rcv, type)
         /\ postedEvents' = [r \in Receivers |->
              postedEvents[r] - IF rcv \in {NoReceiver, r} THEN Cardinality(Pending(r, type))
                                                          ELSE 0]
         /\ owed' = owed \ Pending(rcv, type)

\* removePostedEvents, as a call of its own and at the end of ~QObject.
TakeOut(rcv, type) ==
  IF rcv # NoReceiver /\ postedEvents[rcv] = 0
    THEN UNCHANGED <<list, postedEvents, owed>>
    ELSE /\ list' = Without(rcv, type)
         /\ postedEvents' = [r \in Receivers |->
              postedEvents[r] - IF rcv \in {NoReceiver, r} THEN Cardinality(Pending(r, type))
                                                          ELSE 0]
         /\ owed' = owed \ Pending(rcv, type)

RemovePostedEvents(rcv, type) ==
  /\ "remove" \in Calls /\ Unlocked /\ rcv \in alive \cup {NoReceiver}
  /\ rcv = NoReceiver => InUserCode
  /\ TakeOut(rcv, type)
  /\ UNCHANGED <<recursion, startOffset, insertionOffset, canWait, loopLevel, alive, wakeVars,
                 stack, serial>>

\* A handler deletes an object that is not handling an event itself, or the handler of a
\* DeferredDelete its receiver.
Busy == {stack[k].entry.rcv : k \in {j \in DOMAIN stack : Delivering(j)}}
DeleteObject(rcv) ==
  /\ stack # <<>> /\ InUserCode /\ rcv \in alive
  /\ IF Top.entry.type = Deleting THEN rcv = Top.entry.rcv
                                  ELSE "delete" \in Calls /\ rcv \notin Busy
  /\ alive' = alive \ {rcv}
  /\ TakeOut(rcv, AnyType)
  /\ UNCHANGED <<recursion, startOffset, insertionOffset, canWait, loopLevel, wakeVars,
                 stack, serial>>

-----------------------------------------------------------------------------
(* sendPostedEvents.                                                       *)

\* The call, up to the lock.
Enter(rcv, type, below) ==
  /\ recursion' = recursion + 1
  /\ stack' = Append(below, Send(rcv, type))

CallSendPostedEvents(rcv, type) ==
  /\ "send" \in Calls /\ InUserCode /\ Len(stack) < MaxFrames
  /\ TopIs("send") => Top.entry.type # Deleting
  /\ rcv \in alive \cup {NoReceiver}
  /\ Enter(rcv, type, stack)
  /\ UNCHANGED <<list, startOffset, insertionOffset, canWait, loopLevel, objectVars, wakeVars,
                 ghostVars>>

\* With the lock, up to its loop.
BeginSend ==
  /\ TopIs("send") /\ ~Top.begun
  /\ IF list = <<>> \/ (Top.rcv # NoReceiver /\ postedEvents[Top.rcv] = 0)
       THEN /\ canWait' = (list = <<>>)
            /\ recursion' = recursion - 1
            /\ stack' = Pop
            /\ UNCHANGED insertionOffset
       ELSE /\ canWait' = TRUE
            /\ insertionOffset' = Len(list)
            /\ stack' = SetTop([Top EXCEPT !.begun = TRUE, !.at = startOffset])
            /\ UNCHANGED recursion
  /\ UNCHANGED <<list, startOffset, loopLevel, objectVars, wakeVars, ghostVars>>

\* i of the innermost call: the list's own startOffset when it sends everything.
SendsAll == Top.rcv = NoReceiver /\ Top.type = AnyType
At == IF SendsAll THEN startOffset ELSE Top.at
InLoop == TopIs("send") /\ Top.begun /\ Top.entry.event = NullEvent
InRound == InLoop /\ At < Len(list) /\ At < insertionOffset
Current == list[At + 1]

\* ++i
Advance == IF SendsAll THEN startOffset' = startOffset + 1 /\ stack' = stack
                       ELSE startOffset' = startOffset
                            /\ stack' = SetTop([Top EXCEPT !.at = @ + 1])

\* Mutant of AllowDeferredDelete: the levels are compared the other way round.
AllowInnerLoop(entry, level, type) ==
  \/ entry.level < level
  \/ entry.level = 0 /\ level > 0
  \/ type = Deleting /\ entry.level = level

AllowDeferredDelete(entry, level, type) ==
  \/ entry.level > level
  \/ entry.level = 0 /\ level > 0
  \/ type = Deleting /\ entry.level = level

MustWait(entry, type) == entry.type = Deleting /\ ~AllowDeferredDelete(entry, loopLevel, type)

\* An entry that was sent or removed, or that this call is not for.
SkipEvent ==
  /\ InRound
  /\ ~IsFor(Current, Top.rcv, Top.type)
  /\ Advance
  /\ canWait' = (canWait /\ Current.event = NullEvent)
  /\ UNCHANGED <<list, recursion, insertionOffset, loopLevel, objectVars, wakeVars, ghostVars>>

\* Mutant of Nulled: the entry stays what it was.
NotNulled(l, k) == l

Nulled(l, k) == [l EXCEPT ![k] = NullEntry(l[k])]

\* A DeferredDelete that has to wait for an outer loop goes back into the list.
PostponeDelete ==
  /\ InRound
  /\ IsFor(Current, Top.rcv, Top.type) /\ MustWait(Current, Top.type)
  /\ Advance
  /\ list' = IF SendsAll THEN Nulled(AddEvent(list, Current), At + 1) ELSE list
  /\ UNCHANGED <<recursion, insertionOffset, canWait, loopLevel, objectVars, wakeVars,
                 ghostVars>>

\* The event leaves the list, and its handler is called with the list unlocked.
SendEvent ==
  /\ InRound
  /\ IsFor(Current, Top.rcv, Top.type) /\ ~MustWait(Current, Top.type)
  /\ list' = Nulled(list, At + 1)
  /\ postedEvents' = [postedEvents EXCEPT ![Current.rcv] = @ - 1]
  /\ owed' = owed \ {Current.event}
  /\ loopLevel' = loopLevel + 1
  /\ startOffset' = IF SendsAll THEN startOffset + 1 ELSE startOffset
  /\ stack' = SetTop([Top EXCEPT !.entry = Current, !.at = At + 1])
  /\ UNCHANGED <<recursion, insertionOffset, canWait, alive, wakeVars, serial>>

HandlerReturn ==
  /\ TopIs("send") /\ Top.entry.event # NullEvent
  /\ Top.entry.type = Deleting => Top.entry.rcv \notin alive
  /\ loopLevel' = loopLevel - 1
  /\ stack' = SetTop([Top EXCEPT !.entry = NoEntry])
  /\ UNCHANGED <<listVars, objectVars, wakeVars, ghostVars>>

\* The end: the outermost call wakes the dispatcher up for what is left, and a call for
\* everything erases what it went past.
SendDone ==
  /\ InLoop /\ ~InRound
  /\ recursion' = recursion - 1
  /\ wake' = (wake \/ (recursion = 1 /\ ~canWait))
  /\ IF SendsAll
       THEN /\ list' = SubSeq(list, startOffset + 1, Len(list))
            /\ insertionOffset' = insertionOffset - startOffset
            /\ startOffset' = 0
       ELSE UNCHANGED <<list, insertionOffset, startOffset>>
  /\ stack' = Pop
  /\ UNCHANGED <<canWait, loopLevel, objectVars, interrupt, ghostVars>>

-----------------------------------------------------------------------------
(* exec and processEvents.                                                 *)

\* A handler, or the thread before its first loop, runs an event loop...
CallExec ==
  /\ InUserCode
  /\ stack # <<>> => "exec" \in Calls /\ Top.entry.type # Deleting
  /\ Len(stack) < MaxFrames
  /\ loopLevel' = loopLevel + 1
  /\ stack' = Append(stack, Exec)
  /\ UNCHANGED <<listVars, objectVars, wakeVars, ghostVars>>

\* ... which calls processEvents until it is told to exit...
LoopProcessEvents ==
  /\ TopIs("exec") /\ ~Top.exit /\ Len(stack) < MaxFrames
  /\ interrupt' = FALSE
  /\ stack' = Append(stack, Process(TRUE))
  /\ UNCHANGED <<listVars, loopLevel, objectVars, wake, ghostVars>>

ExecReturn ==
  /\ TopIs("exec") /\ Top.exit
  /\ loopLevel' = loopLevel - 1
  /\ stack' = Pop
  /\ UNCHANGED <<listVars, objectVars, wakeVars, ghostVars>>

\* ... by a handler: QEventLoop::exit of the innermost loop.
Innermost == CHOOSE k \in DOMAIN stack :
               stack[k].kind = "exec" /\ \A j \in DOMAIN stack : j > k => stack[j].kind # "exec"

\* Mutant of Exit: the loop is told, the dispatcher is not.
ExitQuietly ==
  /\ stack # <<>> /\ Delivering(Len(stack))
  /\ \E k \in DOMAIN stack : stack[k].kind = "exec"
  /\ stack' = [stack EXCEPT ![Innermost].exit = TRUE]
  /\ UNCHANGED <<listVars, loopLevel, objectVars, wakeVars, ghostVars>>

Exit ==
  /\ stack # <<>> /\ Delivering(Len(stack))
  /\ \E k \in DOMAIN stack : stack[k].kind = "exec"
  /\ stack' = [stack EXCEPT ![Innermost].exit = TRUE]
  /\ interrupt' = TRUE /\ wake' = TRUE
  /\ UNCHANGED <<listVars, loopLevel, objectVars, ghostVars>>

\* A handler calls QCoreApplication::processEvents itself.
CallProcessEvents ==
  /\ "processEvents" \in Calls
  /\ stack # <<>> /\ Delivering(Len(stack)) /\ Top.entry.type # Deleting
  /\ Len(stack) < MaxFrames
  /\ interrupt' = FALSE
  /\ stack' = Append(stack, Process(FALSE))
  /\ UNCHANGED <<listVars, loopLevel, objectVars, wake, ghostVars>>

ProcessSend ==
  /\ TopIs("process") /\ ~Top.sent /\ Len(stack) < MaxFrames
  /\ Enter(NoReceiver, AnyType, SetTop([Top EXCEPT !.sent = TRUE]))
  /\ UNCHANGED <<list, startOffset, insertionOffset, canWait, loopLevel, objectVars, wakeVars,
                 ghostVars>>

\* processEvents after sendPostedEvents: it sleeps, or it returns and has emptied the
\* pipe unless it was interrupted.
Sleeps == TopIs("process") /\ Top.sent /\ Top.wait /\ canWait /\ ~interrupt /\ ~wake
ProcessReturn ==
  /\ TopIs("process") /\ Top.sent /\ ~Sleeps
  /\ wake' = (wake /\ interrupt)
  /\ stack' = Pop
  /\ UNCHANGED <<listVars, loopLevel, objectVars, interrupt, ghostVars>>

Step ==
  \/ \E own \in BOOLEAN, rcv \in Receivers, type \in Types, priority \in Priorities :
       PostEvent(own, rcv, type, priority)
  \/ \E rcv \in Receivers, type \in Types \cup {AnyType} : RemovePostedEvents(rcv, type)
  \/ \E type \in Types : RemovePostedEvents(NoReceiver, type)
  \/ \E rcv \in Receivers : DeleteObject(rcv)
  \/ \E rcv \in Receivers : CallSendPostedEvents(rcv, AnyType)
  \/ \E type \in Types \cup {AnyType} : CallSendPostedEvents(NoReceiver, type)
  \/ BeginSend \/ SkipEvent \/ PostponeDelete \/ SendEvent \/ HandlerReturn \/ SendDone
  \/ CallExec \/ LoopProcessEvents \/ ExecReturn \/ Exit \/ CallProcessEvents
  \/ ProcessSend \/ ProcessReturn

Next == Step /\ UNCHANGED program

Spec == Init /\ [][Next]_vars

-----------------------------------------------------------------------------
(* Properties.                                                             *)

Events(r) == {k \in DOMAIN list : list[k].event # NullEvent /\ list[k].rcv = r}
Entries == [event : 0..MaxEvents, rcv : Receivers \cup {NoReceiver},
            type : Types \cup {AnyType}, priority : Priorities \cup {0},
            level : Nat, by : 0..MaxEvents]

Frames == [kind : {"exec"}, exit : BOOLEAN]
          \cup [kind : {"process"}, wait : BOOLEAN, sent : BOOLEAN]
          \cup [kind : {"send"}, rcv : Receivers \cup {NoReceiver}, type : Types \cup {AnyType},
                begun : BOOLEAN, at : Nat, entry : Entries]

\* The offsets stay in the list where they are used as places in it: the Q_ASSERTs of
\* qcoreapplication.cpp:974 and 1008.
TypeOK ==
  /\ program \in Programs /\ stack \in Seq(Frames)
  /\ list \in Seq(Entries)
  /\ recursion \in Nat /\ startOffset \in 0..Len(list) /\ insertionOffset \in Nat
  /\ canWait \in BOOLEAN /\ loopLevel \in Nat
  /\ postedEvents \in [Receivers -> Nat] /\ alive \subseteq Receivers
  /\ interrupt \in BOOLEAN /\ wake \in BOOLEAN
  /\ serial \in 0..MaxEvents /\ owed \subseteq 1..MaxEvents

\* Nested calls, removals in the middle of them and postponed deletes neither lose an
\* event nor leave it in the list twice: what nobody sent or removed is there once.
NothingLostOrDoubled ==
  /\ owed = {list[k].event : k \in DOMAIN list} \ {NullEvent}
  /\ \A j, k \in DOMAIN list :
       list[j].event = list[k].event /\ list[j].event # NullEvent => j = k

\* The list never holds an event for an object that is gone, and the counter that decides
\* whether ~QObject, sendPostedEvents and removePostedEvents look at the list at all is the
\* number of an object's events in it (qobject.cpp:145).
NoEventToDeleted ==
  /\ \A r \in Receivers \ alive : Events(r) = {}
  /\ \A r \in alive : postedEvents[r] = Cardinality(Events(r))

\* Events of one priority are in the order in which they were posted, whatever was
\* inserted, sent or removed between them (qthread_p.h:98); a delete that had to wait is
\* put behind.
EqualPriorityInOrder ==
  \A j, k \in DOMAIN list :
    /\ j < k /\ list[j].priority = list[k].priority
    /\ NullEvent \notin {list[j].event, list[k].event}
    /\ Deleting \notin {list[j].type, list[k].type}
    => list[j].event < list[k].event

\* Between two calls of sendPostedEvents the list is sorted by priority (qthread_p.h:73),
\* unless handlers send the events of one object or type.
Sorted ==
  recursion = 0 =>
    \A j, k \in DOMAIN list :
      j < k /\ NullEvent \notin {list[j].event, list[k].event}
        => list[j].priority >= list[k].priority
PriorityOrder == "send" \notin Calls => Sorted

\* An object is never deleted by a call for all types of events while the handler that
\* asked for its deferred delete is still running (qcoreapplication.cpp:955).
DeferredDeleteWaits ==
  \A k \in DOMAIN stack :
    Delivering(k) /\ stack[k].entry.type = Deleting /\ stack[k].type = AnyType
      => \A j \in 1..(k - 1) :
           Delivering(j) => stack[j].entry.event # stack[k].entry.by

\* The thread does not go to sleep while the list has an event that could be sent now,
\* unless handlers call processEvents or sendPostedEvents themselves.
NothingToSend ==
  Sleeps => \A k \in DOMAIN list :
              list[k].event # NullEvent => MustWait(list[k], AnyType)
SleepsWithNothingToSend == Calls \cap {"send", "processEvents"} = {} => NothingToSend
=============================================================================
