------------------------------ MODULE SignalSlot ------------------------------
(***************************************************************************)
(* The connections between QObjects: connect, disconnect, emission and     *)
(* the destructor, called by several threads and from the slots that an    *)
(* emission calls.                                                         *)
(*                                                                         *)
(* Every object shares one of a pool of mutexes, compared by address       *)
(* (MutexOf, in that order).  A connection stands in a list of its sender, *)
(* under the sender's mutex, and in the list of its receiver's senders,    *)
(* under the mutexes of both.  A slot is called with no mutex held, so     *)
(* each thread has a stack of frames: a slot may connect, disconnect, emit *)
(* and destroy objects.  A step keeps its mutexes from one unlock to the   *)
(* next; mutexes held while another is waited for stay in owner.           *)
(*                                                                         *)
(* An object and the sender's vector of lists are numbered alike: an       *)
(* address is not used twice.  Slots are not told apart by their method;   *)
(* children, timers and events of an object are not here.                  *)
(*                                                                         *)
(* Definitions whose comment begins with "Mutant" are wrong on purpose:    *)
(* they show that a property fails when the code has that mistake.         *)
(***************************************************************************)
EXTENDS Integers, FiniteSets, Sequences

CONSTANTS
  Threads, Objects, Nobody,
  Home,       \* the thread an object lives in
  MutexOf,    \* the mutex of an object, a number: the order of their addresses
  Signals,    \* what is connected: "sig", or "all" for every signal of the sender
  Kinds,      \* Kinds[o]: the types of the connections from o: "auto", "queued", "blocking"
  MaxConns,   \* bound: connections made
  MaxDepth    \* bound: frames on a thread's stack

ASSUME SignalSlotAssumption ==
  /\ Nobody \notin Objects \cup Threads /\ IsFiniteSet(Threads)
  /\ Home \in [Objects -> Threads] /\ MutexOf \in [Objects -> Nat]
  /\ Signals \subseteq {"sig", "all"}
  /\ Kinds \in [Objects -> SUBSET {"auto", "queued", "blocking"}]
  /\ MaxConns \in Nat /\ MaxDepth \in Nat

Conns == 1..MaxConns
NoConn == 0
Lists == {"sig", "all"}
Mutexes == {MutexOf[o] : o \in Objects}

VARIABLES
  made,           \* connections made
  conns,          \* each of them: sender, receiver (or Nobody), kind, list, freed
  lists,          \* connectionLists of an object
  vector,         \* that vector: "none", "used" by its object, "orphaned" or "deleted"
  inUse, dirty,   \* of the vector
  senders,        \* the connections to an object
  object,         \* "alive", "dying" in ~QObject, or "gone"
  currentSender,  \* the frame that calls a slot of the object, or 0
  owner,          \* of each mutex
  stack           \* the calls each thread is in

connVars == <<made, conns, lists, vector, inUse, dirty, senders>>
objectVars == <<object, currentSender>>
vars == <<connVars, objectVars, owner, stack>>

Free(m) == owner[m] = Nobody
Take(t, m) == owner' = [owner EXCEPT ![m] = t]
Release(m) == owner' = [owner EXCEPT ![m] = Nobody]

Top(t) == stack[t][Len(stack[t])]
At(t, op, point) == stack[t] # <<>> /\ Top(t).op = op /\ Top(t).at = point
Push(t, f) == stack' = [stack EXCEPT ![t] = Append(@, f)]
Pop(t) == stack' = [stack EXCEPT ![t] = SubSeq(@, 1, Len(@) - 1)]
Put(t, f) == stack' = [stack EXCEPT ![t] = Append(SubSeq(@, 1, Len(@) - 1), f)]

\* A list without the connections cs: its other places, counted from the first.
Minus(seq, cs) ==
  LET kept == {i \in DOMAIN seq : seq[i] \notin cs}
      upTo(i) == {j \in kept : j <= i}
  IN  [n \in 1..Cardinality(kept) |-> seq[CHOOSE i \in kept : Cardinality(upTo(i)) = n]]
Members(seq) == {seq[i] : i \in DOMAIN seq}
First(seq) == IF seq = <<>> THEN NoConn ELSE Head(seq)
Last(seq) == IF seq = <<>> THEN NoConn ELSE seq[Len(seq)]

\* nextConnectionList
Following(seq, c) ==
  LET after == {i \in 2..Len(seq) : seq[i - 1] = c}
  IN  IF after = {} THEN NoConn ELSE seq[CHOOSE i \in after : TRUE]

\* A call: the object it is about, the other one, the lists it still has to walk, where it
\* is in the first of them; relock, mutex and from are those of QOrderedMutexLocker::relock;
\* ref and prev are those of the Sender on the stack; seen, upTo and began record the
\* connections a walk visited, and those there were when it began with its list and at all.
Call(op, point, o, peer, walk) ==
  [op |-> op, at |-> point, obj |-> o, peer |-> peer, walk |-> walk, conn |-> NoConn,
   last |-> NoConn, kind |-> "auto", unique |-> FALSE, relock |-> "no", mutex |-> 0,
   from |-> Nobody, ref |-> 0, prev |-> 0, seen |-> {}, upTo |-> 0, began |-> 0]

Init ==
  /\ made = 0
  /\ conns = [c \in Conns |-> [sender |-> Nobody, receiver |-> Nobody, kind |-> "auto",
                               list |-> "sig", freed |-> FALSE]]
  /\ lists = [o \in Objects |-> [l \in Lists |-> <<>>]]
  /\ vector = [o \in Objects |-> "none"]
  /\ inUse = [o \in Objects |-> 0] /\ dirty = [o \in Objects |-> FALSE]
  /\ senders = [o \in Objects |-> <<>>]
  /\ object = [o \in Objects |-> "alive"] /\ currentSender = [o \in Objects |-> 0]
  /\ owner = [m \in Mutexes |-> Nobody]
  /\ stack = [t \in Threads |-> <<>>]

\* A thread makes a call from its event loop, from a slot that an emission calls, or from a
\* slot of destroyed().
MayCall(t) ==
  /\ Len(stack[t]) < MaxDepth
  /\ stack[t] # <<>> => Top(t).at \in {"called", "destroyed"}

\* It knows that the object exists; a dying object is known to the slots of destroyed().
Usable(t, o) == object[o] = "alive" \/ (object[o] = "dying" /\ Home[o] = t)

Frames(t) == Members(stack[t])

\* The calls that need the object: it must not be destroyed by another thread meanwhile.
Needs(f, o) == f.obj = o \/ (f.op \in {"connect", "disconnect"} /\ f.peer = o)

-----------------------------------------------------------------------------
(* connect and disconnect.  QOrderedMutexLocker takes the lower mutex      *)
(* first.                                                                  *)

Lower(f) == IF MutexOf[f.obj] <= MutexOf[f.peer] THEN MutexOf[f.obj] ELSE MutexOf[f.peer]
Upper(f) == IF MutexOf[f.obj] <= MutexOf[f.peer] THEN MutexOf[f.peer] ELSE MutexOf[f.obj]

Connecting(t) == \E f \in Frames(t) : f.op = "connect"

Connect(t, s, r, l, k, unique) ==
  /\ MayCall(t) /\ Usable(t, s) /\ Usable(t, r)
  /\ made + Cardinality({u \in Threads : Connecting(u)}) < MaxConns
  /\ Push(t, [Call("connect", "lock", s, r, <<l>>) EXCEPT !.kind = k, !.unique = unique])
  /\ UNCHANGED <<connVars, objectVars, owner>>

\* Disconnects s from r, or from everybody.
Disconnect(t, s, r, walk) ==
  /\ MayCall(t) /\ Usable(t, s) /\ (r # Nobody => Usable(t, r))
  /\ Push(t, Call("disconnect", IF r = Nobody THEN "lockOne" ELSE "lock", s, r, walk))
  /\ UNCHANGED <<connVars, objectVars, owner>>

LockLower(t) ==
  /\ \E op \in {"connect", "disconnect"} : At(t, op, "lock")
  /\ Free(Lower(Top(t)))
  /\ Take(t, Lower(Top(t)))
  /\ Put(t, [Top(t) EXCEPT !.at = "lockUpper"])
  /\ UNCHANGED <<connVars, objectVars>>

HasUpper(t) == Upper(Top(t)) # Lower(Top(t)) => Free(Upper(Top(t)))

\* cleanConnectionLists frees the broken connections of a vector that nobody uses...
MayClean(o, users) == dirty[o] /\ users = 0

\* ... which are these.
Broken(o, users) ==
  {c \in 1..made : MayClean(o, users) /\ conns[c].sender = o /\ conns[c].receiver = Nobody}

Without(walks, cs) == [l \in Lists |-> Minus(walks[l], cs)]
WithFreed(all, cs) == [c \in Conns |-> [all[c] EXCEPT !.freed = @ \/ c \in cs]]

\* The connection is appended to the sender's list, which is then cleaned, and becomes the
\* first of the receiver's.
ConnectBoth(t) ==
  LET f == Top(t)
      l == Head(f.walk)
      c == made + 1
      twin == \E d \in Members(lists[f.obj][l]) : conns[d].receiver = f.peer
      freed == Broken(f.obj, inUse[f.obj])
      cleaned == Without(lists[f.obj], freed)
      new == [sender |-> f.obj, receiver |-> f.peer, kind |-> f.kind, list |-> l,
              freed |-> FALSE]
  IN  /\ At(t, "connect", "lockUpper") /\ HasUpper(t)
      /\ Release(Lower(f)) /\ Pop(t)
      /\ IF f.unique /\ twin
           THEN UNCHANGED <<made, conns, lists, vector, dirty, senders>>
           ELSE /\ made' = c
                /\ conns' = [WithFreed(conns, freed) EXCEPT ![c] = new]
                /\ lists' = [lists EXCEPT ![f.obj] = [cleaned EXCEPT ![l] = Append(@, c)]]
                /\ vector' = [vector EXCEPT ![f.obj] = "used"]
                /\ dirty' = [dirty EXCEPT ![f.obj] = @ /\ ~MayClean(f.obj, inUse[f.obj])]
                /\ senders' = [senders EXCEPT ![f.peer] = <<c>> \o @]
      /\ UNCHANGED <<inUse, objectVars>>

\* disconnect(s, r) with both mutexes.
DisconnectBoth(t) ==
  LET f == Top(t)
      cs == {c \in 1..made : /\ \E l \in Members(f.walk) : c \in Members(lists[f.obj][l])
                             /\ conns[c].receiver = f.peer}
  IN  /\ At(t, "disconnect", "lockUpper") /\ HasUpper(t)
      /\ Release(Lower(f)) /\ Pop(t)
      /\ conns' = [c \in Conns |->
                     IF c \in cs THEN [conns[c] EXCEPT !.receiver = Nobody] ELSE conns[c]]
      /\ senders' = [senders EXCEPT ![f.peer] = Minus(@, cs)]
      /\ dirty' = [dirty EXCEPT ![f.obj] = @ \/ cs # {}]
      /\ UNCHANGED <<made, lists, vector, inUse, objectVars>>

-----------------------------------------------------------------------------
(* Walks that need the mutex of the other end of a connection.             *)

\* The mutex the call locked first, ...
Own(f) == MutexOf[f.obj]

\* ... the connection it is at (the first one left, in the list of senders, which others
\* make shorter through node->prev), and the object at its other end.
Current(f) == IF f.at = "senders" THEN First(senders[f.obj]) ELSE f.conn
Other(f) == IF f.at = "senders" THEN conns[Current(f)].sender ELSE conns[Current(f)].receiver

\* It is about to lock the mutex of an object at the other end.
Meets(t) ==
  /\ stack[t] # <<>> /\ Top(t).relock = "no"
  /\ Top(t).at \in {"disconnecting", "receivers", "senders"}
  /\ Current(Top(t)) # NoConn /\ Other(Top(t)) # Nobody

\* Mutant of MustRelock: the other mutex is waited for with the own one held.
NeverRelock(f) == FALSE

\* A mutex that should have been locked first is only tried.
MustRelock(f) == MutexOf[Other(f)] < Own(f)

\* relock gives up its own mutex, ...
Relock(t) ==
  LET f == Top(t)
  IN  /\ Meets(t)
      /\ MustRelock(f) /\ ~Free(MutexOf[Other(f)])
      /\ Put(t, [f EXCEPT !.relock = "other", !.mutex = MutexOf[Other(f)],
                          !.from = Other(f)])
      /\ Release(Own(f))
      /\ UNCHANGED <<connVars, objectVars>>

\* ... and takes the other one first.
RelockOther(t) ==
  /\ stack[t] # <<>> /\ Top(t).relock = "other"
  /\ Free(Top(t).mutex)
  /\ Take(t, Top(t).mutex)
  /\ Put(t, [Top(t) EXCEPT !.relock = "own"])
  /\ UNCHANGED <<connVars, objectVars>>

\* What is done with both, up to the unlock of the other one.
WithOther(t, point) ==
  LET f == Top(t)
  IN  /\ stack[t] # <<>> /\ f.at = point
      /\ \/ /\ Meets(t)
            /\ MutexOf[Other(f)] # Own(f) => Free(MutexOf[Other(f)])
            /\ UNCHANGED owner
         \/ /\ f.relock = "own" /\ Free(Own(f))
            /\ owner' = [owner EXCEPT ![Own(f)] = t, ![f.mutex] = Nobody]

\* Mutant of LeaveSenders: the receiver is not told.
LeaveNothing(c) == UNCHANGED senders

\* The connection leaves the list of its receiver, if it still has one.
LeaveSenders(c) ==
  senders' = [o \in Objects |->
                IF o = conns[c].receiver THEN Minus(senders[o], {c}) ELSE senders[o]]

\* The walk goes on with the lists in walk.
Begin(f, walk) ==
  LET list == IF walk = <<>> THEN <<>> ELSE lists[f.obj][Head(walk)]
  IN  [f EXCEPT !.walk = walk, !.conn = First(list), !.last = Last(list), !.upTo = made,
                !.seen = {}]

\* A call takes the mutex of the object and the vector of its connections.
Uses(o) == inUse' = [inUse EXCEPT ![o] = @ + 1]

\* The last user of a vector without an object deletes it.
Unuse(o) ==
  /\ inUse' = [inUse EXCEPT ![o] = @ - 1]
  /\ vector' = [vector EXCEPT ![o] =
                  IF @ = "orphaned" /\ inUse'[o] = 0 THEN "deleted" ELSE @]

\* disconnect(s, 0): nothing to do, or the first list.
DisconnectBegins(t) ==
  LET f == Top(t)
  IN  /\ At(t, "disconnect", "lockOne") /\ Free(Own(f))
      /\ IF vector[f.obj] = "none"
           THEN Pop(t) /\ UNCHANGED <<owner, inUse>>
           ELSE /\ Take(t, Own(f)) /\ Uses(f.obj)
                /\ Put(t, [Begin(f, f.walk) EXCEPT !.at = "disconnecting"])
      /\ UNCHANGED <<made, conns, lists, vector, dirty, senders, objectVars>>

DisconnectSkips(t) ==
  LET f == Top(t)
  IN  /\ At(t, "disconnect", "disconnecting") /\ f.relock = "no" /\ f.conn # NoConn
      /\ conns[f.conn].receiver = Nobody
      /\ Put(t, [f EXCEPT !.conn = Following(lists[f.obj][Head(f.walk)], @)])
      /\ UNCHANGED <<connVars, objectVars, owner>>

\* The receiver may have been destroyed while it was locked.
DisconnectOther(t) ==
  LET f == Top(t)
  IN  /\ WithOther(t, "disconnecting")
      /\ LeaveSenders(f.conn)
      /\ conns' = [conns EXCEPT ![f.conn].receiver = Nobody]
      /\ Put(t, [f EXCEPT !.conn = Following(lists[f.obj][Head(f.walk)], @),
                          !.seen = @ \cup {f.conn}, !.relock = "no"])
      /\ UNCHANGED <<made, lists, vector, inUse, dirty, objectVars>>

DisconnectList(t) ==
  LET f == Top(t)
  IN  /\ At(t, "disconnect", "disconnecting") /\ f.conn = NoConn /\ f.walk # <<>>
      /\ dirty' = [dirty EXCEPT ![f.obj] = @ \/ f.seen # {}]
      /\ Put(t, Begin(f, Tail(f.walk)))
      /\ UNCHANGED <<made, conns, lists, vector, inUse, senders, objectVars, owner>>

DisconnectEnds(t) ==
  LET f == Top(t)
  IN  /\ At(t, "disconnect", "disconnecting") /\ f.walk = <<>>
      /\ Unuse(f.obj) /\ Release(Own(f)) /\ Pop(t)
      /\ UNCHANGED <<made, conns, lists, dirty, senders, objectVars>>

-----------------------------------------------------------------------------
(* Emission.                                                               *)

Emit(t, s) ==
  /\ MayCall(t) /\ Usable(t, s)
  /\ Push(t, Call("emit", "lockOne", s, Nobody, <<"sig", "all">>))
  /\ UNCHANGED <<connVars, objectVars, owner>>

\* activate: nothing is connected, or the first list.
EmitBegins(t) ==
  LET f == Top(t)
  IN  /\ At(t, "emit", "lockOne") /\ Free(Own(f))
      /\ IF vector[f.obj] = "none"
           THEN Pop(t) /\ UNCHANGED <<owner, inUse>>
           ELSE /\ Take(t, Own(f)) /\ Uses(f.obj)
                /\ Put(t, [Begin(f, f.walk) EXCEPT !.at = "walk", !.began = made])
      /\ UNCHANGED <<made, conns, lists, vector, dirty, senders, objectVars>>

\* The connection that is visited, and how it is activated.
Visits(t) == At(t, "emit", "walk") /\ Top(t).conn # NoConn
Receiver(f) == conns[f.conn].receiver
Activation(t, f) ==
  LET kind == conns[f.conn].kind
  IN  IF Receiver(f) = Nobody THEN "none"
      ELSE IF kind = "auto" THEN IF Home[Receiver(f)] = t THEN "direct" ELSE "queued"
      ELSE kind

\* Mutant of Advance: it does not stop at the connection that was the last one.
AdvancePastLast(f) ==
  [f EXCEPT !.at = "walk", !.conn = Following(lists[f.obj][Head(f.walk)], f.conn)]

\* while (c != last && (c = c->nextConnectionList) != nullptr)
Advance(f) ==
  [f EXCEPT !.at = "walk",
            !.conn = IF f.conn = f.last THEN NoConn
                     ELSE Following(lists[f.obj][Head(f.walk)], f.conn)]

Visited(f) == [f EXCEPT !.seen = @ \cup {f.conn}]

\* The connection is broken.
EmitSkips(t) ==
  /\ Visits(t) /\ Activation(t, Top(t)) = "none"
  /\ Put(t, Advance(Top(t)))
  /\ UNCHANGED <<connVars, objectVars, owner>>

\* queued_activate posts the event with the mutex locked.
EmitQueued(t) ==
  /\ Visits(t) /\ Activation(t, Top(t)) = "queued"
  /\ Put(t, Advance(Visited(Top(t))))
  /\ UNCHANGED <<connVars, objectVars, owner>>

\* A blocking connection unlocks, ...
EmitBlocking(t) ==
  LET f == Top(t)
  IN  /\ Visits(t) /\ Activation(t, f) = "blocking"
      /\ Release(Own(f))
      /\ Put(t, [Visited(f) EXCEPT !.at = "unlocked", !.peer = Receiver(f)])
      /\ UNCHANGED <<connVars, objectVars>>

\* ... posts ...
BlockingPosts(t) ==
  /\ At(t, "emit", "unlocked")
  /\ Put(t, [Top(t) EXCEPT !.at = "posted"])
  /\ UNCHANGED <<connVars, objectVars, owner>>

\* ... and goes on when the other thread has run the slot or removed the event.
BlockingReturns(t) ==
  /\ At(t, "emit", "posted") /\ Home[Top(t).peer] # t /\ Free(Own(Top(t)))
  /\ Take(t, Own(Top(t)))
  /\ Put(t, Advance(Top(t)))
  /\ UNCHANGED <<connVars, objectVars>>

\* A slot of the same thread is called with a Sender of its own.
EmitDirect(t) ==
  LET f == Top(t)
      r == Receiver(f)
  IN  /\ Visits(t) /\ Activation(t, f) = "direct"
      /\ Release(Own(f))
      /\ Put(t, [Visited(f) EXCEPT !.at = "called", !.peer = r, !.ref = 1,
                                   !.prev = currentSender[r]])
      /\ currentSender' = [currentSender EXCEPT ![r] = Len(stack[t])]
      /\ UNCHANGED <<connVars, object>>

\* Mutant of Orphaned: nobody looks whether the sender was destroyed.
NeverOrphaned(f) == FALSE

Orphaned(f) == vector[f.obj] = "orphaned"

\* resetCurrentSender, unless the receiver was destroyed; the emission is over if the
\* sender was.
SlotReturns(t) ==
  LET f == Top(t)
      next == IF Orphaned(f) THEN [f EXCEPT !.at = "walk", !.conn = NoConn, !.walk = <<>>]
              ELSE Advance(f)
      below == [i \in 1..(Len(stack[t]) - 1) |->
                  IF i = f.prev THEN [stack[t][i] EXCEPT !.ref = f.ref] ELSE stack[t][i]]
  IN  /\ At(t, "emit", "called") /\ Free(Own(f))
      /\ Take(t, Own(f))
      /\ stack' = [stack EXCEPT ![t] = Append(below, next)]
      /\ currentSender' = IF f.ref = 1 THEN [currentSender EXCEPT ![f.peer] = f.prev]
                          ELSE currentSender
      /\ UNCHANGED <<connVars, object>>

EmitList(t) ==
  LET f == Top(t)
  IN  /\ At(t, "emit", "walk") /\ f.conn = NoConn /\ f.walk # <<>>
      /\ Put(t, Begin(f, Tail(f.walk)))
      /\ UNCHANGED <<connVars, objectVars, owner>>

\* The last emission of a living object frees the broken connections.
EmitEnds(t) ==
  LET f == Top(t)
      freed == IF Orphaned(f) THEN {} ELSE Broken(f.obj, inUse[f.obj] - 1)
      cleans == ~Orphaned(f) /\ MayClean(f.obj, inUse[f.obj] - 1)
  IN  /\ At(t, "emit", "walk") /\ f.walk = <<>>
      /\ Unuse(f.obj) /\ Release(Own(f)) /\ Pop(t)
      /\ conns' = WithFreed(conns, freed)
      /\ lists' = [lists EXCEPT ![f.obj] = Without(@, freed)]
      /\ dirty' = [dirty EXCEPT ![f.obj] = @ /\ ~cleans]
      /\ UNCHANGED <<made, senders, objectVars>>

-----------------------------------------------------------------------------
(* ~QObject.                                                               *)

\* An object is destroyed in its thread, while no other thread needs it.
Destroy(t, o) ==
  /\ MayCall(t) /\ Home[o] = t /\ object[o] = "alive"
  /\ \A u \in Threads \ {t} : \A f \in Frames(u) : ~Needs(f, o)
  /\ Push(t, Call("destroy", "destroyed", o, Nobody, <<"all", "sig">>))
  /\ object' = [object EXCEPT ![o] = "dying"]
  /\ UNCHANGED <<connVars, currentSender, owner>>

\* Mutant of DestroyBegins: the emissions that call the object are not told.
DestroyUntold(t) ==
  /\ At(t, "destroy", "destroyed")
  /\ Put(t, [Top(t) EXCEPT !.at = "lockOne"])
  /\ UNCHANGED <<connVars, objectVars, owner>>

\* The slots of destroyed() have run, and the Sender on the stack is told.
DestroyBegins(t) ==
  LET f == Top(t)
      told == [i \in DOMAIN stack[t] |->
                 IF i = Len(stack[t]) THEN [f EXCEPT !.at = "lockOne"]
                 ELSE IF i = currentSender[f.obj] THEN [stack[t][i] EXCEPT !.ref = 0]
                 ELSE stack[t][i]]
  IN  /\ At(t, "destroy", "destroyed")
      /\ stack' = [stack EXCEPT ![t] = told]
      /\ currentSender' = [currentSender EXCEPT ![f.obj] = 0]
      /\ UNCHANGED <<connVars, object, owner>>

Connected(o) == vector[o] = "used" \/ senders[o] # <<>>

DestroyLocks(t) ==
  LET f == Top(t)
  IN  /\ At(t, "destroy", "lockOne")
      /\ IF ~Connected(f.obj)
           THEN Put(t, [f EXCEPT !.at = "free"]) /\ UNCHANGED <<owner, inUse>>
           ELSE /\ Free(Own(f)) /\ Take(t, Own(f))
                /\ IF vector[f.obj] = "used"
                     THEN Uses(f.obj) /\ Put(t, [Begin(f, f.walk) EXCEPT !.at = "receivers"])
                     ELSE Put(t, [f EXCEPT !.at = "senders"]) /\ UNCHANGED inUse
      /\ UNCHANGED <<made, conns, lists, vector, dirty, senders, objectVars>>

\* The first connection of the list is deleted, whoever uses the list.
DeleteFirst(t, f) ==
  LET rest == Minus(lists[f.obj][Head(f.walk)], {f.conn})
  IN  /\ lists' = [lists EXCEPT ![f.obj][Head(f.walk)] = rest]
      /\ conns' = [conns EXCEPT ![f.conn].freed = TRUE, ![f.conn].receiver = Nobody]
      /\ Put(t, [f EXCEPT !.conn = First(rest), !.relock = "no"])

DestroyBroken(t) ==
  LET f == Top(t)
  IN  /\ At(t, "destroy", "receivers") /\ f.relock = "no" /\ f.conn # NoConn
      /\ Receiver(f) = Nobody
      /\ DeleteFirst(t, f)
      /\ UNCHANGED <<made, vector, inUse, dirty, senders, objectVars, owner>>

\* The receiver may have been destroyed while it was locked.
DestroyReceiver(t) ==
  /\ WithOther(t, "receivers")
  /\ LeaveSenders(Top(t).conn)
  /\ DeleteFirst(t, Top(t))
  /\ UNCHANGED <<made, vector, inUse, dirty, objectVars>>

DestroyList(t) ==
  LET f == Top(t)
  IN  /\ At(t, "destroy", "receivers") /\ f.conn = NoConn /\ f.walk # <<>>
      /\ Put(t, Begin(f, Tail(f.walk)))
      /\ UNCHANGED <<connVars, objectVars, owner>>

\* Emissions that still use the vector find it orphaned.
DestroyVector(t) ==
  LET f == Top(t)
      users == inUse[f.obj] - 1
  IN  /\ At(t, "destroy", "receivers") /\ f.walk = <<>>
      /\ inUse' = [inUse EXCEPT ![f.obj] = users]
      /\ vector' = [vector EXCEPT ![f.obj] = IF users = 0 THEN "deleted" ELSE "orphaned"]
      /\ Put(t, [f EXCEPT !.at = "senders"])
      /\ UNCHANGED <<made, conns, lists, dirty, senders, objectVars, owner>>

\* Mutant of SameNode: only the end of the list is looked for.
AnyNode(f) == senders[f.obj] # <<>>

\* "the node has maybe been removed while the mutex was unlocked in relock?"
SameNode(f) == senders[f.obj] # <<>> /\ conns[First(senders[f.obj])].sender = f.from

DestroySender(t) ==
  LET f == Top(t)
      c == Current(f)
      s == conns[c].sender
  IN  /\ WithOther(t, "senders")
      /\ IF f.relock = "own" /\ ~SameNode(f)
           THEN Put(t, [f EXCEPT !.relock = "no"]) /\ UNCHANGED <<conns, dirty, senders>>
           ELSE /\ Put(t, [f EXCEPT !.relock = "no", !.seen = @ \cup {c}])
                /\ conns' = [conns EXCEPT ![c].receiver = Nobody]
                /\ dirty' = [dirty EXCEPT ![s] = @ \/ vector[s] = "used"]
                /\ senders' = [senders EXCEPT ![f.obj] = Tail(@)]
      /\ UNCHANGED <<made, lists, vector, inUse, objectVars>>

DestroyUnlocks(t) ==
  LET f == Top(t)
  IN  /\ At(t, "destroy", "senders") /\ f.relock = "no" /\ senders[f.obj] = <<>>
      /\ Release(Own(f))
      /\ Put(t, [f EXCEPT !.at = "free"])
      /\ UNCHANGED <<connVars, objectVars>>

DestroyEnds(t) ==
  /\ At(t, "destroy", "free")
  /\ object' = [object EXCEPT ![Top(t).obj] = "gone"]
  /\ Pop(t)
  /\ UNCHANGED <<connVars, currentSender, owner>>

-----------------------------------------------------------------------------

Walk == {<<"sig">>, <<"all", "sig">>}

Calls(t) ==
  \/ \E s, r \in Objects : \E l \in Signals, k \in Kinds[s], u \in BOOLEAN :
       Connect(t, s, r, l, k, u)
  \/ \E s \in Objects : \E r \in Objects \cup {Nobody}, w \in Walk : Disconnect(t, s, r, w)
  \/ \E s \in Objects : Emit(t, s) \/ Destroy(t, s)

Steps(t) ==
  \/ LockLower(t) \/ ConnectBoth(t) \/ DisconnectBoth(t) \/ Relock(t) \/ RelockOther(t)
  \/ DisconnectBegins(t) \/ DisconnectSkips(t) \/ DisconnectOther(t) \/ DisconnectList(t)
  \/ DisconnectEnds(t)
  \/ EmitBegins(t) \/ EmitSkips(t) \/ EmitQueued(t) \/ EmitBlocking(t) \/ BlockingPosts(t)
  \/ BlockingReturns(t) \/ EmitDirect(t) \/ SlotReturns(t) \/ EmitList(t) \/ EmitEnds(t)
  \/ DestroyBegins(t) \/ DestroyLocks(t) \/ DestroyBroken(t) \/ DestroyReceiver(t)
  \/ DestroyList(t) \/ DestroyVector(t) \/ DestroySender(t) \/ DestroyUnlocks(t)
  \/ DestroyEnds(t)

Next == \E t \in Threads : Calls(t) \/ Steps(t)

Spec == Init /\ [][Next]_vars

-----------------------------------------------------------------------------
(* Properties.                                                             *)

Points == {"lock", "lockOne", "lockUpper", "disconnecting", "walk", "unlocked", "posted",
           "called", "destroyed", "receivers", "senders", "free"}

TypeOK ==
  /\ made \in 0..MaxConns
  /\ \A c \in Conns : /\ conns[c].sender \in Objects \cup {Nobody}
                      /\ conns[c].receiver \in Objects \cup {Nobody}
                      /\ conns[c].freed \in BOOLEAN
  /\ \A o \in Objects : /\ vector[o] \in {"none", "used", "orphaned", "deleted"}
                        /\ inUse[o] \in Nat /\ dirty[o] \in BOOLEAN
                        /\ Members(senders[o]) \subseteq 1..made
                        /\ object[o] \in {"alive", "dying", "gone"}
                        /\ currentSender[o] \in 0..MaxDepth
  /\ owner \in [Mutexes -> Threads \cup {Nobody}]
  /\ \A t \in Threads : /\ Len(stack[t]) <= MaxDepth
                        /\ \A f \in Frames(t) : f.at \in Points /\ f.obj \in Objects

UsesVector(f) == f.at \in {"walk", "called", "unlocked", "posted", "disconnecting", "receivers"}

\* inUse counts the calls that use the vector, which outlives its object as long as there
\* is one, and no longer.
VectorLifetime ==
  \A o \in Objects :
    LET users == {p \in Threads \X (1..MaxDepth) :
                    LET s == stack[p[1]]
                    IN  p[2] \in DOMAIN s /\ s[p[2]].obj = o /\ UsesVector(s[p[2]])}
    IN  /\ inUse[o] = Cardinality(users)
        /\ vector[o] = "orphaned" => users # {}
        /\ object[o] = "gone" => vector[o] # "used"

\* Whatever slots and other threads disconnect and destroy, no walk looks at a connection
\* or a vector that was freed (qobject.cpp:228, cleaning; :620, ~QObject frees at once).
ConnectionsValid ==
  /\ VectorLifetime
  /\ \A t \in Threads : LET f == Top(t) IN
       stack[t] # <<>> /\ f.at \in {"walk", "called", "posted", "disconnecting", "receivers"} =>
         /\ vector[f.obj] \in {"used", "orphaned"}
         /\ f.conn # NoConn /\ ~Orphaned(f) => ~conns[f.conn].freed

\* A connection stands in its sender's list until it is freed, and in its receiver's until
\* it is broken; neither end is gone before that.
ListsAgree ==
  \A c \in 1..made :
    LET k == conns[c]
        there == {p \in Objects \X Lists : c \in Members(lists[p[1]][p[2]])}
    IN  /\ there = IF k.freed THEN {} ELSE {<<k.sender, k.list>>}
        /\ \A o \in Objects : c \in Members(senders[o]) <=> o = k.receiver
        /\ k.receiver # Nobody => object[k.sender] # "gone" /\ object[k.receiver] # "gone"

\* sender() finds the innermost emission that calls a slot of the object, and no emission
\* writes to a receiver that was destroyed in its slot.
SenderPointersValid ==
  /\ \A o \in Objects :
       currentSender[o] # 0 =>
         LET i == currentSender[o]
             s == stack[Home[o]]
         IN  /\ object[o] # "gone"
             /\ i \in DOMAIN s /\ s[i].at = "called" /\ s[i].peer = o
             /\ \A j \in DOMAIN s : j > i => ~(s[j].at = "called" /\ s[j].peer = o)
  /\ \A t \in Threads :
       stack[t] # <<>> /\ Top(t).at = "called" /\ Top(t).ref = 1 =>
         object[Top(t).peer] # "gone"

\* An emission visits, once and in order, the connections of a list that were there when
\* it began with the list, without those that are disconnected by then (qobject.cpp:2799,
\* "signals added during the signal emission are not emitted in this emission").
EmissionComplete ==
  \A t \in Threads : At(t, "emit", "walk") /\ Top(t).walk # <<>> =>
    LET f == Top(t)
        behind == {c \in Members(lists[f.obj][Head(f.walk)]) :
                     c <= f.upTo /\ (f.conn = NoConn \/ c < f.conn)}
    IN  /\ f.conn \in 0..f.upTo \ f.seen
        /\ \A c \in behind : conns[c].receiver # Nobody => c \in f.seen

\* A connection is broken, and a list of senders changed, only while no other thread holds
\* the mutex that protects it (qobject.cpp:184).
ChangedUnderLock ==
  [][\A t \in Threads : stack'[t] = stack[t] =>
       /\ \A c \in 1..made :
            conns'[c].receiver # conns[c].receiver => owner[MutexOf[conns[c].sender]] # t
       /\ \A o \in Objects : senders'[o] # senders[o] => owner[MutexOf[o]] # t]_vars

\* The mutex a thread waits for while it holds another one, or none.
Wanted(t) ==
  LET f == Top(t)
  IN  IF stack[t] = <<>> THEN {}
      ELSE IF f.at = "lockUpper" THEN {Upper(f)} \ {Lower(f)}
      ELSE IF f.relock = "own" THEN {Own(f)}
      ELSE IF Meets(t) /\ ~MustRelock(f) THEN {MutexOf[Other(f)]} \ {Own(f)}
      ELSE {}

\* "Locks 2 mutexes in a defined order" (qorderedmutexlocker_p.h:42): there are never
\* threads that hold the mutexes they wait for from each other.
NoLockCycle ==
  \A ts \in (SUBSET Threads) \ {{}} :
    \E t \in ts : ~\E u \in ts : u # t /\ \E m \in Wanted(t) : owner[m] = u

\* An event is only posted to an object that still exists: "All signals to and from the
\* object are automatically disconnected" when it is destroyed (qobject.cpp:538).
PostsToLiving ==
  [][\A t \in Threads :
       /\ EmitQueued(t) => object[Receiver(Top(t))] # "gone"
       /\ BlockingPosts(t) => object[Top(t).peer] # "gone"]_vars

\* "signals added during the signal emission are not emitted in this emission"
\* (qobject.cpp:2799), whatever list they are added to.
NewConnectionsWait ==
  \A t \in Threads :
    Visits(t) /\ Receiver(Top(t)) # Nobody => Top(t).conn <= Top(t).began
=============================================================================
