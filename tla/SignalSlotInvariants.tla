------------------------- MODULE SignalSlotInvariants -------------------------
(***************************************************************************)
(* The invariants that SignalSlotProofs proves of SignalSlot, and what a   *)
(* step of a thread does to their parts.  IInv says which mutex each       *)
(* thread holds at each point of its innermost call, what the lists of     *)
(* connections and of senders contain, and what a call may rely on while   *)
(* others have the mutexes it gave up.  VInv adds that the count of users  *)
(* of a vector is the number of the walks in it.  Chained says how the     *)
(* calls of slots of an object lead to each other and to currentSender,    *)
(* Complete what an emission has visited of its list.                      *)
(***************************************************************************)
EXTENDS SignalSlot

-----------------------------------------------------------------------------
(* The inductive invariant.                                                *)

Ops == {"connect", "disconnect", "emit", "destroy"}
AllKinds == {"auto", "queued", "blocking"}
SomeObject == Objects \cup {Nobody}

ConnT == [sender : SomeObject, receiver : SomeObject, kind : AllKinds, list : Lists,
          freed : BOOLEAN]
FrameT == [op : Ops, at : Points, obj : Objects, peer : SomeObject, walk : Seq(Lists),
           conn : 0..MaxConns, last : 0..MaxConns, kind : AllKinds, unique : BOOLEAN,
           relock : {"no", "other", "own"}, mutex : Nat, from : SomeObject, ref : {0, 1},
           prev : 0..MaxDepth, seen : SUBSET (0..MaxConns), upTo : 0..MaxConns,
           began : 0..MaxConns]

DataTyped ==
  /\ made \in 0..MaxConns
  /\ conns \in [Conns -> ConnT]
  /\ lists \in [Objects -> [Lists -> Seq(Conns)]]
  /\ vector \in [Objects -> {"none", "used", "orphaned", "deleted"}]
  /\ inUse \in [Objects -> Int] /\ dirty \in [Objects -> BOOLEAN]
  /\ senders \in [Objects -> Seq(Conns)]
  /\ object \in [Objects -> {"alive", "dying", "gone"}]
  /\ currentSender \in [Objects -> 0..MaxDepth]

CallsTyped ==
  /\ owner \in [Mutexes -> Threads \cup {Nobody}]
  /\ stack \in [Threads -> Seq(FrameT)]
  /\ \A t \in Threads : Len(stack[t]) <= MaxDepth

Rising(q) == \A i, j \in DOMAIN q : i < j => q[i] < q[j]
Once(q) == \A i, j \in DOMAIN q : q[i] = q[j] => i = j

\* A list has the connections that were made for it and not freed, in the order they were
\* made; without a vector it is empty.
Sent ==
  \A o \in Objects, l \in Lists :
    /\ Rising(lists[o][l])
    /\ Members(lists[o][l]) =
         {c \in 1..made : conns[c].sender = o /\ conns[c].list = l /\ ~conns[c].freed}
    /\ vector[o] # "used" => lists[o][l] = <<>>

\* The list of an object's senders has the connections to it, once.
Received ==
  \A o \in Objects :
    /\ Once(senders[o])
    /\ Members(senders[o]) = {c \in 1..made : conns[c].receiver = o}

\* A connection that is not broken is not freed, and its ends exist.
Joined ==
  \A c \in 1..made :
    /\ conns[c].sender \in Objects
    /\ conns[c].receiver # Nobody =>
         /\ ~conns[c].freed
         /\ object[conns[c].sender] # "gone" /\ object[conns[c].receiver] # "gone"

\* The mutex that a thread holds when its innermost call is f.
Holds(f) ==
  IF f.at = "lockUpper" THEN {Lower(f)}
  ELSE IF f.at \in {"disconnecting", "walk", "receivers", "senders"}
    THEN IF f.relock = "no" THEN {Own(f)}
         ELSE IF f.relock = "own" THEN {f.mutex} ELSE {}
  ELSE {}

Locked ==
  \A t \in Threads, m \in Mutexes :
    owner[m] = t <=> stack[t] # <<>> /\ m \in Holds(Top(t))

\* Where a call may be.
Placed(f) ==
  /\ f.op = "connect" => f.at \in {"lock", "lockUpper"}
  /\ f.op = "disconnect" => f.at \in {"lock", "lockUpper", "lockOne", "disconnecting"}
  /\ f.op = "emit" => f.at \in {"lockOne", "walk", "unlocked", "posted", "called"}
  /\ f.op = "destroy" => f.at \in {"destroyed", "lockOne", "receivers", "senders", "free"}
  /\ f.at \in {"lock", "lockUpper"} => f.peer \in Objects
  /\ f.op = "connect" => f.walk # <<>>
  /\ f.conn # NoConn => f.walk # <<>>
  /\ f.at \in {"unlocked", "posted", "called"} => f.conn # NoConn

\* It has given up its own mutex for a lower one, of an object that had the connection.
Relocks(f) ==
  f.relock # "no" =>
    /\ f.at \in {"disconnecting", "receivers", "senders"}
    /\ f.mutex < Own(f) /\ f.from \in Objects /\ f.mutex = MutexOf[f.from]
    /\ f.at # "senders" => f.conn # NoConn /\ conns[f.conn].receiver \in {f.from, Nobody}

\* The connection that a call is at is one of those made, of its object if it breaks them.
AtConn(f) ==
  /\ f.conn <= made
  /\ f.at = "disconnecting" /\ f.conn # NoConn => conns[f.conn].sender = f.obj

\* The list that a walk is in.
Walked(f) == IF f.walk = <<>> THEN <<>> ELSE lists[f.obj][Head(f.walk)]

\* How far ~QObject has come.
Destroys(t, f) ==
  f.op = "destroy" =>
    /\ object[f.obj] = "dying" /\ Home[f.obj] = t
    /\ f.at \notin {"senders", "free"} => f.seen = {}
    /\ f.at \in {"destroyed", "lockOne"} => Members(f.walk) = Lists
    /\ f.at = "receivers" =>
         /\ f.conn = First(Walked(f))
         /\ \A l \in Lists \ Members(f.walk) : lists[f.obj][l] = <<>>
    /\ f.at \in {"senders", "free"} => vector[f.obj] # "used"
    /\ f.at = "senders" => f.seen \cap Members(senders[f.obj]) = {}
    /\ f.at = "free" => senders[f.obj] = <<>>

Connects(f) == f.op = "connect" => object[f.obj] # "gone" /\ object[f.peer] # "gone"

Sane(t, f) ==
  /\ Placed(f) /\ Relocks(f) /\ AtConn(f) /\ Destroys(t, f) /\ Connects(f)

\* An object that is destroyed is needed by no call of another thread.
Alone(t, f) ==
  f.op = "destroy" => \A u \in Threads \ {t} : \A g \in Frames(u) : ~Needs(g, f.obj)

Pausing == {"called", "destroyed"}

Called ==
  \A t \in Threads : \A i \in DOMAIN stack[t] :
    /\ Sane(t, stack[t][i]) /\ Alone(t, stack[t][i])
    /\ i < Len(stack[t]) => stack[t][i].at \in Pausing
    /\ \A j \in DOMAIN stack[t] :
         stack[t][i].op = "destroy" /\ stack[t][j].op = "destroy" /\ j # i =>
           stack[t][j].obj # stack[t][i].obj

Room == made + Cardinality({u \in Threads : Connecting(u)}) <= MaxConns

Standing == Sent /\ Received /\ Joined
IInv == DataTyped /\ CallsTyped /\ Standing /\ Locked /\ Called /\ Room

-----------------------------------------------------------------------------
(* Who uses the vector of an object.                                       *)

\* The calls that use it, ...
Users(o) ==
  {p \in Threads \X (1..MaxDepth) :
     LET s == stack[p[1]]
     IN  p[2] \in DOMAIN s /\ s[p[2]].obj = o /\ UsesVector(s[p[2]])}

\* ... and ~QObject when it may have freed connections of it, or has given it up.
Leaving == {"senders", "free"}
Ending == {"receivers"} \cup Leaving
Past(o, S) == \E t \in Threads : \E f \in Frames(t) : f.op = "destroy" /\ f.obj = o /\ f.at \in S

\* The connection a call is at is one of its object, not freed before the object ends.
Refers(f) ==
  f.conn # NoConn =>
    /\ conns[f.conn].sender = f.obj
    /\ conns[f.conn].freed => vector[f.obj] = "orphaned" \/ Past(f.obj, Ending)

FrameOk(f) ==
  /\ UsesVector(f) =>
       /\ vector[f.obj] \in {"used", "orphaned"} /\ (f.op = "destroy" => vector[f.obj] = "used")
       /\ Refers(f)
  /\ f.at = "lockOne" => object[f.obj] # "gone"

VectorOk(o) ==
  /\ vector[o] = "orphaned" => inUse[o] # 0
  /\ vector[o] \in {"orphaned", "deleted"} => object[o] = "gone" \/ Past(o, Leaving)
  /\ object[o] = "gone" => vector[o] # "used"

Vectors ==
  /\ \A o \in Objects : inUse[o] = Cardinality(Users(o)) /\ VectorOk(o)
  /\ \A t \in Threads : \A f \in Frames(t) : FrameOk(f)

VInv == IInv /\ Vectors

-----------------------------------------------------------------------------
(* The emissions that call slots of an object, and its currentSender.      *)

\* The ones at the places i of its thread's stack, ...
Slot(o, i) ==
  i \in DOMAIN stack[Home[o]] /\ stack[Home[o]][i].at = "called" /\ stack[Home[o]][i].peer = o

\* ... the innermost of which is this.
Inner(o, i) == Slot(o, i) /\ \A j \in DOMAIN stack[Home[o]] : j > i => ~Slot(o, j)

\* ~QObject of the object has told its currentSender.
After == {"lockOne"} \cup Ending
Over(o) == object[o] = "gone" \/ Past(o, After)

\* Slots are called in the thread of the receiver; previous leads from each call to the next
\* one further out; those that are not the innermost have not been told.
ChainedAt(o, i) ==
  LET f == stack[Home[o]][i] IN
  /\ f.prev = 0 \/ (f.prev < i /\ Slot(o, f.prev))
  /\ \A j \in DOMAIN stack[Home[o]] : j < i /\ Slot(o, j) => j <= f.prev
  /\ Inner(o, i) \/ f.ref = 1

\* currentSender is the innermost call, or 0 if there is none that was not told.
Pointed(o) ==
  /\ currentSender[o] # 0 =>
       ~Over(o) /\ Inner(o, currentSender[o]) /\ stack[Home[o]][currentSender[o]].ref = 1
  /\ currentSender[o] = 0 =>
       \A i \in DOMAIN stack[Home[o]] :
         Slot(o, i) => Over(o) /\ (Inner(o, i) => stack[Home[o]][i].ref = 0)

Chained ==
  /\ \A t \in Threads : \A i \in DOMAIN stack[t] :
       stack[t][i].at = "called" => stack[t][i].peer \in Objects /\ Home[stack[t][i].peer] = t
  /\ \A o \in Objects :
       Pointed(o) /\ \A i \in DOMAIN stack[Home[o]] : Slot(o, i) => ChainedAt(o, i)

\* A call of ~QObject that has told currentSender.
Ends(f, o) == f.op = "destroy" /\ f.obj = o /\ f.at \in After

-----------------------------------------------------------------------------
(* What an emission has visited.                                           *)

Emitting(f) == f.op = "emit" /\ f.at # "lockOne" /\ f.walk # <<>>

\* A walk stands at a connection of its list, not behind the last one that was there when it
\* began; those before it that are not broken it has seen.
Visiting(f) ==
  LET there == Members(Walked(f))
  IN  /\ f.last <= f.upTo /\ f.upTo <= made
      /\ \A c \in there : c <= f.upTo => c <= f.last
      /\ f.conn # NoConn => f.conn \in there /\ f.last \in there /\ f.conn <= f.last
      /\ \A c \in f.seen : c # NoConn /\ (f.conn # NoConn => c <= f.conn)
      /\ \A c \in there : c <= f.upTo /\ (f.conn = NoConn \/ c < f.conn) =>
           conns[c].receiver = Nobody \/ c \in f.seen

\* It has seen the one it is at when it activates it.
Done(f) == Visiting(f) /\ (f.conn \in f.seen <=> f.at # "walk")

\* This holds until ~QObject takes the lists apart, which it does while the emissions of the
\* object are all calling slots.
CompleteAt(f) ==
  Emitting(f) =>
    /\ f.at # "called" => vector[f.obj] = "used"
    /\ vector[f.obj] = "used" /\ ~Past(f.obj, Ending) => Done(f)

Complete == \A t \in Threads : \A f \in Frames(t) : CompleteAt(f)

-----------------------------------------------------------------------------
(* What a step does.                                                       *)

\* The places that stay, numbered: each number up to how many there are belongs to one.
Rank(S, k) == Cardinality({j \in S : j <= k})

Alike(f, g) == \E x \in {0, 1} : g = [f EXCEPT !.ref = x]

\* What a step of t does to what the calls of others rely on.
Gentle(t) ==
  /\ made <= made'
  /\ \A c \in 1..made : /\ conns'[c].sender = conns[c].sender
                        /\ conns'[c].receiver \in {conns[c].receiver, Nobody}
  /\ \A o \in Objects : (\A f \in Frames(t) : ~Needs(f, o)) =>
       /\ lists'[o] = lists[o] /\ vector'[o] = vector[o]
       /\ Members(senders'[o]) \subseteq Members(senders[o])
  /\ \A o \in Objects :
       \/ object'[o] = object[o]
       \/ object[o] = "alive" /\ object'[o] = "dying"
       \/ stack[t] # <<>> /\ Top(t).op = "destroy" /\ Top(t).obj = o

\* The stack s of t after a step: g on top of calls that wait.
Follows(t, s, g) ==
  /\ s \in Seq(FrameT) /\ s # <<>> /\ s[Len(s)] = g
  /\ Len(s) - 1 <= Len(stack[t]) /\ Len(s) <= MaxDepth
  /\ \A i \in 1..(Len(s) - 1) :
       /\ Alike(stack[t][i], s[i]) /\ stack[t][i].at \in Pausing
       /\ stack[t][i].op = "destroy" => object'[stack[t][i].obj] = object[stack[t][i].obj]

\* Nobody else destroys what a call needs.
Spared(t, g) ==
  \A o \in Objects : Needs(g, o) =>
    \A u \in Threads \ {t} : \A f \in Frames(u) : ~(f.op = "destroy" /\ f.obj = o)

\* After a step t holds the mutexes H, and the others those they had.
LockedTo(t, H) ==
  \A m \in Mutexes : /\ owner'[m] = t <=> m \in H
                     /\ \A u \in Threads \ {t} : owner'[m] = u <=> owner[m] = u

OwnerTyped == owner \in [Mutexes -> Threads \cup {Nobody}]

SameNeeds(f, g) ==
  g.op = f.op /\ g.obj = f.obj /\ (g.op \in {"connect", "disconnect"} => g.peer = f.peer)

\* The connections B are broken and the connections F freed.
Breaks(B, F) ==
  /\ made' = made
  /\ \A c \in 1..made :
       /\ conns'[c].sender = conns[c].sender /\ conns'[c].list = conns[c].list
       /\ conns'[c].receiver = IF c \in B THEN Nobody ELSE conns[c].receiver
       /\ conns'[c].freed <=> conns[c].freed \/ c \in F
       /\ c \in F => c \in B \/ conns[c].receiver = Nobody
  /\ \A o \in Objects, l \in Lists :
       Rising(lists'[o][l]) /\ Members(lists'[o][l]) = Members(lists[o][l]) \ F
  /\ \A o \in Objects :
       Once(senders'[o]) /\ Members(senders'[o]) = Members(senders[o]) \ B
  /\ object' = object

\* What an emission goes on with when a slot has returned.
Returned(f) ==
  IF Orphaned(f) THEN [f EXCEPT !.at = "walk", !.conn = NoConn, !.walk = <<>>] ELSE Advance(f)

CountsOnly ==
  /\ UNCHANGED <<made, conns, lists, vector, senders, objectVars>>
  /\ inUse' \in [Objects -> Int] /\ dirty' \in [Objects -> BOOLEAN]

\* The connection c is made, from o to p in the list l, and F are freed.
Adds(o, p, l, c, F) ==
  /\ made' = c
  /\ \A d \in 1..made :
       /\ conns'[d].sender = conns[d].sender /\ conns'[d].list = conns[d].list
       /\ conns'[d].receiver = conns[d].receiver
       /\ conns'[d].freed <=> conns[d].freed \/ d \in F
       /\ d \in F => conns[d].receiver = Nobody /\ conns[d].sender = o
  /\ conns'[c].sender = o /\ conns'[c].receiver = p /\ conns'[c].list = l /\ ~conns'[c].freed
  /\ \A k \in Lists :
       /\ Rising(lists'[o][k])
       /\ Members(lists'[o][k]) = (Members(lists[o][k]) \ F) \cup (IF k = l THEN {c} ELSE {})
  /\ \A x \in Objects : x # o => lists'[x] = lists[x] /\ vector'[x] = vector[x]
  /\ vector'[o] = "used"
  /\ Once(senders'[p]) /\ Members(senders'[p]) = Members(senders[p]) \cup {c}
  /\ \A x \in Objects : x # p => senders'[x] = senders[x]
  /\ object' = object

\* What ~QObject goes on with after destroyed(): the calls below have at most another ref.
Told(f) == [f EXCEPT !.at = "lockOne"]

\* What a step of u does to the ends of connections, no other thread's mutex protects.
Permitted(u) ==
  /\ \A c \in 1..made :
       conns'[c].receiver # conns[c].receiver => owner[MutexOf[conns[c].sender]] \in {u, Nobody}
  /\ \A o \in Objects : senders'[o] # senders[o] => owner[MutexOf[o]] \in {u, Nobody}

EndsSame ==
  senders' = senders /\ \A c \in 1..made : conns'[c].receiver = conns[c].receiver

UnderLock ==
  \A t \in Threads : stack'[t] = stack[t] =>
    /\ \A c \in 1..made :
         conns'[c].receiver # conns[c].receiver => owner[MutexOf[conns[c].sender]] # t
    /\ \A o \in Objects : senders'[o] # senders[o] => owner[MutexOf[o]] # t

\* A step of t changes the call at one place of its stack, and of the others at most ref.
Moves(t, n, old, new) ==
  /\ n \in 1..MaxDepth
  /\ \A u \in Threads, i \in 1..MaxDepth : u # t \/ i # n =>
       /\ i \in DOMAIN stack'[u] <=> i \in DOMAIN stack[u]
       /\ i \in DOMAIN stack[u] => Alike(stack[u][i], stack'[u][i])
  /\ old = IF n \in DOMAIN stack[t] THEN {stack[t][n]} ELSE {}
  /\ new = IF n \in DOMAIN stack'[t] THEN {stack'[t][n]} ELSE {}

\* The other calls.
Rest(t, n) ==
  {f \in FrameT : \E u \in Threads : \E i \in DOMAIN stack[u] : (u # t \/ i # n) /\ f = stack[u][i]}

UserOf(f, o) == f.obj = o /\ UsesVector(f)

Listed(o) == {c \in Conns : \E l \in Lists : c \in Members(lists[o][l])}

ConnsKept == \A c \in 1..made : conns'[c].sender = conns[c].sender /\ conns'[c].freed = conns[c].freed

\* A step changes the stack of t at the place n alone.
Elsewhere(t, n) ==
  \A u \in Threads, i \in Nat : u # t \/ i # n =>
    /\ i \in DOMAIN stack'[u] <=> i \in DOMAIN stack[u]
    /\ i \in DOMAIN stack[u] => stack'[u][i] = stack[u][i]

\* A step of t changes its call and, of the others, the ref of one that stands at the place k.
RefAlone(t, k, x) ==
  \A u \in Threads :
    /\ DOMAIN stack'[u] = DOMAIN stack[u]
    /\ \A i \in DOMAIN stack[u] : ~(u = t /\ i = Len(stack[t])) =>
         /\ stack'[u][i].op = stack[u][i].op /\ stack'[u][i].at = stack[u][i].at
         /\ stack'[u][i].obj = stack[u][i].obj /\ stack'[u][i].peer = stack[u][i].peer
         /\ stack'[u][i].prev = stack[u][i].prev
         /\ stack'[u][i].ref = IF u = t /\ i = k THEN x ELSE stack[u][i].ref

\* The lists of an object lose nothing and get what is made now.
Grown(o) ==
  \A l \in Lists : /\ Members(lists[o][l]) \subseteq Members(lists'[o][l])
                   /\ \A c \in Members(lists'[o][l]) \ Members(lists[o][l]) : made < c

OnlyBreaks ==
  /\ made <= made'
  /\ \A c \in 1..made : conns'[c].receiver \in {conns[c].receiver, Nobody}

=============================================================================
