---------------------------- MODULE SharedPointer ----------------------------
(***************************************************************************)
(* QSharedPointer and QWeakPointer (qsharedpointer.h, qsharedpointer.cpp,   *)
(* qobject.cpp).  Threads copy, convert, clear and destroy pointers of      *)
(* their own to objects they share; the only thing they share is the block  *)
(* with the two atomic counters, and one action is one atomic operation on  *)
(* it.  A QObject that no QSharedPointer owns gets a block, with -1 for     *)
(* the strong count, when the first QWeakPointer to it is made.             *)
(***************************************************************************)
EXTENDS Integers, FiniteSets

CONSTANTS
  Threads,
  Strong,     \* the QSharedPointers
  Weak,       \* the QWeakPointers
  Objects,
  QObjects,   \* those that are QObjects
  Untracked,  \* those that no QSharedPointer ever owns: QObjects, deleted by hand
  Blocks,     \* the ExternalRefCountData that may be allocated
  Null

ASSUME PointersAssumption ==
  Strong \cap Weak = {} /\ Threads \cap (Strong \cup Weak) = {}
\* What is counted together is kept apart, and is finite.
ASSUME CountedAssumption ==
  /\ Objects \cap (Strong \cup Weak \cup Threads) = {}
  /\ IsFiniteSet(Threads) /\ IsFiniteSet(Strong \cup Weak) /\ IsFiniteSet(Objects)
ASSUME ObjectsAssumption == Untracked \subseteq QObjects /\ QObjects \subseteq Objects
ASSUME NullAssumption == Null \notin Blocks \cup Objects

VARIABLES
  life,       \* life[o]: "unborn", "alive" or "deleted"
  sharedRefcount,  \* sharedRefcount[o]: the block the QObject o knows, or Null
  state,      \* state[b]: "new" (not allocated yet), "used" or "freed"
  strongref,
  weakref,
  target,     \* target[b]: the object the counters of b are about
  d,          \* d[p]: the block of pointer p, or Null
  user,       \* user[p]: the thread that may use pointer p
  call        \* call[t]: what thread t is doing, see Idle

blockVars == <<state, strongref, weakref, target>>
vars == <<life, sharedRefcount, blockVars, d, user, call>>

Pointers == Strong \cup Weak
Tracked == Objects \ Untracked
Alive(o) == life[o] = "alive"

-----------------------------------------------------------------------------
(* The call of a thread: the next atomic operation (at), the pointer it     *)
(* sets (p), the block in its hands (b) and the strong count or the object  *)
(* it has read.                                                            *)

Idle == [at |-> "idle", p |-> Null, b |-> Null, strong |-> 0, o |-> Null]
At(t, at) == call[t].at = at
Go(t, at) == call' = [call EXCEPT ![t].at = at]
Return(t) == call' = [call EXCEPT ![t] = Idle]
Begin(t, at, p, b) == /\ At(t, "idle")
                      /\ call' = [call EXCEPT ![t] = [Idle EXCEPT !.at = at, !.p = p, !.b = b]]

Init ==
  /\ life = [o \in Objects |-> IF o \in Untracked THEN "alive" ELSE "unborn"]
  /\ sharedRefcount = [o \in Objects |-> Null]
  /\ state = [b \in Blocks |-> "new"]
  /\ strongref = [b \in Blocks |-> 0]
  /\ weakref = [b \in Blocks |-> 0]
  /\ target = [b \in Blocks |-> Null]
  /\ d = [p \in Pointers |-> Null]
  /\ user \in [Pointers -> Threads]
  /\ call = [t \in Threads |-> Idle]

-----------------------------------------------------------------------------
(* Constructing and copying.                                               *)

\* operator new, which never gives out a block again while it is watched.
Fresh == CHOOSE b \in Blocks : state[b] = "new"

\* bound: the Blocks there are
MayAllocate == \E b \in Blocks : state[b] = "new"

\* Mutant of KeptBySelf: setQObjectShared does not take a weak reference.
KeptByNobody(o) == 0

\* setQObjectShared: a QObject keeps the block it knows.
KeptBySelf(o) == IF o \in QObjects THEN 1 ELSE 0

\* QSharedPointer(new T), or create(), for a null pointer.
Create(t, p, o) ==
  LET b == Fresh IN
  /\ At(t, "idle") /\ d[p] = Null /\ MayAllocate
  /\ o \notin Untracked /\ life[o] = "unborn"
  /\ life' = [life EXCEPT ![o] = "alive"]
  /\ state' = [state EXCEPT ![b] = "used"]
  /\ target' = [target EXCEPT ![b] = o]
  /\ strongref' = [strongref EXCEPT ![b] = 1]
  /\ weakref' = [weakref EXCEPT ![b] = 1 + KeptBySelf(o)]
  /\ sharedRefcount' = [sharedRefcount EXCEPT ![o] = IF o \in QObjects THEN b ELSE @]
  /\ d' = [d EXCEPT ![p] = b]
  /\ UNCHANGED <<user, call>>

\* p = q, for two QSharedPointers: the new reference is taken first.
Copy(t, p, q) ==
  /\ Begin(t, IF d[q] = Null THEN "swap" ELSE "refWeak", p, d[q])
  /\ UNCHANGED <<life, sharedRefcount, blockVars, d, user>>

RefWeak(t) ==
  /\ At(t, "refWeak") /\ Go(t, "refStrong")
  /\ weakref' = [weakref EXCEPT ![call[t].b] = @ + 1]
  /\ UNCHANGED <<life, sharedRefcount, state, strongref, target, d, user>>

RefStrong(t) ==
  /\ At(t, "refStrong") /\ Go(t, "swap")
  /\ strongref' = [strongref EXCEPT ![call[t].b] = @ + 1]
  /\ UNCHANGED <<life, sharedRefcount, state, weakref, target, d, user>>

\* std::move: the two pointers change places.
Swap(t, p, q) ==
  /\ At(t, "idle")
  /\ d' = [d EXCEPT ![p] = d[q], ![q] = d[p]]
  /\ UNCHANGED <<life, sharedRefcount, blockVars, user, call>>

-----------------------------------------------------------------------------
(* p = w, for a QWeakPointer (or a cast QSharedPointer) w: the strong count *)
(* goes up, but never up from zero or from -1.                             *)

Promote(t, p, w) ==
  /\ Begin(t, IF d[w] = Null THEN "swap" ELSE "read", p, d[w])
  /\ UNCHANGED <<life, sharedRefcount, blockVars, d, user>>

\* Mutant of MayPromote: only the -1 of an object without owners is refused.
MayPromoteAny(n) == n >= 0

MayPromote(n) == n > 0

ReadStrong(t) ==
  /\ At(t, "read")
  /\ IF MayPromote(strongref[call[t].b])
       THEN call' = [call EXCEPT ![t].at = "cas", ![t].strong = strongref[call[t].b]]
       ELSE call' = [call EXCEPT ![t].at = "swap", ![t].b = Null]
  /\ UNCHANGED <<life, sharedRefcount, blockVars, d, user>>

\* Mutant of TestAndSetStrong: the count is written back without a test.
SetStrong(t) ==
  /\ At(t, "cas") /\ Go(t, "promoteWeak")
  /\ strongref' = [strongref EXCEPT ![call[t].b] = call[t].strong + 1]
  /\ UNCHANGED <<life, sharedRefcount, state, weakref, target, d, user>>

TestAndSetStrong(t) ==
  LET b == call[t].b IN
  /\ At(t, "cas")
  /\ \/ /\ strongref[b] = call[t].strong
        /\ strongref' = [strongref EXCEPT ![b] = @ + 1]
        /\ Go(t, "promoteWeak")
     \/ /\ strongref[b] # call[t].strong
        /\ Go(t, "read")
        /\ UNCHANGED strongref
  /\ UNCHANGED <<life, sharedRefcount, state, weakref, target, d, user>>

\* Mutant of PromoteWeak: only the strong count goes up.
PromoteStrongOnly(t) ==
  /\ At(t, "promoteWeak") /\ Go(t, "swap")
  /\ UNCHANGED <<life, sharedRefcount, blockVars, d, user>>

PromoteWeak(t) ==
  /\ At(t, "promoteWeak") /\ Go(t, "swap")
  /\ weakref' = [weakref EXCEPT ![call[t].b] = @ + 1]
  /\ UNCHANGED <<life, sharedRefcount, state, strongref, target, d, user>>

\* The pointer takes the block in hand, and the thread goes on to let go of the old one.
SwapIn(t) ==
  LET p == call[t].p IN
  /\ At(t, "swap")
  /\ d' = [d EXCEPT ![p] = call[t].b]
  /\ IF d[p] = Null THEN Return(t)
                    ELSE call' = [call EXCEPT ![t].at = "derefStrong", ![t].b = d[p]]
  /\ UNCHANGED <<life, sharedRefcount, blockVars, user>>

-----------------------------------------------------------------------------
(* Letting go of a block.                                                  *)

\* p.clear(), or the destruction of p.
Clear(t, p) ==
  /\ d[p] # Null
  /\ Begin(t, IF p \in Strong THEN "derefStrong" ELSE "derefWeak", p, d[p])
  /\ d' = [d EXCEPT ![p] = Null]
  /\ UNCHANGED <<life, sharedRefcount, blockVars, user>>

\* The last strong reference deletes the object.
DerefStrong(t) ==
  LET b == call[t].b IN
  /\ At(t, "derefStrong")
  /\ strongref' = [strongref EXCEPT ![b] = @ - 1]
  /\ IF strongref[b] # 1 THEN Go(t, "derefWeak")
     ELSE call' = [call EXCEPT ![t].at = "destroy", ![t].o = target[b]]
  /\ UNCHANGED <<life, sharedRefcount, state, weakref, target, d, user>>

\* delete value: ~QObject first zeroes the strong count and lets go of the block.
Destroy(t) ==
  LET o == call[t].o IN
  /\ At(t, "destroy")
  /\ life' = [life EXCEPT ![o] = "deleted"]
  /\ IF o \in QObjects /\ sharedRefcount[o] # Null
       THEN /\ strongref' = [strongref EXCEPT ![sharedRefcount[o]] = 0]
            /\ Go(t, "leaveObject")
       ELSE /\ IF call[t].b = Null THEN Return(t) ELSE Go(t, "derefWeak")
            /\ UNCHANGED strongref
  /\ UNCHANGED <<sharedRefcount, state, weakref, target, d, user>>

\* weakref.deref(), and the block is deleted with the last weak reference.
Deref(b) ==
  /\ weakref' = [weakref EXCEPT ![b] = @ - 1]
  /\ state' = [state EXCEPT ![b] = IF weakref[b] = 1 THEN "freed" ELSE @]
  /\ UNCHANGED <<life, sharedRefcount, strongref, target>>

LeaveObject(t) ==
  /\ At(t, "leaveObject")
  /\ IF call[t].b = Null THEN Return(t) ELSE Go(t, "derefWeak")
  /\ Deref(sharedRefcount[call[t].o])
  /\ UNCHANGED <<d, user>>

DerefWeak(t) ==
  /\ At(t, "derefWeak") /\ Return(t)
  /\ Deref(call[t].b)
  /\ UNCHANGED <<d, user>>

-----------------------------------------------------------------------------
(* QWeakPointer.                                                           *)

\* w = q, for a pointer q of any kind with another block.
Weaken(t, w, q) ==
  /\ d[w] # d[q]
  /\ Begin(t, IF d[q] = Null THEN "weakSet" ELSE "weakRef", w, d[q])
  /\ UNCHANGED <<life, sharedRefcount, blockVars, d, user>>

WeakRef(t) ==
  /\ At(t, "weakRef") /\ Go(t, "weakSet")
  /\ weakref' = [weakref EXCEPT ![call[t].b] = @ + 1]
  /\ UNCHANGED <<life, sharedRefcount, state, strongref, target, d, user>>

\* The old block is let go; it is what the pointer still points to.
WeakSet(t) ==
  LET w == call[t].p IN
  /\ At(t, "weakSet") /\ Return(t)
  /\ d' = [d EXCEPT ![w] = call[t].b]
  /\ IF d[w] = Null THEN UNCHANGED <<life, sharedRefcount, blockVars>> ELSE Deref(d[w])
  /\ UNCHANGED user

\* The thread may use o: it owns it, or nobody is about to delete it.
InUse(o) == \E t \in Threads : call[t].o = o
MayUse(t, o) ==
  /\ Alive(o)
  /\ IF o \in Untracked THEN \A u \in Threads : call[u].o = o => call[u].at \notin {"destroy", "leaveObject"}
     ELSE \E p \in Strong : user[p] = t /\ d[p] # Null /\ target[d[p]] = o

\* QWeakPointer(o): getAndRef reads the block that o knows ...
WeakOf(t, w, o) ==
  /\ At(t, "idle") /\ d[w] = Null /\ o \in QObjects /\ MayUse(t, o)
  /\ call' = [call EXCEPT ![t] =
       [Idle EXCEPT !.p = w, !.o = o, !.b = sharedRefcount[o],
                    !.at = IF sharedRefcount[o] = Null THEN "allocate" ELSE "weakRef"]]
  /\ UNCHANGED <<life, sharedRefcount, blockVars, d, user>>

\* ... and if there is none allocates one, ...
Allocate(t) ==
  LET b == Fresh IN
  /\ At(t, "allocate") /\ MayAllocate
  /\ call' = [call EXCEPT ![t].at = "publish", ![t].b = b]
  /\ state' = [state EXCEPT ![b] = "used"]
  /\ target' = [target EXCEPT ![b] = call[t].o]
  /\ strongref' = [strongref EXCEPT ![b] = -1]
  /\ weakref' = [weakref EXCEPT ![b] = 2]
  /\ UNCHANGED <<life, sharedRefcount, d, user>>

\* ... which o gets to know, unless another thread was faster.
Publish(t) ==
  LET c == call[t] IN
  /\ At(t, "publish")
  /\ \/ /\ sharedRefcount[c.o] = Null
        /\ sharedRefcount' = [sharedRefcount EXCEPT ![c.o] = c.b]
        /\ Go(t, "weakSet")
        /\ UNCHANGED state
     \/ /\ sharedRefcount[c.o] # Null
        /\ state' = [state EXCEPT ![c.b] = "freed"]
        /\ call' = [call EXCEPT ![t].at = "weakRef", ![t].b = sharedRefcount[c.o]]
        /\ UNCHANGED sharedRefcount
  /\ UNCHANGED <<life, strongref, weakref, target, d, user>>

\* delete o, by hand, when no other thread is using it.
DeleteObject(t, o) ==
  /\ At(t, "idle") /\ o \in Untracked /\ Alive(o) /\ ~InUse(o)
  /\ call' = [call EXCEPT ![t] = [Idle EXCEPT !.at = "destroy", !.o = o]]
  /\ UNCHANGED <<life, sharedRefcount, blockVars, d, user>>

\* The pointer is handed to another thread, under a mutex or in a queued event.
HandOver(t, p, u) ==
  /\ At(t, "idle") /\ user[p] = t
  /\ user' = [user EXCEPT ![p] = u]
  /\ UNCHANGED <<life, sharedRefcount, blockVars, d, call>>

-----------------------------------------------------------------------------
\* What thread t's program may call.
Call(t) ==
  \/ \E p \in Strong : user[p] = t /\
       \/ \E o \in Objects : Create(t, p, o)
       \/ \E q \in Strong \ {p} : user[q] = t /\ (Copy(t, p, q) \/ Swap(t, p, q))
       \/ \E q \in Pointers \ {p} : user[q] = t /\ Promote(t, p, q)
  \/ \E p \in Pointers : user[p] = t /\ Clear(t, p)
  \/ \E p \in Pointers, u \in Threads \ {t} : HandOver(t, p, u)
  \/ \E w \in Weak : user[w] = t /\
       \/ \E q \in Pointers \ {w} : user[q] = t /\ Weaken(t, w, q)
       \/ \E o \in Objects : WeakOf(t, w, o)
  \/ \E o \in Objects : DeleteObject(t, o)

\* The steps of a call.
Step(t) ==
  \/ RefWeak(t) \/ RefStrong(t) \/ ReadStrong(t) \/ TestAndSetStrong(t) \/ PromoteWeak(t)
  \/ SwapIn(t) \/ DerefStrong(t) \/ Destroy(t) \/ LeaveObject(t) \/ DerefWeak(t)
  \/ WeakRef(t) \/ WeakSet(t) \/ Allocate(t) \/ Publish(t)

Next == \E t \in Threads : Call(t) \/ Step(t)

Spec == Init /\ [][Next]_vars

\* A thread finishes the calls it makes.
FairSpec == Spec /\ \A t \in Threads : WF_vars(Step(t))

-----------------------------------------------------------------------------
(* Properties.                                                             *)

Ats == {"idle", "refWeak", "refStrong", "read", "cas", "promoteWeak", "swap", "derefStrong",
        "destroy", "leaveObject", "derefWeak", "weakRef", "weakSet", "allocate", "publish"}

\* Types; the strong count is -1 only for objects that no QSharedPointer owns.
TypeOK ==
  /\ life \in [Objects -> {"unborn", "alive", "deleted"}]
  /\ sharedRefcount \in [Objects -> Blocks \cup {Null}]
  /\ state \in [Blocks -> {"new", "used", "freed"}]
  /\ strongref \in [Blocks -> Int] /\ weakref \in [Blocks -> Nat]
  /\ target \in [Blocks -> Objects \cup {Null}]
  /\ d \in [Pointers -> Blocks \cup {Null}]
  /\ user \in [Pointers -> Threads]
  /\ call \in [Threads -> [at : Ats, p : Pointers \cup {Null}, b : Blocks \cup {Null},
                           strong : Nat, o : Objects \cup {Null}]]
  /\ \A b \in Blocks : strongref[b] < 0 => strongref[b] = -1 /\ target[b] \in Untracked

\* The blocks that the next step of thread t reads or writes.
Touched(t) ==
  LET c == call[t] IN
  (IF c.at \in {"idle", "destroy", "leaveObject", "swap", "weakSet"} THEN {} ELSE {c.b})
  \cup (IF c.at \in {"destroy", "leaveObject"} THEN {sharedRefcount[c.o]} ELSE {})
  \cup (IF c.at = "weakSet" THEN {d[c.p]} ELSE {})

\* No thread touches a block of counters that another one has freed: a QWeakPointer keeps
\* the block while it is converted, ~QObject and getAndRef have the reference of the object.
CountersOutliveUsers ==
  /\ \A p \in Pointers : d[p] # Null => state[d[p]] = "used"
  /\ \A t \in Threads, b \in Blocks : b \in Touched(t) => state[b] = "used"

\* When no thread is in the middle of a call, the counters are those who count: no object and
\* no block is left behind, and none is gone while a pointer or a living QObject has it.
CountsAgree ==
  (\A t \in Threads : At(t, "idle")) =>
    \A b \in Blocks :
      LET owners == {p \in Strong : d[p] = b}
          keepers == {p \in Pointers : d[p] = b}
                     \cup {o \in Objects : Alive(o) /\ sharedRefcount[o] = b}
      IN  /\ state[b] = "used" <=> keepers # {}
          /\ state[b] = "used" => weakref[b] = Cardinality(keepers)
          /\ target[b] \in Tracked => /\ strongref[b] = Cardinality(owners)
                                      /\ Alive(target[b]) <=> owners # {}

-----------------------------------------------------------------------------
(* The refinement: who owns what.                                          *)

\* Whom a thread in the middle of a call owns: what it has taken and not given to the
\* pointer yet, or what it has taken out of it.
InHand(t) ==
  LET c == call[t] IN
  IF \/ c.at \in {"promoteWeak", "derefStrong"}
     \/ c.at = "swap" /\ c.b # Null
  THEN target[c.b] ELSE Null

Owns == [a \in Strong \cup Threads |->
           IF a \in Threads THEN InHand(a) ELSE IF d[a] = Null THEN Null ELSE target[d[a]]]

O == INSTANCE Ownership WITH
       Objects <- Tracked, Owners <- Strong \cup Threads, Nothing <- Null,
       owns <- Owns, life <- [o \in Tracked |-> life[o]]

\* Copying, converting, moving and clearing pointers in several threads keeps what
\* QSharedPointer promises: see Ownership.
ImplementsOwnership == O!Spec

\* A QSharedPointer that is not null, and a thread that converts or copies one, has a living
\* object, whatever QSharedPointers other threads let go meanwhile.
OwnedIsAlive == \A a \in Strong \cup Threads : Owns[a] # Null => Alive(Owns[a])

\* ~ExternalRefCountData asserts that nobody refers to the block.
FreedUnreferenced == \A b \in Blocks : state[b] = "freed" => weakref[b] = 0

=============================================================================
