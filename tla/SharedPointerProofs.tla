------------------------- MODULE SharedPointerProofs -------------------------
(***************************************************************************)
(* Theorems about SharedPointer, for any number of threads, pointers,      *)
(* objects and blocks.  The inductive invariant counts who has a strong or *)
(* a weak reference in the middle of every call; see IInv.                 *)
(***************************************************************************)
EXTENDS SharedPointer, FiniteSetTheorems, TLAPS

-----------------------------------------------------------------------------
(* Who is counted.                                                         *)

Tokens == Pointers \cup Threads \cup Objects

\* The block of which a thread in the middle of a call has a strong or a weak reference.
StrongHeld(t) ==
  IF call[t].at \in {"promoteWeak", "swap", "derefStrong"} THEN call[t].b ELSE Null
WeakHeld(t) ==
  IF call[t].at \in {"refStrong", "swap", "derefStrong", "destroy", "leaveObject", "derefWeak",
                     "weakSet"}
    THEN call[t].b ELSE Null

\* A QObject has a weak reference until its destructor gives it back.
Leaving(o) == \E t \in Threads : At(t, "leaveObject") /\ call[t].o = o
Keeps(o, b) == sharedRefcount[o] = b /\ (Alive(o) \/ Leaving(o))

Owners(b) == {p \in Strong : d[p] = b} \cup {t \in Threads : StrongHeld(t) = b}
Keepers(b) == {p \in Pointers : d[p] = b} \cup {t \in Threads : WeakHeld(t) = b}
              \cup {o \in Objects : Keeps(o, b)}

\* The block of a thread that has allocated it, and that nobody else knows yet.
Private(b) == \E t \in Threads : At(t, "publish") /\ call[t].b = b

-----------------------------------------------------------------------------
(* The inductive invariant.                                                *)

\* A thread has the use of the pointers it works on, and of one that keeps the block it is
\* about to count.
ArgumentsOf(t) ==
  LET c == call[t] IN
  /\ c.at \in {"refWeak", "refStrong", "read", "cas", "promoteWeak", "swap"} =>
       c.p \in Strong /\ user[c.p] = t
  /\ c.at \in {"weakRef", "weakSet", "allocate", "publish"} => c.p \in Weak /\ user[c.p] = t
  /\ c.at \in {"refWeak", "refStrong", "read", "cas", "promoteWeak", "weakRef", "derefStrong",
               "derefWeak", "publish"} => c.b # Null
  /\ c.at \in {"refWeak", "refStrong"} => \E q \in Strong : user[q] = t /\ d[q] = c.b
  /\ c.at \in {"read", "cas", "promoteWeak"} \/ (c.at = "weakRef" /\ c.o = Null) =>
       \E q \in Pointers : user[q] = t /\ d[q] = c.b
  /\ c.at = "cas" => c.strong > 0
  /\ c.at = "allocate" => c.b = Null
Arguments == \A t \in Threads : ArgumentsOf(t)

\* A thread that makes a QWeakPointer to a QObject has the use of that, too.
UsesOf(t) ==
  LET c == call[t] IN
  /\ c.at \in {"weakRef", "weakSet", "allocate", "publish"} /\ c.o # Null =>
       /\ c.o \in QObjects /\ Alive(c.o)
       /\ c.o \in Tracked =>
            \E p \in Strong : user[p] = t /\ d[p] # Null /\ target[d[p]] = c.o
  /\ c.at \in {"allocate", "publish"} => c.o \in Untracked
  /\ c.at = "publish" => target[c.b] = c.o /\ strongref[c.b] = -1 /\ weakref[c.b] = 2
  /\ c.at = "weakRef" /\ c.o # Null => c.b = sharedRefcount[c.o]
Uses == \A t \in Threads : UsesOf(t)

\* Who deletes an object does so alone.
DeletesOf(t) ==
  LET c == call[t] IN
  /\ c.at \in {"destroy", "leaveObject"} =>
       /\ c.o \in Objects
       /\ c.o \in Tracked => /\ c.b # Null /\ target[c.b] = c.o /\ strongref[c.b] = 0
       /\ c.o \in Untracked => c.b = Null
       /\ \A u \in Threads \ {t} : c.o \in Untracked \/ call[u].at \in {"destroy", "leaveObject"} =>
            call[u].o # c.o
  /\ c.at = "destroy" => Alive(c.o)
  /\ c.at = "leaveObject" =>
       life[c.o] = "deleted" /\ c.o \in QObjects /\ sharedRefcount[c.o] # Null
Deletes == \A t \in Threads : DeletesOf(t)

\* What a block is about.
Targets ==
  /\ \A b \in Blocks : state[b] = "new" <=> target[b] = Null
  /\ \A b \in Blocks : target[b] \in Tracked => life[target[b]] # "unborn"
  /\ \A b, c \in Blocks : target[b] \in Tracked /\ target[b] = target[c] => b = c
  /\ \A o \in Objects : sharedRefcount[o] # Null =>
       o \in QObjects /\ target[sharedRefcount[o]] = o
  /\ \A o \in Tracked \cap QObjects : Alive(o) => sharedRefcount[o] # Null
  /\ \A t, u \in Threads :
       At(t, "publish") /\ At(u, "publish") /\ call[t].b = call[u].b => t = u

\* The weak count is the number of keepers, and the block is there while it has one.
WeakAgrees(b) ==
  /\ state[b] = "used" /\ ~Private(b) =>
       Keepers(b) # {} /\ weakref[b] = Cardinality(Keepers(b))
  /\ state[b] # "used" \/ Private(b) => Keepers(b) = {}
  /\ Private(b) => state[b] = "used" /\ \A o \in Objects : sharedRefcount[o] # b
WeakCounted == \A b \in Blocks : WeakAgrees(b)

\* A thread is about to delete o.
Doomed(o) == \E t \in Threads : At(t, "destroy") /\ call[t].o = o

\* The strong count is the number of owners, and keeps the object alive.
StrongAgrees(b) ==
  /\ state[b] = "new" \/ target[b] \in Untracked => Owners(b) = {}
  /\ target[b] \in Untracked => strongref[b] \in {-1, 0}
  /\ target[b] \in Tracked =>
       /\ strongref[b] = Cardinality(Owners(b))
       /\ Alive(target[b]) <=> strongref[b] > 0 \/ Doomed(target[b])
StrongCounted == \A b \in Blocks : StrongAgrees(b)

IInv == TypeOK /\ Arguments /\ Uses /\ Deletes /\ Targets /\ WeakCounted /\ StrongCounted

-----------------------------------------------------------------------------
(* Counting.                                                               *)

LEMMA TokensFinite ==
  /\ IsFiniteSet(Tokens)
  /\ \A S \in SUBSET Tokens : IsFiniteSet(S) /\ Cardinality(S) \in Nat
<1>1. IsFiniteSet(Tokens)
  BY FS_Union, CountedAssumption DEF Tokens, Pointers
<1> QED BY <1>1, FS_Subset, FS_CardinalityType

LEMMA AddOne ==
  ASSUME NEW S \in SUBSET Tokens, NEW x \in Tokens, x \notin S
  PROVE  Cardinality(S \cup {x}) = Cardinality(S) + 1
  BY TokensFinite, FS_AddElement

LEMMA RemoveOne ==
  ASSUME NEW S \in SUBSET Tokens, NEW x \in S
  PROVE  /\ Cardinality(S \ {x}) = Cardinality(S) - 1
         /\ Cardinality(S) > 0
         /\ Cardinality(S) = 1 => S = {x}
<1>1. Cardinality(S \ {x}) = Cardinality(S) - 1
  BY TokensFinite, FS_RemoveElement
<1>2. Cardinality(S) \in Nat /\ Cardinality(S \ {x}) \in Nat /\ IsFiniteSet(S \ {x})
  BY TokensFinite
<1>3. Cardinality(S) = 1 => S \ {x} = {}
  BY <1>1, <1>2, FS_EmptySet
<1> QED BY <1>1, <1>2, <1>3

LEMMA ReplaceOne ==
  ASSUME NEW S \in SUBSET Tokens, NEW x \in S, NEW y \in Tokens, y \notin S
  PROVE  Cardinality((S \ {x}) \cup {y}) = Cardinality(S)
<1>1. Cardinality(S \ {x}) = Cardinality(S) - 1
  BY RemoveOne
<1>2. Cardinality((S \ {x}) \cup {y}) = Cardinality(S \ {x}) + 1
  BY AddOne
<1>3. Cardinality(S) \in Nat
  BY TokensFinite
<1> QED BY <1>1, <1>2, <1>3

LEMMA NoneCounted == Cardinality({}) = 0 /\ \A S \in SUBSET Tokens : Cardinality(S) = 0 => S = {}
  BY TokensFinite, FS_EmptySet

LEMMA HoldersAreTokens ==
  /\ \A b : Owners(b) \in SUBSET Tokens /\ Keepers(b) \in SUBSET Tokens
  /\ \A b : Owners(b)' \in SUBSET Tokens /\ Keepers(b)' \in SUBSET Tokens
  BY DEF Owners, Keepers, Tokens, Pointers

\* The cases of Next.
LEMMA NextCases ==
  ASSUME [Next]_vars
  PROVE  \/ UNCHANGED vars
         \/ \E t \in Threads :
              \/ \E p \in Strong, o \in Objects : user[p] = t /\ Create(t, p, o)
              \/ \E p \in Strong : \E q \in Strong \ {p} :
                   user[p] = t /\ user[q] = t /\ (Copy(t, p, q) \/ Swap(t, p, q))
              \/ \E p \in Strong : \E q \in Pointers \ {p} :
                   user[p] = t /\ user[q] = t /\ Promote(t, p, q)
              \/ \E p \in Pointers : user[p] = t /\ Clear(t, p)
              \/ \E p \in Pointers, u \in Threads \ {t} : HandOver(t, p, u)
              \/ \E w \in Weak : \E q \in Pointers \ {w} :
                   user[w] = t /\ user[q] = t /\ Weaken(t, w, q)
              \/ \E w \in Weak, o \in Objects : user[w] = t /\ WeakOf(t, w, o)
              \/ \E o \in Objects : DeleteObject(t, o)
              \/ RefWeak(t) \/ RefStrong(t) \/ ReadStrong(t) \/ TestAndSetStrong(t)
              \/ PromoteWeak(t) \/ SwapIn(t) \/ DerefStrong(t) \/ Destroy(t)
              \/ LeaveObject(t) \/ DerefWeak(t) \/ WeakRef(t) \/ WeakSet(t)
              \/ Allocate(t) \/ Publish(t)
<1>1. CASE UNCHANGED vars
  BY <1>1
<1>2. ASSUME NEW t \in Threads, Call(t)
      PROVE  \/ \E p \in Strong, o \in Objects : user[p] = t /\ Create(t, p, o)
             \/ \E p \in Strong : \E q \in Strong \ {p} :
                  user[p] = t /\ user[q] = t /\ (Copy(t, p, q) \/ Swap(t, p, q))
             \/ \E p \in Strong : \E q \in Pointers \ {p} :
                  user[p] = t /\ user[q] = t /\ Promote(t, p, q)
             \/ \E p \in Pointers : user[p] = t /\ Clear(t, p)
             \/ \E p \in Pointers, u \in Threads \ {t} : HandOver(t, p, u)
             \/ \E w \in Weak : \E q \in Pointers \ {w} :
                  user[w] = t /\ user[q] = t /\ Weaken(t, w, q)
             \/ \E w \in Weak, o \in Objects : user[w] = t /\ WeakOf(t, w, o)
             \/ \E o \in Objects : DeleteObject(t, o)
  BY <1>2 DEF Call
<1> QED BY <1>1, <1>2 DEF Next, Step

\* A block that is new is nobody's.
LEMMA FreshBlock ==
  ASSUME MayAllocate
  PROVE  Fresh \in Blocks /\ state[Fresh] = "new"
  BY DEF MayAllocate, Fresh

\* Whoever holds a reference finds it counted.
LEMMA Kept ==
  ASSUME WeakCounted, NEW b \in Blocks, NEW x \in Keepers(b)
  PROVE  /\ state[b] = "used" /\ ~Private(b)
         /\ weakref[b] = Cardinality(Keepers(b)) /\ weakref[b] > 0
         /\ weakref[b] = 1 => Keepers(b) = {x}
<1>1. state[b] = "used" /\ ~Private(b) /\ weakref[b] = Cardinality(Keepers(b))
  BY DEF WeakCounted, WeakAgrees
<1> QED BY <1>1, HoldersAreTokens, RemoveOne

LEMMA Owned ==
  ASSUME TypeOK, Targets, StrongCounted, NEW b \in Blocks, NEW x \in Owners(b)
  PROVE  /\ target[b] \in Tracked
         /\ strongref[b] = Cardinality(Owners(b)) /\ strongref[b] > 0
         /\ strongref[b] = 1 => Owners(b) = {x}
         /\ Alive(target[b])
<1>1. state[b] # "new" /\ target[b] \notin Untracked
  BY DEF StrongCounted, StrongAgrees
<1>2. target[b] # Null => target[b] \in Tracked
  BY <1>1 DEF TypeOK, Tracked
<1>3. target[b] \in Tracked /\ strongref[b] = Cardinality(Owners(b))
  <2>1. target[b] # Null
    BY <1>1 DEF StrongCounted, StrongAgrees, Targets
  <2> QED BY <1>2, <2>1 DEF StrongCounted, StrongAgrees
<1>4. strongref[b] > 0 /\ (strongref[b] = 1 => Owners(b) = {x})
  BY <1>3, HoldersAreTokens, RemoveOne
<1> QED BY <1>3, <1>4 DEF StrongCounted, StrongAgrees

\* What a thread, a pointer and a QObject hold.
LEMMA HoldersKeep ==
  ASSUME TypeOK
  PROVE  /\ \A t \in Threads : WeakHeld(t) # Null =>
              WeakHeld(t) \in Blocks /\ t \in Keepers(WeakHeld(t))
         /\ \A t \in Threads : StrongHeld(t) # Null =>
              StrongHeld(t) \in Blocks /\ t \in Owners(StrongHeld(t))
         /\ \A p \in Pointers : d[p] # Null => d[p] \in Blocks /\ p \in Keepers(d[p])
         /\ \A p \in Strong : d[p] # Null => d[p] \in Blocks /\ p \in Owners(d[p])
         /\ \A o \in Objects : sharedRefcount[o] # Null /\ (Alive(o) \/ Leaving(o)) =>
              sharedRefcount[o] \in Blocks /\ o \in Keepers(sharedRefcount[o])
  BY DEF TypeOK, WeakHeld, StrongHeld, Keepers, Owners, Keeps, Pointers

-----------------------------------------------------------------------------
(* Types.                                                                  *)

LEMMA InitIInv == Init => IInv
<1> SUFFICES ASSUME Init PROVE IInv
  OBVIOUS
<1> USE PointersAssumption, ObjectsAssumption, NullAssumption
<1>1. TypeOK
  BY DEF Init, TypeOK, Idle, Ats
<1>2. \A t \in Threads : call[t].at = "idle"
  BY DEF Init, Idle
<1>3. Arguments /\ Uses /\ Deletes
  BY <1>2 DEF Arguments, ArgumentsOf, Uses, UsesOf, Deletes, DeletesOf
<1>4. Targets
  BY <1>2 DEF Init, Targets, At, Tracked, Alive
<1>5. /\ \A b \in Blocks : Keepers(b) = {} /\ Owners(b) = {}
      /\ \A b \in Blocks : ~Private(b)
  BY <1>2 DEF Init, Keepers, Owners, Private, WeakHeld, StrongHeld, Keeps, Leaving, Alive, At,
     Pointers
<1>6. WeakCounted
  BY <1>5 DEF WeakCounted, WeakAgrees, Init
<1>7. StrongCounted
  BY <1>5 DEF StrongCounted, StrongAgrees, Init, Tracked
<1> QED BY <1>1, <1>3, <1>4, <1>6, <1>7 DEF IInv

\* A weak reference is taken away from who has one.
LEMMA DerefTypes ==
  ASSUME TypeOK, WeakCounted, NEW b \in Blocks, NEW x \in Keepers(b), Deref(b)
  PROVE  /\ weakref' \in [Blocks -> Nat] /\ state' \in [Blocks -> {"new", "used", "freed"}]
         /\ UNCHANGED <<life, sharedRefcount, strongref, target>>
<1>1. weakref[b] - 1 \in Nat
  BY Kept DEF TypeOK
<1> QED BY <1>1 DEF Deref, TypeOK

\* What a thread is doing stays typed.
CallType == [at : Ats, p : Pointers \cup {Null}, b : Blocks \cup {Null}, strong : Nat,
             o : Objects \cup {Null}]

LEMMA CallTypes ==
  ASSUME TypeOK, NEW t \in Threads
  PROVE  /\ \A at \in Ats : Go(t, at) => call' \in [Threads -> CallType]
         /\ Return(t) => call' \in [Threads -> CallType]
         /\ \A at \in Ats, p \in Pointers, b \in Blocks \cup {Null} :
              Begin(t, at, p, b) => call' \in [Threads -> CallType]
         /\ \A at \in Ats, b \in Blocks \cup {Null} :
              call' = [call EXCEPT ![t].at = at, ![t].b = b] => call' \in [Threads -> CallType]
         /\ \A at \in Ats, n \in Nat :
              call' = [call EXCEPT ![t].at = at, ![t].strong = n] => call' \in [Threads -> CallType]
         /\ \A at \in Ats, o \in Objects \cup {Null} :
              call' = [call EXCEPT ![t].at = at, ![t].o = o] => call' \in [Threads -> CallType]
<1>1. call \in [Threads -> CallType] /\ call[t] \in CallType
  BY DEF TypeOK, CallType
<1>2. Idle \in CallType
  BY DEF Idle, CallType, Ats
<1>3. \A at \in Ats, p \in Pointers, b \in Blocks \cup {Null} :
        [Idle EXCEPT !.at = at, !.p = p, !.b = b] \in CallType
  BY DEF Idle, CallType
<1>4. \A at \in Ats : [call[t] EXCEPT !.at = at] \in CallType
  BY <1>1 DEF CallType
<1>5. \A at \in Ats, b \in Blocks \cup {Null} : [call[t] EXCEPT !.at = at, !.b = b] \in CallType
  BY <1>1 DEF CallType
<1>6. \A at \in Ats, n \in Nat : [call[t] EXCEPT !.at = at, !.strong = n] \in CallType
  BY <1>1 DEF CallType
<1>7. \A at \in Ats, o \in Objects \cup {Null} : [call[t] EXCEPT !.at = at, !.o = o] \in CallType
  BY <1>1 DEF CallType
<1>8. \A at \in Ats : Go(t, at) => call' \in [Threads -> CallType]
  BY <1>1, <1>4 DEF Go
<1>9. Return(t) => call' \in [Threads -> CallType]
  BY <1>1, <1>2 DEF Return
<1>10. \A at \in Ats, p \in Pointers, b \in Blocks \cup {Null} :
         Begin(t, at, p, b) => call' \in [Threads -> CallType]
  <2> SUFFICES ASSUME NEW at \in Ats, NEW p \in Pointers, NEW b \in Blocks \cup {Null},
                      Begin(t, at, p, b)
               PROVE  call' \in [Threads -> CallType]
    OBVIOUS
  <2> DEFINE c == [Idle EXCEPT !.at = at, !.p = p, !.b = b]
  <2>1. c \in CallType
    BY <1>3
  <2>2. call' = [call EXCEPT ![t] = c]
    BY DEF Begin
  <2> HIDE DEF c
  <2> QED BY <1>1, <2>1, <2>2
<1>11. \A at \in Ats, b \in Blocks \cup {Null} :
         call' = [call EXCEPT ![t].at = at, ![t].b = b] => call' \in [Threads -> CallType]
  BY <1>1, <1>5
<1>12. \A at \in Ats, n \in Nat :
         call' = [call EXCEPT ![t].at = at, ![t].strong = n] => call' \in [Threads -> CallType]
  BY <1>1, <1>6
<1>13. \A at \in Ats, o \in Objects \cup {Null} :
         call' = [call EXCEPT ![t].at = at, ![t].o = o] => call' \in [Threads -> CallType]
  BY <1>1, <1>7
<1> QED BY <1>8, <1>9, <1>10, <1>11, <1>12, <1>13

LEMMA AtsAre ==
  {"idle", "refWeak", "refStrong", "read", "cas", "promoteWeak", "swap", "derefStrong",
   "destroy", "leaveObject", "derefWeak", "weakRef", "weakSet", "allocate", "publish"} \subseteq Ats
  BY DEF Ats

LEMMA TypeStep == IInv /\ [Next]_vars => TypeOK'
<1> SUFFICES ASSUME IInv, [Next]_vars PROVE TypeOK'
  OBVIOUS
<1>0. TypeOK /\ Arguments /\ Uses /\ Deletes /\ Targets /\ WeakCounted /\ StrongCounted
  BY DEF IInv
<1> USE <1>0, PointersAssumption, NullAssumption DEF TypeOK, blockVars
<1>a. \A t \in Threads : call[t].b \in Blocks \cup {Null} /\ call[t].o \in Objects \cup {Null}
  OBVIOUS
<1>b. call' \in [Threads -> CallType] =>
        call' \in [Threads -> [at : Ats, p : Pointers \cup {Null}, b : Blocks \cup {Null},
                               strong : Nat, o : Objects \cup {Null}]]
  BY DEF CallType
<1>1. CASE UNCHANGED vars
  BY <1>1 DEF vars
<1>2. ASSUME NEW t \in Threads, NEW p \in Strong, NEW o \in Objects, Create(t, p, o)
      PROVE TypeOK'
  BY <1>2, FreshBlock, ObjectsAssumption DEF Create, KeptBySelf, Pointers
<1>3. ASSUME NEW t \in Threads, NEW p \in Pointers, NEW q \in Pointers,
             Copy(t, p, q) \/ Promote(t, p, q) \/ Weaken(t, p, q) \/ Clear(t, p)
      PROVE TypeOK'
  <2>1. call' \in [Threads -> CallType]
    BY <1>3, CallTypes, AtsAre DEF Copy, Promote, Weaken, Clear
  <2> QED BY <1>b, <1>3, <2>1 DEF Copy, Promote, Weaken, Clear
<1>4. ASSUME NEW t \in Threads, NEW p \in Strong, NEW q \in Strong, Swap(t, p, q) PROVE TypeOK'
  BY <1>4 DEF Swap, Pointers
<1>5. ASSUME NEW t \in Threads, NEW p \in Pointers, NEW u \in Threads, HandOver(t, p, u)
      PROVE TypeOK'
  BY <1>5 DEF HandOver
<1>6. ASSUME NEW t \in Threads, NEW w \in Weak, NEW o \in Objects, WeakOf(t, w, o) PROVE TypeOK'
  <2> DEFINE at == IF sharedRefcount[o] = Null THEN "allocate" ELSE "weakRef"
             c == [Idle EXCEPT !.p = w, !.o = o, !.b = sharedRefcount[o], !.at = at]
  <2>1. c \in CallType
    BY AtsAre DEF Idle, CallType, Pointers
  <2>2. call' = [call EXCEPT ![t] = c]
    BY <1>6 DEF WeakOf
  <2> HIDE DEF c
  <2>3. call' \in [Threads -> CallType]
    BY <2>1, <2>2 DEF CallType
  <2> QED BY <1>b, <1>6, <2>3 DEF WeakOf
<1>7. ASSUME NEW t \in Threads, NEW o \in Objects, DeleteObject(t, o) PROVE TypeOK'
  <2> DEFINE c == [Idle EXCEPT !.at = "destroy", !.o = o]
  <2>1. c \in CallType
    BY AtsAre DEF Idle, CallType
  <2>2. call' = [call EXCEPT ![t] = c]
    BY <1>7 DEF DeleteObject
  <2> HIDE DEF c
  <2>3. call' \in [Threads -> CallType]
    BY <2>1, <2>2 DEF CallType
  <2> QED BY <1>b, <1>7, <2>3 DEF DeleteObject
<1>8. ASSUME NEW t \in Threads, ReadStrong(t) PROVE TypeOK'
  <2>1. MayPromote(strongref[call[t].b]) => strongref[call[t].b] \in Nat
    BY <1>8 DEF MayPromote, ReadStrong, At, Arguments, ArgumentsOf
  <2>2. call' \in [Threads -> CallType]
    BY <1>8, <2>1, CallTypes, AtsAre DEF ReadStrong
  <2> QED BY <1>b, <1>8, <2>2 DEF ReadStrong
<1>9. ASSUME NEW t \in Threads, SwapIn(t) PROVE TypeOK'
  <2>1. call[t].p \in Pointers
    BY <1>9 DEF SwapIn, At, Arguments, ArgumentsOf, Pointers
  <2>2. call' \in [Threads -> CallType]
    BY <1>9, <2>1, CallTypes, AtsAre DEF SwapIn
  <2> QED BY <1>a, <1>b, <1>9, <2>1, <2>2 DEF SwapIn
<1>10. ASSUME NEW t \in Threads,
              RefWeak(t) \/ PromoteWeak(t) \/ WeakRef(t) \/ RefStrong(t) \/ TestAndSetStrong(t)
       PROVE TypeOK'
  <2>1. call[t].b \in Blocks
    BY <1>10 DEF RefWeak, PromoteWeak, WeakRef, RefStrong, TestAndSetStrong, Arguments, ArgumentsOf, At
  <2>2. call' \in [Threads -> CallType]
    BY <1>10, CallTypes, AtsAre
       DEF RefWeak, PromoteWeak, WeakRef, RefStrong, TestAndSetStrong
  <2>3. CASE RefWeak(t) \/ PromoteWeak(t) \/ WeakRef(t)
    BY <1>b, <2>1, <2>2, <2>3 DEF RefWeak, PromoteWeak, WeakRef
  <2>4. CASE RefStrong(t) \/ TestAndSetStrong(t)
    BY <1>b, <2>1, <2>2, <2>4 DEF RefStrong, TestAndSetStrong
  <2> QED BY <1>10, <2>3, <2>4
<1>11. ASSUME NEW t \in Threads, DerefStrong(t) PROVE TypeOK'
  <2>1. call[t].b \in Blocks /\ strongref[call[t].b] > 0 /\ target[call[t].b] \in Objects
    <3>1. StrongHeld(t) = call[t].b /\ call[t].b # Null
      BY <1>11 DEF DerefStrong, StrongHeld, Arguments, ArgumentsOf, At
    <3> QED BY <3>1, HoldersKeep, Owned DEF Tracked
  <2>2. call' \in [Threads -> CallType]
    BY <1>11, <2>1, CallTypes, AtsAre DEF DerefStrong
  <2> QED BY <1>b, <1>11, <2>1, <2>2 DEF DerefStrong
<1>12. ASSUME NEW t \in Threads, Destroy(t) PROVE TypeOK'
  <2>1. call' \in [Threads -> CallType]
    BY <1>12, CallTypes, AtsAre DEF Destroy
  <2>2. call[t].o \in Objects
    BY <1>12 DEF Destroy, At, Deletes, DeletesOf
  <2> DEFINE o == call[t].o
             known == o \in QObjects /\ sharedRefcount[o] # Null
  <2>3. CASE known
    <3>1. sharedRefcount[o] \in Blocks
      BY <2>2, <2>3
    <3> QED BY <1>b, <1>12, <2>1, <2>2, <2>3, <3>1 DEF Destroy
  <2>4. CASE ~known
    BY <1>b, <1>12, <2>1, <2>2, <2>4 DEF Destroy
  <2> QED BY <2>3, <2>4
<1>13. ASSUME NEW t \in Threads, LeaveObject(t) PROVE TypeOK'
  <2> DEFINE o == call[t].o
  <2>1. o \in Objects /\ sharedRefcount[o] \in Blocks /\ o \in Keepers(sharedRefcount[o])
    BY <1>13, HoldersKeep DEF LeaveObject, Deletes, DeletesOf, Leaving, At
  <2>2. call' \in [Threads -> CallType]
    BY <1>13, CallTypes, AtsAre DEF LeaveObject
  <2> QED BY <1>b, <1>13, <2>1, <2>2, DerefTypes DEF LeaveObject
<1>14. ASSUME NEW t \in Threads, DerefWeak(t) PROVE TypeOK'
  <2>1. call[t].b \in Blocks /\ t \in Keepers(call[t].b)
    BY <1>14, HoldersKeep DEF DerefWeak, Arguments, ArgumentsOf, At, WeakHeld
  <2>2. call' \in [Threads -> CallType]
    BY <1>14, CallTypes DEF DerefWeak
  <2> QED BY <1>b, <1>14, <2>1, <2>2, DerefTypes DEF DerefWeak
<1>15. ASSUME NEW t \in Threads, WeakSet(t) PROVE TypeOK'
  <2> DEFINE w == call[t].p
  <2>1. w \in Pointers
    BY <1>15 DEF WeakSet, Arguments, ArgumentsOf, At, Pointers
  <2>2. call' \in [Threads -> CallType]
    BY <1>15, CallTypes DEF WeakSet
  <2>3. CASE d[w] = Null
    BY <1>a, <1>b, <1>15, <2>1, <2>2, <2>3 DEF WeakSet
  <2>4. CASE d[w] # Null
    <3>1. Deref(d[w]) /\ d[w] \in Blocks /\ w \in Keepers(d[w])
      BY <1>15, <2>1, <2>4, HoldersKeep DEF WeakSet
    <3>2. d' \in [Pointers -> Blocks \cup {Null}] /\ user' = user
      BY <1>a, <1>15, <2>1 DEF WeakSet
    <3> QED BY <1>b, <2>2, <3>1, <3>2, DerefTypes
  <2> QED BY <2>3, <2>4
<1>16. ASSUME NEW t \in Threads, Allocate(t) PROVE TypeOK'
  <2>1. Fresh \in Blocks /\ call[t].o \in Untracked
    BY <1>16, FreshBlock DEF Allocate, At, Uses, UsesOf
  <2>2. call' \in [Threads -> CallType]
    BY <1>16, <2>1, CallTypes, AtsAre DEF Allocate
  <2> QED BY <1>a, <1>b, <1>16, <2>1, <2>2 DEF Allocate
<1>17. ASSUME NEW t \in Threads, Publish(t) PROVE TypeOK'
  <2>1. call[t].o \in Objects /\ sharedRefcount[call[t].o] \in Blocks \cup {Null}
    BY <1>17, ObjectsAssumption DEF Publish, At, Uses, UsesOf
  <2>2. call' \in [Threads -> CallType]
    BY <1>17, <2>1, CallTypes, AtsAre DEF Publish
  <2> QED BY <1>a, <1>b, <1>17, <2>1, <2>2 DEF Publish
<1> QED BY <1>1, <1>2, <1>3, <1>4, <1>5, <1>6, <1>7, <1>8, <1>9, <1>10, <1>11, <1>12, <1>13,
           <1>14, <1>15, <1>16, <1>17, NextCases DEF Pointers

-----------------------------------------------------------------------------
(* What a step of one thread changes.                                      *)

\* After a step of thread t.
After(t, at, p, b, n, o) ==
  /\ \A u \in Threads : u # t => call'[u] = call[u]
  /\ call'[t].at = at /\ call'[t].p = p /\ call'[t].b = b /\ call'[t].strong = n /\ call'[t].o = o

LEMMA CallAfter ==
  ASSUME TypeOK, NEW t \in Threads
  PROVE  LET c == call[t] IN
         /\ \A at : Go(t, at) => After(t, at, c.p, c.b, c.strong, c.o)
         /\ Return(t) => After(t, "idle", Null, Null, 0, Null)
         /\ \A at, p, b : Begin(t, at, p, b) => c.at = "idle" /\ After(t, at, p, b, 0, Null)
         /\ \A at, b : call' = [call EXCEPT ![t].at = at, ![t].b = b] =>
              After(t, at, c.p, b, c.strong, c.o)
         /\ \A at, n : call' = [call EXCEPT ![t].at = at, ![t].strong = n] =>
              After(t, at, c.p, c.b, n, c.o)
         /\ \A at, o : call' = [call EXCEPT ![t].at = at, ![t].o = o] =>
              After(t, at, c.p, c.b, c.strong, o)
<1>1. call \in [Threads -> CallType] /\ call[t] \in CallType
  BY DEF TypeOK, CallType
<1>2. ASSUME NEW at, Go(t, at)
      PROVE  After(t, at, call[t].p, call[t].b, call[t].strong, call[t].o)
  BY <1>1, <1>2 DEF Go, After, CallType
<1>3. Return(t) => After(t, "idle", Null, Null, 0, Null)
  BY <1>1 DEF Return, After, Idle
<1>4. ASSUME NEW at, NEW p, NEW b, Begin(t, at, p, b)
      PROVE  call[t].at = "idle" /\ After(t, at, p, b, 0, Null)
  BY <1>1, <1>4 DEF Begin, After, Idle, At
<1>5. ASSUME NEW at, NEW b, call' = [call EXCEPT ![t].at = at, ![t].b = b]
      PROVE  After(t, at, call[t].p, b, call[t].strong, call[t].o)
  BY <1>1, <1>5 DEF After, CallType
<1>6. ASSUME NEW at, NEW n, call' = [call EXCEPT ![t].at = at, ![t].strong = n]
      PROVE  After(t, at, call[t].p, call[t].b, n, call[t].o)
  BY <1>1, <1>6 DEF After, CallType
<1>7. ASSUME NEW at, NEW o, call' = [call EXCEPT ![t].at = at, ![t].o = o]
      PROVE  After(t, at, call[t].p, call[t].b, call[t].strong, o)
  BY <1>1, <1>7 DEF After, CallType
<1> QED BY <1>2, <1>3, <1>4, <1>5, <1>6, <1>7

\* What each action does to the call of its thread.
LEMMA CallsBegin ==
  ASSUME TypeOK, NEW t \in Threads
  PROVE  /\ \A p \in Strong, o \in Objects : Create(t, p, o) => call[t].at = "idle" /\ UNCHANGED call
         /\ \A p, q \in Strong : Swap(t, p, q) => call[t].at = "idle" /\ UNCHANGED call
         /\ \A p \in Pointers, u \in Threads : HandOver(t, p, u) =>
              call[t].at = "idle" /\ UNCHANGED call
         /\ \A p, q \in Strong : Copy(t, p, q) =>
              /\ call[t].at = "idle"
              /\ After(t, IF d[q] = Null THEN "swap" ELSE "refWeak", p, d[q], 0, Null)
         /\ \A p \in Strong, q \in Pointers : Promote(t, p, q) =>
              /\ call[t].at = "idle"
              /\ After(t, IF d[q] = Null THEN "swap" ELSE "read", p, d[q], 0, Null)
         /\ \A p \in Pointers : Clear(t, p) =>
              /\ call[t].at = "idle" /\ d[p] # Null
              /\ After(t, IF p \in Strong THEN "derefStrong" ELSE "derefWeak", p, d[p], 0, Null)
         /\ \A w \in Weak, q \in Pointers : Weaken(t, w, q) =>
              /\ call[t].at = "idle"
              /\ After(t, IF d[q] = Null THEN "weakSet" ELSE "weakRef", w, d[q], 0, Null)
         /\ \A w \in Weak, o \in Objects : WeakOf(t, w, o) =>
              /\ call[t].at = "idle"
              /\ After(t, IF sharedRefcount[o] = Null THEN "allocate" ELSE "weakRef", w,
                       sharedRefcount[o], 0, o)
         /\ \A o \in Objects : DeleteObject(t, o) =>
              call[t].at = "idle" /\ After(t, "destroy", Null, Null, 0, o)
<1>1. call \in [Threads -> CallType]
  BY DEF TypeOK, CallType
<1>2. ASSUME NEW w \in Weak, NEW o \in Objects, WeakOf(t, w, o)
      PROVE  /\ call[t].at = "idle"
             /\ After(t, IF sharedRefcount[o] = Null THEN "allocate" ELSE "weakRef", w,
                      sharedRefcount[o], 0, o)
  BY <1>1, <1>2 DEF WeakOf, After, Idle, At
<1>3. ASSUME NEW o \in Objects, DeleteObject(t, o)
      PROVE  call[t].at = "idle" /\ After(t, "destroy", Null, Null, 0, o)
  BY <1>1, <1>3 DEF DeleteObject, After, Idle, At
<1> QED BY <1>2, <1>3, CallAfter DEF Create, Swap, HandOver, Copy, Promote, Clear, Weaken, At

LEMMA CallsGoOn ==
  ASSUME TypeOK, NEW t \in Threads
  PROVE  LET c == call[t] IN
         /\ RefWeak(t) => c.at = "refWeak" /\ After(t, "refStrong", c.p, c.b, c.strong, c.o)
         /\ RefStrong(t) => c.at = "refStrong" /\ After(t, "swap", c.p, c.b, c.strong, c.o)
         /\ ReadStrong(t) =>
              /\ c.at = "read"
              /\ \/ strongref[c.b] > 0 /\ After(t, "cas", c.p, c.b, strongref[c.b], c.o)
                 \/ After(t, "swap", c.p, Null, c.strong, c.o)
         /\ TestAndSetStrong(t) =>
              /\ c.at = "cas"
              /\ \/ /\ strongref[c.b] = c.strong
                    /\ strongref' = [strongref EXCEPT ![c.b] = @ + 1]
                    /\ After(t, "promoteWeak", c.p, c.b, c.strong, c.o)
                 \/ UNCHANGED strongref /\ After(t, "read", c.p, c.b, c.strong, c.o)
         /\ PromoteWeak(t) => c.at = "promoteWeak" /\ After(t, "swap", c.p, c.b, c.strong, c.o)
         /\ SwapIn(t) =>
              /\ c.at = "swap"
              /\ \/ d[c.p] = Null /\ After(t, "idle", Null, Null, 0, Null)
                 \/ d[c.p] # Null /\ After(t, "derefStrong", c.p, d[c.p], c.strong, c.o)
         /\ DerefStrong(t) =>
              /\ c.at = "derefStrong"
              /\ \/ strongref[c.b] # 1 /\ After(t, "derefWeak", c.p, c.b, c.strong, c.o)
                 \/ strongref[c.b] = 1 /\ After(t, "destroy", c.p, c.b, c.strong, target[c.b])
         /\ Destroy(t) =>
              /\ c.at = "destroy"
              /\ \/ /\ c.o \in QObjects /\ sharedRefcount[c.o] # Null
                    /\ After(t, "leaveObject", c.p, c.b, c.strong, c.o)
                 \/ /\ ~(c.o \in QObjects /\ sharedRefcount[c.o] # Null)
                    /\ \/ c.b = Null /\ After(t, "idle", Null, Null, 0, Null)
                       \/ c.b # Null /\ After(t, "derefWeak", c.p, c.b, c.strong, c.o)
         /\ LeaveObject(t) =>
              /\ c.at = "leaveObject"
              /\ \/ c.b = Null /\ After(t, "idle", Null, Null, 0, Null)
                 \/ c.b # Null /\ After(t, "derefWeak", c.p, c.b, c.strong, c.o)
         /\ DerefWeak(t) => c.at = "derefWeak" /\ After(t, "idle", Null, Null, 0, Null)
         /\ WeakRef(t) => c.at = "weakRef" /\ After(t, "weakSet", c.p, c.b, c.strong, c.o)
         /\ WeakSet(t) => c.at = "weakSet" /\ After(t, "idle", Null, Null, 0, Null)
         /\ Allocate(t) => c.at = "allocate" /\ After(t, "publish", c.p, Fresh, c.strong, c.o)
         /\ Publish(t) =>
              /\ c.at = "publish"
              /\ \/ /\ sharedRefcount[c.o] = Null
                    /\ After(t, "weakSet", c.p, c.b, c.strong, c.o)
                 \/ /\ sharedRefcount[c.o] # Null
                    /\ After(t, "weakRef", c.p, sharedRefcount[c.o], c.strong, c.o)
<1> USE CallAfter DEF At
<1> QED BY DEF RefWeak, RefStrong, ReadStrong, MayPromote, TestAndSetStrong, PromoteWeak, SwapIn,
           DerefStrong, Destroy, LeaveObject, DerefWeak, WeakRef, WeakSet, Allocate, Publish

\* Calls and steps of a thread leave the calls and the pointers of others alone.
LEMMA OthersKept ==
  ASSUME TypeOK, Arguments, NEW t \in Threads, Call(t) \/ Step(t)
  PROVE  /\ \A u \in Threads : u # t => call'[u] = call[u]
         /\ \A q \in Pointers : user[q] # t => d'[q] = d[q] /\ user'[q] = user[q]
         /\ call[t].at # "idle" => user' = user
<1> USE DEF TypeOK, Pointers
<1>1. \A u \in Threads : u # t => call'[u] = call[u]
  <2>1. CASE Call(t)
    BY <2>1, CallsBegin DEF Call, After
  <2>2. CASE Step(t)
    BY <2>2, CallsGoOn DEF Step, After
  <2> QED BY <2>1, <2>2
<1>2. CASE Call(t)
  <2>1. call[t].at = "idle"
    BY <1>2, CallsBegin DEF Call
  <2>2. \A q \in Pointers : user[q] # t => d'[q] = d[q]
    BY <1>2 DEF Call, Create, Copy, Swap, Promote, Clear, HandOver, Weaken, WeakOf, DeleteObject
  <2>3. \A q \in Pointers : user[q] # t => user'[q] = user[q]
    BY <1>2 DEF Call, Create, Copy, Swap, Promote, Clear, HandOver, Weaken, WeakOf, DeleteObject
  <2> QED BY <1>1, <2>1, <2>2, <2>3
<1>3. CASE Step(t)
  <2>1. user' = user
    BY <1>3 DEF Step, RefWeak, RefStrong, ReadStrong, TestAndSetStrong, PromoteWeak, SwapIn,
       DerefStrong, Destroy, LeaveObject, DerefWeak, WeakRef, WeakSet, Allocate, Publish
  <2>2. CASE SwapIn(t) \/ WeakSet(t)
    <3>1. user[call[t].p] = t /\ d' = [d EXCEPT ![call[t].p] = call[t].b]
      BY <2>2 DEF SwapIn, WeakSet, Arguments, ArgumentsOf, At
    <3> QED BY <1>1, <2>1, <3>1
  <2>3. CASE ~(SwapIn(t) \/ WeakSet(t))
    <3>1. d' = d
      BY <1>3, <2>3 DEF Step, RefWeak, RefStrong, ReadStrong, TestAndSetStrong, PromoteWeak,
         DerefStrong, Destroy, LeaveObject, DerefWeak, WeakRef, Allocate, Publish
    <3> QED BY <1>1, <2>1, <3>1
  <2> QED BY <2>2, <2>3
<1> QED BY <1>2, <1>3

\* Blocks are not forgotten.
LEMMA TargetsKept ==
  ASSUME TypeOK, NEW t \in Threads, Call(t) \/ Step(t)
  PROVE  \A b \in Blocks : state[b] # "new" => target'[b] = target[b] /\ state'[b] # "new"
<1> USE DEF TypeOK, blockVars
<1>1. CASE \E p \in Strong, o \in Objects : Create(t, p, o)
  BY <1>1, FreshBlock DEF Create
<1>2. CASE Allocate(t)
  BY <1>2, FreshBlock DEF Allocate
<1>3. CASE \/ RefWeak(t) \/ RefStrong(t) \/ ReadStrong(t) \/ TestAndSetStrong(t)
           \/ PromoteWeak(t) \/ SwapIn(t) \/ DerefStrong(t) \/ Destroy(t) \/ WeakRef(t)
  BY <1>3 DEF RefWeak, RefStrong, ReadStrong, TestAndSetStrong, PromoteWeak, SwapIn,
     DerefStrong, Destroy, WeakRef
<1>4. CASE LeaveObject(t) \/ DerefWeak(t) \/ WeakSet(t)
  BY <1>4 DEF LeaveObject, DerefWeak, WeakSet, Deref
<1>5. CASE Publish(t)
  BY <1>5 DEF Publish
<1>6. CASE Call(t) /\ ~\E p \in Strong, o \in Objects : Create(t, p, o)
  BY <1>6 DEF Call, Copy, Swap, Promote, Clear, HandOver, Weaken, WeakOf, DeleteObject
<1> QED BY <1>1, <1>2, <1>3, <1>4, <1>5, <1>6 DEF Step

\* A step changes the counts of a block that is new, that somebody keeps, or that is its own.
LEMMA CountsKept ==
  ASSUME IInv, NEW t \in Threads, Call(t) \/ Step(t), NEW b \in Blocks,
         state[b] # "new", Keepers(b) = {}, call[t].at = "publish" => call[t].b # b
  PROVE  state'[b] = state[b] /\ strongref'[b] = strongref[b] /\ weakref'[b] = weakref[b]
<1>0. TypeOK /\ Arguments /\ Uses /\ Deletes /\ Targets /\ WeakCounted /\ StrongCounted
  BY DEF IInv
<1> USE <1>0 DEF TypeOK, blockVars
<1>1. CASE \E p \in Strong, o \in Objects : Create(t, p, o)
  BY <1>1, FreshBlock DEF Create
<1>2. CASE Allocate(t)
  BY <1>2, FreshBlock DEF Allocate
<1>3. CASE ReadStrong(t) \/ SwapIn(t)
  BY <1>3 DEF ReadStrong, SwapIn
<1>4. CASE RefWeak(t) \/ RefStrong(t) \/ TestAndSetStrong(t) \/ PromoteWeak(t)
  <2>1. call[t].b \in Blocks /\ \E q \in Pointers : q \in Keepers(call[t].b)
    BY <1>4, HoldersKeep
       DEF RefWeak, RefStrong, TestAndSetStrong, PromoteWeak, At, Arguments, ArgumentsOf, Pointers
  <2> QED BY <1>4, <2>1 DEF RefWeak, RefStrong, TestAndSetStrong, PromoteWeak
<1>5. CASE WeakRef(t)
  <2>1. call[t].b \in Blocks /\ Keepers(call[t].b) # {}
    <3>1. call[t].b # Null
      BY <1>5 DEF WeakRef, At, Arguments, ArgumentsOf
    <3>2. CASE call[t].o = Null
      BY <1>5, <3>1, <3>2, HoldersKeep DEF WeakRef, At, Arguments, ArgumentsOf
    <3>3. CASE call[t].o # Null
      BY <1>5, <3>1, <3>3, HoldersKeep DEF WeakRef, At, Uses, UsesOf
    <3> QED BY <3>2, <3>3
  <2> QED BY <1>5, <2>1 DEF WeakRef
<1>6. CASE DerefStrong(t) \/ DerefWeak(t)
  <2>1. call[t].b \in Blocks /\ t \in Keepers(call[t].b)
    BY <1>6, HoldersKeep DEF DerefStrong, DerefWeak, At, Arguments, ArgumentsOf, WeakHeld
  <2> QED BY <1>6, <2>1 DEF DerefStrong, DerefWeak, Deref
<1>7. CASE Destroy(t)
  <2>1. call[t].o \in Objects /\ Alive(call[t].o)
    BY <1>7 DEF Destroy, At, Deletes, DeletesOf
  <2>2. sharedRefcount[call[t].o] # Null => sharedRefcount[call[t].o] # b
    BY <2>1, HoldersKeep
  <2> QED BY <1>7, <2>2 DEF Destroy
<1>8. CASE LeaveObject(t)
  <2>1. call[t].o \in Objects /\ sharedRefcount[call[t].o] # Null /\ Leaving(call[t].o)
    BY <1>8 DEF LeaveObject, At, Deletes, DeletesOf, Leaving
  <2>2. sharedRefcount[call[t].o] # b
    BY <2>1, HoldersKeep
  <2> QED BY <1>8, <2>2 DEF LeaveObject, Deref
<1>9. CASE WeakSet(t)
  <2>1. call[t].p \in Pointers
    BY <1>9 DEF WeakSet, At, Arguments, ArgumentsOf, Pointers
  <2>2. d[call[t].p] # Null => d[call[t].p] # b
    BY <2>1, HoldersKeep
  <2> QED BY <1>9, <2>2 DEF WeakSet, Deref
<1>10. CASE Publish(t)
  BY <1>10 DEF Publish, At
<1>11. CASE Call(t) /\ ~\E p \in Strong, o \in Objects : Create(t, p, o)
  BY <1>11 DEF Call, Copy, Swap, Promote, Clear, HandOver, Weaken, WeakOf, DeleteObject
<1> QED BY <1>1, <1>2, <1>3, <1>4, <1>5, <1>6, <1>7, <1>8, <1>9, <1>10, <1>11 DEF Step

\* The block of a thread that is about to publish it is touched by nobody else.
LEMMA PrivateKept ==
  ASSUME IInv, NEW t \in Threads, Call(t) \/ Step(t), NEW u \in Threads, u # t,
         call[u].at = "publish"
  PROVE  LET b == call[u].b IN
         /\ b \in Blocks /\ state[b] = "used"
         /\ state'[b] = "used" /\ strongref'[b] = strongref[b] /\ weakref'[b] = weakref[b]
         /\ target'[b] = target[b]
<1> DEFINE b == call[u].b
<1>1. b \in Blocks
  BY DEF IInv, Arguments, ArgumentsOf, TypeOK
<1>2. Private(b)
  BY DEF Private, At
<1>3. state[b] = "used" /\ Keepers(b) = {}
  BY <1>1, <1>2 DEF IInv, WeakCounted, WeakAgrees
<1>4. call[t].at = "publish" => call[t].b # b
  BY DEF IInv, Targets, At
<1> QED BY <1>1, <1>3, <1>4, CountsKept, TargetsKept DEF IInv

-----------------------------------------------------------------------------
(* What the threads in the middle of a call know.                          *)

LEMMA ArgumentsStep ==
  ASSUME IInv, NEW t \in Threads, Call(t) \/ Step(t)
  PROVE  Arguments'
<1>0. TypeOK /\ Arguments /\ Uses
  BY DEF IInv
<1>1. ASSUME NEW u \in Threads, u # t PROVE ArgumentsOf(u)'
  <2>1. call'[u] = call[u] /\ ArgumentsOf(u)
    BY <1>0, <1>1, OthersKept DEF Arguments
  <2>2. \A q \in Pointers : user[q] = u => d'[q] = d[q] /\ user'[q] = user[q]
    BY <1>0, <1>1, OthersKept
  <2> QED BY <2>1, <2>2 DEF ArgumentsOf, Pointers
<1>2. ArgumentsOf(t)'
  <2> USE <1>0 DEF ArgumentsOf, After, Pointers
  <2>1. CASE call'[t].at = "idle"
    BY <2>1
  <2>2. CASE Call(t)
    <3>1. CASE call' = call
      BY <2>1, <2>2, <3>1, CallsBegin DEF Call
    <3>2. ASSUME NEW p \in Strong, NEW q \in Strong, user[p] = t, user[q] = t, Copy(t, p, q)
          PROVE  ArgumentsOf(t)'
      <4>1. d' = d /\ user' = user
        BY <3>2 DEF Copy
      <4> QED BY <3>2, <4>1, CallsBegin
    <3>3. ASSUME NEW p \in Strong, NEW q \in Pointers, user[p] = t, user[q] = t, Promote(t, p, q)
          PROVE  ArgumentsOf(t)'
      <4>1. d' = d /\ user' = user
        BY <3>3 DEF Promote
      <4> QED BY <3>3, <4>1, CallsBegin
    <3>4. ASSUME NEW p \in Pointers, Clear(t, p) PROVE ArgumentsOf(t)'
      BY <3>4, CallsBegin
    <3>5. ASSUME NEW w \in Weak, NEW q \in Pointers, user[w] = t, user[q] = t, Weaken(t, w, q)
          PROVE  ArgumentsOf(t)'
      <4>1. d' = d /\ user' = user
        BY <3>5 DEF Weaken
      <4> QED BY <3>5, <4>1, CallsBegin
    <3>6. ASSUME NEW w \in Weak, NEW o \in Objects, user[w] = t, WeakOf(t, w, o)
          PROVE  ArgumentsOf(t)'
      <4>1. d' = d /\ user' = user
        BY <3>6 DEF WeakOf
      <4> QED BY <3>6, <4>1, NullAssumption, CallsBegin
    <3>7. ASSUME NEW o \in Objects, DeleteObject(t, o) PROVE ArgumentsOf(t)'
      BY <3>7, CallsBegin
    <3> QED BY <2>2, <3>1, <3>2, <3>3, <3>4, <3>5, <3>6, <3>7, CallsBegin DEF Call
  <2>3. CASE Step(t)
    <3>1. call[t].at # "idle" /\ user' = user
      BY <2>3, CallsGoOn, OthersKept DEF Step
    <3>2. ArgumentsOf(t)
      BY DEF Arguments
    <3>3. CASE RefWeak(t)
      <4>1. d' = d
        BY <3>3 DEF RefWeak
      <4> QED BY <3>1, <3>2, <3>3, <4>1, CallsGoOn
    <3>4. CASE ReadStrong(t)
      <4>1. d' = d
        BY <3>4 DEF ReadStrong
      <4> QED BY <3>1, <3>2, <3>4, <4>1, CallsGoOn
    <3>5. CASE TestAndSetStrong(t)
      <4>1. d' = d
        BY <3>5 DEF TestAndSetStrong
      <4> QED BY <3>1, <3>2, <3>5, <4>1, CallsGoOn
    <3>6. CASE RefStrong(t) \/ PromoteWeak(t)
      BY <3>1, <3>2, <3>6, CallsGoOn
    <3>7. CASE SwapIn(t) \/ DerefStrong(t) \/ Destroy(t) \/ LeaveObject(t) \/ DerefWeak(t)
      BY <3>1, <3>2, <3>7, CallsGoOn
    <3>8. CASE WeakRef(t) \/ WeakSet(t)
      BY <3>1, <3>2, <3>8, CallsGoOn
    <3>9. CASE Allocate(t)
      <4>1. Fresh # Null
        BY <3>9, FreshBlock, NullAssumption DEF Allocate
      <4> QED BY <3>1, <3>2, <3>9, <4>1, CallsGoOn
    <3>10. CASE Publish(t)
      <4>1. call[t].o # Null
        BY <3>10, ObjectsAssumption, NullAssumption DEF Publish, At, Uses, UsesOf
      <4> QED BY <3>1, <3>2, <3>10, <4>1, CallsGoOn
    <3> QED BY <2>3, <3>3, <3>4, <3>5, <3>6, <3>7, <3>8, <3>9, <3>10 DEF Step
  <2> QED BY <2>2, <2>3
<1> QED BY <1>1, <1>2 DEF Arguments

\* An object that a QSharedPointer owns is not about to be deleted.
LEMMA NotDoomed ==
  ASSUME IInv, NEW b \in Blocks, NEW x \in Owners(b), NEW t \in Threads,
         call[t].at \in {"destroy", "leaveObject"}
  PROVE  call[t].o # target[b]
<1>1. target[b] \in Tracked /\ strongref[b] > 0
  BY Owned DEF IInv
<1>2. SUFFICES ASSUME call[t].o = target[b] PROVE FALSE
  OBVIOUS
<1>3. call[t].b \in Blocks /\ target[call[t].b] = target[b] /\ strongref[call[t].b] = 0
  BY <1>1, <1>2 DEF IInv, Deletes, DeletesOf, TypeOK
<1>4. call[t].b = b
  BY <1>1, <1>3 DEF IInv, Targets
<1> QED BY <1>1, <1>3, <1>4

\* How objects live and die, and get to know their block.
LEMMA LivesChange ==
  ASSUME TypeOK, NEW t \in Threads, Call(t) \/ Step(t), NEW o \in Objects
  PROVE  /\ \/ life'[o] = life[o]
            \/ \E p \in Strong : Create(t, p, o) /\ life[o] = "unborn" /\ life'[o] = "alive"
            \/ Destroy(t) /\ call[t].at = "destroy" /\ call[t].o = o /\ life'[o] = "deleted"
         /\ \/ sharedRefcount'[o] = sharedRefcount[o]
            \/ \E p \in Strong :
                 Create(t, p, o) /\ life[o] = "unborn" /\ o \in QObjects /\ sharedRefcount'[o] = Fresh
            \/ /\ Publish(t) /\ sharedRefcount[o] = Null
               /\ call[t].at = "publish" /\ call[t].o = o /\ sharedRefcount'[o] = call[t].b
<1> USE DEF TypeOK, blockVars
<1>1. CASE \E p \in Strong, v \in Objects : Create(t, p, v)
  <2>1. PICK p \in Strong, v \in Objects : Create(t, p, v)
    BY <1>1
  <2>2. /\ life[v] = "unborn" /\ life' = [life EXCEPT ![v] = "alive"]
        /\ sharedRefcount' = [sharedRefcount EXCEPT ![v] = IF v \in QObjects THEN Fresh ELSE @]
    BY <2>1 DEF Create
  <2>3. CASE v = o
    BY <2>1, <2>2, <2>3
  <2>4. CASE v # o
    BY <2>2, <2>4
  <2> QED BY <2>3, <2>4
<1>2. CASE Destroy(t)
  BY <1>2 DEF Destroy, At
<1>3. CASE Publish(t)
  BY <1>3 DEF Publish, At
<1>4. CASE \/ RefWeak(t) \/ RefStrong(t) \/ ReadStrong(t) \/ TestAndSetStrong(t)
           \/ PromoteWeak(t) \/ SwapIn(t) \/ DerefStrong(t) \/ WeakRef(t) \/ Allocate(t)
  BY <1>4 DEF RefWeak, RefStrong, ReadStrong, TestAndSetStrong, PromoteWeak, SwapIn,
     DerefStrong, WeakRef, Allocate
<1>5. CASE LeaveObject(t) \/ DerefWeak(t) \/ WeakSet(t)
  BY <1>5 DEF LeaveObject, DerefWeak, WeakSet, Deref
<1>6. CASE Call(t) /\ ~\E p \in Strong, v \in Objects : Create(t, p, v)
  BY <1>6 DEF Call, Copy, Swap, Promote, Clear, HandOver, Weaken, WeakOf, DeleteObject
<1> QED BY <1>1, <1>2, <1>3, <1>4, <1>5, <1>6 DEF Step

LEMMA UsesStep ==
  ASSUME IInv, NEW t \in Threads, Call(t) \/ Step(t)
  PROVE  Uses'
<1>0. TypeOK /\ Arguments /\ Uses /\ Deletes /\ Targets /\ WeakCounted /\ StrongCounted
  BY DEF IInv
\* An object in use stays alive, and so do the pointers to it.
<1>1. ASSUME NEW u \in Threads, u # t, UsesOf(u),
             call[u].at \in {"weakRef", "weakSet", "allocate", "publish"}, call[u].o # Null
      PROVE  LET o == call[u].o IN
             /\ life'[o] = "alive"
             /\ o \in Tracked => \E p \in Strong : user'[p] = u /\ d'[p] # Null /\ target'[d'[p]] = o
             /\ sharedRefcount[o] # Null => sharedRefcount'[o] = sharedRefcount[o]
  <2> DEFINE o == call[u].o
  <2>1. o \in Objects /\ Alive(o)
    BY <1>0, <1>1 DEF UsesOf, TypeOK
  <2>2. ASSUME NEW p \in Strong, user[p] = u, d[p] # Null, target[d[p]] = o
        PROVE  user'[p] = u /\ d'[p] # Null /\ target'[d'[p]] = o
    <3>1. d[p] \in Blocks /\ state[d[p]] = "used"
      BY <1>0, <2>2, HoldersKeep, Kept DEF Pointers
    <3>2. d'[p] = d[p] /\ user'[p] = user[p]
      BY <1>0, <1>1, <2>2, OthersKept DEF Pointers
    <3> QED BY <1>0, <2>2, <3>1, <3>2, TargetsKept
  <2>3. o \in Tracked => \E p \in Strong : user[p] = u /\ d[p] # Null /\ target[d[p]] = o
    BY <1>1 DEF UsesOf
  <2>4. ~(Destroy(t) /\ call[t].at = "destroy" /\ call[t].o = o)
    <3>1. CASE o \in Untracked
      BY <1>0, <1>1, <3>1 DEF Deletes, DeletesOf
    <3>2. CASE o \in Tracked
      <4>1. PICK p \in Strong : d[p] # Null /\ target[d[p]] = o
        BY <2>3, <3>2
      <4>2. d[p] \in Blocks /\ p \in Owners(d[p])
        BY <1>0, <4>1, HoldersKeep
      <4> QED BY <4>1, <4>2, NotDoomed
    <3> QED BY <2>1, <3>1, <3>2 DEF Tracked
  <2>5. life'[o] = "alive"
    BY <1>0, <2>1, <2>4, LivesChange DEF Alive
  <2>6. sharedRefcount[o] # Null => sharedRefcount'[o] = sharedRefcount[o]
    BY <1>0, <2>1, LivesChange DEF Alive
  <2> QED BY <2>2, <2>3, <2>5, <2>6
<1>2. ASSUME NEW u \in Threads, u # t PROVE UsesOf(u)'
  <2>1. call'[u] = call[u] /\ UsesOf(u)
    BY <1>0, <1>2, OthersKept DEF Uses
  <2>2. call[u].at = "publish" =>
          LET b == call[u].b IN
          target'[b] = target[b] /\ strongref'[b] = strongref[b] /\ weakref'[b] = weakref[b]
    BY <1>2, PrivateKept
  <2>3. call[u].at = "weakRef" /\ call[u].o # Null => sharedRefcount[call[u].o] # Null
    BY <1>0, <2>1 DEF UsesOf, Arguments, ArgumentsOf
  <2> QED BY <1>1, <1>2, <2>1, <2>2, <2>3 DEF UsesOf, Alive
<1>3. UsesOf(t)'
  <2> USE <1>0, NullAssumption DEF UsesOf, After
  <2>1. CASE call'[t].at \notin {"weakRef", "weakSet", "allocate", "publish"}
    BY <2>1
  <2>2. ASSUME NEW w \in Weak, NEW q \in Pointers, Weaken(t, w, q) PROVE UsesOf(t)'
    BY <2>2, CallsBegin
  <2>3. ASSUME NEW w \in Weak, NEW o \in Objects, WeakOf(t, w, o) PROVE UsesOf(t)'
    <3>1. UNCHANGED <<life, sharedRefcount, d, user, target>> /\ o \in QObjects /\ Alive(o)
      BY <2>3 DEF WeakOf, MayUse, blockVars
    <3>2. o \in Tracked =>
            /\ sharedRefcount[o] # Null
            /\ \E p \in Strong : user[p] = t /\ d[p] # Null /\ target[d[p]] = o
      BY <2>3, <3>1 DEF WeakOf, MayUse, Tracked, Targets
    <3> QED BY <2>3, <3>1, <3>2, CallsBegin DEF Alive, Tracked
  <2>4. CASE WeakRef(t)
    <3>1. UNCHANGED <<life, sharedRefcount, d, user, target>>
      BY <2>4 DEF WeakRef
    <3> QED BY <2>4, <3>1, CallsGoOn DEF Uses, Alive
  <2>5. CASE Allocate(t)
    <3>1. Fresh \in Blocks /\ call[t].o \in Untracked
      BY <2>5, FreshBlock DEF Allocate, At, Uses
    <3>2. /\ target'[Fresh] = call[t].o /\ strongref'[Fresh] = -1 /\ weakref'[Fresh] = 2
          /\ UNCHANGED <<life, d, user>>
      BY <2>5, <3>1 DEF Allocate, TypeOK
    <3> QED BY <2>5, <3>1, <3>2, CallsGoOn DEF Uses, Alive, Tracked
  <2>6. CASE Publish(t)
    <3>1. UNCHANGED <<life, d, user, target>>
      BY <2>6 DEF Publish
    <3>2. call[t].o \in Untracked /\ UsesOf(t)
      BY <2>6 DEF Publish, At, Uses
    <3>3. sharedRefcount[call[t].o] # Null => UNCHANGED sharedRefcount
      BY <2>6 DEF Publish
    <3> QED BY <2>6, <3>1, <3>2, <3>3, CallsGoOn DEF Alive, Tracked
  <2>7. CASE Call(t)
    <3>1. ASSUME call' = call, call[t].at = "idle" PROVE UsesOf(t)'
      BY <3>1
    <3> QED BY <2>1, <2>2, <2>3, <2>7, <3>1, CallsBegin DEF Call
  <2>8. CASE Step(t)
    BY <2>1, <2>4, <2>5, <2>6, <2>8, CallsGoOn DEF Step
  <2> QED BY <2>7, <2>8
<1> QED BY <1>2, <1>3 DEF Uses

\* A strong count of zero stays zero.
LEMMA ZeroKept ==
  ASSUME IInv, NEW t \in Threads, Call(t) \/ Step(t), NEW b \in Blocks,
         target[b] \in Tracked, strongref[b] = 0
  PROVE  strongref'[b] = 0
<1>0. TypeOK /\ Arguments /\ Targets /\ WeakCounted /\ StrongCounted
  BY DEF IInv
<1> USE <1>0 DEF TypeOK, blockVars
<1>1. \A x : x \notin Owners(b)
  BY Owned
<1>2. state[b] # "new"
  BY NullAssumption DEF Targets, Tracked
<1>3. CASE \E p \in Strong, o \in Objects : Create(t, p, o)
  BY <1>2, <1>3, FreshBlock DEF Create
<1>4. CASE Allocate(t)
  BY <1>2, <1>4, FreshBlock DEF Allocate
<1>5. CASE RefStrong(t)
  <2>1. \E q \in Strong : d[q] = call[t].b /\ d[q] # Null
    BY <1>5 DEF RefStrong, At, Arguments, ArgumentsOf
  <2>2. call[t].b # b
    BY <1>1, <2>1, HoldersKeep
  <2> QED BY <1>5, <2>2 DEF RefStrong
<1>6. CASE TestAndSetStrong(t)
  <2>1. call[t].strong > 0
    BY <1>6 DEF TestAndSetStrong, At, Arguments, ArgumentsOf
  <2> QED BY <1>6, <2>1 DEF TestAndSetStrong
<1>7. CASE DerefStrong(t)
  <2>1. StrongHeld(t) = call[t].b /\ call[t].b # Null
    BY <1>7 DEF DerefStrong, At, StrongHeld, Arguments, ArgumentsOf
  <2>2. call[t].b # b
    BY <1>1, <2>1, HoldersKeep
  <2> QED BY <1>7, <2>2 DEF DerefStrong
<1>8. CASE Destroy(t)
  BY <1>8 DEF Destroy
<1>9. CASE \/ RefWeak(t) \/ ReadStrong(t) \/ PromoteWeak(t) \/ SwapIn(t) \/ WeakRef(t)
           \/ Publish(t)
  BY <1>9 DEF RefWeak, ReadStrong, PromoteWeak, SwapIn, WeakRef, Publish
<1>10. CASE LeaveObject(t) \/ DerefWeak(t) \/ WeakSet(t)
  BY <1>10 DEF LeaveObject, DerefWeak, WeakSet, Deref
<1>11. CASE Call(t) /\ ~\E p \in Strong, o \in Objects : Create(t, p, o)
  BY <1>11 DEF Call, Copy, Swap, Promote, Clear, HandOver, Weaken, WeakOf, DeleteObject
<1> QED BY <1>3, <1>4, <1>5, <1>6, <1>7, <1>8, <1>9, <1>10, <1>11 DEF Step

\* The object that a thread begins to delete, or to use, is not deleted by another one.
LEMMA DeletesAlone ==
  ASSUME IInv, NEW t \in Threads, Call(t) \/ Step(t), NEW u \in Threads, u # t,
         call[u].at \in {"destroy", "leaveObject"},
         call[u].o \in Untracked \/ call'[t].at \in {"destroy", "leaveObject"}
  PROVE  call'[t].o # call[u].o
<1>0. TypeOK /\ DeletesOf(u)
  BY DEF IInv, Deletes
<1>1. call[u].o \in Objects /\ call[u].o # Null
  BY <1>0, NullAssumption DEF DeletesOf
<1>2. call[t].o # call[u].o \/ ~(call[u].o \in Untracked \/ call[t].at \in {"destroy", "leaveObject"})
  BY <1>0 DEF DeletesOf
<1>3. CASE Call(t)
  <2>1. CASE call' = call
    BY <1>2, <2>1
  <2>2. CASE call'[t].o = Null
    BY <1>1, <2>2
  <2>3. ASSUME NEW w \in Weak, NEW o \in Objects, WeakOf(t, w, o) PROVE call'[t].o # call[u].o
    <3>1. call'[t].o = o /\ call'[t].at \in {"allocate", "weakRef"}
      BY <1>0, <2>3, CallsBegin DEF After
    <3>2. o \in Untracked => call[u].o # o
      BY <2>3 DEF WeakOf, MayUse
    <3> QED BY <3>1, <3>2
  <2>4. ASSUME NEW o \in Objects, DeleteObject(t, o) PROVE call'[t].o # call[u].o
    <3>1. call'[t].o = o
      BY <1>0, <2>4, CallsBegin DEF After
    <3> QED BY <2>4, <3>1 DEF DeleteObject, InUse
  <2> QED BY <1>0, <1>3, <2>1, <2>2, <2>3, <2>4, CallsBegin DEF Call, After
<1>4. CASE DerefStrong(t)
  <2>1. StrongHeld(t) = call[t].b /\ call[t].b # Null
    BY <1>4 DEF DerefStrong, At, StrongHeld, IInv, Arguments, ArgumentsOf
  <2>2. target[call[t].b] # call[u].o
    BY <1>0, <2>1, HoldersKeep, NotDoomed
  <2> QED BY <1>0, <1>2, <1>4, <2>2, CallsGoOn DEF After
<1>5. CASE Step(t) /\ ~DerefStrong(t)
  BY <1>0, <1>1, <1>2, <1>5, CallsGoOn DEF Step, After
<1> QED BY <1>3, <1>4, <1>5

LEMMA DeletesStep ==
  ASSUME IInv, NEW t \in Threads, Call(t) \/ Step(t)
  PROVE  Deletes'
<1>0. TypeOK /\ Arguments /\ Deletes /\ Targets /\ WeakCounted /\ StrongCounted
  BY DEF IInv
<1> USE <1>0
<1>a. ASSUME NEW b \in Blocks, target[b] \in Tracked PROVE target'[b] = target[b]
  BY <1>a, TargetsKept, NullAssumption DEF Targets, Tracked
<1>1. ASSUME NEW u \in Threads, u # t PROVE DeletesOf(u)'
  <2>1. call'[u] = call[u] /\ DeletesOf(u)
    BY <1>1, OthersKept DEF Deletes
  <2> DEFINE c == call[u]
  <2>2. SUFFICES ASSUME c.at \in {"destroy", "leaveObject"} PROVE DeletesOf(u)'
    BY <2>1 DEF DeletesOf
  <2>3. c.o \in Objects /\ c.b \in Blocks \cup {Null}
    BY <2>1, <2>2 DEF DeletesOf, TypeOK
  <2>4. c.o \in Tracked => c.b # Null /\ target'[c.b] = c.o /\ strongref'[c.b] = 0
    BY <1>a, <2>1, <2>2, <2>3, ZeroKept DEF DeletesOf
  <2>5. c.o \in Untracked => c.b = Null
    BY <2>1, <2>2 DEF DeletesOf
  <2>6. ASSUME NEW v \in Threads \ {u},
               c.o \in Untracked \/ call'[v].at \in {"destroy", "leaveObject"}
        PROVE  call'[v].o # c.o
    <3>1. CASE v = t
      BY <1>1, <2>2, <2>6, <3>1, DeletesAlone
    <3>2. CASE v # t
      BY <2>1, <2>2, <2>6, <3>2, OthersKept DEF DeletesOf
    <3> QED BY <3>1, <3>2
  <2>7. ~(Destroy(t) /\ call[t].at = "destroy" /\ call[t].o = c.o)
    BY <1>1, <2>1, <2>2 DEF DeletesOf
  <2>8. c.at = "destroy" => life'[c.o] = "alive"
    BY <2>1, <2>3, <2>7, LivesChange DEF DeletesOf, Alive
  <2>9. c.at = "leaveObject" =>
          life'[c.o] = "deleted" /\ c.o \in QObjects /\ sharedRefcount'[c.o] # Null
    BY <2>1, <2>3, <2>7, LivesChange DEF DeletesOf
  <2> QED BY <2>1, <2>3, <2>4, <2>5, <2>6, <2>8, <2>9 DEF DeletesOf, Alive
<1>2. DeletesOf(t)'
  <2> DEFINE c == call'[t]
  <2>1. SUFFICES ASSUME c.at \in {"destroy", "leaveObject"} PROVE DeletesOf(t)'
    BY DEF DeletesOf
  \* What the others are doing does not touch its object.
  <2>2. ASSUME \A u \in Threads \ {t} :
                 c.o \in Untracked \/ call[u].at \in {"destroy", "leaveObject"} => call[u].o # c.o
        PROVE  \A u \in Threads \ {t} :
                 c.o \in Untracked \/ call'[u].at \in {"destroy", "leaveObject"} => call'[u].o # c.o
    BY <2>2, OthersKept
  <2>3. ASSUME NEW o \in Objects, DeleteObject(t, o) PROVE DeletesOf(t)'
    <3>1. c.at = "destroy" /\ c.o = o /\ c.b = Null
      BY <2>3, CallsBegin DEF After
    <3>2. o \in Untracked /\ life'[o] = "alive" /\ \A u \in Threads : call[u].o # o
      BY <2>3 DEF DeleteObject, InUse, Alive
    <3> QED BY <2>2, <3>1, <3>2 DEF DeletesOf, Alive, Tracked
  <2>4. CASE DerefStrong(t)
    <3> DEFINE b == call[t].b
    <3>1. b \in Blocks /\ t \in Owners(b)
      BY <2>4, HoldersKeep DEF DerefStrong, At, StrongHeld, Arguments, ArgumentsOf
    <3>2. target[b] \in Tracked /\ Alive(target[b])
      BY <3>1, Owned
    <3>3. strongref[b] = 1 /\ c.at = "destroy" /\ c.o = target[b] /\ c.b = b
      BY <2>1, <2>4, CallsGoOn DEF After
    <3>4. strongref'[b] = 0 /\ UNCHANGED <<life, target>>
      BY <2>4, <3>1, <3>3 DEF DerefStrong, TypeOK
    <3>5. \A u \in Threads \ {t} : call[u].at \in {"destroy", "leaveObject"} => call[u].o # target[b]
      BY <3>1, NotDoomed
    <3> QED BY <2>2, <3>1, <3>2, <3>3, <3>4, <3>5, NullAssumption DEF DeletesOf, Alive, Tracked
  <2>5. CASE Destroy(t)
    <3> DEFINE o == call[t].o
    <3>1. /\ c.at = "leaveObject" /\ c.o = o /\ c.b = call[t].b
          /\ o \in QObjects /\ sharedRefcount[o] # Null
      BY <2>1, <2>5, CallsGoOn DEF After
    <3>2. DeletesOf(t) /\ call[t].at = "destroy"
      BY <2>5 DEF Deletes, Destroy, At
    <3>3. o \in Objects /\ life'[o] = "deleted" /\ UNCHANGED <<sharedRefcount, target>>
      BY <2>5, <3>2 DEF Destroy, DeletesOf, TypeOK
    <3>4. o \in Tracked => strongref'[call[t].b] = 0
      BY <1>0, <3>2, <3>3, ZeroKept DEF DeletesOf, TypeOK
    <3> QED BY <2>2, <3>1, <3>2, <3>3, <3>4 DEF DeletesOf
  <2>6. CASE Call(t)
    <3>1. call[t].at = "idle"
      BY <2>6, CallsBegin DEF Call
    <3> QED BY <2>1, <2>3, <2>6, <3>1, CallsBegin DEF Call, After
  <2>7. CASE Step(t)
    BY <2>1, <2>4, <2>5, <2>7, CallsGoOn DEF Step, After
  <2> QED BY <2>6, <2>7
<1> QED BY <1>1, <1>2 DEF Deletes

LEMMA TargetsStep ==
  ASSUME IInv, NEW t \in Threads, Call(t) \/ Step(t)
  PROVE  Targets'
<1>0. TypeOK /\ Arguments /\ Uses /\ Deletes /\ Targets /\ WeakCounted
  BY DEF IInv
<1> USE <1>0, NullAssumption
\* Only Create and Allocate give a block a target.
<1>1. ASSUME NEW b \in Blocks, state[b] = "new"
      PROVE  \/ state'[b] = "new" /\ target'[b] = Null
             \/ \E p \in Strong, o \in Objects :
                  /\ Create(t, p, o) /\ b = Fresh /\ state'[b] = "used" /\ target'[b] = o
                  /\ life[o] = "unborn" /\ life'[o] = "alive"
             \/ Allocate(t) /\ b = Fresh /\ state'[b] = "used" /\ target'[b] = call[t].o
  <2> USE DEF TypeOK, blockVars
  <2>1. target[b] = Null
    BY <1>1 DEF Targets
  <2>2. ASSUME NEW p \in Strong, NEW o \in Objects, Create(t, p, o)
        PROVE  /\ life[o] = "unborn" /\ life'[o] = "alive"
               /\ \/ b = Fresh /\ state'[b] = "used" /\ target'[b] = o
                  \/ state'[b] = state[b] /\ target'[b] = target[b]
    BY <2>2 DEF Create
  <2>3. CASE Allocate(t)
    BY <1>1, <2>1, <2>3 DEF Allocate
  <2>4. CASE LeaveObject(t)
    <3>1. sharedRefcount[call[t].o] # b
      <4>1. call[t].o \in Objects /\ Leaving(call[t].o) /\ sharedRefcount[call[t].o] # Null
        BY <2>4 DEF LeaveObject, At, Leaving, Deletes, DeletesOf
      <4> QED BY <1>1, <4>1, HoldersKeep, Kept
    <3> QED BY <1>1, <2>1, <2>4, <3>1 DEF LeaveObject, Deref
  <2>5. CASE DerefWeak(t)
    <3>1. call[t].b # b
      <4>1. WeakHeld(t) = call[t].b /\ call[t].b # Null
        BY <2>5 DEF DerefWeak, At, WeakHeld, Arguments, ArgumentsOf
      <4> QED BY <1>1, <4>1, HoldersKeep, Kept
    <3> QED BY <1>1, <2>1, <2>5, <3>1 DEF DerefWeak, Deref
  <2>6. CASE WeakSet(t)
    <3>1. d[call[t].p] # b
      <4>1. call[t].p \in Pointers
        BY <2>6 DEF WeakSet, At, Arguments, ArgumentsOf, Pointers
      <4> QED BY <1>1, <4>1, HoldersKeep, Kept
    <3> QED BY <1>1, <2>1, <2>6, <3>1 DEF WeakSet, Deref
  <2>7. CASE Publish(t)
    <3>1. call[t].b # b
      <4>1. call[t].b \in Blocks /\ Private(call[t].b)
        BY <2>7 DEF Publish, At, Private, Arguments, ArgumentsOf
      <4> QED BY <1>1, <4>1 DEF WeakCounted, WeakAgrees
    <3> QED BY <1>1, <2>1, <2>7, <3>1 DEF Publish
  <2>8. CASE \/ RefWeak(t) \/ RefStrong(t) \/ ReadStrong(t) \/ TestAndSetStrong(t)
             \/ PromoteWeak(t) \/ SwapIn(t) \/ DerefStrong(t) \/ Destroy(t) \/ WeakRef(t)
    BY <1>1, <2>1, <2>8 DEF RefWeak, RefStrong, ReadStrong, TestAndSetStrong, PromoteWeak, SwapIn,
       DerefStrong, Destroy, WeakRef
  <2>9. CASE Call(t) /\ ~\E p \in Strong, o \in Objects : Create(t, p, o)
    BY <1>1, <2>1, <2>9 DEF Call, Copy, Swap, Promote, Clear, HandOver, Weaken, WeakOf,
       DeleteObject
  <2> QED BY <1>1, <2>1, <2>2, <2>3, <2>4, <2>5, <2>6, <2>7, <2>8, <2>9 DEF Step
<1>2. ASSUME NEW b \in Blocks, state[b] # "new"
      PROVE  target'[b] = target[b] /\ target[b] # Null /\ state'[b] # "new"
  BY <1>2, TargetsKept DEF Targets
<1>3. \A o \in Objects : life[o] # "unborn" => life'[o] # "unborn"
  BY LivesChange
<1>4. Allocate(t) => call[t].o \in Untracked
  BY DEF Allocate, At, Uses, UsesOf
<1>5. \A b \in Blocks : state'[b] = "new" <=> target'[b] = Null
  BY <1>1, <1>2, <1>4, ObjectsAssumption
<1>6. \A b \in Blocks : target'[b] \in Tracked => life'[target'[b]] # "unborn"
  BY <1>1, <1>2, <1>3, <1>4 DEF Targets, Tracked
<1>7. ASSUME NEW b \in Blocks, NEW e \in Blocks, target'[b] \in Tracked, target'[b] = target'[e]
      PROVE  b = e
  <2>1. CASE state[b] # "new" /\ state[e] # "new"
    BY <1>2, <1>7, <2>1 DEF Targets
  <2>2. CASE state[b] = "new" /\ state[e] # "new"
    BY <1>1, <1>2, <1>4, <1>7, <2>2 DEF Targets, Tracked
  <2>3. CASE state[b] # "new" /\ state[e] = "new"
    BY <1>1, <1>2, <1>4, <1>7, <2>3 DEF Targets, Tracked
  <2>4. CASE state[b] = "new" /\ state[e] = "new"
    BY <1>1, <1>4, <1>7, <2>4 DEF Tracked
  <2> QED BY <2>1, <2>2, <2>3, <2>4
<1>8. ASSUME NEW o \in Objects, sharedRefcount'[o] # Null
      PROVE  o \in QObjects /\ target'[sharedRefcount'[o]] = o
  <2>1. CASE sharedRefcount'[o] = sharedRefcount[o]
    BY <1>2, <1>8, <2>1 DEF Targets, TypeOK
  <2>2. ASSUME NEW p \in Strong, Create(t, p, o), o \in QObjects, sharedRefcount'[o] = Fresh
        PROVE  target'[sharedRefcount'[o]] = o
    BY <2>2, FreshBlock DEF Create, TypeOK
  <2>3. CASE Publish(t) /\ call[t].at = "publish" /\ call[t].o = o /\ sharedRefcount'[o] = call[t].b
    <3>1. call[t].b \in Blocks /\ target[call[t].b] = o /\ o \in QObjects /\ o # Null
      BY <2>3, ObjectsAssumption DEF Uses, UsesOf, TypeOK, Arguments, ArgumentsOf
    <3> QED BY <1>2, <2>3, <3>1 DEF Targets
  <2> QED BY <2>1, <2>2, <2>3, LivesChange
<1>9. ASSUME NEW o \in Tracked \cap QObjects, life'[o] = "alive" PROVE sharedRefcount'[o] # Null
  <2>1. o \in Objects
    BY DEF Tracked
  <2>2. CASE life[o] = "alive"
    <3>1. sharedRefcount[o] # Null
      BY <2>2 DEF Targets, Alive
    <3> QED BY <2>1, <2>2, <3>1, LivesChange
  <2>3. CASE life[o] # "alive"
    <3>1. PICK p \in Strong : Create(t, p, o)
      BY <1>9, <2>1, <2>3, LivesChange
    <3>2. sharedRefcount'[o] = Fresh /\ Fresh \in Blocks
      BY <2>1, <3>1, FreshBlock DEF Create, TypeOK
    <3> QED BY <3>2
  <2> QED BY <2>2, <2>3
<1>10. ASSUME NEW u \in Threads, NEW v \in Threads, call'[u].at = "publish",
              call'[v].at = "publish", call'[u].b = call'[v].b
       PROVE  u = v
  \* A thread that was about to publish has a block that is not new.
  <2>1. \A w \in Threads : call[w].at = "publish" => call[w].b \in Blocks /\ state[call[w].b] # "new"
    BY DEF Uses, UsesOf, Targets, TypeOK, Arguments, ArgumentsOf, WeakCounted, WeakAgrees, Private,
       At
  <2>2. call'[t].at = "publish" => call'[t].b = Fresh /\ Fresh \in Blocks /\ state[Fresh] = "new"
    <3>1. CASE Call(t)
      BY <3>1, CallsBegin DEF Call, After
    <3>2. CASE Step(t)
      <4>1. call'[t].at = "publish" => Allocate(t) /\ call'[t].b = Fresh
        BY <3>2, CallsGoOn DEF Step, After
      <4> QED BY <4>1, FreshBlock DEF Allocate
    <3> QED BY <3>1, <3>2
  <2> QED BY <1>10, <2>1, <2>2, OthersKept DEF Targets, At
<1> QED BY <1>5, <1>6, <1>7, <1>8, <1>9, <1>10 DEF Targets, At, Alive


-----------------------------------------------------------------------------
(* The weak count.                                                         *)

\* Who is a keeper, one kind at a time.
LEMMA KeepersAre ==
  ASSUME NEW b
  PROVE  /\ \A p \in Pointers : p \in Keepers(b) <=> d[p] = b
         /\ \A u \in Threads : u \in Keepers(b) <=> WeakHeld(u) = b
         /\ \A o \in Objects : o \in Keepers(b) <=> Keeps(o, b)
         /\ \A p \in Pointers : p \in Keepers(b)' <=> d'[p] = b
         /\ \A u \in Threads : u \in Keepers(b)' <=> WeakHeld(u)' = b
         /\ \A o \in Objects : o \in Keepers(b)' <=> Keeps(o, b)'
  BY PointersAssumption, CountedAssumption DEF Keepers, Pointers

\* QObjects become keepers in Create and in Publish, and cease to be in LeaveObject.
LEMMA KeepsChange ==
  ASSUME IInv, NEW t \in Threads, Call(t) \/ Step(t), NEW o \in Objects, NEW b \in Blocks
  PROVE  Keeps(o, b)' <=>
           \/ Keeps(o, b) /\ ~(LeaveObject(t) /\ call[t].o = o)
           \/ b = Fresh /\ o \in QObjects /\ \E p \in Strong : Create(t, p, o)
           \/ Publish(t) /\ sharedRefcount[o] = Null /\ call[t].o = o /\ call[t].b = b
<1>0. TypeOK /\ Arguments /\ Uses /\ Deletes /\ Targets
  BY DEF IInv
<1> USE <1>0
<1> DEFINE r == sharedRefcount[o]
\* An object that is alive stays alive, or leaves.
<1>1. Alive(o) /\ r # Null =>
        \/ life'[o] = "alive"
        \/ \E u \in Threads : call'[u].at = "leaveObject" /\ call'[u].o = o
  <2>1. Destroy(t) /\ call[t].o = o /\ r # Null => call'[t].at = "leaveObject" /\ call'[t].o = o
    BY CallsGoOn DEF Targets, After
  <2> QED BY <2>1, LivesChange DEF Alive
<1>2. Leaving(o) /\ ~(LeaveObject(t) /\ call[t].o = o) =>
        \E u \in Threads : call'[u].at = "leaveObject" /\ call'[u].o = o
  <2>1. ASSUME NEW u \in Threads, call[u].at = "leaveObject", call[u].o = o,
               ~(LeaveObject(t) /\ call[t].o = o)
        PROVE  call'[u].at = "leaveObject" /\ call'[u].o = o
    <3>1. CASE u = t
      <4>1. Call(t) => call[t].at = "idle"
        BY CallsBegin DEF Call
      <4> QED BY <2>1, <3>1, <4>1, CallsGoOn DEF Step
    <3>2. CASE u # t
      BY <2>1, <3>2, OthersKept
    <3> QED BY <3>1, <3>2
  <2> QED BY <2>1 DEF Leaving, At
<1>3. LeaveObject(t) /\ call[t].o = o =>
        life'[o] # "alive" /\ \A u \in Threads : ~(call'[u].at = "leaveObject" /\ call'[u].o = o)
  <2>1. SUFFICES ASSUME LeaveObject(t), call[t].o = o
                 PROVE  /\ life'[o] # "alive"
                        /\ \A u \in Threads : ~(call'[u].at = "leaveObject" /\ call'[u].o = o)
    OBVIOUS
  <2>2. life[o] = "deleted" /\ UNCHANGED life
    BY <2>1 DEF LeaveObject, Deref, Deletes, DeletesOf, At
  <2>3. \A u \in Threads \ {t} : ~(call[u].at = "leaveObject" /\ call[u].o = o)
    BY <2>1 DEF LeaveObject, Deletes, DeletesOf, At
  <2>4. call'[t].at # "leaveObject"
    BY <2>1, CallsGoOn DEF After
  <2> QED BY <2>2, <2>3, <2>4, OthersKept
\* An object that neither lives nor leaves does so afterwards only if it has been created, ...
<1>4. ~Alive(o) => life'[o] # "alive" \/ \E p \in Strong : Create(t, p, o)
  BY LivesChange DEF Alive
\* ... or if it has begun to leave, when it was alive.
<1>5. ASSUME NEW u \in Threads, call'[u].at = "leaveObject", call'[u].o = o
      PROVE  Alive(o) \/ Leaving(o)
  <2>1. CASE call[u].at = "leaveObject" /\ call[u].o = o
    BY <2>1 DEF Leaving, At
  <2>2. CASE ~(call[u].at = "leaveObject" /\ call[u].o = o)
    <3>1. u = t
      BY <1>5, <2>2, OthersKept
    <3>2. Destroy(t) /\ call[t].o = o
      <4>1. Call(t) => call'[t].at # "leaveObject"
        BY CallsBegin, <1>5, <2>2, <3>1 DEF Call, After
      <4> QED BY <1>5, <3>1, <4>1, CallsGoOn, <2>2 DEF Step, After
    <3> QED BY <3>2 DEF Destroy, At, Deletes, DeletesOf
  <2> QED BY <2>1, <2>2
\* Who knows which block.
<1>6. sharedRefcount'[o] = b <=>
        \/ r = b
        \/ b = Fresh /\ o \in QObjects /\ \E p \in Strong : Create(t, p, o)
        \/ Publish(t) /\ r = Null /\ call[t].o = o /\ call[t].b = b
  <2>1. \A p \in Strong : Create(t, p, o) =>
          r = Null /\ sharedRefcount'[o] = (IF o \in QObjects THEN Fresh ELSE Null)
    <3>1. ASSUME NEW p \in Strong, Create(t, p, o), r # Null PROVE FALSE
      BY <3>1 DEF Create, Targets, Tracked, TypeOK
    <3> QED BY <3>1 DEF Create, TypeOK
  <2>2. Publish(t) /\ r = Null /\ call[t].o = o => sharedRefcount'[o] = call[t].b
    BY DEF Publish, TypeOK
  <2>3. b # Null
    BY NullAssumption
  <2> QED BY <2>1, <2>2, <2>3, LivesChange
<1>7. ASSUME NEW p \in Strong, Create(t, p, o) PROVE life'[o] = "alive"
  BY <1>7 DEF Create, TypeOK
<1>8. Publish(t) /\ call[t].o = o => life'[o] = "alive"
  BY ObjectsAssumption, NullAssumption DEF Publish, Uses, UsesOf, At, Alive
<1>9. b # Null
  BY NullAssumption
<1>10. Keeps(o, b)' <=>
         /\ sharedRefcount'[o] = b
         /\ \/ life'[o] = "alive"
            \/ \E u \in Threads : call'[u].at = "leaveObject" /\ call'[u].o = o
  BY DEF Keeps, Alive, Leaving, At
<1>11. ~(LeaveObject(t) /\ \E p \in Strong : Create(t, p, o)) /\ ~(LeaveObject(t) /\ Publish(t))
  BY DEF LeaveObject, Create, Publish, At
<1>12. \A p \in Strong : ~(Create(t, p, o) /\ r = b)
  BY <1>9 DEF Create, Targets, Tracked, TypeOK
<1>13. CASE LeaveObject(t) /\ call[t].o = o
  BY <1>3, <1>10, <1>11, <1>13
<1>14. CASE ~(LeaveObject(t) /\ call[t].o = o) /\ \E p \in Strong : Create(t, p, o)
  BY <1>6, <1>7, <1>10, <1>12, <1>14 DEF Keeps
<1>15. CASE Publish(t) /\ r = Null /\ call[t].o = o
  BY <1>6, <1>8, <1>9, <1>10, <1>11, <1>15 DEF Keeps
<1>16. CASE /\ ~(LeaveObject(t) /\ call[t].o = o) /\ ~\E p \in Strong : Create(t, p, o)
            /\ ~(Publish(t) /\ r = Null /\ call[t].o = o)
  <2>1. sharedRefcount'[o] = b <=> r = b
    BY <1>6, <1>16
  <2>2. CASE r # b
    BY <1>10, <1>16, <2>1, <2>2 DEF Keeps
  <2>3. CASE r = b
    BY <1>1, <1>2, <1>4, <1>5, <1>9, <1>10, <1>16, <2>1, <2>3 DEF Keeps
  <2> QED BY <2>2, <2>3
<1> QED BY <1>13, <1>14, <1>15, <1>16

\* A block becomes a thread's own in Allocate, and ceases to be in Publish.
LEMMA PrivateChange ==
  ASSUME IInv, NEW t \in Threads, Call(t) \/ Step(t), NEW b \in Blocks
  PROVE  Private(b)' <=>
           \/ Private(b) /\ ~(Publish(t) /\ call[t].b = b)
           \/ Allocate(t) /\ b = Fresh
<1>0. TypeOK /\ Targets
  BY DEF IInv
<1>1. ASSUME NEW u \in Threads, u # t
      PROVE  (call'[u].at = "publish" /\ call'[u].b = b) <=> (call[u].at = "publish" /\ call[u].b = b)
  BY <1>0, <1>1, OthersKept DEF IInv
<1>2. (call'[t].at = "publish" /\ call'[t].b = b) <=> (Allocate(t) /\ b = Fresh)
  <2>1. CASE Call(t)
    <3>1. call'[t].at # "publish" /\ call[t].at = "idle"
      BY <1>0, <2>1, CallsBegin DEF Call, After
    <3> QED BY <3>1 DEF Allocate, At
  <2>2. CASE Step(t)
    BY <1>0, <2>2, CallsGoOn DEF Step, After
  <2> QED BY <2>1, <2>2
<1>3. call[t].at = "publish" <=> Publish(t)
  <2>1. Publish(t) => call[t].at = "publish"
    BY DEF Publish, At
  <2>2. CASE Call(t)
    BY <1>0, <2>1, <2>2, CallsBegin DEF Call
  <2>3. CASE Step(t)
    BY <1>0, <2>1, <2>3, CallsGoOn DEF Step
  <2> QED BY <2>1, <2>2, <2>3
<1>4. \A u \in Threads : Publish(t) /\ call[t].b = b /\ call[u].at = "publish" /\ call[u].b = b => u = t
  BY <1>0, <1>3 DEF Targets, At
<1> QED BY <1>1, <1>2, <1>3, <1>4 DEF Private, At

\* The ways in which the keepers of a block change, and its weak count with them.
LEMMA WeakSame ==
  ASSUME NEW b \in Blocks, WeakAgrees(b), Keepers(b)' = Keepers(b), Private(b)' <=> Private(b),
         state'[b] = state[b], weakref'[b] = weakref[b],
         \A o \in Objects : sharedRefcount'[o] = b => sharedRefcount[o] = b
  PROVE  WeakAgrees(b)'
  BY DEF WeakAgrees

LEMMA WeakReplaced ==
  ASSUME NEW b \in Blocks, WeakCounted, NEW x \in Keepers(b), NEW y \in Tokens, y \notin Keepers(b),
         Keepers(b)' = (Keepers(b) \ {x}) \cup {y}, ~Private(b)',
         state'[b] = state[b], weakref'[b] = weakref[b]
  PROVE  WeakAgrees(b)'
<1>1. Cardinality(Keepers(b)') = Cardinality(Keepers(b))
  BY HoldersAreTokens, ReplaceOne
<1>2. state[b] = "used" /\ weakref[b] = Cardinality(Keepers(b))
  BY Kept
<1> QED BY <1>1, <1>2 DEF WeakAgrees

LEMMA WeakAdded ==
  ASSUME NEW b \in Blocks, WeakCounted, NEW x \in Keepers(b), NEW y \in Tokens, y \notin Keepers(b),
         Keepers(b)' = Keepers(b) \cup {y}, ~Private(b)',
         state'[b] = state[b], weakref'[b] = weakref[b] + 1
  PROVE  WeakAgrees(b)'
<1>1. Cardinality(Keepers(b)') = Cardinality(Keepers(b)) + 1
  BY HoldersAreTokens, AddOne
<1>2. state[b] = "used" /\ weakref[b] = Cardinality(Keepers(b))
  BY Kept
<1> QED BY <1>1, <1>2 DEF WeakAgrees

LEMMA WeakRemoved ==
  ASSUME NEW b \in Blocks, TypeOK, WeakCounted, NEW x \in Keepers(b), Deref(b),
         Keepers(b)' = Keepers(b) \ {x}, ~Private(b)'
  PROVE  WeakAgrees(b)'
<1>1. Cardinality(Keepers(b)') = Cardinality(Keepers(b)) - 1
  BY HoldersAreTokens, RemoveOne
<1>2. state[b] = "used" /\ weakref[b] = Cardinality(Keepers(b)) /\ (weakref[b] = 1 => Keepers(b) = {x})
  BY Kept
<1>3. weakref'[b] = weakref[b] - 1 /\ state'[b] = IF weakref[b] = 1 THEN "freed" ELSE state[b]
  BY DEF Deref, TypeOK
<1>4. weakref[b] # 1 => Keepers(b)' # {}
  <2>1. Cardinality(Keepers(b)) \in Nat
    BY TokensFinite, HoldersAreTokens
  <2>2. Keepers(b)' = {} => Cardinality(Keepers(b)') = 0
    BY NoneCounted
  <2> QED BY <1>1, <1>2, <2>1, <2>2
<1> QED BY <1>1, <1>2, <1>3, <1>4 DEF WeakAgrees

\* In most steps only pointers and the thread itself become keepers or cease to be.
LEMMA OtherKeepers ==
  ASSUME IInv, NEW t \in Threads, Call(t) \/ Step(t), NEW b \in Blocks,
         ~LeaveObject(t), ~Publish(t), ~Allocate(t),
         \A p \in Strong, o \in Objects : ~Create(t, p, o)
  PROVE  /\ \A x \in Threads \cup Objects : x # t => (x \in Keepers(b)' <=> x \in Keepers(b))
         /\ Private(b)' <=> Private(b)
         /\ \A o \in Objects : sharedRefcount'[o] = b => sharedRefcount[o] = b
<1>1. \A o \in Objects : Keeps(o, b)' <=> Keeps(o, b)
  BY KeepsChange
<1>2. \A u \in Threads : u # t => WeakHeld(u)' = WeakHeld(u)
  BY OthersKept DEF WeakHeld, IInv
<1>3. Private(b)' <=> Private(b)
  BY PrivateChange
<1>4. \A o \in Objects : sharedRefcount'[o] = b => sharedRefcount[o] = b
  BY LivesChange DEF IInv
<1> QED BY <1>1, <1>2, <1>3, <1>4, KeepersAre

LEMMA WeakStep ==
  ASSUME IInv, NEW t \in Threads, Call(t) \/ Step(t)
  PROVE  WeakCounted'
<1>0. TypeOK /\ Arguments /\ Uses /\ Deletes /\ Targets /\ WeakCounted
  BY DEF IInv
<1>a. t \in Tokens /\ (\A p \in Pointers : p \in Tokens /\ p # t /\ p \notin Threads \cup Objects)
  BY PointersAssumption, CountedAssumption DEF Tokens, Pointers
<1>b. \A b : Keepers(b) \in SUBSET Tokens /\ Keepers(b)' \in SUBSET Tokens
  BY HoldersAreTokens
<1> SUFFICES ASSUME NEW c \in Blocks PROVE WeakAgrees(c)'
  BY DEF WeakCounted
<1> USE <1>0
<1>c. WeakAgrees(c) /\ c # Null
  BY NullAssumption DEF WeakCounted
\* The same pointers, the same thread: the same count.
<1>d. ASSUME ~LeaveObject(t), ~Publish(t), ~Allocate(t),
             \A p \in Strong, o \in Objects : ~Create(t, p, o),
             d' = d, WeakHeld(t)' = c <=> WeakHeld(t) = c,
             state'[c] = state[c], weakref'[c] = weakref[c]
      PROVE  WeakAgrees(c)'
  <2>1. \A p \in Pointers : p \in Keepers(c)' <=> p \in Keepers(c)
    BY <1>d, KeepersAre
  <2>2. \A u \in Threads : u \in Keepers(c)' <=> u \in Keepers(c)
    BY <1>d, KeepersAre, OtherKeepers
  <2>3. \A x \in Tokens : x \in Keepers(c)' <=> x \in Keepers(c)
    BY <1>a, <1>d, <2>1, <2>2, OtherKeepers DEF Tokens
  <2>4. Keepers(c)' = Keepers(c)
    BY <1>b, <2>3
  <2> QED BY <1>c, <1>d, <2>4, WeakSame, OtherKeepers
\* The thread becomes a keeper of a block that has one.
<1>e. ASSUME ~LeaveObject(t), ~Publish(t), ~Allocate(t),
             \A p \in Strong, o \in Objects : ~Create(t, p, o),
             d' = d, WeakHeld(t) # c, WeakHeld(t)' = c, NEW x \in Keepers(c),
             state'[c] = state[c], weakref'[c] = weakref[c] + 1
      PROVE  WeakAgrees(c)'
  <2>1. \A p \in Pointers : p \in Keepers(c)' <=> p \in Keepers(c)
    BY <1>e, KeepersAre
  <2>2. t \in Keepers(c)' /\ t \notin Keepers(c)
    BY <1>e, KeepersAre
  <2>3. \A y \in Tokens : y \in Keepers(c)' <=> y \in Keepers(c) \cup {t}
    BY <1>a, <1>e, <2>1, <2>2, OtherKeepers DEF Tokens
  <2>4. Keepers(c)' = Keepers(c) \cup {t}
    BY <1>a, <1>b, <2>3
  <2>5. ~Private(c)'
    BY <1>e, Kept, OtherKeepers
  <2> QED BY <1>a, <1>e, <2>2, <2>4, <2>5, WeakAdded
<1>1. ASSUME NEW p \in Strong, NEW o \in Objects, Create(t, p, o) PROVE WeakAgrees(c)'
  <2> DEFINE b == Fresh
  <2>1. b \in Blocks /\ state[b] = "new" /\ d[p] = Null /\ o \notin Untracked
    BY <1>1, FreshBlock DEF Create
  <2>2. d' = [d EXCEPT ![p] = b] /\ UNCHANGED call /\ p \in Pointers
    BY <1>1 DEF Create, Pointers
  <2>3. /\ state' = [state EXCEPT ![b] = "used"]
        /\ weakref' = [weakref EXCEPT ![b] = 1 + KeptBySelf(o)]
    BY <1>1 DEF Create
  <2>4. ~LeaveObject(t) /\ ~Publish(t) /\ ~Allocate(t)
    BY <1>1 DEF Create, LeaveObject, Publish, Allocate, At
  <2>5. Private(c)' <=> Private(c)
    BY <2>4, PrivateChange
  <2>6. \A v \in Objects, q \in Strong : Create(t, q, v) => v = o
    <3>1. life[o] = "unborn" /\ life'[o] = "alive"
      BY <1>1 DEF Create, TypeOK
    <3>2. ASSUME NEW v \in Objects, NEW q \in Strong, Create(t, q, v), v # o PROVE FALSE
      <4>1. life'[o] = life[o]
        BY <3>2 DEF Create, TypeOK
      <4> QED BY <3>1, <4>1
    <3> QED BY <3>2
  <2>7. \A v \in Objects : Keeps(v, c)' <=> Keeps(v, c) \/ (c = b /\ v = o /\ o \in QObjects)
    BY <1>1, <2>4, <2>6, KeepsChange
  <2>8. \A u \in Threads : WeakHeld(u)' = WeakHeld(u)
    BY <2>2 DEF WeakHeld
  <2>9. CASE c # b
    <3>1. \A q \in Pointers : q \in Keepers(c)' <=> q \in Keepers(c)
      BY <1>c, <2>1, <2>2, <2>9, KeepersAre DEF TypeOK
    <3>2. \A x \in Tokens : x \in Keepers(c)' <=> x \in Keepers(c)
      BY <2>7, <2>8, <2>9, <3>1, KeepersAre DEF Tokens
    <3>3. Keepers(c)' = Keepers(c)
      BY <1>b, <3>2
    <3>4. \A v \in Objects : sharedRefcount'[v] = c => sharedRefcount[v] = c
      BY <2>4, <2>9, LivesChange
    <3> QED BY <1>c, <2>3, <2>5, <2>9, <3>3, <3>4, WeakSame DEF TypeOK
  <2>10. CASE c = b
    <3>1. Keepers(c) = {} /\ ~Private(c)
      BY <1>c, <2>1, <2>10 DEF WeakAgrees
    <3>2. \A q \in Pointers : q \in Keepers(c)' <=> q = p
      <4>1. \A q \in Pointers : d[q] # c
        BY <3>1, KeepersAre
      <4>2. \A q \in Pointers : d'[q] = c <=> q = p
        BY <2>2, <2>10, <4>1 DEF TypeOK
      <4> QED BY <4>2, KeepersAre
    <3>3. \A x \in Tokens : x \in Keepers(c)' <=> x = p \/ (x = o /\ o \in QObjects)
      <4>1. \A u \in Threads : u \notin Keepers(c)' /\ u # o /\ u # p
        BY <1>a, <2>2, <2>8, <3>1, KeepersAre, CountedAssumption
      <4>2. \A v \in Objects : v \in Keepers(c)' <=> v = o /\ o \in QObjects
        BY <2>7, <2>10, <3>1, KeepersAre
      <4>3. \A q \in Pointers : q # o
        BY <1>a
      <4>4. \A v \in Objects : v # p
        BY <1>a, <2>2
      <4> QED BY <3>2, <4>1, <4>2, <4>3, <4>4 DEF Tokens
    <3>4. p \in Tokens /\ o \in Tokens /\ p # o
      BY <1>a, <2>2 DEF Tokens
    <3>5. Keepers(c)' = {p} \cup (IF o \in QObjects THEN {o} ELSE {})
      BY <1>b, <3>3, <3>4
    <3>6. Cardinality({p}) = 1
      BY FS_Singleton
    <3>7. Cardinality({p} \cup {o}) = Cardinality({p}) + 1
      BY <3>4, AddOne
    <3>8. Cardinality(Keepers(c)') = 1 + KeptBySelf(o)
      BY <3>5, <3>6, <3>7 DEF KeptBySelf
    <3> QED BY <2>1, <2>3, <2>5, <2>10, <3>1, <3>5, <3>8 DEF WeakAgrees, TypeOK
  <2> QED BY <2>9, <2>10
<1>2. ASSUME NEW p \in Strong, NEW q \in Strong, p # q, Swap(t, p, q) PROVE WeakAgrees(c)'
  <2> DEFINE K == Keepers(c)
  <2>1. d' = [d EXCEPT ![p] = d[q], ![q] = d[p]] /\ UNCHANGED <<state, weakref, call>>
    BY <1>2 DEF Swap, blockVars
  <2>2. p \in Pointers /\ q \in Pointers
    BY DEF Pointers
  <2>3. /\ ~LeaveObject(t) /\ ~Publish(t) /\ ~Allocate(t)
        /\ \A v \in Strong, o \in Objects : ~Create(t, v, o)
    <3>1. UNCHANGED state /\ call[t].at = "idle"
      BY <1>2, <2>1 DEF Swap, At
    <3> QED BY <3>1, FreshBlock DEF LeaveObject, Publish, Allocate, At, Create, TypeOK
  <2>4. \A u \in Threads : WeakHeld(u)' = WeakHeld(u)
    BY <2>1 DEF WeakHeld
  <2>5. \A x \in Threads \cup Objects : x \in K' <=> x \in K
    BY <2>3, <2>4, KeepersAre, OtherKeepers
  <2>6. \A v \in Pointers : v \in K' <=> IF v = p THEN q \in K ELSE IF v = q THEN p \in K ELSE v \in K
    BY <2>1, <2>2, KeepersAre DEF TypeOK
  <2>7. p \in Tokens /\ q \in Tokens /\ K \in SUBSET Tokens /\ K' \in SUBSET Tokens
    BY <1>a, <1>b, <2>2
  <2> HIDE DEF K
  <2>8. CASE p \in K <=> q \in K
    <3>1. K' = K
      BY <2>5, <2>6, <2>7, <2>8, <2>2 DEF Tokens
    <3> QED BY <1>c, <2>1, <2>3, <3>1, WeakSame, OtherKeepers DEF K
  <2>9. CASE p \in K /\ q \notin K
    <3>1. K' = (K \ {p}) \cup {q}
      BY <2>5, <2>6, <2>7, <2>9, <2>2, <1>a DEF Tokens
    <3>2. ~Private(c)'
      BY <2>3, <2>9, Kept, OtherKeepers DEF K
    <3> QED BY <2>1, <2>7, <2>9, <3>1, <3>2, WeakReplaced DEF K
  <2>10. CASE p \notin K /\ q \in K
    <3>1. K' = (K \ {q}) \cup {p}
      BY <2>5, <2>6, <2>7, <2>10, <2>2, <1>a DEF Tokens
    <3>2. ~Private(c)'
      BY <2>3, <2>10, Kept, OtherKeepers DEF K
    <3> QED BY <2>1, <2>7, <2>10, <3>1, <3>2, WeakReplaced DEF K
  <2> QED BY <2>8, <2>9, <2>10
<1>3. CASE /\ Call(t) /\ UNCHANGED <<d, state, weakref>>
  <2>1. call[t].at = "idle"
    BY <1>3, CallsBegin DEF Call
  <2>2. \A p \in Strong, o \in Objects : ~Create(t, p, o)
    BY <1>3, FreshBlock DEF Create, TypeOK
  <2>3. WeakHeld(t)' = Null /\ WeakHeld(t) = Null
    <3>1. CASE UNCHANGED call
      BY <2>1, <3>1 DEF WeakHeld
    <3>2. ASSUME NEW p \in Pointers, Clear(t, p) PROVE FALSE
      BY <1>3, <3>2 DEF Clear, TypeOK
    <3> QED BY <1>3, <2>1, <2>2, <3>1, <3>2, CallsBegin DEF Call, WeakHeld, After
  <2> QED BY <1>3, <1>c, <1>d, <2>1, <2>2, <2>3 DEF LeaveObject, Publish, Allocate, At
<1>4. ASSUME NEW p \in Pointers, Clear(t, p) PROVE WeakAgrees(c)'
  <2> DEFINE K == Keepers(c)
  <2>1. /\ d[p] # Null /\ d' = [d EXCEPT ![p] = Null] /\ UNCHANGED <<state, weakref>>
        /\ WeakHeld(t) = Null /\ WeakHeld(t)' = d[p]
    BY <1>4, CallsBegin DEF Clear, blockVars, WeakHeld, After
  <2>2. /\ ~LeaveObject(t) /\ ~Publish(t) /\ ~Allocate(t)
        /\ \A v \in Strong, o \in Objects : ~Create(t, v, o)
    <3>1. UNCHANGED state /\ call[t].at = "idle"
      BY <1>4, <2>1 DEF Clear, Begin, At
    <3> QED BY <3>1, FreshBlock DEF LeaveObject, Publish, Allocate, At, Create, TypeOK
  <2>3. \A x \in Threads \cup Objects : x # t => (x \in K' <=> x \in K)
    BY <2>2, OtherKeepers
  <2>4. \A v \in Pointers : v \in K' <=> v # p /\ v \in K
    BY <1>c, <2>1, KeepersAre DEF TypeOK
  <2>5. (p \in K <=> d[p] = c) /\ (t \in K' <=> d[p] = c) /\ t \notin K
    BY <1>c, <2>1, KeepersAre
  <2>6. K \in SUBSET Tokens /\ K' \in SUBSET Tokens
    BY <1>b
  <2> HIDE DEF K
  <2>7. CASE d[p] # c
    <3>1. K' = K
      BY <2>3, <2>4, <2>5, <2>6, <2>7, <1>a DEF Tokens
    <3> QED BY <1>c, <2>1, <2>2, <3>1, WeakSame, OtherKeepers DEF K
  <2>8. CASE d[p] = c
    <3>1. K' = (K \ {p}) \cup {t}
      BY <2>3, <2>4, <2>5, <2>6, <2>8, <1>a DEF Tokens
    <3>2. ~Private(c)'
      BY <2>2, <2>5, <2>8, Kept, OtherKeepers DEF K
    <3> QED BY <1>a, <2>1, <2>5, <2>8, <3>1, <3>2, WeakReplaced DEF K
  <2> QED BY <2>7, <2>8
<1>5. CASE Call(t)
  <2>1. ASSUME NEW p \in Strong, NEW q \in Strong \ {p}, Swap(t, p, q) PROVE WeakAgrees(c)'
    BY <1>2, <2>1
  <2> QED BY <1>1, <1>3, <1>4, <1>5, <2>1
             DEF Call, Copy, Promote, HandOver, Weaken, WeakOf, DeleteObject, blockVars
\* No object comes or goes in these steps.
<1>6. ASSUME call[t].at \notin {"idle", "leaveObject", "publish", "allocate"}
      PROVE  /\ ~LeaveObject(t) /\ ~Publish(t) /\ ~Allocate(t)
             /\ \A p \in Strong, o \in Objects : ~Create(t, p, o)
  BY <1>6 DEF LeaveObject, Publish, Allocate, Create, At
<1>7. CASE RefWeak(t) \/ PromoteWeak(t) \/ WeakRef(t)
  <2> DEFINE b == call[t].b
  <2>1. call[t].at \in {"refWeak", "promoteWeak", "weakRef"}
    BY <1>7 DEF RefWeak, PromoteWeak, WeakRef, At
  <2>2. /\ weakref' = [weakref EXCEPT ![b] = @ + 1] /\ UNCHANGED <<d, state>>
        /\ WeakHeld(t) = Null /\ WeakHeld(t)' = b
    BY <1>7, CallsGoOn DEF RefWeak, PromoteWeak, WeakRef, At, WeakHeld, After
  <2>3. b \in Blocks /\ \E x : x \in Keepers(b)
    <3>1. b # Null /\ b \in Blocks
      BY <2>1 DEF Arguments, ArgumentsOf, TypeOK
    <3>2. CASE \E q \in Pointers : d[q] = b
      BY <3>1, <3>2, KeepersAre
    <3>3. CASE call[t].at = "weakRef" /\ call[t].o # Null
      BY <3>1, <3>3, HoldersKeep DEF Uses, UsesOf, TypeOK
    <3> QED BY <2>1, <3>2, <3>3 DEF Arguments, ArgumentsOf, Pointers
  <2>4. CASE c = b
    BY <1>c, <1>e, <1>6, <2>1, <2>2, <2>3, <2>4 DEF TypeOK
  <2>5. CASE c # b
    BY <1>c, <1>d, <1>6, <2>1, <2>2, <2>3, <2>5 DEF TypeOK
  <2> QED BY <2>4, <2>5
<1>8. CASE \/ RefStrong(t) \/ ReadStrong(t) \/ TestAndSetStrong(t) \/ DerefStrong(t)
           \/ Destroy(t)
  <2>1. /\ UNCHANGED <<d, state, weakref>>
        /\ call[t].at \notin {"idle", "leaveObject", "publish", "allocate"}
    BY <1>8 DEF RefStrong, ReadStrong, TestAndSetStrong, DerefStrong, Destroy, At, blockVars
  <2>2. WeakHeld(t)' = WeakHeld(t)
    BY <1>8, CallsGoOn DEF WeakHeld, After
  <2> QED BY <1>d, <1>6, <2>1, <2>2
<1>9. CASE SwapIn(t)
  <2> DEFINE K == Keepers(c)
             p == call[t].p
             b == call[t].b
  <2>1. /\ call[t].at = "swap" /\ p \in Pointers
        /\ d' = [d EXCEPT ![p] = b] /\ UNCHANGED <<state, weakref>>
        /\ WeakHeld(t) = b /\ WeakHeld(t)' = d[p]
    BY <1>9, CallsGoOn
       DEF SwapIn, At, blockVars, WeakHeld, After, Arguments, ArgumentsOf, Pointers
  <2>2. /\ ~LeaveObject(t) /\ ~Publish(t) /\ ~Allocate(t)
        /\ \A v \in Strong, o \in Objects : ~Create(t, v, o)
    BY <1>6, <2>1
  <2>3. \A x \in Threads \cup Objects : x # t => (x \in K' <=> x \in K)
    BY <2>2, OtherKeepers
  <2>4. \A v \in Pointers : v # p => (v \in K' <=> v \in K)
    BY <2>1, KeepersAre DEF TypeOK
  <2>5. /\ p \in K <=> d[p] = c
        /\ t \in K' <=> d[p] = c
        /\ p \in K' <=> b = c
        /\ t \in K <=> b = c
    BY <2>1, KeepersAre DEF TypeOK
  <2>6. K \in SUBSET Tokens /\ K' \in SUBSET Tokens
    BY <1>b
  <2> HIDE DEF K, p, b
  <2>7. CASE d[p] = c <=> b = c
    <3>1. K' = K
      BY <2>1, <2>3, <2>4, <2>5, <2>6, <2>7, <1>a DEF Tokens
    <3> QED BY <1>c, <2>1, <2>2, <3>1, WeakSame, OtherKeepers DEF K
  <2>8. CASE d[p] = c /\ b # c
    <3>1. K' = (K \ {p}) \cup {t}
      BY <2>1, <2>3, <2>4, <2>5, <2>6, <2>8, <1>a DEF Tokens
    <3>2. ~Private(c)'
      BY <2>2, <2>5, <2>8, Kept, OtherKeepers DEF K
    <3> QED BY <1>a, <2>1, <2>5, <2>8, <3>1, <3>2, WeakReplaced DEF K
  <2>9. CASE d[p] # c /\ b = c
    <3>1. K' = (K \ {t}) \cup {p}
      BY <2>1, <2>3, <2>4, <2>5, <2>6, <2>9, <1>a DEF Tokens
    <3>2. ~Private(c)'
      BY <2>2, <2>5, <2>9, Kept, OtherKeepers DEF K
    <3> QED BY <1>a, <2>1, <2>5, <2>9, <3>1, <3>2, WeakReplaced DEF K
  <2> QED BY <2>7, <2>8, <2>9
<1>10. CASE DerefWeak(t)
  <2> DEFINE K == Keepers(c)
             b == call[t].b
  <2>1. /\ call[t].at = "derefWeak" /\ Deref(b) /\ d' = d
        /\ WeakHeld(t) = b /\ WeakHeld(t)' = Null
    BY <1>10, CallsGoOn DEF DerefWeak, At, WeakHeld, After
  <2>2. /\ ~LeaveObject(t) /\ ~Publish(t) /\ ~Allocate(t)
        /\ \A v \in Strong, o \in Objects : ~Create(t, v, o)
    BY <1>6, <2>1
  <2>3. CASE c # b
    BY <1>c, <1>d, <2>1, <2>2, <2>3 DEF Deref, TypeOK
  <2>4. CASE c = b
    <3>1. t \in K /\ t \notin K'
      BY <1>c, <2>1, <2>4, KeepersAre
    <3>2. \A v \in Pointers : v \in K' <=> v \in K
      BY <2>1, KeepersAre
    <3>3. K' = K \ {t}
      BY <1>a, <1>b, <2>2, <3>1, <3>2, OtherKeepers DEF Tokens
    <3>4. ~Private(c)'
      BY <2>2, <3>1, Kept, OtherKeepers
    <3> QED BY <2>1, <2>4, <3>1, <3>3, <3>4, WeakRemoved
  <2> QED BY <2>3, <2>4
<1>11. CASE WeakSet(t)
  <2> DEFINE K == Keepers(c)
             w == call[t].p
             b == call[t].b
  <2>1. /\ call[t].at = "weakSet" /\ w \in Pointers
        /\ d' = [d EXCEPT ![w] = b]
        /\ WeakHeld(t) = b /\ WeakHeld(t)' = Null
    BY <1>11, CallsGoOn DEF WeakSet, At, WeakHeld, After, Arguments, ArgumentsOf, Pointers
  <2>2. /\ ~LeaveObject(t) /\ ~Publish(t) /\ ~Allocate(t)
        /\ \A v \in Strong, o \in Objects : ~Create(t, v, o)
    BY <1>6, <2>1
  <2>3. \A x \in Threads \cup Objects : x # t => (x \in K' <=> x \in K)
    BY <2>2, OtherKeepers
  <2>4. \A v \in Pointers : v # w => (v \in K' <=> v \in K)
    BY <2>1, KeepersAre DEF TypeOK
  <2>5. /\ w \in K <=> d[w] = c
        /\ t \notin K'
        /\ w \in K' <=> b = c
        /\ t \in K <=> b = c
    BY <1>c, <2>1, KeepersAre DEF TypeOK
  <2>6. K \in SUBSET Tokens /\ K' \in SUBSET Tokens
    BY <1>b
  <2>7. IF d[w] = Null THEN UNCHANGED <<state, weakref>> ELSE Deref(d[w])
    BY <1>11 DEF WeakSet, blockVars
  <2>8. d[w] # c => state'[c] = state[c] /\ weakref'[c] = weakref[c]
    BY <2>1, <2>7 DEF Deref, TypeOK
  <2>9. d[w] = c => Deref(c)
    BY <1>c, <2>7
  <2>10. c \in Blocks /\ t # w /\ t \in Tokens /\ w \in Tokens
    BY <1>a, <2>1
  <2> HIDE DEF K, w, b
  <2>11. CASE d[w] # c /\ b # c
    <3>1. K' = K
      BY <2>1, <2>3, <2>4, <2>5, <2>6, <2>11, <1>a DEF Tokens
    <3> QED BY <1>c, <2>2, <2>8, <2>11, <3>1, WeakSame, OtherKeepers DEF K
  <2>12. CASE d[w] # c /\ b = c
    <3>1. K' = (K \ {t}) \cup {w}
      BY <2>1, <2>3, <2>4, <2>5, <2>6, <2>12, <1>a DEF Tokens
    <3>2. ~Private(c)'
      BY <2>2, <2>5, <2>12, Kept, OtherKeepers DEF K
    <3> QED BY <2>5, <2>8, <2>10, <2>12, <3>1, <3>2, WeakReplaced DEF K
  <2>13. CASE d[w] = c /\ b # c
    <3>1. K' = K \ {w}
      BY <2>1, <2>3, <2>4, <2>5, <2>6, <2>13, <1>a DEF Tokens
    <3>2. ~Private(c)'
      BY <2>2, <2>5, <2>13, Kept, OtherKeepers DEF K
    <3> QED BY <2>5, <2>9, <2>13, <3>1, <3>2, WeakRemoved DEF K
  <2>14. CASE d[w] = c /\ b = c
    <3>1. K' = K \ {t}
      BY <2>1, <2>3, <2>4, <2>5, <2>6, <2>14, <1>a DEF Tokens
    <3>2. ~Private(c)'
      BY <2>2, <2>5, <2>14, Kept, OtherKeepers DEF K
    <3> QED BY <2>5, <2>9, <2>14, <3>1, <3>2, WeakRemoved DEF K
  <2> QED BY <2>11, <2>12, <2>13, <2>14
<1>12. CASE LeaveObject(t)
  <2> DEFINE K == Keepers(c)
             o == call[t].o
             b == sharedRefcount[o]
  <2>1. /\ call[t].at = "leaveObject" /\ Deref(b) /\ d' = d
        /\ o \in Objects /\ b # Null /\ Leaving(o)
    BY <1>12 DEF LeaveObject, At, Deletes, DeletesOf, Leaving
  <2>2. WeakHeld(t)' = WeakHeld(t)
    BY <1>12, CallsGoOn DEF WeakHeld, After
  <2>3. /\ \A u \in Threads : u \in K' <=> u \in K
        /\ \A p \in Pointers : p \in K' <=> p \in K
    <3>1. \A u \in Threads : WeakHeld(u)' = WeakHeld(u)
      BY <2>2, OthersKept DEF WeakHeld
    <3> QED BY <2>1, <3>1, KeepersAre
  <2>4. ~Publish(t) /\ ~Allocate(t) /\ \A p \in Strong, v \in Objects : ~Create(t, p, v)
    BY <2>1 DEF Publish, Allocate, Create, At
  <2>5. \A v \in Objects : v \in K' <=> v \in K /\ v # o
    BY <1>12, <2>4, KeepsChange, KeepersAre
  <2>6. Private(c)' <=> Private(c)
    BY <2>4, PrivateChange
  <2>7. o \notin Pointers \cup Threads
    BY <2>1, CountedAssumption DEF Pointers
  <2>8. K' = K \ {o}
    BY <1>b, <2>3, <2>5, <2>7 DEF Tokens
  <2>9. CASE c = b
    <3>1. o \in K
      BY <2>1, <2>9, HoldersKeep
    <3>2. ~Private(c)'
      BY <2>6, <3>1, Kept
    <3> QED BY <2>1, <2>8, <2>9, <3>1, <3>2, WeakRemoved
  <2>10. CASE c # b
    <3>1. o \notin K
      BY <2>1, <2>10, KeepersAre DEF Keeps
    <3>2. state'[c] = state[c] /\ weakref'[c] = weakref[c] /\ UNCHANGED sharedRefcount
      BY <2>1, <2>10 DEF Deref, TypeOK
    <3>3. K' = K
      BY <2>8, <3>1
    <3> QED BY <1>c, <2>6, <3>2, <3>3, WeakSame
  <2> QED BY <2>9, <2>10
<1>13. CASE Allocate(t)
  <2> DEFINE K == Keepers(c)
             b == Fresh
  <2>1. b \in Blocks /\ state[b] = "new"
    BY <1>13, FreshBlock DEF Allocate
  <2>2. /\ call[t].at = "allocate"
        /\ state' = [state EXCEPT ![b] = "used"] /\ weakref' = [weakref EXCEPT ![b] = 2]
        /\ UNCHANGED <<d, sharedRefcount>>
    BY <1>13 DEF Allocate, At
  <2>3. ~LeaveObject(t) /\ ~Publish(t) /\ \A p \in Strong, v \in Objects : ~Create(t, p, v)
    BY <2>2 DEF LeaveObject, Publish, Create, At
  <2>4. \A u \in Threads : WeakHeld(u)' = WeakHeld(u)
    BY <1>13, CallsGoOn, OthersKept DEF WeakHeld, After
  <2>5. \A x \in Tokens : x \in K' <=> x \in K
    BY <2>2, <2>3, <2>4, KeepersAre, KeepsChange DEF Tokens
  <2>6. K' = K
    BY <1>b, <2>5
  <2>7. CASE c # b
    <3>1. Private(c)' <=> Private(c)
      BY <2>3, <2>7, PrivateChange
    <3> QED BY <1>c, <2>2, <2>6, <2>7, <3>1, WeakSame DEF TypeOK
  <2>8. CASE c = b
    <3>1. K = {} /\ \A o \in Objects : sharedRefcount[o] # c
      BY <1>c, <2>1, <2>8, NullAssumption DEF WeakAgrees, Targets, TypeOK
    <3>2. state'[c] = "used" /\ Private(c)'
      BY <1>13, <2>1, <2>2, <2>8, PrivateChange DEF TypeOK
    <3> QED BY <2>2, <2>6, <3>1, <3>2 DEF WeakAgrees
  <2> QED BY <2>7, <2>8
<1>14. CASE Publish(t)
  <2> DEFINE K == Keepers(c)
             o == call[t].o
             b == call[t].b
  <2>1. /\ call[t].at = "publish" /\ b \in Blocks /\ o \in Objects /\ o \in QObjects
        /\ weakref[b] = 2 /\ Alive(o)
    BY <1>14, ObjectsAssumption, NullAssumption
       DEF Publish, At, Arguments, ArgumentsOf, Uses, UsesOf, TypeOK
  <2>2. UNCHANGED <<d, weakref, life>>
    BY <1>14 DEF Publish
  <2>3. ~LeaveObject(t) /\ ~Allocate(t) /\ \A p \in Strong, v \in Objects : ~Create(t, p, v)
    BY <2>1 DEF LeaveObject, Allocate, Create, At
  <2>4. Private(b) /\ (Private(c)' <=> Private(c) /\ c # b)
    <3>1. Private(b)
      BY <2>1 DEF Private, At
    <3>2. Private(c)' <=> Private(c) /\ c # b
      BY <1>14, <2>3, PrivateChange
    <3> QED BY <3>1, <3>2
  <2>5. /\ state[b] = "used" /\ Keepers(b) = {} /\ \A v \in Objects : sharedRefcount[v] # b
    BY <2>1, <2>4 DEF WeakCounted, WeakAgrees
  <2>6. \A p \in Pointers : p \in K' <=> p \in K
    BY <2>2, KeepersAre
  <2>7. \A u \in Threads : u # t => (u \in K' <=> u \in K)
    BY OthersKept, KeepersAre DEF WeakHeld
  <2>8. t \notin K
    BY <1>c, <2>1, KeepersAre DEF WeakHeld
  <2>9. CASE sharedRefcount[o] = Null
    <3>1. /\ sharedRefcount' = [sharedRefcount EXCEPT ![o] = b] /\ UNCHANGED state
          /\ WeakHeld(t)' = b
      BY <1>14, <2>9, CallsGoOn DEF Publish, WeakHeld, After
    <3>2. \A v \in Objects : v \in K' <=> v \in K \/ (v = o /\ c = b)
      BY <1>14, <2>3, <2>9, KeepsChange, KeepersAre
    <3>3. t \in K' <=> c = b
      BY <3>1, KeepersAre
    <3>4. CASE c = b
      <4>1. \A x \in Tokens : x \in K' <=> x = t \/ x = o
        BY <1>a, <2>1, <2>5, <2>6, <2>7, <3>2, <3>3, <3>4, CountedAssumption DEF Tokens, Pointers
      <4>2. t # o /\ o \in Tokens
        BY <2>1, CountedAssumption DEF Tokens
      <4>3. K' = {t} \cup {o}
        BY <1>a, <1>b, <4>1, <4>2
      <4>4. Cardinality({t}) = 1 /\ Cardinality({t} \cup {o}) = Cardinality({t}) + 1
        BY <1>a, <4>2, AddOne, FS_Singleton
      <4>5. Cardinality(K') = 2
        BY <4>3, <4>4
      <4> QED BY <2>1, <2>2, <2>4, <2>5, <3>1, <3>4, <4>3, <4>5 DEF WeakAgrees
    <3>5. CASE c # b
      <4>1. K' = K
        BY <1>b, <2>6, <2>7, <2>8, <3>2, <3>3, <3>5 DEF Tokens
      <4>2. \A v \in Objects : sharedRefcount'[v] = c => sharedRefcount[v] = c
        BY <3>1, <3>5 DEF TypeOK
      <4> QED BY <1>c, <2>2, <2>4, <3>1, <3>5, <4>1, <4>2, WeakSame
    <3> QED BY <3>4, <3>5
  <2>10. CASE sharedRefcount[o] # Null
    <3>1. /\ state' = [state EXCEPT ![b] = "freed"] /\ UNCHANGED sharedRefcount
          /\ WeakHeld(t)' = Null
      BY <1>14, <2>10, CallsGoOn DEF Publish, WeakHeld, After
    <3>2. \A v \in Objects : v \in K' <=> v \in K
      BY <1>14, <2>3, <2>10, KeepsChange, KeepersAre
    <3>3. t \notin K'
      BY <1>c, <3>1, KeepersAre
    <3>4. K' = K
      BY <1>b, <2>6, <2>7, <2>8, <3>2, <3>3 DEF Tokens
    <3>5. CASE c = b
      BY <2>1, <2>4, <2>5, <3>1, <3>4, <3>5 DEF WeakAgrees, TypeOK
    <3>6. CASE c # b
      BY <1>c, <2>2, <2>4, <3>1, <3>4, <3>6, WeakSame DEF TypeOK
    <3> QED BY <3>5, <3>6
  <2> QED BY <2>9, <2>10
<1> QED BY <1>5, <1>7, <1>8, <1>9, <1>10, <1>11, <1>12, <1>13, <1>14 DEF Step

-----------------------------------------------------------------------------
(* The strong count.                                                       *)

\* Who is an owner, one kind at a time.
LEMMA OwnersAre ==
  ASSUME NEW b
  PROVE  /\ \A p \in Strong : p \in Owners(b) <=> d[p] = b
         /\ \A u \in Threads : u \in Owners(b) <=> StrongHeld(u) = b
         /\ \A p \in Strong : p \in Owners(b)' <=> d'[p] = b
         /\ \A u \in Threads : u \in Owners(b)' <=> StrongHeld(u)' = b
         /\ Owners(b) \in SUBSET (Strong \cup Threads)
         /\ Owners(b)' \in SUBSET (Strong \cup Threads)
  BY PointersAssumption DEF Owners

\* Objects are doomed in DerefStrong and in DeleteObject, until Destroy.
LEMMA DoomedChange ==
  ASSUME TypeOK, Deletes, Arguments, NEW t \in Threads, Call(t) \/ Step(t), NEW o \in Objects
  PROVE  Doomed(o)' <=>
           \/ Doomed(o) /\ ~(Destroy(t) /\ call[t].o = o)
           \/ DeleteObject(t, o)
           \/ DerefStrong(t) /\ strongref[call[t].b] = 1 /\ target[call[t].b] = o
<1>1. \A u \in Threads : u # t => call'[u] = call[u]
  BY OthersKept
<1>2. (call'[t].at = "destroy" /\ call'[t].o = o) <=>
        \/ DeleteObject(t, o)
        \/ DerefStrong(t) /\ strongref[call[t].b] = 1 /\ target[call[t].b] = o
  <2>1. CASE Call(t)
    <3>1. call[t].at = "idle"
      BY <2>1, CallsBegin DEF Call
    <3>2. call'[t].at = "destroy" => \E v \in Objects : DeleteObject(t, v) /\ call'[t].o = v
      BY <2>1, <3>1, CallsBegin DEF Call, After
    <3>3. DeleteObject(t, o) => call'[t].at = "destroy" /\ call'[t].o = o
      BY CallsBegin DEF After
    <3> QED BY <3>1, <3>2, <3>3 DEF DerefStrong, At
  <2>2. CASE Step(t)
    <3>1. call[t].at # "idle"
      BY <2>2, CallsGoOn DEF Step
    <3>2. call'[t].at = "destroy" => DerefStrong(t)
      BY <2>2, CallsGoOn DEF Step, After
    <3>3. DerefStrong(t) =>
            (call'[t].at = "destroy" <=> strongref[call[t].b] = 1) /\
            (call'[t].at = "destroy" => call'[t].o = target[call[t].b])
      BY CallsGoOn DEF After
    <3> QED BY <3>1, <3>2, <3>3 DEF DeleteObject, At
  <2> QED BY <2>1, <2>2
<1>3. call[t].at = "destroy" <=> Destroy(t)
  <2>1. Destroy(t) => call[t].at = "destroy"
    BY DEF Destroy, At
  <2>2. CASE Call(t)
    BY <2>1, <2>2, CallsBegin DEF Call
  <2>3. CASE Step(t)
    BY <2>1, <2>3, CallsGoOn DEF Step
  <2> QED BY <2>1, <2>2, <2>3
<1>4. Destroy(t) /\ call[t].o = o =>
        \A u \in Threads : u # t => ~(call[u].at = "destroy" /\ call[u].o = o)
  BY DEF Destroy, At, Deletes, DeletesOf
<1>5. Doomed(o) <=> \/ call[t].at = "destroy" /\ call[t].o = o
                    \/ \E u \in Threads : u # t /\ call[u].at = "destroy" /\ call[u].o = o
  BY DEF Doomed, At
<1>6. Doomed(o)' <=> \/ call'[t].at = "destroy" /\ call'[t].o = o
                     \/ \E u \in Threads : u # t /\ call'[u].at = "destroy" /\ call'[u].o = o
  BY DEF Doomed, At
<1> QED BY <1>1, <1>2, <1>3, <1>4, <1>5, <1>6

\* The ways in which the owners of a block change, and its strong count with them.
LEMMA StrongSame ==
  ASSUME NEW b \in Blocks, StrongAgrees(b), Owners(b)' = Owners(b), strongref'[b] = strongref[b],
         target'[b] = target[b], state[b] # "new" => state'[b] # "new",
         \A o \in Tracked : target[b] = o =>
           (Alive(o)' <=> Alive(o)) /\ (Doomed(o)' <=> Doomed(o))
  PROVE  StrongAgrees(b)'
<1>1. CASE target[b] \in Tracked
  <2> DEFINE o == target[b]
  <2>1. life'[o] = "alive" <=> Alive(o)
    BY <1>1 DEF Alive
  <2>2. (\E t \in Threads : At(t, "destroy")' /\ call'[t].o = o) <=> Doomed(o)
    BY <1>1 DEF Doomed
  <2>3. target'[b] = o
    OBVIOUS
  <2> HIDE DEF o
  <2>4. /\ life'[target'[b]] = "alive" <=> Alive(o)
        /\ (\E t \in Threads : At(t, "destroy")' /\ call'[t].o = target'[b]) <=> Doomed(o)
    BY <2>1, <2>2, <2>3
  <2>5. target[b] \notin Untracked /\ o = target[b]
    BY <1>1 DEF Tracked, o
  <2> QED BY <1>1, <2>4, <2>5 DEF StrongAgrees, Alive, Doomed
<1>2. CASE target[b] \notin Tracked
  BY <1>2 DEF StrongAgrees
<1> QED BY <1>1, <1>2

\* An owner hands over to another.
LEMMA StrongReplaced ==
  ASSUME NEW b \in Blocks, TypeOK, Targets, StrongCounted, NEW x \in Owners(b),
         NEW y \in Tokens, y \notin Owners(b),
         Owners(b)' = (Owners(b) \ {x}) \cup {y}, strongref'[b] = strongref[b],
         target'[b] = target[b], life'[target[b]] = life[target[b]], state'[b] = state[b]
  PROVE  StrongAgrees(b)'
<1>1. Cardinality(Owners(b)') = Cardinality(Owners(b))
  BY HoldersAreTokens, ReplaceOne
<1>2. /\ target[b] \in Tracked /\ strongref[b] = Cardinality(Owners(b)) /\ strongref[b] > 0
      /\ life[target[b]] = "alive"
  BY Owned DEF Alive
<1>3. state[b] # "new" /\ target[b] \notin Untracked
  BY <1>2, NullAssumption DEF Targets, Tracked
<1> QED BY <1>1, <1>2, <1>3 DEF StrongAgrees, Alive

\* A block with a count that is positive gets another owner.
LEMMA StrongAdded ==
  ASSUME NEW b \in Blocks, TypeOK, Targets, StrongCounted, state[b] # "new", strongref[b] > 0,
         NEW y \in Tokens, y \notin Owners(b),
         Owners(b)' = Owners(b) \cup {y}, strongref'[b] = strongref[b] + 1,
         target'[b] = target[b], life' = life, state'[b] = state[b]
  PROVE  StrongAgrees(b)'
<1>1. Cardinality(Owners(b)') = Cardinality(Owners(b)) + 1
  BY HoldersAreTokens, AddOne
<1>2. target[b] \in Tracked /\ target[b] \notin Untracked
  BY DEF Targets, StrongCounted, StrongAgrees, TypeOK, Tracked
<1>3. strongref[b] = Cardinality(Owners(b)) /\ life[target[b]] = "alive"
  BY <1>2 DEF StrongCounted, StrongAgrees, Alive
<1>4. strongref'[b] > 0
  BY DEF TypeOK
<1> QED BY <1>1, <1>2, <1>3, <1>4 DEF StrongAgrees, Alive

LEMMA StrongStep ==
  ASSUME IInv, NEW t \in Threads, Call(t) \/ Step(t)
  PROVE  StrongCounted'
<1>0. TypeOK /\ Arguments /\ Uses /\ Deletes /\ Targets /\ WeakCounted /\ StrongCounted
  BY DEF IInv
<1>a. t \in Tokens /\ t \notin Strong /\ (\A p \in Strong : p \in Tokens /\ p # t /\ p \notin Threads)
  BY PointersAssumption DEF Tokens, Pointers
<1> SUFFICES ASSUME NEW c \in Blocks PROVE StrongAgrees(c)'
  BY DEF StrongCounted
<1> USE <1>0
<1>b. StrongAgrees(c) /\ c # Null
  BY NullAssumption DEF StrongCounted
<1>c. state[c] # "new" => target'[c] = target[c] /\ state'[c] # "new"
  BY TargetsKept
<1>d. \A u \in Threads : u # t => StrongHeld(u)' = StrongHeld(u)
  BY OthersKept DEF StrongHeld
\* What is not deleted, and not doomed, by this step.
<1>e. ASSUME ~Destroy(t), ~DerefStrong(t), \A p \in Strong, o \in Objects : ~Create(t, p, o)
      PROVE  \A o \in Tracked : (Alive(o)' <=> Alive(o)) /\ (Doomed(o)' <=> Doomed(o))
  <2> SUFFICES ASSUME NEW o \in Tracked
               PROVE  (Alive(o)' <=> Alive(o)) /\ (Doomed(o)' <=> Doomed(o))
    OBVIOUS
  <2>1. o \in Objects /\ ~DeleteObject(t, o)
    BY DEF Tracked, DeleteObject
  <2> QED BY <1>e, <2>1, LivesChange, DoomedChange DEF Alive
\* The same pointers, the same thread: the same count.
<1>f. ASSUME ~Destroy(t), ~DerefStrong(t), \A p \in Strong, o \in Objects : ~Create(t, p, o),
             \A p \in Strong : d'[p] = d[p], StrongHeld(t)' = c <=> StrongHeld(t) = c,
             strongref'[c] = strongref[c], target'[c] = target[c]
      PROVE  StrongAgrees(c)'
  <2>1. Owners(c)' = Owners(c)
    <3>1. \A x \in Strong \cup Threads : x \in Owners(c)' <=> x \in Owners(c)
      BY <1>d, <1>f, OwnersAre
    <3> QED BY <3>1, OwnersAre
  <2> QED BY <1>b, <1>c, <1>e, <1>f, <2>1, StrongSame
\* The thread becomes an owner of a block that has one.
<1>g. ASSUME d' = d, StrongHeld(t) # c, StrongHeld(t)' = c,
             strongref'[c] = strongref[c] + 1, strongref[c] > 0,
             UNCHANGED <<target, life, state>>, state[c] # "new"
      PROVE  StrongAgrees(c)'
  <2>1. t \in Owners(c)' /\ t \notin Owners(c)
    BY <1>g, OwnersAre
  <2>2. Owners(c)' = Owners(c) \cup {t}
    BY <1>d, <1>g, <2>1, OwnersAre
  <2> QED BY <1>a, <1>g, <2>1, <2>2, StrongAdded
<1>1. ASSUME NEW p \in Strong, NEW o \in Objects, Create(t, p, o) PROVE StrongAgrees(c)'
  <2> DEFINE b == Fresh
  <2>1. b \in Blocks /\ state[b] = "new" /\ d[p] = Null /\ o \in Tracked /\ life[o] = "unborn"
    BY <1>1, FreshBlock DEF Create, Tracked
  <2>2. /\ d' = [d EXCEPT ![p] = b] /\ UNCHANGED call
        /\ life' = [life EXCEPT ![o] = "alive"]
        /\ state' = [state EXCEPT ![b] = "used"]
        /\ target' = [target EXCEPT ![b] = o]
        /\ strongref' = [strongref EXCEPT ![b] = 1]
    BY <1>1 DEF Create
  <2>3. \A u \in Threads : StrongHeld(u)' = StrongHeld(u)
    BY <2>2 DEF StrongHeld
  <2>4. CASE c # b
    <3>1. Owners(c)' = Owners(c)
      <4>1. \A q \in Strong : d'[q] = c <=> d[q] = c
        BY <1>b, <2>1, <2>2, <2>4 DEF TypeOK
      <4>2. \A x \in Strong \cup Threads : x \in Owners(c)' <=> x \in Owners(c)
        BY <2>3, <4>1, OwnersAre
      <4> QED BY <4>2, OwnersAre
    <3>2. \A v \in Tracked : target[c] = v => (Alive(v)' <=> Alive(v)) /\ (Doomed(v)' <=> Doomed(v))
      <4> SUFFICES ASSUME NEW v \in Tracked, target[c] = v
                   PROVE  (Alive(v)' <=> Alive(v)) /\ (Doomed(v)' <=> Doomed(v))
        OBVIOUS
      <4>1. v # o
        BY <2>1 DEF Targets
      <4>2. Alive(v)' <=> Alive(v)
        BY <2>2, <4>1 DEF Alive, TypeOK
      <4>3. Doomed(v)' <=> Doomed(v)
        BY <2>2 DEF Doomed, At
      <4> QED BY <4>2, <4>3
    <3>3. strongref'[c] = strongref[c] /\ target'[c] = target[c] /\ state'[c] = state[c]
      BY <2>2, <2>4 DEF TypeOK
    <3> QED BY <1>b, <3>1, <3>2, <3>3, StrongSame
  <2>5. CASE c = b
    <3>1. Owners(c) = {}
      BY <1>b, <2>1, <2>5 DEF StrongAgrees
    <3>2. \A q \in Strong : d'[q] = c <=> q = p
      <4>1. \A q \in Strong : d[q] # c
        BY <3>1, OwnersAre
      <4> QED BY <2>2, <2>5, <4>1 DEF TypeOK, Pointers
    <3>3. Owners(c)' = {p}
      BY <1>a, <2>3, <3>1, <3>2, OwnersAre
    <3>4. Cardinality(Owners(c)') = 1
      BY <3>3, FS_Singleton
    <3>5. /\ strongref'[c] = 1 /\ target'[c] = o /\ state'[c] = "used" /\ life'[o] = "alive"
      BY <2>1, <2>2, <2>5 DEF TypeOK, Tracked
    <3>6. life'[target'[c]] = "alive" /\ target'[c] \in Tracked /\ target'[c] \notin Untracked
      BY <2>1, <3>5 DEF Tracked
    <3> QED BY <3>4, <3>5, <3>6 DEF StrongAgrees, Alive
  <2> QED BY <2>4, <2>5
<1>2. ASSUME NEW p \in Strong, NEW q \in Strong, p # q, Swap(t, p, q) PROVE StrongAgrees(c)'
  <2> DEFINE K == Owners(c)
  <2>1. d' = [d EXCEPT ![p] = d[q], ![q] = d[p]] /\ UNCHANGED <<life, blockVars, call>>
    BY <1>2 DEF Swap
  <2>2. \A u \in Threads : u \in K' <=> u \in K
    BY <2>1, OwnersAre DEF StrongHeld
  <2>3. \A v \in Strong : v \in K' <=> IF v = p THEN q \in K ELSE IF v = q THEN p \in K ELSE v \in K
    BY <2>1, OwnersAre DEF TypeOK, Pointers
  <2>4. K \in SUBSET (Strong \cup Threads) /\ K' \in SUBSET (Strong \cup Threads)
    BY OwnersAre
  <2>5. UNCHANGED <<strongref, target, state>>
    BY <2>1 DEF blockVars
  <2>6. \A v \in Tracked : (Alive(v)' <=> Alive(v)) /\ (Doomed(v)' <=> Doomed(v))
    BY <2>1 DEF Alive, Doomed, At
  <2> HIDE DEF K
  <2>7. CASE p \in K <=> q \in K
    <3>1. K' = K
      BY <1>a, <2>2, <2>3, <2>4, <2>7
    <3> QED BY <1>b, <2>5, <2>6, <3>1, StrongSame DEF K
  <2>8. CASE p \in K /\ q \notin K
    <3>1. K' = (K \ {p}) \cup {q}
      BY <1>2, <1>a, <2>2, <2>3, <2>4, <2>8
    <3> QED BY <1>a, <2>1, <2>5, <2>8, <3>1, StrongReplaced DEF K
  <2>9. CASE p \notin K /\ q \in K
    <3>1. K' = (K \ {q}) \cup {p}
      BY <1>2, <1>a, <2>2, <2>3, <2>4, <2>9
    <3> QED BY <1>a, <2>1, <2>5, <2>9, <3>1, StrongReplaced DEF K
  <2> QED BY <2>7, <2>8, <2>9
<1>3. CASE Call(t) /\ UNCHANGED <<d, state, strongref, target>>
  <2>1. call[t].at = "idle"
    BY <1>3, CallsBegin DEF Call
  <2>2. \A p \in Strong, o \in Objects : ~Create(t, p, o)
    BY <1>3, FreshBlock DEF Create, TypeOK
  <2>3. StrongHeld(t)' = Null /\ StrongHeld(t) = Null
    <3>1. CASE UNCHANGED call
      BY <2>1, <3>1 DEF StrongHeld
    <3>2. ASSUME NEW p \in Pointers, Clear(t, p) PROVE FALSE
      BY <1>3, <3>2 DEF Clear, TypeOK
    <3> QED BY <1>3, <2>1, <2>2, <3>1, <3>2, CallsBegin DEF Call, StrongHeld, After
  <2> QED BY <1>3, <1>b, <1>f, <2>1, <2>2, <2>3 DEF Destroy, DerefStrong, At
<1>4. ASSUME NEW p \in Pointers, Clear(t, p) PROVE StrongAgrees(c)'
  <2> DEFINE K == Owners(c)
  <2>1. /\ d[p] # Null /\ d' = [d EXCEPT ![p] = Null]
        /\ UNCHANGED <<life, strongref, target, state>>
        /\ call[t].at = "idle" /\ StrongHeld(t) = Null
        /\ StrongHeld(t)' = IF p \in Strong THEN d[p] ELSE Null
    BY <1>4, CallsBegin DEF Clear, blockVars, StrongHeld, After
  <2>2. /\ ~Destroy(t) /\ ~DerefStrong(t)
        /\ \A q \in Strong, o \in Objects : ~Create(t, q, o)
    BY <2>1, FreshBlock DEF Destroy, DerefStrong, At, Create, TypeOK
  <2>3. \A u \in Threads : u # t => (u \in K' <=> u \in K)
    BY <1>d, OwnersAre
  <2>4. \A q \in Strong : q # p => (q \in K' <=> q \in K)
    BY <2>1, OwnersAre DEF TypeOK, Pointers
  <2>5. CASE p \in Strong /\ d[p] = c
    <3>1. p \in K /\ p \notin K' /\ t \in K' /\ t \notin K
      BY <1>b, <2>1, <2>5, OwnersAre DEF TypeOK, Pointers
    <3>2. K' = (K \ {p}) \cup {t}
      BY <1>a, <2>3, <2>4, <2>5, <3>1, OwnersAre
    <3> QED BY <1>a, <2>1, <3>1, <3>2, StrongReplaced
  <2>6. CASE ~(p \in Strong /\ d[p] = c)
    <3>1. t \notin K /\ t \notin K' /\ (p \in Strong => p \notin K /\ p \notin K')
      BY <1>b, <2>1, <2>6, OwnersAre DEF TypeOK, Pointers
    <3>2. K' = K
      BY <2>3, <2>4, <3>1, OwnersAre
    <3> QED BY <1>b, <1>e, <2>1, <2>2, <3>2, StrongSame
  <2> QED BY <2>5, <2>6
<1>5. CASE Call(t)
  <2>1. ASSUME NEW p \in Strong, NEW q \in Strong \ {p}, Swap(t, p, q) PROVE StrongAgrees(c)'
    BY <1>2, <2>1
  <2> QED BY <1>1, <1>3, <1>4, <1>5, <2>1
             DEF Call, Copy, Promote, HandOver, Weaken, WeakOf, DeleteObject, blockVars
<1>6. ASSUME call[t].at \notin {"idle", "destroy", "derefStrong"}
      PROVE  /\ ~Destroy(t) /\ ~DerefStrong(t)
             /\ \A p \in Strong, o \in Objects : ~Create(t, p, o)
  BY <1>6 DEF Destroy, DerefStrong, Create, At
<1>7. CASE \/ RefWeak(t) \/ ReadStrong(t) \/ PromoteWeak(t) \/ WeakRef(t) \/ Publish(t)
           \/ LeaveObject(t) \/ DerefWeak(t)
  <2>1. call[t].at \notin {"idle", "destroy", "derefStrong"}
    BY <1>7 DEF RefWeak, ReadStrong, PromoteWeak, WeakRef, Publish, LeaveObject, DerefWeak, At
  <2>2. d' = d /\ strongref' = strongref /\ target' = target
    BY <1>7 DEF RefWeak, ReadStrong, PromoteWeak, WeakRef, Publish, LeaveObject, DerefWeak, Deref,
       blockVars
  <2>3. StrongHeld(t)' = c <=> StrongHeld(t) = c
    BY <1>b, <1>7, CallsGoOn DEF StrongHeld, After
  <2> QED BY <1>f, <1>6, <2>1, <2>2, <2>3
<1>8. CASE WeakSet(t)
  <2>1. call[t].at = "weakSet" /\ call[t].p \notin Strong
    BY <1>8, PointersAssumption DEF WeakSet, At, Arguments, ArgumentsOf
  <2>2. \A p \in Strong : d'[p] = d[p]
    BY <1>8, <2>1 DEF WeakSet, TypeOK, Pointers
  <2>3. strongref' = strongref /\ target' = target
    BY <1>8 DEF WeakSet, Deref, blockVars
  <2>4. StrongHeld(t)' = Null /\ StrongHeld(t) = Null
    BY <1>8, CallsGoOn DEF StrongHeld, After
  <2> QED BY <1>f, <1>6, <2>1, <2>2, <2>3, <2>4
<1>9. CASE RefStrong(t)
  <2> DEFINE b == call[t].b
  <2>1. call[t].at = "refStrong" /\ b \in Blocks /\ \E q \in Strong : d[q] = b
    BY <1>9 DEF RefStrong, At, Arguments, ArgumentsOf, TypeOK
  <2>2. /\ strongref' = [strongref EXCEPT ![b] = @ + 1]
        /\ UNCHANGED <<d, target, life, state>>
    BY <1>9 DEF RefStrong
  <2>3. StrongHeld(t) = Null /\ StrongHeld(t)' = b
    BY <1>9, CallsGoOn DEF StrongHeld, After
  <2>4. CASE c = b
    <3>1. \E q : q \in Owners(c)
      BY <2>1, <2>4, OwnersAre
    <3>2. strongref[c] > 0 /\ target[c] \in Tracked
      BY <3>1, Owned
    <3>3. state[c] # "new"
      BY <3>2, NullAssumption DEF Targets, Tracked
    <3> QED BY <1>b, <1>g, <2>2, <2>3, <2>4, <3>2, <3>3 DEF TypeOK
  <2>5. CASE c # b
    BY <1>b, <1>f, <1>6, <2>1, <2>2, <2>3, <2>5 DEF TypeOK
  <2> QED BY <2>4, <2>5
<1>10. CASE TestAndSetStrong(t)
  <2> DEFINE b == call[t].b
  <2>1. /\ call[t].at = "cas" /\ b \in Blocks /\ call[t].strong > 0
        /\ \E q \in Pointers : d[q] = b
    BY <1>10 DEF TestAndSetStrong, At, Arguments, ArgumentsOf, TypeOK
  <2>2. UNCHANGED <<d, target, life, state>> /\ StrongHeld(t) = Null
    BY <1>10, <2>1 DEF TestAndSetStrong, StrongHeld
  <2>3. CASE c = b /\ strongref' # strongref
    <3>1. strongref[c] > 0 /\ strongref'[c] = strongref[c] + 1 /\ StrongHeld(t)' = c
      BY <1>10, <2>1, <2>3, CallsGoOn DEF After, StrongHeld, TypeOK
    <3>2. state[c] # "new"
      BY <2>1, <2>3, KeepersAre, Kept
    <3> QED BY <1>b, <1>g, <2>2, <3>1, <3>2
  <2>4. CASE c # b \/ UNCHANGED strongref
    <3>1. StrongHeld(t)' = c <=> StrongHeld(t) = c
      BY <1>10, <1>b, <2>1, <2>2, <2>4, CallsGoOn DEF After, StrongHeld, TypeOK
    <3>2. strongref'[c] = strongref[c]
      BY <1>10, <2>1, <2>4, CallsGoOn DEF TypeOK
    <3> QED BY <1>f, <1>6, <2>1, <2>2, <3>1, <3>2
  <2> QED BY <2>3, <2>4
<1>11. CASE SwapIn(t)
  <2> DEFINE K == Owners(c)
             p == call[t].p
             b == call[t].b
  <2>1. /\ call[t].at = "swap" /\ p \in Strong
        /\ d' = [d EXCEPT ![p] = b] /\ UNCHANGED <<life, strongref, target, state>>
        /\ StrongHeld(t) = b /\ StrongHeld(t)' = d[p]
    BY <1>11, CallsGoOn DEF SwapIn, At, blockVars, StrongHeld, After, Arguments, ArgumentsOf
  <2>2. \A u \in Threads : u # t => (u \in K' <=> u \in K)
    BY <1>d, OwnersAre
  <2>3. \A v \in Strong : v # p => (v \in K' <=> v \in K)
    BY <2>1, OwnersAre DEF TypeOK, Pointers
  <2>4. /\ p \in K <=> d[p] = c
        /\ t \in K' <=> d[p] = c
        /\ p \in K' <=> b = c
        /\ t \in K <=> b = c
    BY <2>1, OwnersAre DEF TypeOK, Pointers
  <2>5. K \in SUBSET (Strong \cup Threads) /\ K' \in SUBSET (Strong \cup Threads)
    BY OwnersAre
  <2>6. t \in Tokens /\ p \in Tokens /\ p # t
    BY <1>a, <2>1
  <2>7. ~Destroy(t) /\ ~DerefStrong(t) /\ \A q \in Strong, o \in Objects : ~Create(t, q, o)
    BY <1>6, <2>1
  <2> HIDE DEF K, p, b
  <2>8. CASE d[p] = c <=> b = c
    <3>1. K' = K
      BY <2>1, <2>2, <2>3, <2>4, <2>5, <2>8
    <3> QED BY <1>b, <1>e, <2>1, <2>7, <3>1, StrongSame DEF K
  <2>9. CASE d[p] = c /\ b # c
    <3>1. K' = (K \ {p}) \cup {t}
      BY <2>1, <2>2, <2>3, <2>4, <2>5, <2>6, <2>9
    <3> QED BY <2>1, <2>4, <2>6, <2>9, <3>1, StrongReplaced DEF K
  <2>10. CASE d[p] # c /\ b = c
    <3>1. K' = (K \ {t}) \cup {p}
      BY <2>1, <2>2, <2>3, <2>4, <2>5, <2>6, <2>10
    <3> QED BY <2>1, <2>4, <2>6, <2>10, <3>1, StrongReplaced DEF K
  <2> QED BY <2>8, <2>9, <2>10
<1>12. CASE DerefStrong(t)
  <2> DEFINE K == Owners(c)
             b == call[t].b
  <2>1. /\ call[t].at = "derefStrong" /\ b \in Blocks
        /\ strongref' = [strongref EXCEPT ![b] = @ - 1]
        /\ UNCHANGED <<d, life, target, state>>
        /\ StrongHeld(t) = b /\ StrongHeld(t)' = Null
    <3>1. call[t].at = "derefStrong" /\ b \in Blocks
      BY <1>12 DEF DerefStrong, At, Arguments, ArgumentsOf, TypeOK
    <3>2. StrongHeld(t) = b /\ StrongHeld(t)' = Null
      BY <1>12, <3>1, CallsGoOn DEF StrongHeld, After
    <3> QED BY <1>12, <3>1, <3>2 DEF DerefStrong
  <2>2. b # Null /\ t \in Owners(b)
    BY <2>1, OwnersAre, NullAssumption
  <2>3. /\ target[b] \in Tracked /\ strongref[b] = Cardinality(Owners(b)) /\ strongref[b] > 0
        /\ Alive(target[b])
    BY <2>1, <2>2, Owned
  <2>4. ASSUME NEW o \in Tracked
        PROVE  Doomed(o)' <=> Doomed(o) \/ (strongref[b] = 1 /\ target[b] = o)
    <3>1. o \in Objects /\ ~DeleteObject(t, o) /\ ~Destroy(t)
      BY <2>1 DEF Tracked, DeleteObject, Destroy, At
    <3> QED BY <1>12, <3>1, DoomedChange
  <2>5. \A o \in Tracked : Alive(o)' <=> Alive(o)
    BY <2>1 DEF Alive
  <2>6. CASE c # b
    <3>1. \A x \in Strong \cup Threads : x \in K' <=> x \in K
      BY <1>b, <1>d, <2>1, <2>6, OwnersAre
    <3>2. K' = K
      BY <3>1, OwnersAre
    <3>3. \A o \in Tracked : target[c] = o => (Doomed(o)' <=> Doomed(o))
      BY <2>1, <2>3, <2>4, <2>6 DEF Targets
    <3>4. strongref'[c] = strongref[c]
      BY <2>1, <2>6 DEF TypeOK
    <3> QED BY <1>b, <2>1, <2>5, <3>2, <3>3, <3>4, StrongSame
  <2>7. CASE c = b
    <3>1. \A x \in Strong \cup Threads : x \in K' <=> x \in K /\ x # t
      BY <1>a, <1>b, <1>d, <2>1, <2>7, OwnersAre
    <3>2. K' = K \ {t}
      BY <3>1, OwnersAre
    <3>3. Cardinality(K') = Cardinality(K) - 1
      BY <2>2, <2>7, <3>2, HoldersAreTokens, RemoveOne
    <3>4. strongref'[c] = strongref[c] - 1
      BY <2>1, <2>7 DEF TypeOK
    <3>5. strongref'[c] > 0 \/ \E u \in Threads : call'[u].at = "destroy" /\ call'[u].o = target[c]
      <4>1. CASE strongref[c] = 1
        BY <1>12, <2>7, <4>1, CallsGoOn DEF After
      <4>2. CASE strongref[c] # 1
        BY <2>3, <2>7, <3>4, <4>2 DEF TypeOK
      <4> QED BY <4>1, <4>2
    <3>6. state[c] # "new" /\ target[c] \notin Untracked
      BY <2>3, <2>7, NullAssumption DEF Targets, Tracked
    <3> QED BY <2>1, <2>3, <2>7, <3>3, <3>4, <3>5, <3>6 DEF StrongAgrees, Alive, At, Doomed
  <2> QED BY <2>6, <2>7
<1>13. CASE Destroy(t)
  <2> DEFINE K == Owners(c)
             o == call[t].o
  <2>1. /\ call[t].at = "destroy" /\ o \in Objects /\ Alive(o)
        /\ life' = [life EXCEPT ![o] = "deleted"]
        /\ UNCHANGED <<d, target, state>>
        /\ strongref' = strongref \/ (sharedRefcount[o] # Null
                                       /\ strongref' = [strongref EXCEPT ![sharedRefcount[o]] = 0])
    BY <1>13 DEF Destroy, At, Deletes, DeletesOf
  <2>2. StrongHeld(t)' = Null /\ StrongHeld(t) = Null
    BY <1>13, CallsGoOn DEF StrongHeld, After
  <2>3. K' = K
    <3>1. \A x \in Strong \cup Threads : x \in K' <=> x \in K
      BY <1>d, <2>1, <2>2, OwnersAre
    <3> QED BY <3>1, OwnersAre
  <2>4. \A v \in Tracked : v # o => (Doomed(v)' <=> Doomed(v)) /\ (Alive(v)' <=> Alive(v))
    <3> SUFFICES ASSUME NEW v \in Tracked, v # o
                 PROVE  (Doomed(v)' <=> Doomed(v)) /\ (Alive(v)' <=> Alive(v))
      OBVIOUS
    <3>1. v \in Objects /\ ~DeleteObject(t, v) /\ ~DerefStrong(t)
      BY <2>1 DEF Tracked, DeleteObject, DerefStrong, At
    <3> QED BY <2>1, <3>1, DoomedChange DEF Alive, TypeOK
  <2>5. target[c] # o => strongref'[c] = strongref[c]
    BY <2>1 DEF Targets, TypeOK
  <2>6. CASE target[c] # o
    BY <1>b, <2>1, <2>3, <2>4, <2>5, <2>6, StrongSame
  <2>7. CASE target[c] = o /\ o \in Tracked
    <3>1. strongref[c] = 0
      <4>1. call[t].b \in Blocks /\ target[call[t].b] = o /\ strongref[call[t].b] = 0
        BY <2>1, <2>7 DEF Deletes, DeletesOf, TypeOK
      <4> QED BY <2>7, <4>1 DEF Targets
    <3>2. strongref'[c] = 0
      BY <2>1, <2>7, <3>1, ZeroKept
    <3>3. life'[o] # "alive"
      BY <2>1 DEF TypeOK
    <3>4. ~\E u \in Threads : call'[u].at = "destroy" /\ call'[u].o = o
      <4>1. call'[t].at # "destroy"
        BY <1>13, CallsGoOn DEF After
      <4>2. \A u \in Threads : u # t => ~(call'[u].at = "destroy" /\ call'[u].o = o)
        BY <2>1, OthersKept DEF Deletes, DeletesOf
      <4> QED BY <4>1, <4>2
    <3>5. state[c] # "new" /\ target[c] \notin Untracked
      BY <2>7, NullAssumption DEF Targets, Tracked
    <3> QED BY <1>b, <2>1, <2>3, <2>7, <3>1, <3>2, <3>3, <3>4, <3>5
               DEF StrongAgrees, Alive, At, Doomed
  <2>8. CASE target[c] = o /\ o \in Untracked
    <3>1. Owners(c) = {} /\ strongref[c] \in {-1, 0}
      BY <1>b, <2>8 DEF StrongAgrees
    <3>2. strongref'[c] \in {-1, 0}
      BY <2>1, <3>1 DEF TypeOK
    <3> QED BY <2>1, <2>3, <2>8, <3>1, <3>2 DEF StrongAgrees, Tracked
  <2> QED BY <2>1, <2>6, <2>7, <2>8 DEF Tracked
<1>14. CASE Allocate(t)
  <2> DEFINE b == Fresh
  <2>1. b \in Blocks /\ state[b] = "new" /\ call[t].at = "allocate" /\ call[t].o \in Untracked
    BY <1>14, FreshBlock DEF Allocate, At, Uses, UsesOf
  <2>2. /\ strongref' = [strongref EXCEPT ![b] = -1] /\ target' = [target EXCEPT ![b] = call[t].o]
        /\ d' = d
    BY <1>14 DEF Allocate
  <2>3. StrongHeld(t)' = Null /\ StrongHeld(t) = Null
    BY <1>14, CallsGoOn DEF StrongHeld, After
  <2>4. CASE c # b
    BY <1>f, <1>6, <2>1, <2>2, <2>3, <2>4 DEF TypeOK
  <2>5. CASE c = b
    <3>1. Owners(c) = {}
      BY <1>b, <2>1, <2>5 DEF StrongAgrees
    <3>2. \A x \in Strong \cup Threads : x \in Owners(c)' <=> x \in Owners(c)
      BY <1>d, <2>2, <2>3, OwnersAre
    <3>3. Owners(c)' = {}
      BY <3>1, <3>2, OwnersAre
    <3> QED BY <2>1, <2>2, <2>5, <3>3 DEF StrongAgrees, Tracked, TypeOK
  <2> QED BY <2>4, <2>5
<1> QED BY <1>5, <1>7, <1>8, <1>9, <1>10, <1>11, <1>12, <1>13, <1>14 DEF Step

-----------------------------------------------------------------------------
(* The invariant, and what it says of the counters.                        *)

LEMMA StepIInv == IInv /\ [Next]_vars => IInv'
<1> SUFFICES ASSUME IInv, [Next]_vars PROVE IInv'
  OBVIOUS
<1>1. CASE UNCHANGED vars
  <2> USE <1>1 DEF vars, blockVars
  <2>1. TypeOK'
    BY DEF IInv, TypeOK
  <2>2. Arguments'
    BY DEF IInv, Arguments, ArgumentsOf
  <2>3. Uses'
    BY DEF IInv, Uses, UsesOf, Alive
  <2>4. Deletes'
    BY DEF IInv, Deletes, DeletesOf, Alive
  <2>5. Targets'
    BY DEF IInv, Targets, Alive, At
  <2>6. \A b : Keepers(b)' = Keepers(b) /\ Owners(b)' = Owners(b) /\ (Private(b)' <=> Private(b))
    BY DEF Keepers, Owners, Keeps, Leaving, WeakHeld, StrongHeld, Private, Alive, At
  <2>7. WeakCounted'
    BY <2>6 DEF IInv, WeakCounted, WeakAgrees
  <2>8. \A o : (Doomed(o)' <=> Doomed(o)) /\ (Alive(o)' <=> Alive(o))
    BY DEF Doomed, Alive, At
  <2>9. StrongCounted'
    <3> SUFFICES ASSUME NEW b \in Blocks PROVE StrongAgrees(b)'
      BY DEF StrongCounted
    <3>1. StrongAgrees(b)
      BY DEF IInv, StrongCounted
    <3> QED BY <2>6, <2>8, <3>1, StrongSame
  <2> QED BY <2>1, <2>2, <2>3, <2>4, <2>5, <2>7, <2>9 DEF IInv
<1>2. ASSUME NEW t \in Threads, Call(t) \/ Step(t) PROVE IInv'
  BY <1>2, TypeStep, ArgumentsStep, UsesStep, DeletesStep, TargetsStep, WeakStep, StrongStep
     DEF IInv
<1> QED BY <1>1, <1>2 DEF Next

\* Every reference is counted, at every step of every call.
THEOREM Invariance == Spec => []IInv
  BY InitIInv, StepIInv, PTL DEF Spec

\* However pointers are copied, promoted and cleared: weakref is never counted below zero, and
\* strongref is below zero only with the -1 of an object that QWeakPointer tracks.
THEOREM TypeCorrect == Spec => []TypeOK
<1>1. IInv => TypeOK
  BY DEF IInv
<1> QED BY <1>1, Invariance, PTL

\* Who reads or writes a block has a reference to it, or holds a pointer that has.
LEMMA TouchedIsUsed == IInv => CountersOutliveUsers
<1> SUFFICES ASSUME IInv PROVE CountersOutliveUsers
  OBVIOUS
<1>0. TypeOK /\ Arguments /\ Uses /\ Deletes /\ Targets /\ WeakCounted
  BY DEF IInv
<1> USE <1>0
<1>1. ASSUME NEW p \in Pointers, d[p] # Null PROVE state[d[p]] = "used"
  BY <1>1, HoldersKeep, Kept
<1>2. ASSUME NEW t \in Threads, NEW b \in Blocks, b \in Touched(t) PROVE state[b] = "used"
  <2> DEFINE c == call[t]
  <2>1. b # Null
    BY NullAssumption
  <2>2. CASE c.at = "publish"
    <3>1. Private(b)
      BY <1>2, <2>2 DEF Touched, Private, At
    <3> QED BY <3>1 DEF WeakCounted, WeakAgrees
  <2>3. CASE c.at \in {"destroy", "leaveObject"}
    <3>1. b = sharedRefcount[c.o] /\ c.o \in Objects
      BY <1>2, <2>3 DEF Touched, Deletes, DeletesOf
    <3>2. Alive(c.o) \/ Leaving(c.o)
      BY <2>3 DEF Deletes, DeletesOf, Leaving, At
    <3> QED BY <2>1, <3>1, <3>2, HoldersKeep, Kept
  <2>4. CASE c.at = "weakSet"
    <3>1. b = d[c.p] /\ c.p \in Pointers
      BY <1>2, <2>4 DEF Touched, Arguments, ArgumentsOf, Pointers
    <3> QED BY <1>1, <2>1, <3>1
  <2>5. CASE c.at \in {"derefStrong", "derefWeak", "refStrong"}
    <3>1. b = WeakHeld(t)
      BY <1>2, <2>5 DEF Touched, WeakHeld
    <3> QED BY <2>1, <3>1, HoldersKeep, Kept
  <2>6. CASE c.at = "weakRef" /\ c.o # Null
    <3>1. b = sharedRefcount[c.o] /\ c.o \in Objects /\ Alive(c.o)
      BY <1>2, <2>6 DEF Touched, Uses, UsesOf, TypeOK
    <3> QED BY <2>1, <3>1, HoldersKeep, Kept
  <2>7. CASE c.at \in {"refWeak", "read", "cas", "promoteWeak"} \/ (c.at = "weakRef" /\ c.o = Null)
    <3>1. b = c.b /\ \E q \in Pointers : d[q] = b
      BY <1>2, <2>7 DEF Touched, Arguments, ArgumentsOf, Pointers
    <3> QED BY <1>1, <2>1, <3>1
  <2>8. CASE c.at \in {"idle", "swap", "allocate"}
    BY <1>2, <2>1, <2>8 DEF Touched, Arguments, ArgumentsOf
  <2>9. c.at \in Ats
    BY DEF TypeOK
  <2> QED BY <2>2, <2>3, <2>4, <2>5, <2>6, <2>7, <2>8, <2>9 DEF Ats
<1> QED BY <1>1, <1>2 DEF CountersOutliveUsers

\* No thread touches a block of counters that another one has freed.
THEOREM CountersAreThere == Spec => []CountersOutliveUsers
  BY TouchedIsUsed, Invariance, PTL

\* getAndRef gives up the block it has allocated, whose weak count is 2.
PublishLost == \E t \in Threads : Publish(t) /\ sharedRefcount[call[t].o] # Null

\* A block is freed with its last weak reference, and a freed one is not counted any more.
LEMMA FreedStep ==
  ASSUME IInv, FreedUnreferenced, [Next]_vars, ~PublishLost
  PROVE  FreedUnreferenced'
<1>0. TypeOK /\ Arguments /\ Deletes /\ CountersOutliveUsers
  BY TouchedIsUsed DEF IInv
<1>1. CASE UNCHANGED <<state, weakref>>
  BY <1>1 DEF FreedUnreferenced
<1>2. ASSUME NEW b \in Blocks, state[b] # "freed", weakref' = [weakref EXCEPT ![b] = weakref'[b]],
             state' = [state EXCEPT ![b] = "used"]
      PROVE  FreedUnreferenced'
  BY <1>0, <1>2 DEF FreedUnreferenced, TypeOK
<1>3. ASSUME NEW b \in Blocks, state[b] = "used", UNCHANGED state,
             weakref' = [weakref EXCEPT ![b] = @ + 1]
      PROVE  FreedUnreferenced'
  BY <1>0, <1>3 DEF FreedUnreferenced, TypeOK
<1>4. ASSUME NEW b \in Blocks, state[b] = "used", Deref(b)
      PROVE  FreedUnreferenced'
  <2> SUFFICES ASSUME NEW c \in Blocks, state'[c] = "freed" PROVE weakref'[c] = 0
    BY DEF FreedUnreferenced
  <2>1. CASE c = b
    BY <1>0, <1>4, <2>1 DEF Deref, TypeOK
  <2>2. CASE c # b
    BY <1>0, <1>4, <2>2 DEF Deref, TypeOK, FreedUnreferenced
  <2> QED BY <2>1, <2>2
<1>5. ASSUME NEW t \in Threads, NEW p \in Strong, NEW o \in Objects, Create(t, p, o)
      PROVE  FreedUnreferenced'
  <2>1. Fresh \in Blocks /\ state[Fresh] = "new"
    BY <1>5, FreshBlock DEF Create
  <2>2. /\ state' = [state EXCEPT ![Fresh] = "used"]
        /\ weakref' = [weakref EXCEPT ![Fresh] = weakref'[Fresh]]
    BY <1>0, <1>5, <2>1 DEF Create, TypeOK
  <2> QED BY <1>2, <2>1, <2>2
<1>6. ASSUME NEW t \in Threads, Allocate(t) PROVE FreedUnreferenced'
  <2>1. Fresh \in Blocks /\ state[Fresh] = "new"
    BY <1>6, FreshBlock DEF Allocate
  <2>2. /\ state' = [state EXCEPT ![Fresh] = "used"]
        /\ weakref' = [weakref EXCEPT ![Fresh] = weakref'[Fresh]]
    BY <1>0, <1>6, <2>1 DEF Allocate, TypeOK
  <2> QED BY <1>2, <2>1, <2>2
<1>7. ASSUME NEW t \in Threads, RefWeak(t) \/ PromoteWeak(t) \/ WeakRef(t)
      PROVE  FreedUnreferenced'
  <2> DEFINE b == call[t].b
  <2>1. /\ call[t].at \in {"refWeak", "promoteWeak", "weakRef"}
        /\ UNCHANGED state /\ weakref' = [weakref EXCEPT ![b] = @ + 1]
    BY <1>7 DEF RefWeak, PromoteWeak, WeakRef, At
  <2>2. b \in Blocks
    BY <1>0, <2>1 DEF Arguments, ArgumentsOf, TypeOK
  <2>3. b \in Touched(t)
    BY <2>1 DEF Touched
  <2> QED BY <1>0, <1>3, <2>1, <2>2, <2>3 DEF CountersOutliveUsers
<1>8. ASSUME NEW t \in Threads, LeaveObject(t) PROVE FreedUnreferenced'
  <2> DEFINE b == sharedRefcount[call[t].o]
  <2>1. At(t, "leaveObject") /\ Deref(b)
    BY <1>8 DEF LeaveObject
  <2>2. b \in Blocks
    BY <1>0, <2>1 DEF Deletes, DeletesOf, TypeOK, At
  <2>3. b \in Touched(t)
    BY <2>1 DEF Touched, At
  <2> QED BY <1>0, <1>4, <2>1, <2>2, <2>3 DEF CountersOutliveUsers
<1>9. ASSUME NEW t \in Threads, DerefWeak(t) PROVE FreedUnreferenced'
  <2> DEFINE b == call[t].b
  <2>1. At(t, "derefWeak") /\ Deref(b)
    BY <1>9 DEF DerefWeak
  <2>2. b \in Blocks
    BY <1>0, <2>1 DEF Arguments, ArgumentsOf, TypeOK, At
  <2>3. b \in Touched(t)
    BY <2>1 DEF Touched, At
  <2> QED BY <1>0, <1>4, <2>1, <2>2, <2>3 DEF CountersOutliveUsers
<1>10. ASSUME NEW t \in Threads, WeakSet(t) PROVE FreedUnreferenced'
  <2> DEFINE b == d[call[t].p]
  <2>1. CASE b = Null
    BY <1>1, <1>10, <2>1 DEF WeakSet, blockVars
  <2>2. CASE b # Null
    <3>1. Deref(b)
      BY <1>10, <2>2 DEF WeakSet
    <3>2. call[t].p \in Pointers
      BY <1>0, <1>10 DEF WeakSet, Arguments, ArgumentsOf, At, Pointers
    <3>3. b \in Blocks /\ state[b] = "used"
      BY <1>0, <2>2, <3>2 DEF TypeOK, CountersOutliveUsers
    <3> QED BY <1>4, <3>1, <3>3
  <2> QED BY <2>1, <2>2
<1>11. ASSUME NEW t \in Threads, Publish(t) PROVE FreedUnreferenced'
  <2>1. sharedRefcount[call[t].o] = Null
    BY <1>11 DEF PublishLost
  <2> QED BY <1>1, <1>11, <2>1 DEF Publish
<1>12. ASSUME NEW t \in Threads,
              \/ \E p \in Strong, q \in Pointers : Copy(t, p, q) \/ Swap(t, p, q) \/ Promote(t, p, q)
              \/ \E p \in Pointers : Clear(t, p) \/ \E u \in Threads : HandOver(t, p, u)
              \/ \E w \in Weak, q \in Pointers : Weaken(t, w, q)
              \/ \E o \in Objects : DeleteObject(t, o) \/ \E w \in Weak : WeakOf(t, w, o)
       PROVE  FreedUnreferenced'
  BY <1>1, <1>12 DEF Copy, Swap, Promote, Clear, HandOver, Weaken, WeakOf, DeleteObject, blockVars
<1>13. ASSUME NEW t \in Threads,
              \/ RefStrong(t) \/ ReadStrong(t) \/ TestAndSetStrong(t) \/ SwapIn(t)
              \/ DerefStrong(t) \/ Destroy(t)
       PROVE  FreedUnreferenced'
  BY <1>1, <1>13 DEF RefStrong, ReadStrong, TestAndSetStrong, SwapIn, DerefStrong, Destroy,
     blockVars
<1>14. CASE UNCHANGED vars
  BY <1>1, <1>14 DEF vars, blockVars
<1> QED
  BY NextCases, <1>5, <1>6, <1>7, <1>8, <1>9, <1>10, <1>11, <1>12, <1>13, <1>14 DEF Pointers

\* ~ExternalRefCountData finds no reference left as long as no two threads make the first
\* QWeakPointer to the same QObject at a time: losing the race in getAndRef is the only way a
\* block is freed with a weak count, however else the pointers are used.
THEOREM FreedUnlessRaceLost == Spec /\ [][~PublishLost]_vars => []FreedUnreferenced
<1>1. Init => FreedUnreferenced
  BY DEF Init, FreedUnreferenced
<1>2. IInv /\ FreedUnreferenced /\ [Next]_vars /\ [~PublishLost]_vars => FreedUnreferenced'
  <2> SUFFICES ASSUME IInv, FreedUnreferenced, [Next]_vars, [~PublishLost]_vars
               PROVE  FreedUnreferenced'
    OBVIOUS
  <2>1. CASE UNCHANGED vars
    BY <2>1 DEF vars, blockVars, FreedUnreferenced
  <2>2. CASE ~PublishLost
    BY <2>2, FreedStep
  <2> QED BY <2>1, <2>2
<1> QED BY <1>1, <1>2, Invariance, PTL DEF Spec

\* Between the calls the counters are those who count.
THEOREM CountersAgree == Spec => []CountsAgree
<1>1. IInv => CountsAgree
  <2> SUFFICES ASSUME IInv, \A t \in Threads : At(t, "idle"), NEW b \in Blocks
               PROVE  LET owners == {p \in Strong : d[p] = b}
                          keepers == {p \in Pointers : d[p] = b}
                                     \cup {o \in Objects : Alive(o) /\ sharedRefcount[o] = b}
                      IN  /\ state[b] = "used" <=> keepers # {}
                          /\ state[b] = "used" => weakref[b] = Cardinality(keepers)
                          /\ target[b] \in Tracked => /\ strongref[b] = Cardinality(owners)
                                                      /\ Alive(target[b]) <=> owners # {}
    BY DEF CountsAgree
  <2>0. WeakAgrees(b) /\ StrongAgrees(b) /\ b # Null
    BY NullAssumption DEF IInv, WeakCounted, StrongCounted
  <2> DEFINE owners == {p \in Strong : d[p] = b}
             keepers == {p \in Pointers : d[p] = b}
                        \cup {o \in Objects : Alive(o) /\ sharedRefcount[o] = b}
  <2>1. \A t \in Threads : WeakHeld(t) = Null /\ StrongHeld(t) = Null
    BY DEF WeakHeld, StrongHeld, At
  <2>2. ~Private(b) /\ \A o \in Objects : ~Leaving(o) /\ ~Doomed(o)
    BY DEF Private, Leaving, Doomed, At
  <2>3. Keepers(b) = keepers /\ Owners(b) = owners
    BY <2>0, <2>1, <2>2 DEF Keepers, Owners, Keeps
  <2> HIDE DEF owners, keepers
  <2>4. owners \in SUBSET Tokens
    BY <2>3, HoldersAreTokens
  <2>5. Cardinality(owners) \in Nat /\ (Cardinality(owners) = 0 <=> owners = {})
    BY <2>4, TokensFinite, NoneCounted
  <2>6. target[b] \in Tracked => (Alive(target[b]) <=> owners # {})
    <3>1. ASSUME target[b] \in Tracked PROVE Alive(target[b]) <=> strongref[b] > 0
      BY <2>0, <2>2, <3>1 DEF StrongAgrees, Tracked
    <3> QED BY <2>0, <2>3, <2>5, <3>1 DEF StrongAgrees
  <2> QED BY <2>0, <2>2, <2>3, <2>6 DEF WeakAgrees, StrongAgrees, owners, keepers
<1> QED BY <1>1, Invariance, PTL

-----------------------------------------------------------------------------
(* Who owns what.                                                          *)

\* The block that pointer or thread a has a strong reference to.
Held(a) == IF a \in Threads THEN StrongHeld(a) ELSE d[a]

LEMMA OwnsAre ==
  ASSUME IInv
  PROVE  \A a \in Strong \cup Threads :
           /\ Owns[a] = IF Held(a) = Null THEN Null ELSE target[Held(a)]
           /\ Held(a) # Null => /\ Held(a) \in Blocks /\ a \in Owners(Held(a))
                                /\ Owns[a] \in Tracked /\ Alive(Owns[a])
<1>0. TypeOK /\ Arguments /\ Targets /\ StrongCounted
  BY DEF IInv
<1> SUFFICES ASSUME NEW a \in Strong \cup Threads
             PROVE  /\ Owns[a] = IF Held(a) = Null THEN Null ELSE target[Held(a)]
                    /\ Held(a) # Null => /\ Held(a) \in Blocks /\ a \in Owners(Held(a))
                                         /\ Owns[a] \in Tracked /\ Alive(Owns[a])
  OBVIOUS
<1>1. Owns[a] = IF Held(a) = Null THEN Null ELSE target[Held(a)]
  <2>1. CASE a \in Threads
    <3>1. Owns[a] = InHand(a)
      BY <2>1 DEF Owns
    <3>2. call[a].at \in {"promoteWeak", "derefStrong"} => call[a].b # Null
      BY <1>0, <2>1 DEF Arguments, ArgumentsOf
    <3> QED BY <2>1, <3>1, <3>2 DEF InHand, Held, StrongHeld
  <2>2. CASE a \notin Threads
    BY <2>2 DEF Owns, Held
  <2> QED BY <2>1, <2>2
<1>2. ASSUME Held(a) # Null PROVE Held(a) \in Blocks /\ a \in Owners(Held(a))
  BY <1>0, <1>2, HoldersKeep DEF Held
<1> QED BY <1>0, <1>1, <1>2, Owned

\* The object that a pointer or a thread has a part in is alive, whatever the others let go.
THEOREM OwnedStaysAlive == Spec => []OwnedIsAlive
<1>1. IInv => OwnedIsAlive
  BY OwnsAre DEF OwnedIsAlive
<1> QED BY <1>1, Invariance, PTL

\* What a or another one held before is about the same object after the step.
LEMMA OwnsChange ==
  ASSUME IInv, IInv', NEW t \in Threads, Call(t) \/ Step(t)
  PROVE  /\ \A a, b \in Strong \cup Threads : Held(a)' = Held(b) => Owns'[a] = Owns[b]
         /\ \A a \in Strong \cup Threads : Held(a)' = Null => Owns'[a] = Null
         /\ \A u \in Threads : u # t => Held(u)' = Held(u)
         /\ \A p \in Strong : Held(p) = d[p] /\ Held(p)' = d'[p]
         /\ Held(t) = StrongHeld(t) /\ Held(t)' = StrongHeld(t)'
         /\ \A a \in Strong \cup Threads : Owns[a] = Null <=> Held(a) = Null
<1>0. TypeOK /\ Arguments /\ Targets
  BY DEF IInv
<1>1. \A a \in Strong \cup Threads :
        Owns'[a] = IF Held(a)' = Null THEN Null ELSE target'[Held(a)']
  <2> SUFFICES ASSUME NEW a \in Strong \cup Threads
               PROVE  Owns'[a] = IF Held(a)' = Null THEN Null ELSE target'[Held(a)']
    OBVIOUS
  <2>1. CASE a \in Threads
    <3>1. Owns'[a] = InHand(a)'
      BY <2>1 DEF Owns
    <3>2. call'[a].at \in {"promoteWeak", "derefStrong"} => call'[a].b # Null
      BY <2>1 DEF IInv, Arguments, ArgumentsOf
    <3> QED BY <2>1, <3>1, <3>2 DEF InHand, Held, StrongHeld
  <2>2. CASE a \notin Threads
    BY <2>2 DEF Owns, Held
  <2> QED BY <2>1, <2>2
<1>2. ASSUME NEW a \in Strong \cup Threads, NEW b \in Strong \cup Threads, Held(a)' = Held(b)
      PROVE  Owns'[a] = Owns[b]
  <2>1. CASE Held(b) = Null
    BY <1>1, <1>2, <2>1, OwnsAre
  <2>2. CASE Held(b) # Null
    <3>1. Held(b) \in Blocks /\ Owns[b] = target[Held(b)] /\ Owns[b] \in Tracked
      BY <2>2, OwnsAre
    <3>2. state[Held(b)] # "new"
      BY <1>0, <3>1, NullAssumption DEF Targets, Tracked
    <3>3. target'[Held(b)] = target[Held(b)]
      BY <1>0, <3>1, <3>2, TargetsKept
    <3> QED BY <1>1, <1>2, <2>2, <3>1, <3>3
  <2> QED BY <2>1, <2>2
<1>3. \A u \in Threads : u # t => Held(u)' = Held(u)
  BY <1>0, OthersKept DEF Held, StrongHeld
<1>4. \A p \in Strong : Held(p) = d[p] /\ Held(p)' = d'[p]
  BY PointersAssumption DEF Held
<1>5. Held(t) = StrongHeld(t) /\ Held(t)' = StrongHeld(t)'
  BY DEF Held
<1>6. \A a \in Strong \cup Threads : Owns[a] = Null <=> Held(a) = Null
  BY OwnsAre, NullAssumption DEF Tracked
<1> QED BY <1>1, <1>2, <1>3, <1>4, <1>5, <1>6

\* The types of the refinement mapping.
LivesOfTracked == [o \in Tracked |-> life[o]]

LEMMA OwnsFunctions ==
  /\ Owns = [a \in Strong \cup Threads |-> Owns[a]] /\ Owns' = [a \in Strong \cup Threads |-> Owns'[a]]
  BY DEF Owns

\* Every step of a thread takes, exchanges, drops or deletes what Ownership allows, or nothing.
LEMMA OwnershipStep ==
  ASSUME IInv, IInv', NEW t \in Threads, Call(t) \/ Step(t)
  PROVE  O!Next \/ UNCHANGED <<Owns, LivesOfTracked>>
<1>0. TypeOK /\ Arguments /\ Uses /\ Deletes /\ Targets /\ WeakCounted /\ StrongCounted
  BY DEF IInv
<1> USE <1>0
<1>a. t \notin Strong /\ t \in Strong \cup Threads /\ \A p \in Strong : p \notin Threads
  BY PointersAssumption
\* Nobody lets go or takes part.
<1>b. ASSUME \A p \in Strong : d'[p] = d[p], StrongHeld(t)' = StrongHeld(t)
      PROVE  Owns' = Owns
  <2>1. \A a \in Strong \cup Threads : Held(a)' = Held(a)
    BY <1>b, OwnsChange
  <2>2. \A a \in Strong \cup Threads : Owns'[a] = Owns[a]
    BY <2>1, OwnsChange
  <2> QED BY <2>2, OwnsFunctions
\* Two owners change places.
<1>c. ASSUME NEW a \in Strong \cup Threads, NEW b \in Strong \cup Threads, a # b,
             Held(a)' = Held(b), Held(b)' = Held(a),
             \A v \in Strong \cup Threads : v # a /\ v # b => Held(v)' = Held(v),
             UNCHANGED life
      PROVE  O!Next
  <2>1. \A v \in Strong \cup Threads :
          Owns'[v] = IF v = a THEN Owns[b] ELSE IF v = b THEN Owns[a] ELSE Owns[v]
    BY <1>c, OwnsChange
  <2>2. Owns' = [Owns EXCEPT ![a] = Owns[b], ![b] = Owns[a]]
    BY <1>c, <2>1, OwnsFunctions
  <2>3. O!Exchange(a, b)
    BY <1>c, <2>2 DEF O!Exchange
  <2> QED BY <2>3 DEF O!Next
\* The thread takes part in what another one owns.
<1>d. ASSUME NEW b \in Strong \cup Threads, Held(t) = Null, Held(b) # Null, Held(t)' = Held(b),
             d' = d, UNCHANGED life
      PROVE  O!Next
  <2>1. \A v \in Strong \cup Threads : v # t => Held(v)' = Held(v)
    BY <1>d, OwnsChange
  <2>2. \A v \in Strong \cup Threads : Owns'[v] = IF v = t THEN Owns[b] ELSE Owns[v]
    BY <1>d, <2>1, OwnsChange
  <2>3. Owns' = [Owns EXCEPT ![t] = Owns[b]] /\ Owns[t] = Null /\ Owns[b] # Null
    BY <1>a, <1>d, <2>2, OwnsFunctions, OwnsChange
  <2>4. O!Take(t, b)
    BY <1>d, <2>3 DEF O!Take
  <2> QED BY <1>a, <2>4 DEF O!Next
<1>1. ASSUME NEW p \in Strong, NEW o \in Objects, Create(t, p, o) PROVE O!Next
  <2>1. /\ o \in Tracked /\ life[o] = "unborn" /\ life' = [life EXCEPT ![o] = "alive"]
        /\ d[p] = Null /\ d' = [d EXCEPT ![p] = Fresh] /\ target' = [target EXCEPT ![Fresh] = o]
        /\ UNCHANGED call /\ Fresh \in Blocks
    BY <1>1, FreshBlock DEF Create, Tracked
  <2>2. Held(p)' = Fresh /\ Held(p) = Null /\ Fresh # Null
    BY <2>1, OwnsChange, NullAssumption DEF TypeOK, Pointers
  <2>3. \A v \in Strong \cup Threads : v # p => Held(v)' = Held(v)
    BY <2>1 DEF Held, StrongHeld, TypeOK, Pointers
  <2>4. Owns'[p] = o
    <3>1. d'[p] = Fresh /\ target'[Fresh] = o
      BY <2>1 DEF TypeOK, Pointers
    <3> QED BY <1>a, <2>2, <3>1 DEF Owns
  <2>5. \A v \in Strong \cup Threads : Owns'[v] = IF v = p THEN o ELSE Owns[v]
    BY <2>3, <2>4, OwnsChange
  <2>6. Owns' = [Owns EXCEPT ![p] = o] /\ Owns[p] = Null
    BY <2>2, <2>5, OwnsFunctions, OwnsChange
  <2>7. LivesOfTracked' = [LivesOfTracked EXCEPT ![o] = "alive"] /\ LivesOfTracked[o] = "unborn"
    BY <2>1 DEF LivesOfTracked, TypeOK, Tracked
  <2>8. O!Make(p, o)
    BY <2>6, <2>7 DEF O!Make, LivesOfTracked
  <2> QED BY <2>1, <2>8 DEF O!Next
<1>2. ASSUME NEW p \in Strong, NEW q \in Strong, p # q, Swap(t, p, q) PROVE O!Next
  <2>1. d' = [d EXCEPT ![p] = d[q], ![q] = d[p]] /\ UNCHANGED <<life, call>>
    BY <1>2 DEF Swap
  <2>2. Held(p)' = Held(q) /\ Held(q)' = Held(p)
    BY <1>2, <2>1, OwnsChange DEF TypeOK, Pointers
  <2>3. \A v \in Strong \cup Threads : v # p /\ v # q => Held(v)' = Held(v)
    BY <2>1 DEF Held, StrongHeld, TypeOK, Pointers
  <2> QED BY <1>2, <1>c, <2>1, <2>2, <2>3
\* A pointer and the thread change places.
<1>3. ASSUME NEW p \in Strong, d' = [d EXCEPT ![p] = StrongHeld(t)], StrongHeld(t)' = d[p],
             UNCHANGED life
      PROVE  O!Next
  <2>1. Held(p)' = Held(t) /\ Held(t)' = Held(p)
    BY <1>3, OwnsChange DEF TypeOK, Pointers
  <2>2. \A v \in Strong \cup Threads : v # p /\ v # t => Held(v)' = Held(v)
    <3>1. \A u \in Threads : u # t => Held(u)' = Held(u)
      BY OwnsChange
    <3>2. \A q \in Strong : q # p => d'[q] = d[q]
      BY <1>3 DEF TypeOK, Pointers
    <3>3. \A q \in Strong : q # p => Held(q)' = Held(q)
      BY <3>2, OwnsChange
    <3> QED BY <3>1, <3>3
  <2> QED BY <1>3, <1>a, <1>c, <2>1, <2>2
<1>4. ASSUME NEW p \in Pointers, Clear(t, p) PROVE O!Next \/ UNCHANGED <<Owns, LivesOfTracked>>
  <2>1. /\ d' = [d EXCEPT ![p] = Null] /\ UNCHANGED life /\ StrongHeld(t) = Null
        /\ StrongHeld(t)' = IF p \in Strong THEN d[p] ELSE Null
    BY <1>4, CallsBegin DEF Clear, StrongHeld, After
  <2>2. CASE p \in Strong
    BY <1>3, <2>1, <2>2
  <2>3. CASE p \notin Strong
    BY <1>b, <2>1, <2>3 DEF TypeOK, Pointers, LivesOfTracked
  <2> QED BY <2>2, <2>3
<1>5. ASSUME Call(t), UNCHANGED <<d, life>> PROVE UNCHANGED <<Owns, LivesOfTracked>>
  <2>1. call[t].at = "idle"
    BY <1>5, CallsBegin DEF Call
  <2>2. \A p \in Strong, o \in Objects : ~Create(t, p, o)
    BY <1>5 DEF Create, TypeOK
  <2>3. StrongHeld(t)' = StrongHeld(t)
    <3>1. CASE UNCHANGED call
      BY <2>1, <3>1 DEF StrongHeld
    <3>2. ASSUME NEW p \in Pointers, Clear(t, p) PROVE FALSE
      BY <1>5, <3>2 DEF Clear, TypeOK
    <3> QED BY <1>5, <2>1, <2>2, <3>1, <3>2, CallsBegin DEF Call, StrongHeld, After
  <2> QED BY <1>5, <1>b, <2>3 DEF LivesOfTracked
<1>6. CASE Call(t)
  <2>1. ASSUME NEW p \in Strong, NEW q \in Strong \ {p}, Swap(t, p, q) PROVE O!Next
    BY <1>2, <2>1
  <2> QED BY <1>1, <1>4, <1>5, <1>6, <2>1
             DEF Call, Copy, Promote, HandOver, Weaken, WeakOf, DeleteObject, blockVars
<1>7. CASE \/ RefWeak(t) \/ ReadStrong(t) \/ PromoteWeak(t) \/ WeakRef(t) \/ Publish(t)
           \/ LeaveObject(t) \/ DerefWeak(t) \/ WeakSet(t) \/ Allocate(t)
  <2>1. life' = life /\ \A p \in Strong : d'[p] = d[p]
    <3>1. CASE ~WeakSet(t)
      BY <1>7, <3>1 DEF RefWeak, ReadStrong, PromoteWeak, WeakRef, Publish, LeaveObject, DerefWeak,
         Allocate, Deref, blockVars
    <3>2. CASE WeakSet(t)
      <4>1. call[t].p \notin Strong
        BY <3>2, PointersAssumption DEF WeakSet, At, Arguments, ArgumentsOf
      <4> QED BY <3>2, <4>1 DEF WeakSet, Deref, TypeOK, Pointers
    <3> QED BY <3>1, <3>2
  <2>2. CASE ~ReadStrong(t)
    <3>1. StrongHeld(t)' = StrongHeld(t)
      BY <1>7, <2>2, CallsGoOn DEF StrongHeld, After
    <3> QED BY <1>b, <2>1, <3>1 DEF LivesOfTracked
  <2>3. CASE ReadStrong(t)
    <3>1. StrongHeld(t)' = Null /\ StrongHeld(t) = Null
      BY <2>3, CallsGoOn DEF StrongHeld, After
    <3> QED BY <1>b, <2>1, <3>1 DEF LivesOfTracked
  <2> QED BY <2>2, <2>3
<1>8. CASE RefStrong(t)
  <2>1. /\ UNCHANGED <<d, life>> /\ StrongHeld(t) = Null /\ StrongHeld(t)' = call[t].b
        /\ call[t].at = "refStrong"
    BY <1>8, CallsGoOn DEF RefStrong, StrongHeld, After
  <2>2. PICK q \in Strong : d[q] = call[t].b
    BY <2>1 DEF Arguments, ArgumentsOf
  <2>3. call[t].b # Null
    BY <2>1 DEF Arguments, ArgumentsOf
  <2>4. Held(t) = Null /\ Held(q) # Null /\ Held(t)' = Held(q)
    BY <2>1, <2>2, <2>3, OwnsChange
  <2> QED BY <1>d, <2>1, <2>4
<1>9. CASE TestAndSetStrong(t)
  <2> DEFINE b == call[t].b
  <2>1. /\ UNCHANGED <<d, life>> /\ StrongHeld(t) = Null /\ call[t].at = "cas"
        /\ call[t].strong > 0 /\ b \in Blocks /\ \E p \in Pointers : d[p] = b
    BY <1>9 DEF TestAndSetStrong, StrongHeld, At, Arguments, ArgumentsOf, TypeOK
  <2>2. CASE StrongHeld(t)' = Null
    BY <1>b, <2>1, <2>2 DEF LivesOfTracked
  <2>3. CASE StrongHeld(t)' # Null
    <3>1. StrongHeld(t)' = b /\ strongref[b] > 0
      BY <1>9, <2>1, <2>3, CallsGoOn DEF After, StrongHeld
    <3>2. state[b] = "used"
      BY <2>1, KeepersAre, Kept
    <3>3. target[b] \in Tracked
      BY <2>1, <3>1, <3>2 DEF StrongCounted, StrongAgrees, Targets, TypeOK, Tracked
    <3>4. strongref[b] = Cardinality(Owners(b))
      BY <2>1, <3>3 DEF StrongCounted, StrongAgrees
    <3>5. PICK a : a \in Owners(b)
      <4>1. Owners(b) = {} => Cardinality(Owners(b)) = 0
        BY NoneCounted
      <4> QED BY <3>1, <3>4, <4>1
    <3>6. a \in Strong \cup Threads /\ Held(a) = b /\ b # Null
      BY <1>a, <2>1, <3>5, OwnersAre, NullAssumption DEF Held
    <3>7. Held(t) = Null /\ Held(t)' = Held(a)
      BY <2>1, <3>1, <3>6, OwnsChange
    <3> QED BY <1>d, <2>1, <3>6, <3>7
  <2> QED BY <2>2, <2>3
<1>10. CASE SwapIn(t)
  <2>1. /\ call[t].p \in Strong /\ d' = [d EXCEPT ![call[t].p] = StrongHeld(t)]
        /\ UNCHANGED life /\ StrongHeld(t)' = d[call[t].p]
    BY <1>10, CallsGoOn DEF SwapIn, At, Arguments, ArgumentsOf, StrongHeld, After
  <2> QED BY <1>3, <2>1
<1>11. CASE DerefStrong(t)
  <2>1. UNCHANGED <<d, life>> /\ StrongHeld(t)' = Null
    BY <1>11, CallsGoOn DEF DerefStrong, StrongHeld, After
  <2>2. \A v \in Strong \cup Threads : v # t => Held(v)' = Held(v)
    BY <2>1, OwnsChange
  <2>3. \A v \in Strong \cup Threads : Owns'[v] = IF v = t THEN Null ELSE Owns[v]
    BY <2>1, <2>2, OwnsChange
  <2>4. Owns' = [Owns EXCEPT ![t] = Null]
    BY <1>a, <2>3, OwnsFunctions
  <2>5. O!Drop(t)
    BY <2>1, <2>4 DEF O!Drop
  <2> QED BY <1>a, <2>5 DEF O!Next
<1>12. CASE Destroy(t)
  <2> DEFINE o == call[t].o
  <2>1. /\ call[t].at = "destroy" /\ o \in Objects /\ Alive(o)
        /\ life' = [life EXCEPT ![o] = "deleted"] /\ d' = d
    BY <1>12 DEF Destroy, At, Deletes, DeletesOf
  <2>2. StrongHeld(t)' = StrongHeld(t)
    BY <1>12, CallsGoOn DEF StrongHeld, After
  <2>3. Owns' = Owns
    BY <1>b, <2>1, <2>2
  <2>4. CASE o \in Tracked
    <3>1. ASSUME NEW a \in Strong \cup Threads, Owns[a] = o PROVE FALSE
      <4>1. Held(a) \in Blocks /\ a \in Owners(Held(a)) /\ target[Held(a)] = o
        BY <2>4, <3>1, OwnsAre, NullAssumption DEF Tracked
      <4> QED BY <2>1, <4>1, NotDoomed
    <3>2. PICK v \in Tracked : v = o
      BY <2>4
    <3>3. LivesOfTracked' = [LivesOfTracked EXCEPT ![v] = "deleted"] /\ LivesOfTracked[v] = "alive"
      BY <2>1, <3>2 DEF LivesOfTracked, TypeOK, Alive, Tracked
    <3>4. O!Delete(v)
      BY <2>3, <3>1, <3>2, <3>3 DEF O!Delete, O!Owned, LivesOfTracked
    <3> QED BY <3>4 DEF O!Next
  <2>5. CASE o \notin Tracked
    <3>1. LivesOfTracked' = LivesOfTracked
      BY <2>1, <2>5 DEF LivesOfTracked, TypeOK
    <3> QED BY <2>3, <3>1
  <2> QED BY <2>4, <2>5
<1> QED BY <1>6, <1>7, <1>8, <1>9, <1>10, <1>11, <1>12 DEF Step

\* The counters implement Ownership: all of ImplementsOwnership but that what nobody owns is
\* deleted in the end.
THEOREM ImplementsOwnershipSafely == Spec => O!Init /\ [][O!Next]_(O!vars)
<1>1. Init => O!Init
  <2> SUFFICES ASSUME Init PROVE O!Init
    OBVIOUS
  <2>1. \A a \in Strong \cup Threads : Owns[a] = Null
    BY PointersAssumption DEF Init, Owns, InHand, Idle, Pointers
  <2>2. Owns \in [Strong \cup Threads -> Tracked \cup {Null}]
    BY <2>1, OwnsFunctions
  <2>3. \A o \in Tracked : life[o] = "unborn" /\ o # Null
    BY NullAssumption DEF Init, Tracked
  <2> QED BY <2>1, <2>2, <2>3 DEF O!Init, O!Owned
<1>2. IInv /\ IInv' /\ [Next]_vars => [O!Next]_(O!vars)
  <2> SUFFICES ASSUME IInv, IInv', [Next]_vars PROVE [O!Next]_(O!vars)
    OBVIOUS
  <2>1. CASE UNCHANGED vars
    BY <2>1 DEF vars, blockVars, O!vars, Owns, InHand
  <2>2. ASSUME NEW t \in Threads, Call(t) \/ Step(t) PROVE [O!Next]_(O!vars)
    BY <2>2, OwnershipStep DEF O!vars, LivesOfTracked
  <2> QED BY <2>1, <2>2 DEF Next
<1> QED BY <1>1, <1>2, Invariance, PTL DEF Spec
=============================================================================
