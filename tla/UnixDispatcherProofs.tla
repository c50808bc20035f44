------------------------- MODULE UnixDispatcherProofs -------------------------
(***************************************************************************)
(* Theorems about UnixDispatcher, for any number of timers, objects and     *)
(* notifiers, any intervals and any depth of nested calls of processEvents. *)
(* IInv, the inductive invariant, says in what order the lists of timers    *)
(* and of notifiers are and that each element is there once, which call     *)
(* delivers which timer, and that whoever owns a registered timer lives.    *)
(* Two of its parts are properties of the runs: SleepsUntilNextTimer and    *)
(* WatchesEveryNotifier.                                                    *)
(***************************************************************************)
EXTENDS UnixDispatcher, FiniteSetTheorems, SequenceTheorems, TLAPS

-----------------------------------------------------------------------------
(* The inductive invariant.                                                *)

\* The order of a list by a key.
Rising(q, key) == \A i, j \in DOMAIN q : i < j => key[q[i]] <= key[q[j]]
Low == [n \in Notifiers |-> -Fd[n]]

FrameT == [at : {"select", "sockets", "slot", "timers", "timerEvent"}, until : Nat,
           cur : 0..MaxTimers, time : Nat, left : Int, to : Notifiers \cup Objects \cup {Nobody}]

TimersTyped ==
  /\ list \in Seq(Timers)
  /\ timeout \in [Timers -> Nat] /\ interval \in [Timers -> Nat]
  /\ owner \in [Timers -> Objects \cup {Nobody}]
  /\ activateRef \in [Timers -> 0..MaxDepth]
  /\ firstTimer \in 0..MaxTimers /\ now \in Nat

NotifiersTyped ==
  /\ lists \in [0..2 -> Seq(Notifiers)] /\ pending \in Seq(Notifiers)
  /\ queued \subseteq Notifiers /\ watched \subseteq Notifiers /\ highest \in Int

CallsTyped == stack \in Seq(FrameT) /\ Len(stack) <= MaxDepth /\ living \subseteq Objects

\* The list of timers is in the order of their timeouts, each once, and has the first that
\* was sent.
Ordered ==
  /\ IsInjective(list) /\ Rising(list, timeout)
  /\ firstTimer # 0 => Registered(firstTimer)

Owned == \A t \in ToSet(list) : owner[t] \in living

\* A call and the timer it delivers point to each other; calls further out are in user code.
Linked ==
  /\ \A i \in DOMAIN stack : stack[i].cur # 0 =>
       /\ Registered(stack[i].cur) /\ activateRef[stack[i].cur] = i
       /\ stack[i].at = "timerEvent"
  /\ \A t \in ToSet(list) : activateRef[t] # 0 =>
       activateRef[t] \in DOMAIN stack /\ stack[activateRef[t]].cur = t
  /\ \A i \in DOMAIN stack : i # Depth => stack[i].at \in {"slot", "timerEvent"}

\* The lists of notifiers fall from high to low descriptors, and have those of their type once.
Listed ==
  \A y \in 0..2 :
    /\ IsInjective(lists[y]) /\ Rising(lists[y], Low)
    /\ \A n \in ToSet(lists[y]) : Type[n] = y

TimersInv == TimersTyped /\ Ordered
NotifiersInv ==
  NotifiersTyped /\ Listed /\ WatchesEveryNotifier /\ \A n \in ToSet(pending) : Enabled(n)

IInv ==
  TimersInv /\ NotifiersInv /\ CallsTyped /\ Owned /\ Linked /\ SleepsUntilNextTimer

-----------------------------------------------------------------------------
(* Lists.                                                                  *)

\* The number of the places of S up to k.
Rank(S, k) == Cardinality({j \in S : j <= k})

\* A list m has only elements of the list q, in their order.
Embeds(m, q) ==
  \E f \in [DOMAIN m -> DOMAIN q] :
     /\ \A i \in DOMAIN m : m[i] = q[f[i]]
     /\ \A i, j \in DOMAIN m : i < j => f[i] < f[j]

\* A list as a function on its places.
LEMMA ListIs ==
  ASSUME NEW D, NEW q \in Seq(D)
  PROVE  /\ Len(q) \in Nat /\ DOMAIN q = 1..Len(q)
         /\ \A i \in DOMAIN q : q[i] \in D /\ q[i] \in ToSet(q)
         /\ ToSet(q) \subseteq D
         /\ \A x \in ToSet(q) : \E i \in DOMAIN q : q[i] = x
         /\ q = <<>> <=> ToSet(q) = {}
         /\ q # <<>> => Len(q) >= 1 /\ Head(q) = q[1] /\ 1 \in DOMAIN q /\ Len(q) \in DOMAIN q
<1>1. /\ Len(q) \in Nat /\ DOMAIN q = 1..Len(q) /\ \A i \in DOMAIN q : q[i] \in D
      /\ q # <<>> => Len(q) >= 1 /\ Head(q) = q[1]
  BY LenProperties, EmptySeq
<1>2. q = <<>> => DOMAIN q = {}
  BY <1>1
<1>3. q # <<>> => 1 \in DOMAIN q /\ Len(q) \in DOMAIN q
  BY <1>1
<1> QED BY <1>1, <1>2, <1>3 DEF ToSet

\* The ranks of a set of places: each place has one, and they are all used.
LEMMA Ranks ==
  ASSUME NEW n \in Nat, NEW S \in SUBSET (1..n)
  PROVE  /\ Cardinality(S) \in Nat
         /\ \A k \in S : Rank(S, k) \in 1..Cardinality(S)
         /\ \A j, k \in S : j < k => Rank(S, j) < Rank(S, k)
         /\ \A i \in 1..Cardinality(S) : \E k \in S : Rank(S, k) = i
<1> DEFINE upTo(k) == {j \in S : j <= k}
<1>0. \A k \in S : k \in Nat
  OBVIOUS
<1>1. IsFiniteSet(S) /\ Cardinality(S) \in Nat
  <2>1. 1 \in Int /\ n \in Int
    OBVIOUS
  <2>2. IsFiniteSet(1..n)
    BY <2>1, FS_Interval
  <2> QED BY <2>2, FS_Subset, FS_CardinalityType
<1>2. ASSUME NEW k \in S
      PROVE  /\ IsFiniteSet(upTo(k)) /\ Cardinality(upTo(k)) \in Nat
             /\ Cardinality(upTo(k)) <= Cardinality(S) /\ Cardinality(upTo(k)) # 0
  <2>1. IsFiniteSet(upTo(k)) /\ Cardinality(upTo(k)) <= Cardinality(S)
    BY <1>1, FS_Subset
  <2>2. k \in upTo(k)
    OBVIOUS
  <2> HIDE DEF upTo
  <2> QED BY <2>1, <2>2, FS_CardinalityType, FS_EmptySet
<1>3. ASSUME NEW j \in S, NEW k \in S, j < k
      PROVE  Cardinality(upTo(j)) < Cardinality(upTo(k))
  <2>1. upTo(j) \cup {k} \subseteq upTo(k) /\ k \notin upTo(j)
    <3>0. j \in Nat /\ k \in Nat
      BY <1>0
    <3>1. \A i \in S : i <= j => i <= k
      BY <1>0, <1>3, <3>0
    <3>2. ~(k <= j) /\ k <= k
      BY <1>3, <3>0
    <3> QED BY <3>1, <3>2
  <2> HIDE DEF upTo
  <2>2. Cardinality(upTo(j) \cup {k}) = Cardinality(upTo(j)) + 1
    BY <2>1, <1>2, FS_AddElement
  <2>3. Cardinality(upTo(j) \cup {k}) <= Cardinality(upTo(k))
    BY <2>1, <1>2, FS_Subset
  <2> QED BY <2>2, <2>3, <1>2
<1> DEFINE c == Cardinality(S)
           rank == [k \in S |-> Cardinality(upTo(k))]
<1>4. rank \in Injection(S, 1..c)
  <2>1. rank \in [S -> 1..c]
    <3> SUFFICES ASSUME NEW k \in S PROVE Cardinality(upTo(k)) \in 1..c
      OBVIOUS
    <3> QED BY <1>1, <1>2
  <2>2. ASSUME NEW j \in S, NEW k \in S, rank[j] = rank[k] PROVE j = k
    <3>1. j < k \/ k < j \/ j = k
      BY <1>0
    <3>2. Cardinality(upTo(j)) = Cardinality(upTo(k)) /\ Cardinality(upTo(j)) \in Nat
      BY <2>2, <1>2
    <3> QED BY <3>1, <3>2, <1>3
  <2> QED BY <2>1, <2>2 DEF Injection, IsInjective
<1>5. IsFiniteSet(1..c) /\ Cardinality(1..c) = c
  BY <1>1, FS_Interval
<1>6. rank \in Surjection(S, 1..c)
  BY <1>4, <1>5, FS_Injection
<1>7. \A i \in 1..c : \E k \in S : Cardinality(upTo(k)) = i
  BY <1>6 DEF Surjection
<1>8. \A k \in S : Cardinality(upTo(k)) \in 1..Cardinality(S)
  BY <1>1, <1>2
<1> QED BY <1>1, <1>2, <1>3, <1>7, <1>8 DEF Rank

\* Sublist keeps what is in K, each element as often as it was there, in the same order.
LEMMA SublistIs ==
  ASSUME NEW D, NEW q \in Seq(D), NEW K
  PROVE  /\ Sublist(q, K) \in Seq(D)
         /\ ToSet(Sublist(q, K)) = ToSet(q) \cap K
         /\ Embeds(Sublist(q, K), q)
<1> DEFINE kept == {i \in DOMAIN q : q[i] \in K}
           n == Cardinality(kept)
           f == [i \in 1..n |-> CHOOSE k \in kept : Rank(kept, k) = i]
           m == Sublist(q, K)
<1>0. Len(q) \in Nat /\ DOMAIN q = 1..Len(q) /\ \A i \in DOMAIN q : q[i] \in D
  BY ListIs
<1>1. m = [i \in 1..n |-> q[CHOOSE k \in kept : Rank(kept, k) = i]]
  BY DEF Sublist, Rank
<1>2. /\ kept \in SUBSET (1..Len(q))
      /\ \A k \in kept : k \in Int /\ k \in DOMAIN q /\ q[k] \in K /\ q[k] \in D
      /\ \A k \in DOMAIN q : q[k] \in K => k \in kept
  BY <1>0
<1> HIDE DEF kept, m
<1>4. /\ n \in Nat
      /\ \A k \in kept : Rank(kept, k) \in 1..n
      /\ \A j, k \in kept : j < k => Rank(kept, j) < Rank(kept, k)
      /\ \A i \in 1..n : \E k \in kept : Rank(kept, k) = i
  BY <1>0, <1>2, Ranks
<1>5. ASSUME NEW i \in 1..n
      PROVE  f[i] \in kept /\ Rank(kept, f[i]) = i /\ m[i] = q[f[i]]
  <2>1. f[i] \in kept /\ Rank(kept, f[i]) = i
    BY <1>4
  <2> QED BY <2>1, <1>1
<1>6. DOMAIN f = 1..n /\ f = [i \in 1..n |-> f[i]] /\ DOMAIN m = 1..n
  BY <1>1
<1> HIDE DEF f
<1>7. m \in Seq(D)
  <2>1. m = [i \in 1..n |-> q[CHOOSE k \in kept : Rank(kept, k) = i]]
    BY <1>1
  <2>2. \A i \in 1..n : m[i] \in D
    BY <1>5, <1>2
  <2> HIDE DEF n
  <2>3. m \in [1..n -> D]
    BY <2>1, <2>2
  <2> QED BY <2>3, <1>4, SeqDef
<1>8. ASSUME NEW i \in 1..n, NEW j \in 1..n, i < j PROVE f[i] < f[j]
  <2>1. f[i] \in Int /\ f[j] \in Int /\ Rank(kept, f[i]) = i /\ Rank(kept, f[j]) = j
    BY <1>5, <1>2
  <2>2. CASE f[j] < f[i]
    <3>1. j < i
      BY <2>1, <2>2, <1>4, <1>5
    <3> QED BY <3>1, <1>8, <1>4
  <2>3. CASE f[i] = f[j]
    BY <2>1, <2>3, <1>8, <1>4
  <2> QED BY <2>1, <2>2, <2>3
<1>9. ToSet(m) = ToSet(q) \cap K
  <2>1. ASSUME NEW x \in ToSet(m) PROVE x \in ToSet(q) \cap K
    <3>1. PICK i \in 1..n : m[i] = x
      BY <1>6 DEF ToSet
    <3>2. f[i] \in DOMAIN q /\ q[f[i]] \in K /\ q[f[i]] = x
      BY <3>1, <1>5, <1>2
    <3> QED BY <3>2 DEF ToSet
  <2>2. ASSUME NEW x \in ToSet(q) \cap K PROVE x \in ToSet(m)
    <3>1. PICK k \in DOMAIN q : q[k] = x
      BY DEF ToSet
    <3>2. k \in kept
      BY <3>1, <1>2
    <3>3. PICK i \in 1..n : i = Rank(kept, k)
      BY <3>2, <1>4
    <3>4. f[i] \in kept /\ Rank(kept, f[i]) = Rank(kept, k) /\ m[i] = q[f[i]]
      BY <3>3, <1>5
    <3>5. f[i] = k
      <4>1. f[i] < k \/ k < f[i] \/ f[i] = k
        BY <3>2, <3>4, <1>2
      <4>2. Rank(kept, k) \in Int
        BY <3>3, <1>4
      <4> QED BY <4>1, <4>2, <3>2, <3>4, <1>4
    <3> QED BY <3>1, <3>4, <3>5, <1>6 DEF ToSet
  <2> QED BY <2>1, <2>2
<1>10. Embeds(m, q)
  <2>1. \A i \in 1..n : f[i] \in DOMAIN q
    BY <1>5, <1>2
  <2> HIDE DEF n
  <2>2. f \in [1..n -> DOMAIN q]
    BY <2>1, <1>6
  <2> QED BY <2>2, <1>5, <1>6, <1>8 DEF Embeds
<1> QED BY <1>7, <1>9, <1>10 DEF m

\* Part of a list keeps its order, and has each element once if the list has.
LEMMA EmbedsKeeps ==
  ASSUME NEW D, NEW q \in Seq(D), NEW m \in Seq(D), Embeds(m, q)
  PROVE  /\ IsInjective(q) => IsInjective(m)
         /\ \A key : Rising(q, key) => Rising(m, key)
<1>1. PICK f \in [DOMAIN m -> DOMAIN q] :
        /\ \A i \in DOMAIN m : m[i] = q[f[i]]
        /\ \A i, j \in DOMAIN m : i < j => f[i] < f[j]
  BY DEF Embeds
<1>2. \A i \in DOMAIN m : i \in Int /\ f[i] \in DOMAIN q /\ f[i] \in Int
  <2>1. DOMAIN m = 1..Len(m) /\ DOMAIN q = 1..Len(q) /\ Len(m) \in Nat /\ Len(q) \in Nat
    BY ListIs
  <2> QED BY <2>1, <1>1
<1>3. ASSUME IsInjective(q) PROVE IsInjective(m)
  <2> SUFFICES ASSUME NEW i \in DOMAIN m, NEW j \in DOMAIN m, m[i] = m[j] PROVE i = j
    BY DEF IsInjective
  <2>1. f[i] = f[j]
    BY <1>1, <1>2, <1>3 DEF IsInjective
  <2>2. i < j \/ j < i \/ i = j
    BY <1>2
  <2>3. ~(i < j) /\ ~(j < i)
    BY <1>1, <1>2, <2>1
  <2> QED BY <2>2, <2>3
<1>4. ASSUME NEW key, Rising(q, key) PROVE Rising(m, key)
  BY <1>1, <1>2, <1>4 DEF Rising
<1> QED BY <1>3, <1>4

\* InsertAt, place by place.
LEMMA InsertedPlaces ==
  ASSUME NEW D, NEW q \in Seq(D), NEW i \in 1..(Len(q) + 1), NEW e \in D
  PROVE  /\ InsertAt(q, i, e) \in Seq(D)
         /\ Len(InsertAt(q, i, e)) = Len(q) + 1
         /\ \A k \in 1..(Len(q) + 1) :
              InsertAt(q, i, e)[k] = IF k < i THEN q[k] ELSE IF k = i THEN e ELSE q[k - 1]
<1> DEFINE a == SubSeq(q, 1, i - 1)
           b == SubSeq(q, i, Len(q))
<1>0. Len(q) \in Nat /\ DOMAIN q = 1..Len(q) /\ i \in Int /\ \A k \in 1..Len(q) : q[k] \in D
  BY LenProperties
<1>1. a \in Seq(D) /\ Len(a) = i - 1 /\ \A k \in 1..(i - 1) : a[k] = q[k]
  <2>1. \A k \in 1..(i - 1) : q[k] \in D
    BY <1>0
  <2>2. i - 1 \in Int
    BY <1>0
  <2>3. /\ SubSeq(q, 1, i - 1) \in Seq(D)
        /\ Len(SubSeq(q, 1, i - 1)) = IF 1 <= i - 1 THEN i - 1 - 1 + 1 ELSE 0
        /\ \A k \in 1..(i - 1 - 1 + 1) : SubSeq(q, 1, i - 1)[k] = q[1 + k - 1]
    BY <2>1, <2>2, SubSeqProperties
  <2> QED BY <2>3, <1>0
<1>2. b \in Seq(D) /\ Len(b) = Len(q) + 1 - i /\ \A k \in 1..Len(b) : b[k] = q[i + k - 1]
  <2>1. \A k \in i..Len(q) : q[k] \in D
    BY <1>0
  <2>3. /\ SubSeq(q, i, Len(q)) \in Seq(D)
        /\ Len(SubSeq(q, i, Len(q))) = IF i <= Len(q) THEN Len(q) - i + 1 ELSE 0
        /\ \A k \in 1..(Len(q) - i + 1) : SubSeq(q, i, Len(q))[k] = q[i + k - 1]
    BY <2>1, <1>0, SubSeqProperties
  <2> QED BY <2>3, <1>0
<1>3. <<e>> \in Seq(D) /\ Len(<<e>>) = 1 /\ <<e>>[1] = e
  OBVIOUS
<1> HIDE DEF a, b
<1>4. /\ a \o <<e>> \in Seq(D) /\ Len(a \o <<e>>) = i
      /\ \A k \in 1..i : (a \o <<e>>)[k] = IF k <= i - 1 THEN a[k] ELSE <<e>>[k - (i - 1)]
  <2>1. /\ a \o <<e>> \in Seq(D) /\ Len(a \o <<e>>) = Len(a) + Len(<<e>>)
        /\ \A k \in 1..(Len(a) + Len(<<e>>)) :
             (a \o <<e>>)[k] = IF k <= Len(a) THEN a[k] ELSE <<e>>[k - Len(a)]
    BY <1>1, <1>3, ConcatProperties
  <2> QED BY <2>1, <1>1, <1>3, <1>0
<1>5. /\ (a \o <<e>>) \o b \in Seq(D) /\ Len((a \o <<e>>) \o b) = i + Len(b)
      /\ \A k \in 1..(i + Len(b)) :
           ((a \o <<e>>) \o b)[k] = IF k <= i THEN (a \o <<e>>)[k] ELSE b[k - i]
  <2> DEFINE c == a \o <<e>>
  <2>1. c \in Seq(D) /\ Len(c) = i
    BY <1>4
  <2> HIDE DEF c
  <2>2. /\ c \o b \in Seq(D) /\ Len(c \o b) = Len(c) + Len(b)
        /\ \A k \in 1..(Len(c) + Len(b)) : (c \o b)[k] = IF k <= Len(c) THEN c[k] ELSE b[k - Len(c)]
    BY <2>1, <1>2, ConcatProperties
  <2> QED BY <2>1, <2>2 DEF c
<1>6. InsertAt(q, i, e) = (a \o <<e>>) \o b
  BY DEF InsertAt, a, b
<1>7. ASSUME NEW k \in 1..(Len(q) + 1)
      PROVE  InsertAt(q, i, e)[k] = IF k < i THEN q[k] ELSE IF k = i THEN e ELSE q[k - 1]
  <2>1. CASE k < i
    BY <2>1, <1>0, <1>1, <1>2, <1>4, <1>5, <1>6
  <2>2. CASE k = i
    BY <2>2, <1>0, <1>1, <1>2, <1>3, <1>4, <1>5, <1>6
  <2>3. CASE k > i
    <3>1. k - i \in 1..Len(b) /\ k \in 1..(i + Len(b))
      BY <2>3, <1>0, <1>2
    <3>2. b[k - i] = q[i + (k - i) - 1]
      BY <3>1, <1>2
    <3>3. InsertAt(q, i, e)[k] = b[k - i]
      BY <3>1, <2>3, <1>0, <1>5, <1>6
    <3>4. i + (k - i) - 1 = k - 1
      BY <1>0
    <3> QED BY <3>2, <3>3, <3>4, <2>3, <1>0
  <2> QED BY <2>1, <2>2, <2>3, <1>0
<1>8. InsertAt(q, i, e) \in Seq(D) /\ Len(InsertAt(q, i, e)) = Len(q) + 1
  <2>1. i + (Len(q) + 1 - i) = Len(q) + 1
    BY <1>0
  <2> QED BY <2>1, <1>2, <1>5, <1>6
<1> QED BY <1>7, <1>8

\* A list in which an element is inserted where it belongs stays in order.
LEMMA InsertIs ==
  ASSUME NEW D, NEW q \in Seq(D), NEW i \in 1..(Len(q) + 1), NEW e \in D
  PROVE  /\ InsertAt(q, i, e) \in Seq(D)
         /\ ToSet(InsertAt(q, i, e)) = ToSet(q) \cup {e}
         /\ IsInjective(q) /\ e \notin ToSet(q) => IsInjective(InsertAt(q, i, e))
         /\ \A key \in [D -> Int] :
              /\ Rising(q, key)
              /\ \A j \in DOMAIN q : IF j < i THEN key[q[j]] <= key[e] ELSE key[e] <= key[q[j]]
              => Rising(InsertAt(q, i, e), key)
<1>1. PICK m : m = InsertAt(q, i, e)
  OBVIOUS
<1>2. /\ m \in Seq(D) /\ Len(m) = Len(q) + 1
      /\ \A k \in 1..(Len(q) + 1) : m[k] = IF k < i THEN q[k] ELSE IF k = i THEN e ELSE q[k - 1]
  <2>1. /\ InsertAt(q, i, e) \in Seq(D) /\ Len(InsertAt(q, i, e)) = Len(q) + 1
        /\ \A k \in 1..(Len(q) + 1) :
             InsertAt(q, i, e)[k] = IF k < i THEN q[k] ELSE IF k = i THEN e ELSE q[k - 1]
    BY InsertedPlaces
  <2> QED BY <1>1, <2>1
<1>3. /\ Len(q) \in Nat /\ DOMAIN q = 1..Len(q) /\ DOMAIN m = 1..(Len(q) + 1) /\ i \in Int
      /\ \A j \in DOMAIN q : q[j] \in D
  <2>1. Len(q) \in Nat /\ DOMAIN q = 1..Len(q) /\ \A j \in DOMAIN q : q[j] \in D
    BY ListIs
  <2>2. DOMAIN m = 1..Len(m)
    BY <1>2, ListIs
  <2> QED BY <2>1, <2>2, <1>2
\* Where the places of m are from.
<1>4. ASSUME NEW k \in DOMAIN m
      PROVE  \/ k = i /\ m[k] = e
             \/ k < i /\ k \in DOMAIN q /\ m[k] = q[k]
             \/ k > i /\ k - 1 \in DOMAIN q /\ m[k] = q[k - 1] /\ ~(k - 1 < i)
  <2>1. k \in 1..(Len(q) + 1) /\ k \in Int
    BY <1>3
  <2>2. CASE k < i
    BY <2>1, <2>2, <1>2, <1>3
  <2>3. CASE k = i
    BY <2>1, <2>3, <1>2, <1>3
  <2>4. CASE k > i
    <3>1. k - 1 \in DOMAIN q /\ ~(k - 1 < i) /\ ~(k < i) /\ k # i
      BY <2>1, <2>4, <1>3
    <3> QED BY <2>1, <2>4, <3>1, <1>2
  <2> QED BY <2>1, <2>2, <2>3, <2>4, <1>3
<1>5. ToSet(m) = ToSet(q) \cup {e}
  <2>1. ASSUME NEW k \in DOMAIN m PROVE m[k] \in ToSet(q) \cup {e}
    BY <1>4, ListIs
  <2>2. ASSUME NEW j \in DOMAIN q PROVE \E k \in DOMAIN m : m[k] = q[j]
    <3>1. j \in 1..(Len(q) + 1) /\ j + 1 \in 1..(Len(q) + 1) /\ j \in Int
      BY <1>3
    <3>2. CASE j < i
      BY <3>1, <3>2, <1>2, <1>3
    <3>3. CASE ~(j < i)
      <4>1. ~(j + 1 < i) /\ j + 1 # i /\ j + 1 - 1 = j
        BY <3>1, <3>3, <1>3
      <4>2. m[j + 1] = q[j]
        BY <4>1, <3>1, <1>2
      <4> QED BY <4>2, <3>1, <1>3
    <3> QED BY <3>2, <3>3
  <2>3. i \in DOMAIN m /\ m[i] = e
    BY <1>2, <1>3
  <2> QED BY <2>1, <2>2, <2>3 DEF ToSet
<1>6. ASSUME IsInjective(q), e \notin ToSet(q) PROVE IsInjective(m)
  <2> SUFFICES ASSUME NEW j \in DOMAIN m, NEW k \in DOMAIN m, m[j] = m[k] PROVE j = k
    BY DEF IsInjective
  <2>1. \A n \in DOMAIN q : q[n] # e
    BY <1>6 DEF ToSet
  <2>2. i \in Int /\ j \in Int /\ k \in Int
    BY <1>3
  <2>3. \A a, b \in DOMAIN q : q[a] = q[b] => a = b
    BY <1>6 DEF IsInjective
  <2>4. CASE j = i \/ k = i
    BY <1>4, <2>1, <2>2, <2>4, <1>3
  <2>5. CASE j # i /\ k # i
    <3>1. (j < i \/ j > i) /\ (k < i \/ k > i)
      BY <2>2, <2>5
    <3>2. ASSUME j < i, k < i PROVE j = k
      BY <3>2, <1>4, <2>2, <2>3, <2>5, <1>3
    <3>3. ASSUME j < i, k > i PROVE FALSE
      <4>1. j \in DOMAIN q /\ m[j] = q[j] /\ k - 1 \in DOMAIN q /\ m[k] = q[k - 1] /\ ~(k - 1 < i)
        BY <3>3, <1>4, <2>2, <2>5, <1>3
      <4>2. j = k - 1
        BY <4>1, <2>3
      <4> QED BY <4>1, <4>2, <3>3
    <3>4. ASSUME j > i, k < i PROVE FALSE
      <4>1. k \in DOMAIN q /\ m[k] = q[k] /\ j - 1 \in DOMAIN q /\ m[j] = q[j - 1] /\ ~(j - 1 < i)
        BY <3>4, <1>4, <2>2, <2>5, <1>3
      <4>2. k = j - 1
        BY <4>1, <2>3
      <4> QED BY <4>1, <4>2, <3>4
    <3>5. ASSUME j > i, k > i PROVE j = k
      <4>1. k - 1 \in DOMAIN q /\ m[k] = q[k - 1] /\ j - 1 \in DOMAIN q /\ m[j] = q[j - 1]
        BY <3>5, <1>4, <2>2, <2>5, <1>3
      <4>2. k - 1 = j - 1
        BY <4>1, <2>3
      <4> QED BY <4>2, <2>2
    <3> QED BY <3>1, <3>2, <3>3, <3>4, <3>5
  <2> QED BY <2>4, <2>5
<1>7. ASSUME NEW key \in [D -> Int], Rising(q, key),
             \A j \in DOMAIN q : IF j < i THEN key[q[j]] <= key[e] ELSE key[e] <= key[q[j]]
      PROVE  Rising(m, key)
  <2> SUFFICES ASSUME NEW j \in DOMAIN m, NEW k \in DOMAIN m, j < k PROVE key[m[j]] <= key[m[k]]
    BY DEF Rising
  <2>1. j \in Int /\ k \in Int /\ key[e] \in Int /\ \A n \in DOMAIN q : key[q[n]] \in Int
    BY <1>3
  <2>2. \A a, b \in DOMAIN q : a < b => key[q[a]] <= key[q[b]]
    BY <1>7 DEF Rising
  <2>3. CASE j = i
    <3>1. k - 1 \in DOMAIN q /\ m[k] = q[k - 1] /\ ~(k - 1 < i) /\ m[j] = e
      BY <2>1, <2>3, <1>3, <1>4
    <3> QED BY <3>1, <1>7
  <2>4. CASE k = i
    <3>1. j \in DOMAIN q /\ m[j] = q[j] /\ j < i /\ m[k] = e
      BY <2>1, <2>4, <1>3, <1>4
    <3> QED BY <3>1, <1>7
  <2>5. CASE k < i
    <3>1. j \in DOMAIN q /\ m[j] = q[j] /\ k \in DOMAIN q /\ m[k] = q[k]
      BY <2>1, <2>5, <1>3, <1>4
    <3> QED BY <3>1, <2>2
  <2>6. CASE j > i
    <3>1. j > i /\ k > i /\ i \in Int
      BY <2>1, <2>6, <1>3
    <3>2. j - 1 \in DOMAIN q /\ m[j] = q[j - 1] /\ k - 1 \in DOMAIN q /\ m[k] = q[k - 1]
      BY <2>1, <3>1, <1>4
    <3>3. j - 1 < k - 1
      BY <2>1
    <3> QED BY <3>2, <3>3, <2>2
  <2>7. CASE j < i /\ i < k
    <3>1. j \in DOMAIN q /\ m[j] = q[j] /\ k - 1 \in DOMAIN q /\ m[k] = q[k - 1] /\ ~(k - 1 < i)
      BY <2>1, <2>7, <1>3, <1>4
    <3>2. key[q[j]] <= key[e] /\ key[e] <= key[q[k - 1]]
      BY <3>1, <2>7, <1>7
    <3>3. key[q[j]] \in Int /\ key[q[k - 1]] \in Int
      BY <3>1, <2>1
    <3> QED BY <3>1, <3>2, <3>3, <2>1
  <2> QED BY <2>1, <2>3, <2>4, <2>5, <2>6, <2>7, <1>3
<1> QED BY <1>1, <1>2, <1>5, <1>6, <1>7

\* A list without its first element.
LEMMA TailIs ==
  ASSUME NEW D, NEW q \in Seq(D), q # <<>>, IsInjective(q)
  PROVE  /\ Tail(q) \in Seq(D) /\ ToSet(Tail(q)) = ToSet(q) \ {Head(q)} /\ Embeds(Tail(q), q)
         /\ Head(q) \in ToSet(q)
<1>1. PICK r : r = Tail(q)
  OBVIOUS
<1>2. /\ r \in Seq(D) /\ Len(r) = Len(q) - 1 /\ \A i \in 1..Len(r) : r[i] = q[i + 1]
      /\ Head(q) = q[1] /\ Len(q) \in Nat /\ Len(q) >= 1 /\ 1 \in DOMAIN q
  BY <1>1, HeadTailProperties, ListIs
<1>3. DOMAIN r = 1..(Len(q) - 1) /\ DOMAIN q = 1..Len(q)
  BY <1>2, ListIs
<1>4. \A i \in DOMAIN r : r[i] = q[i + 1] /\ i + 1 \in DOMAIN q /\ i + 1 # 1 /\ i \in Int
  BY <1>2, <1>3
<1>5. \A k \in DOMAIN q : k # 1 => k - 1 \in DOMAIN r /\ r[k - 1] = q[k]
  <2> SUFFICES ASSUME NEW k \in DOMAIN q, k # 1 PROVE k - 1 \in DOMAIN r /\ r[k - 1] = q[k]
    OBVIOUS
  <2>1. k - 1 \in DOMAIN r /\ (k - 1) + 1 = k
    BY <1>2, <1>3
  <2> QED BY <2>1, <1>4
<1>6. ToSet(r) = ToSet(q) \ {Head(q)}
  <2>1. ASSUME NEW i \in DOMAIN r PROVE r[i] \in ToSet(q) /\ r[i] # q[1]
    BY <1>2, <1>4 DEF ToSet, IsInjective
  <2>2. ASSUME NEW k \in DOMAIN q, q[k] # q[1] PROVE \E i \in DOMAIN r : r[i] = q[k]
    BY <1>5, <2>2
  <2> QED BY <2>1, <2>2, <1>2 DEF ToSet
<1>7. Embeds(r, q)
  <2> DEFINE f == [i \in DOMAIN r |-> i + 1]
  <2>1. f \in [DOMAIN r -> DOMAIN q] /\ \A i \in DOMAIN r : f[i] = i + 1
    BY <1>4
  <2>2. \A i, j \in DOMAIN r : i < j => f[i] < f[j]
    BY <2>1, <1>4
  <2> HIDE DEF f
  <2> QED BY <2>1, <2>2, <1>4 DEF Embeds
<1> QED BY <1>1, <1>2, <1>6, <1>7 DEF ToSet

\* Of finitely many different numbers one is the highest.
LEMMA HighestIs ==
  ASSUME NEW S, IsFiniteSet(S), S # {}, NEW h \in [S -> Int],
         \A t, u \in S : h[t] = h[u] => t = u
  PROVE  \E t \in S : \A u \in S : h[u] <= h[t]
<1> DEFINE upTo(t) == {u \in S : h[u] <= h[t]}
           n == Cardinality(S)
           rank == [t \in S |-> Cardinality(upTo(t))]
<1>1. n \in Nat /\ n # 0
  BY FS_CardinalityType, FS_EmptySet
<1>2. ASSUME NEW t \in S
      PROVE  /\ IsFiniteSet(upTo(t)) /\ Cardinality(upTo(t)) \in 1..n
             /\ Cardinality(upTo(t)) = n => upTo(t) = S
  <2>1. upTo(t) \in SUBSET S /\ t \in upTo(t)
    OBVIOUS
  <2> HIDE DEF upTo
  <2>2. /\ IsFiniteSet(upTo(t)) /\ Cardinality(upTo(t)) <= n
        /\ Cardinality(S) = Cardinality(upTo(t)) => S = upTo(t)
    BY <2>1, FS_Subset
  <2>3. Cardinality(upTo(t)) \in Nat /\ Cardinality(upTo(t)) # 0
    BY <2>1, <2>2, FS_CardinalityType, FS_EmptySet
  <2> QED BY <1>1, <2>2, <2>3
<1>3. ASSUME NEW t \in S, NEW u \in S, h[t] < h[u]
      PROVE  Cardinality(upTo(t)) # Cardinality(upTo(u))
  <2>1. upTo(t) \in SUBSET upTo(u) /\ u \in upTo(u) /\ u \notin upTo(t)
    BY <1>3
  <2>2. IsFiniteSet(upTo(u))
    BY <1>2
  <2> HIDE DEF upTo
  <2> QED BY <2>1, <2>2, FS_Subset
<1>4. rank \in Injection(S, 1..n)
  <2>1. rank \in [S -> 1..n]
    BY <1>2
  <2>2. ASSUME NEW t \in S, NEW u \in S, rank[t] = rank[u] PROVE t = u
    <3>1. h[t] < h[u] \/ h[u] < h[t] \/ h[t] = h[u]
      OBVIOUS
    <3> HIDE DEF upTo
    <3> QED BY <3>1, <2>2, <1>3
  <2> QED BY <2>1, <2>2 DEF Injection, IsInjective
<1>5. IsFiniteSet(1..n) /\ Cardinality(1..n) = n
  BY <1>1, FS_Interval
<1>6. rank \in Surjection(S, 1..n)
  BY <1>4, <1>5, FS_Injection
<1>7. PICK t \in S : Cardinality(upTo(t)) = n
  <2>1. n \in 1..n
    BY <1>1
  <2>2. \E t \in S : rank[t] = n
    BY <1>6, <2>1 DEF Surjection
  <2> HIDE DEF upTo, n
  <2> QED BY <2>2
<1>8. upTo(t) = S
  BY <1>2, <1>7
<1> QED BY <1>8

\* What Max and Min of the community modules choose.
LEMMA MaxIs ==
  ASSUME NEW S \in SUBSET Int, IsFiniteSet(S), S # {}
  PROVE  Max(S) \in S /\ \A x \in S : Max(S) >= x
<1>1. PICK h \in [S -> Int] : \A x \in S : h[x] = x
  <2> DEFINE h == [x \in S |-> x]
  <2>1. h \in [S -> Int] /\ \A x \in S : h[x] = x
    OBVIOUS
  <2> HIDE DEF h
  <2> QED BY <2>1
<1>2. \A x, y \in S : h[x] = h[y] => x = y
  BY <1>1
<1>3. \E x \in S : \A y \in S : h[y] <= h[x]
  BY <1>1, <1>2, HighestIs
<1>4. \E x \in S : \A y \in S : x >= y
  BY <1>1, <1>3
<1> QED BY <1>4 DEF Max

LEMMA MinIs ==
  ASSUME NEW S \in SUBSET Int, IsFiniteSet(S), S # {}
  PROVE  Min(S) \in S /\ \A x \in S : Min(S) <= x
<1>1. PICK h \in [S -> Int] : \A x \in S : h[x] = -x
  <2> DEFINE h == [x \in S |-> -x]
  <2>1. h \in [S -> Int] /\ \A x \in S : h[x] = -x
    OBVIOUS
  <2> HIDE DEF h
  <2> QED BY <2>1
<1>2. \A x, y \in S : h[x] = h[y] => x = y
  BY <1>1
<1>3. \E x \in S : \A y \in S : h[y] <= h[x]
  BY <1>1, <1>2, HighestIs
<1>4. \E x \in S : \A y \in S : x <= y
  BY <1>1, <1>3
<1> QED BY <1>4 DEF Min

\* Where a timer is inserted: the ones before are not later, the ones behind are later.
LEMMA BehindIs ==
  ASSUME NEW l \in Seq(Timers), NEW time \in Int, timeout \in [Timers -> Int], Rising(l, timeout)
  PROVE  /\ Behind(l, time) + 1 \in 1..(Len(l) + 1)
         /\ \A j \in DOMAIN l : IF j < Behind(l, time) + 1 THEN timeout[l[j]] <= time
                                                           ELSE time <= timeout[l[j]]
<1> DEFINE S == {0} \cup {i \in DOMAIN l : timeout[l[i]] <= time}
<1>1. Len(l) \in Nat /\ DOMAIN l = 1..Len(l) /\ \A j \in DOMAIN l : l[j] \in Timers
  BY ListIs
<1>2. S \in SUBSET (0..Len(l)) /\ 0 \in S
  BY <1>1
<1>3. IsFiniteSet(S)
  <2>1. 0 \in Int /\ Len(l) \in Int
    BY <1>1
  <2>2. IsFiniteSet(0..Len(l))
    BY <2>1, FS_Interval
  <2> HIDE DEF S
  <2> QED BY <2>2, <1>2, FS_Subset
<1>4. S \in SUBSET Int /\ S # {}
  BY <1>1, <1>2
<1>5. PICK b : b = Max(S)
  OBVIOUS
<1>6. Behind(l, time) = b
  BY <1>5 DEF Behind
<1>7. b \in S /\ \A x \in S : b >= x
  <2> HIDE DEF S
  <2> QED BY <1>3, <1>4, <1>5, MaxIs
<1>8. b \in 0..Len(l)
  BY <1>2, <1>7
<1>9. ASSUME NEW j \in DOMAIN l, j < b + 1 PROVE timeout[l[j]] <= time
  <2>1. j \in Int /\ j >= 1 /\ b \in DOMAIN l /\ timeout[l[b]] <= time
    BY <1>1, <1>7, <1>8, <1>9
  <2>2. j = b \/ j < b
    BY <2>1, <1>8, <1>9
  <2>3. timeout[l[j]] <= timeout[l[b]]
    BY <2>1, <2>2, <1>1 DEF Rising
  <2>4. timeout[l[j]] \in Int /\ timeout[l[b]] \in Int
    BY <2>1, <1>1
  <2> QED BY <2>1, <2>3, <2>4
<1>10. ASSUME NEW j \in DOMAIN l, ~(j < b + 1) PROVE time <= timeout[l[j]]
  <2>1. j \in Int /\ timeout[l[j]] \in Int
    BY <1>1
  <2>2. j \notin S
    BY <2>1, <1>7, <1>8, <1>10
  <2>3. ~(timeout[l[j]] <= time)
    BY <2>2
  <2> QED BY <2>1, <2>3
<1>11. b + 1 \in 1..(Len(l) + 1)
  BY <1>1, <1>8
<1> QED BY <1>6, <1>9, <1>10, <1>11

-----------------------------------------------------------------------------
(* The list of timers.                                                     *)

\* A new timer: one more in the list, in its place, with no call delivering it.
LEMMA RegisterTimerKeeps ==
  ASSUME TimersInv, NEW o \in Objects, NEW i \in Intervals, RegisterTimer(o, i), now' = now
  PROVE  /\ TimersInv'
         /\ \E t \in Timers :
              /\ t \notin ToSet(list) /\ ToSet(list') = ToSet(list) \cup {t}
              /\ owner' = [owner EXCEPT ![t] = o]
              /\ activateRef' = [activateRef EXCEPT ![t] = 0]
<1>0. /\ TimersTyped /\ Ordered /\ MaxTimers \in Nat /\ i \in Nat /\ now \in Nat
      /\ \A j \in DOMAIN list : list[j] \in Timers /\ list[j] \in ToSet(list)
  BY TimersAssumption, ListIs DEF TimersInv, TimersTyped
<1>1. PICK t : t = Min(FreeIds)
  OBVIOUS
<1>2. t \in Timers /\ t \notin ToSet(list)
  <2>1. IsFiniteSet(1..MaxTimers)
    <3>1. 1 \in Int /\ MaxTimers \in Int
      BY <1>0
    <3> QED BY <3>1, FS_Interval
  <2>2. FreeIds \subseteq 1..MaxTimers /\ FreeIds # {}
    BY DEF FreeIds, Timers, RegisterTimer
  <2>3. IsFiniteSet(FreeIds)
    BY <2>1, <2>2, FS_Subset
  <2>4. FreeIds \in SUBSET Int
    BY <2>2, <1>0
  <2>5. t \in FreeIds
    BY <2>2, <2>3, <2>4, <1>1, MinIs
  <2> QED BY <2>5 DEF FreeIds
<1>3. PICK time \in Nat : time = now + i
  BY <1>0
<1>4. /\ interval' = [interval EXCEPT ![t] = i] /\ timeout' = [timeout EXCEPT ![t] = time]
      /\ owner' = [owner EXCEPT ![t] = o] /\ activateRef' = [activateRef EXCEPT ![t] = 0]
      /\ list' = InsertAt(list, Behind(list, time) + 1, t) /\ firstTimer' = firstTimer
  BY <1>1, <1>3 DEF RegisterTimer, TimerInsert
<1>5. /\ timeout' \in [Timers -> Nat] /\ interval' \in [Timers -> Nat]
      /\ owner' \in [Timers -> Objects \cup {Nobody}] /\ activateRef' \in [Timers -> 0..MaxDepth]
  BY <1>0, <1>2, <1>3, <1>4, DispatcherAssumption DEF TimersTyped
<1>6. PICK k : k = Behind(list, time) + 1
  OBVIOUS
<1>7. /\ k \in 1..(Len(list) + 1)
      /\ \A j \in DOMAIN list : IF j < k THEN timeout[list[j]] <= time ELSE time <= timeout[list[j]]
  <2>1. /\ list \in Seq(Timers) /\ timeout \in [Timers -> Int] /\ Rising(list, timeout)
        /\ time \in Int
    BY <1>0, <1>3 DEF TimersTyped, Ordered
  <2> QED BY <2>1, <1>6, BehindIs
<1>8. timeout'[t] = time /\ \A j \in DOMAIN list : timeout'[list[j]] = timeout[list[j]]
  BY <1>0, <1>2, <1>4 DEF TimersTyped
<1>9. /\ list' \in Seq(Timers) /\ ToSet(list') = ToSet(list) \cup {t} /\ IsInjective(list')
      /\ Rising(list', timeout')
  <2>1. list' = InsertAt(list, k, t) /\ list \in Seq(Timers) /\ IsInjective(list)
    BY <1>0, <1>4, <1>6 DEF TimersTyped, Ordered
  <2>2. PICK key \in [Timers -> Int] : key = timeout'
    BY <1>5
  <2>3. Rising(list, key)
    BY <1>0, <1>8, <2>2 DEF Ordered, Rising
  <2>4. \A j \in DOMAIN list : IF j < k THEN key[list[j]] <= key[t] ELSE key[t] <= key[list[j]]
    BY <1>7, <1>8, <2>2
  <2>5. Rising(InsertAt(list, k, t), key)
    BY <2>1, <2>3, <2>4, <1>2, <1>7, InsertIs
  <2>6. /\ InsertAt(list, k, t) \in Seq(Timers) /\ ToSet(InsertAt(list, k, t)) = ToSet(list) \cup {t}
        /\ IsInjective(InsertAt(list, k, t))
    BY <2>1, <1>2, <1>7, InsertIs
  <2> QED BY <2>1, <2>2, <2>5, <2>6
<1>10. TimersTyped'
  BY <1>0, <1>4, <1>5, <1>9 DEF TimersTyped, Timers
<1>11. Ordered'
  BY <1>0, <1>4, <1>9 DEF Ordered, Registered
<1> QED BY <1>2, <1>4, <1>9, <1>10, <1>11 DEF TimersInv

\* Timers leave the list, and firstTimerInfo with them.
LEMMA UnregisterTimersKeeps ==
  ASSUME TimersInv, NEW ts, UnregisterTimers(ts), now' = now
  PROVE  /\ TimersInv' /\ ToSet(list') = ToSet(list) \ ts
         /\ \A t \in Timers \ ts : owner'[t] = owner[t] /\ activateRef'[t] = activateRef[t]
<1>0. TimersTyped /\ Ordered /\ MaxTimers \in Nat /\ MaxDepth \in Nat
  BY TimersAssumption, DispatcherAssumption DEF TimersInv
<1>1. /\ list' = Sublist(list, Timers \ ts)
      /\ firstTimer' = IF firstTimer \in ts THEN 0 ELSE firstTimer
      /\ timeout' = [t \in Timers |-> IF t \in ts THEN 0 ELSE timeout[t]]
      /\ interval' = [t \in Timers |-> IF t \in ts THEN 0 ELSE interval[t]]
      /\ owner' = [t \in Timers |-> IF t \in ts THEN Nobody ELSE owner[t]]
      /\ activateRef' = [t \in Timers |-> IF t \in ts THEN 0 ELSE activateRef[t]]
  BY DEF UnregisterTimers, ForgetFirst, Deleted
<1>2. /\ list' \in Seq(Timers) /\ ToSet(list') = ToSet(list) \cap (Timers \ ts)
      /\ Embeds(list', list) /\ list \in Seq(Timers) /\ ToSet(list) \subseteq Timers
  BY <1>0, <1>1, SublistIs, ListIs DEF TimersTyped
<1>3. ToSet(list') = ToSet(list) \ ts
  BY <1>2
<1>4. TimersTyped'
  <2>1. /\ timeout' \in [Timers -> Nat] /\ interval' \in [Timers -> Nat]
        /\ owner' \in [Timers -> Objects \cup {Nobody}] /\ activateRef' \in [Timers -> 0..MaxDepth]
    BY <1>0, <1>1 DEF TimersTyped
  <2>2. firstTimer' \in 0..MaxTimers
    BY <1>0, <1>1 DEF TimersTyped
  <2> QED BY <1>0, <1>2, <2>1, <2>2 DEF TimersTyped, Timers
<1>5. Ordered'
  <2>1. IsInjective(list') /\ Rising(list', timeout)
    BY <1>0, <1>2, EmbedsKeeps DEF Ordered
  <2>2. \A i \in DOMAIN list' : timeout'[list'[i]] = timeout[list'[i]]
    <3>1. \A i \in DOMAIN list' : list'[i] \in ToSet(list') /\ list'[i] \in Timers
      BY <1>2, ListIs
    <3> QED BY <3>1, <1>1, <1>3
  <2>3. Rising(list', timeout')
    BY <2>1, <2>2 DEF Rising
  <2>4. firstTimer' # 0 => firstTimer' \in ToSet(list')
    BY <1>0, <1>1, <1>3 DEF Ordered, Registered
  <2> QED BY <2>1, <2>3, <2>4 DEF Ordered, Registered
<1> QED BY <1>1, <1>3, <1>4, <1>5 DEF TimersInv

\* The first timer is taken out and inserted at its next timeout.
LEMMA RearmKeeps ==
  ASSUME TimersInv, NEW time \in Nat, NEW depth \in 0..MaxDepth, list # <<>>, Rearm(time, depth),
         now' = now
  PROVE  /\ TimersInv' /\ ToSet(list') = ToSet(list) /\ owner' = owner /\ Head(list) \in Timers
         /\ Registered(Head(list))
         /\ activateRef' = [activateRef EXCEPT ![Head(list)] = IF @ = 0 THEN depth ELSE @]
<1>0. /\ TimersTyped /\ Ordered /\ list \in Seq(Timers) /\ IsInjective(list)
      /\ Rising(list, timeout) /\ MaxTimers \in Nat
  BY TimersAssumption DEF TimersInv, TimersTyped, Ordered
<1>1. PICK t : t = Head(list)
  OBVIOUS
<1>2. PICK r : r = Tail(list)
  OBVIOUS
<1>3. /\ r \in Seq(Timers) /\ ToSet(r) = ToSet(list) \ {t} /\ Embeds(r, list)
      /\ t \in ToSet(list) /\ t \in Timers
  BY <1>0, <1>1, <1>2, TailIs, ListIs
<1>4. IsInjective(r) /\ Rising(r, timeout)
  BY <1>0, <1>3, EmbedsKeeps
<1>5. PICK next : next = NextTimeout(t, time)
  OBVIOUS
<1>6. next \in Nat
  <2>1. timeout[t] \in Nat /\ interval[t] \in Nat
    BY <1>0, <1>3 DEF TimersTyped
  <2>2. next \in {time + interval[t], timeout[t] + interval[t]}
    BY <1>5 DEF NextTimeout
  <2> QED BY <2>1, <2>2
<1>7. /\ firstTimer' = NextFirst(t) /\ timeout' = [timeout EXCEPT ![t] = next]
      /\ list' = InsertAt(r, Behind(r, next) + 1, t)
      /\ activateRef' = [activateRef EXCEPT ![t] = IF @ = 0 THEN depth ELSE @]
      /\ interval' = interval /\ owner' = owner
  BY <1>1, <1>2, <1>5 DEF Rearm, TimerInsert
<1>8. timeout' \in [Timers -> Nat] /\ timeout \in [Timers -> Int]
  BY <1>0, <1>3, <1>6, <1>7 DEF TimersTyped
<1>9. PICK k : k = Behind(r, next) + 1
  OBVIOUS
<1>10. /\ k \in 1..(Len(r) + 1)
       /\ \A j \in DOMAIN r : IF j < k THEN timeout[r[j]] <= next ELSE next <= timeout[r[j]]
  <2>1. next \in Int
    BY <1>6
  <2> QED BY <2>1, <1>3, <1>4, <1>8, <1>9, BehindIs
<1>11. timeout'[t] = next /\ \A j \in DOMAIN r : timeout'[r[j]] = timeout[r[j]]
  <2>1. \A j \in DOMAIN r : r[j] \in ToSet(r) /\ r[j] \in Timers
    BY <1>3, ListIs
  <2> QED BY <2>1, <1>0, <1>3, <1>7 DEF TimersTyped
<1>12. /\ list' \in Seq(Timers) /\ ToSet(list') = ToSet(list) /\ IsInjective(list')
       /\ Rising(list', timeout')
  <2>1. list' = InsertAt(r, k, t) /\ t \notin ToSet(r)
    BY <1>3, <1>7, <1>9
  <2>2. PICK key \in [Timers -> Int] : key = timeout'
    BY <1>8
  <2>3. Rising(r, key)
    BY <1>4, <1>11, <2>2 DEF Rising
  <2>4. \A j \in DOMAIN r : IF j < k THEN key[r[j]] <= key[t] ELSE key[t] <= key[r[j]]
    BY <1>10, <1>11, <2>2
  <2>5. Rising(InsertAt(r, k, t), key)
    BY <2>3, <2>4, <1>3, <1>10, InsertIs
  <2>6. /\ InsertAt(r, k, t) \in Seq(Timers) /\ ToSet(InsertAt(r, k, t)) = ToSet(r) \cup {t}
        /\ IsInjective(InsertAt(r, k, t))
    BY <2>1, <1>3, <1>4, <1>10, InsertIs
  <2> QED BY <2>1, <2>2, <2>5, <2>6, <1>3
<1>13. TimersTyped'
  <2>1. activateRef' \in [Timers -> 0..MaxDepth]
    BY <1>0, <1>3, <1>7 DEF TimersTyped
  <2>2. firstTimer' \in 0..MaxTimers
    BY <1>0, <1>3, <1>7 DEF TimersTyped, NextFirst, Timers
  <2> QED BY <1>0, <1>7, <1>8, <1>12, <2>1, <2>2 DEF TimersTyped, Timers
<1>14. Ordered'
  BY <1>0, <1>3, <1>7, <1>12 DEF Ordered, Registered, NextFirst
<1> QED BY <1>1, <1>3, <1>7, <1>12, <1>13, <1>14 DEF TimersInv, Registered

-----------------------------------------------------------------------------
(* The notifiers.                                                          *)

\* Two lists behind each other.
LEMMA ConcatIs ==
  ASSUME NEW D, NEW q \in Seq(D), NEW r \in Seq(D)
  PROVE  /\ q \o r \in Seq(D) /\ ToSet(q \o r) = ToSet(q) \cup ToSet(r)
         /\ IsInjective(q) /\ IsInjective(r) /\ ToSet(q) \cap ToSet(r) = {} => IsInjective(q \o r)
<1>1. PICK m : m = q \o r
  OBVIOUS
<1>2. /\ m \in Seq(D) /\ Len(m) = Len(q) + Len(r)
      /\ \A i \in 1..(Len(q) + Len(r)) : m[i] = IF i <= Len(q) THEN q[i] ELSE r[i - Len(q)]
  BY <1>1, ConcatProperties
<1>3. /\ Len(q) \in Nat /\ Len(r) \in Nat /\ DOMAIN q = 1..Len(q) /\ DOMAIN r = 1..Len(r)
      /\ DOMAIN m = 1..(Len(q) + Len(r))
  BY <1>2, ListIs
<1>4. \A i \in DOMAIN m : \/ i \in DOMAIN q /\ m[i] = q[i]
                          \/ i \notin DOMAIN q /\ i - Len(q) \in DOMAIN r /\ m[i] = r[i - Len(q)]
  BY <1>2, <1>3
<1>5. ToSet(m) = ToSet(q) \cup ToSet(r)
  <2>1. \A i \in DOMAIN m : m[i] \in ToSet(q) \cup ToSet(r)
    BY <1>4 DEF ToSet
  <2>2. \A i \in DOMAIN q : i \in DOMAIN m /\ m[i] = q[i]
    BY <1>2, <1>3
  <2>3. ASSUME NEW i \in DOMAIN r PROVE \E j \in DOMAIN m : m[j] = r[i]
    <3>1. i + Len(q) \in DOMAIN m /\ ~(i + Len(q) <= Len(q)) /\ i + Len(q) - Len(q) = i
      BY <1>3
    <3>2. m[i + Len(q)] = r[i]
      BY <3>1, <1>2, <1>3
    <3> QED BY <3>1, <3>2
  <2> QED BY <2>1, <2>2, <2>3 DEF ToSet
<1>6. ASSUME IsInjective(q), IsInjective(r), ToSet(q) \cap ToSet(r) = {} PROVE IsInjective(m)
  <2> SUFFICES ASSUME NEW i \in DOMAIN m, NEW j \in DOMAIN m, m[i] = m[j] PROVE i = j
    BY DEF IsInjective
  <2>1. \A a \in DOMAIN q, b \in DOMAIN r : q[a] # r[b]
    BY <1>6 DEF ToSet
  <2>2. CASE i \in DOMAIN q /\ j \in DOMAIN q
    BY <2>2, <1>3, <1>4, <1>6 DEF IsInjective
  <2>3. CASE i \notin DOMAIN q /\ j \notin DOMAIN q
    <3>1. i - Len(q) \in DOMAIN r /\ j - Len(q) \in DOMAIN r /\ r[i - Len(q)] = r[j - Len(q)]
      BY <2>3, <1>4
    <3>2. i - Len(q) = j - Len(q)
      BY <3>1, <1>6 DEF IsInjective
    <3>3. i \in Int /\ j \in Int /\ Len(q) \in Int
      BY <1>3
    <3> QED BY <3>2, <3>3
  <2> QED BY <2>1, <2>2, <2>3, <1>4
<1> QED BY <1>1, <1>2, <1>5, <1>6

\* h is the highest descriptor of the notifiers W.
IsHighest(h, W) ==
  /\ h \in {-1} \cup {Fd[n] : n \in W}
  /\ h >= -1 /\ \A n \in W : h >= Fd[n]

\* The highest descriptor of some notifiers is what IsHighest says.
LEMMA FdsAre ==
  ASSUME NEW W \in SUBSET Notifiers
  PROVE  LET S == {-1} \cup {Fd[n] : n \in W} IN
         /\ S \in SUBSET Int /\ IsFiniteSet(S) /\ \A x \in S : x >= -1
         /\ \A h : h = Max(S) <=> IsHighest(h, W)
<1> DEFINE S == {-1} \cup {Fd[n] : n \in W}
<1>0. IsFiniteSet(W) /\ \A n \in W : Fd[n] \in Nat
  BY NotifiersAssumption, FS_Subset
<1>1. S \in SUBSET Int /\ S # {} /\ \A x \in S : x >= -1
  BY <1>0
<1>2. IsFiniteSet(S)
  <2> DEFINE F == {Fd[n] : n \in W}
             f == [n \in W |-> Fd[n]]
  <2>1. f \in Surjection(W, F)
    BY DEF Surjection
  <2> HIDE DEF F, f
  <2>2. IsFiniteSet(F)
    BY <2>1, <1>0, FS_Surjection
  <2>3. IsFiniteSet(F \cup {-1})
    BY <2>2, FS_AddElement
  <2>4. S = F \cup {-1}
    BY DEF F
  <2> HIDE DEF S
  <2> QED BY <2>3, <2>4
<1>3. ASSUME NEW h PROVE IsHighest(h, W) <=> h \in S /\ \A x \in S : h >= x
  BY DEF IsHighest
<1> HIDE DEF S
<1>4. Max(S) \in S /\ \A x \in S : Max(S) >= x
  BY <1>1, <1>2, MaxIs
<1>5. ASSUME NEW h, IsHighest(h, W) PROVE h = Max(S)
  <2>1. h \in S /\ h >= Max(S) /\ Max(S) >= h /\ h \in Int /\ Max(S) \in Int
    BY <1>1, <1>3, <1>4, <1>5
  <2> QED BY <2>1
<1>6. \A h : h = Max(S) <=> IsHighest(h, W)
  BY <1>3, <1>4, <1>5
<1>7. S \in SUBSET Int /\ IsFiniteSet(S) /\ \A x \in S : x >= -1
  BY <1>1, <1>2
<1> QED BY <1>6, <1>7 DEF S

\* The invariant, with the highest descriptor described.
LEMMA NotifiersAre ==
  NotifiersInv <=>
    /\ NotifiersTyped /\ Listed
    /\ watched = {n \in Notifiers : n \in ToSet(lists[Type[n]])} /\ IsHighest(highest, watched)
    /\ queued = ToSet(pending) /\ IsInjective(pending)
    /\ \A n \in ToSet(pending) : n \in ToSet(lists[Type[n]])
<1>1. ASSUME NotifiersTyped
      PROVE  highest = Max({-1} \cup {Fd[n] : n \in watched}) <=> IsHighest(highest, watched)
  BY <1>1, FdsAre DEF NotifiersTyped
<1> QED BY <1>1 DEF NotifiersInv, WatchesEveryNotifier, Enabled

\* The same after a step.
LEMMA NotifiersAreNext ==
  NotifiersInv' <=>
    /\ NotifiersTyped' /\ Listed'
    /\ watched' = {n \in Notifiers : n \in ToSet(lists'[Type[n]])} /\ IsHighest(highest', watched')
    /\ queued' = ToSet(pending') /\ IsInjective(pending')
    /\ \A n \in ToSet(pending') : n \in ToSet(lists'[Type[n]])
<1>1. ASSUME NotifiersTyped'
      PROVE  highest' = Max({-1} \cup {Fd[n] : n \in watched'}) <=> IsHighest(highest', watched')
  BY <1>1, FdsAre DEF NotifiersTyped
<1> QED BY <1>1 DEF NotifiersInv, WatchesEveryNotifier, Enabled

\* Where a notifier is inserted.
LEMMA PlaceIs ==
  ASSUME NEW l \in Seq(Notifiers), NEW n \in Notifiers, Rising(l, Low),
         NEW at, at = Min({Len(l) + 1} \cup {i \in DOMAIN l : Fd[l[i]] < Fd[n]})
  PROVE  /\ at \in 1..(Len(l) + 1) /\ Low \in [Notifiers -> Int]
         /\ \A j \in DOMAIN l : IF j < at THEN Low[l[j]] <= Low[n] ELSE Low[n] <= Low[l[j]]
<1> DEFINE S == {Len(l) + 1} \cup {i \in DOMAIN l : Fd[l[i]] < Fd[n]}
<1>0. Len(l) \in Nat /\ DOMAIN l = 1..Len(l) /\ \A j \in DOMAIN l : l[j] \in Notifiers
  BY ListIs
<1>1. Low \in [Notifiers -> Int] /\ \A m \in Notifiers : Low[m] = -Fd[m] /\ Fd[m] \in Nat
  BY NotifiersAssumption DEF Low
<1>2. S \in SUBSET (1..(Len(l) + 1)) /\ Len(l) + 1 \in S
  BY <1>0
<1>3. IsFiniteSet(S)
  <2>1. 1 \in Int /\ Len(l) + 1 \in Int
    BY <1>0
  <2>2. IsFiniteSet(1..(Len(l) + 1))
    BY <2>1, FS_Interval
  <2> HIDE DEF S
  <2> QED BY <2>2, <1>2, FS_Subset
<1>4. S \in SUBSET Int /\ S # {}
  BY <1>0, <1>2
<1>5. at \in S /\ \A x \in S : at <= x
  <2>1. at = Min(S)
    OBVIOUS
  <2> HIDE DEF S
  <2>2. Min(S) \in S /\ \A x \in S : Min(S) <= x
    BY <1>3, <1>4, MinIs
  <2> QED BY <2>1, <2>2
<1>6. at \in 1..(Len(l) + 1)
  BY <1>2, <1>5
<1>7. ASSUME NEW j \in DOMAIN l, j < at PROVE Low[l[j]] <= Low[n]
  <2>1. j \in Int /\ l[j] \in Notifiers
    BY <1>0
  <2>2. j \notin S
    BY <2>1, <1>5, <1>6, <1>7
  <2>3. ~(Fd[l[j]] < Fd[n])
    BY <2>2
  <2> QED BY <2>1, <2>3, <1>1
<1>8. ASSUME NEW j \in DOMAIN l, ~(j < at) PROVE Low[n] <= Low[l[j]]
  <2>1. j \in Int /\ j <= Len(l) /\ l[j] \in Notifiers
    BY <1>0
  <2>2. at \in DOMAIN l /\ Fd[l[at]] < Fd[n] /\ l[at] \in Notifiers
    BY <2>1, <1>0, <1>5, <1>6, <1>8
  <2>3. at = j \/ at < j
    BY <2>1, <1>0, <1>6, <1>8
  <2>4. Low[l[at]] \in Int
    BY <2>2, <1>1
  <2>5. Low[l[at]] <= Low[l[j]]
    BY <2>2, <2>3, <2>4 DEF Rising
  <2>6. Low[n] < Low[l[at]]
    BY <2>2, <1>1
  <2>7. Low[n] \in Int /\ Low[l[j]] \in Int
    BY <2>1, <1>1
  <2> QED BY <2>4, <2>5, <2>6, <2>7
<1> QED BY <1>1, <1>6, <1>7, <1>8

\* A notifier is inserted before those with lower descriptors of its type.
LEMMA RegisterNotifierKeeps ==
  ASSUME NotifiersInv, NEW n \in Notifiers, RegisterNotifier(n)
  PROVE  NotifiersInv'
<1>0. /\ NotifiersTyped /\ Listed
      /\ watched = {m \in Notifiers : m \in ToSet(lists[Type[m]])} /\ IsHighest(highest, watched)
      /\ queued = ToSet(pending) /\ IsInjective(pending)
      /\ \A m \in ToSet(pending) : m \in ToSet(lists[Type[m]])
  BY NotifiersAre
<1>1. PICK l : l = lists[Type[n]]
  OBVIOUS
<1>2. PICK at : at = Min({Len(l) + 1} \cup {i \in DOMAIN l : Fd[l[i]] < Fd[n]})
  OBVIOUS
<1>3. PICK r : r = InsertAt(l, at, n)
  OBVIOUS
<1>4. /\ n \notin ToSet(l) /\ lists' = [lists EXCEPT ![Type[n]] = r]
      /\ watched' = watched \cup {n} /\ highest' = Max({highest, Fd[n]})
      /\ pending' = pending /\ queued' = queued
  BY <1>1, <1>2, <1>3 DEF RegisterNotifier, Enabled
<1>5. Type[n] \in 0..2 /\ Fd[n] \in Nat /\ \A m \in Notifiers : Type[m] \in 0..2
  BY NotifiersAssumption
<1>6. l \in Seq(Notifiers) /\ Rising(l, Low) /\ IsInjective(l) /\ \A m \in ToSet(l) : Type[m] = Type[n]
  BY <1>0, <1>1, <1>5 DEF NotifiersTyped, Listed
<1>7. /\ at \in 1..(Len(l) + 1) /\ Low \in [Notifiers -> Int]
      /\ \A j \in DOMAIN l : IF j < at THEN Low[l[j]] <= Low[n] ELSE Low[n] <= Low[l[j]]
  BY <1>2, <1>6, PlaceIs
<1>8. r \in Seq(Notifiers) /\ ToSet(r) = ToSet(l) \cup {n} /\ IsInjective(r) /\ Rising(r, Low)
  <2>1. /\ InsertAt(l, at, n) \in Seq(Notifiers) /\ IsInjective(InsertAt(l, at, n))
        /\ ToSet(InsertAt(l, at, n)) = ToSet(l) \cup {n}
    BY <1>4, <1>6, <1>7, InsertIs
  <2>2. Rising(InsertAt(l, at, n), Low)
    BY <1>6, <1>7, InsertIs
  <2> QED BY <2>1, <2>2, <1>3
<1>9. /\ lists' \in [0..2 -> Seq(Notifiers)]
      /\ \A y \in 0..2 : lists'[y] = IF y = Type[n] THEN r ELSE lists[y]
  BY <1>0, <1>4, <1>5, <1>8 DEF NotifiersTyped
<1>10. Listed'
  <2> SUFFICES ASSUME NEW y \in 0..2
               PROVE  /\ IsInjective(lists'[y]) /\ Rising(lists'[y], Low)
                      /\ \A m \in ToSet(lists'[y]) : Type[m] = y
    BY DEF Listed
  <2>1. CASE y = Type[n]
    BY <2>1, <1>6, <1>8, <1>9
  <2>2. CASE y # Type[n]
    BY <2>2, <1>0, <1>9 DEF Listed
  <2> QED BY <2>1, <2>2
<1>11. \A m \in Notifiers : m \in ToSet(lists'[Type[m]]) <=> m \in ToSet(lists[Type[m]]) \/ m = n
  BY <1>1, <1>5, <1>8, <1>9
<1>12. watched' = {m \in Notifiers : m \in ToSet(lists'[Type[m]])}
  BY <1>0, <1>4, <1>11
<1>13. highest \in Int /\ highest' \in Int /\ IsHighest(highest', watched')
  <2>1. highest \in Int
    BY <1>0 DEF NotifiersTyped
  <2>2. IsFiniteSet({highest} \cup {Fd[n]})
    BY FS_Singleton, FS_AddElement
  <2>3. {highest} \cup {Fd[n]} = {highest, Fd[n]}
    OBVIOUS
  <2>4. {highest, Fd[n]} \in SUBSET Int
    BY <2>1, <1>5
  <2>5. highest' \in {highest, Fd[n]} /\ \A x \in {highest, Fd[n]} : highest' >= x
    <3> DEFINE S == {highest, Fd[n]}
    <3>1. S \in SUBSET Int /\ IsFiniteSet(S) /\ S # {} /\ highest' = Max(S)
      BY <2>2, <2>3, <2>4, <1>4
    <3> HIDE DEF S
    <3>2. highest' \in S /\ \A x \in S : highest' >= x
      BY <3>1, MaxIs
    <3> QED BY <3>2 DEF S
  <2>6. highest' \in Int /\ highest' >= highest /\ highest' >= Fd[n]
    BY <2>4, <2>5
  <2>7. \A m \in watched' : m = n \/ m \in watched
    BY <1>4
  <2>8. \A m \in watched : Fd[m] \in Nat
    BY <1>0, NotifiersAssumption
  <2>9. highest' >= -1 /\ \A m \in watched' : highest' >= Fd[m]
    BY <2>1, <2>6, <2>7, <2>8, <1>0, <1>5 DEF IsHighest
  <2>10. highest' \in {-1} \cup {Fd[m] : m \in watched'}
    BY <2>5, <1>0, <1>4 DEF IsHighest
  <2> QED BY <2>1, <2>6, <2>9, <2>10 DEF IsHighest
<1>14. NotifiersTyped'
  BY <1>0, <1>4, <1>9, <1>13 DEF NotifiersTyped
<1>15. \A m \in ToSet(pending') : m \in ToSet(lists'[Type[m]])
  <2>1. \A m \in ToSet(pending) : m \in Notifiers
    BY <1>0 DEF NotifiersTyped
  <2> QED BY <2>1, <1>0, <1>4, <1>11
<1> QED BY <1>0, <1>4, <1>10, <1>12, <1>13, <1>14, <1>15, NotifiersAreNext

\* Notifiers leave their lists, the pending list and the sets for select().
LEMMA UnregisterKeeps ==
  ASSUME NotifiersInv, NEW ns, Unregister(ns)
  PROVE  NotifiersInv'
<1>0. /\ NotifiersTyped /\ Listed
      /\ watched = {m \in Notifiers : m \in ToSet(lists[Type[m]])} /\ IsHighest(highest, watched)
      /\ queued = ToSet(pending) /\ IsInjective(pending)
      /\ \A m \in ToSet(pending) : m \in ToSet(lists[Type[m]])
  BY NotifiersAre
<1>1. PICK vec : vec = [y \in 0..2 |-> Sublist(lists[y], Notifiers \ ns)]
  OBVIOUS
<1>2. /\ lists' = vec /\ pending' = Sublist(pending, Notifiers \ ns)
      /\ queued' = queued \ ns /\ watched' = watched \ ns
      /\ highest' = IF \E n \in ns : Fd[n] = highest THEN HighestOf(vec, ns) ELSE highest
  BY <1>1 DEF Unregister, NotPending
<1>3. ASSUME NEW y \in 0..2
      PROVE  /\ vec[y] \in Seq(Notifiers) /\ ToSet(vec[y]) = ToSet(lists[y]) \ ns
             /\ IsInjective(vec[y]) /\ Rising(vec[y], Low)
  <2>1. lists[y] \in Seq(Notifiers) /\ IsInjective(lists[y]) /\ Rising(lists[y], Low)
    BY <1>0 DEF NotifiersTyped, Listed
  <2>2. /\ vec[y] \in Seq(Notifiers) /\ ToSet(vec[y]) = ToSet(lists[y]) \cap (Notifiers \ ns)
        /\ Embeds(vec[y], lists[y])
    BY <2>1, <1>1, SublistIs
  <2>3. ToSet(lists[y]) \subseteq Notifiers
    BY <2>1, ListIs
  <2> QED BY <2>1, <2>2, <2>3, EmbedsKeeps
<1>4. Listed' /\ lists' \in [0..2 -> Seq(Notifiers)]
  <2>1. \A y \in 0..2 : \A m \in ToSet(vec[y]) : Type[m] = y
    BY <1>0, <1>3 DEF Listed
  <2> QED BY <2>1, <1>1, <1>2, <1>3 DEF Listed
<1>5. \A m \in Notifiers : m \in ToSet(lists'[Type[m]]) <=> m \in ToSet(lists[Type[m]]) \ ns
  BY <1>2, <1>3, NotifiersAssumption
<1>6. watched' = {m \in Notifiers : m \in ToSet(lists'[Type[m]])} /\ watched' \in SUBSET Notifiers
  BY <1>0, <1>2, <1>5
<1>7. /\ pending' \in Seq(Notifiers) /\ ToSet(pending') = ToSet(pending) \ ns
      /\ IsInjective(pending') /\ ToSet(pending) \subseteq Notifiers
  <2>1. pending \in Seq(Notifiers) /\ IsInjective(pending)
    BY <1>0 DEF NotifiersTyped
  <2>2. /\ pending' \in Seq(Notifiers) /\ ToSet(pending') = ToSet(pending) \cap (Notifiers \ ns)
        /\ Embeds(pending', pending) /\ ToSet(pending) \subseteq Notifiers
    BY <2>1, <1>2, SublistIs, ListIs
  <2> QED BY <2>1, <2>2, EmbedsKeeps
\* The first of each list is its highest.
<1>8. ASSUME NEW n \in watched'
      PROVE  \E y \in {x \in 0..2 : vec[x] # <<>>} : Fd[vec[y][1]] >= Fd[n]
  <2>1. n \in Notifiers /\ Type[n] \in 0..2 /\ n \in ToSet(vec[Type[n]])
    BY <1>2, <1>6, NotifiersAssumption
  <2>2. PICK q : q = vec[Type[n]]
    OBVIOUS
  <2>3. q \in Seq(Notifiers) /\ Rising(q, Low) /\ n \in ToSet(q)
    BY <2>1, <2>2, <1>3
  <2>4. PICK j \in DOMAIN q : q[j] = n
    BY <2>3, ListIs
  <2>5. /\ q # <<>> /\ 1 \in DOMAIN q /\ q[1] \in Notifiers /\ Len(q) \in Nat
        /\ DOMAIN q = 1..Len(q)
    BY <2>3, ListIs
  <2>6. j = 1 \/ 1 < j
    BY <2>4, <2>5
  <2>7. Low[q[1]] = -Fd[q[1]] /\ Low[n] = -Fd[n] /\ Fd[q[1]] \in Nat /\ Fd[n] \in Nat
    BY <2>1, <2>5, NotifiersAssumption DEF Low
  <2>8. Low[q[1]] <= Low[n]
    BY <2>3, <2>4, <2>5, <2>6, <2>7 DEF Rising
  <2>9. Fd[q[1]] >= Fd[n]
    BY <2>7, <2>8
  <2> QED BY <2>1, <2>2, <2>5, <2>9
<1>9. ASSUME NEW y \in 0..2, vec[y] # <<>> PROVE vec[y][1] \in watched'
  <2>1. vec[y][1] \in ToSet(vec[y])
    BY <1>3, <1>9, ListIs
  <2>2. vec[y][1] \in ToSet(lists[y]) /\ vec[y][1] \notin ns /\ vec[y][1] \in Notifiers
    BY <2>1, <1>3, ListIs
  <2>3. Type[vec[y][1]] = y
    BY <2>2, <1>0 DEF Listed
  <2> QED BY <2>1, <2>2, <2>3, <1>2, <1>6
<1>10. ASSUME \E n \in ns : Fd[n] = highest PROVE IsHighest(highest', watched')
  <2> DEFINE S == {-1} \cup {Fd[vec[y][1]] : y \in {x \in 0..2 : vec[x] # <<>>}}
             W == {-1} \cup {Fd[n] : n \in watched'}
  <2>1. highest' = Max(S)
    BY <1>2, <1>10 DEF HighestOf
  <2>2. W \in SUBSET Int /\ IsFiniteSet(W) /\ \A x \in W : x >= -1
    BY <1>6, FdsAre
  <2>3. S \in SUBSET W /\ S # {} /\ -1 \in S
    BY <1>9
  <2>4. \A n \in watched' : \E x \in S : x >= Fd[n]
    BY <1>8
  <2>5. \A n \in watched' : Fd[n] \in Int
    BY <1>6, NotifiersAssumption
  <2> HIDE DEF S
  <2>6. IsFiniteSet(S) /\ S \in SUBSET Int
    <3> HIDE DEF W
    <3> QED BY <2>2, <2>3, FS_Subset
  <2>7. highest' \in S /\ \A x \in S : highest' >= x
    <3> HIDE DEF W
    <3>1. Max(S) \in S /\ \A x \in S : Max(S) >= x
      BY <2>3, <2>6, MaxIs
    <3> QED BY <3>1, <2>1
  <2>8. highest' \in W /\ highest' >= -1
    BY <2>3, <2>7
  <2>9. ASSUME NEW n \in watched' PROVE highest' >= Fd[n]
    <3>1. PICK x \in S : x >= Fd[n]
      BY <2>4
    <3>2. highest' >= x /\ highest' \in Int /\ x \in Int /\ Fd[n] \in Int
      BY <2>5, <2>6, <2>7
    <3> QED BY <3>1, <3>2
  <2> QED BY <2>8, <2>9 DEF IsHighest
<1>11. ASSUME ~\E n \in ns : Fd[n] = highest PROVE IsHighest(highest', watched')
  BY <1>0, <1>2, <1>11 DEF IsHighest
<1>12. highest' \in Int
  <2>1. watched' \in SUBSET Notifiers /\ highest' \in {-1} \cup {Fd[n] : n \in watched'}
    BY <1>6, <1>10, <1>11 DEF IsHighest
  <2> QED BY <2>1, NotifiersAssumption
<1>13. NotifiersTyped'
  BY <1>0, <1>2, <1>4, <1>6, <1>7, <1>12 DEF NotifiersTyped
<1>14. queued' = ToSet(pending') /\ \A m \in ToSet(pending') : m \in ToSet(lists'[Type[m]])
  BY <1>0, <1>2, <1>5, <1>7
<1> QED BY <1>4, <1>6, <1>7, <1>10, <1>11, <1>13, <1>14, NotifiersAreNext

\* Those that select() reported are put on the pending list, once each.
LEMMA SetPendingKeeps ==
  ASSUME NotifiersInv, SetPending
  PROVE  NotifiersInv'
<1>0. /\ NotifiersTyped /\ Listed
      /\ watched = {m \in Notifiers : m \in ToSet(lists[Type[m]])} /\ IsHighest(highest, watched)
      /\ queued = ToSet(pending) /\ IsInjective(pending)
      /\ \A m \in ToSet(pending) : m \in ToSet(lists[Type[m]])
  BY NotifiersAre
<1>1. PICK all : all = lists[0] \o lists[1] \o lists[2]
  OBVIOUS
<1>2. PICK more : more = Sublist(all, Selected \ queued)
  OBVIOUS
<1>3. /\ pending' = pending \o more /\ queued' = queued \cup Selected
      /\ lists' = lists /\ watched' = watched /\ highest' = highest
  BY <1>1, <1>2 DEF SetPending
<1>4. /\ all \in Seq(Notifiers) /\ IsInjective(all)
      /\ ToSet(all) = ToSet(lists[0]) \cup ToSet(lists[1]) \cup ToSet(lists[2])
  <2>1. /\ \A y \in {0, 1, 2} : lists[y] \in Seq(Notifiers) /\ IsInjective(lists[y])
        /\ \A y \in {0, 1, 2} : \A m \in ToSet(lists[y]) : Type[m] = y
    BY <1>0 DEF NotifiersTyped, Listed
  <2>2. PICK q : q = lists[0] \o lists[1]
    OBVIOUS
  <2>3. q \in Seq(Notifiers) /\ IsInjective(q) /\ ToSet(q) = ToSet(lists[0]) \cup ToSet(lists[1])
    <3>1. ToSet(lists[0]) \cap ToSet(lists[1]) = {}
      BY <2>1
    <3> QED BY <2>1, <2>2, <3>1, ConcatIs
  <2>4. ToSet(q) \cap ToSet(lists[2]) = {} /\ all = q \o lists[2]
    BY <1>1, <2>1, <2>2, <2>3
  <2> QED BY <2>1, <2>3, <2>4, ConcatIs
<1>5. Selected \subseteq watched /\ watched \subseteq ToSet(all) /\ watched \subseteq Notifiers
  <2>1. Selected \subseteq watched
    BY DEF Selected
  <2>2. \A m \in watched : Type[m] \in {0, 1, 2} /\ m \in ToSet(lists[Type[m]])
    BY <1>0, NotifiersAssumption
  <2>3. watched \subseteq Notifiers
    BY <1>0
  <2> QED BY <2>1, <2>2, <2>3, <1>4
<1>6. more \in Seq(Notifiers) /\ IsInjective(more) /\ ToSet(more) = Selected \ queued
  <2>1. /\ more \in Seq(Notifiers) /\ Embeds(more, all)
        /\ ToSet(more) = ToSet(all) \cap (Selected \ queued)
    BY <1>2, <1>4, SublistIs
  <2> QED BY <2>1, <1>4, <1>5, EmbedsKeeps
<1>7. /\ pending' \in Seq(Notifiers) /\ IsInjective(pending')
      /\ ToSet(pending') = queued \cup Selected
  <2>1. pending \in Seq(Notifiers) /\ ToSet(pending) \cap ToSet(more) = {}
    BY <1>0, <1>6 DEF NotifiersTyped
  <2>2. /\ pending \o more \in Seq(Notifiers) /\ IsInjective(pending \o more)
        /\ ToSet(pending \o more) = ToSet(pending) \cup ToSet(more)
    BY <2>1, <1>0, <1>6, ConcatIs
  <2> QED BY <2>2, <1>0, <1>3, <1>6
<1>8. NotifiersTyped' /\ Listed'
  BY <1>0, <1>3, <1>5, <1>7 DEF NotifiersTyped, Listed
<1>9. \A m \in ToSet(pending') : m \in ToSet(lists'[Type[m]])
  BY <1>0, <1>3, <1>5, <1>7
<1> QED BY <1>0, <1>3, <1>7, <1>8, <1>9, NotifiersAreNext

\* The first pending one is activated.
LEMMA TakePendingKeeps ==
  ASSUME NotifiersInv, TakePending
  PROVE  NotifiersInv'
<1>0. /\ NotifiersTyped /\ Listed
      /\ watched = {m \in Notifiers : m \in ToSet(lists[Type[m]])} /\ IsHighest(highest, watched)
      /\ queued = ToSet(pending) /\ IsInjective(pending)
      /\ \A m \in ToSet(pending) : m \in ToSet(lists[Type[m]])
  BY NotifiersAre
<1>1. /\ pending # <<>> /\ pending' = Tail(pending) /\ queued' = queued \ {Head(pending)}
      /\ lists' = lists /\ watched' = watched /\ highest' = highest
  BY DEF TakePending
<1>2. /\ pending' \in Seq(Notifiers) /\ ToSet(pending') = ToSet(pending) \ {Head(pending)}
      /\ IsInjective(pending')
  <2>1. pending \in Seq(Notifiers)
    BY <1>0 DEF NotifiersTyped
  <2>2. /\ Tail(pending) \in Seq(Notifiers) /\ Embeds(Tail(pending), pending)
        /\ ToSet(Tail(pending)) = ToSet(pending) \ {Head(pending)}
    BY <2>1, <1>0, <1>1, TailIs
  <2>3. IsInjective(Tail(pending))
    BY <2>1, <2>2, <1>0, EmbedsKeeps
  <2> QED BY <2>2, <2>3, <1>1
<1>3. NotifiersTyped' /\ Listed'
  BY <1>0, <1>1, <1>2 DEF NotifiersTyped, Listed
<1> QED BY <1>0, <1>1, <1>2, <1>3, NotifiersAreNext

-----------------------------------------------------------------------------
(* The calls.                                                              *)

\* The innermost call.
LEMMA TopIs ==
  ASSUME CallsTyped
  PROVE  /\ Depth \in Nat /\ DOMAIN stack = 1..Depth /\ Depth <= MaxDepth /\ MaxDepth \in Nat
         /\ \A i \in DOMAIN stack : stack[i] \in FrameT
         /\ stack = <<>> <=> Depth = 0
         /\ stack # <<>> => Depth \in DOMAIN stack /\ Top \in FrameT /\ Depth \in 1..MaxDepth
<1>1. /\ Depth \in Nat /\ DOMAIN stack = 1..Depth /\ \A i \in DOMAIN stack : stack[i] \in FrameT
      /\ stack # <<>> => Depth >= 1
  BY ListIs DEF CallsTyped, Depth
<1>2. stack = <<>> => Depth = 0
  BY DEF Depth
<1>3. Depth <= MaxDepth /\ MaxDepth \in Nat
  BY DispatcherAssumption DEF CallsTyped, Depth
<1> HIDE DEF FrameT
<1>4. stack # <<>> => Depth \in DOMAIN stack
  BY <1>1
<1>5. stack # <<>> => Top \in FrameT /\ Depth \in 1..MaxDepth
  BY <1>1, <1>3, <1>4 DEF Top
<1> QED BY <1>1, <1>2, <1>3, <1>4, <1>5

\* The innermost call goes on elsewhere.
LEMMA GoIs ==
  ASSUME CallsTyped, stack # <<>>, NEW f \in FrameT, Go(f)
  PROVE  /\ stack' \in Seq(FrameT) /\ Len(stack') = Depth /\ DOMAIN stack' = DOMAIN stack
         /\ stack' # <<>> /\ Top' = f
         /\ \A i \in DOMAIN stack : stack'[i] = IF i = Depth THEN f ELSE stack[i]
<1>1. /\ Depth \in Nat /\ Depth \in 1..Len(stack) /\ DOMAIN stack = 1..Depth /\ Depth = Len(stack)
      /\ stack \in Seq(FrameT)
  BY TopIs DEF CallsTyped, Depth
<1>2. PICK s : s = [stack EXCEPT ![Depth] = f]
  OBVIOUS
<1> HIDE DEF FrameT
<1>3. /\ s \in Seq(FrameT) /\ Len(s) = Len(stack)
      /\ \A i \in 1..Len(stack) : s[i] = IF i = Depth THEN f ELSE stack[i]
  BY <1>1, <1>2, ExceptSeq
<1>4. stack' = s /\ DOMAIN s = 1..Depth
  BY <1>1, <1>2, <1>3 DEF Go
<1>5. Len(stack') = Depth /\ stack' # <<>>
  <2>1. Len(s) = Depth /\ Depth # 0
    BY <1>1, <1>3, TopIs
  <2>2. Len(<<>>) = 0
    OBVIOUS
  <2> QED BY <2>1, <2>2, <1>4
<1>6. Top' = f
  BY <1>1, <1>3, <1>4 DEF Top, Depth
<1> QED BY <1>1, <1>3, <1>4, <1>5, <1>6

\* It ends.
LEMMA EndIs ==
  ASSUME CallsTyped, stack # <<>>, stack' = Front(stack)
  PROVE  /\ stack' \in Seq(FrameT) /\ Len(stack') = Depth - 1
         /\ DOMAIN stack' = DOMAIN stack \ {Depth}
         /\ \A i \in DOMAIN stack' : stack'[i] = stack[i]
<1>1. /\ Depth \in Nat /\ Depth >= 1 /\ DOMAIN stack = 1..Depth /\ Depth = Len(stack)
      /\ \A i \in 1..Depth : stack[i] \in FrameT
  BY TopIs DEF Depth
<1> HIDE DEF FrameT
<1>2. PICK n : n = Depth - 1 /\ n \in Nat
  <2>1. Depth - 1 \in Nat
    BY <1>1
  <2> QED BY <2>1
<1>3. PICK s : s = SubSeq(stack, 1, n)
  OBVIOUS
<1>4. \A i \in 1..n : stack[i] \in FrameT
  BY <1>1, <1>2
<1>5. /\ s \in Seq(FrameT) /\ Len(s) = IF 1 <= n THEN n - 1 + 1 ELSE 0
      /\ \A i \in 1..(n - 1 + 1) : s[i] = stack[1 + i - 1]
  <2>1. 1 \in Int /\ n \in Int
    BY <1>2
  <2> QED BY <2>1, <1>3, <1>4, SubSeqProperties
<1>6. Len(s) = n /\ DOMAIN s = 1..n /\ \A i \in 1..n : s[i] = stack[i]
  <2>1. Len(s) = n /\ DOMAIN s = 1..Len(s)
    BY <1>2, <1>5, LenProperties
  <2>2. \A i \in 1..n : i \in 1..(n - 1 + 1) /\ 1 + i - 1 = i
    BY <1>2
  <2> QED BY <2>1, <2>2, <1>5
<1>7. stack' = s
  BY <1>1, <1>2, <1>3 DEF Front
<1>8. 1..n = (1..Depth) \ {Depth}
  BY <1>1, <1>2
<1> QED BY <1>1, <1>2, <1>5, <1>6, <1>7, <1>8

\* Another one begins in user code.
LEMMA BeginIs ==
  ASSUME CallsTyped, NEW f \in FrameT, stack' = Append(stack, f)
  PROVE  /\ stack' \in Seq(FrameT) /\ Len(stack') = Depth + 1
         /\ DOMAIN stack' = DOMAIN stack \cup {Depth + 1}
         /\ stack' # <<>> /\ Top' = f /\ stack'[Depth + 1] = f
         /\ \A i \in DOMAIN stack : stack'[i] = stack[i]
<1>1. Depth \in Nat /\ DOMAIN stack = 1..Depth /\ Depth = Len(stack) /\ stack \in Seq(FrameT)
  BY TopIs DEF CallsTyped, Depth
<1> HIDE DEF FrameT
<1>2. PICK s : s = Append(stack, f)
  OBVIOUS
<1>3. /\ s \in Seq(FrameT) /\ Len(s) = Len(stack) + 1 /\ s # <<>>
      /\ \A i \in 1..Len(stack) : s[i] = stack[i]
      /\ s[Len(stack) + 1] = f
  BY <1>1, <1>2, AppendProperties
<1>4. DOMAIN s = 1..(Depth + 1)
  BY <1>1, <1>3, ListIs
<1>5. 1..(Depth + 1) = (1..Depth) \cup {Depth + 1}
  BY <1>1
<1>6. Top' = f
  BY <1>1, <1>2, <1>3 DEF Top, Depth
<1> QED BY <1>1, <1>2, <1>3, <1>4, <1>5, <1>6

\* A call that is not delivering a timer has no currentTimerInfo.
LEMMA NoTimerAtTop ==
  ASSUME TimersInv, CallsTyped, Linked, stack # <<>>, Top.at # "timerEvent"
  PROVE  Top.cur = 0 /\ \A t \in ToSet(list) : activateRef[t] # 0 => activateRef[t] # Depth /\ t # 0
<1>1. Depth \in DOMAIN stack /\ Top = stack[Depth]
  BY TopIs DEF Top
<1>2. Top.cur = 0
  BY <1>1 DEF Linked
<1>3. ASSUME NEW t \in ToSet(list), activateRef[t] # 0 PROVE activateRef[t] # Depth /\ t # 0
  <2>1. activateRef[t] \in DOMAIN stack /\ stack[activateRef[t]].cur = t
    BY <1>3 DEF Linked
  <2>2. t \in Timers /\ Timers = 1..MaxTimers /\ MaxTimers \in Nat
    BY TimersAssumption, ListIs DEF TimersInv, TimersTyped, Timers
  <2> QED BY <2>1, <2>2, <1>1, <1>2
<1> QED BY <1>2, <1>3

\* The timers stay: a call that delivers none goes on elsewhere ...
LEMMA GoKeeps ==
  ASSUME TimersInv, CallsTyped, Linked, stack # <<>>, Top.at # "timerEvent",
         NEW f \in FrameT, f.cur = 0, Go(f), list' = list, activateRef' = activateRef,
         living' = living
  PROVE  CallsTyped' /\ Linked' /\ stack' # <<>> /\ Top' = f
<1>1. /\ stack' \in Seq(FrameT) /\ Len(stack') = Depth /\ DOMAIN stack' = DOMAIN stack
      /\ stack' # <<>> /\ Top' = f
      /\ \A i \in DOMAIN stack : stack'[i] = IF i = Depth THEN f ELSE stack[i]
  BY GoIs
<1>2. Depth' = Depth /\ Depth <= MaxDepth
  BY <1>1, TopIs DEF Depth
<1> HIDE DEF FrameT
<1>3. CallsTyped'
  BY <1>1, <1>2 DEF CallsTyped
<1>4. ASSUME NEW i \in DOMAIN stack', stack'[i].cur # 0
      PROVE  /\ stack'[i].cur \in ToSet(list') /\ activateRef'[stack'[i].cur] = i
             /\ stack'[i].at = "timerEvent"
  BY <1>1, <1>4 DEF Linked, Registered
<1>5. ASSUME NEW t \in ToSet(list'), activateRef'[t] # 0
      PROVE  activateRef'[t] \in DOMAIN stack' /\ stack'[activateRef'[t]].cur = t
  BY <1>1, <1>5, NoTimerAtTop DEF Linked
<1>6. \A i \in DOMAIN stack' : i # Depth' => stack'[i].at \in {"slot", "timerEvent"}
  BY <1>1, <1>2 DEF Linked
<1>7. Linked'
  BY <1>4, <1>5, <1>6 DEF Linked, Registered
<1> QED BY <1>1, <1>3, <1>7

\* ... or ends.
LEMMA EndKeeps ==
  ASSUME TimersInv, CallsTyped, Linked, stack # <<>>, Top.at # "timerEvent", stack' = Front(stack),
         list' = list, activateRef' = activateRef, living' = living
  PROVE  CallsTyped' /\ Linked' /\ SleepsUntilNextTimer'
<1>1. /\ stack' \in Seq(FrameT) /\ Len(stack') = Depth - 1 /\ DOMAIN stack' = DOMAIN stack \ {Depth}
      /\ \A i \in DOMAIN stack' : stack'[i] = stack[i]
  BY EndIs
<1>2. Depth' = Depth - 1 /\ Depth \in Nat /\ Depth <= MaxDepth /\ MaxDepth \in Nat
  BY <1>1, TopIs DEF Depth
<1> HIDE DEF FrameT
<1>3. CallsTyped'
  BY <1>1, <1>2 DEF CallsTyped, Depth
<1>4. ASSUME NEW i \in DOMAIN stack', stack'[i].cur # 0
      PROVE  /\ stack'[i].cur \in ToSet(list') /\ activateRef'[stack'[i].cur] = i
             /\ stack'[i].at = "timerEvent"
  BY <1>1, <1>4 DEF Linked, Registered
<1>5. ASSUME NEW t \in ToSet(list'), activateRef'[t] # 0
      PROVE  activateRef'[t] \in DOMAIN stack' /\ stack'[activateRef'[t]].cur = t
  BY <1>1, <1>5, NoTimerAtTop DEF Linked
<1>6. \A i \in DOMAIN stack' : stack'[i].at \in {"slot", "timerEvent"}
  BY <1>1 DEF Linked
<1>7. Linked'
  BY <1>4, <1>5, <1>6 DEF Linked, Registered
<1>8. SleepsUntilNextTimer'
  <2>1. stack' # <<>> => Depth' \in DOMAIN stack'
    BY <1>3, TopIs, ListIs, <1>1 DEF Depth
  <2> QED BY <2>1, <1>6 DEF SleepsUntilNextTimer, At, Top
<1> QED BY <1>3, <1>7, <1>8

-----------------------------------------------------------------------------
(* The program's steps.                                                    *)

\* User code runs in a slot or a handler, or outside all calls.
LEMMA InProgramIs ==
  ASSUME CallsTyped, InProgram
  PROVE  stack # <<>> => stack[Depth].at \in {"slot", "timerEvent"}
BY DEF InProgram, At, Top

\* Who does not select needs no time to sleep until.
LEMMA NotAsleep ==
  ASSUME CallsTyped, InProgram, DOMAIN stack' = DOMAIN stack, Len(stack') = Depth,
         \A i \in DOMAIN stack : stack'[i].at = stack[i].at
  PROVE  SleepsUntilNextTimer'
<1>1. stack # <<>> => Depth \in DOMAIN stack
  BY TopIs
<1>2. stack' # <<>> => stack # <<>>
  BY TopIs DEF Depth
<1>3. stack' # <<>> => stack'[Depth'].at \in {"slot", "timerEvent"}
  BY <1>1, <1>2, InProgramIs DEF Depth
<1> QED BY <1>3 DEF SleepsUntilNextTimer, At, Top

\* A step that leaves the timers and the calls alone, but for the clock.
LEMMA Stays ==
  ASSUME IInv, UNCHANGED <<timerVars, stack, living>>, now' \in Nat
  PROVE  TimersInv' /\ CallsTyped' /\ Owned' /\ Linked' /\ SleepsUntilNextTimer'
<1>1. /\ list' = list /\ timeout' = timeout /\ interval' = interval /\ owner' = owner
      /\ activateRef' = activateRef /\ firstTimer' = firstTimer
      /\ stack' = stack /\ living' = living
  BY DEF timerVars
<1>2. TimersInv'
  BY <1>1 DEF IInv, TimersInv, TimersTyped, Ordered, Registered
<1>3. CallsTyped' /\ Owned'
  BY <1>1 DEF IInv, CallsTyped, Owned
<1>4. Linked'
  BY <1>1 DEF IInv, Linked, Registered, Depth
<1>5. SleepsUntilNextTimer'
  BY <1>1 DEF IInv, SleepsUntilNextTimer, At, Top, Depth
<1> QED BY <1>2, <1>3, <1>4, <1>5

\* Steps that leave the notifiers alone.
LEMMA NotifiersStay ==
  ASSUME NotifiersInv, UNCHANGED notifierVars
  PROVE  NotifiersInv'
BY DEF NotifiersInv, NotifiersTyped, Listed, WatchesEveryNotifier, Enabled, notifierVars

\* startTimer: a timer of a living object, delivered by no call.
LEMMA StartTimerKeeps ==
  ASSUME IInv, NEW o \in Objects, NEW i \in Intervals, StartTimer(o, i)
  PROVE  IInv'
<1>1. /\ InProgram /\ o \in living /\ RegisterTimer(o, i) /\ now' = now
      /\ UNCHANGED notifierVars /\ stack' = stack /\ living' = living
  BY DEF StartTimer, Spend, notifiers
<1>2. TimersInv /\ CallsTyped /\ NotifiersInv /\ Owned /\ Linked
  BY DEF IInv
<1>3. PICK t \in Timers :
        /\ t \notin ToSet(list) /\ ToSet(list') = ToSet(list) \cup {t}
        /\ owner' = [owner EXCEPT ![t] = o]
        /\ activateRef' = [activateRef EXCEPT ![t] = 0]
  BY <1>1, <1>2, RegisterTimerKeeps
<1>4. TimersInv'
  BY <1>1, <1>2, RegisterTimerKeeps
<1>5. CallsTyped' /\ Depth' = Depth
  BY <1>1, <1>2 DEF CallsTyped, Depth
<1>6. /\ ToSet(list) \subseteq Timers /\ owner'[t] = o /\ activateRef'[t] = 0
      /\ \A u \in ToSet(list) : owner'[u] = owner[u] /\ activateRef'[u] = activateRef[u]
  <2>1. ToSet(list) \subseteq Timers
    BY <1>2, ListIs DEF TimersInv, TimersTyped
  <2> QED BY <2>1, <1>2, <1>3 DEF TimersInv, TimersTyped
<1>7. Owned'
  BY <1>1, <1>2, <1>3, <1>6 DEF Owned
<1>8. Linked'
  <2>1. ASSUME NEW k \in DOMAIN stack, stack[k].cur # 0
        PROVE  /\ stack[k].cur \in ToSet(list') /\ activateRef'[stack[k].cur] = k
               /\ stack[k].at = "timerEvent"
    BY <2>1, <1>2, <1>3, <1>6 DEF Linked, Registered
  <2>2. ASSUME NEW u \in ToSet(list'), activateRef'[u] # 0
        PROVE  activateRef'[u] \in DOMAIN stack /\ stack[activateRef'[u]].cur = u
    BY <2>2, <1>2, <1>3, <1>6 DEF Linked
  <2>3. \A k \in DOMAIN stack : k # Depth => stack[k].at \in {"slot", "timerEvent"}
    BY <1>2 DEF Linked
  <2> QED BY <2>1, <2>2, <2>3, <1>1, <1>5 DEF Linked, Registered
<1>9. SleepsUntilNextTimer'
  BY <1>1, <1>2, NotAsleep DEF Depth
<1> QED BY <1>1, <1>2, <1>4, <1>5, <1>7, <1>8, <1>9, NotifiersStay DEF IInv

\* Timers are killed: no call that is under way has them any more.
LEMMA ForgetKeeps ==
  ASSUME TimersInv, CallsTyped, Linked, InProgram, NEW ts \in SUBSET Timers,
         UnregisterTimers(ts), now' = now, stack' = Forget(ts), living' \subseteq Objects
  PROVE  TimersInv' /\ CallsTyped' /\ Linked' /\ SleepsUntilNextTimer'
<1>1. /\ TimersInv' /\ ToSet(list') = ToSet(list) \ ts
      /\ \A t \in Timers \ ts : activateRef'[t] = activateRef[t]
  BY UnregisterTimersKeeps
<1>2. ToSet(list) \subseteq Timers /\ 0 \notin Timers
  <2>1. ToSet(list) \subseteq Timers
    BY ListIs DEF TimersInv, TimersTyped
  <2> QED BY <2>1, TimersAssumption DEF Timers
<1>3. /\ Depth \in Nat /\ DOMAIN stack = 1..Depth /\ Depth <= MaxDepth
      /\ \A i \in DOMAIN stack : stack[i] \in FrameT
  BY TopIs
<1>4. DOMAIN stack' = DOMAIN stack
  BY DEF Forget
<1>5. ASSUME NEW i \in DOMAIN stack
      PROVE  /\ stack'[i] \in FrameT /\ stack'[i].at = stack[i].at
             /\ stack'[i].cur = IF stack[i].cur \in ts THEN 0 ELSE stack[i].cur
  <2>1. PICK f \in FrameT : f = stack[i]
    BY <1>3
  <2>2. stack'[i] = IF f.cur \in ts THEN [f EXCEPT !.cur = 0] ELSE f
    BY <2>1 DEF Forget
  <2>3. 0 \in 0..MaxTimers
    BY TimersAssumption
  <2> QED BY <2>1, <2>2, <2>3 DEF FrameT
<1>6. stack' \in Seq(FrameT) /\ Len(stack') = Depth
  <2> HIDE DEF FrameT
  <2>1. stack' = [i \in 1..Depth |-> stack'[i]]
    BY <1>3 DEF Forget
  <2>2. stack' \in [1..Depth -> FrameT]
    BY <2>1, <1>3, <1>5
  <2>3. stack' \in Seq(FrameT)
    BY <2>2, <1>3, SeqDef
  <2>4. DOMAIN stack' = 1..Len(stack') /\ Len(stack') \in Nat
    BY <2>3, LenProperties
  <2>5. PICK n \in Nat : n = Len(stack')
    BY <2>4
  <2>6. PICK d \in Nat : d = Depth
    BY <1>3
  <2>7. 1..n = 1..d
    BY <2>4, <2>5, <2>6, <1>3, <1>4
  <2>8. n = d
    BY <2>7
  <2> QED BY <2>3, <2>5, <2>6, <2>8
<1> HIDE DEF FrameT
<1>7. CallsTyped' /\ Depth' = Depth
  BY <1>3, <1>6 DEF CallsTyped, Depth
<1>8. ASSUME NEW i \in DOMAIN stack', stack'[i].cur # 0
      PROVE  /\ stack'[i].cur \in ToSet(list') /\ activateRef'[stack'[i].cur] = i
             /\ stack'[i].at = "timerEvent"
  BY <1>8, <1>1, <1>2, <1>4, <1>5 DEF Linked, Registered
<1>9. ASSUME NEW t \in ToSet(list'), activateRef'[t] # 0
      PROVE  activateRef'[t] \in DOMAIN stack' /\ stack'[activateRef'[t]].cur = t
  <2>1. t \in ToSet(list) /\ t \notin ts /\ activateRef'[t] = activateRef[t]
    BY <1>1, <1>2
  <2>2. activateRef[t] \in DOMAIN stack /\ stack[activateRef[t]].cur = t
    BY <2>1, <1>9 DEF Linked
  <2> QED BY <2>1, <2>2, <1>4, <1>5
<1>10. \A i \in DOMAIN stack' : i # Depth' => stack'[i].at \in {"slot", "timerEvent"}
  BY <1>4, <1>5, <1>7 DEF Linked
<1>11. Linked'
  BY <1>8, <1>9, <1>10 DEF Linked, Registered
<1>12. SleepsUntilNextTimer'
  BY <1>4, <1>5, <1>6, NotAsleep
<1> QED BY <1>1, <1>7, <1>11, <1>12

\* killTimer, and the destructor, which kills all timers of the object.
LEMMA KillTimerKeeps ==
  ASSUME IInv, NEW t \in Timers, KillTimer(t)
  PROVE  IInv'
<1>1. /\ InProgram /\ UnregisterTimers({t}) /\ stack' = Forget({t}) /\ now' = now
      /\ UNCHANGED notifierVars /\ living' = living
  BY DEF KillTimer, Spend, notifiers
<1>2. TimersInv /\ CallsTyped /\ NotifiersInv /\ Owned /\ Linked /\ living' \subseteq Objects
  BY <1>1 DEF IInv, CallsTyped
<1>3. {t} \in SUBSET Timers
  OBVIOUS
<1>4. TimersInv' /\ CallsTyped' /\ Linked' /\ SleepsUntilNextTimer'
  BY <1>1, <1>2, <1>3, ForgetKeeps
<1>5. Owned'
  <2>1. ToSet(list) \subseteq Timers
    BY <1>2, ListIs DEF TimersInv, TimersTyped
  <2> QED BY <2>1, <1>1, <1>2, UnregisterTimersKeeps DEF Owned
<1> QED BY <1>1, <1>2, <1>4, <1>5, NotifiersStay DEF IInv

LEMMA DestroyObjectKeeps ==
  ASSUME IInv, NEW o \in Objects, DestroyObject(o)
  PROVE  IInv'
<1>1. PICK ts : ts = OwnedBy(o)
  OBVIOUS
<1>2. /\ InProgram /\ UnregisterTimers(ts) /\ stack' = Forget(ts) /\ now' = now
      /\ UNCHANGED notifierVars /\ living' = living \ {o}
  BY <1>1 DEF DestroyObject, Spend, notifiers
<1>3. TimersInv /\ CallsTyped /\ NotifiersInv /\ Owned /\ Linked /\ living' \subseteq Objects
  BY <1>2 DEF IInv, CallsTyped
<1>4. ToSet(list) \subseteq Timers
  BY <1>3, ListIs DEF TimersInv, TimersTyped
<1>5. ts \in SUBSET Timers /\ \A t \in ToSet(list) : owner[t] = o => t \in ts
  BY <1>1, <1>4 DEF OwnedBy
<1>6. TimersInv' /\ CallsTyped' /\ Linked' /\ SleepsUntilNextTimer'
  BY <1>2, <1>3, <1>5, ForgetKeeps
<1>7. Owned'
  BY <1>2, <1>3, <1>4, <1>5, UnregisterTimersKeeps DEF Owned
<1> QED BY <1>2, <1>3, <1>6, <1>7, NotifiersStay DEF IInv

\* Notifiers, sockets and the clock.
LEMMA OutsideKeeps ==
  ASSUME IInv, \/ Clock
               \/ \E n \in Notifiers : \/ Enable(n) \/ Disable(n) \/ CloseFd(n)
                                       \/ Consume(n) \/ Arrive(n)
  PROVE  IInv'
<1>0. NotifiersInv /\ now \in Nat
  BY DEF IInv, TimersInv, TimersTyped
<1>1. UNCHANGED <<timerVars, stack, living>> /\ now' \in Nat
  BY <1>0 DEF Clock, Tick, Enable, Disable, CloseFd, Consume, Arrive, timers
<1>2. NotifiersInv'
  <2>1. CASE UNCHANGED notifierVars
    BY <2>1, <1>0, NotifiersStay
  <2>2. ASSUME NEW n \in Notifiers, Enable(n) PROVE NotifiersInv'
    BY <2>2, <1>0, RegisterNotifierKeeps DEF Enable
  <2>3. ASSUME NEW n \in Notifiers, Disable(n) PROVE NotifiersInv'
    BY <2>3, <1>0, UnregisterKeeps DEF Disable, UnregisterNotifier
  <2>4. \/ UNCHANGED notifierVars \/ \E n \in Notifiers : Enable(n) \/ Disable(n)
    BY DEF Clock, CloseFd, Consume, Arrive, notifiers
  <2> QED BY <2>1, <2>2, <2>3, <2>4
<1> QED BY <1>1, <1>2, Stays DEF IInv

-----------------------------------------------------------------------------
(* The steps of processEvents.                                             *)

\* The first timer in the list that is not being delivered is the next one of them.
LEMMA TimerWaitIs ==
  ASSUME TimersInv
  PROVE  /\ TimerWait \in Nat
         /\ \A t \in ToSet(list) : activateRef[t] = 0 => TimerWait <= timeout[t]
<1>0. /\ list \in Seq(Timers) /\ timeout \in [Timers -> Nat] /\ Rising(list, timeout)
      /\ ToSet(list) \subseteq Timers
  BY ListIs DEF TimersInv, TimersTyped, Ordered
<1>1. PICK w : w = Sublist(list, {t \in Timers : activateRef[t] = 0})
  OBVIOUS
<1>2. /\ w \in Seq(Timers) /\ Embeds(w, list)
      /\ ToSet(w) = ToSet(list) \cap {t \in Timers : activateRef[t] = 0}
  BY <1>0, <1>1, SublistIs
<1>3. Rising(w, timeout)
  BY <1>0, <1>2, EmbedsKeeps
<1>4. TimerWait = IF w = <<>> THEN MaxTime + 1 ELSE timeout[Head(w)]
  BY <1>1 DEF TimerWait
<1>5. CASE w = <<>>
  <2>1. ToSet(w) = {}
    BY <1>2, <1>5, ListIs
  <2>2. TimerWait \in Nat
    BY <1>4, <1>5, TimersAssumption
  <2> QED BY <2>1, <2>2, <1>0, <1>2
<1>6. CASE w # <<>>
  <2>1. /\ Head(w) = w[1] /\ 1 \in DOMAIN w /\ DOMAIN w = 1..Len(w) /\ Len(w) \in Nat
        /\ \A i \in DOMAIN w : w[i] \in Timers
    BY <1>2, <1>6, ListIs
  <2>2. TimerWait = timeout[w[1]] /\ TimerWait \in Nat
    BY <2>1, <1>0, <1>4, <1>6
  <2>3. ASSUME NEW t \in ToSet(list), activateRef[t] = 0 PROVE TimerWait <= timeout[t]
    <3>1. t \in ToSet(w)
      BY <2>3, <1>0, <1>2
    <3>2. PICK i \in DOMAIN w : w[i] = t
      BY <3>1, <1>2, ListIs
    <3>3. i = 1 \/ 1 < i
      BY <2>1
    <3>4. i = 1 => TimerWait <= timeout[t]
      BY <2>2, <3>2
    <3>5. 1 < i => TimerWait <= timeout[t]
      BY <2>1, <2>2, <3>2, <1>3 DEF Rising
    <3> QED BY <3>3, <3>4, <3>5
  <2> QED BY <2>2, <2>3
<1> QED BY <1>5, <1>6

\* A call of processEvents begins, with the time it may sleep until.
LEMMA ProcessEventsKeeps ==
  ASSUME IInv, NEW canWait \in BOOLEAN, ProcessEvents(canWait)
  PROVE  IInv'
<1>0. TimersInv /\ CallsTyped /\ NotifiersInv /\ Owned /\ Linked
  BY DEF IInv
<1>1. /\ InProgram /\ Depth < MaxDepth /\ living' = living /\ UNCHANGED notifierVars
      /\ list' = list /\ timeout' = timeout /\ interval' = interval /\ owner' = owner
      /\ activateRef' = activateRef /\ firstTimer' = firstTimer /\ now' = now
  BY DEF ProcessEvents, timers, timerVars, notifiers
<1>2. PICK until : until = IF canWait THEN TimerWait ELSE 0
  OBVIOUS
<1>3. PICK f : f = NewCall(until)
  OBVIOUS
<1>4. until \in Nat /\ \A t \in ToSet(list) : activateRef[t] = 0 => until <= timeout[t]
  <2>1. \A t \in ToSet(list) : timeout[t] \in Nat
    BY <1>0, ListIs DEF TimersInv, TimersTyped
  <2> QED BY <2>1, <1>0, <1>2, TimerWaitIs
<1>5. f \in FrameT /\ f.cur = 0 /\ f.at = "select" /\ f.until = until
  BY <1>3, <1>4, TimersAssumption DEF NewCall, FrameT
<1>6. stack' = Append(stack, f)
  BY <1>2, <1>3 DEF ProcessEvents
<1>7. /\ stack' \in Seq(FrameT) /\ Len(stack') = Depth + 1
      /\ DOMAIN stack' = DOMAIN stack \cup {Depth + 1}
      /\ stack' # <<>> /\ Top' = f /\ stack'[Depth + 1] = f
      /\ \A i \in DOMAIN stack : stack'[i] = stack[i]
  BY <1>0, <1>5, <1>6, BeginIs
<1>8. Depth' = Depth + 1 /\ Depth \in Nat /\ MaxDepth \in Nat
  BY <1>0, <1>7, TopIs DEF Depth
<1>9. CallsTyped'
  <2> HIDE DEF FrameT
  <2>1. Len(stack') <= MaxDepth
    BY <1>1, <1>7, <1>8
  <2> QED BY <2>1, <1>0, <1>1, <1>7 DEF CallsTyped
<1>10. TimersInv' /\ Owned'
  BY <1>0, <1>1 DEF TimersInv, TimersTyped, Ordered, Registered, Owned
<1>11. Linked'
  <2>1. ASSUME NEW i \in DOMAIN stack', stack'[i].cur # 0
        PROVE  /\ stack'[i].cur \in ToSet(list) /\ activateRef[stack'[i].cur] = i
               /\ stack'[i].at = "timerEvent"
    BY <2>1, <1>0, <1>5, <1>7 DEF Linked, Registered
  <2>2. ASSUME NEW t \in ToSet(list), activateRef[t] # 0
        PROVE  activateRef[t] \in DOMAIN stack' /\ stack'[activateRef[t]].cur = t
    BY <2>2, <1>0, <1>7 DEF Linked
  <2>3. ASSUME NEW i \in DOMAIN stack', i # Depth' PROVE stack'[i].at \in {"slot", "timerEvent"}
    <3>1. i \in DOMAIN stack /\ stack'[i] = stack[i] /\ stack # <<>>
      BY <2>3, <1>7, <1>8
    <3>2. stack[Depth].at \in {"slot", "timerEvent"}
      BY <3>1, <1>0, <1>1, InProgramIs
    <3> QED BY <3>1, <3>2, <1>0 DEF Linked
  <2> QED BY <2>1, <2>2, <2>3, <1>1 DEF Linked, Registered
<1>12. SleepsUntilNextTimer'
  BY <1>1, <1>4, <1>5, <1>7 DEF SleepsUntilNextTimer
<1> QED BY <1>0, <1>1, <1>9, <1>10, <1>11, <1>12, NotifiersStay DEF IInv

\* select() and the notifiers.
LEMMA SocketsKeep ==
  ASSUME IInv, Select(TRUE) \/ Select(FALSE) \/ SelectFails \/ ActivateNotifier \/ SlotReturns
  PROVE  IInv'
<1>0. TimersInv /\ CallsTyped /\ NotifiersInv /\ Owned /\ Linked
  BY DEF IInv
<1>1. /\ stack # <<>> /\ Top.at \in {"select", "sockets", "slot"}
      /\ living' = living /\ list' = list /\ timeout' = timeout /\ interval' = interval
      /\ owner' = owner /\ activateRef' = activateRef /\ firstTimer' = firstTimer /\ now' = now
  BY DEF Select, SelectFails, ActivateNotifier, SlotReturns, At, timers, timerVars, notifiers
<1>2. Top \in FrameT /\ Top.cur = 0
  BY <1>0, <1>1, TopIs, NoTimerAtTop
<1>3. NotifiersInv'
  <2>1. CASE Select(TRUE) \/ Select(FALSE)
    BY <2>1, <1>0, SetPendingKeeps DEF Select
  <2>2. CASE SelectFails
    BY <2>2, <1>0, UnregisterKeeps DEF SelectFails, DisableBad
  <2>3. CASE ActivateNotifier
    BY <2>3, <1>0, TakePendingKeeps DEF ActivateNotifier
  <2>4. CASE SlotReturns
    BY <2>4, <1>0, NotifiersStay DEF SlotReturns, notifiers
  <2> QED BY <2>1, <2>2, <2>3, <2>4
<1>4. TimersInv' /\ Owned'
  BY <1>0, <1>1 DEF TimersInv, TimersTyped, Ordered, Registered, Owned
<1>5. \/ stack' = stack /\ Top.at # "select"
      \/ \E f \in FrameT : Go(f) /\ f.cur = 0 /\ f.at # "select"
  <2>1. CASE Select(TRUE) \/ Select(FALSE) \/ SelectFails
    <3>1. PICK f : f = [Top EXCEPT !.at = "sockets"]
      OBVIOUS
    <3>2. f \in FrameT /\ f.cur = 0 /\ f.at # "select"
      BY <3>1, <1>2 DEF FrameT
    <3> QED BY <2>1, <3>1, <3>2 DEF Select, SelectFails
  <2>2. CASE ActivateNotifier /\ Activates
    <3>1. Head(pending) \in Notifiers
      BY <2>2, <1>0, ListIs DEF NotifiersInv, NotifiersTyped, ActivateNotifier, TakePending
    <3>2. PICK f : f = [Top EXCEPT !.at = "slot", !.to = Head(pending)]
      OBVIOUS
    <3>3. f \in FrameT /\ f.cur = 0 /\ f.at # "select"
      BY <3>1, <3>2, <1>2 DEF FrameT
    <3> QED BY <2>2, <3>2, <3>3 DEF ActivateNotifier
  <2>3. CASE ActivateNotifier /\ ~Activates
    BY <2>3 DEF ActivateNotifier, At
  <2>4. CASE SlotReturns
    <3>1. PICK f : f = [Top EXCEPT !.at = "sockets", !.to = Nobody]
      OBVIOUS
    <3>2. f \in FrameT /\ f.cur = 0 /\ f.at # "select"
      BY <3>1, <1>2 DEF FrameT
    <3> QED BY <2>4, <3>1, <3>2 DEF SlotReturns
  <2> QED BY <2>1, <2>2, <2>3, <2>4
<1>6. CallsTyped' /\ Linked' /\ SleepsUntilNextTimer'
  <2>1. CASE stack' = stack /\ Top.at # "select"
    <3>1. UNCHANGED <<timerVars, stack, living>> /\ now' \in Nat
      BY <2>1, <1>0, <1>1 DEF timerVars, TimersInv, TimersTyped
    <3> QED BY <3>1, Stays
  <2>2. ASSUME NEW f \in FrameT, Go(f), f.cur = 0, f.at # "select"
        PROVE  CallsTyped' /\ Linked' /\ SleepsUntilNextTimer'
    <3>1. CallsTyped' /\ Linked' /\ stack' # <<>> /\ Top' = f
      BY <2>2, <1>0, <1>1, GoKeeps
    <3> QED BY <3>1, <2>2 DEF SleepsUntilNextTimer, At
  <2> QED BY <2>1, <2>2, <1>5
<1> QED BY <1>3, <1>4, <1>6 DEF IInv

\* Counting the timers that expired.
LEMMA ActivateTimersKeeps ==
  ASSUME IInv, ActivateTimers
  PROVE  IInv'
<1>0. TimersInv /\ CallsTyped /\ NotifiersInv /\ Owned /\ Linked
  BY DEF IInv
<1>1. /\ stack # <<>> /\ Top.at = "sockets" /\ firstTimer' = 0
      /\ living' = living /\ list' = list /\ timeout' = timeout /\ interval' = interval
      /\ owner' = owner /\ activateRef' = activateRef /\ now' = now /\ UNCHANGED notifierVars
  BY DEF ActivateTimers, At, notifiers
<1>2. Top \in FrameT /\ Top.cur = 0
  BY <1>0, <1>1, TopIs, NoTimerAtTop
<1>3. ExpiredCount \in Nat /\ now \in Nat
  <2>1. Len(list) \in Nat /\ DOMAIN list = 1..Len(list) /\ now \in Nat
    BY <1>0, ListIs DEF TimersInv, TimersTyped
  <2>2. 1 \in Int /\ Len(list) \in Int
    BY <2>1
  <2>3. IsFiniteSet(1..Len(list))
    BY <2>2, FS_Interval
  <2>4. {i \in DOMAIN list : \A j \in 1..i : Expired(list[j], now)} \in SUBSET (1..Len(list))
    BY <2>1
  <2> QED BY <2>1, <2>3, <2>4, FS_Subset, FS_CardinalityType DEF ExpiredCount
<1>4. PICK f : f = [Top EXCEPT !.at = "timers", !.time = now, !.left = ExpiredCount]
  OBVIOUS
<1>5. f \in FrameT /\ f.cur = 0 /\ f.at # "select" /\ Go(f)
  <2>1. f \in FrameT /\ f.cur = 0 /\ f.at # "select"
    <3>1. PICK k : k = ExpiredCount
      OBVIOUS
    <3>2. k \in Int /\ now \in Nat /\ f = [Top EXCEPT !.at = "timers", !.time = now, !.left = k]
      BY <1>3, <1>4, <3>1
    <3>3. [Top EXCEPT !.at = "timers", !.time = now, !.left = k] \in FrameT
      BY <1>2, <3>2 DEF FrameT
    <3>4. f.cur = Top.cur /\ f.at = "timers"
      BY <1>2, <3>2 DEF FrameT
    <3> QED BY <1>2, <3>2, <3>3, <3>4
  <2>2. Go(f)
    BY <1>4 DEF ActivateTimers
  <2> QED BY <2>1, <2>2
<1>6. CallsTyped' /\ Linked' /\ stack' # <<>> /\ Top' = f
  BY <1>0, <1>1, <1>5, GoKeeps
<1>7. TimersInv' /\ Owned'
  BY <1>0, <1>1, TimersAssumption DEF TimersInv, TimersTyped, Ordered, Registered, Owned
<1>8. SleepsUntilNextTimer'
  BY <1>5, <1>6 DEF SleepsUntilNextTimer, At
<1> QED BY <1>0, <1>1, <1>6, <1>7, <1>8, NotifiersStay DEF IInv

\* A call ends.
LEMMA ReturnKeeps ==
  ASSUME IInv, NoTimers \/ Return
  PROVE  IInv'
<1>0. TimersInv /\ CallsTyped /\ NotifiersInv /\ Owned /\ Linked
  BY DEF IInv
<1>1. /\ stack # <<>> /\ Top.at \in {"sockets", "timers"} /\ stack' = Front(stack)
      /\ firstTimer' \in {firstTimer, 0}
      /\ living' = living /\ list' = list /\ timeout' = timeout /\ interval' = interval
      /\ owner' = owner /\ activateRef' = activateRef /\ now' = now /\ UNCHANGED notifierVars
  BY DEF NoTimers, Return, At, timers, timerVars, notifiers
<1>2. CallsTyped' /\ Linked' /\ SleepsUntilNextTimer'
  BY <1>0, <1>1, EndKeeps
<1>3. TimersInv' /\ Owned'
  BY <1>0, <1>1, TimersAssumption DEF TimersInv, TimersTyped, Ordered, Registered, Owned
<1> QED BY <1>0, <1>1, <1>2, <1>3, NotifiersStay DEF IInv

\* The first timer is moved and, unless a call further out is delivering it, sent its event.
LEMMA FireTimerKeeps ==
  ASSUME IInv, FireTimer
  PROVE  IInv'
<1>0. TimersInv /\ CallsTyped /\ NotifiersInv /\ Owned /\ Linked /\ TimersTyped
  BY DEF IInv, TimersInv
<1>1. PICK t : t = Head(list)
  OBVIOUS
<1>2. PICK g : g = [Top EXCEPT !.left = @ - 1]
  OBVIOUS
<1>3. PICK f : f = IF activateRef[t] = 0
                     THEN [g EXCEPT !.at = "timerEvent", !.cur = t, !.to = owner[t]] ELSE g
  OBVIOUS
<1>4. /\ stack # <<>> /\ Top.at = "timers" /\ list # <<>> /\ Rearm(Top.time, Depth) /\ Go(f)
      /\ now' = now /\ living' = living /\ UNCHANGED notifierVars
  BY <1>1, <1>2, <1>3 DEF FireTimer, MaySend, At, MayFire, notifiers
<1>5. /\ Top \in FrameT /\ Top.cur = 0 /\ Depth \in 1..MaxDepth /\ Depth \in DOMAIN stack
      /\ Depth # 0
  BY <1>0, <1>4, TopIs, NoTimerAtTop
<1>6. /\ TimersInv' /\ ToSet(list') = ToSet(list) /\ owner' = owner /\ t \in Timers
      /\ t \in ToSet(list)
      /\ activateRef' = [activateRef EXCEPT ![t] = IF @ = 0 THEN Depth ELSE @]
  <2>1. Top.time \in Nat /\ Depth \in 0..MaxDepth
    BY <1>5 DEF FrameT
  <2> QED BY <2>1, <1>0, <1>1, <1>4, RearmKeeps DEF Registered
<1>7. activateRef'[t] # 0 /\ \A u \in ToSet(list) : u # t => activateRef'[u] = activateRef[u]
  <2>1. ToSet(list) \subseteq Timers
    BY <1>0, ListIs DEF TimersTyped
  <2> QED BY <2>1, <1>0, <1>5, <1>6 DEF TimersTyped
<1>8. activateRef'[t] = IF activateRef[t] = 0 THEN Depth ELSE activateRef[t]
  BY <1>0, <1>6 DEF TimersTyped
<1>9. f \in FrameT /\ f.at # "select" /\ (f.cur # 0 => f.at = "timerEvent")
      /\ f.cur = IF activateRef[t] = 0 THEN t ELSE 0
  <2>1. g \in FrameT /\ g.cur = 0 /\ g.at = "timers"
    BY <1>2, <1>4, <1>5 DEF FrameT
  <2>2. owner[t] \in Objects \cup {Nobody} /\ t \in 0..MaxTimers
    BY <1>0, <1>6, TimersAssumption DEF TimersTyped, Timers
  <2> QED BY <2>1, <2>2, <1>3 DEF FrameT
<1>10. /\ stack' \in Seq(FrameT) /\ Len(stack') = Depth /\ DOMAIN stack' = DOMAIN stack
       /\ stack' # <<>> /\ Top' = f
       /\ \A i \in DOMAIN stack : stack'[i] = IF i = Depth THEN f ELSE stack[i]
  BY <1>0, <1>4, <1>9, GoIs
<1> HIDE DEF FrameT
<1>11. CallsTyped' /\ Depth' = Depth
  BY <1>0, <1>4, <1>10 DEF CallsTyped, Depth
<1>12. ASSUME NEW i \in DOMAIN stack', stack'[i].cur # 0
       PROVE  /\ stack'[i].cur \in ToSet(list') /\ activateRef'[stack'[i].cur] = i
              /\ stack'[i].at = "timerEvent"
  <2>1. CASE i = Depth
    BY <2>1, <1>6, <1>8, <1>9, <1>10, <1>12
  <2>2. CASE i # Depth
    <3>1. /\ stack'[i] = stack[i] /\ stack[i].cur \in ToSet(list)
          /\ activateRef[stack[i].cur] = i /\ stack[i].at = "timerEvent"
      BY <2>2, <1>0, <1>10, <1>12 DEF Linked, Registered
    <3>2. stack[i].cur # t \/ activateRef'[t] = activateRef[t]
      <4>1. i # 0
        BY <1>0, <1>10, TopIs
      <4> QED BY <4>1, <3>1, <1>8
    <3> QED BY <3>1, <3>2, <1>6, <1>7
  <2> QED BY <2>1, <2>2
<1>13. ASSUME NEW u \in ToSet(list'), activateRef'[u] # 0
       PROVE  activateRef'[u] \in DOMAIN stack' /\ stack'[activateRef'[u]].cur = u
  <2>1. CASE u = t /\ activateRef[t] = 0
    BY <2>1, <1>5, <1>8, <1>9, <1>10
  <2>2. CASE ~(u = t /\ activateRef[t] = 0)
    <3>1. activateRef'[u] = activateRef[u] /\ u \in ToSet(list)
      BY <2>2, <1>6, <1>7, <1>8
    <3>2. activateRef[u] \in DOMAIN stack /\ stack[activateRef[u]].cur = u /\ activateRef[u] # Depth
      BY <3>1, <1>0, <1>4, <1>13, NoTimerAtTop DEF Linked
    <3> QED BY <3>1, <3>2, <1>10
  <2> QED BY <2>1, <2>2
<1>14. \A i \in DOMAIN stack' : i # Depth' => stack'[i].at \in {"slot", "timerEvent"}
  BY <1>0, <1>10, <1>11 DEF Linked
<1>15. Linked'
  BY <1>12, <1>13, <1>14 DEF Linked, Registered
<1>16. SleepsUntilNextTimer'
  BY <1>9, <1>10 DEF SleepsUntilNextTimer, At
<1>17. Owned'
  BY <1>0, <1>4, <1>6 DEF Owned
<1> QED BY <1>0, <1>4, <1>6, <1>11, <1>15, <1>16, <1>17, NotifiersStay DEF IInv

\* Back from the handler: unless it was killed, the timer may be delivered again.
LEMMA TimerEventReturnsKeeps ==
  ASSUME IInv, TimerEventReturns
  PROVE  IInv'
<1>0. TimersInv /\ CallsTyped /\ NotifiersInv /\ Owned /\ Linked /\ TimersTyped
  BY DEF IInv, TimersInv
<1>1. PICK f : f = [Top EXCEPT !.at = "timers", !.cur = 0, !.to = Nobody]
  OBVIOUS
<1>2. PICK c : c = Top.cur
  OBVIOUS
<1>3. /\ stack # <<>> /\ Go(f) /\ list' = list /\ timeout' = timeout /\ interval' = interval
      /\ owner' = owner /\ firstTimer' = firstTimer /\ now' = now /\ living' = living
      /\ activateRef' = [t \in Timers |-> IF t = c THEN 0 ELSE activateRef[t]]
      /\ UNCHANGED notifierVars
  BY <1>1, <1>2 DEF TimerEventReturns, At, notifiers
<1>4. /\ Top \in FrameT /\ Depth \in DOMAIN stack /\ stack[Depth] = Top
      /\ ToSet(list) \subseteq Timers
  BY <1>0, <1>3, TopIs, ListIs DEF TimersTyped, Top
<1>5. f \in FrameT /\ f.cur = 0 /\ f.at = "timers"
  <2>1. 0 \in 0..MaxTimers
    BY TimersAssumption
  <2>2. Top.cur \in 0..MaxTimers /\ Top \in FrameT
    BY <1>4 DEF FrameT
  <2> QED BY <1>1, <2>1, <2>2 DEF FrameT
<1>6. /\ stack' \in Seq(FrameT) /\ Len(stack') = Depth /\ DOMAIN stack' = DOMAIN stack
      /\ stack' # <<>> /\ Top' = f
      /\ \A i \in DOMAIN stack : stack'[i] = IF i = Depth THEN f ELSE stack[i]
  BY <1>0, <1>3, <1>5, GoIs
<1> HIDE DEF FrameT
<1>7. CallsTyped' /\ Depth' = Depth
  BY <1>0, <1>3, <1>6 DEF CallsTyped, Depth
<1>8. \A t \in ToSet(list) : activateRef'[t] = IF t = c THEN 0 ELSE activateRef[t]
  BY <1>3, <1>4
<1>9. ASSUME NEW i \in DOMAIN stack', stack'[i].cur # 0
      PROVE  /\ stack'[i].cur \in ToSet(list') /\ activateRef'[stack'[i].cur] = i
             /\ stack'[i].at = "timerEvent"
  <2>1. i # Depth /\ stack'[i] = stack[i]
    BY <1>5, <1>6, <1>9
  <2>2. /\ stack[i].cur \in ToSet(list) /\ activateRef[stack[i].cur] = i
        /\ stack[i].at = "timerEvent" /\ stack[i].cur # 0
    BY <2>1, <1>0, <1>6, <1>9 DEF Linked, Registered
  <2>3. c # 0 => activateRef[c] = Depth
    BY <1>0, <1>2, <1>4 DEF Linked
  <2>4. stack[i].cur # c
    BY <2>1, <2>2, <2>3
  <2> QED BY <2>1, <2>2, <2>4, <1>3, <1>8
<1>10. ASSUME NEW t \in ToSet(list'), activateRef'[t] # 0
       PROVE  activateRef'[t] \in DOMAIN stack' /\ stack'[activateRef'[t]].cur = t
  <2>1. t \in ToSet(list) /\ t # c /\ activateRef'[t] = activateRef[t]
    BY <1>3, <1>8, <1>10
  <2>2. activateRef[t] \in DOMAIN stack /\ stack[activateRef[t]].cur = t
    BY <2>1, <1>0, <1>10 DEF Linked
  <2>3. activateRef[t] # Depth
    BY <2>1, <2>2, <1>2, <1>4
  <2> QED BY <2>1, <2>2, <2>3, <1>6
<1>11. \A i \in DOMAIN stack' : i # Depth' => stack'[i].at \in {"slot", "timerEvent"}
  BY <1>0, <1>6, <1>7 DEF Linked
<1>12. Linked'
  BY <1>9, <1>10, <1>11 DEF Linked, Registered
<1>13. TimersInv'
  <2>1. activateRef' \in [Timers -> 0..MaxDepth]
    BY <1>0, <1>3, DispatcherAssumption DEF TimersTyped
  <2> QED BY <2>1, <1>0, <1>3 DEF TimersInv, TimersTyped, Ordered, Registered
<1>14. SleepsUntilNextTimer' /\ Owned'
  BY <1>0, <1>3, <1>5, <1>6 DEF SleepsUntilNextTimer, At, Owned
<1> QED BY <1>0, <1>3, <1>7, <1>12, <1>13, <1>14, NotifiersStay DEF IInv

-----------------------------------------------------------------------------
(* The theorems.                                                           *)

\* Nothing is registered and nothing runs.
LEMMA InitHolds == ASSUME Init PROVE IInv
<1>1. /\ list = <<>> /\ firstTimer = 0 /\ now = 0
      /\ timeout = [t \in Timers |-> 0] /\ interval = [t \in Timers |-> 0]
      /\ owner = [t \in Timers |-> Nobody] /\ activateRef = [t \in Timers |-> 0]
  BY DEF Init, TimersInit
<1>2. /\ lists = [y \in 0..2 |-> <<>>] /\ pending = <<>> /\ queued = {} /\ watched = {}
      /\ highest = -1 /\ stack = <<>> /\ living = Objects
  BY DEF Init, NotifiersInit
<1>3. DOMAIN <<>> = {} /\ ToSet(<<>>) = {} /\ IsInjective(<<>>)
  BY DEF ToSet, IsInjective
<1>4. \A key : Rising(<<>>, key)
  BY <1>3 DEF Rising
<1>5. MaxTimers \in Nat /\ MaxDepth \in Nat /\ 0 \in 0..MaxTimers /\ 0 \in 0..MaxDepth
  BY TimersAssumption, DispatcherAssumption
<1>6. TimersInv
  <2>1. list \in Seq(Timers)
    BY <1>1
  <2>2. TimersTyped
    BY <2>1, <1>1, <1>5 DEF TimersTyped
  <2> QED BY <2>2, <1>1, <1>3, <1>4 DEF TimersInv, Ordered
<1>7. NotifiersInv
  <2>1. NotifiersTyped
    BY <1>2 DEF NotifiersTyped
  <2>2. Listed
    BY <1>2, <1>3, <1>4 DEF Listed
  <2>3. watched = {n \in Notifiers : n \in ToSet(lists[Type[n]])}
    BY <1>2, <1>3, NotifiersAssumption
  <2>4. IsHighest(highest, watched)
    BY <1>2 DEF IsHighest
  <2> QED BY <2>1, <2>2, <2>3, <2>4, <1>2, <1>3, NotifiersAre
<1>8. CallsTyped
  <2>1. Len(<<>>) = 0 /\ stack \in Seq(FrameT)
    BY <1>2
  <2> QED BY <2>1, <1>2, <1>5 DEF CallsTyped
<1>9. Owned /\ Linked /\ SleepsUntilNextTimer
  BY <1>1, <1>2, <1>3 DEF Owned, Linked, SleepsUntilNextTimer, At
<1> QED BY <1>6, <1>7, <1>8, <1>9 DEF IInv

\* Every step keeps the invariant.
LEMMA NextKeeps == ASSUME IInv, [Next]_vars PROVE IInv'
<1>1. CASE UNCHANGED vars
  <2>1. /\ UNCHANGED <<timerVars, stack, living>> /\ UNCHANGED notifierVars /\ now' = now
    BY <1>1 DEF vars
  <2>2. now' \in Nat /\ NotifiersInv
    BY <2>1 DEF IInv, TimersInv, TimersTyped
  <2> QED BY <2>1, <2>2, Stays, NotifiersStay DEF IInv
<1>2. ASSUME NEW o \in Objects, DestroyObject(o) PROVE IInv'
  BY <1>2, DestroyObjectKeeps
<1>3. ASSUME NEW o \in Objects, NEW i \in Intervals, StartTimer(o, i) PROVE IInv'
  BY <1>3, StartTimerKeeps
<1>4. ASSUME NEW t \in Timers, KillTimer(t) PROVE IInv'
  BY <1>4, KillTimerKeeps
<1>5. ASSUME \/ Clock
             \/ \E n \in Notifiers : \/ Enable(n) \/ Disable(n) \/ CloseFd(n)
                                     \/ Consume(n) \/ Arrive(n)
      PROVE  IInv'
  BY <1>5, OutsideKeeps
<1>6. ASSUME ProcessEvents(TRUE) \/ ProcessEvents(FALSE) PROVE IInv'
  BY <1>6, ProcessEventsKeeps
<1>7. ASSUME Select(TRUE) \/ Select(FALSE) \/ SelectFails \/ ActivateNotifier \/ SlotReturns
      PROVE  IInv'
  BY <1>7, SocketsKeep
<1>8. ASSUME ActivateTimers PROVE IInv'
  BY <1>8, ActivateTimersKeeps
<1>9. ASSUME NoTimers \/ Return PROVE IInv'
  BY <1>9, ReturnKeeps
<1>10. ASSUME FireTimer PROVE IInv'
  BY <1>10, FireTimerKeeps
<1>11. ASSUME TimerEventReturns PROVE IInv'
  BY <1>11, TimerEventReturnsKeeps
<1> QED BY <1>1, <1>2, <1>3, <1>4, <1>5, <1>6, <1>7, <1>8, <1>9, <1>10, <1>11
        DEF Next, Program, Dispatch

\* The inductive invariant holds in every state that the program reaches.
THEOREM Invariance == Spec => []IInv
<1>1. Init => IInv
  BY InitHolds
<1>2. IInv /\ [Next]_vars => IInv'
  BY NextKeeps
<1> QED BY <1>1, <1>2, PTL DEF Spec

\* Whatever slots and handlers start, kill, destroy, disable and nest: firstTimerInfo, the
\* currentTimerInfo of each call of activateTimers and the activateRef of each timer point to
\* what exists (qeventdispatcher_unix.cpp:363, :453), and what is pending is enabled (:639).
THEOREM PointersStayValid == Spec => []PointersValid
<1>1. IInv => PointersValid
  BY DEF IInv, TimersInv, NotifiersInv, Ordered, Owned, Linked, PointersValid
<1> QED BY <1>1, Invariance, PTL

\* A thread never sleeps past a timer it could deliver: timerWait (:287) finds the first one
\* in a list that stays sorted however timers are inserted and re-armed.
THEOREM TimersWakeUp == Spec => []SleepsUntilNextTimer
<1>1. IInv => SleepsUntilNextTimer
  BY DEF IInv
<1> QED BY <1>1, Invariance, PTL

\* The descriptors that select() is given, the highest of them and the bits of the pending
\* list agree with the lists of notifiers (:570, :610, :658).
THEOREM NotifiersAgree == Spec => []WatchesEveryNotifier
<1>1. IInv => WatchesEveryNotifier
  BY DEF IInv, NotifiersInv
<1> QED BY <1>1, Invariance, PTL
===============================================================================
