-------------------------- MODULE ThreadPoolProofs --------------------------
(***************************************************************************)
(* Theorems about ThreadPool, for any number of pooled threads, tasks,     *)
(* callers of waitForDone and changes of the limits.  The inductive        *)
(* invariant IInv says which threads have a task in their hands, which are *)
(* counted as active, and what QRunnable::ref is compared with the places  *)
(* where a task is still to be run.  Orderly says besides what one caller  *)
(* of waitForDone finds when only tasks start tasks meanwhile.  Exact,     *)
(* Alone and Served say under which conditions the three things that runs  *)
(* of other limits find wrong cannot happen: a task that is never deleted, *)
(* one that is lost, and a queue that nobody comes to.                     *)
(***************************************************************************)
EXTENDS ThreadPool, FiniteSetTheorems, SequenceTheorems, TLAPS

-----------------------------------------------------------------------------
(* The inductive invariant.                                                *)

Gone == {"ended", "finishing", "finished", "deleted"}

\* A thread is running a task exactly between taking it and the end of its run(); the one it
\* was started with is in its hands until it begins, for ever if it had already ended.
Hands ==
  \A w \in Workers :
    /\ current[w] # NoTask <=> wpc[w] = "task"
    /\ wpc[w] = "run" => runnable[w] # NoTask
    /\ runnable[w] # NoTask => wpc[w] \in {"run"} \cup Gone

\* An expired thread is listed once, has left its loop and has no task, as tryStart asserts.
Expired ==
  /\ \A k \in DOMAIN expiredThreads :
       /\ wpc[expiredThreads[k]] \in Gone
       /\ runnable[expiredThreads[k]] = NoTask
  /\ \A k, l \in DOMAIN expiredThreads : expiredThreads[k] = expiredThreads[l] => k = l

Working == {w \in Workers : wpc[w] = "task" \/ runnable[w] # NoTask}
ActiveCounted == activeThreads = Cardinality(Working)

\* ref counts every place where a task with autoDelete is held, and sometimes more; only such
\* a task is ever deleted.
References ==
  /\ \A t \in AutoDelete : Held(t) <= ref[t] /\ (Held(t) > 0 => t \in alive)
  /\ Tasks \ AutoDelete \subseteq alive

IInv == TypeOK /\ Hands /\ Expired /\ ActiveCounted /\ References /\ EachStartRunsOnce

-----------------------------------------------------------------------------
(* Counting.                                                               *)

Entries == [task : Tasks, priority : Priorities \cup {0}]
Places(q, t) == {k \in DOMAIN q : q[k].task = t}
HandsOf(f, t) == {w \in Workers : f[w] = t}
OnlyAt(w, f, g) == \A v \in Workers \ {w} : g[v] = f[v]
Same(x, y) == IF x = y THEN 1 ELSE 0

LEMMA PlacesFinite ==
  ASSUME NEW q \in Seq(Entries), NEW t
  PROVE  IsFiniteSet(Places(q, t)) /\ Cardinality(Places(q, t)) \in Nat
<1>1. IsFiniteSet(DOMAIN q)
  BY FS_Interval, LenProperties
<1> QED BY <1>1, FS_Subset, FS_CardinalityType DEF Places

LEMMA HandsFinite ==
  ASSUME NEW f, NEW t
  PROVE  IsFiniteSet(HandsOf(f, t)) /\ Cardinality(HandsOf(f, t)) \in Nat
BY ThreadPoolAssumption, FS_Subset, FS_CardinalityType DEF HandsOf

\* A task more in the queue.
LEMMA InsertKept ==
  ASSUME NEW q \in Seq(Entries), NEW i \in 1..(Len(q) + 1), NEW e \in Entries
  PROVE  /\ InsertAt(q, i, e) \in Seq(Entries)
         /\ Len(InsertAt(q, i, e)) = Len(q) + 1
         /\ \A k \in 1..(Len(q) + 1) :
              InsertAt(q, i, e)[k] = IF k < i THEN q[k] ELSE IF k = i THEN e ELSE q[k - 1]
<1> DEFINE a == SubSeq(q, 1, i - 1)
           b == SubSeq(q, i, Len(q))
<1>0. Len(q) \in Nat /\ DOMAIN q = 1..Len(q) /\ i \in Int /\ \A k \in 1..Len(q) : q[k] \in Entries
  BY LenProperties
<1>1. a \in Seq(Entries) /\ Len(a) = i - 1 /\ \A k \in 1..(i - 1) : a[k] = q[k]
  <2>1. \A k \in 1..(i - 1) : q[k] \in Entries
    BY <1>0
  <2> HIDE DEF Entries
  <2>2. i - 1 \in Int
    BY <1>0
  <2>3. /\ SubSeq(q, 1, i - 1) \in Seq(Entries)
        /\ Len(SubSeq(q, 1, i - 1)) = IF 1 <= i - 1 THEN i - 1 - 1 + 1 ELSE 0
        /\ \A k \in 1..(i - 1 - 1 + 1) : SubSeq(q, 1, i - 1)[k] = q[1 + k - 1]
    BY <2>1, <2>2, SubSeqProperties
  <2> QED BY <2>3, <1>0
<1>2. b \in Seq(Entries) /\ Len(b) = Len(q) + 1 - i /\ \A k \in 1..Len(b) : b[k] = q[i + k - 1]
  <2>1. \A k \in i..Len(q) : q[k] \in Entries
    BY <1>0
  <2>3. /\ SubSeq(q, i, Len(q)) \in Seq(Entries)
        /\ Len(SubSeq(q, i, Len(q))) = IF i <= Len(q) THEN Len(q) - i + 1 ELSE 0
        /\ \A k \in 1..(Len(q) - i + 1) : SubSeq(q, i, Len(q))[k] = q[i + k - 1]
    BY <2>1, <1>0, SubSeqProperties
  <2> QED BY <2>3, <1>0
<1>3. <<e>> \in Seq(Entries) /\ Len(<<e>>) = 1 /\ <<e>>[1] = e
  OBVIOUS
<1> HIDE DEF a, b
<1>4. /\ a \o <<e>> \in Seq(Entries) /\ Len(a \o <<e>>) = i
      /\ \A k \in 1..i : (a \o <<e>>)[k] = IF k <= i - 1 THEN a[k] ELSE <<e>>[k - (i - 1)]
  <2>1. /\ a \o <<e>> \in Seq(Entries) /\ Len(a \o <<e>>) = Len(a) + Len(<<e>>)
        /\ \A k \in 1..(Len(a) + Len(<<e>>)) :
             (a \o <<e>>)[k] = IF k <= Len(a) THEN a[k] ELSE <<e>>[k - Len(a)]
    BY <1>1, <1>3, ConcatProperties
  <2> QED BY <2>1, <1>1, <1>3, <1>0
<1>5. /\ (a \o <<e>>) \o b \in Seq(Entries) /\ Len((a \o <<e>>) \o b) = i + Len(b)
      /\ \A k \in 1..(i + Len(b)) :
           ((a \o <<e>>) \o b)[k] = IF k <= i THEN (a \o <<e>>)[k] ELSE b[k - i]
  <2> DEFINE c == a \o <<e>>
  <2>1. c \in Seq(Entries) /\ Len(c) = i
    BY <1>4
  <2> HIDE DEF c, Entries
  <2>2. /\ c \o b \in Seq(Entries) /\ Len(c \o b) = Len(c) + Len(b)
        /\ \A k \in 1..(Len(c) + Len(b)) : (c \o b)[k] = IF k <= Len(c) THEN c[k] ELSE b[k - Len(c)]
    BY <2>1, <1>2, ConcatProperties
  <2> QED BY <2>1, <2>2 DEF c
<1>6. InsertAt(q, i, e) = (a \o <<e>>) \o b
  BY DEF InsertAt, a, b
<1>7. ASSUME NEW k \in 1..(Len(q) + 1)
      PROVE  InsertAt(q, i, e)[k] = IF k < i THEN q[k] ELSE IF k = i THEN e ELSE q[k - 1]
  <2>1. CASE k < i
    BY <2>1, <1>0, <1>1, <1>2, <1>4, <1>5, <1>6
  <2>2. CASE k = i
    BY <2>2, <1>0, <1>1, <1>2, <1>3, <1>4, <1>5, <1>6
  <2>3. CASE k > i
    <3>1. k - i \in 1..Len(b) /\ k \in 1..(i + Len(b))
      BY <2>3, <1>0, <1>2
    <3>2. b[k - i] = q[i + (k - i) - 1]
      BY <3>1, <1>2
    <3>3. InsertAt(q, i, e)[k] = b[k - i]
      BY <3>1, <2>3, <1>0, <1>5, <1>6
    <3>4. i + (k - i) - 1 = k - 1
      BY <1>0
    <3> QED BY <3>2, <3>3, <3>4, <2>3, <1>0
  <2> QED BY <2>1, <2>2, <2>3, <1>0
<1>8. InsertAt(q, i, e) \in Seq(Entries) /\ Len(InsertAt(q, i, e)) = Len(q) + 1
  <2>1. i + (Len(q) + 1 - i) = Len(q) + 1
    BY <1>0
  <2> QED BY <2>1, <1>2, <1>5, <1>6
<1> QED BY <1>7, <1>8

LEMMA InsertCounted ==
  ASSUME NEW q \in Seq(Entries), NEW i \in 1..(Len(q) + 1), NEW e \in Entries, NEW t
  PROVE  Cardinality(Places(InsertAt(q, i, e), t)) = Cardinality(Places(q, t)) + Same(e.task, t)
<1> DEFINE n == InsertAt(q, i, e)
           P == Places(q, t)
           S == Places(n, t) \ {i}
           f == [k \in P |-> IF k < i THEN k ELSE k + 1]
<1>0. Len(q) \in Nat /\ DOMAIN q = 1..Len(q)
  BY LenProperties
<1>1. /\ n \in Seq(Entries) /\ DOMAIN n = 1..(Len(q) + 1)
      /\ \A k \in 1..(Len(q) + 1) : n[k] = IF k < i THEN q[k] ELSE IF k = i THEN e ELSE q[k - 1]
  <2>1. /\ n \in Seq(Entries) /\ Len(n) = Len(q) + 1
        /\ \A k \in 1..(Len(q) + 1) : n[k] = IF k < i THEN q[k] ELSE IF k = i THEN e ELSE q[k - 1]
    BY InsertKept
  <2> HIDE DEF n
  <2> QED BY <2>1, LenProperties
<1> HIDE DEF n
<1>2. \A k \in P : f[k] \in S
  BY <1>0, <1>1 DEF Places
<1>3. \A k \in S : \E l \in P : f[l] = k
  <2> TAKE k \in S
  <2>1. CASE k < i
    BY <2>1, <1>0, <1>1 DEF Places
  <2>2. CASE k > i
    <3>1. k - 1 \in P /\ ~(k - 1 < i) /\ k - 1 + 1 = k
      BY <2>2, <1>0, <1>1 DEF Places
    <3>2. f[k - 1] = k
      BY <3>1
    <3> QED BY <3>1, <3>2
  <2>3. k # i /\ k \in Int /\ i \in Int
    BY <1>0, <1>1 DEF Places
  <2> HIDE DEF f, P, S
  <2> QED BY <2>1, <2>2, <2>3
<1>4. \A k, l \in P : f[k] = f[l] => k = l
  BY <1>0 DEF Places
<1>5. f \in Bijection(P, S)
  <2>1. f \in [P -> S]
    BY <1>2
  <2> HIDE DEF f, P, S
  <2> QED BY <2>1, <1>3, <1>4 DEF Bijection, Injection, Surjection, IsInjective
<1>6. IsFiniteSet(P) /\ Cardinality(P) \in Nat
  BY PlacesFinite
<1>7. Cardinality(S) = Cardinality(P)
  BY <1>5, <1>6, FS_Bijection DEF ExistsBijection
<1>8. IsFiniteSet(Places(n, t)) /\ Cardinality(Places(n, t)) \in Nat
  BY <1>1, PlacesFinite
<1>9. i \in Places(n, t) <=> e.task = t
  BY <1>0, <1>1 DEF Places
<1> HIDE DEF P
<1>10. Cardinality(S) = Cardinality(Places(n, t)) - Same(e.task, t)
  <2>1. Cardinality(S) = IF i \in Places(n, t) THEN Cardinality(Places(n, t)) - 1
                                             ELSE Cardinality(Places(n, t))
    BY <1>8, FS_RemoveElement
  <2> QED BY <1>8, <1>9, <2>1 DEF Same
<1> QED BY <1>6, <1>7, <1>8, <1>10 DEF Same, n, P

\* A task less.
LEMMA TailCounted ==
  ASSUME NEW q \in Seq(Entries), NEW t, q # <<>>
  PROVE  Cardinality(Places(Tail(q), t)) = Cardinality(Places(q, t)) - Same(Head(q).task, t)
<1> DEFINE P == Places(Tail(q), t)
           S == Places(q, t) \ {1}
           f == [k \in P |-> k + 1]
<1>0. Len(q) \in Nat /\ DOMAIN q = 1..Len(q) /\ Len(q) > 0 /\ Head(q) = q[1]
  BY LenProperties, EmptySeq
<1>1. /\ Tail(q) \in Seq(Entries) /\ DOMAIN Tail(q) = 1..(Len(q) - 1)
      /\ \A k \in 1..(Len(q) - 1) : Tail(q)[k] = q[k + 1]
  BY HeadTailProperties, LenProperties
<1>2. \A k \in P : f[k] \in S
  BY <1>0, <1>1 DEF Places
<1>3. \A k \in S : \E l \in P : f[l] = k
  <2> TAKE k \in S
  <2>1. k - 1 \in P /\ k - 1 + 1 = k
    BY <1>0, <1>1 DEF Places
  <2> QED BY <2>1
<1>4. \A k, l \in P : f[k] = f[l] => k = l
  BY <1>0, <1>1 DEF Places
<1>5. f \in Bijection(P, S)
  <2>1. f \in [P -> S]
    BY <1>2
  <2> HIDE DEF f, P, S
  <2> QED BY <2>1, <1>3, <1>4 DEF Bijection, Injection, Surjection, IsInjective
<1>6. IsFiniteSet(P) /\ Cardinality(P) \in Nat
  BY <1>1, PlacesFinite
<1>7. Cardinality(S) = Cardinality(P)
  BY <1>5, <1>6, FS_Bijection DEF ExistsBijection
<1>8. IsFiniteSet(Places(q, t)) /\ Cardinality(Places(q, t)) \in Nat
  BY PlacesFinite
<1>9. 1 \in Places(q, t) <=> Head(q).task = t
  BY <1>0 DEF Places
<1> HIDE DEF P
<1>10. Cardinality(S) = Cardinality(Places(q, t)) - Same(Head(q).task, t)
  <2>1. Cardinality(S) = IF 1 \in Places(q, t) THEN Cardinality(Places(q, t)) - 1
                                             ELSE Cardinality(Places(q, t))
    BY <1>8, FS_RemoveElement
  <2> QED BY <1>8, <1>9, <2>1 DEF Same
<1> QED BY <1>7, <1>10 DEF P

\* A thread has something else in its hands.
LEMMA ExceptCounted ==
  ASSUME NEW f, NEW g, NEW t, NEW w \in Workers, OnlyAt(w, f, g)
  PROVE  Cardinality(HandsOf(g, t))
           = Cardinality(HandsOf(f, t)) - Same(f[w], t) + Same(g[w], t)
<1> DEFINE R == HandsOf(f, t) \ {w}
<1>1. IsFiniteSet(HandsOf(f, t)) /\ Cardinality(HandsOf(f, t)) \in Nat
  BY HandsFinite
<1>2. IsFiniteSet(R) /\ Cardinality(R) = Cardinality(HandsOf(f, t)) - Same(f[w], t)
  BY <1>1, FS_RemoveElement DEF Same, HandsOf
<1>3. CASE g[w] = t
  <2>1. HandsOf(g, t) = R \cup {w}
    BY <1>3 DEF HandsOf, OnlyAt
  <2>2. Cardinality(R \cup {w}) = Cardinality(R) + 1
    BY <1>2, FS_AddElement
  <2> QED BY <2>1, <2>2, <1>1, <1>2, <1>3 DEF Same
<1>4. CASE g[w] # t
  <2>1. HandsOf(g, t) = R
    BY <1>4 DEF HandsOf, OnlyAt
  <2>2. Same(g[w], t) = 0 /\ Same(f[w], t) \in Int
    BY <1>4 DEF Same
  <2> HIDE DEF R
  <2> QED BY <2>1, <2>2, <1>1, <1>2
<1> QED BY <1>3, <1>4

LEMMA EnqueuedCounted ==
  ASSUME NEW q \in Seq(Entries), NEW u \in Tasks, NEW priority \in Priorities \cup {0}
  PROVE  /\ Enqueued(q, u, priority) \in Seq(Entries) /\ Enqueued(q, u, priority) # <<>>
         /\ \A t : Cardinality(Places(Enqueued(q, u, priority), t))
                     = Cardinality(Places(q, t)) + Same(u, t)
         /\ q # <<>> => Head(Enqueued(q, u, priority)).task \in {u, Head(q).task}
<1> DEFINE before == {k \in DOMAIN q : q[k].priority >= priority}
           i == 1 + Cardinality(before)
           e == [task |-> u, priority |-> priority]
<1>1. Len(q) \in Nat /\ DOMAIN q = 1..Len(q)
  BY LenProperties
<1>2. i \in 1..(Len(q) + 1)
  <2>1. IsFiniteSet(DOMAIN q) /\ Cardinality(DOMAIN q) = Len(q)
    BY <1>1, FS_Interval
  <2>2. Cardinality(before) \in Nat /\ Cardinality(before) <= Len(q)
    BY <2>1, FS_Subset, FS_CardinalityType
  <2> QED BY <2>2, <1>1
<1>3. e \in Entries /\ e.task = u
  BY DEF Entries
<1>4. Enqueued(q, u, priority) = InsertAt(q, i, e)
  BY DEF Enqueued
<1> HIDE DEF i, e
<1>5. /\ InsertAt(q, i, e) \in Seq(Entries) /\ Len(InsertAt(q, i, e)) = Len(q) + 1
      /\ \A k \in 1..(Len(q) + 1) :
           InsertAt(q, i, e)[k] = IF k < i THEN q[k] ELSE IF k = i THEN e ELSE q[k - 1]
  BY <1>2, <1>3, InsertKept
<1>6. InsertAt(q, i, e) # <<>>
  BY <1>1, <1>5, EmptySeq
<1>7. ASSUME NEW t
      PROVE  Cardinality(Places(InsertAt(q, i, e), t)) = Cardinality(Places(q, t)) + Same(u, t)
  BY <1>2, <1>3, InsertCounted
<1>8. ASSUME q # <<>> PROVE Head(InsertAt(q, i, e)).task \in {u, Head(q).task}
  <2>1. Head(q) = q[1] /\ Head(InsertAt(q, i, e)) = InsertAt(q, i, e)[1]
    BY <1>5, <1>6, <1>8
  <2>2. InsertAt(q, i, e)[1] \in {q[1], e}
    BY <1>1, <1>2, <1>5
  <2> QED BY <2>1, <2>2, <1>3
<1> QED BY <1>4, <1>5, <1>6, <1>7, <1>8

LEMMA TailKept ==
  ASSUME NEW S, NEW s \in Seq(S), s # <<>>
  PROVE  /\ Head(s) \in S /\ Head(s) = s[1] /\ 1 \in DOMAIN s /\ Tail(s) \in Seq(S)
         /\ DOMAIN Tail(s) = 1..(Len(s) - 1)
         /\ \A k \in DOMAIN Tail(s) : k + 1 \in DOMAIN s /\ Tail(s)[k] = s[k + 1]
<1>1. Len(s) \in Nat \ {0} /\ DOMAIN s = 1..Len(s)
  BY LenProperties, EmptySeq
<1>2. /\ Head(s) \in S /\ Tail(s) \in Seq(S) /\ Len(Tail(s)) = Len(s) - 1
      /\ \A k \in 1..Len(Tail(s)) : Tail(s)[k] = s[k + 1]
  BY HeadTailProperties
<1>3. DOMAIN Tail(s) = 1..Len(Tail(s))
  BY <1>2, LenProperties
<1> QED BY <1>1, <1>2, <1>3

LEMMA RemoveKept ==
  ASSUME NEW S, NEW s \in Seq(S), NEW k \in DOMAIN s
  PROVE  RemoveAt(s, k) \in Seq(S)
<1>1. Len(s) \in Nat /\ DOMAIN s = 1..Len(s) /\ k \in Int /\ \A i \in 1..Len(s) : s[i] \in S
  BY LenProperties
<1>2. SubSeq(s, 1, k - 1) \in Seq(S)
  <2>1. (\A i \in 1..(k - 1) : s[i] \in S) /\ k - 1 \in Int
    BY <1>1
  <2> QED BY <2>1, SubSeqProperties
<1>3. SubSeq(s, k + 1, Len(s)) \in Seq(S)
  <2>1. (\A i \in (k + 1)..Len(s) : s[i] \in S) /\ k + 1 \in Int
    BY <1>1
  <2> QED BY <2>1, <1>1, SubSeqProperties
<1> QED BY <1>2, <1>3, ConcatProperties DEF RemoveAt

LEMMA HeldIs ==
  ASSUME TypeOK, NEW t
  PROVE  /\ Held(t) = Cardinality(Places(queue, t)) + Cardinality(HandsOf(runnable, t))
                      + Cardinality(HandsOf(current, t))
         /\ Cardinality(Places(queue, t)) \in Nat /\ Cardinality(HandsOf(runnable, t)) \in Nat
         /\ Cardinality(HandsOf(current, t)) \in Nat /\ Held(t) \in Nat
<1>1. queue \in Seq(Entries)
  BY DEF TypeOK, Entries
<1>2. Cardinality(Places(queue, t)) \in Nat /\ Cardinality(HandsOf(runnable, t)) \in Nat
      /\ Cardinality(HandsOf(current, t)) \in Nat
  BY <1>1, PlacesFinite, HandsFinite
<1> QED BY <1>2 DEF Held, Places, HandsOf

\* Whoever has a task in hand, or sees it in the queue, holds it.
LEMMA HeldSomewhere ==
  ASSUME TypeOK, NEW t,
         \/ \E k \in DOMAIN queue : queue[k].task = t
         \/ \E w \in Workers : runnable[w] = t \/ current[w] = t
  PROVE  Held(t) > 0
<1>1. queue \in Seq(Entries)
  BY DEF TypeOK, Entries
<1>2. Places(queue, t) # {} => Cardinality(Places(queue, t)) # 0
  BY <1>1, PlacesFinite, FS_EmptySet
<1>3. \A f : HandsOf(f, t) # {} => Cardinality(HandsOf(f, t)) # 0
  BY HandsFinite, FS_EmptySet
<1>4. Places(queue, t) # {} \/ HandsOf(runnable, t) # {} \/ HandsOf(current, t) # {}
  BY DEF Places, HandsOf
<1> QED BY <1>2, <1>3, <1>4, HeldIs

-----------------------------------------------------------------------------
(* The parts of TypeOK.                                                    *)

PoolTypes ==
  /\ allThreads \subseteq Workers
  /\ waitingThreads \in Seq(Workers) /\ expiredThreads \in Seq(Workers)
  /\ queue \in Seq(Entries)
  /\ wpc \in [Workers -> WorkerPoints]
  /\ runnable \in [Workers -> Tasks \cup {NoTask}]
  /\ current \in [Workers -> Tasks \cup {NoTask}]
TaskTypes ==
  /\ ref \in [Tasks -> Nat] /\ alive \subseteq Tasks
  /\ started \in [Tasks -> Nat] /\ ran \in [Tasks -> Nat]
OtherTypes ==
  /\ isExiting \in BOOLEAN /\ maxThreadCount \in Limits /\ reservedThreads \in Int
  /\ moreThreads \in BOOLEAN
  /\ cpc \in [Waiters -> WaiterPoints] /\ timed \in [Waiters -> BOOLEAN]
  /\ victims \in [Waiters -> SUBSET Workers] /\ join \in [Waiters -> SUBSET Workers]
  /\ changes \in Nat /\ waits \in [Waiters -> Nat]

LEMMA Types ==
  /\ TypeOK => PoolTypes /\ TaskTypes /\ OtherTypes
  /\ PoolTypes /\ TaskTypes /\ OtherTypes /\ ActiveCounted => TypeOK
<1>1. TypeOK => PoolTypes /\ TaskTypes /\ OtherTypes
  BY DEF TypeOK, PoolTypes, TaskTypes, OtherTypes, Entries
<1>2. ASSUME PoolTypes, TaskTypes, OtherTypes, ActiveCounted PROVE TypeOK
  <2>1. Cardinality(Working) \in 0..Cardinality(Workers)
    BY ThreadPoolAssumption, FS_Subset, FS_CardinalityType DEF Working
  <2> QED BY <1>2, <2>1 DEF TypeOK, PoolTypes, TaskTypes, OtherTypes, Entries, ActiveCounted
<1> QED BY <1>1, <1>2

LEMMA TypesNext == PoolTypes' /\ TaskTypes' /\ OtherTypes' /\ ActiveCounted' => TypeOK'
<1> SUFFICES ASSUME PoolTypes', TaskTypes', OtherTypes', ActiveCounted' PROVE TypeOK'
  OBVIOUS
<1>1. Cardinality(Working)' \in 0..Cardinality(Workers)
  BY ThreadPoolAssumption, FS_Subset, FS_CardinalityType DEF Working
<1> QED BY <1>1 DEF TypeOK, PoolTypes, TaskTypes, OtherTypes, Entries, ActiveCounted

\* What the steps of the pool keep.
Sound == PoolTypes /\ Hands /\ Expired /\ ActiveCounted

LEMMA WorkingFinite == IsFiniteSet(Working) /\ Cardinality(Working) \in Nat
BY ThreadPoolAssumption, FS_Subset, FS_CardinalityType DEF Working

-----------------------------------------------------------------------------
(* tryStart.                                                               *)

Given(w, t) == runnable' = [runnable EXCEPT ![w] = t]

\* A thread without a task is given one and started, and is then not among the expired ones.
LEMMA GivenTask ==
  ASSUME Sound, NEW w \in Workers, NEW t \in Tasks,
         runnable[w] = NoTask, wpc[w] \in {"new"} \cup Gone,
         Start(w), Given(w, t), activeThreads' = activeThreads + 1,
         UNCHANGED current
  PROVE  /\ wpc' \in [Workers -> WorkerPoints] /\ runnable' \in [Workers -> Tasks \cup {NoTask}]
         /\ Hands' /\ ActiveCounted'
         /\ \A v \in Workers \ {w} : wpc'[v] = wpc[v] /\ runnable'[v] = runnable[v]
         /\ \A u : Cardinality(HandsOf(runnable', u))
                     = Cardinality(HandsOf(runnable, u)) - Same(NoTask, u) + Same(t, u)
<1> USE DEF Sound, PoolTypes
<1>0. t # NoTask
  BY ThreadPoolAssumption
<1>1. wpc' \in [Workers -> WorkerPoints] /\ runnable' \in [Workers -> Tasks \cup {NoTask}]
  BY DEF Start, WorkerPoints, Given
<1>2. \A v \in Workers \ {w} : wpc'[v] = wpc[v] /\ runnable'[v] = runnable[v]
  BY DEF Start, Given
<1>3. runnable'[w] = t /\ wpc'[w] \in {"run"} \cup Gone /\ current[w] = NoTask
  BY DEF Start, Gone, Hands, Given
<1>4. Hands'
  BY <1>0, <1>2, <1>3 DEF Hands, Gone
<1>5. ActiveCounted'
  <2>1. w \notin Working
    BY DEF Working, Gone
  <2>2. Working' = Working \cup {w}
    BY <1>0, <1>2, <1>3 DEF Working
  <2> QED BY <2>1, <2>2, WorkingFinite, FS_AddElement DEF ActiveCounted
<1>6. ASSUME NEW u
      PROVE  Cardinality(HandsOf(runnable', u))
               = Cardinality(HandsOf(runnable, u)) - Same(NoTask, u) + Same(t, u)
  <2>1. Cardinality(HandsOf(runnable', u))
          = Cardinality(HandsOf(runnable, u)) - Same(runnable[w], u) + Same(runnable'[w], u)
    <3>1. OnlyAt(w, runnable, runnable')
      BY <1>2 DEF OnlyAt
    <3> QED BY <3>1, ExceptCounted
  <2> QED BY <2>1, <1>3
<1> QED BY <1>1, <1>2, <1>4, <1>5, <1>6

LEMMA Recycled ==
  ASSUME Sound, RecycleThread, waitingThreads # <<>>, UNCHANGED current
  PROVE  /\ wpc' \in [Workers -> WorkerPoints] /\ waitingThreads' \in Seq(Workers)
         /\ Hands' /\ Expired' /\ ActiveCounted'
         /\ UNCHANGED <<allThreads, expiredThreads, activeThreads, runnable>>
<1> USE DEF Sound, PoolTypes, RecycleThread
<1>1. Head(waitingThreads) \in Workers /\ waitingThreads' \in Seq(Workers)
  BY TailKept
<1>2. wpc' \in [Workers -> WorkerPoints]
  BY <1>1 DEF Signalled, WorkerPoints
<1>3. \A v \in Workers : wpc'[v] = wpc[v] \/ (wpc[v] = "waiting" /\ wpc'[v] = "woken")
  BY <1>1 DEF Signalled
<1>4. Hands'
  BY <1>3 DEF Hands, Gone
<1>5. Expired'
  <2>1. \A k \in DOMAIN expiredThreads : expiredThreads[k] \in Workers
    BY LenProperties
  <2> QED BY <2>1, <1>3 DEF Expired, Gone
<1>6. Working' = Working
  BY <1>3 DEF Working
<1> QED BY <1>1, <1>2, <1>4, <1>5, <1>6 DEF ActiveCounted

\* The queue gains the task, unless the first one, which is the same, is taken out again.
LEMMA QueuedOrRotated ==
  ASSUME NEW t \in Tasks, NEW first \in BOOLEAN, queue \in Seq(Entries),
         first => queue # <<>> /\ Head(queue).task = t,
         queue' = (IF first THEN Tail(Enqueued(queue, t, 0)) ELSE Enqueued(queue, t, 0))
  PROVE  /\ queue' \in Seq(Entries)
         /\ \A u : Cardinality(Places(queue', u)) = Cardinality(Places(queue, u)) + (IF first THEN 0 ELSE Same(t, u))
<1> DEFINE r == Enqueued(queue, t, 0)
<1>1. /\ r \in Seq(Entries) /\ r # <<>>
      /\ \A u : Cardinality(Places(r, u)) = Cardinality(Places(queue, u)) + Same(t, u)
      /\ queue # <<>> => Head(r).task \in {t, Head(queue).task}
  BY EnqueuedCounted
<1>2. CASE ~first
  BY <1>1, <1>2 DEF Same
<1>3. CASE first
  <2>1. Head(r).task = t
    BY <1>1, <1>3
  <2>2. Tail(r) \in Seq(Entries)
    BY <1>1, HeadTailProperties
  <2>3. ASSUME NEW u PROVE Cardinality(Places(Tail(r), u)) = Cardinality(Places(queue, u))
    <3>1. Cardinality(Places(Tail(r), u)) = Cardinality(Places(r, u)) - Same(Head(r).task, u)
      BY <1>1, TailCounted
    <3>2. Cardinality(Places(queue, u)) \in Nat
      BY PlacesFinite
    <3>3. CASE t = u
      BY <1>1, <2>1, <3>1, <3>2, <3>3 DEF Same
    <3>4. CASE t # u
      BY <1>1, <2>1, <3>1, <3>2, <3>4 DEF Same
    <3> QED BY <3>3, <3>4
  <2>4. ASSUME NEW u PROVE Cardinality(Places(queue, u)) \in Nat /\ (IF first THEN 0 ELSE Same(t, u)) = 0
    BY <1>3, PlacesFinite DEF Same
  <2> QED BY <1>3, <2>2, <2>3, <2>4
<1> QED BY <1>2, <1>3

LEMMA TryStartKeeps ==
  ASSUME TypeOK, Sound, NEW t \in Tasks, NEW first \in BOOLEAN,
         first => queue # <<>> /\ Head(queue).task = t,
         TryStart(t, first), UNCHANGED current
  PROVE  /\ Sound' /\ ref' = Referenced(t)
         /\ \A u \in Tasks : Held(u)' = Held(u) + (IF first THEN 0 ELSE Same(t, u))
<1> DEFINE recycled == allThreads # {} /\ waitingThreads # <<>>
           q == IF recycled THEN Enqueued(queue, t, 0) ELSE queue
<1>1. queue' = (IF first THEN Tail(q) ELSE q) /\ ref' = Referenced(t)
  BY DEF TryStart
<1>2. \A u \in Tasks : /\ Cardinality(Places(queue, u)) \in Nat
                       /\ Cardinality(HandsOf(runnable, u)) \in Nat
                       /\ Cardinality(HandsOf(current, u)) \in Nat
                       /\ Held(u) = Cardinality(Places(queue, u)) + Cardinality(HandsOf(runnable, u))
                                    + Cardinality(HandsOf(current, u))
  BY HeldIs
<1>3. ASSUME NEW u PROVE Held(u)' = Cardinality(Places(queue', u)) + Cardinality(HandsOf(runnable', u))
                                    + Cardinality(HandsOf(current', u))
  BY DEF Held, Places, HandsOf
<1>4. CASE recycled
  <2>1. RecycleThread
    BY <1>4 DEF TryStart
  <2>2. /\ wpc' \in [Workers -> WorkerPoints] /\ waitingThreads' \in Seq(Workers)
        /\ Hands' /\ Expired' /\ ActiveCounted'
        /\ UNCHANGED <<allThreads, expiredThreads, activeThreads, runnable>>
    BY <2>1, <1>4, Recycled
  <2>3. queue' = IF first THEN Tail(Enqueued(queue, t, 0)) ELSE Enqueued(queue, t, 0)
    BY <1>1, <1>4
  <2>4. /\ queue' \in Seq(Entries)
        /\ \A u : Cardinality(Places(queue', u))
                    = Cardinality(Places(queue, u)) + (IF first THEN 0 ELSE Same(t, u))
    <3>1. queue \in Seq(Entries)
      BY DEF Sound, PoolTypes
    <3> QED BY <2>3, <3>1, QueuedOrRotated
  <2>5. Sound'
    BY <2>2, <2>4 DEF Sound, PoolTypes
  <2>6. ASSUME NEW u \in Tasks PROVE Held(u)' = Held(u) + (IF first THEN 0 ELSE Same(t, u))
    <3>1. (IF first THEN 0 ELSE Same(t, u)) \in Int
      BY DEF Same
    <3> QED BY <2>2, <2>4, <1>2, <1>3, <3>1
  <2> QED BY <1>1, <2>5, <2>6
<1>5. CASE ~recycled
  <2>1. /\ queue' \in Seq(Entries)
        /\ \A u \in Tasks : Cardinality(Places(queue', u)) = Cardinality(Places(queue, u)) - (IF first THEN Same(t, u) ELSE 0)
    <3>1. CASE ~first
      <4>1. \A u \in Tasks : (IF first THEN Same(t, u) ELSE 0) = 0
        BY <3>1 DEF Same
      <4> QED BY <1>1, <1>2, <1>5, <3>1, <4>1 DEF Sound, PoolTypes
    <3>2. CASE first
      <4>1. queue' = Tail(queue) /\ queue' \in Seq(Entries)
        BY <1>1, <1>5, <3>2, HeadTailProperties DEF Sound, PoolTypes
      <4>2. \A u \in Tasks : Cardinality(Places(Tail(queue), u))
                               = Cardinality(Places(queue, u)) - Same(Head(queue).task, u)
        BY <3>2, TailCounted DEF Sound, PoolTypes
      <4>3. \A u \in Tasks : (IF first THEN Same(t, u) ELSE 0) = Same(Head(queue).task, u)
        BY <3>2 DEF Same
      <4> QED BY <4>1, <4>2, <4>3
    <3> QED BY <3>1, <3>2
  <2>2. \E w \in Workers :
          /\ runnable[w] = NoTask /\ wpc[w] \in {"new"} \cup Gone
          /\ Start(w) /\ Given(w, t) /\ activeThreads' = activeThreads + 1
          /\ allThreads' \subseteq Workers /\ waitingThreads' = waitingThreads
          /\ \/ wpc[w] = "new" /\ expiredThreads' = expiredThreads
             \/ expiredThreads # <<>> /\ w = Head(expiredThreads) /\ expiredThreads' = Tail(expiredThreads)
    <3>1. CASE allThreads # {} /\ expiredThreads # <<>>
      <4>1. RestartThread(t)
        BY <1>5, <3>1 DEF TryStart
      <4>2. Head(expiredThreads) \in Workers /\ 1 \in DOMAIN expiredThreads
            /\ Head(expiredThreads) = expiredThreads[1]
        BY <3>1, TailKept DEF Sound, PoolTypes
      <4> QED BY <4>1, <4>2, <3>1 DEF RestartThread, Given, Sound, PoolTypes, Expired
    <3>2. CASE ~(allThreads # {} /\ expiredThreads # <<>>)
      <4>1. StartThread(t)
        BY <1>5, <3>2 DEF TryStart
      <4> QED BY <4>1 DEF StartThread, Given, Sound, PoolTypes, Hands, Gone
    <3> QED BY <3>1, <3>2
  <2>3. PICK w \in Workers :
          /\ runnable[w] = NoTask /\ wpc[w] \in {"new"} \cup Gone
          /\ Start(w) /\ Given(w, t) /\ activeThreads' = activeThreads + 1
          /\ allThreads' \subseteq Workers /\ waitingThreads' = waitingThreads
          /\ \/ wpc[w] = "new" /\ expiredThreads' = expiredThreads
             \/ expiredThreads # <<>> /\ w = Head(expiredThreads) /\ expiredThreads' = Tail(expiredThreads)
    BY <2>2
  <2>4. /\ wpc' \in [Workers -> WorkerPoints] /\ runnable' \in [Workers -> Tasks \cup {NoTask}]
        /\ Hands' /\ ActiveCounted'
        /\ \A v \in Workers \ {w} : wpc'[v] = wpc[v] /\ runnable'[v] = runnable[v]
        /\ \A u : Cardinality(HandsOf(runnable', u))
                    = Cardinality(HandsOf(runnable, u)) - Same(NoTask, u) + Same(t, u)
    BY <2>3, GivenTask
  <2>5. expiredThreads' \in Seq(Workers) /\ Expired'
    <3>1. \A k \in DOMAIN expiredThreads : expiredThreads[k] \in Workers
      BY LenProperties DEF Sound, PoolTypes
    <3>2. CASE wpc[w] = "new" /\ expiredThreads' = expiredThreads
      <4>1. \A k \in DOMAIN expiredThreads : expiredThreads[k] # w
        BY <3>2 DEF Sound, Expired, Gone
      <4> QED BY <2>4, <3>1, <3>2, <4>1 DEF Sound, PoolTypes, Expired
    <3>3. CASE expiredThreads # <<>> /\ w = Head(expiredThreads) /\ expiredThreads' = Tail(expiredThreads)
      <4>1. /\ w = expiredThreads[1] /\ 1 \in DOMAIN expiredThreads /\ expiredThreads' \in Seq(Workers)
            /\ DOMAIN expiredThreads' = 1..(Len(expiredThreads) - 1)
            /\ \A k \in DOMAIN expiredThreads' :
                 k + 1 \in DOMAIN expiredThreads /\ expiredThreads'[k] = expiredThreads[k + 1]
        BY <3>3, TailKept DEF Sound, PoolTypes
      <4>2. Len(expiredThreads) \in Nat
        BY LenProperties DEF Sound, PoolTypes
      <4>3. \A k \in DOMAIN expiredThreads' : expiredThreads'[k] # w /\ expiredThreads'[k] \in Workers
        BY <3>1, <4>1, <4>2 DEF Sound, Expired
      <4>4. \A k \in DOMAIN expiredThreads' :
              wpc'[expiredThreads'[k]] \in Gone /\ runnable'[expiredThreads'[k]] = NoTask
        <5> TAKE k \in DOMAIN expiredThreads'
        <5>1. /\ k + 1 \in DOMAIN expiredThreads /\ expiredThreads'[k] = expiredThreads[k + 1]
              /\ expiredThreads[k + 1] \in Workers \ {w}
          BY <4>1, <4>3
        <5>2. wpc[expiredThreads[k + 1]] \in Gone /\ runnable[expiredThreads[k + 1]] = NoTask
          BY <5>1 DEF Sound, Expired
        <5> QED BY <5>1, <5>2, <2>4
      <4>5. \A k, l \in DOMAIN expiredThreads' : expiredThreads'[k] = expiredThreads'[l] => k = l
        BY <4>1, <4>2 DEF Sound, Expired
      <4> QED BY <4>1, <4>4, <4>5 DEF Expired
    <3> QED BY <2>3, <3>2, <3>3
  <2>6. Sound'
    BY <2>1, <2>3, <2>4, <2>5 DEF Sound, PoolTypes
  <2>7. ASSUME NEW u \in Tasks PROVE Held(u)' = Held(u) + (IF first THEN 0 ELSE Same(t, u))
    <3>1. Same(NoTask, u) = 0
      BY ThreadPoolAssumption DEF Same
    <3>2. Same(t, u) - (IF first THEN Same(t, u) ELSE 0) = (IF first THEN 0 ELSE Same(t, u)) /\ Same(t, u) \in Int
          /\ (IF first THEN Same(t, u) ELSE 0) \in Int
      BY DEF Same
    <3>3. Cardinality(HandsOf(runnable', u)) = Cardinality(HandsOf(runnable, u)) + Same(t, u)
      BY <2>4, <3>1, <3>2, <1>2
    <3>4. Cardinality(Places(queue', u)) = Cardinality(Places(queue, u)) - (IF first THEN Same(t, u) ELSE 0)
      BY <2>1
    <3>5. Cardinality(HandsOf(current', u)) = Cardinality(HandsOf(current, u))
      OBVIOUS
    <3> QED BY <3>2, <3>3, <3>4, <3>5, <1>2, <1>3
  <2> QED BY <1>1, <2>6, <2>7
<1> QED BY <1>4, <1>5

-----------------------------------------------------------------------------
(* run() of a pooled thread.                                               *)

\* A thread that has no task and is not expired yet expires.
LEMMA AppendedExpired ==
  ASSUME Sound, NEW w \in Workers, wpc[w] \notin Gone, runnable[w] = NoTask,
         wpc' = [wpc EXCEPT ![w] = "ended"], runnable' = runnable,
         expiredThreads' = Append(expiredThreads, w)
  PROVE  expiredThreads' \in Seq(Workers) /\ Expired'
<1>1. /\ expiredThreads \in Seq(Workers) /\ wpc \in [Workers -> WorkerPoints]
      /\ Len(expiredThreads) \in Nat /\ DOMAIN expiredThreads = 1..Len(expiredThreads)
      /\ \A k \in DOMAIN expiredThreads : expiredThreads[k] \in Workers
  BY LenProperties DEF Sound, PoolTypes
<1>2. /\ expiredThreads' \in Seq(Workers) /\ DOMAIN expiredThreads' = 1..(Len(expiredThreads) + 1)
      /\ \A k \in DOMAIN expiredThreads : expiredThreads'[k] = expiredThreads[k]
      /\ expiredThreads'[Len(expiredThreads) + 1] = w
  <2>1. /\ Append(expiredThreads, w) \in Seq(Workers)
        /\ Len(Append(expiredThreads, w)) = Len(expiredThreads) + 1
        /\ \A k \in 1..Len(expiredThreads) : Append(expiredThreads, w)[k] = expiredThreads[k]
        /\ Append(expiredThreads, w)[Len(expiredThreads) + 1] = w
    BY <1>1
  <2> QED BY <2>1, <1>1, LenProperties
<1>3. \A k \in DOMAIN expiredThreads : expiredThreads[k] # w
  BY DEF Sound, Expired
<1>4. \A k \in DOMAIN expiredThreads' :
        k \in DOMAIN expiredThreads \/ k = Len(expiredThreads) + 1
  BY <1>1, <1>2
<1>5. ASSUME NEW k \in DOMAIN expiredThreads'
      PROVE  wpc'[expiredThreads'[k]] \in Gone /\ runnable'[expiredThreads'[k]] = NoTask
  <2>1. CASE k \in DOMAIN expiredThreads
    BY <2>1, <1>1, <1>2, <1>3 DEF Sound, Expired
  <2>2. CASE k = Len(expiredThreads) + 1
    BY <2>2, <1>1, <1>2 DEF Gone
  <2> QED BY <2>1, <2>2, <1>4
<1>6. ASSUME NEW k \in DOMAIN expiredThreads', NEW l \in DOMAIN expiredThreads',
             expiredThreads'[k] = expiredThreads'[l]
      PROVE  k = l
  BY <1>2, <1>3, <1>4, <1>6 DEF Sound, Expired
<1> QED BY <1>2, <1>5, <1>6 DEF Expired

LEMMA FirstTask ==
  ASSUME NEW q \in Seq(Entries), q # <<>>
  PROVE  Head(q).task \in Tasks /\ Tail(q) \in Seq(Entries)
<1>1. Head(q) \in Entries /\ Tail(q) \in Seq(Entries)
  BY TailKept
<1> QED BY <1>1 DEF Entries

LEMMA ContinueKeeps ==
  ASSUME TypeOK, Sound, NEW w \in Workers, NEW n,
         \/ wpc[w] = "task" /\ n = activeThreads
         \/ wpc[w] \in {"woken", "waiting"} /\ n = activeThreads + 1,
         Continue(w, n), UNCHANGED <<runnable, allThreads>>
  PROVE  /\ Sound' /\ cpc' \in [Waiters -> WaiterPoints]
         /\ \A u \in Tasks : Held(u)' = Held(u) - Same(current[w], u)
<1>0. /\ queue \in Seq(Entries) /\ waitingThreads \in Seq(Workers)
      /\ expiredThreads \in Seq(Workers) /\ allThreads \subseteq Workers
      /\ wpc \in [Workers -> WorkerPoints] /\ runnable \in [Workers -> Tasks \cup {NoTask}]
      /\ current \in [Workers -> Tasks \cup {NoTask}]
  BY DEF Sound, PoolTypes
<1>1. runnable[w] = NoTask /\ wpc[w] \notin Gone
  BY DEF Sound, Hands, Gone
<1>2. Cardinality(Working \cup {w}) = n /\ IsFiniteSet(Working \cup {w}) /\ n \in Nat
  <2>1. w \in Working <=> wpc[w] = "task"
    BY <1>1 DEF Working
  <2> QED BY <2>1, WorkingFinite, FS_AddElement DEF Sound, ActiveCounted
<1>3. \A k \in DOMAIN expiredThreads : expiredThreads[k] \in Workers \ {w}
  BY <1>0, <1>1, LenProperties DEF Sound, Expired
<1>4. \A u \in Tasks :
        /\ Cardinality(Places(queue, u)) \in Nat /\ Cardinality(HandsOf(runnable, u)) \in Nat
        /\ Cardinality(HandsOf(current, u)) \in Nat
        /\ Held(u) = Cardinality(Places(queue, u)) + Cardinality(HandsOf(runnable, u))
                     + Cardinality(HandsOf(current, u))
  BY HeldIs
<1>5. ASSUME NEW u
      PROVE  Held(u)' = Cardinality(Places(queue', u)) + Cardinality(HandsOf(runnable', u))
                        + Cardinality(HandsOf(current', u))
  BY DEF Held, Places, HandsOf
<1>6. cpc' \in [Waiters -> WaiterPoints]
  BY DEF TypeOK, Continue, RegisterInactive, WaiterPoints
<1>7. OnlyAt(w, current, current') /\ OnlyAt(w, wpc, wpc') /\ current' \in [Workers -> Tasks \cup {NoTask}]
      /\ wpc' \in [Workers -> WorkerPoints]
  <2>1. queue # <<>> => Head(queue).task \in Tasks
    BY <1>0, FirstTask
  <2> QED BY <1>0, <2>1 DEF Continue, EndAs, OnlyAt, WorkerPoints
<1>8. \A u : Cardinality(HandsOf(current', u))
               = Cardinality(HandsOf(current, u)) - Same(current[w], u) + Same(current'[w], u)
  BY <1>7, ExceptCounted
<1>9. CASE ~tooManyThreadsActive /\ queue # <<>>
  <2>1. /\ current'[w] = Head(queue).task /\ wpc'[w] = "task" /\ queue' = Tail(queue)
        /\ activeThreads' = n /\ UNCHANGED <<waitingThreads, expiredThreads>>
    BY <1>0, <1>9 DEF Continue
  <2>2. /\ Tail(queue) \in Seq(Entries) /\ Head(queue).task \in Tasks
        /\ \A u : Cardinality(Places(Tail(queue), u))
                    = Cardinality(Places(queue, u)) - Same(Head(queue).task, u)
    BY <1>0, <1>9, FirstTask, TailCounted
  <2>3. PoolTypes'
    BY <1>0, <1>7, <2>1, <2>2 DEF PoolTypes
  <2>4. Hands'
    BY <1>1, <1>7, <2>1, <2>2, ThreadPoolAssumption DEF Sound, Hands, OnlyAt, Gone
  <2>5. Expired'
    BY <1>3, <1>7, <2>1 DEF Sound, Expired, OnlyAt
  <2>6. ActiveCounted'
    <3>1. Working' = Working \cup {w}
      BY <1>7, <2>1 DEF Working, OnlyAt
    <3> QED BY <1>2, <2>1, <3>1 DEF ActiveCounted
  <2>7. ASSUME NEW u \in Tasks PROVE Held(u)' = Held(u) - Same(current[w], u)
    <3>1. Same(current[w], u) \in Int /\ Same(Head(queue).task, u) \in Int
      BY DEF Same
    <3>2. Cardinality(HandsOf(current', u))
            = Cardinality(HandsOf(current, u)) - Same(current[w], u) + Same(Head(queue).task, u)
      BY <1>8, <2>1
    <3>3. Cardinality(Places(queue', u)) = Cardinality(Places(queue, u)) - Same(Head(queue).task, u)
      BY <2>1, <2>2
    <3>4. Cardinality(HandsOf(runnable', u)) = Cardinality(HandsOf(runnable, u))
      OBVIOUS
    <3> QED BY <1>4, <1>5, <3>1, <3>2, <3>3, <3>4
  <2> QED BY <1>6, <2>3, <2>4, <2>5, <2>6, <2>7 DEF Sound
<1>10. CASE ~(~tooManyThreadsActive /\ queue # <<>>)
  <2>1. /\ current'[w] = NoTask /\ activeThreads' = n - 1 /\ queue' = queue
        /\ \/ wpc' = [wpc EXCEPT ![w] = "ended"] /\ UNCHANGED <<waitingThreads, expiredThreads>>
           \/ /\ wpc' = [wpc EXCEPT ![w] = "ended"] /\ expiredThreads' = Append(expiredThreads, w)
              /\ UNCHANGED waitingThreads
           \/ /\ wpc' = [wpc EXCEPT ![w] = "waiting"] /\ waitingThreads' = Append(waitingThreads, w)
              /\ UNCHANGED expiredThreads
    BY <1>0, <1>10 DEF Continue, EndAs, RegisterInactive
  <2>2. wpc'[w] \in {"ended", "waiting"}
    BY <1>0, <2>1
  <2>3. Hands'
    BY <1>1, <1>7, <2>1, <2>2, ThreadPoolAssumption DEF Sound, Hands, OnlyAt, Gone
  <2>4. waitingThreads' \in Seq(Workers)
    <3>1. Append(waitingThreads, w) \in Seq(Workers)
      BY <1>0
    <3> QED BY <1>0, <2>1, <3>1
  <2>5. expiredThreads' \in Seq(Workers) /\ Expired'
    <3>1. CASE UNCHANGED expiredThreads
      BY <1>0, <1>3, <1>7, <3>1 DEF Sound, Expired, OnlyAt
    <3>2. CASE wpc' = [wpc EXCEPT ![w] = "ended"] /\ expiredThreads' = Append(expiredThreads, w)
      BY <1>1, <3>2, AppendedExpired
    <3> QED BY <2>1, <3>1, <3>2
  <2>6. ActiveCounted'
    <3>1. Working' = (Working \cup {w}) \ {w}
      BY <1>1, <1>7, <2>2 DEF Working, OnlyAt
    <3>2. Cardinality((Working \cup {w}) \ {w}) = n - 1
      BY <1>2, FS_RemoveElement
    <3> QED BY <2>1, <3>1, <3>2 DEF ActiveCounted
  <2>7. PoolTypes'
    BY <1>0, <1>7, <2>1, <2>4, <2>5 DEF PoolTypes
  <2>8. ASSUME NEW u \in Tasks PROVE Held(u)' = Held(u) - Same(current[w], u)
    <3>1. Same(current[w], u) \in Int /\ Same(NoTask, u) = 0
      BY ThreadPoolAssumption DEF Same
    <3>2. Cardinality(HandsOf(current', u)) = Cardinality(HandsOf(current, u)) - Same(current[w], u)
      BY <1>4, <1>8, <2>1, <3>1
    <3>3. Cardinality(Places(queue', u)) = Cardinality(Places(queue, u))
          /\ Cardinality(HandsOf(runnable', u)) = Cardinality(HandsOf(runnable, u))
      BY <2>1
    <3> QED BY <1>4, <1>5, <3>1, <3>2, <3>3
  <2> QED BY <1>6, <2>3, <2>5, <2>6, <2>7, <2>8 DEF Sound
<1> QED BY <1>9, <1>10

-----------------------------------------------------------------------------
(* Every step keeps the pool sound, and says what becomes of the tasks.    *)

LEMMA NextCases ==
  ASSUME [Next]_vars
  PROVE  \/ UNCHANGED vars
         \/ \E t \in Tasks : TryStartTask(t) \/ \E priority \in Priorities : StartTask(t, priority)
         \/ \E w \in Workers :
              TryStartAgain(w) \/ RunThread(w) \/ FinishTask(w) \/ WakeThread(w) \/ Finish(w)
         \/ \E limit \in Limits : SetMaxThreadCount(limit)
         \/ ReserveThread \/ ReleaseThread \/ StartMore \/ StartMoreDone
         \/ \E c \in Waiters :
              \/ WaitOver(c) \/ Reset(c) \/ WakeVictim(c) \/ JoinVictim(c) \/ ResetAgain(c)
              \/ \E limit \in BOOLEAN : WaitForDone(c, limit)
BY DEF Next, Application, MoreThreads, Worker, Waiter

\* The threads move on without a task passing from hand to hand.
Moved ==
  /\ UNCHANGED <<queue, runnable, current, activeThreads, ref, alive, started, ran>>
  /\ wpc' \in [Workers -> WorkerPoints]
  /\ \A w \in Workers :
       wpc'[w] = wpc[w] \/ (wpc[w] = "waiting" /\ wpc'[w] = "woken") \/ {wpc[w], wpc'[w]} \subseteq Gone
  /\ allThreads' \subseteq Workers
  /\ waitingThreads' \in Seq(Workers)
  /\ expiredThreads' \in {expiredThreads, <<>>}

LEMMA MovedSteps ==
  ASSUME NEW c, NEW w, NEW limit, TypeOK,
         \/ UNCHANGED vars \/ SetMaxThreadCount(limit) \/ ReserveThread \/ ReleaseThread
         \/ StartMoreDone \/ WaitForDone(c, limit) \/ WaitOver(c)
         \/ c \in Waiters /\ (Reset(c) \/ WakeVictim(c) \/ JoinVictim(c) \/ ResetAgain(c))
         \/ w \in Workers /\ Finish(w)
  PROVE  Moved
<1> USE DEF vars, threadVars, poolVars
<1>0. /\ allThreads \subseteq Workers /\ waitingThreads \in Seq(Workers)
      /\ wpc \in [Workers -> WorkerPoints]
      /\ victims \in [Waiters -> SUBSET Workers] /\ join \in [Waiters -> SUBSET Workers]
  BY DEF TypeOK
<1>1. CASE \/ UNCHANGED vars \/ SetMaxThreadCount(limit) \/ ReserveThread \/ ReleaseThread
           \/ StartMoreDone \/ WaitForDone(c, limit) \/ WaitOver(c)
  <2>1. UNCHANGED <<threadVars, poolVars, ref, alive, started, ran>>
    BY <1>1 DEF SetMaxThreadCount, ReserveThread, ReleaseThread, StartMoreDone, WaitForDone, WaitOver
  <2> QED BY <1>0, <2>1 DEF Moved
<1>2. CASE c \in Waiters /\ (Reset(c) \/ ResetAgain(c))
  <2>1. /\ UNCHANGED <<threadVars, queue, activeThreads, ref, alive, started, ran>>
        /\ allThreads' \in {allThreads, {}} /\ waitingThreads' \in {waitingThreads, <<>>}
        /\ expiredThreads' \in {expiredThreads, <<>>}
    BY <1>2 DEF Reset, ResetAgain
  <2>2. <<>> \in Seq(Workers)
    OBVIOUS
  <2>3. UNCHANGED <<queue, runnable, current, wpc, activeThreads, ref, alive, started, ran>>
    BY <2>1
  <2> HIDE DEF threadVars, poolVars, vars
  <2> QED BY <1>0, <2>1, <2>2, <2>3 DEF Moved
<1>3. CASE c \in Waiters /\ WakeVictim(c)
  <2>1. PICK v \in victims[c] : wpc' = Signalled(v)
    BY <1>3 DEF WakeVictim
  <2>2. v \in Workers
    BY <1>0, <1>3, <2>1
  <2>3. UNCHANGED <<runnable, current, poolVars, ref, alive, started, ran>>
    BY <1>3 DEF WakeVictim
  <2> QED BY <1>0, <2>1, <2>2, <2>3 DEF Moved, Signalled, WorkerPoints
<1>4. CASE c \in Waiters /\ JoinVictim(c)
  <2>1. PICK v \in join[c] : wpc[v] = "finished" /\ wpc' = [wpc EXCEPT ![v] = "deleted"]
    BY <1>4 DEF JoinVictim
  <2>2. v \in Workers
    BY <1>0, <1>4, <2>1
  <2>3. UNCHANGED <<runnable, current, poolVars, ref, alive, started, ran>>
    BY <1>4 DEF JoinVictim
  <2> QED BY <1>0, <2>1, <2>2, <2>3 DEF Moved, WorkerPoints, Gone
<1>5. CASE w \in Workers /\ Finish(w)
  <2>1. /\ wpc[w] \in {"ended", "finishing"} /\ wpc'[w] \in {"finishing", "finished"}
        /\ wpc' \in [Workers -> WorkerPoints] /\ \A v \in Workers \ {w} : wpc'[v] = wpc[v]
    BY <1>0, <1>5 DEF Finish, WorkerPoints
  <2>3. UNCHANGED <<runnable, current, poolVars, ref, alive, started, ran>>
    BY <1>5 DEF Finish
  <2> QED BY <1>0, <1>5, <2>1, <2>3 DEF Moved, Gone
<1> QED BY <1>1, <1>2, <1>3, <1>4, <1>5

LEMMA MovedSound ==
  ASSUME Sound, Moved
  PROVE  Sound' /\ \A t : Held(t)' = Held(t)
<1>0. /\ expiredThreads \in Seq(Workers) /\ <<>> \in Seq(Workers)
      /\ \A k \in DOMAIN expiredThreads : expiredThreads[k] \in Workers
  BY LenProperties DEF Sound, PoolTypes
<1>1. PoolTypes'
  BY <1>0 DEF Sound, PoolTypes, Moved
<1>2. Hands'
  BY DEF Sound, Hands, Moved, Gone
<1>3. Expired'
  BY <1>0 DEF Sound, Expired, Moved, Gone
<1>4. Working' = Working
  BY DEF Moved, Working, Gone
<1>5. ActiveCounted'
  BY <1>4 DEF Sound, ActiveCounted, Moved
<1>6. ASSUME NEW t PROVE Held(t)' = Held(t)
  BY DEF Moved, Held
<1> QED BY <1>1, <1>2, <1>3, <1>5, <1>6 DEF Sound

LEMMA RunThreadSound ==
  ASSUME TypeOK, Sound, NEW w \in Workers, RunThread(w)
  PROVE  Sound' /\ (\A u \in Tasks : Held(u)' = Held(u)) /\ UNCHANGED <<ref, alive, started, ran>>
<1>0. /\ wpc \in [Workers -> WorkerPoints] /\ runnable \in [Workers -> Tasks \cup {NoTask}]
      /\ current \in [Workers -> Tasks \cup {NoTask}]
      /\ \A k \in DOMAIN expiredThreads : expiredThreads[k] \in Workers
  BY LenProperties DEF Sound, PoolTypes
<1>1. wpc[w] = "run" /\ runnable[w] # NoTask /\ current[w] = NoTask
  BY DEF RunThread, Sound, Hands
<1>2. /\ OnlyAt(w, runnable, runnable') /\ OnlyAt(w, current, current') /\ OnlyAt(w, wpc, wpc')
      /\ runnable'[w] = NoTask /\ current'[w] = runnable[w] /\ wpc'[w] = "task"
      /\ wpc' \in [Workers -> WorkerPoints] /\ runnable' \in [Workers -> Tasks \cup {NoTask}]
      /\ current' \in [Workers -> Tasks \cup {NoTask}]
  BY <1>0 DEF RunThread, OnlyAt, WorkerPoints
<1>3. UNCHANGED <<queue, poolVars, ref, alive, started, ran>>
  BY DEF RunThread, poolVars
<1>4. PoolTypes'
  BY <1>2, <1>3 DEF Sound, PoolTypes, poolVars
<1>5. Hands'
  BY <1>1, <1>2 DEF Sound, Hands, OnlyAt
<1>6. Expired'
  <2>1. \A k \in DOMAIN expiredThreads : expiredThreads[k] # w
    BY <1>1 DEF Sound, Expired, Gone
  <2> QED BY <1>0, <1>2, <1>3, <2>1 DEF Sound, Expired, OnlyAt, poolVars
<1>7. ActiveCounted'
  <2>1. Working' = Working
    BY <1>1, <1>2 DEF Working, OnlyAt
  <2> QED BY <1>3, <2>1 DEF Sound, ActiveCounted, poolVars
<1>8. ASSUME NEW u \in Tasks PROVE Held(u)' = Held(u)
  <2>1. /\ Cardinality(Places(queue, u)) \in Nat /\ Cardinality(HandsOf(runnable, u)) \in Nat
        /\ Cardinality(HandsOf(current, u)) \in Nat
        /\ Held(u) = Cardinality(Places(queue, u)) + Cardinality(HandsOf(runnable, u))
                     + Cardinality(HandsOf(current, u))
    BY HeldIs
  <2>2. Held(u)' = Cardinality(Places(queue', u)) + Cardinality(HandsOf(runnable', u))
                   + Cardinality(HandsOf(current', u))
    BY DEF Held, Places, HandsOf
  <2>3. Cardinality(HandsOf(runnable', u))
          = Cardinality(HandsOf(runnable, u)) - Same(runnable[w], u) + Same(runnable'[w], u)
    BY <1>2, ExceptCounted
  <2>4. Cardinality(HandsOf(current', u))
          = Cardinality(HandsOf(current, u)) - Same(current[w], u) + Same(current'[w], u)
    BY <1>2, ExceptCounted
  <2>5. Same(NoTask, u) = 0 /\ Same(runnable[w], u) \in Int
    BY ThreadPoolAssumption DEF Same
  <2>6. queue' = queue
    BY <1>3
  <2> QED BY <1>1, <1>2, <2>1, <2>2, <2>3, <2>4, <2>5, <2>6
<1> QED BY <1>3, <1>4, <1>5, <1>6, <1>7, <1>8 DEF Sound

LEMMA WakeThreadSound ==
  ASSUME TypeOK, Sound, NEW w \in Workers, WakeThread(w)
  PROVE  /\ Sound' /\ cpc' \in [Waiters -> WaiterPoints]
         /\ (\A u \in Tasks : Held(u)' = Held(u)) /\ UNCHANGED <<ref, alive, started, ran>>
<1>1. wpc[w] \in {"woken", "waiting"} /\ UNCHANGED <<runnable, allThreads, ref, alive, started, ran>>
  BY DEF WakeThread
<1>2. runnable[w] = NoTask /\ current[w] = NoTask
  BY <1>1 DEF Sound, Hands, Gone
<1>3. CASE w \in ToSet(waitingThreads)
  <2>1. PICK k \in DOMAIN waitingThreads : waitingThreads' = RemoveAt(waitingThreads, k)
    BY <1>3 DEF WakeThread
  <2>2. /\ expiredThreads' = Append(expiredThreads, w) /\ wpc' = [wpc EXCEPT ![w] = "ended"]
        /\ RegisterInactive(activeThreads + 1) /\ UNCHANGED <<queue, current>>
    BY <1>3 DEF WakeThread, EndAs
  <2>3. /\ wpc \in [Workers -> WorkerPoints] /\ waitingThreads \in Seq(Workers)
        /\ activeThreads \in Nat
    BY WorkingFinite DEF Sound, PoolTypes, ActiveCounted
  <2>4. OnlyAt(w, wpc, wpc') /\ wpc'[w] = "ended" /\ wpc' \in [Workers -> WorkerPoints]
    BY <2>2, <2>3 DEF OnlyAt, WorkerPoints
  <2>5. waitingThreads' \in Seq(Workers)
    BY <2>1, <2>3, RemoveKept
  <2>6. expiredThreads' \in Seq(Workers) /\ Expired'
    BY <1>1, <1>2, <2>2, AppendedExpired DEF Gone
  <2>7. PoolTypes'
    BY <1>1, <2>2, <2>4, <2>5, <2>6 DEF Sound, PoolTypes
  <2>8. Hands'
    BY <1>1, <1>2, <2>2, <2>4 DEF Sound, Hands, OnlyAt
  <2>9. ActiveCounted'
    <3>1. Working' = Working
      BY <1>1, <1>2, <2>4 DEF Working, OnlyAt
    <3> QED BY <2>2, <2>3, <3>1 DEF Sound, ActiveCounted, RegisterInactive
  <2>10. cpc' \in [Waiters -> WaiterPoints]
    BY <2>2 DEF TypeOK, RegisterInactive, WaiterPoints
  <2>11. \A u \in Tasks : Held(u)' = Held(u)
    BY <1>1, <2>2 DEF Held
  <2> QED BY <1>1, <2>6, <2>7, <2>8, <2>9, <2>10, <2>11 DEF Sound
<1>4. CASE w \notin ToSet(waitingThreads)
  <2>1. Continue(w, activeThreads + 1)
    BY <1>4 DEF WakeThread
  <2>2. /\ Sound' /\ cpc' \in [Waiters -> WaiterPoints]
        /\ \A u \in Tasks : Held(u)' = Held(u) - Same(current[w], u)
    BY <1>1, <2>1, ContinueKeeps
  <2>3. \A u \in Tasks : Same(current[w], u) = 0 /\ Held(u) \in Nat
    BY <1>2, HeldIs, ThreadPoolAssumption DEF Same
  <2> QED BY <1>1, <2>2, <2>3
<1> QED BY <1>3, <1>4

LEMMA FinishTaskSound ==
  ASSUME TypeOK, Sound, NEW w \in Workers, FinishTask(w)
  PROVE  /\ Sound' /\ cpc' \in [Waiters -> WaiterPoints]
         /\ current[w] \in Tasks /\ Held(current[w]) > 0
         /\ \A u \in Tasks : Held(u)' = Held(u) - Same(current[w], u)
<1>1. wpc[w] = "task" /\ Continue(w, activeThreads) /\ UNCHANGED <<runnable, allThreads>>
  BY DEF FinishTask
<1>2. current[w] \in Tasks
  BY <1>1 DEF Sound, PoolTypes, Hands
<1>3. Held(current[w]) > 0
  BY HeldSomewhere
<1>4. /\ Sound' /\ cpc' \in [Waiters -> WaiterPoints]
      /\ \A u \in Tasks : Held(u)' = Held(u) - Same(current[w], u)
  BY <1>1, ContinueKeeps
<1> QED BY <1>2, <1>3, <1>4

-----------------------------------------------------------------------------
(* The tasks.                                                              *)

Counts == TaskTypes /\ References /\ EachStartRunsOnce

\* A task that is there is accepted and held once more.
LEMMA AcceptedCounts ==
  ASSUME TypeOK, Counts, NEW t \in Tasks, t \in alive, Accept(t), ref' = Referenced(t),
         UNCHANGED <<alive, ran>>, \A u \in Tasks : Held(u)' = Held(u) + Same(t, u)
  PROVE  Counts'
<1>1. \A u \in Tasks : Held(u) \in Nat
  BY HeldIs
<1>2. /\ ref' \in [Tasks -> Nat] /\ started' \in [Tasks -> Nat]
      /\ \A u \in Tasks : started'[u] = started[u] + Same(t, u)
      /\ \A u \in AutoDelete : ref'[u] = ref[u] + Same(t, u)
  BY ThreadPoolAssumption DEF Counts, TaskTypes, Accept, Referenced, Same
<1>3. TaskTypes'
  BY <1>2 DEF Counts, TaskTypes
<1>4. \A u \in Tasks : Same(t, u) \in {0, 1} /\ (Same(t, u) = 1 => t = u)
  BY DEF Same
<1>5. EachStartRunsOnce'
  <2>1. \A u \in Tasks : started'[u] = ran'[u] + Held(u)'
    BY <1>1, <1>2, <1>4 DEF Counts, EachStartRunsOnce, TaskTypes
  <2> QED BY <2>1 DEF EachStartRunsOnce
<1>6. References'
  <2>1. ASSUME NEW u \in AutoDelete
        PROVE  Held(u)' <= ref'[u] /\ (Held(u)' > 0 => u \in alive)
    <3>1. u \in Tasks /\ ref[u] \in Nat /\ Held(u) <= ref[u] /\ (Held(u) > 0 => u \in alive)
      BY ThreadPoolAssumption DEF Counts, References, TaskTypes
    <3> QED BY <1>1, <1>2, <1>4, <3>1
  <2> QED BY <2>1 DEF Counts, References
<1> QED BY <1>3, <1>5, <1>6 DEF Counts

\* The step of tryToStartMoreThreads counts a task again that is held already.
LEMMA AgainCounts ==
  ASSUME TypeOK, Counts, NEW t \in Tasks, ref' \in {ref, Referenced(t)},
         UNCHANGED <<alive, started, ran>>, \A u \in Tasks : Held(u)' = Held(u)
  PROVE  Counts'
<1>1. \A u \in Tasks : Held(u) \in Nat
  BY HeldIs
<1>2. ref' \in [Tasks -> Nat] /\ \A u \in Tasks : ref'[u] \in {ref[u], ref[u] + 1}
  BY DEF Counts, TaskTypes, Referenced
<1>3. TaskTypes'
  BY <1>2 DEF Counts, TaskTypes
<1>4. EachStartRunsOnce'
  BY DEF Counts, EachStartRunsOnce
<1>5. References'
  <2>1. ASSUME NEW u \in AutoDelete
        PROVE  Held(u)' <= ref'[u] /\ (Held(u)' > 0 => u \in alive)
    <3>1. u \in Tasks /\ ref[u] \in Nat /\ Held(u) <= ref[u] /\ (Held(u) > 0 => u \in alive)
      BY ThreadPoolAssumption DEF Counts, References, TaskTypes
    <3> QED BY <1>1, <1>2, <3>1
  <2> QED BY <2>1 DEF Counts, References
<1> QED BY <1>3, <1>4, <1>5 DEF Counts

LEMMA SameCounts ==
  ASSUME Counts, UNCHANGED <<ref, alive, started, ran>>, \A u \in Tasks : Held(u)' = Held(u)
  PROVE  Counts'
<1>1. TaskTypes' /\ EachStartRunsOnce'
  BY DEF Counts, TaskTypes, EachStartRunsOnce
<1>2. References'
  BY ThreadPoolAssumption DEF Counts, References
<1> QED BY <1>1, <1>2 DEF Counts

\* run() has returned: the task is held once less, and deleted only when nobody holds it.
LEMMA FinishedCounts ==
  ASSUME TypeOK, Counts, NEW t \in Tasks, Held(t) > 0,
         ran' = [ran EXCEPT ![t] = @ + 1],
         ref' = IF t \in AutoDelete THEN [ref EXCEPT ![t] = @ - 1] ELSE ref,
         alive' = IF LastReference(t) THEN alive \ {t} ELSE alive,
         UNCHANGED started, \A u \in Tasks : Held(u)' = Held(u) - Same(t, u)
  PROVE  Counts'
<1>1. \A u \in Tasks : Held(u) \in Nat
  BY HeldIs
<1>2. \A u \in Tasks : Same(t, u) \in {0, 1} /\ (Same(t, u) = 1 <=> t = u)
  BY DEF Same
<1>3. t \in AutoDelete => ref[t] > 0 /\ Held(t) <= ref[t] /\ ref[t] \in Nat
  BY <1>1 DEF Counts, References, TaskTypes
<1>4. /\ ran' \in [Tasks -> Nat] /\ \A u \in Tasks : ran'[u] = ran[u] + Same(t, u)
  BY DEF Counts, TaskTypes, Same
<1>5. /\ ref' \in [Tasks -> Nat] /\ \A u \in AutoDelete : ref'[u] = ref[u] - Same(t, u)
  <2>1. CASE t \in AutoDelete
    <3>1. ref[t] - 1 \in Nat
      BY <1>3, <2>1
    <3> QED BY <2>1, <3>1, ThreadPoolAssumption DEF Counts, TaskTypes, Same
  <2>2. CASE t \notin AutoDelete
    BY <2>2, ThreadPoolAssumption DEF Counts, TaskTypes, Same
  <2> QED BY <2>1, <2>2
<1>6. TaskTypes'
  BY <1>4, <1>5 DEF Counts, TaskTypes
<1>7. EachStartRunsOnce'
  <2>1. ASSUME NEW u \in Tasks PROVE started'[u] = ran'[u] + Held(u)'
    <3>1. started[u] = ran[u] + Held(u) /\ ran[u] \in Nat /\ started'[u] = started[u]
      BY DEF Counts, EachStartRunsOnce, TaskTypes
    <3>2. ran'[u] = ran[u] + Same(t, u) /\ Held(u)' = Held(u) - Same(t, u)
      BY <1>4
    <3> QED BY <1>1, <1>2, <3>1, <3>2
  <2> QED BY <2>1 DEF EachStartRunsOnce
<1>8. References'
  <2>1. ASSUME NEW u \in AutoDelete
        PROVE  Held(u)' <= ref'[u] /\ (Held(u)' > 0 => u \in alive')
    <3>1. u \in Tasks /\ ref[u] \in Nat /\ Held(u) <= ref[u] /\ (Held(u) > 0 => u \in alive)
      BY ThreadPoolAssumption DEF Counts, References, TaskTypes
    <3>2. Held(u)' = Held(u) - Same(t, u) /\ ref'[u] = ref[u] - Same(t, u)
      BY <1>5, <3>1
    <3>3. Held(u)' <= ref'[u] /\ Held(u)' <= Held(u)
      BY <1>1, <1>2, <3>1, <3>2
    <3>4. CASE LastReference(t) /\ u = t
      <4>1. ref[t] = 1 /\ Same(t, u) = 1
        BY <1>2, <3>1, <3>4 DEF LastReference
      <4> QED BY <1>1, <3>1, <3>2, <3>3, <3>4, <4>1
    <3>5. CASE ~(LastReference(t) /\ u = t)
      <4>1. u \in alive => u \in alive'
        BY <3>5
      <4>2. Held(u)' > 0 => Held(u) > 0
        BY <1>1, <1>2, <3>1, <3>2
      <4> QED BY <3>1, <3>3, <4>1, <4>2
    <3> QED BY <3>4, <3>5
  <2>2. Tasks \ AutoDelete \subseteq alive'
    BY DEF Counts, References, LastReference
  <2> QED BY <2>1, <2>2 DEF References
<1> QED BY <1>6, <1>7, <1>8 DEF Counts

-----------------------------------------------------------------------------
(* The invariant.                                                          *)

LEMMA OtherTypesStep ==
  ASSUME TypeOK, [Next]_vars,
         \A w \in Workers : WakeThread(w) \/ FinishTask(w) => cpc' \in [Waiters -> WaiterPoints]
  PROVE  OtherTypes'
<1>0. OtherTypes /\ allThreads \subseteq Workers
  BY DEF TypeOK, OtherTypes
<1>1. CASE UNCHANGED vars
  BY <1>0, <1>1 DEF vars, limitVars, waiterVars, OtherTypes
<1>2. ASSUME NEW t, NEW priority, NEW w,
             \/ TryStartTask(t) \/ StartTask(t, priority) \/ TryStartAgain(w) \/ RunThread(w)
             \/ Finish(w)
      PROVE  OtherTypes'
  <2>1. UNCHANGED <<limitVars, waiterVars, moreThreads, changes>>
    BY <1>2 DEF TryStartTask, StartTask, TryStartAgain, RunThread, Finish
  <2> QED BY <1>0, <2>1 DEF limitVars, waiterVars, OtherTypes
<1>3. ASSUME NEW limit \in Limits, SetMaxThreadCount(limit) PROVE OtherTypes'
  BY <1>0, <1>3 DEF SetMaxThreadCount, waiterVars, OtherTypes
<1>4. CASE ReserveThread
  BY <1>0, <1>4 DEF ReserveThread, waiterVars, OtherTypes
<1>5. CASE ReleaseThread
  BY <1>0, <1>5 DEF ReleaseThread, waiterVars, OtherTypes
<1>6. CASE StartMore
  BY <1>0, <1>6 DEF StartMore, limitVars, waiterVars, OtherTypes
<1>7. CASE StartMoreDone
  BY <1>0, <1>7 DEF StartMoreDone, limitVars, waiterVars, OtherTypes
<1>8. ASSUME NEW w \in Workers, WakeThread(w) \/ FinishTask(w) PROVE OtherTypes'
  <2>1. UNCHANGED <<limitVars, timed, victims, join, waits, moreThreads, changes>>
    BY <1>8 DEF WakeThread, FinishTask
  <2>2. cpc' \in [Waiters -> WaiterPoints]
    BY <1>8
  <2> QED BY <1>0, <2>1, <2>2 DEF limitVars, OtherTypes
<1>9. ASSUME NEW c \in Waiters, NEW limit,
             \/ (limit \in BOOLEAN /\ WaitForDone(c, limit)) \/ WaitOver(c) \/ Reset(c) \/ WakeVictim(c) \/ JoinVictim(c)
             \/ ResetAgain(c)
      PROVE  OtherTypes'
  <2>1. CASE (limit \in BOOLEAN /\ WaitForDone(c, limit)) \/ WaitOver(c)
    BY <1>0, <2>1 DEF WaitForDone, WaitOver, limitVars, OtherTypes, WaiterPoints
  <2>2. CASE Reset(c) \/ ResetAgain(c)
    BY <1>0, <2>2 DEF Reset, ResetAgain, OtherTypes, WaiterPoints
  <2>3. CASE WakeVictim(c) \/ JoinVictim(c)
    BY <1>0, <2>3 DEF WakeVictim, JoinVictim, limitVars, OtherTypes
  <2> QED BY <1>9, <2>1, <2>2, <2>3
<1> QED BY <1>1, <1>2, <1>3, <1>4, <1>5, <1>6, <1>7, <1>8, <1>9, NextCases

LEMMA InitIInv == Init => IInv
<1> SUFFICES ASSUME Init PROVE IInv
  OBVIOUS
<1>1. queue \in Seq(Entries) /\ waitingThreads \in Seq(Workers) /\ expiredThreads \in Seq(Workers)
      /\ DOMAIN queue = {} /\ DOMAIN expiredThreads = {}
  BY DEF Init
<1>2. PoolTypes
  BY <1>1 DEF Init, PoolTypes, WorkerPoints
<1>3. TaskTypes /\ OtherTypes
  <2>1. TaskTypes
    BY DEF Init, TaskTypes
  <2>2. FirstLimit \in Limits
    BY ThreadPoolAssumption
  <2>3. cpc \in [Waiters -> WaiterPoints] /\ timed \in [Waiters -> BOOLEAN]
    BY DEF Init, WaiterPoints
  <2>4. /\ victims \in [Waiters -> SUBSET Workers] /\ join \in [Waiters -> SUBSET Workers]
        /\ waits \in [Waiters -> Nat]
    BY DEF Init
  <2>5. isExiting \in BOOLEAN /\ moreThreads \in BOOLEAN
    BY DEF Init
  <2>6. maxThreadCount \in Limits /\ reservedThreads \in Int /\ changes \in Nat
    BY <2>2 DEF Init
  <2> QED BY <2>1, <2>3, <2>4, <2>5, <2>6 DEF OtherTypes
<1>4. Hands /\ Expired
  BY <1>1 DEF Init, Hands, Expired
<1>5. ActiveCounted
  <2>1. Working = {}
    BY DEF Init, Working
  <2> QED BY <2>1, FS_EmptySet DEF Init, ActiveCounted
<1>6. TypeOK
  BY <1>2, <1>3, <1>5, Types
<1>7. \A t \in Tasks : Held(t) = 0
  <2> TAKE t \in Tasks
  <2>1. t # NoTask
    BY ThreadPoolAssumption
  <2>2. Places(queue, t) = {} /\ HandsOf(runnable, t) = {} /\ HandsOf(current, t) = {}
    BY <1>1, <2>1 DEF Init, Places, HandsOf
  <2>3. Held(t) = Cardinality(Places(queue, t)) + Cardinality(HandsOf(runnable, t))
                  + Cardinality(HandsOf(current, t))
    BY <1>6, HeldIs
  <2> QED BY <2>2, <2>3, FS_EmptySet
<1>8. EachStartRunsOnce /\ References
  BY <1>7, ThreadPoolAssumption DEF Init, EachStartRunsOnce, References
<1> QED BY <1>4, <1>5, <1>6, <1>8 DEF IInv

\* What a start of any kind does.
LEMMA Starting ==
  ASSUME IInv, NEW t \in Tasks, t \in alive, Accept(t), UNCHANGED <<current, alive, ran>>,
         \/ TryStart(t, FALSE)
         \/ /\ \E priority \in Priorities : queue' = Enqueued(queue, t, priority)
            /\ ref' = Referenced(t)
            /\ IF waitingThreads # <<>> THEN RecycleThread
               ELSE UNCHANGED <<wpc, allThreads, waitingThreads, expiredThreads,
                                activeThreads, runnable>>
  PROVE  Sound' /\ Counts'
<1>1. TypeOK /\ Sound /\ Counts
  BY Types DEF IInv, Sound, Counts
<1>2. Sound' /\ ref' = Referenced(t) /\ \A u \in Tasks : Held(u)' = Held(u) + Same(t, u)
  <2>1. CASE TryStart(t, FALSE)
    BY <1>1, <2>1, TryStartKeeps
  <2>2. CASE /\ \E priority \in Priorities : queue' = Enqueued(queue, t, priority)
             /\ ref' = Referenced(t)
             /\ IF waitingThreads # <<>> THEN RecycleThread
                ELSE UNCHANGED <<wpc, allThreads, waitingThreads, expiredThreads,
                                 activeThreads, runnable>>
    <3>1. PICK priority \in Priorities : queue' = Enqueued(queue, t, priority)
      BY <2>2
    <3>2. queue \in Seq(Entries)
      BY <1>1 DEF Sound, PoolTypes
    <3>3. /\ queue' \in Seq(Entries)
          /\ \A u : Cardinality(Places(queue', u)) = Cardinality(Places(queue, u)) + Same(t, u)
      BY <3>1, <3>2, EnqueuedCounted
    <3>4. /\ wpc' \in [Workers -> WorkerPoints] /\ waitingThreads' \in Seq(Workers)
          /\ Hands' /\ Expired' /\ ActiveCounted'
          /\ UNCHANGED <<allThreads, expiredThreads, activeThreads, runnable>>
      <4>1. CASE waitingThreads # <<>>
        BY <1>1, <2>2, <4>1, Recycled
      <4>2. CASE waitingThreads = <<>>
        <5>1. UNCHANGED <<wpc, allThreads, waitingThreads, expiredThreads, activeThreads, runnable>>
          BY <2>2, <4>2
        <5>2. Working' = Working
          BY <5>1 DEF Working
        <5> QED BY <1>1, <5>1, <5>2 DEF Sound, PoolTypes, Hands, Expired, ActiveCounted
      <4> QED BY <4>1, <4>2
    <3>5. Sound'
      BY <1>1, <3>3, <3>4 DEF Sound, PoolTypes
    <3>6. ASSUME NEW u \in Tasks PROVE Held(u)' = Held(u) + Same(t, u)
      <4>1. /\ Cardinality(Places(queue, u)) \in Nat /\ Cardinality(HandsOf(runnable, u)) \in Nat
            /\ Cardinality(HandsOf(current, u)) \in Nat
            /\ Held(u) = Cardinality(Places(queue, u)) + Cardinality(HandsOf(runnable, u))
                         + Cardinality(HandsOf(current, u))
        BY <1>1, HeldIs
      <4>2. Held(u)' = Cardinality(Places(queue', u)) + Cardinality(HandsOf(runnable', u))
                       + Cardinality(HandsOf(current', u))
        BY DEF Held, Places, HandsOf
      <4>3. Same(t, u) \in Int
        BY DEF Same
      <4>4. /\ Cardinality(HandsOf(runnable', u)) = Cardinality(HandsOf(runnable, u))
            /\ Cardinality(HandsOf(current', u)) = Cardinality(HandsOf(current, u))
        BY <3>4
      <4>5. Cardinality(Places(queue', u)) = Cardinality(Places(queue, u)) + Same(t, u)
        BY <3>3
      <4> QED BY <4>1, <4>2, <4>3, <4>4, <4>5
    <3> QED BY <2>2, <3>5, <3>6
  <2> QED BY <2>1, <2>2
<1>3. Counts'
  BY <1>1, <1>2, AcceptedCounts
<1> QED BY <1>2, <1>3

LEMMA IInvStep == IInv /\ [Next]_vars => IInv'
<1> SUFFICES ASSUME IInv, [Next]_vars PROVE IInv'
  OBVIOUS
<1>0. TypeOK /\ Sound /\ Counts
  BY Types DEF IInv, Sound, Counts
<1>1. Sound' /\ Counts'
  <2>1. ASSUME NEW t \in Tasks, TryStartTask(t) PROVE Sound' /\ Counts'
    <3>1. t \in alive /\ Accept(t) /\ TryStart(t, FALSE) /\ UNCHANGED <<current, alive, ran>>
      BY <2>1 DEF TryStartTask, MayOffer, MayStart
    <3> QED BY <3>1, Starting
  <2>2. ASSUME NEW t \in Tasks, NEW priority \in Priorities, StartTask(t, priority)
        PROVE  Sound' /\ Counts'
    <3>1. t \in alive /\ Accept(t) /\ UNCHANGED <<current, alive, ran>>
      BY <2>2 DEF StartTask, MayOffer, MayStart
    <3>2. \/ TryStart(t, FALSE)
          \/ /\ queue' = Enqueued(queue, t, priority) /\ ref' = Referenced(t)
             /\ IF waitingThreads # <<>> THEN RecycleThread
                ELSE UNCHANGED <<wpc, allThreads, waitingThreads, expiredThreads,
                                 activeThreads, runnable>>
      BY <2>2 DEF StartTask
    <3> QED BY <3>1, <3>2, Starting
  <2>3. ASSUME NEW w \in Workers, TryStartAgain(w) PROVE Sound' /\ Counts'
    <3>1. /\ current[w] \in alive /\ Accept(current[w]) /\ TryStart(current[w], FALSE)
          /\ UNCHANGED <<current, alive, ran>>
      BY <2>3 DEF TryStartAgain, MayStart
    <3>2. current[w] \in Tasks
      BY <1>0, <3>1 DEF Counts, TaskTypes
    <3>3. PICK t \in Tasks : t = current[w]
      BY <3>2
    <3> QED BY <3>1, <3>3, Starting
  <2>4. CASE StartMore
    <3>1. /\ queue # <<>> /\ TryStart(Head(queue).task, TRUE)
          /\ UNCHANGED <<current, alive, started, ran>>
      BY <2>4 DEF StartMore
    <3>2. Head(queue).task \in Tasks
      BY <1>0, <3>1, FirstTask DEF Sound, PoolTypes
    <3>3. PICK t \in Tasks : t = Head(queue).task
      BY <3>2
    <3>4. /\ Sound' /\ ref' = Referenced(t)
          /\ \A u \in Tasks : Held(u)' = Held(u) + (IF TRUE THEN 0 ELSE Same(t, u))
      BY <1>0, <3>1, <3>3, TryStartKeeps
    <3>5. \A u \in Tasks : Held(u)' = Held(u)
      BY <1>0, <3>4, HeldIs
    <3> QED BY <1>0, <3>1, <3>4, <3>5, AgainCounts
  <2>5. ASSUME NEW w \in Workers, RunThread(w) \/ WakeThread(w) PROVE Sound' /\ Counts'
    <3>1. Sound' /\ (\A u \in Tasks : Held(u)' = Held(u)) /\ UNCHANGED <<ref, alive, started, ran>>
      <4>1. CASE RunThread(w)
        BY <1>0, <4>1, RunThreadSound
      <4>2. CASE WakeThread(w)
        BY <1>0, <4>2, WakeThreadSound
      <4> QED BY <2>5, <4>1, <4>2
    <3> QED BY <1>0, <3>1, SameCounts
  <2>6. ASSUME NEW w \in Workers, FinishTask(w) PROVE Sound' /\ Counts'
    <3>1. PICK t : t = current[w]
      OBVIOUS
    <3>2. Sound' /\ t \in Tasks /\ Held(t) > 0 /\ \A u \in Tasks : Held(u)' = Held(u) - Same(t, u)
      BY <1>0, <2>6, <3>1, FinishTaskSound
    <3>3. /\ ran' = [ran EXCEPT ![t] = @ + 1]
          /\ ref' = IF t \in AutoDelete THEN [ref EXCEPT ![t] = @ - 1] ELSE ref
          /\ alive' = IF LastReference(t) THEN alive \ {t} ELSE alive
          /\ UNCHANGED started
      BY <2>6, <3>1 DEF FinishTask
    <3> QED BY <1>0, <3>2, <3>3, FinishedCounts
  <2>7. ASSUME Moved PROVE Sound' /\ Counts'
    <3>1. Sound' /\ \A u \in Tasks : Held(u)' = Held(u)
      BY <1>0, <2>7, MovedSound
    <3>2. UNCHANGED <<ref, alive, started, ran>>
      BY <2>7 DEF Moved
    <3> QED BY <1>0, <3>1, <3>2, SameCounts
  <2> QED BY <1>0, <2>1, <2>2, <2>3, <2>4, <2>5, <2>6, <2>7, NextCases, MovedSteps
<1>2. OtherTypes'
  BY <1>0, OtherTypesStep, WakeThreadSound, FinishTaskSound
<1>3. TypeOK'
  <2>1. PoolTypes' /\ TaskTypes' /\ ActiveCounted'
    BY <1>1 DEF Sound, Counts
  <2> QED BY <1>2, <2>1, TypesNext
<1> QED BY <1>1, <1>3 DEF IInv, Sound, Counts

-----------------------------------------------------------------------------
(* The theorems.                                                           *)

\* The invariant holds in every state (qthreadpool.cpp, all of run, tryStart and reset); with
\* it the types, and that tryStart only ever restarts a thread that has no task.
THEOREM Invariance == Spec => []IInv
<1> QED BY InitIInv, IInvStep, PTL DEF Spec

\* Whatever is started, expires, is reserved or reset: activeThreads stays between zero and the
\* number of pooled threads, and QRunnable::ref is never counted below zero (qthreadpool.cpp:91).
THEOREM TypeCorrect == Spec => []TypeOK
<1>1. IInv => TypeOK
  BY DEF IInv
<1> QED BY <1>1, Invariance, PTL

\* Every accepted task is held in one place for every run that is still to come, or has been
\* run: nothing is lost or run twice by recycled, restarted or expiring threads.
THEOREM StartsRunOnce == Spec => []EachStartRunsOnce
<1>1. IInv => EachStartRunsOnce
  BY DEF IInv
<1> QED BY <1>1, Invariance, PTL

\* autoDelete deletes no task that is queued, in the hands of a thread or being run.
THEOREM TasksStay == Spec => []NoTaskDeletedEarly
<1>1. IInv => NoTaskDeletedEarly
  BY DEF IInv, References, NoTaskDeletedEarly
<1> QED BY <1>1, Invariance, PTL

\* activeThreads, which waitForDone waits for, counts the threads with a task in their hands.
THEOREM ActiveAreCounted == Spec => []ActiveCounted
<1>1. IInv => ActiveCounted
  BY DEF IInv
<1> QED BY <1>1, Invariance, PTL

\* The Q_ASSERT of tryStart: an expired thread has no task when it is restarted.
THEOREM ExpiredAreFree == Spec => [](\A k \in DOMAIN expiredThreads : runnable[expiredThreads[k]] = NoTask)
<1>1. IInv => \A k \in DOMAIN expiredThreads : runnable[expiredThreads[k]] = NoTask
  BY DEF IInv, Expired
<1> QED BY <1>1, Invariance, PTL

-----------------------------------------------------------------------------
(* waitForDone, when one thread calls it and is not woken for no reason,   *)
(* tasks are started before it or while a task runs, no thread expires and *)
(* the limit stays as it is.                                               *)

OneCaller ==
  /\ \A c, d \in Waiters : c = d
  /\ ~StartAnyTime /\ ~Expires /\ ~WakesForNothing /\ MaxChanges = 0

Resetting == \E c \in Waiters : cpc[c] = "joining"

\* There are no more threads than the limit, or than the one that is always allowed, so that
\* none ever finds too many of them active.
Limited ==
  /\ ~moreThreads /\ reservedThreads = 0 /\ maxThreadCount = FirstLimit
  /\ Cardinality(allThreads) <= FirstLimit \/ Cardinality(allThreads) <= 1

\* Until the reset wakes them, the threads that are listed as waiting wait, and once each.
Sleepers ==
  Resetting \/ /\ \A k \in DOMAIN waitingThreads : wpc[waitingThreads[k]] = "waiting"
               /\ \A k, l \in DOMAIN waitingThreads :
                    waitingThreads[k] = waitingThreads[l] => k = l

\* Who was woken by the last thread finds nothing to be done, for good.
Drained ==
  \A c \in Waiters : cpc[c] \in {"awake", "reset", "joining"} => queue = <<>> /\ activeThreads = 0

\* A thread that was made is in the pool, in the hands of the reset or deleted.
Known ==
  /\ \A w \in Workers :
       wpc[w] \in {"new", "deleted"} \/ w \in allThreads \/ \E c \in Waiters : w \in victims[c]
  /\ \A c \in Waiters : cpc[c] # "joining" => victims[c] = {}

Orderly == Limited /\ Sleepers /\ Drained /\ Known

LEMMA WorkIsCounted ==
  ASSUME IInv, NEW w \in Workers, wpc[w] = "task" \/ runnable[w] # NoTask
  PROVE  activeThreads # 0
<1>1. w \in Working /\ activeThreads = Cardinality(Working)
  BY DEF IInv, ActiveCounted, Working
<1> QED BY <1>1, WorkingFinite, FS_EmptySet

LEMMA PoolFinite ==
  ASSUME IInv
  PROVE  IsFiniteSet(allThreads) /\ Cardinality(allThreads) \in Nat /\ FirstLimit \in Int
BY ThreadPoolAssumption, FS_Subset, FS_CardinalityType DEF IInv, TypeOK

LEMMA NeverTooMany == ASSUME IInv, Limited PROVE ~tooManyThreadsActive
<1>1. Len(expiredThreads) \in Nat /\ Len(waitingThreads) \in Nat
  BY LenProperties DEF IInv, TypeOK
<1>2. activeThreadCount \in Int /\ activeThreadCount <= Cardinality(allThreads)
  BY <1>1, PoolFinite DEF activeThreadCount, Limited
<1> QED BY <1>2, PoolFinite DEF Limited, tooManyThreadsActive

\* A thread is only added to a pool that has less than the limit, or none.
LEMMA StartLimited ==
  ASSUME IInv, Limited, NEW t, StartThread(t), CanStart,
         allThreads = {} \/ (waitingThreads = <<>> /\ expiredThreads = <<>>),
         UNCHANGED <<limitVars, moreThreads>>
  PROVE  Limited'
<1>1. PICK w \in Workers : allThreads' = allThreads \cup {w}
  BY DEF StartThread
<1>2. /\ Cardinality(allThreads') \in Nat
      /\ Cardinality(allThreads') \in {Cardinality(allThreads), Cardinality(allThreads) + 1}
  <2>1. IsFiniteSet(allThreads) /\ Cardinality(allThreads) \in Nat
    BY PoolFinite
  <2>2. Cardinality(allThreads \cup {w}) \in {Cardinality(allThreads), Cardinality(allThreads) + 1}
    BY <2>1, FS_AddElement
  <2> QED BY <1>1, <2>1, <2>2
<1>3. CASE allThreads = {}
  <2>1. Cardinality(allThreads) = 0
    BY <1>3, FS_EmptySet
  <2> QED BY <1>2, <2>1 DEF Limited, limitVars
<1>4. CASE allThreads # {}
  <2>1. Len(waitingThreads) = 0 /\ Len(expiredThreads) = 0
    BY <1>4
  <2>2. Cardinality(allThreads) < FirstLimit
    BY <1>4, <2>1, PoolFinite DEF CanStart, activeThreadCount, Limited
  <2> QED BY <1>2, <2>2, PoolFinite DEF Limited, limitVars
<1> QED BY <1>3, <1>4

\* The list of the waiting threads, without its first, ...
LEMMA FirstWakes ==
  ASSUME IInv, ~Resetting, Sleepers, waitingThreads # <<>>, RecycleThread, cpc' = cpc
  PROVE  /\ Sleepers' /\ wpc[Head(waitingThreads)] = "waiting"
         /\ \A w \in Workers : wpc'[w] # wpc[w] => w = Head(waitingThreads) /\ wpc'[w] = "woken"
<1>1. PICK s \in Seq(Workers) : s = waitingThreads
  BY DEF IInv, TypeOK
<1>2. /\ Head(s) \in Workers /\ Head(s) = s[1] /\ 1 \in DOMAIN s
      /\ DOMAIN Tail(s) = 1..(Len(s) - 1)
      /\ \A k \in DOMAIN Tail(s) : k + 1 \in DOMAIN s /\ Tail(s)[k] = s[k + 1]
  BY <1>1, TailKept
<1>3. /\ \A k \in DOMAIN s : wpc[s[k]] = "waiting" /\ s[k] \in Workers
      /\ \A k, l \in DOMAIN s : s[k] = s[l] => k = l
  BY <1>1, LenProperties DEF Sleepers
<1>4. wpc' = [wpc EXCEPT ![Head(s)] = "woken"] /\ waitingThreads' = Tail(s)
  BY <1>1, <1>2, <1>3 DEF RecycleThread, Signalled
<1>5. wpc \in [Workers -> WorkerPoints]
  BY DEF IInv, TypeOK
<1>6. ASSUME NEW k \in DOMAIN Tail(s) PROVE wpc'[Tail(s)[k]] = "waiting"
  <2>1. k + 1 \in DOMAIN s /\ k + 1 # 1 /\ Tail(s)[k] = s[k + 1]
    BY <1>2
  <2>2. s[k + 1] # Head(s)
    BY <2>1, <1>2, <1>3
  <2> QED BY <2>1, <2>2, <1>3, <1>4, <1>5
<1>7. ASSUME NEW k \in DOMAIN Tail(s), NEW l \in DOMAIN Tail(s), Tail(s)[k] = Tail(s)[l]
      PROVE  k = l
  <2>1. k + 1 = l + 1
    BY <1>2, <1>3, <1>7
  <2> QED BY <2>1, <1>2
<1>8. Sleepers'
  BY <1>4, <1>6, <1>7 DEF Sleepers
<1> QED BY <1>1, <1>2, <1>3, <1>4, <1>5, <1>8

\* ... with one more at its end, ...
LEMMA OneMoreSleeps ==
  ASSUME IInv, NEW w \in Workers, Sleepers, ~Resetting, wpc[w] # "waiting",
         waitingThreads' = Append(waitingThreads, w), wpc' = [wpc EXCEPT ![w] = "waiting"]
  PROVE  Sleepers'
<1>1. PICK s \in Seq(Workers) : s = waitingThreads
  BY DEF IInv, TypeOK
<1>2. PICK n : n = Len(s)
  OBVIOUS
<1>3. n \in Nat /\ DOMAIN s = 1..n /\ \A k \in DOMAIN s : s[k] \in Workers
  BY <1>2, LenProperties
<1>4. PICK r : r = Append(s, w)
  OBVIOUS
<1>5. DOMAIN r = 1..(n + 1) /\ r[n + 1] = w /\ \A k \in 1..n : r[k] = s[k]
  <2>1. r \in Seq(Workers) /\ Len(r) = n + 1 /\ r[n + 1] = w /\ \A k \in 1..n : r[k] = s[k]
    BY <1>2, <1>4, AppendProperties
  <2> QED BY <2>1, LenProperties
<1>6. /\ \A k \in DOMAIN s : wpc[s[k]] = "waiting" /\ s[k] # w
      /\ \A k, l \in DOMAIN s : s[k] = s[l] => k = l
  BY <1>1 DEF Sleepers
<1>7. wpc \in [Workers -> WorkerPoints] /\ waitingThreads' = r
  BY <1>1, <1>4 DEF IInv, TypeOK
<1>8. \A k \in DOMAIN r : k \in DOMAIN s \/ k = n + 1
  BY <1>3, <1>5
<1>9. \A k \in DOMAIN r : wpc'[r[k]] = "waiting"
  BY <1>3, <1>5, <1>6, <1>7, <1>8
<1>10. ASSUME NEW k \in DOMAIN r, NEW l \in DOMAIN r, r[k] = r[l] PROVE k = l
  BY <1>3, <1>5, <1>6, <1>8, <1>10
<1> QED BY <1>7, <1>9, <1>10 DEF Sleepers

\* ... and when a thread that is not in it moves on.
LEMMA OthersSleep ==
  ASSUME IInv, Sleepers, UNCHANGED waitingThreads, Resetting => Resetting',
         \A v \in Workers : wpc'[v] # wpc[v] => wpc[v] # "waiting"
  PROVE  Sleepers'
<1>1. \A k \in DOMAIN waitingThreads : waitingThreads[k] \in Workers
  BY LenProperties DEF IInv, TypeOK
<1> QED BY <1>1 DEF Sleepers


\* Any start: only while nobody was told that the pool is done.
LEMMA StartOrderly ==
  ASSUME IInv, Orderly, NEW t, \A c \in Waiters : cpc[c] \notin {"awake", "reset", "joining"},
         UNCHANGED <<limitVars, waiterVars, moreThreads>>,
         \/ CanStart /\ TryStart(t, FALSE)
         \/ IF waitingThreads # <<>> THEN RecycleThread
            ELSE UNCHANGED <<wpc, allThreads, waitingThreads, expiredThreads, activeThreads,
                             runnable>>
  PROVE  Orderly'
<1>1. ~Resetting /\ ~Resetting' /\ Limited /\ Sleepers /\ Known
      /\ cpc' = cpc /\ victims' = victims
  BY DEF Resetting, Orderly, waiterVars
<1>2. Drained'
  BY DEF Drained, waiterVars
<1>3. CASE waitingThreads # <<>> /\ RecycleThread
  <2>1. /\ Sleepers' /\ wpc[Head(waitingThreads)] = "waiting" /\ allThreads' = allThreads
        /\ \A w \in Workers : wpc'[w] # wpc[w] => w = Head(waitingThreads) /\ wpc'[w] = "woken"
    BY <1>1, <1>3, FirstWakes DEF RecycleThread
  <2>2. Limited' /\ Known'
    BY <1>1, <2>1 DEF Limited, Known, limitVars
  <2> QED BY <1>2, <2>1, <2>2 DEF Orderly
<1>4. CASE UNCHANGED <<wpc, allThreads, waitingThreads>>
  BY <1>1, <1>2, <1>4 DEF Orderly, Limited, Sleepers, Known, limitVars
<1>5. CASE RestartThread(t) /\ expiredThreads # <<>>
  <2>1. PICK w : w = Head(expiredThreads)
    OBVIOUS
  <2>2. /\ Start(w) /\ UNCHANGED <<allThreads, waitingThreads>>
    BY <1>5, <2>1 DEF RestartThread
  <2>3. /\ wpc \in [Workers -> WorkerPoints]
        /\ wpc' = wpc \/ (wpc[w] \in {"new", "finished"} /\ wpc' = [wpc EXCEPT ![w] = "run"])
    BY <2>2 DEF Start, IInv, TypeOK
  <2>4. w \in Workers /\ wpc[w] # "new"
    <3>1. expiredThreads \in Seq(Workers)
      BY DEF IInv, TypeOK
    <3>2. w \in Workers /\ 1 \in DOMAIN expiredThreads /\ w = expiredThreads[1]
      BY <1>5, <2>1, <3>1, TailKept
    <3> QED BY <3>2 DEF IInv, Expired, Gone
  <2>5. \A v \in Workers : wpc'[v] # wpc[v] => wpc[v] = "finished"
    BY <2>3, <2>4
  <2>6. Sleepers'
    BY <1>1, <2>2, <2>5, OthersSleep
  <2>7. Limited' /\ Known'
    BY <1>1, <2>2, <2>5 DEF Limited, Known, limitVars
  <2> QED BY <1>2, <2>6, <2>7 DEF Orderly
<1>6. CASE StartThread(t) /\ CanStart
           /\ (allThreads = {} \/ (waitingThreads = <<>> /\ expiredThreads = <<>>))
  <2>1. PICK w \in Workers : /\ wpc[w] = "new" /\ allThreads' = allThreads \cup {w} /\ Start(w)
                             /\ UNCHANGED waitingThreads
    BY <1>6 DEF StartThread
  <2>2. wpc' = [wpc EXCEPT ![w] = "run"] /\ wpc \in [Workers -> WorkerPoints]
    BY <2>1 DEF Start, IInv, TypeOK
  <2>3. Limited'
    BY <1>1, <1>6, StartLimited
  <2>4. Sleepers'
    BY <1>1, <2>1, <2>2, OthersSleep
  <2>5. Known'
    BY <1>1, <2>1, <2>2 DEF Known
  <2> QED BY <1>2, <2>3, <2>4, <2>5 DEF Orderly
<1>7. CASE CanStart /\ TryStart(t, FALSE)
  BY <1>3, <1>5, <1>6, <1>7 DEF TryStart
<1> QED BY <1>3, <1>4, <1>7


\* A thread goes on: what it leaves to be done is nothing, when it was the last one.
LEMMA ContinueOrderly ==
  ASSUME IInv, Orderly, NEW w \in Workers, NEW n, Continue(w, n),
         \/ wpc[w] = "task" /\ n = activeThreads
         \/ wpc[w] = "woken" /\ n = activeThreads + 1,
         UNCHANGED <<allThreads, limitVars, victims, moreThreads>>
  PROVE  Orderly'
<1>1. /\ Limited /\ Sleepers /\ Drained /\ Known /\ ~tooManyThreadsActive
      /\ wpc \in [Workers -> WorkerPoints] /\ cpc \in [Waiters -> WaiterPoints]
      /\ activeThreads \in Int /\ n \in Int
  BY NeverTooMany DEF Orderly, IInv, TypeOK
<1>2. Limited'
  BY <1>1 DEF Limited, limitVars
<1>3. ASSUME wpc' \in [Workers -> WorkerPoints], \A v \in Workers \ {w} : wpc'[v] = wpc[v],
             \A c \in Waiters : cpc'[c] = "joining" <=> cpc[c] = "joining"
      PROVE  Known'
  BY <1>1, <1>3 DEF Known
<1>4. CASE queue # <<>>
  <2>1. wpc' = [wpc EXCEPT ![w] = "task"] /\ UNCHANGED <<waitingThreads, cpc>>
    BY <1>1, <1>4 DEF Continue
  <2>2. Drained'
    BY <2>1, <1>1, <1>4 DEF Drained
  <2>3. Sleepers'
    BY <2>1, <1>1, OthersSleep DEF Resetting
  <2>4. Known'
    BY <2>1, <1>1, <1>3 DEF WorkerPoints
  <2> QED BY <2>2, <2>3, <2>4, <1>2 DEF Orderly
<1>5. CASE queue = <<>>
  <2>1. /\ activeThreads' = n - 1 /\ queue' = queue
        /\ \/ wpc' = [wpc EXCEPT ![w] = "ended"] /\ UNCHANGED waitingThreads
           \/ /\ wpc' = [wpc EXCEPT ![w] = "waiting"]
              /\ waitingThreads' = Append(waitingThreads, w)
    BY <1>1, <1>5 DEF Continue, RegisterInactive, EndAs
  <2>2. \A c \in Waiters :
          cpc'[c] = cpc[c] \/ (cpc[c] = "waiting" /\ cpc'[c] = "awake" /\ n = 1)
    BY <1>1, <1>5 DEF Continue, RegisterInactive
  <2>3. Drained'
    <3> SUFFICES ASSUME NEW c \in Waiters, cpc'[c] \in {"awake", "reset", "joining"}
                 PROVE  queue' = <<>> /\ activeThreads' = 0
      BY DEF Drained
    <3>1. CASE cpc'[c] = cpc[c]
      <4>1. activeThreads = 0
        BY <3>1, <1>1 DEF Drained
      <4>2. wpc[w] # "task"
        BY <4>1, WorkIsCounted
      <4> QED BY <4>1, <4>2, <2>1, <1>5
    <3>2. CASE n = 1
      BY <3>2, <2>1, <1>5
    <3> QED BY <3>1, <3>2, <2>2
  <2>4. Resetting => Resetting'
    BY <2>2 DEF Resetting
  <2>5. Sleepers'
    <3>1. CASE wpc' = [wpc EXCEPT ![w] = "ended"] /\ UNCHANGED waitingThreads
      BY <3>1, <2>4, <1>1, OthersSleep
    <3>2. CASE /\ wpc' = [wpc EXCEPT ![w] = "waiting"]
               /\ waitingThreads' = Append(waitingThreads, w)
      <4>1. CASE Resetting
        BY <4>1, <2>4 DEF Sleepers
      <4>2. CASE ~Resetting
        BY <4>2, <3>2, <1>1, OneMoreSleeps
      <4> QED BY <4>1, <4>2
    <3> QED BY <3>1, <3>2, <2>1
  <2>6. Known'
    BY <2>1, <2>2, <1>1, <1>3 DEF WorkerPoints
  <2> QED BY <2>3, <2>5, <2>6, <1>2 DEF Orderly
<1> QED BY <1>4, <1>5

LEMMA WorkersOrderly ==
  ASSUME IInv, Orderly, OneCaller, NEW w \in Workers, Worker(w)
  PROVE  Orderly'
<1>1. /\ Limited /\ Sleepers /\ Drained /\ Known
      /\ wpc \in [Workers -> WorkerPoints] /\ cpc \in [Waiters -> WaiterPoints]
      /\ activeThreads \in Int /\ \A k \in DOMAIN waitingThreads : waitingThreads[k] \in Workers
  BY LenProperties DEF Orderly, IInv, TypeOK
<1>2. ASSUME NEW point, wpc' = [wpc EXCEPT ![w] = point], wpc[w] \notin {"new", "waiting", "deleted"},
             UNCHANGED <<poolVars, limitVars, waiterVars, moreThreads>>
      PROVE  Orderly'
  <2>1. Limited' /\ Drained'
    BY <1>1, <1>2 DEF Limited, Drained, poolVars, limitVars, waiterVars
  <2>2. Sleepers'
    BY <1>1, <1>2, OthersSleep DEF Resetting, poolVars, waiterVars
  <2>3. Known'
    BY <1>1, <1>2 DEF Known, poolVars, waiterVars
  <2> QED BY <2>1, <2>2, <2>3 DEF Orderly
<1>3. CASE RunThread(w)
  BY <1>2, <1>3 DEF RunThread
<1>4. CASE FinishTask(w)
  BY <1>4, ContinueOrderly DEF FinishTask
<1>5. CASE Finish(w)
  <2>1. wpc[w] \in {"ended", "finishing"}
    BY <1>5 DEF Finish
  <2>2. PICK point : wpc' = [wpc EXCEPT ![w] = point]
    BY <1>5 DEF Finish
  <2> QED BY <2>1, <2>2, <1>2, <1>5 DEF Finish
<1>6. CASE WakeThread(w)
  <2>1. wpc[w] = "woken" /\ UNCHANGED <<allThreads, limitVars, victims, moreThreads>>
    BY <1>6 DEF WakeThread, OneCaller
  <2>2. CASE w \in ToSet(waitingThreads)
    <3>1. PICK k \in DOMAIN waitingThreads : waitingThreads[k] = w
      BY <2>2 DEF ToSet
    <3>2. \A c \in Waiters : cpc[c] = "joining"
      BY <2>1, <3>1, <1>1 DEF Sleepers, Resetting, OneCaller
    <3>3. /\ cpc' = cpc /\ activeThreads' = activeThreads /\ queue' = queue
          /\ wpc' = [wpc EXCEPT ![w] = "ended"]
      BY <1>1, <1>6, <2>2, <3>2 DEF WakeThread, RegisterInactive, EndAs
    <3>4. Resetting'
      BY <2>1, <3>1, <3>3, <1>1 DEF Sleepers, Resetting
    <3>5. Limited' /\ Drained' /\ Known'
      BY <1>1, <2>1, <3>3 DEF Limited, Drained, Known, limitVars
    <3> QED BY <3>4, <3>5 DEF Orderly, Sleepers
  <2>3. CASE w \notin ToSet(waitingThreads)
    BY <1>6, <2>1, <2>3, ContinueOrderly DEF WakeThread
  <2> QED BY <2>2, <2>3
<1> QED BY <1>3, <1>4, <1>5, <1>6 DEF Worker

LEMMA WaitersOrderly ==
  ASSUME IInv, Orderly, OneCaller, NEW c \in Waiters, Waiter(c) \/ \E limit \in BOOLEAN : WaitForDone(c, limit)
  PROVE  Orderly'
<1>1. /\ Limited /\ Sleepers /\ Drained /\ Known
      /\ wpc \in [Workers -> WorkerPoints] /\ cpc \in [Waiters -> WaiterPoints]
      /\ victims \in [Waiters -> SUBSET Workers] /\ join \in [Waiters -> SUBSET Workers]
  BY DEF Orderly, IInv, TypeOK
<1>2. CASE WaitOver(c) \/ \E limit \in BOOLEAN : WaitForDone(c, limit)
  <2>1. /\ UNCHANGED <<threadVars, poolVars, limitVars, victims, moreThreads>>
        /\ cpc[c] \in {"idle", "awake", "waiting"}
        /\ \E point \in {"waiting", "idle", "reset"} :
             /\ cpc' = [cpc EXCEPT ![c] = point]
             /\ point = "reset" => cpc[c] = "awake" \/ ~Busy
    BY <1>2 DEF WaitOver, WaitForDone, OneCaller
  <2>2. Resetting' <=> Resetting
    BY <1>1, <2>1 DEF Resetting
  <2>3. Limited' /\ Sleepers'
    BY <1>1, <2>1, <2>2 DEF Limited, Sleepers, threadVars, poolVars, limitVars
  <2>4. Drained'
    BY <1>1, <2>1 DEF Drained, Busy, poolVars
  <2>5. Known'
    BY <1>1, <2>1 DEF Known, threadVars, poolVars
  <2> QED BY <2>3, <2>4, <2>5 DEF Orderly
<1>3. Cardinality({}) = 0
  BY FS_EmptySet
<1>4. CASE Reset(c)
  <2>1. /\ UNCHANGED <<wpc, queue, activeThreads, maxThreadCount, reservedThreads, moreThreads>>
        /\ cpc[c] = "reset" /\ cpc' = [cpc EXCEPT ![c] = "joining"]
        /\ victims' = [victims EXCEPT ![c] = allThreads] /\ allThreads' = {}
    BY <1>4 DEF Reset, threadVars
  <2>2. Limited' /\ Drained'
    BY <1>1, <1>3, <2>1 DEF Limited, Drained
  <2>3. Sleepers'
    BY <1>1, <2>1 DEF Sleepers, Resetting
  <2>4. Known'
    BY <1>1, <2>1 DEF Known
  <2> QED BY <2>2, <2>3, <2>4 DEF Orderly
<1>5. CASE WakeVictim(c)
  <2>1. /\ UNCHANGED <<poolVars, limitVars, cpc, victims, moreThreads>> /\ cpc[c] = "joining"
        /\ \E w \in victims[c] : wpc' = Signalled(w)
    BY <1>5 DEF WakeVictim
  <2>2. \A w \in Workers : wpc'[w] = wpc[w] \/ (wpc[w] = "waiting" /\ wpc'[w] = "woken")
    BY <1>1, <2>1 DEF Signalled
  <2>3. Limited' /\ Drained' /\ Sleepers'
    BY <1>1, <2>1 DEF Limited, Drained, Sleepers, Resetting, poolVars, limitVars
  <2>4. Known'
    BY <1>1, <2>1, <2>2 DEF Known, poolVars
  <2> QED BY <2>3, <2>4 DEF Orderly
<1>6. CASE JoinVictim(c)
  <2>1. /\ UNCHANGED <<poolVars, limitVars, cpc, moreThreads>> /\ cpc[c] = "joining"
        /\ \E w \in join[c] : /\ wpc' = [wpc EXCEPT ![w] = "deleted"]
                              /\ victims' = [victims EXCEPT ![c] = @ \ {w}]
    BY <1>6 DEF JoinVictim
  <2>2. Limited' /\ Drained' /\ Sleepers'
    BY <1>1, <2>1 DEF Limited, Drained, Sleepers, Resetting, poolVars, limitVars
  <2>3. Known'
    BY <1>1, <2>1 DEF Known, poolVars
  <2> QED BY <2>2, <2>3 DEF Orderly
<1>7. CASE ResetAgain(c)
  <2>1. /\ UNCHANGED <<wpc, queue, activeThreads, maxThreadCount, reservedThreads, moreThreads>>
        /\ cpc[c] = "joining" /\ victims[c] = {}
    BY <1>7 DEF ResetAgain, threadVars
  <2>2. CASE allThreads # {}
    <3>1. /\ victims' = [victims EXCEPT ![c] = allThreads] /\ allThreads' = {} /\ cpc' = cpc
      BY <1>7, <2>2 DEF ResetAgain
    <3>2. Limited' /\ Drained' /\ Sleepers'
      BY <1>1, <1>3, <2>1, <3>1 DEF Limited, Drained, Sleepers, Resetting
    <3>3. Known'
      BY <1>1, <2>1, <3>1 DEF Known
    <3> QED BY <3>2, <3>3 DEF Orderly
  <2>3. CASE allThreads = {}
    <3>1. /\ waitingThreads' = <<>> /\ cpc' = [cpc EXCEPT ![c] = "idle"]
          /\ UNCHANGED <<victims, allThreads>>
      BY <1>7, <2>3 DEF ResetAgain
    <3>2. Limited' /\ Drained' /\ Sleepers'
      BY <1>1, <2>1, <3>1 DEF Limited, Drained, Sleepers
    <3>3. Known'
      BY <1>1, <2>1, <3>1 DEF Known
    <3> QED BY <3>2, <3>3 DEF Orderly
  <2> QED BY <2>2, <2>3
<1> QED BY <1>2, <1>4, <1>5, <1>6, <1>7 DEF Waiter

\* While nobody waits or a task is being run, a task is started only outside a reset.
LEMMA NoResetAtStart ==
  ASSUME IInv, Orderly, OneCaller,
         \/ \E t \in Tasks, priority \in Priorities : StartTask(t, priority)
         \/ \E t \in Tasks : TryStartTask(t)
         \/ \E w \in Workers : TryStartAgain(w)
  PROVE  \A c \in Waiters : cpc[c] \notin {"awake", "reset", "joining"}
<1>1. ASSUME NEW w \in Workers, wpc[w] = "task"
      PROVE  \A c \in Waiters : cpc[c] \notin {"awake", "reset", "joining"}
  <2>1. activeThreads # 0
    BY <1>1, WorkIsCounted
  <2> QED BY <2>1 DEF Orderly, Drained
<1>2. \/ \E w \in Workers : wpc[w] = "task"
      \/ \A c \in Waiters : cpc[c] = "idle"
  BY DEF StartTask, TryStartTask, TryStartAgain, MayOffer, OneCaller
<1> QED BY <1>1, <1>2

LEMMA OrderlyStep == ASSUME OneCaller, IInv, Orderly, [Next]_vars PROVE Orderly'
<1>1. CASE UNCHANGED vars
  BY <1>1 DEF Orderly, Limited, Sleepers, Drained, Known, Resetting, vars, threadVars, poolVars,
     limitVars, waiterVars
<1>2. ASSUME NEW t \in Tasks, TryStartTask(t) \/ \E priority \in Priorities : StartTask(t, priority)
      PROVE  Orderly'
  <2>1. /\ UNCHANGED <<limitVars, waiterVars, moreThreads>>
        /\ \/ CanStart /\ TryStart(t, FALSE)
           \/ IF waitingThreads # <<>> THEN RecycleThread
              ELSE UNCHANGED <<wpc, allThreads, waitingThreads, expiredThreads, activeThreads,
                               runnable>>
    BY <1>2 DEF StartTask, TryStartTask
  <2>2. \A c \in Waiters : cpc[c] \notin {"awake", "reset", "joining"}
    BY <1>2, NoResetAtStart
  <2> QED BY <2>1, <2>2, StartOrderly
<1>3. ASSUME NEW w \in Workers, TryStartAgain(w) PROVE Orderly'
  <2>1. \A c \in Waiters : cpc[c] \notin {"awake", "reset", "joining"}
    BY <1>3, NoResetAtStart
  <2> QED BY <1>3, <2>1, StartOrderly DEF TryStartAgain
<1>4. ~moreThreads /\ ~(changes < MaxChanges)
  BY DEF Orderly, Limited, OneCaller, IInv, TypeOK
<1>5. /\ ~StartMore /\ ~StartMoreDone /\ ~ReserveThread /\ ~ReleaseThread
      /\ \A limit : ~SetMaxThreadCount(limit)
  BY <1>4 DEF StartMore, StartMoreDone, ReserveThread, ReleaseThread, SetMaxThreadCount
<1> QED BY <1>1, <1>2, <1>3, <1>5, WorkersOrderly, WaitersOrderly DEF Next, Application, MoreThreads

LEMMA OrderlyInit == ASSUME Init PROVE Orderly
<1>1. Cardinality({}) = 0
  BY FS_EmptySet
<1>2. Limited /\ Sleepers /\ Drained
  BY <1>1 DEF Init, Limited, Sleepers, Drained
<1>3. Known
  BY DEF Init, Known
<1> QED BY <1>2, <1>3 DEF Orderly

\* The reset is over: nothing is left to be run, and no thread.
LEMMA NothingLeft ==
  ASSUME IInv, Orderly, OneCaller, NEW c \in Waiters, cpc[c] = "joining", cpc'[c] = "idle",
         [Next]_vars
  PROVE  /\ \A t \in Tasks : Held(t) = 0
         /\ \A w \in Workers : wpc[w] \in {"new", "deleted"}
<1>0. cpc \in [Waiters -> WaiterPoints]
  BY DEF IInv, TypeOK
<1>1. queue = <<>> /\ activeThreads = 0
  BY DEF Orderly, Drained
<1>2. \A w \in Workers : runnable[w] = NoTask /\ current[w] = NoTask
  BY <1>1, WorkIsCounted DEF IInv, Hands
<1>3. ASSUME NEW t \in Tasks PROVE Held(t) = 0
  <2>1. t # NoTask
    BY ThreadPoolAssumption
  <2>2. Places(queue, t) = {} /\ HandsOf(runnable, t) = {} /\ HandsOf(current, t) = {}
    BY <1>1, <1>2, <2>1 DEF Places, HandsOf
  <2>3. Held(t) = Cardinality(Places(queue, t)) + Cardinality(HandsOf(runnable, t))
                  + Cardinality(HandsOf(current, t))
    BY HeldIs DEF IInv
  <2> QED BY <2>2, <2>3, FS_EmptySet
<1>4. victims[c] = {} /\ allThreads = {}
  <2>1. ResetAgain(c)
    <3>1. cpc' # cpc /\ ~moreThreads /\ ~(changes < MaxChanges)
      BY DEF Orderly, Limited, OneCaller, IInv, TypeOK
    <3>2. ASSUME NEW d \in Waiters,
                 Waiter(d) \/ \E limit \in BOOLEAN : WaitForDone(d, limit)
          PROVE  ResetAgain(c)
      <4>1. c = d
        BY DEF OneCaller
      <4> QED BY <3>1, <3>2, <4>1, <1>0 DEF Waiter, WaitOver, Reset, WakeVictim, JoinVictim, WaitForDone
    <3>3. ASSUME NEW w \in Workers, Worker(w) PROVE FALSE
      BY <3>1, <3>3, <1>0 DEF Worker, RunThread, Finish, FinishTask, WakeThread, Continue,
         RegisterInactive, waiterVars
    <3>4. ASSUME \/ \E t \in Tasks, priority \in Priorities : StartTask(t, priority)
                 \/ \E t \in Tasks : TryStartTask(t)
                 \/ \E w \in Workers : TryStartAgain(w)
                 \/ \E limit \in Limits : SetMaxThreadCount(limit)
                 \/ ReserveThread \/ ReleaseThread \/ StartMore \/ StartMoreDone
          PROVE  FALSE
      BY <3>1, <3>4 DEF StartTask, TryStartTask, TryStartAgain, SetMaxThreadCount, ReserveThread,
         ReleaseThread, StartMore, StartMoreDone, waiterVars
    <3>5. ~UNCHANGED vars
      BY <3>1 DEF vars, waiterVars
    <3> QED BY <3>2, <3>3, <3>4, <3>5 DEF Next, Application, MoreThreads
  <2> QED BY <2>1, <1>0 DEF ResetAgain
<1>5. \A d \in Waiters : victims[d] = {}
  BY <1>4 DEF OneCaller
<1> QED BY <1>3, <1>4, <1>5 DEF Orderly, Known

\* When waitForDone has reset the pool, every accepted task was run and every pooled thread
\* deleted, for any number of threads, tasks and starts by tasks, if one thread calls it, its
\* wait (qthreadpool.cpp:270, under an `if`) does not end for no reason, only running tasks start
\* tasks meanwhile, no thread expires and the limit stays: waitForDone() "waits for each thread to
\* exit and removes all threads" (qthreadpool.cpp:542).
THEOREM DoneWhenAlone == ASSUME OneCaller PROVE Spec => DoneIsDone
<1>1. Init => Orderly
  BY OrderlyInit
<1>2. IInv /\ Orderly /\ [Next]_vars => Orderly'
  BY OrderlyStep
<1>3. IInv /\ Orderly /\ [Next]_vars =>
        [\A c \in Waiters : cpc[c] = "joining" /\ cpc'[c] = "idle"
           => /\ \A t \in Tasks : Held(t) = 0
              /\ \A w \in Workers : wpc[w] \in {"new", "deleted"}]_vars
  BY NothingLeft
<1> QED BY <1>1, <1>2, <1>3, Invariance, PTL DEF Spec, DoneIsDone

-----------------------------------------------------------------------------
(* What becomes of a task that is deleted after it was run.                *)

\* ref counts the runs that are still to come, and the last of them deletes the task.
Exact ==
  \A t \in AutoDelete :
    /\ ref[t] = started[t] - ran[t]
    /\ started[t] > 0 /\ ref[t] = 0 => t \notin alive

LEMMA ExactWhenStarted ==
  ASSUME IInv, Exact, NEW t, Accept(t), ref' = Referenced(t), UNCHANGED <<alive, ran>>
  PROVE  Exact'
<1> SUFFICES ASSUME NEW u \in AutoDelete
             PROVE  /\ ref'[u] = started'[u] - ran'[u]
                    /\ started'[u] > 0 /\ ref'[u] = 0 => u \notin alive'
  BY DEF Exact
<1>1. /\ u \in Tasks /\ ref \in [Tasks -> Nat] /\ started \in [Tasks -> Nat] /\ ran[u] \in Nat
      /\ ref[u] \in Nat /\ started[u] \in Nat
  BY ThreadPoolAssumption DEF IInv, TypeOK
<1>2. ref[u] = started[u] - ran[u] /\ (started[u] > 0 /\ ref[u] = 0 => u \notin alive)
  BY DEF Exact
<1>3. CASE u = t
  <2>1. ref'[u] = ref[u] + 1 /\ started'[u] = started[u] + 1
    BY <1>1, <1>3 DEF Accept, Referenced
  <2> QED BY <1>1, <1>2, <2>1
<1>4. CASE u # t
  <2>1. ref'[u] = ref[u] /\ started'[u] = started[u]
    BY <1>1, <1>4 DEF Accept, Referenced
  <2> QED BY <1>2, <2>1
<1> QED BY <1>3, <1>4

LEMMA ExactWhenFinished ==
  ASSUME IInv, Exact, NEW w \in Workers, FinishTask(w)
  PROVE  Exact'
<1>1. PICK t : t = current[w]
  OBVIOUS
<1>2. t \in Tasks
  BY <1>1, FinishTaskSound, Types DEF IInv, Sound
<1>3. /\ ran' = [ran EXCEPT ![t] = @ + 1]
      /\ ref' = IF t \in AutoDelete THEN [ref EXCEPT ![t] = @ - 1] ELSE ref
      /\ alive' = IF LastReference(t) THEN alive \ {t} ELSE alive
      /\ UNCHANGED started
  BY <1>1 DEF FinishTask
<1> SUFFICES ASSUME NEW u \in AutoDelete
             PROVE  /\ ref'[u] = started'[u] - ran'[u]
                    /\ started'[u] > 0 /\ ref'[u] = 0 => u \notin alive'
  BY DEF Exact
<1>4. /\ u \in Tasks /\ ref \in [Tasks -> Nat] /\ ran \in [Tasks -> Nat]
      /\ ref[u] \in Nat /\ started[u] \in Nat /\ ran[u] \in Nat
  BY ThreadPoolAssumption DEF IInv, TypeOK
<1>5. ref[u] = started[u] - ran[u] /\ (started[u] > 0 /\ ref[u] = 0 => u \notin alive)
  BY DEF Exact
<1>6. CASE u = t
  <2>1. ref'[u] = ref[u] - 1 /\ ran'[u] = ran[u] + 1
    BY <1>3, <1>4, <1>6
  <2>2. ref[u] = 1 => u \notin alive'
    BY <1>3, <1>6 DEF LastReference
  <2> QED BY <1>3, <1>4, <1>5, <2>1, <2>2
<1>7. CASE u # t
  <2>1. ref'[u] = ref[u] /\ ran'[u] = ran[u] /\ (u \in alive' => u \in alive)
    BY <1>3, <1>4, <1>7
  <2> QED BY <1>3, <1>5, <2>1
<1> QED BY <1>6, <1>7

LEMMA ExactStep == ASSUME IInv, Exact, [Next]_vars, [~StartMore]_vars PROVE Exact'
<1>1. ASSUME UNCHANGED <<ref, alive, started, ran>> PROVE Exact'
  BY <1>1 DEF Exact
<1>2. CASE UNCHANGED vars
  BY <1>1, <1>2 DEF vars
<1>3. ASSUME NEW t, TryStartTask(t) \/ \E priority \in Priorities : StartTask(t, priority)
      PROVE  Exact'
  <2>1. Accept(t) /\ ref' = Referenced(t) /\ UNCHANGED <<alive, ran>>
    BY <1>3 DEF TryStartTask, StartTask, TryStart
  <2> QED BY <2>1, ExactWhenStarted
<1>4. ASSUME NEW w, TryStartAgain(w) PROVE Exact'
  <2>1. Accept(current[w]) /\ ref' = Referenced(current[w]) /\ UNCHANGED <<alive, ran>>
    BY <1>4 DEF TryStartAgain, TryStart
  <2> QED BY <2>1, ExactWhenStarted
<1>5. ASSUME NEW w \in Workers, RunThread(w) \/ WakeThread(w) PROVE Exact'
  BY <1>1, <1>5 DEF RunThread, WakeThread
<1>6. ASSUME Moved PROVE Exact'
  BY <1>1, <1>6 DEF Moved
<1>7. StartMore => UNCHANGED vars
  OBVIOUS
<1>8. TypeOK
  BY DEF IInv
<1> QED BY <1>2, <1>3, <1>4, <1>5, <1>6, <1>7, <1>8, ExactWhenFinished, NextCases, MovedSteps

\* A task with autoDelete is deleted with the last of its runs, for any number of starts, tasks
\* and pooled threads, as long as tryToStartMoreThreads starts no task from the queue: that
\* call of tryStart, which counts a queued task a second time, is the only thing that can leak
\* one (qthreadpool.cpp:207).
THEOREM DeletedUnlessStartedAgain == Spec /\ [][~StartMore]_vars => []DeletedWhenDone
<1>1. Init => Exact
  BY ThreadPoolAssumption DEF Init, Exact
<1>2. IInv /\ Exact /\ [Next]_vars /\ [~StartMore]_vars => Exact'
  BY ExactStep
<1>3. IInv /\ Exact => DeletedWhenDone
  <2> SUFFICES ASSUME IInv, Exact, NEW t \in AutoDelete, started[t] > 0, Held(t) = 0
               PROVE  t \notin alive
    BY DEF DeletedWhenDone
  <2>1. t \in Tasks /\ started[t] \in Nat /\ ran[t] \in Nat
    BY ThreadPoolAssumption DEF IInv, TypeOK
  <2>2. started[t] = ran[t] + Held(t)
    BY <2>1 DEF IInv, EachStartRunsOnce
  <2> QED BY <2>1, <2>2 DEF Exact
<1> QED BY <1>1, <1>2, <1>3, Invariance, PTL DEF Spec

-----------------------------------------------------------------------------
(* No task is lost, and none left alone, when no thread expires.           *)

\* The only thread that can be found expired is one that woke up late in a reset.
NoneExpired == ~Resetting => expiredThreads = <<>>

\* A start, when no thread is expired, gives a task at most to a new thread.
LEMMA StartFinds ==
  ASSUME IInv, expiredThreads = <<>>, NEW t,
         \/ TryStart(t, FALSE)
         \/ IF waitingThreads # <<>> THEN RecycleThread
            ELSE UNCHANGED <<wpc, allThreads, waitingThreads, expiredThreads, activeThreads,
                             runnable>>
  PROVE  /\ expiredThreads' = <<>>
         /\ \A w \in Workers :
              \/ wpc'[w] = wpc[w] /\ runnable'[w] = runnable[w]
              \/ wpc[w] = "waiting" /\ runnable'[w] = runnable[w]
              \/ wpc'[w] = "run"
<1>0. /\ wpc \in [Workers -> WorkerPoints] /\ runnable \in [Workers -> Tasks \cup {NoTask}]
  BY DEF IInv, TypeOK
<1>1. CASE RecycleThread
  BY <1>0, <1>1 DEF RecycleThread, Signalled
<1>2. CASE UNCHANGED <<wpc, expiredThreads, runnable>>
  BY <1>2
<1>3. CASE StartThread(t)
  <2>1. PICK w \in Workers : /\ wpc[w] = "new" /\ Start(w)
                             /\ runnable' = [runnable EXCEPT ![w] = t]
                             /\ UNCHANGED expiredThreads
    BY <1>3 DEF StartThread
  <2> QED BY <1>0, <2>1 DEF Start
<1> QED BY <1>1, <1>2, <1>3 DEF TryStart

LEMMA NoneExpiredStep == ASSUME OneCaller, IInv, Orderly, NoneExpired, [Next]_vars PROVE NoneExpired'
<1>0. cpc \in [Waiters -> WaiterPoints] /\ ~tooManyThreadsActive /\ Limited /\ Sleepers /\ ~moreThreads
  BY NeverTooMany DEF Orderly, Limited, IInv, TypeOK
<1>1. ASSUME UNCHANGED expiredThreads, Resetting => Resetting' PROVE NoneExpired'
  BY <1>1 DEF NoneExpired
<1>2. ASSUME UNCHANGED <<expiredThreads, cpc>> PROVE NoneExpired'
  BY <1>1, <1>2 DEF Resetting
<1>3. CASE UNCHANGED vars
  BY <1>2, <1>3 DEF vars, poolVars, waiterVars
<1>4. ASSUME \/ \E t \in Tasks, priority \in Priorities : StartTask(t, priority)
             \/ \E t \in Tasks : TryStartTask(t)
             \/ \E w \in Workers : TryStartAgain(w)
      PROVE  NoneExpired'
  <2>1. expiredThreads = <<>>
    BY <1>4, NoResetAtStart DEF NoneExpired, Resetting
  <2>2. \E t : \/ TryStart(t, FALSE)
               \/ IF waitingThreads # <<>> THEN RecycleThread
                  ELSE UNCHANGED <<wpc, allThreads, waitingThreads, expiredThreads, activeThreads,
                                   runnable>>
    BY <1>4 DEF StartTask, TryStartTask, TryStartAgain
  <2>3. expiredThreads' = <<>>
    BY <2>1, <2>2, StartFinds
  <2> QED BY <2>3 DEF NoneExpired
<1>5. ASSUME NEW w \in Workers, NEW n, Continue(w, n) PROVE NoneExpired'
  <2>1. UNCHANGED expiredThreads
    BY <1>0, <1>5 DEF Continue
  <2>2. \A c \in Waiters : cpc[c] = "joining" => cpc'[c] = "joining"
    BY <1>0, <1>5 DEF Continue, RegisterInactive
  <2> QED BY <1>1, <2>1, <2>2 DEF Resetting
<1>6. ASSUME NEW w \in Workers, Worker(w) PROVE NoneExpired'
  <2>1. CASE RunThread(w) \/ Finish(w)
    BY <1>2, <2>1 DEF RunThread, Finish, poolVars, waiterVars
  <2>2. CASE FinishTask(w)
    BY <1>5, <2>2 DEF FinishTask
  <2>3. CASE WakeThread(w) /\ w \notin ToSet(waitingThreads)
    BY <1>5, <2>3 DEF WakeThread
  <2>4. CASE WakeThread(w) /\ w \in ToSet(waitingThreads)
    <3>1. PICK k \in DOMAIN waitingThreads : waitingThreads[k] = w
      BY <2>4 DEF ToSet
    <3>2. wpc[w] = "woken"
      BY <2>4 DEF WakeThread, OneCaller
    <3>3. Resetting
      BY <1>0, <3>1, <3>2 DEF Sleepers
    <3>4. \A c \in Waiters : cpc[c] = "joining" => cpc'[c] = "joining"
      BY <1>0, <2>4 DEF WakeThread, RegisterInactive
    <3> QED BY <3>3, <3>4 DEF NoneExpired, Resetting
  <2> QED BY <1>6, <2>1, <2>2, <2>3, <2>4 DEF Worker
<1>7. ASSUME NEW c \in Waiters, NEW limit,
             \/ WaitForDone(c, limit) \/ WaitOver(c) \/ Reset(c) \/ WakeVictim(c)
             \/ JoinVictim(c) \/ ResetAgain(c)
      PROVE  NoneExpired'
  <2>1. CASE WaitForDone(c, limit) \/ WaitOver(c) \/ Reset(c)
    <3>1. UNCHANGED expiredThreads /\ \A d \in Waiters : cpc[d] = "joining" => cpc'[d] = "joining"
      BY <1>0, <2>1 DEF WaitForDone, WaitOver, Reset, poolVars
    <3> QED BY <1>1, <3>1 DEF Resetting
  <2>2. CASE WakeVictim(c) \/ JoinVictim(c)
    BY <1>2, <2>2 DEF WakeVictim, JoinVictim, poolVars
  <2>3. CASE ResetAgain(c)
    BY <1>2, <2>3 DEF ResetAgain, NoneExpired
  <2> QED BY <1>7, <2>1, <2>2, <2>3
<1>8. /\ ~StartMore /\ ~StartMoreDone /\ ~ReserveThread /\ ~ReleaseThread
      /\ \A limit : ~SetMaxThreadCount(limit)
  <2>1. ~(changes < MaxChanges)
    BY DEF OneCaller, IInv, TypeOK
  <2> QED BY <1>0, <2>1 DEF StartMore, StartMoreDone, ReserveThread, ReleaseThread, SetMaxThreadCount
<1> QED BY <1>3, <1>4, <1>6, <1>7, <1>8 DEF Next, Application, MoreThreads, Waiter

LEMMA HasThreadStep ==
  ASSUME OneCaller, IInv, Orderly, NoneExpired, RunnableHasThread, [Next]_vars
  PROVE  RunnableHasThread'
<1>0. /\ wpc \in [Workers -> WorkerPoints] /\ runnable \in [Workers -> Tasks \cup {NoTask}]
      /\ TypeOK /\ Hands /\ ~moreThreads
  BY DEF Orderly, Limited, IInv, TypeOK
<1>1. ASSUME \/ \E t \in Tasks, priority \in Priorities : StartTask(t, priority)
             \/ \E t \in Tasks : TryStartTask(t)
             \/ \E w \in Workers : TryStartAgain(w)
      PROVE  RunnableHasThread'
  <2>1. expiredThreads = <<>>
    BY <1>1, NoResetAtStart DEF NoneExpired, Resetting
  <2>2. \E t : \/ TryStart(t, FALSE)
               \/ IF waitingThreads # <<>> THEN RecycleThread
                  ELSE UNCHANGED <<wpc, allThreads, waitingThreads, expiredThreads, activeThreads,
                                   runnable>>
    BY <1>1 DEF StartTask, TryStartTask, TryStartAgain
  <2>3. \A w \in Workers :
          \/ wpc'[w] = wpc[w] /\ runnable'[w] = runnable[w]
          \/ wpc[w] = "waiting" /\ runnable'[w] = runnable[w]
          \/ wpc'[w] = "run"
    BY <2>1, <2>2, StartFinds
  <2> QED BY <2>3 DEF RunnableHasThread
<1>2. ASSUME NEW w \in Workers, RunThread(w) PROVE RunnableHasThread'
  BY <1>0, <1>2 DEF RunThread, RunnableHasThread
<1>3. ASSUME NEW w \in Workers, FinishTask(w) \/ WakeThread(w) PROVE RunnableHasThread'
  <2>1. wpc[w] \in {"task", "woken", "waiting"} /\ runnable' = runnable
    BY <1>3 DEF FinishTask, WakeThread
  <2>2. \A v \in Workers \ {w} : wpc'[v] = wpc[v]
    BY <1>0, <1>3 DEF FinishTask, WakeThread, Continue, EndAs
  <2> QED BY <2>1, <2>2 DEF RunnableHasThread
<1>4. ASSUME Moved PROVE RunnableHasThread'
  BY <1>4 DEF Moved, RunnableHasThread, Gone
<1>5. ~StartMore
  BY <1>0 DEF StartMore
<1> QED BY <1>0, <1>1, <1>2, <1>3, <1>4, <1>5, NextCases, MovedSteps

Alone == IInv /\ Orderly /\ NoneExpired /\ RunnableHasThread

LEMMA AloneInit == Init => Alone
<1>1. Init => NoneExpired /\ RunnableHasThread
  BY DEF Init, NoneExpired, RunnableHasThread
<1> QED BY <1>1, InitIInv, OrderlyInit DEF Alone

LEMMA AloneStep == ASSUME OneCaller PROVE Alone /\ [Next]_vars => Alone'
BY IInvStep, OrderlyStep, NoneExpiredStep, HasThreadStep DEF Alone

\* With one caller of waitForDone, whose wait does not end for no reason, no starts during it but
\* while a task runs, no expiry and no change of the limit, every task that tryStart hands to a thread directly goes to a thread that begins with
\* it, and never to a deleted one: a task is only lost to a thread that expired or was woken by
\* the reset and is restarted before it has finished (qthreadpool.cpp:171).
THEOREM NoTaskLostAlone == ASSUME OneCaller PROVE Spec => [](RunnableHasThread /\ NoDeletedThreadUsed)
<1>1. Alone => RunnableHasThread /\ NoDeletedThreadUsed
  BY DEF Alone, RunnableHasThread, NoDeletedThreadUsed
<1> QED BY <1>1, AloneInit, AloneStep, PTL DEF Spec

-----------------------------------------------------------------------------
(* Whether a queued task has a thread that will come to it.                *)

\* The threads that look at the queue when they are done with what they do now.
Attentive == {w \in Workers : wpc[w] \in {"run", "task", "woken"}}

\* Every thread that was made is one of them, or listed as waiting or as expired.
Placed ==
  \A w \in Workers :
    \/ wpc[w] \in {"new", "deleted"} /\ w \notin allThreads
    \/ w \in Attentive \/ w \in ToSet(waitingThreads) \/ w \in ToSet(expiredThreads)

Served == ~isExiting /\ Placed /\ QueueHasWorker

LEMMA ListedCounted ==
  ASSUME NEW s \in Seq(Workers)
  PROVE  /\ IsFiniteSet(ToSet(s)) /\ Cardinality(ToSet(s)) \in Nat
         /\ Len(s) \in Nat /\ Cardinality(ToSet(s)) <= Len(s)
<1>1. Len(s) \in Nat /\ DOMAIN s = 1..Len(s)
  BY LenProperties
<1>2. IsFiniteSet(DOMAIN s) /\ Cardinality(DOMAIN s) = Len(s)
  BY <1>1, FS_Interval
<1> DEFINE f == [k \in DOMAIN s |-> s[k]]
<1>3. f \in Surjection(DOMAIN s, ToSet(s))
  BY DEF Surjection, ToSet
<1>4. IsFiniteSet(ToSet(s)) /\ Cardinality(ToSet(s)) <= Len(s)
  <2> HIDE DEF f
  <2> QED BY <1>2, <1>3, FS_Surjection
<1> QED BY <1>1, <1>4, FS_CardinalityType

\* Of what the pool counts as active, with no thread reserved, there are as many that are
\* attentive.
LEMMA ActiveAttend ==
  ASSUME IInv, Placed, reservedThreads = 0
  PROVE  /\ IsFiniteSet(Attentive) /\ Cardinality(Attentive) \in Nat
         /\ activeThreadCount \in Int /\ activeThreadCount <= Cardinality(Attentive)
<1> DEFINE E == ToSet(expiredThreads)
           W == ToSet(waitingThreads)
<1>1. IsFiniteSet(Attentive) /\ Cardinality(Attentive) \in Nat
  BY ThreadPoolAssumption, FS_Subset, FS_CardinalityType DEF Attentive
<1>2. /\ IsFiniteSet(E) /\ Cardinality(E) \in Nat
      /\ Len(expiredThreads) \in Nat /\ Cardinality(E) <= Len(expiredThreads)
  BY ListedCounted DEF IInv, TypeOK
<1>3. /\ IsFiniteSet(W) /\ Cardinality(W) \in Nat
      /\ Len(waitingThreads) \in Nat /\ Cardinality(W) <= Len(waitingThreads)
  BY ListedCounted DEF IInv, TypeOK
<1>4. allThreads \subseteq (Attentive \cup E) \cup W
  BY DEF Placed, IInv, TypeOK
<1> HIDE DEF E, W
<1>5. /\ IsFiniteSet(Attentive \cup E) /\ Cardinality(Attentive \cup E) \in Nat
      /\ Cardinality(Attentive \cup E) <= Cardinality(Attentive) + Cardinality(E)
  <2>1. /\ IsFiniteSet(Attentive \cup E)
        /\ Cardinality(Attentive \cup E)
             = Cardinality(Attentive) + Cardinality(E) - Cardinality(Attentive \cap E)
    BY <1>1, <1>2, FS_Union
  <2>2. Cardinality(Attentive \cap E) \in Nat
    BY <1>1, FS_Subset, FS_CardinalityType
  <2> QED BY <1>1, <1>2, <2>1, <2>2, FS_CardinalityType
<1>6. /\ IsFiniteSet((Attentive \cup E) \cup W) /\ Cardinality((Attentive \cup E) \cup W) \in Nat
      /\ Cardinality((Attentive \cup E) \cup W) <= Cardinality(Attentive \cup E) + Cardinality(W)
  <2>1. /\ IsFiniteSet((Attentive \cup E) \cup W)
        /\ Cardinality((Attentive \cup E) \cup W)
             = Cardinality(Attentive \cup E) + Cardinality(W) - Cardinality((Attentive \cup E) \cap W)
    BY <1>3, <1>5, FS_Union
  <2>2. Cardinality((Attentive \cup E) \cap W) \in Nat
    BY <1>5, FS_Subset, FS_CardinalityType
  <2> QED BY <1>3, <1>5, <2>1, <2>2, FS_CardinalityType
<1>7. Cardinality(allThreads) \in Nat /\ Cardinality(allThreads) <= Cardinality((Attentive \cup E) \cup W)
  <2>1. Cardinality(allThreads) <= Cardinality((Attentive \cup E) \cup W)
    BY <1>4, <1>6, FS_Subset
  <2> QED BY <2>1, PoolFinite
<1>8. /\ Cardinality(allThreads) - Len(expiredThreads) - Len(waitingThreads) \in Int
      /\ Cardinality(allThreads) - Len(expiredThreads) - Len(waitingThreads) <= Cardinality(Attentive)
  BY <1>1, <1>2, <1>3, <1>5, <1>6, <1>7
<1> QED BY <1>1, <1>8 DEF activeThreadCount

\* A pool that starts no thread for a task has one at work, ...
LEMMA FullIsAttentive ==
  ASSUME IInv, Placed, reservedThreads = 0, maxThreadCount > 0, ~CanStart
  PROVE  \E v \in Workers : v \in Attentive
<1>1. maxThreadCount \in Int
  BY ThreadPoolAssumption DEF IInv, TypeOK
<1>2. Cardinality(Attentive) # 0
  BY <1>1, ActiveAttend DEF CanStart
<1> QED BY <1>2, FS_EmptySet DEF Attentive

\* ... and one with too many has another.
LEMMA TooManyLeaveOne ==
  ASSUME IInv, Placed, reservedThreads = 0, tooManyThreadsActive, NEW w
  PROVE  \E v \in Workers : v \in Attentive /\ v # w
<1>1. IsFiniteSet(Attentive) /\ Cardinality(Attentive) \in Nat /\ Cardinality(Attentive) > 1
  BY ActiveAttend DEF tooManyThreadsActive
<1>2. Cardinality(Attentive \ {w}) > 0
  <2>1. Cardinality(Attentive \ {w}) \in {Cardinality(Attentive), Cardinality(Attentive) - 1}
    BY <1>1, FS_RemoveElement
  <2> QED BY <1>1, <2>1
<1>3. Attentive \ {w} # {}
  BY <1>2, FS_EmptySet
<1> QED BY <1>3 DEF Attentive

LEMMA TailListed ==
  ASSUME NEW s \in Seq(Workers), s # <<>>, NEW v \in ToSet(s), v # Head(s)
  PROVE  v \in ToSet(Tail(s))
<1>1. PICK k \in DOMAIN s : v = s[k]
  BY DEF ToSet
<1>2. /\ Head(s) = s[1] /\ DOMAIN Tail(s) = 1..(Len(s) - 1) /\ DOMAIN s = 1..Len(s) /\ Len(s) \in Nat
      /\ \A i \in DOMAIN Tail(s) : Tail(s)[i] = s[i + 1]
  BY TailKept, LenProperties
<1>3. k - 1 \in DOMAIN Tail(s) /\ (k - 1) + 1 = k
  BY <1>1, <1>2
<1> QED BY <1>1, <1>2, <1>3 DEF ToSet

LEMMA AppendListed ==
  ASSUME NEW s \in Seq(Workers), NEW w \in Workers
  PROVE  w \in ToSet(Append(s, w)) /\ ToSet(s) \subseteq ToSet(Append(s, w))
<1>1. /\ Append(s, w) \in Seq(Workers) /\ Len(Append(s, w)) = Len(s) + 1
      /\ Append(s, w)[Len(s) + 1] = w /\ \A k \in 1..Len(s) : Append(s, w)[k] = s[k]
  BY AppendProperties
<1>2. Len(s) \in Nat /\ DOMAIN s = 1..Len(s) /\ DOMAIN Append(s, w) = 1..(Len(s) + 1)
  BY <1>1, LenProperties
<1>3. Len(s) + 1 \in DOMAIN Append(s, w) /\ \A k \in DOMAIN s : k \in DOMAIN Append(s, w)
  BY <1>2
<1> QED BY <1>1, <1>2, <1>3 DEF ToSet

LEMMA RemoveListed ==
  ASSUME NEW s \in Seq(Workers), NEW k \in DOMAIN s
  PROVE  /\ DOMAIN RemoveAt(s, k) = 1..(Len(s) - 1)
         /\ \A i \in DOMAIN RemoveAt(s, k) :
              RemoveAt(s, k)[i] = IF i < k THEN s[i] ELSE s[i + 1]
<1> DEFINE a == SubSeq(s, 1, k - 1)
           b == SubSeq(s, k + 1, Len(s))
<1>1. Len(s) \in Nat /\ DOMAIN s = 1..Len(s) /\ k \in Int /\ k >= 1 /\ k <= Len(s)
      /\ \A i \in 1..Len(s) : s[i] \in Workers
  BY LenProperties
<1>2. a \in Seq(Workers) /\ Len(a) = k - 1 /\ \A i \in 1..(k - 1) : a[i] = s[i]
  <2>1. (\A i \in 1..(k - 1) : s[i] \in Workers) /\ k - 1 \in Int
    BY <1>1
  <2>2. /\ a \in Seq(Workers) /\ Len(a) = IF 1 <= k - 1 THEN k - 1 - 1 + 1 ELSE 0
        /\ \A i \in 1..(k - 1 - 1 + 1) : a[i] = s[1 + i - 1]
    BY <2>1, SubSeqProperties
  <2> QED BY <1>1, <2>2
<1>3. b \in Seq(Workers) /\ Len(b) = Len(s) - k /\ \A i \in 1..(Len(s) - k) : b[i] = s[k + i]
  <2>1. (\A i \in (k + 1)..Len(s) : s[i] \in Workers) /\ k + 1 \in Int
    BY <1>1
  <2>2. /\ b \in Seq(Workers) /\ Len(b) = IF k + 1 <= Len(s) THEN Len(s) - (k + 1) + 1 ELSE 0
        /\ \A i \in 1..(Len(s) - (k + 1) + 1) : b[i] = s[k + 1 + i - 1]
    BY <1>1, <2>1, SubSeqProperties
  <2>3. Len(s) - (k + 1) + 1 = Len(s) - k /\ \A i \in 1..(Len(s) - k) : k + 1 + i - 1 = k + i
    BY <1>1
  <2>4. Len(b) = Len(s) - k
    <3>1. ~(k + 1 <= Len(s)) => Len(s) - k = 0
      BY <1>1
    <3> HIDE DEF b
    <3> QED BY <2>2, <2>3, <3>1
  <2> HIDE DEF b
  <2> QED BY <2>2, <2>3, <2>4
<1> HIDE DEF a, b
<1>4. /\ a \o b \in Seq(Workers) /\ Len(a \o b) = Len(s) - 1
      /\ \A i \in 1..(Len(s) - 1) : (a \o b)[i] = IF i <= k - 1 THEN a[i] ELSE b[i - (k - 1)]
  <2>1. /\ a \o b \in Seq(Workers) /\ Len(a \o b) = Len(a) + Len(b)
        /\ \A i \in 1..(Len(a) + Len(b)) : (a \o b)[i] = IF i <= Len(a) THEN a[i] ELSE b[i - Len(a)]
    BY <1>2, <1>3, ConcatProperties
  <2>2. Len(a) + Len(b) = Len(s) - 1
    BY <1>1, <1>2, <1>3
  <2>3. PICK c : c = a \o b
    OBVIOUS
  <2>4. /\ c \in Seq(Workers) /\ Len(c) = Len(s) - 1
        /\ \A i \in 1..(Len(s) - 1) : c[i] = IF i <= k - 1 THEN a[i] ELSE b[i - (k - 1)]
    BY <1>2, <2>1, <2>2, <2>3
  <2> QED BY <2>3, <2>4
<1>5. ASSUME NEW i \in 1..(Len(s) - 1) PROVE (a \o b)[i] = IF i < k THEN s[i] ELSE s[i + 1]
  <2>1. CASE i < k
    BY <1>1, <1>2, <1>4, <2>1
  <2>2. CASE ~(i < k)
    <3>1. i - (k - 1) \in 1..(Len(s) - k) /\ k + (i - (k - 1)) = i + 1 /\ ~(i <= k - 1)
      BY <1>1, <2>2
    <3> QED BY <1>3, <1>4, <2>2, <3>1
  <2> QED BY <2>1, <2>2
<1>6. RemoveAt(s, k) = a \o b
  BY DEF RemoveAt, a, b
<1>7. DOMAIN (a \o b) = 1..(Len(s) - 1)
  BY <1>4, LenProperties
<1> QED BY <1>5, <1>6, <1>7

\* A start of any kind leaves a thread at work, if the thread it restarts had finished.
LEMMA StartServes ==
  ASSUME IInv, ~Resetting, Sleepers, Served, reservedThreads = 0, maxThreadCount > 0,
         RunnableHasThread', NEW t \in Tasks, NEW first, UNCHANGED <<limitVars, cpc>>,
         \/ CanStart /\ TryStart(t, first)
         \/ ~CanStart /\ IF waitingThreads # <<>> THEN RecycleThread
            ELSE UNCHANGED <<wpc, allThreads, waitingThreads, expiredThreads, activeThreads,
                             runnable>>
  PROVE  Sleepers' /\ Served'
<1>0. /\ wpc \in [Workers -> WorkerPoints] /\ runnable \in [Workers -> Tasks \cup {NoTask}]
      /\ waitingThreads \in Seq(Workers) /\ expiredThreads \in Seq(Workers)
      /\ Placed /\ ~isExiting' /\ ~Resetting' /\ t # NoTask
  BY ThreadPoolAssumption DEF IInv, TypeOK, Served, limitVars, Resetting
<1>1. CASE waitingThreads # <<>> /\ RecycleThread
  <2>1. PICK w : w = Head(waitingThreads)
    OBVIOUS
  <2>2. /\ Sleepers' /\ w \in Workers /\ wpc[w] = "waiting"
        /\ \A v \in Workers : wpc'[v] # wpc[v] => v = w /\ wpc'[v] = "woken"
    BY <1>0, <1>1, <2>1, FirstWakes, TailKept
  <2>3. wpc'[w] = "woken" /\ waitingThreads' = Tail(waitingThreads)
        /\ UNCHANGED <<allThreads, expiredThreads>>
    BY <1>0, <1>1, <2>1, <2>2 DEF RecycleThread, Signalled
  <2>4. \A v \in ToSet(waitingThreads) : v = w \/ v \in ToSet(waitingThreads')
    BY <1>0, <1>1, <2>1, <2>3, TailListed
  <2>5. Placed'
    BY <1>0, <2>2, <2>3, <2>4 DEF Placed, Attentive
  <2>6. QueueHasWorker'
    BY <2>2, <2>3 DEF QueueHasWorker
  <2> QED BY <1>0, <2>2, <2>5, <2>6 DEF Served
<1>2. CASE ~CanStart /\ UNCHANGED <<wpc, allThreads, waitingThreads, expiredThreads>>
  <2>1. Sleepers'
    BY <1>2, OthersSleep
  <2>2. Placed'
    BY <1>0, <1>2 DEF Placed, Attentive
  <2>3. QueueHasWorker'
    <3>1. PICK v \in Workers : v \in Attentive
      BY <1>0, <1>2, FullIsAttentive
    <3> QED BY <1>2, <3>1 DEF Attentive, QueueHasWorker
  <2> QED BY <1>0, <2>1, <2>2, <2>3 DEF Served
<1>3. ASSUME NEW w \in Workers, wpc[w] # "waiting", wpc'[w] = "run", UNCHANGED waitingThreads,
             \A v \in Workers \ {w} :
               /\ wpc'[v] = wpc[v] /\ (v \in allThreads' => v \in allThreads)
               /\ v \in ToSet(expiredThreads) => v \in ToSet(expiredThreads')
      PROVE  Sleepers' /\ Served'
  <2>1. Sleepers'
    BY <1>3, OthersSleep
  <2>2. Placed'
    BY <1>0, <1>3 DEF Placed, Attentive
  <2>3. QueueHasWorker'
    BY <1>3 DEF QueueHasWorker
  <2> QED BY <1>0, <2>1, <2>2, <2>3 DEF Served
<1>4. CASE StartThread(t)
  <2>1. PICK w \in Workers : /\ wpc[w] = "new" /\ Start(w) /\ allThreads' = allThreads \cup {w}
                             /\ UNCHANGED <<waitingThreads, expiredThreads>>
    BY <1>4 DEF StartThread
  <2>2. wpc' = [wpc EXCEPT ![w] = "run"]
    BY <2>1 DEF Start
  <2>3. wpc'[w] = "run" /\ \A v \in Workers \ {w} : wpc'[v] = wpc[v]
    BY <1>0, <2>2
  <2> QED BY <1>3, <2>1, <2>3
<1>5. CASE expiredThreads # <<>> /\ RestartThread(t)
  <2>1. PICK w : w = Head(expiredThreads)
    OBVIOUS
  <2>2. w \in Workers /\ wpc[w] \in Gone
    <3>1. w \in Workers /\ 1 \in DOMAIN expiredThreads /\ w = expiredThreads[1]
      BY <1>0, <1>5, <2>1, TailKept
    <3> QED BY <3>1 DEF IInv, Expired
  <2>3. /\ expiredThreads' = Tail(expiredThreads) /\ UNCHANGED <<allThreads, waitingThreads>>
        /\ runnable' = [runnable EXCEPT ![w] = t] /\ Start(w)
    BY <1>5, <2>1 DEF RestartThread
  <2>4. \A v \in Workers \ {w} : wpc'[v] = wpc[v]
    BY <1>0, <2>3 DEF Start
  <2>5. wpc'[w] = "run"
    <3>1. runnable'[w] # NoTask
      BY <1>0, <2>2, <2>3
    <3> QED BY <2>2, <3>1 DEF RunnableHasThread
  <2>6. \A v \in ToSet(expiredThreads) : v = w \/ v \in ToSet(expiredThreads')
    BY <1>0, <1>5, <2>1, <2>3, TailListed
  <2> QED BY <1>3, <2>2, <2>3, <2>4, <2>5, <2>6 DEF Gone
<1> QED BY <1>1, <1>2, <1>4, <1>5 DEF TryStart

\* A thread that goes on takes a task, or leaves another at work.
LEMMA ContinueServes ==
  ASSUME IInv, ~Resetting, Sleepers, Served, reservedThreads = 0, NEW w \in Workers, NEW n,
         wpc[w] \in {"task", "woken"}, Continue(w, n),
         UNCHANGED <<allThreads, limitVars, moreThreads>>
  PROVE  Sleepers' /\ Served'
<1>0. /\ wpc \in [Workers -> WorkerPoints] /\ cpc \in [Waiters -> WaiterPoints]
      /\ waitingThreads \in Seq(Workers) /\ expiredThreads \in Seq(Workers)
      /\ Placed /\ ~isExiting /\ ~isExiting'
  BY DEF IInv, TypeOK, Served, limitVars
<1>1. ~Resetting'
  BY <1>0 DEF Resetting, Continue, RegisterInactive
<1>2. CASE ~tooManyThreadsActive /\ queue # <<>>
  <2>1. wpc'[w] = "task" /\ (\A v \in Workers \ {w} : wpc'[v] = wpc[v])
        /\ UNCHANGED <<waitingThreads, expiredThreads>>
    BY <1>0, <1>2 DEF Continue
  <2>2. Sleepers'
    BY <2>1, OthersSleep
  <2>3. Placed'
    BY <1>0, <2>1 DEF Placed, Attentive
  <2>4. QueueHasWorker'
    BY <2>1 DEF QueueHasWorker
  <2> QED BY <1>0, <2>2, <2>3, <2>4 DEF Served
<1>3. CASE ~(~tooManyThreadsActive /\ queue # <<>>)
  <2>1. /\ queue' = queue
        /\ \/ /\ wpc' = [wpc EXCEPT ![w] = "ended"] /\ expiredThreads' = Append(expiredThreads, w)
              /\ UNCHANGED waitingThreads
           \/ /\ wpc' = [wpc EXCEPT ![w] = "waiting"] /\ waitingThreads' = Append(waitingThreads, w)
              /\ UNCHANGED expiredThreads
    BY <1>0, <1>3 DEF Continue, EndAs
  <2>2. \A v \in Workers \ {w} : wpc'[v] = wpc[v]
    BY <1>0, <2>1
  <2>3. Sleepers'
    BY <1>0, <1>1, <2>1, <2>2, OthersSleep, OneMoreSleeps
  <2>4. /\ w \in ToSet(waitingThreads') \/ w \in ToSet(expiredThreads')
        /\ ToSet(waitingThreads) \subseteq ToSet(waitingThreads')
        /\ ToSet(expiredThreads) \subseteq ToSet(expiredThreads')
    BY <1>0, <2>1, AppendListed
  <2>5. Placed'
    BY <1>0, <2>2, <2>4 DEF Placed, Attentive
  <2>6. QueueHasWorker'
    <3>1. CASE queue = <<>>
      BY <2>1, <3>1 DEF QueueHasWorker
    <3>2. CASE tooManyThreadsActive
      <4>1. Placed
        BY <1>0
      <4>2. \E v \in Workers : v \in Attentive /\ v # w
        BY ONLY IInv, reservedThreads = 0, <3>2, <4>1, TooManyLeaveOne
      <4>3. PICK v \in Workers : v \in Attentive /\ v # w
        BY <4>2
      <4> QED BY <2>2, <4>3 DEF Attentive, QueueHasWorker
    <3> QED BY <1>3, <3>1, <3>2
  <2> QED BY <1>0, <2>3, <2>5, <2>6 DEF Served
<1> QED BY <1>2, <1>3

\* A thread that times out was not at work, and is expired.
LEMMA TimeoutServes ==
  ASSUME IInv, ~Resetting, Sleepers, Served, NEW w \in Workers, WakeThread(w),
         w \in ToSet(waitingThreads)
  PROVE  Sleepers' /\ Served'
<1>0. /\ wpc \in [Workers -> WorkerPoints] /\ cpc \in [Waiters -> WaiterPoints]
      /\ waitingThreads \in Seq(Workers) /\ expiredThreads \in Seq(Workers)
      /\ Placed /\ ~isExiting /\ ~isExiting' /\ QueueHasWorker
  BY DEF IInv, TypeOK, Served, WakeThread, limitVars
<1>1. PICK s \in Seq(Workers) : s = waitingThreads
  BY <1>0
<1>2. PICK k \in DOMAIN s : s[k] = w /\ waitingThreads' = RemoveAt(s, k)
  BY <1>1 DEF WakeThread
<1>3. PICK r : r = RemoveAt(s, k)
  OBVIOUS
<1>4. /\ \A i \in DOMAIN s : wpc[s[i]] = "waiting" /\ s[i] \in Workers
      /\ \A i, j \in DOMAIN s : s[i] = s[j] => i = j
  BY <1>1, LenProperties DEF Sleepers
<1>5. /\ wpc' = [wpc EXCEPT ![w] = "ended"] /\ expiredThreads' = Append(expiredThreads, w)
      /\ UNCHANGED <<queue, allThreads, moreThreads>>
  BY DEF WakeThread, EndAs
<1>6. wpc[w] = "waiting" /\ wpc'[w] = "ended" /\ \A v \in Workers \ {w} : wpc'[v] = wpc[v]
  BY <1>0, <1>2, <1>4, <1>5
<1>7. /\ Len(s) \in Nat /\ DOMAIN s = 1..Len(s) /\ DOMAIN r = 1..(Len(s) - 1)
      /\ \A i \in DOMAIN r : r[i] = IF i < k THEN s[i] ELSE s[i + 1]
  BY <1>3, RemoveListed, LenProperties
<1>8. \A i \in DOMAIN r : \E j \in DOMAIN s : /\ j # k /\ r[i] = s[j]
                                              /\ j = IF i < k THEN i ELSE i + 1
  <2> TAKE i \in DOMAIN r
  <2>1. CASE i < k
    BY <1>7, <2>1
  <2>2. CASE ~(i < k)
    <3>1. i + 1 \in DOMAIN s /\ i + 1 # k
      BY <1>7, <2>2
    <3> QED BY <1>7, <2>2, <3>1
  <2> QED BY <2>1, <2>2
<1>9. Sleepers'
  <2>1. ASSUME NEW i \in DOMAIN r PROVE wpc'[r[i]] = "waiting"
    BY <1>2, <1>4, <1>6, <1>8
  <2>2. ASSUME NEW i \in DOMAIN r, NEW j \in DOMAIN r, r[i] = r[j] PROVE i = j
    <3>1. (IF i < k THEN i ELSE i + 1) = (IF j < k THEN j ELSE j + 1)
      BY <1>4, <1>8, <2>2
    <3> QED BY <1>7, <3>1
  <2> QED BY <1>2, <1>3, <2>1, <2>2 DEF Sleepers
<1>10. \A v \in ToSet(s) : v = w \/ v \in ToSet(r)
  <2> TAKE v \in ToSet(s)
  <2>1. PICK i \in DOMAIN s : v = s[i]
    BY DEF ToSet
  <2>2. CASE i < k
    BY <1>7, <2>1, <2>2 DEF ToSet
  <2>3. CASE i > k
    <3>1. i - 1 \in DOMAIN r /\ ~(i - 1 < k) /\ (i - 1) + 1 = i
      BY <1>7, <2>3
    <3> QED BY <1>7, <2>1, <3>1 DEF ToSet
  <2>4. i = k \/ i < k \/ i > k
    BY <1>7
  <2> QED BY <1>2, <2>1, <2>2, <2>3, <2>4
<1>11. w \in ToSet(expiredThreads') /\ ToSet(expiredThreads) \subseteq ToSet(expiredThreads')
  BY <1>0, <1>5, AppendListed
<1>12. Placed'
  BY <1>0, <1>1, <1>2, <1>3, <1>5, <1>6, <1>10, <1>11 DEF Placed, Attentive
<1>13. QueueHasWorker'
  BY <1>0, <1>5, <1>6 DEF QueueHasWorker
<1> QED BY <1>0, <1>9, <1>12, <1>13 DEF Served

\* Nobody in waitForDone was told that the pool is done.
Quiet == \A c \in Waiters : cpc[c] \in {"idle", "waiting"}

LEMMA ServedStep ==
  ASSUME IInv, Quiet, Sleepers, Served, reservedThreads = 0, maxThreadCount > 0,
         RunnableHasThread', [Next]_vars
  PROVE  Sleepers' /\ Served'
<1>0. /\ wpc \in [Workers -> WorkerPoints] /\ cpc \in [Waiters -> WaiterPoints]
      /\ queue \in Seq(Entries) /\ ~Resetting /\ Placed /\ ~isExiting /\ QueueHasWorker
  BY DEF IInv, TypeOK, Quiet, Resetting, Served, Entries
<1>1. ASSUME UNCHANGED <<wpc, allThreads, waitingThreads, expiredThreads, queue, isExiting>>,
             moreThreads' = moreThreads \/ moreThreads'
      PROVE  Sleepers' /\ Served'
  <2>1. Sleepers' /\ Placed'
    BY <1>0, <1>1 DEF Sleepers, Placed, Attentive
  <2>2. QueueHasWorker'
    BY <1>0, <1>1 DEF QueueHasWorker
  <2> QED BY <1>0, <1>1, <2>1, <2>2 DEF Served
<1>2. CASE UNCHANGED vars
  BY <1>1, <1>2 DEF vars, threadVars, poolVars, limitVars
<1>3. ASSUME NEW t \in Tasks,
             TryStartTask(t) \/ \E priority \in Priorities : StartTask(t, priority)
      PROVE  Sleepers' /\ Served'
  <2>1. /\ UNCHANGED <<limitVars, cpc>>
        /\ \/ CanStart /\ TryStart(t, FALSE)
           \/ ~CanStart /\ IF waitingThreads # <<>> THEN RecycleThread
              ELSE UNCHANGED <<wpc, allThreads, waitingThreads, expiredThreads, activeThreads,
                               runnable>>
    BY <1>3 DEF TryStartTask, StartTask, waiterVars
  <2> QED BY <1>0, <2>1, StartServes
<1>4. ASSUME NEW w \in Workers, TryStartAgain(w) PROVE Sleepers' /\ Served'
  <2>1. PICK t \in Tasks : t = current[w]
    BY <1>4 DEF TryStartAgain, MayStart, IInv, TypeOK
  <2>2. UNCHANGED <<limitVars, cpc>> /\ CanStart /\ TryStart(t, FALSE)
    BY <1>4, <2>1 DEF TryStartAgain, waiterVars
  <2> QED BY <1>0, <2>2, StartServes
<1>5. CASE StartMore
  <2>1. PICK t \in Tasks : t = Head(queue).task
    BY <1>0, <1>5, FirstTask DEF StartMore
  <2>2. UNCHANGED <<limitVars, cpc>> /\ CanStart /\ TryStart(t, TRUE)
    BY <1>5, <2>1 DEF StartMore, waiterVars
  <2> QED BY <1>0, <2>2, StartServes
<1>6. CASE StartMoreDone
  <2>1. UNCHANGED <<wpc, allThreads, waitingThreads, expiredThreads, queue, isExiting, cpc>>
    BY <1>6 DEF StartMoreDone, threadVars, poolVars, limitVars, waiterVars
  <2>2. Sleepers' /\ Placed'
    BY <1>0, <2>1 DEF Sleepers, Placed, Attentive, Resetting
  <2>3. QueueHasWorker'
    <3>1. CASE queue = <<>>
      BY <2>1, <3>1 DEF QueueHasWorker
    <3>2. CASE ~CanStart
      <4>1. PICK v \in Workers : v \in Attentive
        BY <1>0, <3>2, FullIsAttentive
      <4> QED BY <2>1, <4>1 DEF Attentive, QueueHasWorker
    <3> QED BY <1>6, <3>1, <3>2 DEF StartMoreDone
  <2> QED BY <1>0, <2>1, <2>2, <2>3 DEF Served
<1>7. ASSUME NEW limit, SetMaxThreadCount(limit) \/ ReserveThread \/ ReleaseThread
      PROVE  Sleepers' /\ Served'
  BY <1>1, <1>7 DEF SetMaxThreadCount, ReserveThread, ReleaseThread, threadVars, poolVars
<1>8. ASSUME NEW w \in Workers, RunThread(w) PROVE Sleepers' /\ Served'
  <2>1. /\ wpc[w] = "run" /\ wpc'[w] = "task" /\ \A v \in Workers \ {w} : wpc'[v] = wpc[v]
        /\ UNCHANGED <<allThreads, waitingThreads, expiredThreads, isExiting, cpc>>
    BY <1>0, <1>8 DEF RunThread, poolVars, limitVars, waiterVars
  <2>2. Sleepers'
    BY <1>0, <2>1, OthersSleep
  <2>3. Placed' /\ QueueHasWorker'
    BY <1>0, <2>1 DEF Placed, Attentive, QueueHasWorker
  <2> QED BY <1>0, <2>1, <2>2, <2>3 DEF Served
<1>9. ASSUME NEW w \in Workers, Finish(w) PROVE Sleepers' /\ Served'
  <2>1. /\ wpc[w] \in {"ended", "finishing"} /\ \A v \in Workers \ {w} : wpc'[v] = wpc[v]
        /\ UNCHANGED <<allThreads, waitingThreads, expiredThreads, queue, isExiting, moreThreads, cpc>>
    BY <1>0, <1>9 DEF Finish, poolVars, limitVars, waiterVars
  <2>2. Sleepers'
    BY <1>0, <2>1, OthersSleep
  <2>3. Placed'
    BY <1>0, <2>1 DEF Placed, Attentive
  <2>4. QueueHasWorker'
    BY <1>0, <2>1 DEF QueueHasWorker
  <2> QED BY <1>0, <2>1, <2>2, <2>3, <2>4 DEF Served
<1>10. ASSUME NEW w \in Workers, FinishTask(w) PROVE Sleepers' /\ Served'
  BY <1>0, <1>10, ContinueServes DEF FinishTask
<1>11. ASSUME NEW w \in Workers, WakeThread(w) PROVE Sleepers' /\ Served'
  <2>1. CASE w \in ToSet(waitingThreads)
    BY <1>0, <1>11, <2>1, TimeoutServes
  <2>2. CASE w \notin ToSet(waitingThreads)
    <3>1. wpc[w] = "woken"
      <4>1. w \in ToSet(expiredThreads) => wpc[w] \in Gone
        BY DEF ToSet, IInv, Expired
      <4> QED BY <1>0, <1>11, <2>2, <4>1 DEF WakeThread, Placed, Attentive, Gone
    <3> QED BY <1>0, <1>11, <2>2, <3>1, ContinueServes DEF WakeThread
  <2> QED BY <2>1, <2>2
<1>12. ASSUME NEW c \in Waiters, NEW limit, WaitForDone(c, limit) \/ WaitOver(c)
       PROVE  Sleepers' /\ Served'
  BY <1>1, <1>12 DEF WaitForDone, WaitOver, threadVars, poolVars, limitVars
<1>13. \A c \in Waiters : ~Reset(c) /\ ~WakeVictim(c) /\ ~JoinVictim(c) /\ ~ResetAgain(c)
  BY DEF Quiet, Reset, WakeVictim, JoinVictim, ResetAgain
<1> QED BY <1>2, <1>3, <1>4, <1>5, <1>6, <1>7, <1>8, <1>9, <1>10, <1>11, <1>12, <1>13, NextCases

LEMMA ServedInit == ASSUME Init PROVE Served /\ Sleepers
<1>1. DOMAIN waitingThreads = {} /\ queue = <<>>
  BY DEF Init
<1>2. Placed /\ QueueHasWorker /\ Sleepers
  BY <1>1 DEF Init, Placed, QueueHasWorker, Sleepers
<1> QED BY <1>2 DEF Init, Served

Unwaited == reservedThreads = 0 /\ \A c \in Waiters : cpc[c] = "idle"

LEMMA UnwaitedStep ==
  ASSUME MaxWaits = 0, MaxReserved = 0, IInv, Unwaited, [Next]_vars
  PROVE  Unwaited'
<1>1. waits \in [Waiters -> Nat]
  BY DEF IInv, TypeOK
<1>2. ~ReserveThread /\ ~ReleaseThread
  BY DEF Unwaited, ReserveThread, ReleaseThread
<1>3. ASSUME NEW c \in Waiters
      PROVE  /\ ~WaitOver(c) /\ ~Reset(c) /\ ~WakeVictim(c) /\ ~JoinVictim(c) /\ ~ResetAgain(c)
             /\ \A limit : ~WaitForDone(c, limit)
  <2>1. ~(waits[c] < MaxWaits) /\ cpc[c] = "idle"
    BY <1>1 DEF Unwaited
  <2> QED BY <2>1 DEF WaitOver, Reset, WakeVictim, JoinVictim, ResetAgain, WaitForDone
<1>4. ASSUME UNCHANGED <<reservedThreads, cpc>> PROVE Unwaited'
  BY <1>4 DEF Unwaited
<1>5. ASSUME NEW w, FinishTask(w) \/ WakeThread(w) PROVE Unwaited'
  <2>1. reservedThreads' = reservedThreads
    BY <1>5 DEF FinishTask, WakeThread, limitVars
  <2>2. \A c \in Waiters : cpc'[c] = cpc[c]
    BY <1>5 DEF FinishTask, WakeThread, Continue, RegisterInactive, Unwaited
  <2> QED BY <2>1, <2>2 DEF Unwaited
<1>6. CASE UNCHANGED vars
  BY <1>4, <1>6 DEF vars, limitVars, waiterVars
<1>7. ASSUME NEW t, NEW w, NEW limit,
             \/ TryStartTask(t) \/ \E priority \in Priorities : StartTask(t, priority)
             \/ TryStartAgain(w) \/ RunThread(w) \/ Finish(w) \/ SetMaxThreadCount(limit)
             \/ StartMore \/ StartMoreDone
      PROVE  Unwaited'
  BY <1>4, <1>7 DEF TryStartTask, StartTask, TryStartAgain, RunThread, Finish, SetMaxThreadCount,
     StartMore, StartMoreDone, limitVars, waiterVars
<1> QED BY <1>2, <1>3, <1>5, <1>6, <1>7, NextCases

\* Until waitForDone is called, and with no thread reserved, a queued task always has a thread at
\* work that will come to it, for any limits above zero and however they change, any number of
\* starts and expiring threads, provided no task went to an expired thread that had not finished
\* (qthreadpool.cpp:171): losing one that way is the only thing that can strand the queue.
THEOREM QueueIsServed ==
  ASSUME MaxWaits = 0, MaxReserved = 0, \A limit \in Limits : limit > 0
  PROVE  Spec /\ []RunnableHasThread => []QueueHasWorker
<1>1. Init => Unwaited /\ Sleepers /\ Served
  BY ServedInit DEF Init, Unwaited
<1>2. IInv /\ Unwaited /\ Sleepers /\ Served /\ RunnableHasThread' /\ [Next]_vars
        => Unwaited' /\ Sleepers' /\ Served'
  <2> SUFFICES ASSUME IInv, Unwaited, Sleepers, Served, RunnableHasThread', [Next]_vars
               PROVE  Unwaited' /\ Sleepers' /\ Served'
    OBVIOUS
  <2>1. Quiet /\ reservedThreads = 0 /\ maxThreadCount > 0
    BY DEF Unwaited, Quiet, IInv, TypeOK
  <2>2. Unwaited'
    BY UnwaitedStep
  <2>3. Sleepers' /\ Served'
    BY <2>1, ServedStep
  <2> QED BY <2>2, <2>3
<1>3. Served => QueueHasWorker
  BY DEF Served
<1> QED BY <1>1, <1>2, <1>3, Invariance, PTL DEF Spec

\* The last step of a reset is the only one by which a caller that was told comes back.
LEMMA BackFromReset ==
  ASSUME OneCaller, IInv, Orderly, ~Quiet, Quiet', [Next]_vars
  PROVE  \E c \in Waiters : cpc[c] = "joining" /\ cpc'[c] = "idle" /\ ResetAgain(c)
<1>0. PICK c \in Waiters : cpc[c] \notin {"idle", "waiting"} /\ cpc'[c] \in {"idle", "waiting"}
  BY DEF Quiet
<1>1. /\ cpc \in [Waiters -> WaiterPoints] /\ cpc[c] \in {"awake", "reset", "joining"}
      /\ cpc'[c] # cpc[c] /\ ~Busy
  BY <1>0 DEF IInv, TypeOK, WaiterPoints, Orderly, Drained, Busy
<1>2. ASSUME NEW d \in Waiters,
             \/ WaitOver(d) \/ Reset(d) \/ WakeVictim(d) \/ JoinVictim(d) \/ ResetAgain(d)
             \/ \E limit \in BOOLEAN : WaitForDone(d, limit)
      PROVE  cpc[c] = "joining" /\ cpc'[c] = "idle" /\ ResetAgain(c)
  <2>1. c = d
    BY DEF OneCaller
  <2> QED BY <1>0, <1>1, <1>2, <2>1 DEF WaitOver, Reset, WakeVictim, JoinVictim, ResetAgain, WaitForDone
<1>3. ASSUME NEW w, FinishTask(w) \/ WakeThread(w) PROVE FALSE
  BY <1>1, <1>3 DEF FinishTask, WakeThread, Continue, RegisterInactive
<1>4. ASSUME NEW t, NEW w, NEW limit,
             \/ UNCHANGED vars \/ TryStartTask(t)
             \/ \E priority \in Priorities : StartTask(t, priority)
             \/ TryStartAgain(w) \/ RunThread(w) \/ Finish(w) \/ SetMaxThreadCount(limit)
             \/ ReserveThread \/ ReleaseThread \/ StartMore \/ StartMoreDone
      PROVE  FALSE
  BY <1>1, <1>4 DEF vars, TryStartTask, StartTask, TryStartAgain, RunThread, Finish,
     SetMaxThreadCount, ReserveThread, ReleaseThread, StartMore, StartMoreDone, waiterVars
<1> QED BY <1>2, <1>3, <1>4, NextCases

LEMMA ServedAloneStep ==
  ASSUME OneCaller, FirstLimit > 0, Alone, Quiet => Served, Alone', [Next]_vars
  PROVE  Quiet' => Served'
<1> SUFFICES ASSUME Quiet' PROVE Served'
  OBVIOUS
<1>0. IInv /\ Orderly /\ Sleepers /\ reservedThreads = 0 /\ maxThreadCount > 0 /\ RunnableHasThread'
  BY DEF Alone, Orderly, Limited
<1>1. CASE Quiet
  BY <1>0, <1>1, ServedStep
<1>2. CASE ~Quiet
  <2>1. PICK c \in Waiters : cpc[c] = "joining" /\ cpc'[c] = "idle" /\ ResetAgain(c)
    BY <1>0, <1>2, BackFromReset
  <2>2. \A w \in Workers : wpc[w] \in {"new", "deleted"}
    BY <1>0, <2>1, NothingLeft
  <2>3. queue = <<>>
    BY <1>0, <2>1 DEF Orderly, Drained
  <2>4. cpc \in [Waiters -> WaiterPoints]
    BY <1>0 DEF IInv, TypeOK
  <2>5. allThreads' = {} /\ ~isExiting' /\ UNCHANGED <<wpc, queue>>
    BY <2>1, <2>4 DEF ResetAgain, threadVars
  <2> QED BY <2>2, <2>3, <2>5 DEF Served, Placed, QueueHasWorker
<1> QED BY <1>1, <1>2

\* With one caller of waitForDone, whose wait does not end for no reason, no starts during it but
\* while a task runs, no expiry and one limit above zero, a queued task always has a thread at work that will come to it, through any number of
\* resets.
THEOREM QueueIsServedAlone == ASSUME OneCaller, FirstLimit > 0 PROVE Spec => []QueueHasWorker
<1>1. Init => (Quiet => Served)
  BY ServedInit
<1>2. Alone /\ (Quiet => Served) /\ Alone' /\ [Next]_vars => (Quiet' => Served')
  BY ServedAloneStep
<1>3. Alone /\ (Quiet => Served) => QueueHasWorker
  <2> SUFFICES ASSUME Alone, Quiet => Served PROVE QueueHasWorker
    OBVIOUS
  <2>1. CASE Quiet
    BY <2>1 DEF Served
  <2>2. CASE ~Quiet
    <3>1. PICK c \in Waiters : cpc[c] \in {"awake", "reset", "joining"}
      BY <2>2 DEF Quiet, Alone, IInv, TypeOK, WaiterPoints
    <3> QED BY <3>1 DEF Alone, Orderly, Drained, QueueHasWorker
  <2> QED BY <2>1, <2>2
<1> QED BY <1>1, <1>2, <1>3, AloneInit, AloneStep, PTL DEF Spec
=============================================================================
