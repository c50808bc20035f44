--------------------------- MODULE SignalSlotProofs ---------------------------
(***************************************************************************)
(* Theorems about SignalSlot, for any number of threads, objects, mutexes, *)
(* connections and calls within each other.  The invariants are defined in *)
(* SignalSlotInvariants: IInv is inductive by itself, VInv with it; VInv   *)
(* gives that no walk stands at a freed connection, Chained and Complete   *)
(* with it that senders are valid and that emissions visit all.            *)
(***************************************************************************)
EXTENDS SignalSlotInvariants, FiniteSetTheorems, SequenceTheorems, TLAPS

-----------------------------------------------------------------------------
(* Lists.                                                                  *)

\* The ranks of a finite set of places: each place has one, and they are all used.
LEMMA Ranks ==
  ASSUME NEW n \in Nat, NEW S \in SUBSET (1..n)
  PROVE  /\ Cardinality(S) \in Nat
         /\ \A k \in S : Rank(S, k) \in 1..Cardinality(S) /\ Rank(S, k) <= k
         /\ \A j, k \in S : j < k => Rank(S, j) < Rank(S, k)
         /\ \A i \in 1..Cardinality(S) : \E k \in S : Rank(S, k) = i
<1> DEFINE upTo(k) == {j \in S : j <= k}
<1>0. \A k \in S : k \in Nat /\ k >= 1
  OBVIOUS
<1>1. IsFiniteSet(S) /\ Cardinality(S) \in Nat
  <2>1. IsFiniteSet(1..n)
    <3>1. 1 \in Int /\ n \in Int
      OBVIOUS
    <3> QED BY <3>1, FS_Interval
  <2> QED BY <2>1, FS_Subset, FS_CardinalityType
<1>2. ASSUME NEW k \in S
      PROVE  /\ IsFiniteSet(upTo(k)) /\ Cardinality(upTo(k)) \in Nat
             /\ Cardinality(upTo(k)) <= Cardinality(S) /\ Cardinality(upTo(k)) # 0
             /\ Cardinality(upTo(k)) <= k
  <2>1. IsFiniteSet(upTo(k)) /\ Cardinality(upTo(k)) <= Cardinality(S)
    BY <1>1, FS_Subset
  <2>2. k \in upTo(k)
    OBVIOUS
  <2>3. upTo(k) \subseteq 1..k /\ k \in Nat /\ ~(1 > k)
    <3>1. ASSUME NEW j \in upTo(k) PROVE j \in 1..k
      BY <1>0
    <3>2. k \in Nat /\ ~(1 > k)
      BY <1>0
    <3> QED BY <3>1, <3>2
  <2>4. IsFiniteSet(1..k) /\ Cardinality(1..k) = k
    BY <2>3, FS_Interval
  <2>5. Cardinality(upTo(k)) <= k
    BY <2>3, <2>4, FS_Subset
  <2> HIDE DEF upTo
  <2> QED BY <2>1, <2>2, <2>5, FS_CardinalityType, FS_EmptySet
<1>3. ASSUME NEW j \in S, NEW k \in S, j < k
      PROVE  Cardinality(upTo(j)) < Cardinality(upTo(k))
  <2>1. upTo(j) \cup {k} \subseteq upTo(k) /\ k \notin upTo(j)
    <3>0. j \in Nat /\ k \in Nat
      BY <1>0
    <3>1. \A i \in S : i <= j => i <= k
      BY <1>0, <1>3, <3>0
    <3>2. ~(k <= j) /\ k <= k
      BY <1>3, <3>0
    <3> QED BY <3>1, <3>2
  <2> HIDE DEF upTo
  <2>2. Cardinality(upTo(j) \cup {k}) = Cardinality(upTo(j)) + 1
    BY <2>1, <1>2, FS_AddElement
  <2>3. Cardinality(upTo(j) \cup {k}) <= Cardinality(upTo(k))
    BY <2>1, <1>2, FS_Subset
  <2> QED BY <2>2, <2>3, <1>2
<1> DEFINE c == Cardinality(S)
           rank == [k \in S |-> Cardinality(upTo(k))]
<1>4. rank \in Injection(S, 1..c)
  <2>1. rank \in [S -> 1..c]
    <3> SUFFICES ASSUME NEW k \in S PROVE Cardinality(upTo(k)) \in 1..c
      OBVIOUS
    <3> QED BY <1>1, <1>2
  <2>2. ASSUME NEW j \in S, NEW k \in S, rank[j] = rank[k] PROVE j = k
    <3>1. j < k \/ k < j \/ j = k
      BY <1>0
    <3>2. Cardinality(upTo(j)) = Cardinality(upTo(k)) /\ Cardinality(upTo(j)) \in Nat
      BY <2>2, <1>2
    <3> QED BY <3>1, <3>2, <1>3
  <2> QED BY <2>1, <2>2 DEF Injection, IsInjective
<1>5. IsFiniteSet(1..c) /\ Cardinality(1..c) = c
  BY <1>1, FS_Interval
<1>6. rank \in Surjection(S, 1..c)
  BY <1>4, <1>5, FS_Injection
<1>7. \A i \in 1..c : \E k \in S : Cardinality(upTo(k)) = i
  BY <1>6 DEF Surjection
<1>8. \A k \in S : Cardinality(upTo(k)) \in 1..Cardinality(S)
  BY <1>1, <1>2
<1> QED BY <1>1, <1>2, <1>3, <1>7, <1>8 DEF Rank

\* What stays of a list is in the same order.
LEMMA MinusIs ==
  ASSUME NEW q \in Seq(Conns), NEW cs
  PROVE  /\ Minus(q, cs) \in Seq(Conns)
         /\ Members(Minus(q, cs)) = Members(q) \ cs
         /\ Rising(q) => Rising(Minus(q, cs))
         /\ Once(q) => Once(Minus(q, cs))
<1> DEFINE kept == {i \in DOMAIN q : q[i] \notin cs}
           n == Cardinality(kept)
           f == [i \in 1..n |-> CHOOSE k \in kept : Rank(kept, k) = i]
           m == Minus(q, cs)
<1>0. /\ Len(q) \in Nat /\ DOMAIN q = 1..Len(q)
      /\ \A i \in DOMAIN q : q[i] \in Conns /\ q[i] \in Int
  <2>1. /\ Len(q) \in Nat /\ DOMAIN q = 1..Len(q)
        /\ \A i \in DOMAIN q : q[i] \in Conns
    BY LenProperties
  <2>2. \A c \in Conns : c \in Int
    BY DEF Conns
  <2> QED BY <2>1, <2>2
<1>1. m = [i \in 1..n |-> q[CHOOSE k \in kept : Rank(kept, k) = i]]
  BY DEF Minus, Rank
<1>2. kept \in SUBSET (1..Len(q)) /\ \A k \in kept : k \in Int /\ q[k] \notin cs
  BY <1>0
<1>3. \A k \in DOMAIN q : q[k] \notin cs => k \in kept
  OBVIOUS
<1> HIDE DEF kept, m
<1>4. /\ n \in Nat
      /\ \A k \in kept : Rank(kept, k) \in 1..n
      /\ \A j, k \in kept : j < k => Rank(kept, j) < Rank(kept, k)
      /\ \A i \in 1..n : \E k \in kept : Rank(kept, k) = i
  BY <1>0, <1>2, Ranks
<1>5. ASSUME NEW i \in 1..n
      PROVE  f[i] \in kept /\ Rank(kept, f[i]) = i /\ m[i] = q[f[i]]
  <2>1. f[i] \in kept /\ Rank(kept, f[i]) = i
    BY <1>4
  <2> QED BY <2>1, <1>1
<1> HIDE DEF f
<1>6. m \in Seq(Conns) /\ DOMAIN m = 1..n
  <2>1. DOMAIN m = 1..n /\ m = [i \in 1..n |-> q[CHOOSE k \in kept : Rank(kept, k) = i]]
    BY <1>1
  <2>2. \A i \in 1..n : m[i] \in Conns
    BY <1>5, <1>2, <1>0
  <2> HIDE DEF n
  <2>3. m \in [1..n -> Conns]
    BY <2>1, <2>2
  <2>4. m \in Seq(Conns)
    BY <2>3, <1>4, SeqDef
  <2> QED BY <2>1, <2>4
<1>7. ASSUME NEW i \in 1..n, NEW j \in 1..n, i < j PROVE f[i] < f[j]
  <2>1. f[i] \in Int /\ f[j] \in Int /\ Rank(kept, f[i]) = i /\ Rank(kept, f[j]) = j
    BY <1>5, <1>2
  <2>2. CASE f[j] < f[i]
    <3>1. j < i
      BY <2>1, <2>2, <1>4, <1>5
    <3> QED BY <3>1, <1>7, <1>4
  <2>3. CASE f[i] = f[j]
    BY <2>1, <2>3, <1>7, <1>4
  <2> QED BY <2>1, <2>2, <2>3
<1>8. Members(m) = Members(q) \ cs
  <2>1. ASSUME NEW x \in Members(m) PROVE x \in Members(q) \ cs
    <3>1. PICK i \in 1..n : m[i] = x
      BY <1>6 DEF Members
    <3>2. f[i] \in DOMAIN q /\ q[f[i]] \notin cs /\ q[f[i]] = x
      BY <3>1, <1>5, <1>2, <1>0
    <3> QED BY <3>2 DEF Members
  <2>2. ASSUME NEW x \in Members(q) \ cs PROVE x \in Members(m)
    <3>1. PICK k \in DOMAIN q : q[k] = x
      BY DEF Members
    <3>2. k \in kept
      BY <3>1, <1>3
    <3>3. Rank(kept, k) \in 1..n
      BY <3>2, <1>4
    <3> DEFINE i == Rank(kept, k)
    <3>4. f[i] \in kept /\ Rank(kept, f[i]) = Rank(kept, k) /\ m[i] = q[f[i]]
      BY <3>3, <1>5
    <3>5. f[i] = k
      <4>1. f[i] < k \/ k < f[i] \/ f[i] = k
        BY <3>2, <3>4, <1>2
      <4> QED BY <4>1, <3>2, <3>3, <3>4, <1>4
    <3> QED BY <3>1, <3>3, <3>4, <3>5, <1>6 DEF Members
  <2> QED BY <2>1, <2>2
<1>9. ASSUME Rising(q) PROVE Rising(m)
  <2> SUFFICES ASSUME NEW i \in 1..n, NEW j \in 1..n, i < j PROVE m[i] < m[j]
    BY <1>6 DEF Rising
  <2>1. f[i] < f[j] /\ f[i] \in DOMAIN q /\ f[j] \in DOMAIN q
    BY <1>7, <1>5, <1>2, <1>0
  <2> QED BY <2>1, <1>5, <1>9 DEF Rising
<1>10. ASSUME Once(q) PROVE Once(m)
  <2> SUFFICES ASSUME NEW i \in 1..n, NEW j \in 1..n, m[i] = m[j] PROVE i = j
    BY <1>6 DEF Once
  <2>1. f[i] \in DOMAIN q /\ f[j] \in DOMAIN q /\ q[f[i]] = q[f[j]]
    BY <1>5, <1>2, <1>0
  <2>2. f[i] = f[j]
    BY <2>1, <1>10 DEF Once
  <2> QED BY <2>2, <1>5
<1> QED BY <1>6, <1>8, <1>9, <1>10 DEF m

\* The first and the last of a list, and the one behind another.
LEMMA EndsAre ==
  ASSUME NEW q \in Seq(Conns)
  PROVE  /\ First(q) \in Members(q) \cup {NoConn} /\ Last(q) \in Members(q) \cup {NoConn}
         /\ \A c : Following(q, c) \in Members(q) \cup {NoConn}
         /\ First(q) = NoConn => q = <<>>
         /\ Members(q) \subseteq Conns /\ NoConn \notin Conns
         /\ Conns \cup {NoConn} \subseteq 0..MaxConns
         /\ q = <<>> => Members(q) = {}
         /\ q # <<>> => First(q) = q[1] /\ 1 \in DOMAIN q
<1>1. /\ Len(q) \in Nat /\ DOMAIN q = 1..Len(q) /\ \A i \in DOMAIN q : q[i] \in Conns
      /\ q # <<>> => Len(q) >= 1 /\ Head(q) = q[1]
  BY LenProperties, ElementOfSeq, EmptySeq, HeadTailProperties
<1>2. Members(q) \subseteq Conns /\ NoConn \notin Conns /\ Conns \cup {NoConn} \subseteq 0..MaxConns
  BY <1>1, SignalSlotAssumption DEF Members, Conns, NoConn
<1>3. q # <<>> => First(q) = q[1] /\ Last(q) = q[Len(q)] /\ 1 \in DOMAIN q /\ Len(q) \in DOMAIN q
  BY <1>1 DEF First, Last
<1>4. q = <<>> => First(q) = NoConn /\ Last(q) = NoConn /\ Members(q) = {}
  <2>1. q = <<>> => DOMAIN q = {}
    BY <1>1
  <2> QED BY <2>1 DEF First, Last, Members
<1>5. ASSUME NEW c PROVE Following(q, c) \in Members(q) \cup {NoConn}
  <2> DEFINE after == {i \in 2..Len(q) : q[i - 1] = c}
  <2>1. CASE after = {}
    BY <2>1 DEF Following
  <2>2. CASE after # {}
    <3>1. (CHOOSE i \in after : TRUE) \in after
      BY <2>2
    <3>2. (CHOOSE i \in after : TRUE) \in DOMAIN q
      BY <3>1, <1>1
    <3> QED BY <3>2, <2>2 DEF Following, Members
  <2> QED BY <2>1, <2>2
<1>6. q # <<>> => First(q) \in Members(q) /\ Last(q) \in Members(q)
  BY <1>3 DEF Members
<1> QED BY <1>2, <1>3, <1>4, <1>5, <1>6

-----------------------------------------------------------------------------
(* Stacks of calls.                                                        *)

LEMMA StackIs ==
  ASSUME CallsTyped, NEW t \in Threads
  PROVE  /\ stack[t] \in Seq(FrameT) /\ Len(stack[t]) \in 0..MaxDepth
         /\ DOMAIN stack[t] = 1..Len(stack[t]) /\ \A i \in DOMAIN stack[t] : stack[t][i] \in FrameT
         /\ stack[t] # <<>> => /\ Len(stack[t]) \in DOMAIN stack[t]
                               /\ Top(t) = stack[t][Len(stack[t])] /\ Top(t) \in FrameT
                               /\ Top(t) \in Frames(t)
         /\ stack[t] = <<>> => Len(stack[t]) = 0
<1>1. stack[t] \in Seq(FrameT) /\ Len(stack[t]) <= MaxDepth
  BY DEF CallsTyped
<1>2. /\ Len(stack[t]) \in Nat /\ DOMAIN stack[t] = 1..Len(stack[t])
      /\ \A i \in DOMAIN stack[t] : stack[t][i] \in FrameT
      /\ stack[t] # <<>> => Len(stack[t]) \in Nat \ {0}
      /\ stack[t] = <<>> => Len(stack[t]) = 0
  <2> HIDE DEF FrameT
  <2> QED BY <1>1, LenProperties, EmptySeq
<1> QED BY <1>1, <1>2, SignalSlotAssumption DEF Top, Frames, Members

LEMMA AlikeIs ==
  ASSUME NEW f \in FrameT, NEW g, Alike(f, g)
  PROVE  /\ g \in FrameT
         /\ g.op = f.op /\ g.at = f.at /\ g.obj = f.obj /\ g.peer = f.peer /\ g.walk = f.walk
         /\ g.conn = f.conn /\ g.relock = f.relock /\ g.seen = f.seen
         /\ \A o : Needs(g, o) <=> Needs(f, o)
BY DEF Alike, FrameT, Needs

LEMMA AlikeSame == ASSUME NEW f \in FrameT PROVE Alike(f, f)
<1>1. f.ref \in {0, 1} /\ f = [f EXCEPT !.ref = f.ref]
  BY DEF FrameT
<1> QED BY <1>1 DEF Alike

LEMMA EmptyIs == ASSUME NEW q \in Seq(Conns), Members(q) = {} PROVE q = <<>>
BY EndsAre

LEMMA OthersSane ==
  ASSUME IInv, NEW t \in Threads, NEW u \in Threads \ {t}, Gentle(t), DataTyped',
         NEW f \in Frames(u)
  PROVE  Sane(u, f)'
<1>1. f \in FrameT /\ Sane(u, f) /\ Alone(u, f)
  <2>1. PICK i \in DOMAIN stack[u] : f = stack[u][i]
    BY DEF Frames, Members
  <2> QED BY <2>1, StackIs DEF IInv, Called
<1>2. /\ f.obj \in Objects /\ f.conn \in Nat /\ f.walk \in Seq(Lists) /\ f.peer \in SomeObject
      /\ f.relock \in {"no", "other", "own"} /\ f.at \in Points /\ f.op \in Ops
  BY <1>1, SignalSlotAssumption DEF FrameT
<1>3. made \in Nat /\ made' \in Nat /\ made <= made'
  BY SignalSlotAssumption DEF IInv, DataTyped, Gentle
<1>4. Placed(f)'
  BY <1>1 DEF Sane, Placed
<1>5. Relocks(f)'
  <2>1. f.relock # "no" /\ f.at # "senders" => f.conn \in 1..made
    BY <1>1, <1>2, <1>3 DEF Sane, Relocks, AtConn, NoConn
  <2> QED BY <1>1, <2>1 DEF Sane, Relocks, Gentle, Own
<1>6. AtConn(f)'
  <2>1. f.conn # NoConn => f.conn \in 1..made
    BY <1>1, <1>2, <1>3 DEF Sane, AtConn, NoConn
  <2> QED BY <1>1, <1>2, <1>3, <2>1 DEF Sane, AtConn, Gentle
<1>7. Destroys(u, f)'
  <2> SUFFICES ASSUME f.op = "destroy" PROVE Destroys(u, f)'
    BY DEF Destroys
  <2>1. \A g \in Frames(t) : ~Needs(g, f.obj)
    BY <1>1 DEF Alone
  <2>2. lists'[f.obj] = lists[f.obj] /\ vector'[f.obj] = vector[f.obj]
    BY <2>1, <1>2 DEF Gentle
  <2>3. Members(senders'[f.obj]) \subseteq Members(senders[f.obj])
    BY <2>1, <1>2 DEF Gentle
  <2>4. object'[f.obj] = "dying"
    <3>1. object[f.obj] = "dying"
      BY <1>1 DEF Sane, Destroys
    <3>2. stack[t] # <<>> => ~(Top(t).op = "destroy" /\ Top(t).obj = f.obj)
      BY <2>1, StackIs DEF IInv, Needs
    <3> QED BY <3>1, <3>2, <1>2 DEF Gentle
  <2>5. senders[f.obj] = <<>> => senders'[f.obj] = <<>>
    <3>1. senders[f.obj] \in Seq(Conns) /\ senders'[f.obj] \in Seq(Conns)
      BY <1>2 DEF IInv, DataTyped
    <3>2. senders[f.obj] = <<>> => Members(senders'[f.obj]) = {}
      BY <2>3, <3>1, EndsAre
    <3> QED BY <3>1, <3>2, EmptyIs
  <2>6. Walked(f)' = Walked(f)
    BY <2>2 DEF Walked
  <2> QED BY <1>1, <2>2, <2>3, <2>4, <2>5, <2>6 DEF Sane, Destroys
<1>8. Connects(f)'
  <2> SUFFICES ASSUME f.op = "connect" PROVE object'[f.obj] # "gone" /\ object'[f.peer] # "gone"
    BY DEF Connects
  <2>1. f.peer \in Objects /\ object[f.obj] # "gone" /\ object[f.peer] # "gone"
    BY <1>1, <1>2 DEF Sane, Connects, Placed
  <2>2. ASSUME NEW o \in Objects, Needs(f, o), object[o] # "gone" PROVE object'[o] # "gone"
    <3>1. ~(stack[t] # <<>> /\ Top(t).op = "destroy" /\ Top(t).obj = o)
      <4> SUFFICES ASSUME stack[t] # <<>>, Top(t).op = "destroy", Top(t).obj = o PROVE FALSE
        OBVIOUS
      <4>1. Len(stack[t]) \in DOMAIN stack[t] /\ Top(t) = stack[t][Len(stack[t])]
        BY StackIs DEF IInv
      <4>2. Alone(t, Top(t))
        BY <4>1 DEF IInv, Called
      <4> QED BY <4>2, <2>2 DEF Alone
    <3>2. object[o] = "alive" /\ object'[o] = "dying" => object'[o] # "gone"
      OBVIOUS
    <3> QED BY <3>1, <3>2, <2>2 DEF Gentle
  <2> QED BY <2>1, <2>2, <1>2 DEF Needs
<1> QED BY <1>4, <1>5, <1>6, <1>7, <1>8 DEF Sane

\* A call that waits for another one in its thread.
LEMMA PausedSane ==
  ASSUME NEW t \in Threads, NEW f \in FrameT, NEW g, Sane(t, f), f.at \in Pausing, Alike(f, g),
         made \in Nat, made' \in Nat, made <= made',
         f.op = "destroy" => object'[f.obj] = object[f.obj]
  PROVE  Sane(t, g)'
<1>1. /\ g \in FrameT
      /\ g.op = f.op /\ g.at = f.at /\ g.obj = f.obj /\ g.peer = f.peer /\ g.walk = f.walk
      /\ g.conn = f.conn /\ g.relock = f.relock /\ g.seen = f.seen
  BY AlikeIs
<1>2. f.conn \in Nat /\ f.at \in Points
  BY SignalSlotAssumption DEF FrameT
<1>3. Placed(g)'
  BY <1>1 DEF Sane, Placed
<1>4. Relocks(g)'
  BY <1>1 DEF Sane, Relocks, Pausing
<1>5. AtConn(g)'
  BY <1>1, <1>2 DEF Sane, AtConn, Pausing
<1>6. Destroys(t, g)'
  BY <1>1, <1>2 DEF Sane, Destroys, Pausing
<1>7. Connects(g)'
  BY <1>1 DEF Sane, Connects, Placed, Pausing
<1> QED BY <1>3, <1>4, <1>5, <1>6, <1>7 DEF Sane

LEMMA NewTop ==
  ASSUME IInv, NEW t \in Threads, Gentle(t), DataTyped', NEW s, NEW g \in FrameT,
         Follows(t, s, g), stack' = [stack EXCEPT ![t] = s],
         Sane(t, g)', Alone(t, g), Spared(t, g),
         g.op = "destroy" => \A i \in 1..(Len(s) - 1) :
           ~(stack[t][i].op = "destroy" /\ stack[t][i].obj = g.obj)
  PROVE  Called'
<1>0. /\ s \in Seq(FrameT) /\ Len(s) \in Nat \ {0} /\ DOMAIN s = 1..Len(s)
      /\ \A i \in DOMAIN s : s[i] \in FrameT
      /\ Len(s) - 1 <= Len(stack[t]) /\ s[Len(s)] = g
  <2> HIDE DEF FrameT
  <2> QED BY LenProperties, EmptySeq DEF Follows
<1>1. /\ stack'[t] = s /\ \A u \in Threads \ {t} : stack'[u] = stack[u] /\ Frames(u)' = Frames(u)
      /\ Frames(t)' = Members(s)
  BY DEF IInv, CallsTyped, Frames, Members
<1>2. made \in Nat /\ made' \in Nat /\ made <= made'
  BY SignalSlotAssumption DEF IInv, DataTyped, Gentle
<1>3. ASSUME NEW i \in 1..(Len(s) - 1)
      PROVE  /\ i \in DOMAIN stack[t] /\ stack[t][i] \in FrameT /\ stack[t][i] \in Frames(t)
             /\ s[i].op = stack[t][i].op /\ s[i].at = stack[t][i].at /\ s[i].obj = stack[t][i].obj
             /\ \A o : Needs(s[i], o) <=> Needs(stack[t][i], o)
             /\ Sane(t, stack[t][i]) /\ Alone(t, stack[t][i]) /\ s[i].at \in Pausing
             /\ Sane(t, s[i])' /\ Alone(t, s[i])
  <2>1. i \in DOMAIN stack[t] /\ stack[t][i] \in FrameT /\ stack[t][i] \in Frames(t)
    BY <1>0, StackIs DEF IInv, Frames, Members
  <2>2. Alike(stack[t][i], s[i]) /\ stack[t][i].at \in Pausing
    BY DEF Follows
  <2>3. /\ s[i].op = stack[t][i].op /\ s[i].at = stack[t][i].at /\ s[i].obj = stack[t][i].obj
        /\ \A o : Needs(s[i], o) <=> Needs(stack[t][i], o)
    BY <2>1, <2>2, AlikeIs
  <2>4. Sane(t, stack[t][i]) /\ Alone(t, stack[t][i])
    BY <2>1 DEF IInv, Called
  <2>5. Sane(t, s[i])'
    <3>1. stack[t][i].op = "destroy" => object'[stack[t][i].obj] = object[stack[t][i].obj]
      BY DEF Follows
    <3> QED BY <2>1, <2>2, <2>4, <3>1, <1>2, PausedSane
  <2> QED BY <2>1, <2>2, <2>3, <2>4, <2>5 DEF Alone
<1>4. ASSUME NEW u \in Threads \ {t}, NEW f \in Frames(u), f.op = "destroy"
      PROVE  \A h \in Members(s) : ~Needs(h, f.obj)
  <2>1. PICK j \in DOMAIN stack[u] : stack[u][j] = f
    BY DEF Frames, Members
  <2>2. Alone(u, f) /\ f.obj \in Objects
    BY <2>1, StackIs DEF IInv, Called, FrameT
  <2> SUFFICES ASSUME NEW i \in DOMAIN s, Needs(s[i], f.obj) PROVE FALSE
    BY DEF Members
  <2>3. CASE i = Len(s)
    BY <2>3, <2>2, <1>0, <1>4 DEF Spared
  <2>4. CASE i # Len(s)
    <3>1. i \in 1..(Len(s) - 1)
      BY <2>4, <1>0
    <3> QED BY <3>1, <1>3, <2>2, <1>4 DEF Alone
  <2> QED BY <2>3, <2>4
<1>5. ASSUME NEW u \in Threads \ {t} PROVE \A f \in Frames(u) : Sane(u, f)'
  BY OthersSane
<1>6. ASSUME NEW u \in Threads \ {t}, NEW i \in DOMAIN stack[u]
      PROVE  /\ Sane(u, stack[u][i])' /\ Alone(u, stack[u][i])'
             /\ i < Len(stack[u]) => stack[u][i].at \in Pausing
             /\ \A j \in DOMAIN stack[u] :
                  stack[u][i].op = "destroy" /\ stack[u][j].op = "destroy" /\ j # i =>
                    stack[u][j].obj # stack[u][i].obj
  <2>0. stack[u][i] \in Frames(u) /\ stack'[u] = stack[u]
    BY <1>1 DEF Frames, Members
  <2>1. Sane(u, stack[u][i])'
    BY <2>0, <1>5
  <2>2. Alone(u, stack[u][i])'
    <3> SUFFICES ASSUME stack[u][i].op = "destroy", NEW v \in Threads \ {u}, NEW h \in Frames(v)',
                        Needs(h, stack[u][i].obj)
                 PROVE  FALSE
      BY <2>0 DEF Alone
    <3>1. CASE v = t
      BY <3>1, <2>0, <1>1, <1>4
    <3>2. CASE v # t
      <4>1. h \in Frames(v)
        BY <3>2, <1>1
      <4>2. Alone(u, stack[u][i])
        BY DEF IInv, Called
      <4> QED BY <4>1, <4>2 DEF Alone
    <3> QED BY <3>1, <3>2
  <2> QED BY <2>1, <2>2 DEF IInv, Called
<1>7. ASSUME NEW i \in DOMAIN s
      PROVE  /\ Sane(t, s[i])' /\ (i < Len(s) => s[i].at \in Pausing)
             /\ s[i].op = "destroy" =>
                  \A u \in Threads \ {t} : \A h \in Frames(u)' : ~Needs(h, s[i].obj)
             /\ \A j \in DOMAIN s :
                  s[i].op = "destroy" /\ s[j].op = "destroy" /\ j # i => s[j].obj # s[i].obj
  <2>1. Sane(t, s[i])' /\ (i < Len(s) => s[i].at \in Pausing)
    <3>1. CASE i = Len(s)
      BY <3>1, <1>0
    <3>2. CASE i # Len(s)
      BY <3>2, <1>0, <1>3
    <3> QED BY <3>1, <3>2
  <2>2. Alone(t, s[i])
    <3>1. CASE i = Len(s)
      BY <3>1, <1>0
    <3>2. CASE i # Len(s)
      BY <3>2, <1>0, <1>3
    <3> QED BY <3>1, <3>2
  <2>3. ASSUME NEW j \in DOMAIN s, s[i].op = "destroy", s[j].op = "destroy", j # i
        PROVE  s[j].obj # s[i].obj
    <3>1. CASE i = Len(s)
      <4>1. j \in 1..(Len(s) - 1) /\ s[i] = g
        BY <3>1, <2>3, <1>0
      <4> QED BY <4>1, <2>3, <1>3
    <3>2. CASE j = Len(s)
      <4>1. i \in 1..(Len(s) - 1) /\ s[j] = g
        BY <3>2, <2>3, <1>0
      <4> QED BY <4>1, <2>3, <1>3
    <3>3. CASE i # Len(s) /\ j # Len(s)
      <4>1. i \in 1..(Len(s) - 1) /\ j \in 1..(Len(s) - 1)
        BY <3>3, <1>0
      <4> QED BY <4>1, <2>3, <1>3 DEF IInv, Called
    <3> QED BY <3>1, <3>2, <3>3
  <2> QED BY <2>1, <2>2, <2>3, <1>1 DEF Alone
<1>8. ASSUME NEW u \in Threads, NEW i \in DOMAIN stack'[u]
      PROVE  /\ Sane(u, stack[u][i])' /\ Alone(u, stack[u][i])'
             /\ i < Len(stack'[u]) => stack'[u][i].at \in Pausing
             /\ \A j \in DOMAIN stack'[u] :
                  stack'[u][i].op = "destroy" /\ stack'[u][j].op = "destroy" /\ j # i =>
                    stack'[u][j].obj # stack'[u][i].obj
  <2>1. CASE u = t
    <3>1. stack'[u] = s /\ i \in DOMAIN s
      BY <2>1, <1>1
    <3>2. Sane(u, stack[u][i])'
      BY <3>1, <2>1, <1>7
    <3>3. Alone(u, stack[u][i])'
      BY <3>1, <2>1, <1>7 DEF Alone
    <3> QED BY <3>1, <3>2, <3>3, <1>7
  <2>2. CASE u # t
    <3>1. u \in Threads \ {t} /\ stack'[u] = stack[u] /\ i \in DOMAIN stack[u]
      BY <2>2, <1>1
    <3> QED BY <3>1, <1>6
  <2> QED BY <2>1, <2>2
<1> QED BY <1>8 DEF Called

\* The calls below the innermost one are not about an object that this one destroys.
LEMMA BelowKept ==
  ASSUME IInv, NEW t \in Threads, Gentle(t), NEW i \in 1..(Len(stack[t]) - 1),
         stack[t][i].op = "destroy"
  PROVE  object'[stack[t][i].obj] = object[stack[t][i].obj]
<1>1. i \in DOMAIN stack[t] /\ i # Len(stack[t]) /\ stack[t][i] \in FrameT
  BY StackIs DEF IInv
<1>2. Sane(t, stack[t][i]) /\ stack[t][i].obj \in Objects
  BY <1>1 DEF IInv, Called, FrameT
<1>3. object[stack[t][i].obj] = "dying"
  BY <1>2 DEF Sane, Destroys
<1>4. stack[t] # <<>> /\ Top(t).op = "destroy" => Top(t).obj # stack[t][i].obj
  <2>1. stack[t] # <<>> => Len(stack[t]) \in DOMAIN stack[t] /\ Top(t) = stack[t][Len(stack[t])]
    BY StackIs DEF IInv
  <2> QED BY <2>1, <1>1 DEF IInv, Called
<1> QED BY <1>2, <1>3, <1>4 DEF Gentle

\* The stack without the innermost call.
LEMMA PopIs ==
  ASSUME CallsTyped, NEW t \in Threads, stack[t] # <<>>
  PROVE  LET s == SubSeq(stack[t], 1, Len(stack[t]) - 1)
         IN  /\ s \in Seq(FrameT) /\ Len(s) = Len(stack[t]) - 1 /\ DOMAIN s = 1..(Len(stack[t]) - 1)
             /\ \A i \in 1..(Len(stack[t]) - 1) : s[i] = stack[t][i]
<1> DEFINE q == stack[t]
           n == Len(stack[t]) - 1
<1>1. /\ q \in Seq(FrameT) /\ Len(q) \in Nat /\ Len(q) >= 1 /\ DOMAIN q = 1..Len(q)
      /\ \A i \in 1..Len(q) : q[i] \in FrameT
  BY StackIs, SignalSlotAssumption
<1>2. n \in Int /\ \A i \in 1..n : q[i] \in FrameT
  BY <1>1
<1> HIDE DEF FrameT
<1>3. /\ SubSeq(q, 1, n) \in Seq(FrameT)
      /\ Len(SubSeq(q, 1, n)) = IF 1 <= n THEN n - 1 + 1 ELSE 0
      /\ \A i \in 1..(n - 1 + 1) : SubSeq(q, 1, n)[i] = q[1 + i - 1]
  BY <1>1, <1>2, SubSeqProperties
<1>4. DOMAIN SubSeq(q, 1, n) = 1..Len(SubSeq(q, 1, n))
  BY <1>3, LenProperties
<1> QED BY <1>1, <1>2, <1>3, <1>4

LEMMA NewTopBelow ==
  ASSUME IInv, NEW t \in Threads, Gentle(t), DataTyped', stack[t] # <<>>, Pop(t)
  PROVE  Called'
<1>0. PICK s : s = SubSeq(stack[t], 1, Len(stack[t]) - 1)
  OBVIOUS
<1>1. /\ s \in Seq(FrameT) /\ Len(s) = Len(stack[t]) - 1 /\ DOMAIN s = 1..(Len(stack[t]) - 1)
      /\ \A i \in 1..(Len(stack[t]) - 1) : s[i] = stack[t][i]
  BY <1>0, PopIs DEF IInv
<1>2. stack' = [stack EXCEPT ![t] = s]
  BY <1>0 DEF Pop
<1>3. /\ Len(stack[t]) \in Nat /\ 1 <= Len(stack[t]) /\ Len(stack[t]) <= MaxDepth
      /\ MaxDepth \in Nat /\ DOMAIN stack[t] = 1..Len(stack[t])
      /\ \A i \in DOMAIN stack[t] : stack[t][i] \in FrameT
  <2>1. Len(stack[t]) \in DOMAIN stack[t] /\ Len(stack[t]) \in 0..MaxDepth
    BY StackIs DEF IInv
  <2> QED BY <2>1, StackIs, SignalSlotAssumption DEF IInv
<1>4. made \in Nat /\ made' \in Nat /\ made <= made'
  BY SignalSlotAssumption DEF IInv, DataTyped, Gentle
<1>5. CASE ~(Len(stack[t]) > 1)
  <2>1. /\ stack'[t] = s /\ \A u \in Threads \ {t} : stack'[u] = stack[u] /\ Frames(u)' = Frames(u)
        /\ DOMAIN s = {} /\ Frames(t)' = {}
    <3>1. DOMAIN s = {}
      BY <1>1, <1>5
    <3> QED BY <3>1, <1>2 DEF IInv, CallsTyped, Frames, Members
  <2>2. ASSUME NEW u \in Threads \ {t} PROVE \A f \in Frames(u) : Sane(u, f)'
    BY OthersSane
  <2>3. ASSUME NEW u \in Threads, NEW i \in DOMAIN stack'[u]
        PROVE  /\ Sane(u, stack[u][i])' /\ Alone(u, stack[u][i])'
               /\ i < Len(stack'[u]) => stack'[u][i].at \in Pausing
               /\ \A j \in DOMAIN stack'[u] :
                    stack'[u][i].op = "destroy" /\ stack'[u][j].op = "destroy" /\ j # i =>
                      stack'[u][j].obj # stack'[u][i].obj
    <3>1. u \in Threads \ {t} /\ stack'[u] = stack[u] /\ i \in DOMAIN stack[u]
      BY <2>1, <2>3
    <3>2. stack[u][i] \in Frames(u)
      BY <3>1 DEF Frames, Members
    <3>3. Sane(u, stack[u][i])'
      BY <3>1, <3>2, <2>2
    <3>4. Alone(u, stack[u][i])'
      <4>1. Alone(u, stack[u][i])
        BY <3>1 DEF IInv, Called
      <4>2. ASSUME NEW v \in Threads, NEW h \in Frames(v)' PROVE h \in Frames(v)
        BY <2>1
      <4> QED BY <4>1, <4>2, <3>1 DEF Alone
    <3> QED BY <3>1, <3>3, <3>4 DEF IInv, Called
  <2> QED BY <2>3 DEF Called
<1>6. CASE Len(stack[t]) > 1
  <2>0. PICK g : g = s[Len(s)]
    OBVIOUS
  <2>1. Len(s) \in DOMAIN stack[t] /\ Len(s) \in 1..(Len(stack[t]) - 1) /\ g = stack[t][Len(s)]
    <3>1. PICK n \in Nat : n = Len(stack[t]) /\ 1 <= n /\ n > 1
      <4>1. Len(stack[t]) \in Nat /\ 1 <= Len(stack[t]) /\ Len(stack[t]) > 1
        BY <1>3, <1>6
      <4> QED BY <4>1
    <3>2. n - 1 \in Int /\ 1 <= n - 1 /\ n - 1 <= n /\ n - 1 <= n - 1
      BY <3>1
    <3>3. Len(s) = n - 1
      BY <3>1, <1>1
    <3>4. Len(s) \in 1..(Len(stack[t]) - 1) /\ Len(s) \in 1..Len(stack[t])
      <4>1. Len(s) \in Int /\ 1 <= Len(s) /\ Len(s) <= n /\ Len(s) <= n - 1
        BY <3>2, <3>3
      <4> QED BY <3>1, <4>1
    <3> QED BY <3>4, <1>1, <1>3, <2>0
  <2>2. g \in FrameT /\ Sane(t, g) /\ Alone(t, g) /\ g.at \in Pausing /\ g \in Frames(t)
    BY <2>1, <1>3 DEF IInv, Called, Frames, Members
  <2>3. Sane(t, g)'
    <3>1. g.op = "destroy" => object'[g.obj] = object[g.obj]
      BY <2>1, BelowKept
    <3> QED BY <3>1, <2>2, <1>4, AlikeSame, PausedSane
  <2>4. Follows(t, s, g)
    <3>1. ASSUME NEW i \in 1..(Len(s) - 1)
          PROVE  /\ Alike(stack[t][i], s[i]) /\ stack[t][i].at \in Pausing
                 /\ stack[t][i].op = "destroy" =>
                      object'[stack[t][i].obj] = object[stack[t][i].obj]
      <4>1. i \in 1..(Len(stack[t]) - 1) /\ i \in DOMAIN stack[t] /\ i < Len(stack[t])
        BY <1>1, <1>3
      <4> QED BY <4>1, <1>1, <1>3, AlikeSame, BelowKept DEF IInv, Called
    <3>2. s # <<>>
      <4>1. Len(s) # 0
        BY <2>1
      <4> QED BY <4>1, EmptySeq
    <3> QED BY <3>1, <3>2, <1>1, <1>3, <2>0 DEF Follows
  <2>5. Spared(t, g)
    <3> SUFFICES ASSUME NEW o \in Objects, Needs(g, o), NEW u \in Threads \ {t},
                        NEW f \in Frames(u), f.op = "destroy", f.obj = o
                 PROVE  FALSE
      BY DEF Spared
    <3>1. PICK j \in DOMAIN stack[u] : stack[u][j] = f
      BY DEF Frames, Members
    <3>2. Alone(u, f)
      BY <3>1 DEF IInv, Called
    <3> QED BY <3>2, <2>2 DEF Alone
  <2>6. g.op = "destroy" => \A i \in 1..(Len(s) - 1) :
          ~(stack[t][i].op = "destroy" /\ stack[t][i].obj = g.obj)
    <3> SUFFICES ASSUME g.op = "destroy", NEW i \in 1..(Len(s) - 1), stack[t][i].op = "destroy"
                 PROVE  stack[t][i].obj # g.obj
      OBVIOUS
    <3>1. i \in DOMAIN stack[t] /\ i # Len(s)
      BY <2>1, <1>1, <1>3
    <3> QED BY <3>1, <2>1 DEF IInv, Called
  <2> QED BY <1>2, <2>2, <2>3, <2>4, <2>5, <2>6, NewTop
<1> QED BY <1>5, <1>6

-----------------------------------------------------------------------------
(* Mutexes and room.                                                       *)

LEMMA LocksKept ==
  ASSUME Locked, CallsTyped, NEW t \in Threads, NEW s, stack' = [stack EXCEPT ![t] = s], NEW H,
         LockedTo(t, H), s = <<>> => H = {}, s # <<>> => H = Holds(s[Len(s)])
  PROVE  Locked'
<1>1. stack'[t] = s /\ \A u \in Threads \ {t} : stack'[u] = stack[u]
  BY DEF CallsTyped
<1> SUFFICES ASSUME NEW u \in Threads, NEW m \in Mutexes
             PROVE  owner'[m] = u <=> stack'[u] # <<>> /\ m \in Holds(stack'[u][Len(stack'[u])])
  BY DEF Locked, Top, Mutexes
<1>2. CASE u = t
  BY <1>1, <1>2 DEF LockedTo
<1>3. CASE u # t
  BY <1>1, <1>3 DEF LockedTo, Locked, Top
<1> QED BY <1>2, <1>3

\* Only the innermost call of a thread connects.
LEMMA ConnectsLast ==
  ASSUME NEW q \in Seq(FrameT),
         \A i \in DOMAIN q : Placed(q[i]) /\ (i < Len(q) => q[i].at \in Pausing)
  PROVE  (\E f \in Members(q) : f.op = "connect") <=> q # <<>> /\ q[Len(q)].op = "connect"
<1>0. /\ Len(q) \in Nat /\ DOMAIN q = 1..Len(q) /\ (q = <<>> => Len(q) = 0)
      /\ (q # <<>> => Len(q) # 0)
  <2> HIDE DEF FrameT
  <2> QED BY LenProperties, EmptySeq
<1>1. ASSUME q # <<>>, q[Len(q)].op = "connect" PROVE \E f \in Members(q) : f.op = "connect"
  <2>1. Len(q) \in DOMAIN q
    BY <1>0, <1>1
  <2> QED BY <2>1, <1>1 DEF Members
<1>2. ASSUME NEW i \in DOMAIN q, q[i].op = "connect" PROVE q # <<>> /\ q[Len(q)].op = "connect"
  <2>1. ~(i < Len(q))
    BY <1>2 DEF Placed, Pausing
  <2>2. i = Len(q) /\ Len(q) # 0
    BY <2>1, <1>0
  <2> QED BY <2>2, <1>0, <1>2
<1> QED BY <1>1, <1>2 DEF Members

LEMMA ConnectingIs ==
  ASSUME CallsTyped, Called, NEW t \in Threads
  PROVE  Connecting(t) <=> stack[t] # <<>> /\ Top(t).op = "connect"
<1>1. PICK q : q = stack[t]
  OBVIOUS
<1>2. q \in Seq(FrameT) /\ \A i \in DOMAIN q : Placed(q[i]) /\ (i < Len(q) => q[i].at \in Pausing)
  BY <1>1 DEF CallsTyped, Called, Sane
<1>3. (\E f \in Members(q) : f.op = "connect") <=> q # <<>> /\ q[Len(q)].op = "connect"
  BY <1>2, ConnectsLast
<1> QED BY <1>1, <1>3 DEF Connecting, Frames, Top

LEMMA RoomKept ==
  ASSUME IInv, CallsTyped', Called', NEW t \in Threads, NEW s, stack' = [stack EXCEPT ![t] = s],
         made' = made, s # <<>> /\ s[Len(s)].op = "connect" => Connecting(t)
  PROVE  Room'
<1> DEFINE C == {u \in Threads : Connecting(u)}
           D == {u \in Threads : Connecting(u)'}
<1>1. D \subseteq C
  <2> SUFFICES ASSUME NEW u \in Threads, Connecting(u)' PROVE Connecting(u)
    OBVIOUS
  <2>1. stack'[t] = s /\ (u # t => stack'[u] = stack[u])
    BY DEF IInv, CallsTyped
  <2>2. CASE u = t
    <3>1. Connecting(t)' => s # <<>> /\ s[Len(s)].op = "connect"
      <4>1. /\ s \in Seq(FrameT)
            /\ \A i \in DOMAIN s : Placed(s[i]) /\ (i < Len(s) => s[i].at \in Pausing)
        <5>1. stack'[t] \in Seq(FrameT)
          BY DEF CallsTyped
        <5>2. \A i \in DOMAIN stack'[t] : /\ Placed(stack'[t][i])
                                          /\ i < Len(stack'[t]) => stack'[t][i].at \in Pausing
          BY DEF Called, Sane, Placed
        <5> QED BY <5>1, <5>2, <2>1
      <4> QED BY <4>1, <2>1, ConnectsLast DEF Connecting, Frames
    <3> QED BY <3>1, <2>2
  <2>3. CASE u # t
    BY <2>1, <2>3 DEF Connecting, Frames
  <2> QED BY <2>2, <2>3
<1>2. IsFiniteSet(C) /\ IsFiniteSet(D) /\ Cardinality(C) \in Nat /\ Cardinality(D) \in Nat
      /\ Cardinality(D) <= Cardinality(C)
  <2>1. IsFiniteSet(C)
    BY SignalSlotAssumption, FS_Subset
  <2> HIDE DEF C, D
  <2> QED BY <2>1, <1>1, FS_Subset, FS_CardinalityType
<1>3. made + Cardinality(C) <= MaxConns /\ made \in Int /\ MaxConns \in Int
  BY SignalSlotAssumption DEF IInv, Room, DataTyped
<1> HIDE DEF C, D
<1>4. made' + Cardinality(D) <= MaxConns
  BY <1>2, <1>3
<1> QED BY <1>4 DEF Room, D

LEMMA LocksSame ==
  ASSUME IInv, NEW t \in Threads, stack[t] # <<>>, UNCHANGED owner, NEW H, H = Holds(Top(t))
  PROVE  OwnerTyped' /\ LockedTo(t, H)
BY DEF IInv, CallsTyped, OwnerTyped, Locked, LockedTo

LEMMA LocksTaken ==
  ASSUME IInv, NEW t \in Threads, NEW m \in Mutexes, Free(m), Take(t, m),
         stack[t] # <<>>, Holds(Top(t)) = {}
  PROVE  OwnerTyped' /\ LockedTo(t, {m})
<1>1. OwnerTyped /\ \A k \in Mutexes : owner[k] # t
  BY DEF IInv, CallsTyped, OwnerTyped, Locked
<1>2. /\ owner' \in [Mutexes -> Threads \cup {Nobody}]
      /\ \A k \in Mutexes : owner'[k] = IF k = m THEN t ELSE owner[k]
  BY <1>1 DEF Take, OwnerTyped
<1> QED BY <1>1, <1>2, SignalSlotAssumption DEF Free, OwnerTyped, LockedTo

LEMMA LocksReleased ==
  ASSUME IInv, NEW t \in Threads, NEW m, Release(m), stack[t] # <<>>, Holds(Top(t)) = {m}
  PROVE  OwnerTyped' /\ LockedTo(t, {})
<1>1. OwnerTyped /\ \A k \in Mutexes : owner[k] = t <=> k = m
  BY DEF IInv, CallsTyped, OwnerTyped, Locked
<1>2. /\ owner' \in [Mutexes -> Threads \cup {Nobody}]
      /\ \A k \in Mutexes : owner'[k] = IF k = m THEN Nobody ELSE owner[k]
  BY <1>1 DEF Release, OwnerTyped
<1>3. ASSUME NEW k \in Mutexes
      PROVE  owner'[k] # t /\ \A u \in Threads \ {t} : (owner'[k] = u <=> owner[k] = u)
  <2>1. Nobody \notin Threads
    BY SignalSlotAssumption
  <2>2. CASE k = m
    BY <2>1, <2>2, <1>1, <1>2
  <2>3. CASE k # m
    BY <2>3, <1>1, <1>2
  <2> QED BY <2>2, <2>3
<1> QED BY <1>2, <1>3 DEF LockedTo, OwnerTyped

-----------------------------------------------------------------------------
(* The three ways in which a step changes the calls of its thread.         *)

\* The innermost call goes on.
LEMMA TopStep ==
  ASSUME IInv, NEW t \in Threads, stack[t] # <<>>, Gentle(t), DataTyped', Standing', made' = made,
         NEW s \in Seq(FrameT), NEW g \in FrameT, Len(s) = Len(stack[t]), s[Len(s)] = g,
         \A i \in 1..(Len(s) - 1) : Alike(stack[t][i], s[i]), stack' = [stack EXCEPT ![t] = s],
         SameNeeds(Top(t), g), Sane(t, g)', OwnerTyped', LockedTo(t, Holds(g))
  PROVE  IInv'
<1>0. /\ Len(stack[t]) \in 0..MaxDepth /\ Len(stack[t]) \in DOMAIN stack[t]
      /\ DOMAIN stack[t] = 1..Len(stack[t]) /\ \A i \in DOMAIN stack[t] : stack[t][i] \in FrameT
      /\ Top(t) = stack[t][Len(stack[t])] /\ Top(t) \in FrameT /\ Top(t) \in Frames(t)
  BY StackIs DEF IInv
<1>1. CallsTyped'
  <2>1. stack' \in [Threads -> Seq(FrameT)]
    BY DEF IInv, CallsTyped
  <2>2. \A u \in Threads : Len(stack'[u]) <= MaxDepth
    BY <1>0, SignalSlotAssumption DEF IInv, CallsTyped
  <2> QED BY <2>1, <2>2 DEF CallsTyped, OwnerTyped
<1>2. s # <<>>
  <2>1. Len(s) >= 1 /\ Len(s) \in Nat
    BY <1>0, SignalSlotAssumption
  <2> QED BY <2>1, EmptySeq
<1>3. \A o : Needs(g, o) <=> Needs(Top(t), o)
  BY DEF SameNeeds, Needs
<1>4. Sane(t, Top(t)) /\ Alone(t, Top(t))
  BY <1>0 DEF IInv, Called
<1>5. Called'
  <2>1. Follows(t, s, g)
    <3> SUFFICES ASSUME NEW i \in 1..(Len(s) - 1)
                 PROVE  /\ stack[t][i].at \in Pausing
                        /\ stack[t][i].op = "destroy" =>
                             object'[stack[t][i].obj] = object[stack[t][i].obj]
      <4>1. Len(s) - 1 <= Len(stack[t]) /\ Len(s) <= MaxDepth
        BY <1>0, SignalSlotAssumption
      <4> QED BY <4>1, <1>2 DEF Follows
    <3>1. i \in DOMAIN stack[t] /\ i < Len(stack[t]) /\ i \in 1..(Len(stack[t]) - 1)
      BY <1>0, SignalSlotAssumption
    <3> QED BY <3>1, BelowKept DEF IInv, Called
  <2>2. Alone(t, g)
    BY <1>4 DEF Alone, SameNeeds
  <2>3. Spared(t, g)
    <3> SUFFICES ASSUME NEW o \in Objects, Needs(g, o), NEW u \in Threads \ {t},
                        NEW f \in Frames(u), f.op = "destroy", f.obj = o
                 PROVE  FALSE
      BY DEF Spared
    <3>1. PICK j \in DOMAIN stack[u] : stack[u][j] = f
      BY DEF Frames, Members
    <3>2. Alone(u, f)
      BY <3>1 DEF IInv, Called
    <3> QED BY <3>2, <1>0, <1>3 DEF Alone
  <2>4. g.op = "destroy" => \A i \in 1..(Len(s) - 1) :
          ~(stack[t][i].op = "destroy" /\ stack[t][i].obj = g.obj)
    <3> SUFFICES ASSUME g.op = "destroy", NEW i \in 1..(Len(s) - 1), stack[t][i].op = "destroy"
                 PROVE  stack[t][i].obj # g.obj
      OBVIOUS
    <3>1. i \in DOMAIN stack[t] /\ i < Len(stack[t]) /\ Len(stack[t]) \in Nat
      BY <1>0, SignalSlotAssumption
    <3>2. i # Len(stack[t])
      BY <3>1
    <3>3. Top(t).op = "destroy" /\ Top(t).obj = g.obj
      BY DEF SameNeeds
    <3> QED BY <3>1, <3>2, <3>3, <1>0 DEF IInv, Called
  <2> QED BY <2>1, <2>2, <2>3, <2>4, NewTop
<1>6. Locked'
  BY <1>2, LocksKept DEF IInv
<1>7. Room'
  <2>1. g.op = "connect" => Connecting(t)
    BY <1>0 DEF SameNeeds, Connecting
  <2> QED BY <1>1, <1>5, <2>1, RoomKept
<1> QED BY <1>1, <1>5, <1>6, <1>7 DEF IInv

LEMMA PutStep ==
  ASSUME IInv, NEW t \in Threads, stack[t] # <<>>, Gentle(t), DataTyped', Standing', made' = made,
         NEW g \in FrameT, Put(t, g), SameNeeds(Top(t), g), Sane(t, g)',
         OwnerTyped', LockedTo(t, Holds(g))
  PROVE  IInv'
<1>0. PICK r : r = SubSeq(stack[t], 1, Len(stack[t]) - 1)
  OBVIOUS
<1>1. /\ r \in Seq(FrameT) /\ Len(r) = Len(stack[t]) - 1
      /\ \A i \in 1..(Len(stack[t]) - 1) : r[i] = stack[t][i]
  BY <1>0, PopIs DEF IInv
<1>2. Len(stack[t]) \in Nat /\ DOMAIN stack[t] = 1..Len(stack[t])
      /\ \A i \in DOMAIN stack[t] : stack[t][i] \in FrameT
  BY StackIs, SignalSlotAssumption DEF IInv
<1>3. PICK s : s = Append(r, g)
  OBVIOUS
<1> HIDE DEF FrameT
<1>4. /\ s \in Seq(FrameT) /\ Len(s) = Len(r) + 1 /\ s[Len(r) + 1] = g
      /\ \A i \in 1..Len(r) : s[i] = r[i]
  BY <1>1, <1>3, AppendProperties
<1>5. Len(s) = Len(stack[t]) /\ s[Len(s)] = g
  BY <1>1, <1>2, <1>4
<1>6. ASSUME NEW i \in 1..(Len(s) - 1) PROVE Alike(stack[t][i], s[i])
  <2>1. i \in 1..Len(r) /\ i \in 1..(Len(stack[t]) - 1) /\ i \in DOMAIN stack[t]
    BY <1>1, <1>2, <1>5
  <2> QED BY <2>1, <1>1, <1>2, <1>4, AlikeSame
<1>7. stack' = [stack EXCEPT ![t] = s]
  BY <1>0, <1>3 DEF Put
<1> QED BY <1>4, <1>5, <1>6, <1>7, TopStep

\* The innermost call returns.
LEMMA PopStep ==
  ASSUME IInv, NEW t \in Threads, stack[t] # <<>>, Gentle(t), DataTyped', Standing', Pop(t),
         OwnerTyped', LockedTo(t, {})
  PROVE  /\ CallsTyped' /\ Called' /\ Locked' /\ ~Connecting(t)'
         /\ made' = made => IInv'
<1>0. PICK s : s = SubSeq(stack[t], 1, Len(stack[t]) - 1)
  OBVIOUS
<1>1. /\ s \in Seq(FrameT) /\ Len(s) = Len(stack[t]) - 1 /\ DOMAIN s = 1..(Len(stack[t]) - 1)
      /\ \A i \in 1..(Len(stack[t]) - 1) : s[i] = stack[t][i]
  BY <1>0, PopIs DEF IInv
<1>2. stack' = [stack EXCEPT ![t] = s]
  BY <1>0 DEF Pop
<1>3. Len(stack[t]) \in Nat /\ Len(stack[t]) <= MaxDepth /\ DOMAIN stack[t] = 1..Len(stack[t])
  BY StackIs, SignalSlotAssumption DEF IInv
<1>4. CallsTyped'
  <2>1. stack' \in [Threads -> Seq(FrameT)] /\ stack'[t] = s
    BY <1>1, <1>2 DEF IInv, CallsTyped
  <2>2. Len(s) <= MaxDepth
    BY <1>1, <1>3, SignalSlotAssumption
  <2>3. \A u \in Threads : Len(stack'[u]) <= MaxDepth
    BY <2>2, <1>2 DEF IInv, CallsTyped
  <2> QED BY <2>1, <2>3 DEF CallsTyped, OwnerTyped
<1>5. Called'
  BY NewTopBelow
<1>6. s # <<>> => s[Len(s)].at \in Pausing /\ s[Len(s)].op # "connect"
  <2> SUFFICES ASSUME s # <<>> PROVE s[Len(s)].at \in Pausing /\ s[Len(s)].op # "connect"
    OBVIOUS
  <2>1. Len(s) \in Nat /\ Len(s) > 0
    <3> HIDE DEF FrameT
    <3>1. Len(s) \in Nat \ {0}
      BY <1>1, EmptySeq
    <3> QED BY <3>1
  <2>2. /\ Len(s) \in 1..(Len(stack[t]) - 1) /\ Len(s) < Len(stack[t])
        /\ Len(s) \in DOMAIN stack[t]
    BY <2>1, <1>1, <1>3
  <2>3. s[Len(s)] = stack[t][Len(s)]
    BY <2>2, <1>1
  <2> QED BY <2>2, <2>3 DEF IInv, Called, Sane, Placed, Pausing
<1>7. Locked'
  <2>1. s # <<>> => {} = Holds(s[Len(s)])
    BY <1>6 DEF Holds, Pausing
  <2> QED BY <1>2, <2>1, LocksKept DEF IInv
<1>8. ~Connecting(t)'
  <2>1. stack'[t] = s
    BY <1>2 DEF IInv, CallsTyped
  <2>2. \A i \in DOMAIN s : Placed(s[i]) /\ (i < Len(s) => s[i].at \in Pausing)
    <3>1. \A i \in DOMAIN stack'[t] : /\ Placed(stack'[t][i])
                                      /\ i < Len(stack'[t]) => stack'[t][i].at \in Pausing
      BY <1>5 DEF Called, Sane, Placed
    <3> QED BY <3>1, <2>1
  <2> QED BY <2>1, <2>2, <1>1, <1>6, ConnectsLast DEF Connecting, Frames
<1>9. ASSUME made' = made PROVE IInv'
  <2>1. Room'
    BY <1>2, <1>4, <1>5, <1>6, <1>9, RoomKept
  <2> QED BY <2>1, <1>4, <1>5, <1>7 DEF IInv
<1> QED BY <1>4, <1>5, <1>7, <1>8, <1>9

\* A call is made.
LEMMA PushStep ==
  ASSUME IInv, NEW t \in Threads, MayCall(t), Gentle(t), DataTyped', Standing', made' = made,
         NEW g \in FrameT, Push(t, g), Sane(t, g)', Alone(t, g), Spared(t, g), Holds(g) = {},
         g.op = "destroy" => \A i \in DOMAIN stack[t] :
           ~(stack[t][i].op = "destroy" /\ stack[t][i].obj = g.obj),
         \A i \in DOMAIN stack[t] : stack[t][i].op = "destroy" =>
           object'[stack[t][i].obj] = object[stack[t][i].obj],
         UNCHANGED owner
  PROVE  /\ CallsTyped' /\ Called' /\ Locked'
         /\ g.op # "connect" => IInv'
<1>0. /\ stack[t] \in Seq(FrameT) /\ Len(stack[t]) \in Nat /\ DOMAIN stack[t] = 1..Len(stack[t])
      /\ \A i \in DOMAIN stack[t] : stack[t][i] \in FrameT
      /\ stack[t] # <<>> => Top(t) = stack[t][Len(stack[t])] /\ Len(stack[t]) \in DOMAIN stack[t]
  BY StackIs, SignalSlotAssumption DEF IInv
<1>1. PICK s : s = Append(stack[t], g)
  OBVIOUS
<1>2. /\ s \in Seq(FrameT) /\ Len(s) = Len(stack[t]) + 1 /\ s[Len(stack[t]) + 1] = g
      /\ \A i \in 1..Len(stack[t]) : s[i] = stack[t][i]
  <2> HIDE DEF FrameT
  <2> QED BY <1>0, <1>1, AppendProperties
<1>3. stack' = [stack EXCEPT ![t] = s] /\ s # <<>> /\ s[Len(s)] = g
  <2>1. stack' = [stack EXCEPT ![t] = s]
    BY <1>1 DEF Push
  <2>2. Len(s) > 0 /\ s[Len(s)] = g
    BY <1>0, <1>2
  <2> QED BY <2>1, <2>2, EmptySeq
<1>4. Len(stack[t]) < MaxDepth /\ (stack[t] # <<>> => Top(t).at \in Pausing)
  BY DEF MayCall, Pausing
<1>5. CallsTyped'
  <2>1. stack' \in [Threads -> Seq(FrameT)] /\ stack'[t] = s
    BY <1>2, <1>3 DEF IInv, CallsTyped
  <2>2. Len(s) <= MaxDepth
    BY <1>0, <1>2, <1>4, SignalSlotAssumption
  <2>3. \A u \in Threads : Len(stack'[u]) <= MaxDepth
    BY <2>2, <1>3 DEF IInv, CallsTyped
  <2> QED BY <2>1, <2>3 DEF IInv, CallsTyped
<1>6. \A i \in 1..Len(stack[t]) : stack[t][i].at \in Pausing
  <2> SUFFICES ASSUME NEW i \in 1..Len(stack[t]) PROVE stack[t][i].at \in Pausing
    OBVIOUS
  <2>1. CASE i < Len(stack[t])
    BY <2>1, <1>0 DEF IInv, Called
  <2>2. CASE ~(i < Len(stack[t]))
    <3>1. i = Len(stack[t]) /\ Len(stack[t]) > 0
      BY <2>2, <1>0
    <3>2. stack[t] # <<>>
      BY <3>1, EmptySeq
    <3> QED BY <3>1, <3>2, <1>0, <1>4
  <2> QED BY <2>1, <2>2
<1>7. Called'
  <2>1. Follows(t, s, g)
    <3>1. Len(s) - 1 <= Len(stack[t]) /\ Len(s) <= MaxDepth
      BY <1>0, <1>2, <1>4, SignalSlotAssumption
    <3>2. ASSUME NEW i \in 1..(Len(s) - 1)
          PROVE  /\ Alike(stack[t][i], s[i]) /\ stack[t][i].at \in Pausing
                 /\ stack[t][i].op = "destroy" =>
                      object'[stack[t][i].obj] = object[stack[t][i].obj]
      <4>1. i \in 1..Len(stack[t]) /\ i \in DOMAIN stack[t]
        BY <1>0, <1>2
      <4> QED BY <4>1, <1>0, <1>2, <1>6, AlikeSame
    <3> QED BY <3>1, <3>2, <1>2, <1>3 DEF Follows
  <2>2. \A i \in 1..(Len(s) - 1) : i \in DOMAIN stack[t]
    BY <1>0, <1>2
  <2> QED BY <2>1, <2>2, <1>3, NewTop
<1>8. Locked'
  <2>1. LockedTo(t, {})
    <3> SUFFICES \A m \in Mutexes : owner[m] # t
      BY DEF LockedTo
    <3>1. stack[t] # <<>> => Holds(Top(t)) = {}
      BY <1>4 DEF Holds, Pausing
    <3> QED BY <3>1 DEF IInv, Locked
  <2> QED BY <2>1, <1>3, LocksKept DEF IInv
<1>9. ASSUME g.op # "connect" PROVE IInv'
  <2>1. Room'
    BY <1>3, <1>5, <1>7, <1>9, RoomKept
  <2> QED BY <2>1, <1>5, <1>7, <1>8 DEF IInv
<1> QED BY <1>5, <1>7, <1>8, <1>9

-----------------------------------------------------------------------------
(* What a step does to the connections and the objects.                    *)

LEMMA TopIs ==
  ASSUME IInv, NEW t \in Threads, stack[t] # <<>>
  PROVE  /\ Top(t) \in FrameT /\ Sane(t, Top(t)) /\ Alone(t, Top(t)) /\ Top(t) \in Frames(t)
         /\ \A m \in Mutexes : owner[m] = t <=> m \in Holds(Top(t))
BY StackIs DEF IInv, Called, Locked

LEMMA DataSame ==
  ASSUME IInv, NEW t \in Threads, UNCHANGED <<connVars, object>>,
         currentSender' \in [Objects -> 0..MaxDepth]
  PROVE  DataTyped' /\ Standing' /\ Gentle(t) /\ made' = made
<1>1. DataTyped'
  BY DEF IInv, DataTyped, connVars
<1>2. Standing'
  BY DEF IInv, Standing, Sent, Received, Joined, connVars
<1>3. Gentle(t)
  <2>1. made <= made'
    BY SignalSlotAssumption DEF IInv, DataTyped, connVars
  <2> QED BY <2>1 DEF Gentle, connVars
<1> QED BY <1>1, <1>2, <1>3 DEF connVars

LEMMA SaneSame ==
  ASSUME NEW t \in Threads, NEW f, Sane(t, f), UNCHANGED <<connVars, object>>
  PROVE  Sane(t, f)'
<1>1. Placed(f)' /\ Connects(f)' /\ AtConn(f)'
  BY DEF Sane, Placed, Connects, AtConn, connVars
<1>2. Relocks(f)'
  BY DEF Sane, Relocks, Own, connVars
<1>3. Destroys(t, f)'
  BY DEF Sane, Destroys, Walked, connVars
<1> QED BY <1>1, <1>2, <1>3 DEF Sane

\* A step of the innermost call that changes no connection and no object.
LEMMA QuietStep ==
  ASSUME IInv, NEW t \in Threads, stack[t] # <<>>, UNCHANGED <<connVars, object>>,
         currentSender' \in [Objects -> 0..MaxDepth],
         NEW g \in FrameT, Put(t, g), SameNeeds(Top(t), g), Sane(t, g),
         OwnerTyped', LockedTo(t, Holds(g))
  PROVE  IInv'
BY DataSame, SaneSame, PutStep

LEMMA BreaksKeep ==
  ASSUME IInv, NEW t \in Threads, stack[t] # <<>>, DataTyped', NEW B, NEW F, Breaks(B, F),
         \A o \in Objects : o # Top(t).obj => lists'[o] = lists[o] /\ vector'[o] = vector[o],
         \A o \in Objects : vector'[o] # "used" /\ vector[o] = "used" =>
                              \A l \in Lists : lists'[o][l] = <<>>
  PROVE  Standing' /\ Gentle(t)
<1>1. Sent'
  <2> SUFFICES ASSUME NEW o \in Objects, NEW l \in Lists
               PROVE  /\ Rising(lists'[o][l])
                      /\ Members(lists'[o][l]) =
                           {c \in 1..made' : /\ conns'[c].sender = o /\ conns'[c].list = l
                                             /\ ~conns'[c].freed}
                      /\ vector'[o] # "used" => lists'[o][l] = <<>>
    BY DEF Sent
  <2>1. Members(lists[o][l]) =
          {c \in 1..made : conns[c].sender = o /\ conns[c].list = l /\ ~conns[c].freed}
    BY DEF IInv, Standing, Sent
  <2>2. Members(lists'[o][l]) =
          {c \in 1..made' : conns'[c].sender = o /\ conns'[c].list = l /\ ~conns'[c].freed}
    BY <2>1 DEF Breaks
  <2>3. ASSUME vector'[o] # "used" PROVE lists'[o][l] = <<>>
    <3>1. CASE vector[o] = "used"
      BY <3>1, <2>3
    <3>2. CASE vector[o] # "used"
      <4>1. lists[o][l] = <<>> /\ lists[o][l] \in Seq(Conns) /\ lists'[o][l] \in Seq(Conns)
        BY <3>2 DEF IInv, Standing, Sent, DataTyped
      <4>2. Members(lists[o][l]) = {}
        BY <4>1, EndsAre
      <4>3. Members(lists'[o][l]) = {}
        BY <4>2 DEF Breaks
      <4> QED BY <4>1, <4>3, EmptyIs
    <3> QED BY <3>1, <3>2
  <2> QED BY <2>2, <2>3 DEF Breaks
<1>2. Received'
  <2> SUFFICES ASSUME NEW o \in Objects
               PROVE  /\ Once(senders'[o])
                      /\ Members(senders'[o]) = {c \in 1..made' : conns'[c].receiver = o}
    BY DEF Received
  <2>1. Members(senders[o]) = {c \in 1..made : conns[c].receiver = o} /\ o # Nobody
    BY SignalSlotAssumption DEF IInv, Standing, Received
  <2> QED BY <2>1 DEF Breaks
<1>3. Joined'
  BY DEF Breaks, IInv, Standing, Joined
<1>4. Gentle(t)
  <2>1. made <= made'
    BY SignalSlotAssumption DEF Breaks, IInv, DataTyped
  <2>2. ASSUME NEW o \in Objects, \A f \in Frames(t) : ~Needs(f, o)
        PROVE  /\ lists'[o] = lists[o] /\ vector'[o] = vector[o]
               /\ Members(senders'[o]) \subseteq Members(senders[o])
    <3>1. o # Top(t).obj
      BY <2>2, TopIs DEF Needs
    <3> QED BY <3>1 DEF Breaks
  <2> QED BY <2>1, <2>2 DEF Gentle, Breaks
<1> QED BY <1>1, <1>2, <1>3, <1>4 DEF Standing

\* The part of Sane that a step of the call itself may leave.
LEMMA BegunIs ==
  ASSUME DataTyped, NEW f \in FrameT, NEW w \in Seq(Lists)
  PROVE  LET g == Begin(f, w)
         IN  /\ g \in FrameT /\ SameNeeds(f, g) /\ g.at = f.at /\ g.walk = w
             /\ g.relock = f.relock /\ g.seen = {} /\ g.peer = f.peer /\ g.conn = First(Walked(g))
             /\ (w = <<>> => g.conn = NoConn)
             /\ g.conn \in Members(Walked(g)) \cup {NoConn}
             /\ g.mutex = f.mutex /\ g.from = f.from
<1> DEFINE list == IF w = <<>> THEN <<>> ELSE lists[f.obj][Head(w)]
           g == Begin(f, w)
<1>1. f.obj \in Objects
  BY DEF FrameT
<1>2. list \in Seq(Conns)
  <2>1. w # <<>> => Head(w) \in Lists
    BY HeadTailProperties
  <2> QED BY <2>1, <1>1 DEF DataTyped
<1>3. First(list) \in 0..MaxConns /\ Last(list) \in 0..MaxConns
      /\ First(list) \in Members(list) \cup {NoConn} /\ First(<<>>) = NoConn
  <2>1. First(<<>>) = NoConn
    BY DEF First
  <2> HIDE DEF list
  <2> QED BY <2>1, <1>2, EndsAre
<1>4. made \in 0..MaxConns
  BY DEF DataTyped
<1>5. g = [f EXCEPT !.walk = w, !.conn = First(list), !.last = Last(list), !.upTo = made,
                    !.seen = {}]
  BY DEF Begin
<1> HIDE DEF list, g
<1>6. /\ g \in FrameT /\ SameNeeds(f, g) /\ g.at = f.at /\ g.walk = w /\ g.obj = f.obj
      /\ g.relock = f.relock /\ g.seen = {} /\ g.peer = f.peer /\ g.conn = First(list)
      /\ g.mutex = f.mutex /\ g.from = f.from
  BY <1>3, <1>4, <1>5 DEF FrameT, SameNeeds
<1>7. Walked(g) = list
  BY <1>6 DEF Walked, list
<1> QED BY <1>3, <1>6, <1>7 DEF g, list

-----------------------------------------------------------------------------
(* The steps that change no connection and no object.                      *)

LEMMA OwnIs ==
  ASSUME NEW f \in FrameT
  PROVE  Own(f) \in Mutexes /\ Own(f) \in Nat /\ f.obj \in Objects /\ f.obj # Nobody
BY SignalSlotAssumption DEF FrameT, Own, Mutexes

LEMMA BothAre ==
  ASSUME NEW f \in FrameT, f.peer \in Objects
  PROVE  /\ Lower(f) \in Mutexes /\ Lower(f) \in Nat /\ Upper(f) \in Mutexes /\ Upper(f) \in Nat
         /\ Lower(f) <= Upper(f)
         /\ {Lower(f), Upper(f)} = {MutexOf[f.obj], MutexOf[f.peer]}
<1>1. /\ MutexOf[f.obj] \in Nat /\ MutexOf[f.peer] \in Nat
      /\ MutexOf[f.obj] \in Mutexes /\ MutexOf[f.peer] \in Mutexes
  BY SignalSlotAssumption DEF FrameT, Mutexes
<1>2. CASE MutexOf[f.obj] <= MutexOf[f.peer]
  BY <1>1, <1>2 DEF Lower, Upper
<1>3. CASE ~(MutexOf[f.obj] <= MutexOf[f.peer])
  BY <1>1, <1>3 DEF Lower, Upper
<1> QED BY <1>2, <1>3

\* The connection that a call is at.
LEMMA ConnIs ==
  ASSUME IInv, NEW t \in Threads, NEW f \in FrameT, Sane(t, f), f.conn # NoConn
  PROVE  /\ f.conn \in 1..made /\ f.conn \in Conns /\ conns[f.conn] \in ConnT
         /\ Receiver(f) \in SomeObject /\ f.walk # <<>> /\ Head(f.walk) \in Lists
         /\ lists[f.obj][Head(f.walk)] \in Seq(Conns) /\ Walked(f) = lists[f.obj][Head(f.walk)]
<1>1. f.conn \in 1..made /\ f.conn \in Conns
  <2>1. made \in Nat /\ made <= MaxConns /\ f.conn \in Nat /\ f.conn <= made /\ MaxConns \in Nat
    BY SignalSlotAssumption DEF IInv, DataTyped, Sane, AtConn, FrameT
  <2>2. f.conn > 0
    BY <2>1 DEF NoConn
  <2> QED BY <2>1, <2>2 DEF Conns
<1>2. conns[f.conn] \in ConnT
  BY <1>1 DEF IInv, DataTyped
<1>3. f.walk \in Seq(Lists) /\ f.walk # <<>> /\ f.obj \in Objects
  BY DEF FrameT, Sane, Placed
<1>4. Head(f.walk) \in Lists
  BY <1>3, HeadTailProperties
<1> QED BY <1>1, <1>2, <1>3, <1>4 DEF ConnT, Receiver, IInv, DataTyped, Walked

LEMMA FollowingIs ==
  ASSUME IInv, NEW o \in Objects, NEW l \in Lists, NEW c
  PROVE  /\ Following(lists[o][l], c) \in 0..made
         /\ Following(lists[o][l], c) \in 0..MaxConns
         /\ Following(lists[o][l], c) # NoConn => conns[Following(lists[o][l], c)].sender = o
         /\ First(lists[o][l]) \in 0..made
         /\ First(lists[o][l]) # NoConn => conns[First(lists[o][l])].sender = o
<1>1. lists[o][l] \in Seq(Conns) /\ made \in Nat /\ made <= MaxConns
  BY SignalSlotAssumption DEF IInv, DataTyped
<1>2. /\ Following(lists[o][l], c) \in Members(lists[o][l]) \cup {NoConn}
      /\ First(lists[o][l]) \in Members(lists[o][l]) \cup {NoConn}
      /\ Conns \cup {NoConn} \subseteq 0..MaxConns /\ Members(lists[o][l]) \subseteq Conns
  BY <1>1, EndsAre
<1>3. \A d \in Members(lists[o][l]) : d \in 1..made /\ conns[d].sender = o
  BY DEF IInv, Standing, Sent
<1>4. NoConn \in 0..made /\ \A d \in 1..made : d \in 0..made
  BY <1>1 DEF NoConn
<1> QED BY <1>2, <1>3, <1>4

\* The object at the other end of the connection.
LEMMA MeetIs ==
  ASSUME IInv, NEW t \in Threads, Meets(t)
  PROVE  /\ stack[t] # <<>> /\ Top(t).relock = "no" /\ Holds(Top(t)) = {Own(Top(t))}
         /\ Top(t).at \in {"disconnecting", "receivers", "senders"}
         /\ Current(Top(t)) \in 1..made /\ Other(Top(t)) \in Objects
         /\ MutexOf[Other(Top(t))] \in Mutexes /\ MutexOf[Other(Top(t))] \in Nat
         /\ Top(t).at # "senders" =>
              Current(Top(t)) = Top(t).conn /\ Other(Top(t)) = Receiver(Top(t))
         /\ Top(t).at = "senders" =>
              /\ Current(Top(t)) \in Members(senders[Top(t).obj])
              /\ Current(Top(t)) = First(senders[Top(t).obj]) /\ senders[Top(t).obj] # <<>>
              /\ Other(Top(t)) = conns[Current(Top(t))].sender
<1>1. /\ stack[t] # <<>> /\ Top(t).relock = "no" /\ Current(Top(t)) # NoConn
      /\ Top(t).at \in {"disconnecting", "receivers", "senders"} /\ Other(Top(t)) # Nobody
  BY DEF Meets
<1>2. PICK f : f = Top(t)
  OBVIOUS
<1>3. f \in FrameT /\ Sane(t, f) /\ f.obj \in Objects
  BY <1>1, <1>2, TopIs, OwnIs
<1>4. CASE f.at # "senders"
  <2>1. Current(f) = f.conn /\ Other(f) = Receiver(f)
    BY <1>4 DEF Current, Other, Receiver
  <2>2. f.conn \in 1..made /\ Receiver(f) \in SomeObject
    BY <2>1, <1>1, <1>2, <1>3, ConnIs
  <2>3. Current(f) \in 1..made /\ Other(f) \in Objects
    BY <2>1, <2>2, <1>1, <1>2 DEF SomeObject
  <2> QED BY <2>1, <2>3, <1>1, <1>2, <1>4, SignalSlotAssumption DEF Holds, Mutexes
<1>5. CASE f.at = "senders"
  <2>1. Current(f) = First(senders[f.obj]) /\ Other(f) = conns[Current(f)].sender
    BY <1>5 DEF Current, Other
  <2>2. senders[f.obj] \in Seq(Conns)
    BY <1>3 DEF IInv, DataTyped
  <2>3. Current(f) \in Members(senders[f.obj]) /\ senders[f.obj] # <<>>
    <3>1. Current(f) # NoConn
      BY <1>1, <1>2
    <3> QED BY <2>1, <2>2, <3>1, EndsAre DEF Members, First
  <2>4. Current(f) \in 1..made
    BY <2>3, <1>3 DEF IInv, Standing, Received
  <2>5. Other(f) \in Objects
    BY <2>1, <2>4 DEF IInv, Standing, Joined
  <2> QED BY <2>1, <2>3, <2>4, <2>5, <1>1, <1>2, <1>5, SignalSlotAssumption DEF Holds, Mutexes
<1> QED BY <1>4, <1>5

LEMMA LockLowerStep == ASSUME IInv, NEW t \in Threads, LockLower(t) PROVE IInv'
<1>1. PICK f : f = Top(t)
  OBVIOUS
<1>2. /\ stack[t] # <<>> /\ f.op \in {"connect", "disconnect"} /\ f.at = "lock"
      /\ Free(Lower(f)) /\ Take(t, Lower(f)) /\ UNCHANGED <<connVars, objectVars>>
  BY <1>1 DEF LockLower, At
<1>3. f \in FrameT /\ Sane(t, f)
  BY <1>1, <1>2, TopIs
<1>4. PICK g : g = [f EXCEPT !.at = "lockUpper"]
  OBVIOUS
<1>5. /\ g \in FrameT /\ SameNeeds(f, g) /\ g.at = "lockUpper" /\ g.obj = f.obj /\ g.peer = f.peer
      /\ g.op = f.op /\ g.walk = f.walk /\ g.conn = f.conn /\ g.relock = f.relock
  BY <1>3, <1>4 DEF FrameT, SameNeeds, Points
<1>6. Sane(t, g)
  BY <1>2, <1>3, <1>5 DEF Sane, Placed, Relocks, AtConn, Destroys, Connects
<1>7. Holds(f) = {} /\ Holds(g) = {Lower(f)} /\ f.peer \in Objects
  BY <1>2, <1>3, <1>5 DEF Holds, Lower, Sane, Placed
<1>8. OwnerTyped' /\ LockedTo(t, Holds(g))
  BY <1>1, <1>2, <1>3, <1>7, BothAre, LocksTaken
<1>9. Put(t, g)
  BY <1>1, <1>4 DEF LockLower
<1>10. UNCHANGED <<connVars, object>> /\ currentSender' \in [Objects -> 0..MaxDepth]
  BY <1>2 DEF objectVars, IInv, DataTyped
<1> QED BY <1>1, <1>2, <1>5, <1>6, <1>8, <1>9, <1>10, QuietStep

LEMMA RelockStep == ASSUME IInv, NEW t \in Threads, Relock(t) PROVE IInv'
<1>1. PICK f : f = Top(t)
  OBVIOUS
<1>2. /\ Meets(t) /\ MutexOf[Other(f)] < Own(f) /\ Release(Own(f))
      /\ UNCHANGED <<connVars, objectVars>>
  BY <1>1 DEF Relock, MustRelock
<1>3. /\ stack[t] # <<>> /\ f.relock = "no" /\ Holds(f) = {Own(f)}
      /\ f.at \in {"disconnecting", "receivers", "senders"}
      /\ Current(f) \in 1..made /\ Other(f) \in Objects /\ MutexOf[Other(f)] \in Nat
      /\ f.at # "senders" => Current(f) = f.conn /\ Other(f) = Receiver(f)
  BY <1>1, <1>2, MeetIs
<1>4. f \in FrameT /\ Sane(t, f)
  BY <1>1, <1>3, TopIs
<1>5. PICK g : g = [f EXCEPT !.relock = "other", !.mutex = MutexOf[Other(f)], !.from = Other(f)]
  OBVIOUS
<1>6. /\ g \in FrameT /\ SameNeeds(f, g) /\ g.at = f.at /\ g.obj = f.obj /\ g.peer = f.peer
      /\ g.op = f.op /\ g.walk = f.walk /\ g.conn = f.conn /\ g.relock = "other" /\ g.seen = f.seen
      /\ g.mutex = MutexOf[Other(f)] /\ g.from = Other(f)
  BY <1>3, <1>4, <1>5 DEF FrameT, SameNeeds, SomeObject
<1>7. Sane(t, g)
  <2>1. Relocks(g)
    <3>1. f.at # "senders" => f.conn # NoConn /\ conns[f.conn].receiver = Other(f)
      BY <1>3 DEF NoConn, Receiver
    <3> QED BY <3>1, <1>2, <1>3, <1>6 DEF Relocks, Own
  <2>2. Placed(g) /\ AtConn(g) /\ Connects(g)
    BY <1>4, <1>6 DEF Sane, Placed, AtConn, Connects
  <2>3. Destroys(t, g)
    BY <1>4, <1>6 DEF Sane, Destroys, Walked
  <2> QED BY <2>1, <2>2, <2>3 DEF Sane
<1>8. OwnerTyped' /\ LockedTo(t, Holds(g))
  <2>1. Holds(g) = {}
    BY <1>3, <1>6 DEF Holds
  <2> QED BY <2>1, <1>1, <1>2, <1>3, LocksReleased
<1>9. Put(t, g)
  BY <1>1, <1>5 DEF Relock
<1>10. UNCHANGED <<connVars, object>> /\ currentSender' \in [Objects -> 0..MaxDepth]
  BY <1>2 DEF objectVars, IInv, DataTyped
<1> QED BY <1>1, <1>3, <1>6, <1>7, <1>8, <1>9, <1>10, QuietStep

LEMMA RelockOtherStep == ASSUME IInv, NEW t \in Threads, RelockOther(t) PROVE IInv'
<1>1. PICK f : f = Top(t)
  OBVIOUS
<1>2. /\ stack[t] # <<>> /\ f.relock = "other" /\ Free(f.mutex) /\ Take(t, f.mutex)
      /\ UNCHANGED <<connVars, objectVars>>
  BY <1>1 DEF RelockOther
<1>3. f \in FrameT /\ Sane(t, f)
  BY <1>1, <1>2, TopIs
<1>4. PICK g : g = [f EXCEPT !.relock = "own"]
  OBVIOUS
<1>5. /\ g \in FrameT /\ SameNeeds(f, g) /\ g.at = f.at /\ g.obj = f.obj /\ g.peer = f.peer
      /\ g.op = f.op /\ g.walk = f.walk /\ g.conn = f.conn /\ g.relock = "own" /\ g.seen = f.seen
      /\ g.mutex = f.mutex /\ g.from = f.from
  BY <1>3, <1>4 DEF FrameT, SameNeeds
<1>6. /\ f.at \in {"disconnecting", "receivers", "senders"} /\ f.from \in Objects
      /\ f.mutex = MutexOf[f.from]
  BY <1>2, <1>3 DEF Sane, Relocks
<1>7. Sane(t, g)
  <2>1. Relocks(g) /\ Placed(g) /\ AtConn(g) /\ Connects(g)
    BY <1>2, <1>3, <1>5 DEF Sane, Placed, AtConn, Connects, Relocks, Own
  <2>2. Destroys(t, g)
    BY <1>3, <1>5 DEF Sane, Destroys, Walked
  <2> QED BY <2>1, <2>2 DEF Sane
<1>8. OwnerTyped' /\ LockedTo(t, Holds(g))
  <2>1. Holds(f) = {} /\ Holds(g) = {f.mutex} /\ f.mutex \in Mutexes
    BY <1>2, <1>5, <1>6 DEF Holds, Mutexes
  <2> QED BY <2>1, <1>1, <1>2, LocksTaken
<1>9. Put(t, g)
  BY <1>1, <1>4 DEF RelockOther
<1>10. UNCHANGED <<connVars, object>> /\ currentSender' \in [Objects -> 0..MaxDepth]
  BY <1>2 DEF objectVars, IInv, DataTyped
<1> QED BY <1>1, <1>2, <1>5, <1>7, <1>8, <1>9, <1>10, QuietStep

\* An emission may be anywhere in its lists.
LEMMA EmitSane ==
  ASSUME NEW t \in Threads, NEW g \in FrameT, g.op = "emit",
         g.at \in {"lockOne", "walk", "unlocked", "posted", "called"}, g.relock = "no",
         g.conn <= made, g.conn # NoConn => g.walk # <<>>,
         g.at \notin {"lockOne", "walk"} => g.conn # NoConn
  PROVE  Sane(t, g)
BY DEF Sane, Placed, Relocks, AtConn, Destroys, Connects

LEMMA EmitIs ==
  ASSUME IInv, NEW t \in Threads, NEW point, At(t, "emit", point)
  PROVE  /\ stack[t] # <<>> /\ Top(t) \in FrameT /\ Sane(t, Top(t)) /\ Top(t).op = "emit"
         /\ Top(t).at = point /\ Top(t).relock = "no" /\ Top(t).obj \in Objects
         /\ Top(t).conn <= made /\ Top(t).walk \in Seq(Lists)
         /\ Holds(Top(t)) = IF point = "walk" THEN {Own(Top(t))} ELSE {}
<1>1. PICK f : f = Top(t)
  OBVIOUS
<1>2. stack[t] # <<>> /\ f.op = "emit" /\ f.at = point
  BY <1>1 DEF At
<1>3. f \in FrameT /\ Sane(t, f)
  BY <1>1, <1>2, TopIs
<1>4. f.relock = "no" /\ f.conn <= made /\ f.at # "lockUpper" /\ f.at \notin {"disconnecting", "receivers", "senders"}
  BY <1>2, <1>3 DEF Sane, Relocks, AtConn, Placed
<1>5. Holds(f) = IF point = "walk" THEN {Own(f)} ELSE {}
  BY <1>2, <1>4 DEF Holds
<1>6. f.obj \in Objects /\ f.walk \in Seq(Lists)
  BY <1>3 DEF FrameT
<1> QED BY <1>1, <1>2, <1>3, <1>4, <1>5, <1>6

LEMMA AdvanceIs ==
  ASSUME IInv, NEW f \in FrameT, f.walk # <<>>
  PROVE  LET g == Advance(f)
         IN  /\ g \in FrameT /\ SameNeeds(f, g) /\ g.at = "walk" /\ g.walk = f.walk
             /\ g.relock = f.relock /\ g.conn <= made /\ g.op = f.op /\ g.obj = f.obj
             /\ g.conn \in 0..made
<1>1. f.obj \in Objects /\ Head(f.walk) \in Lists
  <2>1. f.walk \in Seq(Lists) /\ f.obj \in Objects
    BY DEF FrameT
  <2> QED BY <2>1, HeadTailProperties
<1>2. PICK c : c = IF f.conn = f.last THEN NoConn ELSE Following(lists[f.obj][Head(f.walk)], f.conn)
  OBVIOUS
<1>3. c \in 0..made /\ c \in 0..MaxConns /\ c <= made
  <2>1. NoConn \in 0..made /\ NoConn \in 0..MaxConns
    BY SignalSlotAssumption DEF NoConn, IInv, DataTyped
  <2>2. c \in 0..made /\ c \in 0..MaxConns
    BY <1>1, <1>2, <2>1, FollowingIs
  <2> QED BY <2>2
<1>4. Advance(f) = [f EXCEPT !.at = "walk", !.conn = c]
  BY <1>2 DEF Advance
<1>5. "walk" \in Points
  BY DEF Points
<1> QED BY <1>3, <1>4, <1>5 DEF FrameT, SameNeeds

LEMMA VisitedIs ==
  ASSUME NEW f \in FrameT
  PROVE  LET g == Visited(f)
         IN  /\ g \in FrameT /\ SameNeeds(f, g) /\ g.at = f.at /\ g.walk = f.walk
             /\ g.relock = f.relock /\ g.conn = f.conn /\ g.op = f.op /\ g.obj = f.obj
             /\ g.peer = f.peer
BY DEF FrameT, SameNeeds, Visited

\* A visit that keeps the mutex.
LEMMA VisitStep ==
  ASSUME IInv, NEW t \in Threads, Visits(t), NEW h, h \in {Top(t), Visited(Top(t))},
         Put(t, Advance(h)), UNCHANGED <<connVars, objectVars, owner>>
  PROVE  IInv'
<1>1. PICK f : f = Top(t)
  OBVIOUS
<1>2. /\ stack[t] # <<>> /\ f \in FrameT /\ Sane(t, f) /\ f.op = "emit" /\ f.at = "walk"
      /\ f.relock = "no" /\ f.conn # NoConn /\ f.walk # <<>> /\ Holds(f) = {Own(f)}
  <2>1. At(t, "emit", "walk") /\ f.conn # NoConn
    BY <1>1 DEF Visits
  <2> QED BY <2>1, <1>1, EmitIs DEF Sane, Placed
<1>3. /\ h \in FrameT /\ SameNeeds(f, h) /\ h.walk # <<>> /\ h.relock = "no" /\ h.op = "emit"
      /\ h.obj = f.obj
  <2>1. SameNeeds(f, f)
    BY DEF SameNeeds
  <2> QED BY <2>1, <1>1, <1>2, VisitedIs
<1>4. PICK g : g = Advance(h)
  OBVIOUS
<1>5. /\ g \in FrameT /\ SameNeeds(h, g) /\ g.at = "walk" /\ g.walk = h.walk
      /\ g.relock = "no" /\ g.conn <= made /\ g.op = "emit" /\ g.obj = f.obj
  BY <1>3, <1>4, AdvanceIs
<1>6. SameNeeds(f, g)
  BY <1>2, <1>3, <1>5 DEF SameNeeds
<1>7. Sane(t, g)
  BY <1>3, <1>5, EmitSane
<1>8. OwnerTyped' /\ LockedTo(t, Holds(g))
  <2>1. Holds(g) = Holds(f)
    BY <1>2, <1>5 DEF Holds, Own
  <2> QED BY <2>1, <1>1, <1>2, LocksSame
<1>9. UNCHANGED <<connVars, object>> /\ currentSender' \in [Objects -> 0..MaxDepth]
  BY DEF objectVars, IInv, DataTyped
<1> QED BY <1>1, <1>2, <1>4, <1>5, <1>6, <1>7, <1>8, <1>9, QuietStep

LEMMA EmitSkipsStep == ASSUME IInv, NEW t \in Threads, EmitSkips(t) PROVE IInv'
BY VisitStep DEF EmitSkips

LEMMA EmitQueuedStep == ASSUME IInv, NEW t \in Threads, EmitQueued(t) PROVE IInv'
BY VisitStep DEF EmitQueued

LEMMA EmitBlockingStep == ASSUME IInv, NEW t \in Threads, EmitBlocking(t) PROVE IInv'
<1>1. PICK f : f = Top(t)
  OBVIOUS
<1>2. At(t, "emit", "walk") /\ f.conn # NoConn /\ Release(Own(f)) /\ UNCHANGED <<connVars, objectVars>>
  BY <1>1 DEF EmitBlocking, Visits
<1>3. /\ stack[t] # <<>> /\ f \in FrameT /\ Sane(t, f) /\ f.op = "emit" /\ f.relock = "no"
      /\ f.conn <= made /\ f.walk # <<>> /\ Holds(f) = {Own(f)}
  BY <1>1, <1>2, EmitIs DEF Sane, Placed
<1>4. Receiver(f) \in SomeObject
  BY <1>2, <1>3, ConnIs
<1>5. PICK v : v = Visited(f)
  OBVIOUS
<1>6. PICK g : g = [v EXCEPT !.at = "unlocked", !.peer = Receiver(f)]
  OBVIOUS
<1>7. /\ v \in FrameT /\ SameNeeds(f, v) /\ v.walk = f.walk /\ v.relock = "no" /\ v.conn = f.conn
      /\ v.op = "emit" /\ v.obj = f.obj
  BY <1>3, <1>5, VisitedIs
<1>8. /\ g \in FrameT /\ g.walk = f.walk /\ g.relock = "no" /\ g.conn = f.conn /\ g.op = "emit"
      /\ g.obj = f.obj /\ g.at = "unlocked"
  BY <1>4, <1>6, <1>7 DEF FrameT, Points
<1>9. SameNeeds(f, g) /\ Sane(t, g)
  BY <1>2, <1>3, <1>8, EmitSane DEF SameNeeds
<1>10. OwnerTyped' /\ LockedTo(t, Holds(g))
  <2>1. Holds(g) = {}
    BY <1>8 DEF Holds
  <2> QED BY <2>1, <1>1, <1>2, <1>3, LocksReleased
<1>11. Put(t, g)
  BY <1>1, <1>5, <1>6 DEF EmitBlocking
<1>12. UNCHANGED <<connVars, object>> /\ currentSender' \in [Objects -> 0..MaxDepth]
  BY <1>2 DEF objectVars, IInv, DataTyped
<1> QED BY <1>1, <1>3, <1>8, <1>9, <1>10, <1>11, <1>12, QuietStep

LEMMA BlockingPostsStep == ASSUME IInv, NEW t \in Threads, BlockingPosts(t) PROVE IInv'
<1>1. PICK f : f = Top(t)
  OBVIOUS
<1>2. At(t, "emit", "unlocked") /\ UNCHANGED <<connVars, objectVars, owner>>
  BY DEF BlockingPosts
<1>3. /\ stack[t] # <<>> /\ f \in FrameT /\ Sane(t, f) /\ f.op = "emit" /\ f.relock = "no"
      /\ f.conn <= made /\ f.conn # NoConn /\ f.walk # <<>> /\ Holds(f) = {}
  BY <1>1, <1>2, EmitIs DEF Sane, Placed
<1>4. PICK g : g = [f EXCEPT !.at = "posted"]
  OBVIOUS
<1>5. /\ g \in FrameT /\ g.walk = f.walk /\ g.relock = "no" /\ g.conn = f.conn /\ g.op = "emit"
      /\ g.obj = f.obj /\ g.at = "posted"
  BY <1>3, <1>4 DEF FrameT, Points
<1>6. SameNeeds(f, g) /\ Sane(t, g)
  BY <1>3, <1>5, EmitSane DEF SameNeeds
<1>7. OwnerTyped' /\ LockedTo(t, Holds(g))
  <2>1. Holds(g) = {}
    BY <1>5 DEF Holds
  <2> QED BY <2>1, <1>1, <1>2, <1>3, LocksSame
<1>8. Put(t, g)
  BY <1>1, <1>4 DEF BlockingPosts
<1>9. UNCHANGED <<connVars, object>> /\ currentSender' \in [Objects -> 0..MaxDepth]
  BY <1>2 DEF objectVars, IInv, DataTyped
<1> QED BY <1>1, <1>3, <1>5, <1>6, <1>7, <1>8, <1>9, QuietStep

LEMMA BlockingReturnsStep == ASSUME IInv, NEW t \in Threads, BlockingReturns(t) PROVE IInv'
<1>1. PICK f : f = Top(t)
  OBVIOUS
<1>2. /\ At(t, "emit", "posted") /\ Free(Own(f)) /\ Take(t, Own(f)) /\ Put(t, Advance(f))
      /\ UNCHANGED <<connVars, objectVars>>
  BY <1>1 DEF BlockingReturns
<1>3. /\ stack[t] # <<>> /\ f \in FrameT /\ Sane(t, f) /\ f.op = "emit" /\ f.relock = "no"
      /\ f.walk # <<>> /\ Holds(f) = {}
  BY <1>1, <1>2, EmitIs DEF Sane, Placed
<1>4. PICK g : g = Advance(f)
  OBVIOUS
<1>5. /\ g \in FrameT /\ SameNeeds(f, g) /\ g.at = "walk" /\ g.walk = f.walk
      /\ g.relock = "no" /\ g.conn <= made /\ g.op = "emit" /\ g.obj = f.obj
  BY <1>3, <1>4, AdvanceIs
<1>6. Sane(t, g)
  BY <1>3, <1>5, EmitSane
<1>7. OwnerTyped' /\ LockedTo(t, Holds(g))
  <2>1. Holds(g) = {Own(f)} /\ Own(f) \in Mutexes
    BY <1>3, <1>5, OwnIs DEF Holds, Own
  <2> QED BY <2>1, <1>1, <1>2, <1>3, LocksTaken
<1>8. UNCHANGED <<connVars, object>> /\ currentSender' \in [Objects -> 0..MaxDepth]
  BY <1>2 DEF objectVars, IInv, DataTyped
<1> QED BY <1>1, <1>2, <1>3, <1>4, <1>5, <1>6, <1>7, <1>8, QuietStep

LEMMA EmitDirectStep == ASSUME IInv, NEW t \in Threads, EmitDirect(t) PROVE IInv'
<1>1. PICK f : f = Top(t)
  OBVIOUS
<1>2. PICK r : r = Receiver(f)
  OBVIOUS
<1>3. /\ At(t, "emit", "walk") /\ f.conn # NoConn /\ Release(Own(f))
      /\ Activation(t, f) = "direct"
      /\ currentSender' = [currentSender EXCEPT ![r] = Len(stack[t])]
      /\ UNCHANGED <<connVars, object>>
  BY <1>1, <1>2 DEF EmitDirect, Visits
<1>4. /\ stack[t] # <<>> /\ f \in FrameT /\ Sane(t, f) /\ f.op = "emit" /\ f.relock = "no"
      /\ f.conn <= made /\ f.walk # <<>> /\ Holds(f) = {Own(f)}
  BY <1>1, <1>3, EmitIs DEF Sane, Placed
<1>5. r \in SomeObject
  BY <1>2, <1>3, <1>4, ConnIs
<1>6. PICK v : v = Visited(f)
  OBVIOUS
<1>7. PICK p : p = currentSender[r]
  OBVIOUS
<1>8. r \in Objects /\ p \in 0..MaxDepth
  <2>1. r # Nobody
    BY <1>2, <1>3 DEF Activation
  <2>2. r \in Objects
    BY <2>1, <1>5 DEF SomeObject
  <2> QED BY <2>2, <1>7 DEF IInv, DataTyped
<1>9. PICK g : g = [v EXCEPT !.at = "called", !.peer = r, !.ref = 1, !.prev = p]
  OBVIOUS
<1>10. /\ v \in FrameT /\ v.walk = f.walk /\ v.relock = "no" /\ v.conn = f.conn
       /\ v.op = "emit" /\ v.obj = f.obj
  BY <1>4, <1>6, VisitedIs
<1>11. /\ g \in FrameT /\ g.walk = f.walk /\ g.relock = "no" /\ g.conn = f.conn /\ g.op = "emit"
       /\ g.obj = f.obj /\ g.at = "called"
  BY <1>5, <1>8, <1>9, <1>10 DEF FrameT, Points
<1>12. SameNeeds(f, g) /\ Sane(t, g)
  BY <1>3, <1>4, <1>11, EmitSane DEF SameNeeds
<1>13. OwnerTyped' /\ LockedTo(t, Holds(g))
  <2>1. Holds(g) = {}
    BY <1>11 DEF Holds
  <2> QED BY <2>1, <1>1, <1>3, <1>4, LocksReleased
<1>14. Put(t, g)
  BY <1>1, <1>2, <1>6, <1>7, <1>9 DEF EmitDirect
<1>15. currentSender' \in [Objects -> 0..MaxDepth]
  <2>1. Len(stack[t]) \in 0..MaxDepth
    BY StackIs DEF IInv
  <2> QED BY <2>1, <1>3 DEF IInv, DataTyped
<1> QED BY <1>1, <1>3, <1>4, <1>11, <1>12, <1>13, <1>14, <1>15, QuietStep

LEMMA SameLength ==
  ASSUME NEW S, NEW q \in Seq(S), NEW n \in Nat, DOMAIN q = 1..n
  PROVE  Len(q) = n
<1>1. Len(q) \in Nat /\ 1..Len(q) = 1..n
  BY LenProperties
<1>2. (Len(q) >= 1 => Len(q) \in 1..Len(q)) /\ (n >= 1 => n \in 1..n)
  BY <1>1
<1>3. (Len(q) >= 1 => Len(q) \in 1..n) /\ (n >= 1 => n \in 1..Len(q))
  BY <1>1, <1>2
<1> QED BY <1>1, <1>3

\* The calls below have at most another ref.
LEMMA SlotStack ==
  ASSUME IInv, NEW t \in Threads, SlotReturns(t), Returned(Top(t)) \in FrameT
  PROVE  \E s \in Seq(FrameT) :
           /\ Len(s) = Len(stack[t]) /\ s[Len(s)] = Returned(Top(t))
           /\ stack' = [stack EXCEPT ![t] = s]
           /\ \A i \in 1..(Len(s) - 1) : Alike(stack[t][i], s[i])
           /\ \A i \in 1..(Len(s) - 1) :
                s[i] = IF i = Top(t).prev THEN [stack[t][i] EXCEPT !.ref = Top(t).ref]
                       ELSE stack[t][i]
<1>0. PICK f : f = Top(t)
  OBVIOUS
<1>1. PICK g \in FrameT : g = Returned(f)
  BY <1>0
<1>2. PICK q : q = stack[t]
  OBVIOUS
<1>4. PICK below : below = [i \in 1..(Len(q) - 1) |->
                              IF i = f.prev THEN [q[i] EXCEPT !.ref = f.ref] ELSE q[i]]
  OBVIOUS
<1>5. stack' = [stack EXCEPT ![t] = Append(below, g)] /\ At(t, "emit", "called")
  BY <1>0, <1>1, <1>2, <1>4 DEF SlotReturns, Returned
<1>6. stack[t] # <<>> /\ f \in FrameT
  BY <1>0, <1>5, EmitIs
<1>9. /\ Len(q) \in Nat /\ Len(q) >= 1 /\ DOMAIN q = 1..Len(q) /\ f.ref \in {0, 1}
      /\ \A i \in DOMAIN q : q[i] \in FrameT
  <2>1. f.ref \in {0, 1}
    BY <1>6 DEF FrameT
  <2>2. Len(stack[t]) \in 0..MaxDepth /\ Len(stack[t]) \in DOMAIN stack[t]
    BY <1>6, StackIs DEF IInv
  <2>3. Len(stack[t]) \in Nat /\ Len(stack[t]) >= 1
    BY <2>2, StackIs, SignalSlotAssumption DEF IInv
  <2> QED BY <1>2, <2>1, <2>3, StackIs DEF IInv
<1>10. ASSUME NEW i \in 1..(Len(q) - 1)
       PROVE  below[i] \in FrameT /\ Alike(q[i], below[i])
  <2>1. i \in DOMAIN q /\ q[i] \in FrameT
    BY <1>9
  <2>2. below[i] = IF i = f.prev THEN [q[i] EXCEPT !.ref = f.ref] ELSE q[i]
    BY <1>4
  <2>3. Alike(q[i], below[i])
    <3>1. CASE i = f.prev
      BY <3>1, <2>2, <1>9 DEF Alike
    <3>2. CASE i # f.prev
      BY <3>2, <2>1, <2>2, AlikeSame
    <3> QED BY <3>1, <3>2
  <2> QED BY <2>1, <2>3, AlikeIs
<1>11. below \in Seq(FrameT) /\ Len(below) = Len(q) - 1
  <2>1. PICK n : n = Len(q) - 1
    OBVIOUS
  <2>2. n \in Nat
    BY <2>1, <1>9
  <2>3. below \in [1..n -> FrameT] /\ DOMAIN below = 1..n
    BY <2>1, <1>4, <1>10
  <2> HIDE DEF FrameT
  <2>4. below \in Seq(FrameT)
    BY <2>2, <2>3, SeqDef
  <2> QED BY <2>1, <2>2, <2>3, <2>4, SameLength
<1>12. PICK s : s = Append(below, g)
  OBVIOUS
<1>13. /\ s \in Seq(FrameT) /\ Len(s) = Len(below) + 1 /\ s[Len(below) + 1] = g
       /\ \A i \in 1..Len(below) : s[i] = below[i]
  <2> HIDE DEF FrameT
  <2> QED BY <1>1, <1>11, <1>12, AppendProperties
<1>14. /\ Len(s) = Len(stack[t]) /\ s[Len(s)] = g
       /\ \A i \in 1..(Len(s) - 1) : /\ Alike(stack[t][i], s[i])
                                     /\ s[i] = IF i = f.prev THEN [stack[t][i] EXCEPT !.ref = f.ref]
                                               ELSE stack[t][i]
  <2>1. Len(s) = Len(q) /\ s[Len(s)] = g /\ Len(s) - 1 = Len(below)
    BY <1>9, <1>11, <1>13
  <2>2. ASSUME NEW i \in 1..(Len(s) - 1)
        PROVE  /\ Alike(q[i], s[i])
               /\ s[i] = IF i = f.prev THEN [q[i] EXCEPT !.ref = f.ref] ELSE q[i]
    <3>1. i \in 1..(Len(q) - 1) /\ i \in 1..Len(below)
      BY <2>1
    <3>2. below[i] = IF i = f.prev THEN [q[i] EXCEPT !.ref = f.ref] ELSE q[i]
      BY <3>1, <1>4
    <3> QED BY <3>1, <3>2, <1>10, <1>13
  <2> QED BY <2>1, <2>2, <1>2
<1> QED BY <1>0, <1>1, <1>5, <1>12, <1>13, <1>14

LEMMA SlotReturnsStep == ASSUME IInv, NEW t \in Threads, SlotReturns(t) PROVE IInv'
<1>1. PICK f : f = Top(t)
  OBVIOUS
<1>3. PICK g : g = Returned(f)
  OBVIOUS
<1>5. /\ At(t, "emit", "called") /\ Free(Own(f)) /\ Take(t, Own(f))
      /\ currentSender' = IF f.ref = 1 THEN [currentSender EXCEPT ![f.peer] = f.prev]
                          ELSE currentSender
      /\ UNCHANGED <<connVars, object>>
  BY <1>1 DEF SlotReturns
<1>6. /\ stack[t] # <<>> /\ f \in FrameT /\ Sane(t, f) /\ f.op = "emit" /\ f.relock = "no"
      /\ f.walk # <<>> /\ f.obj \in Objects /\ Holds(f) = {}
  BY <1>1, <1>5, EmitIs DEF Sane, Placed
<1>7. /\ g \in FrameT /\ SameNeeds(f, g) /\ g.at = "walk" /\ g.relock = "no" /\ g.conn <= made
      /\ (g.conn # NoConn => g.walk # <<>>) /\ g.op = "emit" /\ g.obj = f.obj
  <2>1. CASE Orphaned(f)
    <3>1. NoConn <= made /\ NoConn \in 0..MaxConns
      BY SignalSlotAssumption DEF NoConn, IInv, DataTyped
    <3>2. <<>> \in Seq(Lists)
      BY EmptySeq
    <3>3. g = [f EXCEPT !.at = "walk", !.conn = NoConn, !.walk = <<>>]
      BY <2>1, <1>3 DEF Returned
    <3> QED BY <3>1, <3>2, <3>3, <1>6 DEF FrameT, SameNeeds, Points
  <2>2. CASE ~Orphaned(f)
    BY <2>2, <1>3, <1>6, AdvanceIs DEF Returned
  <2> QED BY <2>1, <2>2
<1>8. Sane(t, g)'
  <2>1. Sane(t, g)
    BY <1>7, EmitSane
  <2> QED BY <2>1, <1>5, SaneSame
<1>9. PICK s \in Seq(FrameT) :
        /\ Len(s) = Len(stack[t]) /\ s[Len(s)] = g /\ stack' = [stack EXCEPT ![t] = s]
        /\ \A i \in 1..(Len(s) - 1) : Alike(stack[t][i], s[i])
  BY <1>1, <1>3, <1>7, SlotStack
<1>10. OwnerTyped' /\ LockedTo(t, Holds(g))
  <2>1. Holds(g) = {Own(f)} /\ Own(f) \in Mutexes
    BY <1>6, <1>7, OwnIs DEF Holds, Own
  <2> QED BY <2>1, <1>1, <1>5, <1>6, LocksTaken
<1>11. DataTyped' /\ Standing' /\ Gentle(t) /\ made' = made
  <2>1. f.prev \in 0..MaxDepth
    BY <1>6 DEF FrameT
  <2>2. currentSender' \in [Objects -> 0..MaxDepth]
    BY <2>1, <1>5 DEF IInv, DataTyped
  <2> QED BY <2>2, <1>5, DataSame
<1> QED BY <1>1, <1>6, <1>7, <1>8, <1>9, <1>10, <1>11, TopStep

-----------------------------------------------------------------------------
(* The steps that only count the users of a vector or mark it dirty.       *)

LEMMA CountsKeep ==
  ASSUME IInv, NEW t \in Threads, CountsOnly
  PROVE  DataTyped' /\ Standing' /\ Gentle(t) /\ made' = made
<1>1. DataTyped'
  BY DEF IInv, DataTyped, CountsOnly, objectVars
<1>2. Standing'
  BY DEF IInv, Standing, Sent, Received, Joined, CountsOnly, objectVars
<1>3. Gentle(t)
  <2>1. made <= made'
    BY SignalSlotAssumption DEF IInv, DataTyped, CountsOnly
  <2> QED BY <2>1 DEF Gentle, CountsOnly, objectVars
<1> QED BY <1>1, <1>2, <1>3 DEF CountsOnly

LEMMA CountsStep ==
  ASSUME IInv, NEW t \in Threads, stack[t] # <<>>, CountsOnly,
         NEW g \in FrameT, Put(t, g), SameNeeds(Top(t), g), Sane(t, g),
         OwnerTyped', LockedTo(t, Holds(g))
  PROVE  IInv'
<1>1. Placed(g)' /\ Connects(g)' /\ AtConn(g)'
  BY DEF Sane, Placed, Connects, AtConn, CountsOnly, objectVars
<1>2. Relocks(g)'
  BY DEF Sane, Relocks, Own, CountsOnly
<1>3. Destroys(t, g)'
  BY DEF Sane, Destroys, Walked, CountsOnly, objectVars
<1>4. Sane(t, g)'
  BY <1>1, <1>2, <1>3 DEF Sane
<1> QED BY <1>4, CountsKeep, PutStep

\* A walk begins with a list of the object.
LEMMA BegunAt ==
  ASSUME IInv, NEW f \in FrameT, NEW w \in Seq(Lists)
  PROVE  LET g == Begin(f, w)
         IN  /\ g.conn \in 0..made
             /\ g.conn # NoConn => g.walk # <<>> /\ conns[g.conn].sender = f.obj
<1>1. PICK g : g = Begin(f, w)
  OBVIOUS
<1>2. /\ g \in FrameT /\ SameNeeds(f, g) /\ g.walk = w /\ g.conn = First(Walked(g))
      /\ (w = <<>> => g.conn = NoConn)
  BY <1>1, BegunIs DEF IInv
<1>3. CASE w = <<>>
  <2>1. NoConn \in 0..made
    BY SignalSlotAssumption DEF NoConn, IInv, DataTyped
  <2> QED BY <2>1, <1>1, <1>2, <1>3
<1>4. CASE w # <<>>
  <2>1. Head(w) \in Lists /\ f.obj \in Objects
    BY <1>4, HeadTailProperties DEF FrameT
  <2>2. g.conn = First(lists[f.obj][Head(w)])
    BY <1>2, <1>4 DEF Walked, SameNeeds
  <2> QED BY <2>1, <2>2, <1>1, <1>2, <1>4, FollowingIs
<1> QED BY <1>3, <1>4

LEMMA EmitListStep == ASSUME IInv, NEW t \in Threads, EmitList(t) PROVE IInv'
<1>1. PICK f : f = Top(t)
  OBVIOUS
<1>2. /\ At(t, "emit", "walk") /\ f.walk # <<>> /\ Put(t, Begin(f, Tail(f.walk)))
      /\ UNCHANGED <<connVars, objectVars, owner>>
  BY <1>1 DEF EmitList
<1>3. /\ stack[t] # <<>> /\ f \in FrameT /\ Sane(t, f) /\ f.op = "emit" /\ f.at = "walk"
      /\ f.relock = "no" /\ f.walk \in Seq(Lists) /\ Holds(f) = {Own(f)}
  BY <1>1, <1>2, EmitIs
<1>4. Tail(f.walk) \in Seq(Lists)
  BY <1>2, <1>3, HeadTailProperties
<1>5. PICK g : g = Begin(f, Tail(f.walk))
  OBVIOUS
<1>6. /\ g \in FrameT /\ SameNeeds(f, g) /\ g.at = "walk" /\ g.relock = "no"
      /\ g.conn \in 0..made /\ (g.conn # NoConn => g.walk # <<>>)
  BY <1>3, <1>4, <1>5, BegunIs, BegunAt DEF IInv
<1>7. Sane(t, g)
  <2>1. g.op = "emit" /\ g.conn <= made
    BY <1>3, <1>6, SignalSlotAssumption DEF SameNeeds, IInv, DataTyped
  <2> QED BY <2>1, <1>6, EmitSane
<1>8. OwnerTyped' /\ LockedTo(t, Holds(g))
  <2>1. Holds(g) = Holds(f)
    BY <1>3, <1>6 DEF Holds, Own, SameNeeds
  <2> QED BY <2>1, <1>1, <1>2, <1>3, LocksSame
<1>9. UNCHANGED <<connVars, object>> /\ currentSender' \in [Objects -> 0..MaxDepth]
  BY <1>2 DEF objectVars, IInv, DataTyped
<1> QED BY <1>1, <1>2, <1>3, <1>5, <1>6, <1>7, <1>8, <1>9, QuietStep

\* An emission, or a disconnection from everybody, that finds no vector.
LEMMA NothingStep ==
  ASSUME IInv, NEW t \in Threads, stack[t] # <<>>, Top(t).at = "lockOne", Pop(t),
         UNCHANGED <<connVars, objectVars, owner>>
  PROVE  IInv'
<1>1. Holds(Top(t)) = {}
  BY DEF Holds
<1>2. OwnerTyped' /\ LockedTo(t, {})
  BY <1>1, LocksSame
<1>3. UNCHANGED <<connVars, object>> /\ currentSender' \in [Objects -> 0..MaxDepth]
  BY DEF objectVars, IInv, DataTyped
<1>4. DataTyped' /\ Standing' /\ Gentle(t) /\ made' = made
  BY <1>3, DataSame
<1> QED BY <1>2, <1>4, PopStep

LEMMA EmitBeginsStep == ASSUME IInv, NEW t \in Threads, EmitBegins(t) PROVE IInv'
<1>1. PICK f : f = Top(t)
  OBVIOUS
<1>2. /\ At(t, "emit", "lockOne") /\ Free(Own(f))
      /\ UNCHANGED <<made, conns, lists, vector, dirty, senders, objectVars>>
  BY <1>1 DEF EmitBegins
<1>3. /\ stack[t] # <<>> /\ f \in FrameT /\ Sane(t, f) /\ f.op = "emit" /\ f.at = "lockOne"
      /\ f.relock = "no" /\ f.walk \in Seq(Lists) /\ f.obj \in Objects /\ Holds(f) = {}
  BY <1>1, <1>2, EmitIs
<1>4. CASE vector[f.obj] = "none"
  <2>1. Pop(t) /\ UNCHANGED <<connVars, objectVars, owner>>
    BY <1>1, <1>2, <1>4 DEF EmitBegins, connVars
  <2> QED BY <2>1, <1>1, <1>3, NothingStep
<1>5. CASE vector[f.obj] # "none"
  <2>1. PICK h : h = Begin(f, f.walk)
    OBVIOUS
  <2>2. PICK g : g = [h EXCEPT !.at = "walk", !.began = made]
    OBVIOUS
  <2>3. Take(t, Own(f)) /\ Uses(f.obj) /\ Put(t, g)
    BY <1>1, <1>5, <2>1, <2>2 DEF EmitBegins
  <2>4. /\ h \in FrameT /\ SameNeeds(f, h) /\ h.relock = "no"
        /\ h.conn \in 0..made /\ (h.conn # NoConn => h.walk # <<>>)
    BY <1>3, <2>1, BegunIs, BegunAt DEF IInv
  <2>5. /\ g \in FrameT /\ SameNeeds(f, g) /\ g.at = "walk" /\ g.relock = "no" /\ g.op = "emit"
        /\ g.conn = h.conn /\ g.walk = h.walk /\ g.obj = f.obj
    <3>1. made \in 0..MaxConns /\ h.op = "emit" /\ h.obj = f.obj
      BY <2>4, <1>3 DEF IInv, DataTyped, SameNeeds
    <3> QED BY <3>1, <2>2, <2>4, <1>3 DEF FrameT, SameNeeds, Points
  <2>6. Sane(t, g)
    <3>1. g.conn <= made
      BY <2>4, <2>5, SignalSlotAssumption DEF IInv, DataTyped
    <3> QED BY <3>1, <2>4, <2>5, EmitSane
  <2>7. OwnerTyped' /\ LockedTo(t, Holds(g))
    <3>1. Holds(g) = {Own(f)} /\ Own(f) \in Mutexes
      BY <1>3, <2>5, OwnIs DEF Holds, Own
    <3> QED BY <3>1, <1>1, <1>2, <1>3, <2>3, LocksTaken
  <2>8. CountsOnly
    BY <1>2, <1>3, <2>3 DEF CountsOnly, Uses, IInv, DataTyped
  <2> QED BY <1>1, <1>3, <2>3, <2>5, <2>6, <2>7, <2>8, CountsStep
<1> QED BY <1>4, <1>5

-----------------------------------------------------------------------------
(* Disconnection from everybody.                                           *)

LEMMA DisconnectIs ==
  ASSUME IInv, NEW t \in Threads, NEW point, At(t, "disconnect", point)
  PROVE  /\ stack[t] # <<>> /\ Top(t) \in FrameT /\ Sane(t, Top(t)) /\ Top(t).op = "disconnect"
         /\ Top(t).at = point /\ Top(t).obj \in Objects /\ Top(t).walk \in Seq(Lists)
         /\ point # "disconnecting" => Top(t).relock = "no"
<1>1. PICK f : f = Top(t)
  OBVIOUS
<1>2. stack[t] # <<>> /\ f.op = "disconnect" /\ f.at = point
  BY <1>1 DEF At
<1>3. f \in FrameT /\ Sane(t, f)
  BY <1>1, <1>2, TopIs
<1>4. point # "disconnecting" => f.relock = "no"
  BY <1>2, <1>3 DEF Sane, Relocks, Placed
<1>5. f.obj \in Objects /\ f.walk \in Seq(Lists)
  BY <1>3 DEF FrameT
<1> QED BY <1>1, <1>2, <1>3, <1>4, <1>5

\* It may be at any connection of the object.
LEMMA DisconnectSane ==
  ASSUME NEW t \in Threads, NEW g \in FrameT, g.op = "disconnect", g.at = "disconnecting",
         g.relock = "no", g.conn <= made,
         g.conn # NoConn => g.walk # <<>> /\ conns[g.conn].sender = g.obj
  PROVE  Sane(t, g)
BY DEF Sane, Placed, Relocks, AtConn, Destroys, Connects

LEMMA DisconnectBeginsStep == ASSUME IInv, NEW t \in Threads, DisconnectBegins(t) PROVE IInv'
<1>1. PICK f : f = Top(t)
  OBVIOUS
<1>2. /\ At(t, "disconnect", "lockOne") /\ Free(Own(f))
      /\ UNCHANGED <<made, conns, lists, vector, dirty, senders, objectVars>>
  BY <1>1 DEF DisconnectBegins
<1>3. /\ stack[t] # <<>> /\ f \in FrameT /\ Sane(t, f) /\ f.op = "disconnect" /\ f.at = "lockOne"
      /\ f.relock = "no" /\ f.walk \in Seq(Lists) /\ f.obj \in Objects /\ Holds(f) = {}
  BY <1>1, <1>2, DisconnectIs DEF Holds
<1>4. CASE vector[f.obj] = "none"
  <2>1. Pop(t) /\ UNCHANGED <<connVars, objectVars, owner>>
    BY <1>1, <1>2, <1>4 DEF DisconnectBegins, connVars
  <2> QED BY <2>1, <1>1, <1>3, NothingStep
<1>5. CASE vector[f.obj] # "none"
  <2>1. PICK h : h = Begin(f, f.walk)
    OBVIOUS
  <2>2. PICK g : g = [h EXCEPT !.at = "disconnecting"]
    OBVIOUS
  <2>3. Take(t, Own(f)) /\ Uses(f.obj) /\ Put(t, g)
    BY <1>1, <1>5, <2>1, <2>2 DEF DisconnectBegins
  <2>4. /\ h \in FrameT /\ SameNeeds(f, h) /\ h.relock = "no" /\ h.conn \in 0..made
        /\ h.conn # NoConn => h.walk # <<>> /\ conns[h.conn].sender = f.obj
    BY <1>3, <2>1, BegunIs, BegunAt DEF IInv
  <2>5. /\ g \in FrameT /\ SameNeeds(f, g) /\ g.at = "disconnecting" /\ g.relock = "no"
        /\ g.op = "disconnect" /\ g.conn = h.conn /\ g.walk = h.walk /\ g.obj = f.obj
    <3>1. h.op = "disconnect" /\ h.obj = f.obj
      BY <2>4, <1>3 DEF SameNeeds
    <3>2. /\ g \in FrameT /\ g.at = "disconnecting" /\ g.relock = "no" /\ g.peer = h.peer
          /\ g.op = h.op /\ g.conn = h.conn /\ g.walk = h.walk /\ g.obj = h.obj
      BY <2>2, <2>4 DEF FrameT, Points
    <3> QED BY <3>1, <3>2, <2>4 DEF SameNeeds
  <2>6. Sane(t, g)
    <3>1. g.conn <= made
      BY <2>4, <2>5, SignalSlotAssumption DEF IInv, DataTyped
    <3> QED BY <3>1, <2>4, <2>5, DisconnectSane
  <2>7. OwnerTyped' /\ LockedTo(t, Holds(g))
    <3>1. Holds(g) = {Own(f)} /\ Own(f) \in Mutexes
      BY <1>3, <2>5, OwnIs DEF Holds, Own
    <3> QED BY <3>1, <1>1, <1>2, <1>3, <2>3, LocksTaken
  <2>8. CountsOnly
    BY <1>2, <1>3, <2>3 DEF CountsOnly, Uses, IInv, DataTyped
  <2> QED BY <1>1, <1>3, <2>3, <2>5, <2>6, <2>7, <2>8, CountsStep
<1> QED BY <1>4, <1>5

LEMMA DisconnectSkipsStep == ASSUME IInv, NEW t \in Threads, DisconnectSkips(t) PROVE IInv'
<1>1. PICK f : f = Top(t)
  OBVIOUS
<1>2. PICK c : c = Following(lists[f.obj][Head(f.walk)], f.conn)
  OBVIOUS
<1>3. PICK g : g = [f EXCEPT !.conn = c]
  OBVIOUS
<1>4. /\ At(t, "disconnect", "disconnecting") /\ f.relock = "no" /\ f.conn # NoConn
      /\ Put(t, g) /\ UNCHANGED <<connVars, objectVars, owner>>
  BY <1>1, <1>2, <1>3 DEF DisconnectSkips
<1>5. /\ stack[t] # <<>> /\ f \in FrameT /\ Sane(t, f) /\ f.op = "disconnect"
      /\ f.at = "disconnecting" /\ f.obj \in Objects /\ f.walk # <<>> /\ Head(f.walk) \in Lists
  BY <1>1, <1>4, DisconnectIs, ConnIs
<1>6. /\ c \in 0..made /\ c \in 0..MaxConns
      /\ c # NoConn => conns[c].sender = f.obj
  BY <1>2, <1>5, FollowingIs
<1>7. /\ g \in FrameT /\ SameNeeds(f, g) /\ g.at = "disconnecting" /\ g.relock = "no"
      /\ g.op = "disconnect" /\ g.conn = c /\ g.walk = f.walk /\ g.obj = f.obj
  BY <1>3, <1>4, <1>5, <1>6 DEF FrameT, SameNeeds
<1>8. Sane(t, g)
  <2>1. g.conn <= made
    BY <1>6, <1>7, SignalSlotAssumption DEF IInv, DataTyped
  <2> QED BY <2>1, <1>5, <1>6, <1>7, DisconnectSane
<1>9. OwnerTyped' /\ LockedTo(t, Holds(g))
  <2>1. Holds(g) = Holds(f)
    BY <1>4, <1>5, <1>7 DEF Holds, Own
  <2> QED BY <2>1, <1>1, <1>4, <1>5, LocksSame
<1>10. UNCHANGED <<connVars, object>> /\ currentSender' \in [Objects -> 0..MaxDepth]
  BY <1>4 DEF objectVars, IInv, DataTyped
<1> QED BY <1>1, <1>4, <1>5, <1>7, <1>8, <1>9, <1>10, QuietStep

LEMMA DisconnectListStep == ASSUME IInv, NEW t \in Threads, DisconnectList(t) PROVE IInv'
<1>1. PICK f : f = Top(t)
  OBVIOUS
<1>2. PICK g : g = Begin(f, Tail(f.walk))
  OBVIOUS
<1>3. /\ At(t, "disconnect", "disconnecting") /\ f.conn = NoConn /\ f.walk # <<>>
      /\ dirty' = [dirty EXCEPT ![f.obj] = @ \/ f.seen # {}]
      /\ Put(t, g) /\ UNCHANGED <<made, conns, lists, vector, inUse, senders, objectVars, owner>>
  BY <1>1, <1>2 DEF DisconnectList
<1>4. /\ stack[t] # <<>> /\ f \in FrameT /\ Sane(t, f) /\ f.op = "disconnect"
      /\ f.at = "disconnecting" /\ f.obj \in Objects /\ f.walk \in Seq(Lists)
  BY <1>1, <1>3, DisconnectIs
<1>5. f.relock = "no"
  BY <1>3, <1>4 DEF Sane, Relocks
<1>6. Tail(f.walk) \in Seq(Lists)
  BY <1>3, <1>4, HeadTailProperties
<1>7. /\ g \in FrameT /\ SameNeeds(f, g) /\ g.at = "disconnecting" /\ g.relock = "no"
      /\ g.conn \in 0..made /\ (g.conn # NoConn => g.walk # <<>> /\ conns[g.conn].sender = f.obj)
      /\ g.obj = f.obj /\ g.op = "disconnect"
  BY <1>2, <1>4, <1>5, <1>6, BegunIs, BegunAt DEF IInv, SameNeeds
<1>8. Sane(t, g)
  <2>1. g.conn <= made
    BY <1>7, SignalSlotAssumption DEF IInv, DataTyped
  <2> QED BY <2>1, <1>7, DisconnectSane
<1>9. OwnerTyped' /\ LockedTo(t, Holds(g))
  <2>1. Holds(g) = Holds(f)
    BY <1>4, <1>5, <1>7 DEF Holds, Own
  <2> QED BY <2>1, <1>1, <1>3, <1>4, LocksSame
<1>10. CountsOnly
  <2>1. dirty' \in [Objects -> BOOLEAN]
    <3>1. dirty \in [Objects -> BOOLEAN] /\ (dirty[f.obj] \/ f.seen # {}) \in BOOLEAN
      BY DEF IInv, DataTyped
    <3> QED BY <3>1, <1>3
  <2> QED BY <2>1, <1>3 DEF CountsOnly, IInv, DataTyped
<1> QED BY <1>1, <1>3, <1>4, <1>7, <1>8, <1>9, <1>10, CountsStep

-----------------------------------------------------------------------------
(* The calls.                                                              *)

LEMMA CallIs ==
  ASSUME NEW op \in Ops, NEW point \in Points, NEW o \in Objects, NEW peer \in SomeObject,
         NEW walk \in Seq(Lists)
  PROVE  LET g == Call(op, point, o, peer, walk)
         IN  /\ g \in FrameT /\ g.op = op /\ g.at = point /\ g.obj = o /\ g.peer = peer
             /\ g.walk = walk /\ g.conn = NoConn /\ g.relock = "no" /\ g.seen = {}
<1>1. /\ NoConn \in 0..MaxConns /\ 0 \in 0..MaxDepth /\ 0 \in 0..MaxConns /\ Nobody \in SomeObject
      /\ 0 \in Nat /\ "auto" \in AllKinds
  BY SignalSlotAssumption DEF NoConn, SomeObject, AllKinds
<1> QED BY <1>1 DEF Call, FrameT

\* Nobody else destroys an object that may be used.
LEMMA UsableIs ==
  ASSUME IInv, NEW t \in Threads, NEW o \in Objects, Usable(t, o),
         NEW u \in Threads \ {t}, NEW f \in Frames(u)
  PROVE  ~(f.op = "destroy" /\ f.obj = o)
<1>1. PICK i \in DOMAIN stack[u] : stack[u][i] = f
  BY DEF Frames, Members
<1>2. Sane(u, f)
  BY <1>1 DEF IInv, Called
<1> QED BY <1>2 DEF Sane, Destroys, Usable

LEMMA EmitStep == ASSUME IInv, NEW t \in Threads, NEW o \in Objects, Emit(t, o) PROVE IInv'
<1>0. PICK w : w = <<"sig", "all">>
  OBVIOUS
<1>1. PICK g : g = Call("emit", "lockOne", o, Nobody, w)
  OBVIOUS
<1>2. MayCall(t) /\ Usable(t, o) /\ Push(t, g) /\ UNCHANGED <<connVars, objectVars, owner>>
  BY <1>0, <1>1 DEF Emit
<1>3. /\ g \in FrameT /\ g.op = "emit" /\ g.at = "lockOne" /\ g.obj = o /\ g.conn = NoConn
      /\ g.relock = "no"
  <2>1. "emit" \in Ops /\ "lockOne" \in Points /\ Nobody \in SomeObject
        /\ w \in Seq(Lists)
    BY <1>0 DEF Ops, Points, SomeObject, Lists
  <2> QED BY <1>1, <2>1, CallIs
<1>4. UNCHANGED <<connVars, object>> /\ currentSender' \in [Objects -> 0..MaxDepth]
  BY <1>2 DEF objectVars, IInv, DataTyped
<1>5. DataTyped' /\ Standing' /\ Gentle(t) /\ made' = made
  BY <1>4, DataSame
<1>6. Sane(t, g)'
  <2>1. g.conn <= made
    BY <1>3, SignalSlotAssumption DEF NoConn, IInv, DataTyped
  <2>2. Sane(t, g)
    BY <1>3, <2>1, EmitSane
  <2> QED BY <2>2, <1>4, SaneSame
<1>7. Alone(t, g) /\ Holds(g) = {}
  BY <1>3 DEF Alone, Holds
<1>8. Spared(t, g)
  BY <1>2, <1>3, UsableIs DEF Spared, Needs
<1>9. \A i \in DOMAIN stack[t] : object'[stack[t][i].obj] = object[stack[t][i].obj]
  BY <1>4
<1> QED BY <1>2, <1>3, <1>5, <1>6, <1>7, <1>8, <1>9, PushStep

LEMMA DisconnectStep ==
  ASSUME IInv, NEW t \in Threads, NEW o \in Objects, NEW r \in SomeObject, NEW w \in Seq(Lists),
         Disconnect(t, o, r, w)
  PROVE  IInv'
<1>0. PICK point : point = IF r = Nobody THEN "lockOne" ELSE "lock"
  OBVIOUS
<1>1. PICK g : g = Call("disconnect", point, o, r, w)
  OBVIOUS
<1>2. /\ MayCall(t) /\ Usable(t, o) /\ (r # Nobody => Usable(t, r)) /\ Push(t, g)
      /\ UNCHANGED <<connVars, objectVars, owner>>
  BY <1>0, <1>1 DEF Disconnect
<1>3. /\ g \in FrameT /\ g.op = "disconnect" /\ g.at = point /\ g.obj = o /\ g.peer = r
      /\ g.conn = NoConn /\ g.relock = "no"
  <2>1. "disconnect" \in Ops /\ point \in Points
    BY <1>0 DEF Ops, Points
  <2> QED BY <1>1, <2>1, CallIs
<1>4. UNCHANGED <<connVars, object>> /\ currentSender' \in [Objects -> 0..MaxDepth]
  BY <1>2 DEF objectVars, IInv, DataTyped
<1>5. DataTyped' /\ Standing' /\ Gentle(t) /\ made' = made
  BY <1>4, DataSame
<1>6. Sane(t, g)'
  <2>1. g.conn <= made
    BY <1>3, SignalSlotAssumption DEF NoConn, IInv, DataTyped
  <2>2. point \in {"lock", "lockOne"} /\ (point = "lock" => r \in Objects)
    BY <1>0 DEF SomeObject
  <2>3. Sane(t, g)
    BY <1>3, <2>1, <2>2 DEF Sane, Placed, Relocks, AtConn, Destroys, Connects
  <2> QED BY <2>3, <1>4, SaneSame
<1>7. Alone(t, g) /\ Holds(g) = {}
  BY <1>0, <1>3 DEF Alone, Holds
<1>8. Spared(t, g)
  <2>1. \A x \in Objects : Needs(g, x) => Usable(t, x)
    BY <1>2, <1>3, SignalSlotAssumption DEF Needs
  <2> QED BY <2>1, UsableIs DEF Spared
<1>9. \A i \in DOMAIN stack[t] : object'[stack[t][i].obj] = object[stack[t][i].obj]
  BY <1>4
<1> QED BY <1>2, <1>3, <1>5, <1>6, <1>7, <1>8, <1>9, PushStep

LEMMA ConnectStep ==
  ASSUME IInv, NEW t \in Threads, NEW o \in Objects, NEW r \in Objects, NEW l \in Lists,
         NEW k \in AllKinds, NEW unique \in BOOLEAN, Connect(t, o, r, l, k, unique)
  PROVE  IInv'
<1>0. PICK h : h = Call("connect", "lock", o, r, <<l>>)
  OBVIOUS
<1>1. PICK g : g = [h EXCEPT !.kind = k, !.unique = unique]
  OBVIOUS
<1>2. /\ MayCall(t) /\ Usable(t, o) /\ Usable(t, r) /\ Push(t, g)
      /\ made + Cardinality({u \in Threads : Connecting(u)}) < MaxConns
      /\ UNCHANGED <<connVars, objectVars, owner>>
  BY <1>0, <1>1 DEF Connect
<1>3. /\ g \in FrameT /\ g.op = "connect" /\ g.at = "lock" /\ g.obj = o /\ g.peer = r
      /\ g.conn = NoConn /\ g.relock = "no" /\ g.walk # <<>>
  <2>1. /\ "connect" \in Ops /\ "lock" \in Points /\ r \in SomeObject
        /\ <<l>> \in Seq(Lists) /\ <<l>> # <<>>
    BY DEF Ops, Points, SomeObject
  <2>2. /\ h \in FrameT /\ h.op = "connect" /\ h.at = "lock" /\ h.obj = o /\ h.peer = r
        /\ h.conn = NoConn /\ h.relock = "no" /\ h.walk = <<l>>
    BY <1>0, <2>1, CallIs
  <2> QED BY <1>1, <2>1, <2>2 DEF FrameT
<1>4. UNCHANGED <<connVars, object>> /\ currentSender' \in [Objects -> 0..MaxDepth]
  BY <1>2 DEF objectVars, IInv, DataTyped
<1>5. DataTyped' /\ Standing' /\ Gentle(t) /\ made' = made
  BY <1>4, DataSame
<1>6. Sane(t, g)'
  <2>1. g.conn <= made
    BY <1>3, SignalSlotAssumption DEF NoConn, IInv, DataTyped
  <2>2. object[o] # "gone" /\ object[r] # "gone"
    BY <1>2 DEF Usable
  <2>3. Sane(t, g)
    BY <1>3, <2>1, <2>2 DEF Sane, Placed, Relocks, AtConn, Destroys, Connects
  <2> QED BY <2>3, <1>4, SaneSame
<1>7. Alone(t, g) /\ Holds(g) = {}
  BY <1>3 DEF Alone, Holds
<1>8. Spared(t, g)
  <2>1. \A x \in Objects : Needs(g, x) => Usable(t, x)
    BY <1>2, <1>3 DEF Needs
  <2> QED BY <2>1, UsableIs DEF Spared
<1>9. \A i \in DOMAIN stack[t] : object'[stack[t][i].obj] = object[stack[t][i].obj]
  BY <1>4
<1>10. CallsTyped' /\ Called' /\ Locked'
  BY <1>2, <1>3, <1>5, <1>6, <1>7, <1>8, <1>9, PushStep
<1>11. Room'
  <2> DEFINE C == {u \in Threads : Connecting(u)}
             D == {u \in Threads : Connecting(u)'}
  <2>1. D \subseteq C \cup {t}
    <3> SUFFICES ASSUME NEW u \in Threads, u # t, Connecting(u)' PROVE Connecting(u)
      OBVIOUS
    <3>1. stack'[u] = stack[u]
      BY <1>2 DEF Push, IInv, CallsTyped
    <3> QED BY <3>1 DEF Connecting, Frames
  <2>2. IsFiniteSet(C)
    BY SignalSlotAssumption, FS_Subset
  <2>3. made + Cardinality(C) < MaxConns /\ made \in Int /\ MaxConns \in Int
    BY <1>2, SignalSlotAssumption DEF IInv, DataTyped
  <2> HIDE DEF C, D
  <2>4. /\ IsFiniteSet(C \cup {t}) /\ Cardinality(C) \in Nat
        /\ Cardinality(C \cup {t}) = Cardinality(C) \/ Cardinality(C \cup {t}) = Cardinality(C) + 1
    BY <2>2, FS_AddElement, FS_CardinalityType
  <2>5. IsFiniteSet(D) /\ Cardinality(D) <= Cardinality(C \cup {t}) /\ Cardinality(D) \in Nat
    BY <2>1, <2>4, FS_Subset, FS_CardinalityType
  <2>6. made' + Cardinality(D) <= MaxConns
    BY <1>5, <2>3, <2>4, <2>5
  <2> QED BY <2>6 DEF Room, D
<1> QED BY <1>5, <1>10, <1>11 DEF IInv

LEMMA DestroyStep == ASSUME IInv, NEW t \in Threads, NEW o \in Objects, Destroy(t, o) PROVE IInv'
<1>0. PICK w : w = <<"all", "sig">>
  OBVIOUS
<1>1. PICK g : g = Call("destroy", "destroyed", o, Nobody, w)
  OBVIOUS
<1>2. /\ MayCall(t) /\ Home[o] = t /\ object[o] = "alive" /\ Push(t, g)
      /\ \A u \in Threads \ {t} : \A f \in Frames(u) : ~Needs(f, o)
      /\ object' = [object EXCEPT ![o] = "dying"]
      /\ UNCHANGED <<connVars, currentSender, owner>>
  BY <1>0, <1>1 DEF Destroy
<1>3. /\ g \in FrameT /\ g.op = "destroy" /\ g.at = "destroyed" /\ g.obj = o /\ g.conn = NoConn
      /\ g.relock = "no" /\ g.seen = {} /\ g.walk = w
  <2>1. "destroy" \in Ops /\ "destroyed" \in Points /\ Nobody \in SomeObject
        /\ w \in Seq(Lists)
    BY <1>0 DEF Ops, Points, SomeObject, Lists
  <2> QED BY <1>1, <2>1, CallIs
<1>4. /\ object \in [Objects -> {"alive", "dying", "gone"}]
      /\ object' \in [Objects -> {"alive", "dying", "gone"}] /\ object'[o] = "dying"
      /\ \A x \in Objects : object[x] # "alive" => object'[x] = object[x]
      /\ \A x \in Objects : object'[x] = "gone" <=> object[x] = "gone"
      /\ \A x \in Objects : object'[x] = object[x] \/ (object[x] = "alive" /\ object'[x] = "dying")
  BY <1>2 DEF IInv, DataTyped
<1>5. DataTyped'
  BY <1>2, <1>4 DEF IInv, DataTyped, connVars
<1>6. Standing'
  <2>1. Sent' /\ Received'
    BY <1>2 DEF IInv, Standing, Sent, Received, connVars
  <2>2. Joined'
    <3> SUFFICES ASSUME NEW c \in 1..made
                 PROVE  /\ conns[c].sender \in Objects
                        /\ conns[c].receiver # Nobody =>
                             /\ ~conns[c].freed
                             /\ object'[conns[c].sender] # "gone"
                             /\ object'[conns[c].receiver] # "gone"
      BY <1>2 DEF Joined, connVars
    <3>1. c \in Conns
      BY SignalSlotAssumption DEF Conns, IInv, DataTyped
    <3>2. conns[c].receiver \in SomeObject
      BY <3>1 DEF IInv, DataTyped, ConnT
    <3> QED BY <3>2, <1>4 DEF IInv, Standing, Joined, SomeObject
  <2> QED BY <2>1, <2>2 DEF Standing
<1>7. Gentle(t)
  <2>1. made <= made'
    BY <1>2, SignalSlotAssumption DEF IInv, DataTyped, connVars
  <2> QED BY <2>1, <1>2, <1>4 DEF Gentle, connVars
<1>8. Sane(t, g)'
  <2>1. Placed(g)' /\ Relocks(g)' /\ Connects(g)'
    BY <1>3 DEF Placed, Relocks, Connects
  <2>2. AtConn(g)'
    BY <1>3, <1>5, SignalSlotAssumption DEF AtConn, NoConn, DataTyped
  <2>3. Destroys(t, g)'
    <3>1. Members(g.walk) = Lists
      BY <1>0, <1>3 DEF Members, Lists
    <3> QED BY <3>1, <1>2, <1>3, <1>4 DEF Destroys
  <2> QED BY <2>1, <2>2, <2>3 DEF Sane
<1>9. Alone(t, g) /\ Holds(g) = {}
  BY <1>2, <1>3 DEF Alone, Holds
<1>10. Spared(t, g)
  <2>1. Usable(t, o)
    BY <1>2 DEF Usable
  <2> QED BY <2>1, <1>3, UsableIs DEF Spared, Needs
<1>11. ASSUME NEW i \in DOMAIN stack[t], stack[t][i].op = "destroy"
       PROVE  /\ stack[t][i].obj # g.obj
              /\ object'[stack[t][i].obj] = object[stack[t][i].obj]
  <2>1. stack[t][i].obj \in Objects /\ object[stack[t][i].obj] = "dying"
    <3>1. stack[t][i] \in FrameT /\ Sane(t, stack[t][i])
      BY StackIs DEF IInv, Called
    <3> QED BY <3>1, <1>11 DEF FrameT, Sane, Destroys
  <2> QED BY <2>1, <1>2, <1>3, <1>4
<1>12. made' = made /\ UNCHANGED owner /\ g.op # "connect"
  BY <1>2, <1>3 DEF connVars
<1> QED BY <1>2, <1>3, <1>5, <1>6, <1>7, <1>8, <1>9, <1>10, <1>11, <1>12, PushStep

-----------------------------------------------------------------------------
(* The steps that break or free connections.                               *)

LEMMA NothingBreaks ==
  ASSUME IInv, UNCHANGED <<made, conns, lists, senders, object>>
  PROVE  Breaks({}, {})
BY DEF Breaks, IInv, Standing, Sent, Received

LEMMA UnuseIs ==
  ASSUME IInv, NEW o \in Objects, Unuse(o)
  PROVE  /\ inUse' \in [Objects -> Int]
         /\ vector' \in [Objects -> {"none", "used", "orphaned", "deleted"}]
         /\ \A x \in Objects : x # o => vector'[x] = vector[x]
         /\ \A x \in Objects : vector[x] = "used" => vector'[x] = "used"
<1>1. inUse' = [inUse EXCEPT ![o] = inUse[o] - 1] /\ inUse[o] - 1 \in Int
  BY DEF Unuse, IInv, DataTyped
<1>2. PICK v : v = IF vector[o] = "orphaned" /\ inUse'[o] = 0 THEN "deleted" ELSE vector[o]
  OBVIOUS
<1>3. vector' = [vector EXCEPT ![o] = v]
  BY <1>2 DEF Unuse
<1>4. v \in {"none", "used", "orphaned", "deleted"} /\ (vector[o] = "used" => v = "used")
  BY <1>2 DEF IInv, DataTyped
<1> QED BY <1>1, <1>3, <1>4 DEF IInv, DataTyped

\* Broken connections of an object leave its lists and are freed.
LEMMA FreedIs ==
  ASSUME IInv, NEW o \in Objects, NEW F \in SUBSET (1..made),
         \A c \in F : conns[c].sender = o /\ conns[c].receiver = Nobody,
         conns' = WithFreed(conns, F), lists' = [lists EXCEPT ![o] = Without(@, F)],
         UNCHANGED <<made, senders, object>>
  PROVE  /\ conns' \in [Conns -> ConnT] /\ lists' \in [Objects -> [Lists -> Seq(Conns)]]
         /\ \A x \in Objects : x # o => lists'[x] = lists[x]
         /\ Breaks({}, F)
<1>1. made \in Nat /\ \A c \in 1..made : c \in Conns
  BY SignalSlotAssumption DEF Conns, IInv, DataTyped
<1>2. ASSUME NEW c \in Conns
      PROVE  /\ conns'[c] \in ConnT /\ conns'[c].sender = conns[c].sender
             /\ conns'[c].receiver = conns[c].receiver /\ conns'[c].list = conns[c].list
             /\ conns'[c].freed <=> conns[c].freed \/ c \in F
  <2>1. conns[c] \in ConnT /\ conns'[c] = [conns[c] EXCEPT !.freed = @ \/ c \in F]
    BY DEF IInv, DataTyped, WithFreed
  <2>2. (conns[c].freed \/ c \in F) \in BOOLEAN
    OBVIOUS
  <2> QED BY <2>1, <2>2 DEF ConnT
<1>3. conns' \in [Conns -> ConnT]
  <2>1. DOMAIN conns' = Conns /\ conns' = [c \in Conns |-> conns'[c]]
    BY DEF WithFreed
  <2> QED BY <2>1, <1>2
<1>4. ASSUME NEW l \in Lists
      PROVE  /\ lists[o][l] \in Seq(Conns) /\ lists'[o][l] = Minus(lists[o][l], F)
             /\ lists'[o][l] \in Seq(Conns) /\ Rising(lists'[o][l])
             /\ Members(lists'[o][l]) = Members(lists[o][l]) \ F
  <2>1. lists[o][l] \in Seq(Conns) /\ lists'[o][l] = Minus(lists[o][l], F) /\ Rising(lists[o][l])
    BY DEF IInv, DataTyped, Without, Standing, Sent
  <2> QED BY <2>1, MinusIs
<1>5. lists' \in [Objects -> [Lists -> Seq(Conns)]]
  <2>1. Without(lists[o], F) \in [Lists -> Seq(Conns)]
    <3>1. Without(lists[o], F) = lists'[o]
      BY DEF IInv, DataTyped
    <3>2. DOMAIN Without(lists[o], F) = Lists /\ Without(lists[o], F) = [l \in Lists |-> Without(lists[o], F)[l]]
      BY DEF Without
    <3> QED BY <3>1, <3>2, <1>4
  <2> QED BY <2>1 DEF IInv, DataTyped
<1>6. \A x \in Objects : x # o => lists'[x] = lists[x]
  BY DEF IInv, DataTyped
<1>7. ASSUME NEW x \in Objects, NEW l \in Lists
      PROVE  Rising(lists'[x][l]) /\ Members(lists'[x][l]) = Members(lists[x][l]) \ F
  <2>1. CASE x = o
    BY <2>1, <1>4
  <2>2. CASE x # o
    <3>1. lists'[x][l] = lists[x][l] /\ Rising(lists[x][l])
      BY <2>2, <1>6 DEF IInv, Standing, Sent
    <3>2. \A c \in Members(lists[x][l]) : conns[c].sender = x
      BY DEF IInv, Standing, Sent
    <3>3. \A c \in F : c \notin Members(lists[x][l])
      BY <2>2, <3>2
    <3>4. Members(lists[x][l]) = Members(lists[x][l]) \ F
      BY <3>3
    <3> QED BY <3>1, <3>4
  <2> QED BY <2>1, <2>2
<1>8. Breaks({}, F)
  <2>1. \A c \in 1..made :
          /\ conns'[c].sender = conns[c].sender /\ conns'[c].list = conns[c].list
          /\ conns'[c].receiver = conns[c].receiver
          /\ conns'[c].freed <=> conns[c].freed \/ c \in F
    BY <1>1, <1>2
  <2>2. \A x \in Objects : Once(senders'[x]) /\ Members(senders'[x]) = Members(senders[x]) \ {}
    BY DEF IInv, Standing, Received
  <2> QED BY <2>1, <2>2, <1>7 DEF Breaks
<1> QED BY <1>3, <1>5, <1>6, <1>8

\* A connection leaves the list of its receiver.
LEMMA LeavesIs ==
  ASSUME IInv, NEW c \in 1..made, LeaveSenders(c)
  PROVE  /\ senders' \in [Objects -> Seq(Conns)]
         /\ \A o \in Objects :
              Once(senders'[o]) /\ Members(senders'[o]) = Members(senders[o]) \ {c}
<1>1. ASSUME NEW o \in Objects
      PROVE  /\ senders'[o] \in Seq(Conns) /\ Once(senders'[o])
             /\ Members(senders'[o]) = Members(senders[o]) \ {c}
  <2>1. /\ senders[o] \in Seq(Conns) /\ Once(senders[o])
        /\ Members(senders[o]) = {d \in 1..made : conns[d].receiver = o}
    BY DEF IInv, DataTyped, Standing, Received
  <2>2. CASE o = conns[c].receiver
    <3>1. senders'[o] = Minus(senders[o], {c})
      BY <2>2 DEF LeaveSenders
    <3> QED BY <3>1, <2>1, MinusIs
  <2>3. CASE o # conns[c].receiver
    <3>1. senders'[o] = senders[o] /\ c \notin Members(senders[o])
      BY <2>1, <2>3 DEF LeaveSenders
    <3> QED BY <3>1, <2>1
  <2> QED BY <2>2, <2>3
<1>2. senders' = [o \in Objects |-> senders'[o]]
  BY DEF LeaveSenders
<1> QED BY <1>1, <1>2

LEMMA EmitEndsStep == ASSUME IInv, NEW t \in Threads, EmitEnds(t) PROVE IInv'
<1>1. PICK f : f = Top(t)
  OBVIOUS
<1>2. PICK F : F = IF Orphaned(f) THEN {} ELSE Broken(f.obj, inUse[f.obj] - 1)
  OBVIOUS
<1>3. /\ At(t, "emit", "walk") /\ f.walk = <<>> /\ Unuse(f.obj) /\ Release(Own(f)) /\ Pop(t)
      /\ conns' = WithFreed(conns, F) /\ lists' = [lists EXCEPT ![f.obj] = Without(@, F)]
      /\ UNCHANGED <<made, senders, objectVars>>
  BY <1>1, <1>2 DEF EmitEnds
<1>4. /\ stack[t] # <<>> /\ f \in FrameT /\ f.obj \in Objects /\ Holds(f) = {Own(f)}
  BY <1>1, <1>3, EmitIs
<1>5. F \in SUBSET (1..made) /\ \A c \in F : conns[c].sender = f.obj /\ conns[c].receiver = Nobody
  BY <1>2 DEF Broken
<1>6. /\ conns' \in [Conns -> ConnT] /\ lists' \in [Objects -> [Lists -> Seq(Conns)]]
      /\ \A x \in Objects : x # f.obj => lists'[x] = lists[x]
      /\ Breaks({}, F)
  BY <1>3, <1>4, <1>5, FreedIs DEF objectVars
<1>7. /\ inUse' \in [Objects -> Int]
      /\ vector' \in [Objects -> {"none", "used", "orphaned", "deleted"}]
      /\ \A x \in Objects : x # f.obj => vector'[x] = vector[x]
      /\ \A x \in Objects : vector[x] = "used" => vector'[x] = "used"
  BY <1>3, <1>4, UnuseIs
<1>8. DataTyped'
  <2>1. PICK b : b = (dirty[f.obj] /\ ~(~Orphaned(f) /\ MayClean(f.obj, inUse[f.obj] - 1)))
    OBVIOUS
  <2>2. b \in BOOLEAN /\ dirty' = [dirty EXCEPT ![f.obj] = b]
    BY <1>1, <2>1 DEF EmitEnds
  <2>3. dirty' \in [Objects -> BOOLEAN]
    BY <2>2 DEF IInv, DataTyped
  <2> QED BY <2>3, <1>3, <1>6, <1>7 DEF IInv, DataTyped, objectVars
<1>9. Standing' /\ Gentle(t)
  BY <1>1, <1>4, <1>6, <1>7, <1>8, BreaksKeep
<1>10. OwnerTyped' /\ LockedTo(t, {})
  BY <1>1, <1>3, <1>4, LocksReleased
<1> QED BY <1>3, <1>4, <1>8, <1>9, <1>10, PopStep

LEMMA DisconnectEndsStep == ASSUME IInv, NEW t \in Threads, DisconnectEnds(t) PROVE IInv'
<1>1. PICK f : f = Top(t)
  OBVIOUS
<1>2. /\ At(t, "disconnect", "disconnecting") /\ f.walk = <<>>
      /\ Unuse(f.obj) /\ Release(Own(f)) /\ Pop(t)
      /\ UNCHANGED <<made, conns, lists, dirty, senders, objectVars>>
  BY <1>1 DEF DisconnectEnds
<1>3. /\ stack[t] # <<>> /\ f \in FrameT /\ Sane(t, f) /\ f.obj \in Objects
      /\ f.at = "disconnecting"
  BY <1>1, <1>2, DisconnectIs
<1>4. Holds(f) = {Own(f)}
  <2>1. f.relock = "no"
    BY <1>2, <1>3 DEF Sane, Placed, Relocks
  <2> QED BY <2>1, <1>3 DEF Holds
<1>5. Breaks({}, {})
  BY <1>2, NothingBreaks DEF objectVars
<1>6. /\ inUse' \in [Objects -> Int]
      /\ vector' \in [Objects -> {"none", "used", "orphaned", "deleted"}]
      /\ \A x \in Objects : x # f.obj => vector'[x] = vector[x]
      /\ \A x \in Objects : vector[x] = "used" => vector'[x] = "used"
  BY <1>2, <1>3, UnuseIs
<1>7. DataTyped'
  BY <1>2, <1>6 DEF IInv, DataTyped, objectVars
<1>8. Standing' /\ Gentle(t)
  BY <1>1, <1>2, <1>3, <1>5, <1>6, <1>7, BreaksKeep
<1>9. OwnerTyped' /\ LockedTo(t, {})
  BY <1>1, <1>2, <1>3, <1>4, LocksReleased
<1> QED BY <1>2, <1>3, <1>7, <1>8, <1>9, PopStep

\* With the mutex of the other end, or after relock.
LEMMA WithOtherIs ==
  ASSUME IInv, NEW t \in Threads, NEW point \in {"disconnecting", "receivers", "senders"},
         WithOther(t, point)
  PROVE  /\ stack[t] # <<>> /\ Top(t) \in FrameT /\ Sane(t, Top(t)) /\ Top(t).at = point
         /\ Top(t).op = IF point = "disconnecting" THEN "disconnect" ELSE "destroy"
         /\ Top(t).obj \in Objects /\ OwnerTyped' /\ LockedTo(t, {Own(Top(t))})
         /\ Top(t).relock \in {"no", "own"} /\ (Top(t).relock = "no" => Meets(t))
         /\ point # "senders" => Top(t).conn # NoConn
<1>1. PICK f : f = Top(t)
  OBVIOUS
<1>2. stack[t] # <<>> /\ f.at = point
  BY <1>1 DEF WithOther
<1>3. /\ f \in FrameT /\ Sane(t, f) /\ f.obj \in Objects /\ Own(f) \in Mutexes /\ Own(f) \in Nat
      /\ \A m \in Mutexes : owner[m] = t <=> m \in Holds(f)
  BY <1>1, <1>2, TopIs, OwnIs
<1>4. f.op = IF point = "disconnecting" THEN "disconnect" ELSE "destroy"
  <2>1. f.op \in Ops
    BY <1>3 DEF FrameT
  <2> QED BY <2>1, <1>2, <1>3 DEF Sane, Placed, Ops
<1>5. CASE Meets(t) /\ UNCHANGED owner
  <2>1. Holds(f) = {Own(f)} /\ f.relock = "no" /\ (point # "senders" => f.conn # NoConn)
    BY <1>1, <1>2, <1>5, MeetIs DEF NoConn
  <2>2. OwnerTyped' /\ LockedTo(t, {Own(f)})
    BY <1>1, <1>2, <1>5, <2>1, LocksSame
  <2> QED BY <2>1, <2>2, <1>1, <1>2, <1>3, <1>4, <1>5
<1>6. CASE /\ f.relock = "own" /\ Free(Own(f))
           /\ owner' = [owner EXCEPT ![Own(f)] = t, ![f.mutex] = Nobody]
  <2>1. Holds(f) = {f.mutex} /\ f.mutex < Own(f) /\ (point # "senders" => f.conn # NoConn)
    BY <1>2, <1>3, <1>6 DEF Holds, Sane, Relocks
  <2>2. owner \in [Mutexes -> Threads \cup {Nobody}] /\ Nobody \notin Threads
    BY SignalSlotAssumption DEF IInv, CallsTyped
  <2>3. f.mutex # Own(f)
    BY <2>1, <1>3 DEF FrameT
  <2>4. /\ owner' \in [Mutexes -> Threads \cup {Nobody}]
        /\ \A m \in Mutexes : owner'[m] = IF m = f.mutex THEN Nobody
                                          ELSE IF m = Own(f) THEN t ELSE owner[m]
    BY <1>3, <1>6, <2>2
  <2>5. LockedTo(t, {Own(f)})
    <3> SUFFICES ASSUME NEW m \in Mutexes
                 PROVE  /\ owner'[m] = t <=> m = Own(f)
                        /\ \A u \in Threads \ {t} : owner'[m] = u <=> owner[m] = u
      BY DEF LockedTo
    <3>1. owner[m] = t <=> m = f.mutex
      BY <1>3, <2>1
    <3>2. owner[Own(f)] = Nobody
      BY <1>6 DEF Free
    <3> QED BY <2>2, <2>3, <2>4, <3>1, <3>2
  <2> QED BY <2>1, <2>4, <2>5, <1>1, <1>2, <1>3, <1>4, <1>6 DEF OwnerTyped
<1> QED BY <1>1, <1>5, <1>6 DEF WithOther

LEMMA DisconnectOtherStep == ASSUME IInv, NEW t \in Threads, DisconnectOther(t) PROVE IInv'
<1>1. PICK f : f = Top(t)
  OBVIOUS
<1>2. PICK c : c = Following(lists[f.obj][Head(f.walk)], f.conn)
  OBVIOUS
<1>3. PICK g : g = [f EXCEPT !.conn = c, !.seen = @ \cup {f.conn}, !.relock = "no"]
  OBVIOUS
<1>4. /\ WithOther(t, "disconnecting") /\ LeaveSenders(f.conn)
      /\ conns' = [conns EXCEPT ![f.conn].receiver = Nobody] /\ Put(t, g)
      /\ UNCHANGED <<made, lists, vector, inUse, dirty, objectVars>>
  BY <1>1, <1>2, <1>3 DEF DisconnectOther
<1>5. /\ stack[t] # <<>> /\ f \in FrameT /\ Sane(t, f) /\ f.at = "disconnecting"
      /\ f.op = "disconnect" /\ f.obj \in Objects /\ OwnerTyped' /\ LockedTo(t, {Own(f)})
      /\ f.conn # NoConn
  BY <1>1, <1>4, WithOtherIs
<1>6. /\ f.conn \in 1..made /\ f.conn \in Conns /\ f.walk # <<>> /\ Head(f.walk) \in Lists
  BY <1>5, ConnIs
<1>7. c \in 0..made /\ c \in 0..MaxConns /\ (c # NoConn => conns[c].sender = f.obj)
  BY <1>2, <1>5, <1>6, FollowingIs
<1>8. /\ g \in FrameT /\ SameNeeds(f, g) /\ g.at = "disconnecting" /\ g.relock = "no"
      /\ g.op = "disconnect" /\ g.conn = c /\ g.walk = f.walk /\ g.obj = f.obj
  BY <1>3, <1>5, <1>7 DEF FrameT, SameNeeds
<1>9. /\ conns' \in [Conns -> ConnT]
      /\ \A d \in Conns :
           /\ conns'[d].sender = conns[d].sender /\ conns'[d].list = conns[d].list
           /\ conns'[d].freed = conns[d].freed
           /\ conns'[d].receiver = IF d = f.conn THEN Nobody ELSE conns[d].receiver
  <2>1. conns \in [Conns -> ConnT]
    BY DEF IInv, DataTyped
  <2> QED BY <2>1, <1>4, <1>6 DEF ConnT, SomeObject
<1>10. /\ senders' \in [Objects -> Seq(Conns)]
       /\ \A o \in Objects :
            Once(senders'[o]) /\ Members(senders'[o]) = Members(senders[o]) \ {f.conn}
  BY <1>4, <1>6, LeavesIs
<1>11. DataTyped'
  BY <1>4, <1>9, <1>10 DEF IInv, DataTyped, objectVars
<1>12. Breaks({f.conn}, {})
  <2>1. \A d \in 1..made : d \in Conns
    BY SignalSlotAssumption DEF Conns, IInv, DataTyped
  <2>2. \A o \in Objects, l \in Lists :
          Rising(lists'[o][l]) /\ Members(lists'[o][l]) = Members(lists[o][l]) \ {}
    BY <1>4 DEF IInv, Standing, Sent
  <2> QED BY <1>4, <1>9, <1>10, <2>1, <2>2 DEF Breaks, objectVars
<1>13. Standing' /\ Gentle(t)
  BY <1>1, <1>4, <1>5, <1>11, <1>12, BreaksKeep
<1>14. Sane(t, g)'
  <2>1. /\ made' = made /\ g.conn <= made
        /\ g.conn # NoConn => conns'[g.conn].sender = g.obj
    <3>1. c # NoConn => c \in Conns
      BY <1>7, SignalSlotAssumption DEF Conns, NoConn
    <3>2. c <= made
      BY <1>7, SignalSlotAssumption DEF IInv, DataTyped
    <3> QED BY <3>1, <3>2, <1>4, <1>7, <1>8, <1>9
  <2> QED BY <2>1, <1>6, <1>8 DEF Sane, Placed, Relocks, AtConn, Destroys, Connects
<1>15. LockedTo(t, Holds(g))
  <2>1. Holds(g) = {Own(f)}
    BY <1>8 DEF Holds, Own
  <2> QED BY <2>1, <1>5
<1>16. made' = made /\ SameNeeds(Top(t), g)
  BY <1>1, <1>4, <1>8
<1> QED BY <1>4, <1>5, <1>8, <1>11, <1>13, <1>14, <1>15, <1>16, PutStep

LEMMA DisconnectBothStep == ASSUME IInv, NEW t \in Threads, DisconnectBoth(t) PROVE IInv'
<1>1. PICK f : f = Top(t)
  OBVIOUS
<1>2. PICK cs : cs = {c \in 1..made : /\ \E l \in Members(f.walk) : c \in Members(lists[f.obj][l])
                                     /\ conns[c].receiver = f.peer}
  OBVIOUS
<1>3. /\ At(t, "disconnect", "lockUpper") /\ Release(Lower(f)) /\ Pop(t)
      /\ conns' = [c \in Conns |->
                     IF c \in cs THEN [conns[c] EXCEPT !.receiver = Nobody] ELSE conns[c]]
      /\ senders' = [senders EXCEPT ![f.peer] = Minus(@, cs)]
      /\ dirty' = [dirty EXCEPT ![f.obj] = @ \/ cs # {}]
      /\ UNCHANGED <<made, lists, vector, inUse, objectVars>>
  BY <1>1, <1>2 DEF DisconnectBoth
<1>4. /\ stack[t] # <<>> /\ f \in FrameT /\ Sane(t, f) /\ f.at = "lockUpper" /\ f.obj \in Objects
  BY <1>1, <1>3, DisconnectIs
<1>5. f.peer \in Objects /\ Holds(f) = {Lower(f)}
  BY <1>4 DEF Sane, Placed, Holds
<1>6. /\ conns' \in [Conns -> ConnT]
      /\ \A d \in Conns :
           /\ conns'[d].sender = conns[d].sender /\ conns'[d].list = conns[d].list
           /\ conns'[d].freed = conns[d].freed
           /\ conns'[d].receiver = IF d \in cs THEN Nobody ELSE conns[d].receiver
  <2>1. conns \in [Conns -> ConnT]
    BY DEF IInv, DataTyped
  <2>2. ASSUME NEW d \in Conns
        PROVE  /\ conns'[d] \in ConnT
               /\ conns'[d].sender = conns[d].sender /\ conns'[d].list = conns[d].list
               /\ conns'[d].freed = conns[d].freed
               /\ conns'[d].receiver = IF d \in cs THEN Nobody ELSE conns[d].receiver
    BY <2>1, <1>3 DEF ConnT, SomeObject
  <2>3. conns' = [d \in Conns |-> conns'[d]]
    BY <1>3
  <2> QED BY <2>2, <2>3
<1>7. ASSUME NEW o \in Objects
      PROVE  /\ senders'[o] \in Seq(Conns) /\ Once(senders'[o])
             /\ Members(senders'[o]) = Members(senders[o]) \ cs
  <2>1. /\ senders[o] \in Seq(Conns) /\ Once(senders[o]) /\ senders \in [Objects -> Seq(Conns)]
        /\ Members(senders[o]) = {d \in 1..made : conns[d].receiver = o}
    BY DEF IInv, DataTyped, Standing, Received
  <2>2. CASE o = f.peer
    <3>1. senders'[o] = Minus(senders[o], cs)
      BY <2>1, <2>2, <1>3
    <3> QED BY <3>1, <2>1, MinusIs
  <2>3. CASE o # f.peer
    <3>1. senders'[o] = senders[o] /\ \A c \in cs : c \notin Members(senders[o])
      BY <2>1, <2>3, <1>2, <1>3
    <3> QED BY <3>1, <2>1
  <2> QED BY <2>2, <2>3
<1>8. DataTyped'
  <2>1. senders' \in [Objects -> Seq(Conns)]
    <3>1. senders' = [o \in Objects |-> senders'[o]]
      BY <1>3 DEF IInv, DataTyped
    <3> QED BY <3>1, <1>7
  <2>2. dirty' \in [Objects -> BOOLEAN]
    <3>1. (dirty[f.obj] \/ cs # {}) \in BOOLEAN
      OBVIOUS
    <3> QED BY <3>1, <1>3 DEF IInv, DataTyped
  <2> QED BY <2>1, <2>2, <1>3, <1>6 DEF IInv, DataTyped, objectVars
<1>9. Breaks(cs, {})
  <2>1. \A d \in 1..made : d \in Conns
    BY SignalSlotAssumption DEF Conns, IInv, DataTyped
  <2>2. \A o \in Objects, l \in Lists :
          Rising(lists'[o][l]) /\ Members(lists'[o][l]) = Members(lists[o][l]) \ {}
    BY <1>3 DEF IInv, Standing, Sent
  <2> QED BY <1>3, <1>6, <1>7, <2>1, <2>2 DEF Breaks, objectVars
<1>10. Standing' /\ Gentle(t)
  BY <1>1, <1>3, <1>4, <1>8, <1>9, BreaksKeep
<1>11. OwnerTyped' /\ LockedTo(t, {})
  BY <1>1, <1>3, <1>4, <1>5, LocksReleased
<1> QED BY <1>3, <1>4, <1>8, <1>10, <1>11, PopStep

-----------------------------------------------------------------------------
(* A connection is made.                                                   *)

\* A list with one more at its end, and the list of senders with one more at its start.
LEMMA LongerIs ==
  ASSUME NEW q \in Seq(Conns), NEW c \in Conns
  PROVE  /\ Append(q, c) \in Seq(Conns) /\ Members(Append(q, c)) = Members(q) \cup {c}
         /\ Rising(q) /\ (\A d \in Members(q) : d < c) => Rising(Append(q, c))
         /\ <<c>> \o q \in Seq(Conns) /\ Members(<<c>> \o q) = Members(q) \cup {c}
         /\ Once(q) /\ c \notin Members(q) => Once(<<c>> \o q)
<1> DEFINE n == Len(q)
           a == Append(q, c)
           b == <<c>> \o q
<1>1. n \in Nat /\ DOMAIN q = 1..n /\ \A i \in 1..n : q[i] \in Members(q)
  <2>1. n \in Nat /\ DOMAIN q = 1..n
    BY LenProperties
  <2> QED BY <2>1 DEF Members
<1>2. /\ a \in Seq(Conns) /\ Len(a) = n + 1 /\ a[n + 1] = c /\ \A i \in 1..n : a[i] = q[i]
      /\ DOMAIN a = 1..(n + 1)
  <2>1. a \in Seq(Conns) /\ Len(a) = n + 1 /\ a[n + 1] = c /\ \A i \in 1..n : a[i] = q[i]
    BY AppendProperties
  <2> QED BY <2>1, LenProperties
<1>3. /\ b \in Seq(Conns) /\ Len(b) = n + 1 /\ b[1] = c /\ \A i \in 1..n : b[i + 1] = q[i]
      /\ DOMAIN b = 1..(n + 1)
  <2>1. <<c>> \in Seq(Conns) /\ Len(<<c>>) = 1 /\ <<c>>[1] = c
    OBVIOUS
  <2>2. /\ b \in Seq(Conns) /\ Len(b) = 1 + n
        /\ \A i \in 1..(1 + n) : b[i] = IF i <= 1 THEN <<c>>[i] ELSE q[i - 1]
    <3>1. /\ b \in Seq(Conns) /\ Len(b) = Len(<<c>>) + n
          /\ \A i \in 1..(Len(<<c>>) + n) :
               b[i] = IF i <= Len(<<c>>) THEN <<c>>[i] ELSE q[i - Len(<<c>>)]
      BY <2>1, ConcatProperties
    <3> QED BY <3>1, <2>1
  <2>3. b[1] = c /\ \A i \in 1..n : b[i + 1] = q[i]
    <3>1. 1 \in 1..(1 + n) /\ \A i \in 1..n : i + 1 \in 1..(1 + n) /\ ~(i + 1 <= 1) /\ (i + 1) - 1 = i
      BY <1>1
    <3> QED BY <3>1, <2>1, <2>2
  <2>4. DOMAIN b = 1..Len(b)
    BY <2>2, LenProperties
  <2> QED BY <2>2, <2>3, <2>4, <1>1
<1> HIDE DEF n, a, b
<1>4. \A i \in 1..(n + 1) : i \in 1..n \/ i = n + 1
  BY <1>1
<1>5. \A i \in 1..(n + 1) : i = 1 \/ \E j \in 1..n : i = j + 1
  <2> SUFFICES ASSUME NEW i \in 1..(n + 1), i # 1 PROVE \E j \in 1..n : i = j + 1
    OBVIOUS
  <2>1. i - 1 \in 1..n /\ i = (i - 1) + 1
    BY <1>1
  <2> QED BY <2>1
<1>6. n + 1 \in 1..(n + 1) /\ 1 \in 1..(n + 1)
      /\ \A i \in 1..n : i \in 1..(n + 1) /\ i + 1 \in 1..(n + 1)
  BY <1>1
<1>7. Members(a) = Members(q) \cup {c}
  <2>1. \A i \in 1..(n + 1) : a[i] \in Members(q) \cup {c}
    BY <1>1, <1>2, <1>4
  <2>2. \A x \in Members(q) \cup {c} : \E i \in 1..(n + 1) : a[i] = x
    BY <1>1, <1>2, <1>6 DEF Members
  <2>3. Members(a) = {a[i] : i \in 1..(n + 1)}
    BY <1>2 DEF Members
  <2>4. ASSUME NEW x PROVE x \in {a[i] : i \in 1..(n + 1)} <=> x \in Members(q) \cup {c}
    <3>1. x \in {a[i] : i \in 1..(n + 1)} <=> \E i \in 1..(n + 1) : a[i] = x
      OBVIOUS
    <3> QED BY <2>1, <2>2, <3>1
  <2> QED BY <2>3, <2>4
<1>8. Members(b) = Members(q) \cup {c}
  <2>1. \A i \in 1..(n + 1) : b[i] \in Members(q) \cup {c}
    BY <1>1, <1>3, <1>5
  <2>2. ASSUME NEW x \in Members(q) \cup {c} PROVE \E i \in 1..(n + 1) : b[i] = x
    <3>1. CASE x = c
      BY <3>1, <1>3, <1>6
    <3>2. CASE x # c
      <4>1. PICK i \in 1..n : q[i] = x
        BY <3>2, <1>1 DEF Members
      <4>2. b[i + 1] = x /\ i + 1 \in 1..(n + 1)
        BY <4>1, <1>3, <1>6
      <4> QED BY <4>2
    <3> QED BY <3>1, <3>2
  <2>3. Members(b) = {b[i] : i \in 1..(n + 1)}
    BY <1>3 DEF Members
  <2> QED BY <2>1, <2>2, <2>3
<1>9. ASSUME Rising(q), \A d \in Members(q) : d < c PROVE Rising(a)
  <2> SUFFICES ASSUME NEW i \in 1..(n + 1), NEW j \in 1..(n + 1), i < j PROVE a[i] < a[j]
    BY <1>2 DEF Rising
  <2>1. i \in 1..n
    BY <1>1
  <2>2. CASE j \in 1..n
    BY <2>1, <2>2, <1>1, <1>2, <1>9 DEF Rising
  <2>3. CASE j = n + 1
    BY <2>1, <2>3, <1>1, <1>2, <1>9
  <2> QED BY <2>2, <2>3, <1>4
<1>10. ASSUME Once(q), c \notin Members(q) PROVE Once(b)
  <2> SUFFICES ASSUME NEW i \in 1..(n + 1), NEW j \in 1..(n + 1), b[i] = b[j] PROVE i = j
    BY <1>3 DEF Once
  <2>1. CASE i = 1 /\ j # 1
    <3>1. PICK k \in 1..n : j = k + 1
      BY <2>1, <1>5
    <3> QED BY <3>1, <2>1, <1>1, <1>3, <1>10
  <2>2. CASE i # 1 /\ j = 1
    <3>1. PICK k \in 1..n : i = k + 1
      BY <2>2, <1>5
    <3> QED BY <3>1, <2>2, <1>1, <1>3, <1>10
  <2>3. CASE i # 1 /\ j # 1
    <3>1. PICK k \in 1..n : i = k + 1
      BY <2>3, <1>5
    <3>2. PICK h \in 1..n : j = h + 1
      BY <2>3, <1>5
    <3>3. q[k] = q[h]
      BY <3>1, <3>2, <1>3
    <3>4. k = h
      BY <3>3, <1>1, <1>10 DEF Once
    <3> QED BY <3>1, <3>2, <3>4
  <2> QED BY <2>1, <2>2, <2>3
<1> QED BY <1>2, <1>3, <1>7, <1>8, <1>9, <1>10 DEF a, b

LEMMA AddsKeep ==
  ASSUME IInv, NEW t \in Threads, stack[t] # <<>>, Top(t).op = "connect",
         NEW o \in Objects, NEW p \in Objects, NEW l \in Lists, NEW c, NEW F,
         c = made + 1, Top(t).obj = o, Top(t).peer = p,
         object[o] # "gone", object[p] # "gone", Adds(o, p, l, c, F)
  PROVE  Standing' /\ Gentle(t)
<1>1. /\ made \in Nat /\ made' = c /\ c \in Nat /\ c >= 1 /\ made <= made'
      /\ \A d : d \in 1..c <=> d \in 1..made \/ d = c
      /\ \A d \in 1..made : d # c
  BY SignalSlotAssumption DEF IInv, DataTyped, Adds
<1>2. Sent'
  <2> SUFFICES ASSUME NEW x \in Objects, NEW k \in Lists
               PROVE  /\ Rising(lists'[x][k])
                      /\ Members(lists'[x][k]) =
                           {d \in 1..c : /\ conns'[d].sender = x /\ conns'[d].list = k
                                         /\ ~conns'[d].freed}
                      /\ vector'[x] # "used" => lists'[x][k] = <<>>
    BY <1>1 DEF Sent
  <2>1. /\ Rising(lists[x][k])
        /\ Members(lists[x][k]) =
             {d \in 1..made : conns[d].sender = x /\ conns[d].list = k /\ ~conns[d].freed}
        /\ vector[x] # "used" => lists[x][k] = <<>>
    BY DEF IInv, Standing, Sent
  <2>2. CASE x = o
    <3>1. Members(lists'[x][k]) = (Members(lists[x][k]) \ F) \cup (IF k = l THEN {c} ELSE {})
      BY <2>2 DEF Adds
    <3>2. ASSUME NEW d
          PROVE  d \in Members(lists'[x][k]) <=>
                   /\ d \in 1..c /\ conns'[d].sender = x /\ conns'[d].list = k
                   /\ ~conns'[d].freed
      <4>1. CASE d \in 1..made
        BY <4>1, <3>1, <2>1, <2>2, <1>1 DEF Adds
      <4>2. CASE d = c
        BY <4>2, <3>1, <2>1, <2>2, <1>1 DEF Adds
      <4>3. CASE d \notin 1..made /\ d # c
        BY <4>3, <3>1, <2>1, <1>1
      <4> QED BY <4>1, <4>2, <4>3
    <3> QED BY <3>2, <2>2 DEF Adds
  <2>3. CASE x # o
    <3>1. lists'[x] = lists[x] /\ vector'[x] = vector[x]
      BY <2>3 DEF Adds
    <3>2. ASSUME NEW d
          PROVE  d \in Members(lists[x][k]) <=>
                   /\ d \in 1..c /\ conns'[d].sender = x /\ conns'[d].list = k
                   /\ ~conns'[d].freed
      <4>1. CASE d \in 1..made
        BY <4>1, <2>1, <2>3, <1>1 DEF Adds
      <4>2. CASE d = c
        BY <4>2, <2>1, <2>3, <1>1 DEF Adds
      <4>3. CASE d \notin 1..made /\ d # c
        BY <4>3, <2>1, <1>1
      <4> QED BY <4>1, <4>2, <4>3
    <3> QED BY <3>1, <3>2, <2>1
  <2> QED BY <2>2, <2>3
<1>3. Received'
  <2> SUFFICES ASSUME NEW x \in Objects
               PROVE  /\ Once(senders'[x])
                      /\ Members(senders'[x]) = {d \in 1..c : conns'[d].receiver = x}
    BY <1>1 DEF Received
  <2>1. Once(senders[x]) /\ Members(senders[x]) = {d \in 1..made : conns[d].receiver = x}
    BY DEF IInv, Standing, Received
  <2>2. ASSUME NEW d PROVE d \in Members(senders'[x]) <=> d \in 1..c /\ conns'[d].receiver = x
    <3>1. Members(senders'[x]) = IF x = p THEN Members(senders[x]) \cup {c} ELSE Members(senders[x])
      BY DEF Adds
    <3>2. CASE d \in 1..made
      BY <3>1, <3>2, <2>1, <1>1 DEF Adds
    <3>3. CASE d = c
      BY <3>1, <3>3, <2>1, <1>1 DEF Adds
    <3>4. CASE d \notin 1..made /\ d # c
      BY <3>1, <3>4, <2>1, <1>1
    <3> QED BY <3>2, <3>3, <3>4
  <2>3. Once(senders'[x])
    BY <2>1 DEF Adds
  <2> QED BY <2>2, <2>3
<1>4. Joined'
  <2> SUFFICES ASSUME NEW d \in 1..c
               PROVE  /\ conns'[d].sender \in Objects
                      /\ conns'[d].receiver # Nobody =>
                           /\ ~conns'[d].freed
                           /\ object[conns'[d].sender] # "gone"
                           /\ object[conns'[d].receiver] # "gone"
    BY <1>1 DEF Joined, Adds
  <2>1. CASE d \in 1..made
    BY <2>1 DEF Adds, IInv, Standing, Joined
  <2>2. CASE d = c
    BY <2>2 DEF Adds
  <2> QED BY <2>1, <2>2, <1>1
<1>5. Gentle(t)
  <2>1. ASSUME NEW x \in Objects, \A f \in Frames(t) : ~Needs(f, x) PROVE x # o /\ x # p
    BY <2>1, TopIs DEF Needs
  <2>2. \A x \in Objects : (\A f \in Frames(t) : ~Needs(f, x)) =>
          /\ lists'[x] = lists[x] /\ vector'[x] = vector[x]
          /\ Members(senders'[x]) \subseteq Members(senders[x])
    BY <2>1 DEF Adds
  <2> QED BY <2>2, <1>1 DEF Gentle, Adds
<1> QED BY <1>2, <1>3, <1>4, <1>5 DEF Standing

LEMMA ConnectBothStep == ASSUME IInv, NEW t \in Threads, ConnectBoth(t) PROVE IInv'
<1>1. PICK f : f = Top(t)
  OBVIOUS
<1>2. PICK l : l = Head(f.walk)
  OBVIOUS
<1>3. PICK twin : twin = (\E d \in Members(lists[f.obj][l]) : conns[d].receiver = f.peer)
  OBVIOUS
<1>4. At(t, "connect", "lockUpper") /\ Release(Lower(f)) /\ Pop(t) /\ UNCHANGED <<inUse, objectVars>>
  BY <1>1 DEF ConnectBoth
<1>5. stack[t] # <<>> /\ f.op = "connect" /\ f.at = "lockUpper"
  BY <1>1, <1>4 DEF At
<1>6. f \in FrameT /\ Sane(t, f) /\ f \in Frames(t)
  BY <1>1, <1>5, TopIs
<1>7. /\ f.obj \in Objects /\ f.peer \in Objects /\ f.walk \in Seq(Lists) /\ f.walk # <<>>
      /\ f.kind \in AllKinds /\ Holds(f) = {Lower(f)}
      /\ object[f.obj] # "gone" /\ object[f.peer] # "gone"
  BY <1>5, <1>6 DEF FrameT, Sane, Placed, Connects, Holds
<1>8. l \in Lists
  BY <1>2, <1>7, HeadTailProperties
<1>9. OwnerTyped' /\ LockedTo(t, {})
  BY <1>1, <1>4, <1>5, <1>7, LocksReleased
<1>10. CASE f.unique /\ twin
  <2>1. UNCHANGED <<connVars, object>> /\ currentSender' \in [Objects -> 0..MaxDepth]
    <3>1. UNCHANGED <<made, conns, lists, vector, dirty, senders>>
      BY <1>1, <1>2, <1>3, <1>10 DEF ConnectBoth
    <3> QED BY <3>1, <1>4 DEF connVars, objectVars, IInv, DataTyped
  <2>2. DataTyped' /\ Standing' /\ Gentle(t) /\ made' = made
    BY <2>1, DataSame
  <2> QED BY <2>2, <1>4, <1>5, <1>9, PopStep
<1>11. CASE ~(f.unique /\ twin)
  <2>1. PICK c : c = made + 1
    OBVIOUS
  <2>2. PICK F : F = Broken(f.obj, inUse[f.obj])
    OBVIOUS
  <2>3. PICK new : new = [sender |-> f.obj, receiver |-> f.peer, kind |-> f.kind, list |-> l,
                          freed |-> FALSE]
    OBVIOUS
  <2>a. PICK w : w = Without(lists[f.obj], F)
    OBVIOUS
  <2>b. PICK e : e = [w EXCEPT ![l] = Append(w[l], c)]
    OBVIOUS
  <2>4. /\ made' = c
        /\ conns' = [WithFreed(conns, F) EXCEPT ![c] = new]
        /\ lists' = [lists EXCEPT ![f.obj] = e]
        /\ vector' = [vector EXCEPT ![f.obj] = "used"]
        /\ dirty' = [dirty EXCEPT ![f.obj] = @ /\ ~MayClean(f.obj, inUse[f.obj])]
        /\ senders' = [senders EXCEPT ![f.peer] = <<c>> \o @]
    BY <1>1, <1>2, <1>3, <1>11, <2>1, <2>2, <2>3, <2>a, <2>b DEF ConnectBoth
  <2>5. F \in SUBSET (1..made) /\ \A d \in F : conns[d].sender = f.obj /\ conns[d].receiver = Nobody
    BY <2>2 DEF Broken
  <2> DEFINE C == {u \in Threads : Connecting(u)}
             D == {u \in Threads : Connecting(u)'}
  <2>6. /\ IsFiniteSet(C) /\ t \in C /\ Cardinality(C) \in Nat /\ Cardinality(C \ {t}) \in Nat
        /\ Cardinality(C \ {t}) = Cardinality(C) - 1 /\ IsFiniteSet(C \ {t})
    <3>1. IsFiniteSet(C)
      BY SignalSlotAssumption, FS_Subset
    <3>2. t \in C
      BY <1>5, <1>6 DEF Connecting
    <3> HIDE DEF C
    <3> QED BY <3>1, <3>2, FS_RemoveElement, FS_CardinalityType
  <2>7. /\ made \in Nat /\ c \in Nat /\ c >= 1 /\ c <= MaxConns /\ MaxConns \in Nat /\ c \in Conns
        /\ c + Cardinality(C \ {t}) <= MaxConns
        /\ \A d \in 1..made : d \in Conns /\ d < c /\ d # c
    <3>1. made \in Nat /\ made + Cardinality(C) <= MaxConns /\ MaxConns \in Nat
      BY SignalSlotAssumption DEF IInv, DataTyped, Room
    <3> HIDE DEF C
    <3>2. c \in Nat /\ c >= 1 /\ c <= MaxConns /\ c + Cardinality(C \ {t}) <= MaxConns
      BY <2>1, <2>6, <3>1
    <3>3. \A d \in 1..made : d <= MaxConns /\ d < c /\ d # c
      BY <2>1, <3>1, <3>2
    <3> QED BY <3>1, <3>2, <3>3 DEF Conns
  <2>8. new \in ConnT
    BY <1>7, <1>8, <2>3 DEF ConnT, SomeObject
  <2>9. ASSUME NEW d \in Conns
        PROVE  /\ conns'[d] \in ConnT
               /\ d = c => conns'[d] = new
               /\ d # c => /\ conns'[d].sender = conns[d].sender /\ conns'[d].list = conns[d].list
                           /\ conns'[d].receiver = conns[d].receiver
                           /\ conns'[d].freed <=> conns[d].freed \/ d \in F
    <3>1. conns[d] \in ConnT
      BY DEF IInv, DataTyped
    <3>2. conns'[d] = IF d = c THEN new ELSE [conns[d] EXCEPT !.freed = @ \/ d \in F]
      BY <2>4 DEF WithFreed
    <3>3. (conns[d].freed \/ d \in F) \in BOOLEAN
      OBVIOUS
    <3> QED BY <3>1, <3>2, <3>3, <2>8 DEF ConnT
  <2>10. conns' \in [Conns -> ConnT]
    <3>1. conns' = [d \in Conns |-> conns'[d]]
      BY <2>4 DEF WithFreed
    <3> QED BY <3>1, <2>9
  <2>11. ASSUME NEW k \in Lists
         PROVE  /\ lists'[f.obj][k] \in Seq(Conns) /\ Rising(lists'[f.obj][k])
                /\ Members(lists'[f.obj][k]) =
                     (Members(lists[f.obj][k]) \ F) \cup (IF k = l THEN {c} ELSE {})
    <3>1. PICK q : q = Minus(lists[f.obj][k], F)
      OBVIOUS
    <3>2. /\ lists[f.obj][k] \in Seq(Conns) /\ Rising(lists[f.obj][k])
          /\ \A d \in Members(lists[f.obj][k]) : d \in 1..made
      BY <1>7 DEF IInv, DataTyped, Standing, Sent
    <3>3. q \in Seq(Conns) /\ Rising(q) /\ Members(q) = Members(lists[f.obj][k]) \ F
      BY <3>1, <3>2, MinusIs
    <3>4. lists'[f.obj][k] = IF k = l THEN Append(q, c) ELSE q
      <4>1. lists'[f.obj] = e
        BY <1>7, <2>4 DEF IInv, DataTyped
      <4>2. w[k] = q /\ DOMAIN w = Lists
        BY <2>a, <3>1 DEF Without
      <4> QED BY <4>1, <4>2, <2>b
    <3>5. CASE k = l
      <4>1. \A d \in Members(q) : d < c
        BY <2>7, <3>2, <3>3
      <4>2. /\ Append(q, c) \in Seq(Conns) /\ Rising(Append(q, c))
            /\ Members(Append(q, c)) = Members(q) \cup {c}
        BY <4>1, <2>7, <3>3, LongerIs
      <4> QED BY <4>2, <3>3, <3>4, <3>5
    <3>6. CASE k # l
      BY <3>3, <3>4, <3>6
    <3> QED BY <3>5, <3>6
  <2>12. lists' \in [Objects -> [Lists -> Seq(Conns)]]
         /\ \A x \in Objects : x # f.obj => lists'[x] = lists[x]
    <3>3. lists'[f.obj] = e
      BY <1>7, <2>4 DEF IInv, DataTyped
    <3>4. e = [k \in Lists |-> e[k]]
      BY <2>a, <2>b DEF Without
    <3>5. e \in [Lists -> Seq(Conns)]
      BY <2>11, <3>3, <3>4
    <3> QED BY <2>4, <3>5 DEF IInv, DataTyped
  <2>13. /\ senders' \in [Objects -> Seq(Conns)] /\ Once(senders'[f.peer])
         /\ Members(senders'[f.peer]) = Members(senders[f.peer]) \cup {c}
         /\ \A x \in Objects : x # f.peer => senders'[x] = senders[x]
    <3>1. PICK z : z = <<c>> \o senders[f.peer]
      OBVIOUS
    <3>2. /\ senders[f.peer] \in Seq(Conns) /\ Once(senders[f.peer]) /\ c \notin Members(senders[f.peer])
      BY <1>7, <2>7 DEF IInv, DataTyped, Standing, Received
    <3>3. z \in Seq(Conns) /\ Once(z) /\ Members(z) = Members(senders[f.peer]) \cup {c}
      BY <2>7, <3>1, <3>2, LongerIs
    <3>4. senders' = [senders EXCEPT ![f.peer] = z]
      BY <2>4, <3>1
    <3> QED BY <1>7, <3>3, <3>4 DEF IInv, DataTyped
  <2>14. DataTyped'
    <3>1. dirty' \in [Objects -> BOOLEAN]
      <4>1. (dirty[f.obj] /\ ~MayClean(f.obj, inUse[f.obj])) \in BOOLEAN
        OBVIOUS
      <4> QED BY <4>1, <2>4 DEF IInv, DataTyped
    <3>2. made' \in 0..MaxConns /\ vector' \in [Objects -> {"none", "used", "orphaned", "deleted"}]
      <4>1. made' = c /\ vector' = [vector EXCEPT ![f.obj] = "used"]
        BY <2>4
      <4>2. c \in 0..MaxConns
        BY <2>7
      <4>3. vector' \in [Objects -> {"none", "used", "orphaned", "deleted"}]
        BY <4>1 DEF IInv, DataTyped
      <4> QED BY <4>1, <4>2, <4>3
    <3> QED BY <3>1, <3>2, <1>4, <2>10, <2>12, <2>13 DEF IInv, DataTyped, objectVars
  <2>15. Adds(f.obj, f.peer, l, c, F)
    <3>1. /\ vector'[f.obj] = "used"
          /\ \A x \in Objects : x # f.obj => vector'[x] = vector[x]
      BY <1>7, <2>4 DEF IInv, DataTyped
    <3>2. conns'[c] = new
      BY <2>7, <2>9
    <3>3. \A d \in 1..made :
            /\ conns'[d].sender = conns[d].sender /\ conns'[d].list = conns[d].list
            /\ conns'[d].receiver = conns[d].receiver
            /\ conns'[d].freed <=> conns[d].freed \/ d \in F
            /\ d \in F => conns[d].receiver = Nobody /\ conns[d].sender = f.obj
      BY <2>5, <2>7, <2>9
    <3>4. conns'[c].sender = f.obj /\ conns'[c].receiver = f.peer /\ conns'[c].list = l /\ ~conns'[c].freed
      BY <2>3, <3>2
    <3> QED BY <3>1, <3>3, <3>4, <1>4, <2>4, <2>11, <2>12, <2>13 DEF Adds, objectVars
  <2>16. Standing' /\ Gentle(t)
    BY <1>1, <1>5, <1>7, <1>8, <2>1, <2>15, AddsKeep
  <2>17. CallsTyped' /\ Called' /\ Locked' /\ ~Connecting(t)'
    BY <1>4, <1>5, <1>9, <2>14, <2>16, PopStep
  <2>18. Room'
    <3>1. D \subseteq C \ {t}
      <4> SUFFICES ASSUME NEW u \in Threads, Connecting(u)' PROVE u # t /\ Connecting(u)
        OBVIOUS
      <4>1. u # t
        BY <2>17
      <4>2. stack'[u] = stack[u]
        BY <4>1, <1>4 DEF Pop, IInv, CallsTyped
      <4> QED BY <4>1, <4>2 DEF Connecting, Frames
    <3> HIDE DEF C, D
    <3>2. Cardinality(D) <= Cardinality(C \ {t}) /\ Cardinality(D) \in Nat
      BY <3>1, <2>6, FS_Subset, FS_CardinalityType
    <3>3. made' + Cardinality(D) <= MaxConns
      BY <3>2, <2>4, <2>6, <2>7
    <3> QED BY <3>3 DEF Room, D
  <2> QED BY <2>14, <2>16, <2>17, <2>18 DEF IInv
<1> QED BY <1>10, <1>11

-----------------------------------------------------------------------------
(* ~QObject.                                                               *)

LEMMA TailIs ==
  ASSUME NEW S, NEW q \in Seq(S), q # <<>>
  PROVE  /\ Head(q) \in S /\ Tail(q) \in Seq(S) /\ Head(q) \in Members(q)
         /\ Members(q) = Members(Tail(q)) \cup {Head(q)}
         /\ Once(q) => Once(Tail(q)) /\ Head(q) \notin Members(Tail(q))
<1> DEFINE n == Len(q)
           r == Tail(q)
<1>1. /\ n \in Nat /\ n >= 1 /\ DOMAIN q = 1..n /\ Head(q) = q[1] /\ Head(q) \in S
      /\ r \in Seq(S) /\ DOMAIN r = 1..(n - 1) /\ \A i \in 1..(n - 1) : r[i] = q[i + 1]
  <2>1. n \in Nat /\ n # 0 /\ DOMAIN q = 1..n
    BY LenProperties, EmptySeq
  <2>2. /\ Head(q) \in S /\ r \in Seq(S) /\ Len(r) = n - 1
        /\ \A i \in 1..Len(r) : r[i] = q[i + 1]
    BY HeadTailProperties
  <2>3. Head(q) = q[1]
    OBVIOUS
  <2> QED BY <2>1, <2>2, <2>3, LenProperties
<1> HIDE DEF n, r
<1>2. \A i \in 1..(n - 1) : i + 1 \in 1..n /\ i + 1 # 1
  BY <1>1
<1>3. ASSUME NEW i \in 1..n PROVE i = 1 \/ \E j \in 1..(n - 1) : i = j + 1
  <2> SUFFICES ASSUME i # 1 PROVE \E j \in 1..(n - 1) : i = j + 1
    OBVIOUS
  <2>1. i - 1 \in 1..(n - 1) /\ i = (i - 1) + 1
    BY <1>1
  <2> QED BY <2>1
<1>4. Members(q) = {q[i] : i \in 1..n} /\ Members(r) = {r[i] : i \in 1..(n - 1)} /\ 1 \in 1..n
  BY <1>1 DEF Members
<1>5. Members(q) = Members(r) \cup {Head(q)} /\ Head(q) \in Members(q)
  <2>1. ASSUME NEW x \in Members(q) PROVE x \in Members(r) \cup {Head(q)}
    <3>1. PICK i \in 1..n : x = q[i]
      BY <1>4
    <3>2. CASE i = 1
      BY <3>1, <3>2, <1>1
    <3>3. CASE i # 1
      <4>1. PICK j \in 1..(n - 1) : i = j + 1
        BY <3>3, <1>3
      <4>2. x = r[j]
        BY <3>1, <4>1, <1>1
      <4> QED BY <4>2, <1>4
    <3> QED BY <3>2, <3>3
  <2>2. \A x \in Members(r) : x \in Members(q)
    BY <1>1, <1>2, <1>4
  <2>3. Head(q) \in Members(q)
    BY <1>1, <1>4
  <2> QED BY <2>1, <2>2, <2>3
<1>6. ASSUME Once(q) PROVE Once(r) /\ Head(q) \notin Members(r)
  <2>1. \A i, j \in 1..n : q[i] = q[j] => i = j
    BY <1>1, <1>6 DEF Once
  <2>2. ASSUME NEW i \in 1..(n - 1), NEW j \in 1..(n - 1), r[i] = r[j] PROVE i = j
    <3>1. i + 1 = j + 1
      BY <2>1, <2>2, <1>1, <1>2
    <3> QED BY <3>1
  <2>3. ASSUME NEW i \in 1..(n - 1) PROVE r[i] # Head(q)
    BY <2>1, <1>1, <1>2, <1>4
  <2> QED BY <2>2, <2>3, <1>1, <1>4 DEF Once
<1> QED BY <1>1, <1>5, <1>6 DEF r

LEMMA DestroyIs ==
  ASSUME IInv, NEW t \in Threads, NEW point, At(t, "destroy", point)
  PROVE  /\ stack[t] # <<>> /\ Top(t) \in FrameT /\ Sane(t, Top(t)) /\ Top(t).op = "destroy"
         /\ Top(t).at = point /\ Top(t).obj \in Objects /\ Top(t).walk \in Seq(Lists)
         /\ Destroys(t, Top(t)) /\ Top(t).conn <= made
         /\ (Top(t).conn # NoConn => Top(t).walk # <<>>)
         /\ point \notin {"receivers", "senders"} => Top(t).relock = "no"
         /\ point = "receivers" /\ Top(t).conn = NoConn => Top(t).relock = "no"
<1>1. PICK f : f = Top(t)
  OBVIOUS
<1>2. stack[t] # <<>> /\ f.op = "destroy" /\ f.at = point
  BY <1>1 DEF At
<1>3. f \in FrameT /\ Sane(t, f)
  BY <1>1, <1>2, TopIs
<1>4. f.obj \in Objects /\ f.walk \in Seq(Lists)
  BY <1>3 DEF FrameT
<1>5. /\ Destroys(t, f) /\ f.conn <= made /\ (f.conn # NoConn => f.walk # <<>>)
      /\ point \notin {"receivers", "senders"} => f.relock = "no"
      /\ point = "receivers" /\ f.conn = NoConn => f.relock = "no"
  BY <1>2, <1>3 DEF Sane, Placed, Relocks, AtConn
<1> QED BY <1>1, <1>2, <1>3, <1>4, <1>5

LEMMA DestroySane ==
  ASSUME NEW t \in Threads, NEW g \in FrameT, g.op = "destroy",
         g.at \in {"destroyed", "lockOne", "receivers", "senders", "free"}, g.relock = "no",
         g.conn <= made, g.conn # NoConn => g.walk # <<>>, Destroys(t, g)
  PROVE  Sane(t, g)
BY DEF Sane, Placed, Relocks, AtConn, Connects

LEMMA ToldStack ==
  ASSUME IInv, NEW t \in Threads, DestroyBegins(t), Told(Top(t)) \in FrameT
  PROVE  \E s \in Seq(FrameT) :
           /\ Len(s) = Len(stack[t]) /\ s[Len(s)] = Told(Top(t))
           /\ stack' = [stack EXCEPT ![t] = s]
           /\ \A i \in 1..(Len(s) - 1) : Alike(stack[t][i], s[i])
           /\ \A i \in 1..(Len(s) - 1) :
                s[i] = IF i = currentSender[Top(t).obj] THEN [stack[t][i] EXCEPT !.ref = 0]
                       ELSE stack[t][i]
<1>0. PICK f : f = Top(t)
  OBVIOUS
<1>1. PICK g \in FrameT : g = Told(f)
  BY <1>0
<1>2. PICK q : q = stack[t]
  OBVIOUS
<1>4. PICK s : s = [i \in DOMAIN q |->
                      IF i = Len(q) THEN g
                      ELSE IF i = currentSender[f.obj] THEN [q[i] EXCEPT !.ref = 0] ELSE q[i]]
  OBVIOUS
<1>5. stack' = [stack EXCEPT ![t] = s] /\ At(t, "destroy", "destroyed")
  BY <1>0, <1>1, <1>2, <1>4 DEF DestroyBegins, Told
<1>6. stack[t] # <<>>
  BY <1>5, DestroyIs
<1>9. /\ Len(q) \in Nat /\ Len(q) >= 1 /\ DOMAIN q = 1..Len(q)
      /\ \A i \in DOMAIN q : q[i] \in FrameT
  BY <1>2, <1>6, StackIs, SignalSlotAssumption DEF IInv
<1>10. ASSUME NEW i \in 1..Len(q)
       PROVE  s[i] \in FrameT /\ (i # Len(q) => Alike(q[i], s[i]))
  <2>1. q[i] \in FrameT
    BY <1>9
  <2>2. CASE i = Len(q)
    BY <2>2, <1>4, <1>9
  <2>3. CASE i # Len(q)
    <3>1. s[i] = IF i = currentSender[f.obj] THEN [q[i] EXCEPT !.ref = 0] ELSE q[i]
      BY <2>3, <1>4, <1>9
    <3>2. Alike(q[i], s[i])
      <4>1. CASE i = currentSender[f.obj]
        BY <4>1, <3>1 DEF Alike
      <4>2. CASE i # currentSender[f.obj]
        BY <4>2, <3>1, <2>1, AlikeSame
      <4> QED BY <4>1, <4>2
    <3> QED BY <3>2, <2>1, AlikeIs
  <2> QED BY <2>2, <2>3
<1>11. s \in Seq(FrameT) /\ Len(s) = Len(q)
  <2>1. PICK n : n = Len(q)
    OBVIOUS
  <2>2. n \in Nat /\ s \in [1..n -> FrameT] /\ DOMAIN s = 1..n
    BY <2>1, <1>4, <1>9, <1>10
  <2> HIDE DEF FrameT
  <2>3. s \in Seq(FrameT)
    BY <2>2, SeqDef
  <2> QED BY <2>1, <2>2, <2>3, SameLength
<1>12. /\ s[Len(s)] = g
       /\ \A i \in 1..(Len(s) - 1) :
            /\ Alike(stack[t][i], s[i])
            /\ s[i] = IF i = currentSender[f.obj] THEN [stack[t][i] EXCEPT !.ref = 0]
                      ELSE stack[t][i]
  <2>1. s[Len(s)] = g
    BY <1>4, <1>9, <1>11
  <2>2. \A i \in 1..(Len(s) - 1) : i \in 1..Len(q) /\ i # Len(q)
    <3>1. PICK n \in Nat : n = Len(q) /\ n = Len(s)
      BY <1>9, <1>11
    <3>2. \A i \in 1..(n - 1) : i \in 1..n /\ i # n
      BY <3>1
    <3> QED BY <3>1, <3>2
  <2>3. \A i \in 1..(Len(s) - 1) :
          s[i] = IF i = currentSender[f.obj] THEN [q[i] EXCEPT !.ref = 0] ELSE q[i]
    BY <2>2, <1>4, <1>9
  <2> QED BY <2>1, <2>2, <2>3, <1>2, <1>10
<1> QED BY <1>0, <1>1, <1>2, <1>5, <1>11, <1>12

LEMMA DestroyBeginsStep == ASSUME IInv, NEW t \in Threads, DestroyBegins(t) PROVE IInv'
<1>1. PICK f : f = Top(t)
  OBVIOUS
<1>3. PICK g : g = Told(f)
  OBVIOUS
<1>5. /\ At(t, "destroy", "destroyed")
      /\ currentSender' = [currentSender EXCEPT ![f.obj] = 0]
      /\ UNCHANGED <<connVars, object, owner>>
  BY <1>1 DEF DestroyBegins
<1>6. /\ stack[t] # <<>> /\ f \in FrameT /\ f.op = "destroy" /\ f.at = "destroyed"
      /\ f.obj \in Objects /\ f.relock = "no" /\ f.conn <= made /\ (f.conn # NoConn => f.walk # <<>>)
      /\ Destroys(t, f)
  BY <1>1, <1>5, DestroyIs
<1>7. /\ g \in FrameT /\ SameNeeds(f, g) /\ g.op = "destroy" /\ g.at = "lockOne" /\ g.obj = f.obj
      /\ g.relock = "no" /\ g.conn = f.conn /\ g.walk = f.walk /\ g.seen = f.seen
  BY <1>3, <1>6 DEF FrameT, SameNeeds, Points, Told
<1>8. Sane(t, g)'
  <2>1. Destroys(t, g)
    BY <1>6, <1>7 DEF Destroys
  <2>2. Sane(t, g)
    BY <2>1, <1>6, <1>7, DestroySane
  <2> QED BY <2>2, <1>5, SaneSame
<1>9. PICK s \in Seq(FrameT) :
        /\ Len(s) = Len(stack[t]) /\ s[Len(s)] = g /\ stack' = [stack EXCEPT ![t] = s]
        /\ \A i \in 1..(Len(s) - 1) : Alike(stack[t][i], s[i])
  BY <1>1, <1>3, <1>7, ToldStack
<1>10. OwnerTyped' /\ LockedTo(t, Holds(g))
  <2>1. Holds(g) = {} /\ Holds(f) = {}
    BY <1>6, <1>7 DEF Holds
  <2> QED BY <2>1, <1>1, <1>5, <1>6, LocksSame
<1>11. DataTyped' /\ Standing' /\ Gentle(t) /\ made' = made
  <2>1. currentSender' \in [Objects -> 0..MaxDepth]
    <3>1. 0 \in 0..MaxDepth
      BY SignalSlotAssumption
    <3> QED BY <3>1, <1>5 DEF IInv, DataTyped
  <2> QED BY <2>1, <1>5, DataSame
<1> QED BY <1>1, <1>6, <1>7, <1>8, <1>9, <1>10, <1>11, TopStep

LEMMA DestroyLocksStep == ASSUME IInv, NEW t \in Threads, DestroyLocks(t) PROVE IInv'
<1>1. PICK f : f = Top(t)
  OBVIOUS
<1>2. /\ At(t, "destroy", "lockOne")
      /\ UNCHANGED <<made, conns, lists, vector, dirty, senders, objectVars>>
  BY DEF DestroyLocks
<1>3. /\ stack[t] # <<>> /\ f \in FrameT /\ f.op = "destroy" /\ f.at = "lockOne"
      /\ f.obj \in Objects /\ f.relock = "no" /\ f.conn <= made /\ (f.conn # NoConn => f.walk # <<>>)
      /\ f.walk \in Seq(Lists) /\ Holds(f) = {} /\ Destroys(t, f) /\ Own(f) \in Mutexes
  BY <1>1, <1>2, DestroyIs, OwnIs DEF Holds
<1>4. f.seen = {} /\ Members(f.walk) = Lists /\ object[f.obj] = "dying" /\ Home[f.obj] = t
  BY <1>3 DEF Destroys
<1>5. currentSender' \in [Objects -> 0..MaxDepth] /\ object' = object
  BY <1>2 DEF objectVars, IInv, DataTyped
<1>6. CASE ~Connected(f.obj)
  <2>1. PICK g : g = [f EXCEPT !.at = "free"]
    OBVIOUS
  <2>2. Put(t, g) /\ UNCHANGED <<owner, inUse>>
    BY <1>1, <1>6, <2>1 DEF DestroyLocks
  <2>3. /\ g \in FrameT /\ SameNeeds(f, g) /\ g.op = "destroy" /\ g.at = "free" /\ g.obj = f.obj
        /\ g.relock = "no" /\ g.conn = f.conn /\ g.walk = f.walk
    BY <2>1, <1>3 DEF FrameT, SameNeeds, Points
  <2>4. Sane(t, g)
    <3>1. Destroys(t, g)
      BY <1>4, <1>6, <2>3 DEF Destroys, Connected
    <3> QED BY <3>1, <2>3, <1>3, DestroySane
  <2>5. OwnerTyped' /\ LockedTo(t, Holds(g))
    <3>1. Holds(g) = {}
      BY <2>3 DEF Holds
    <3> QED BY <3>1, <1>1, <1>3, <2>2, LocksSame
  <2>6. UNCHANGED <<connVars, object>>
    BY <1>2, <1>5, <2>2 DEF connVars
  <2> QED BY <1>1, <1>3, <1>5, <2>2, <2>3, <2>4, <2>5, <2>6, QuietStep
<1>7. CASE Connected(f.obj) /\ vector[f.obj] = "used"
  <2>1. PICK h : h = Begin(f, f.walk)
    OBVIOUS
  <2>2. PICK g : g = [h EXCEPT !.at = "receivers"]
    OBVIOUS
  <2>3. Free(Own(f)) /\ Take(t, Own(f)) /\ Uses(f.obj) /\ Put(t, g)
    BY <1>1, <1>7, <2>1, <2>2 DEF DestroyLocks
  <2>4. /\ h \in FrameT /\ SameNeeds(f, h) /\ h.relock = "no" /\ h.conn \in 0..made
        /\ (h.conn # NoConn => h.walk # <<>>) /\ h.conn = First(Walked(h)) /\ h.walk = f.walk
        /\ h.seen = {}
    BY <1>3, <2>1, BegunIs, BegunAt DEF IInv
  <2>5. /\ g \in FrameT /\ SameNeeds(f, g) /\ g.at = "receivers" /\ g.relock = "no"
        /\ g.op = "destroy" /\ g.conn = h.conn /\ g.walk = f.walk /\ g.obj = f.obj /\ g.seen = {}
        /\ h.obj = f.obj
    <3>1. h.op = "destroy" /\ h.obj = f.obj
      BY <2>4, <1>3 DEF SameNeeds
    <3>2. /\ g \in FrameT /\ g.at = "receivers" /\ g.relock = "no" /\ g.seen = h.seen
          /\ g.op = h.op /\ g.conn = h.conn /\ g.walk = h.walk /\ g.obj = h.obj
      BY <2>2, <2>4 DEF FrameT, Points
    <3> QED BY <3>1, <3>2, <2>4, <1>3 DEF SameNeeds
  <2>6. Sane(t, g)
    <3>1. g.conn <= made
      BY <2>4, <2>5, SignalSlotAssumption DEF IInv, DataTyped
    <3>2. g.conn = First(Walked(g))
      BY <2>4, <2>5 DEF Walked
    <3>3. Destroys(t, g)
      BY <3>2, <2>5, <1>4 DEF Destroys
    <3> QED BY <3>1, <3>3, <2>4, <2>5, DestroySane
  <2>7. OwnerTyped' /\ LockedTo(t, Holds(g))
    <3>1. Holds(g) = {Own(f)}
      BY <2>5 DEF Holds, Own
    <3> QED BY <3>1, <1>1, <1>3, <2>3, LocksTaken
  <2>8. CountsOnly
    BY <1>2, <1>3, <2>3 DEF CountsOnly, Uses, IInv, DataTyped
  <2> QED BY <1>1, <1>3, <2>3, <2>5, <2>6, <2>7, <2>8, CountsStep
<1>8. CASE Connected(f.obj) /\ vector[f.obj] # "used"
  <2>1. PICK g : g = [f EXCEPT !.at = "senders"]
    OBVIOUS
  <2>2. Free(Own(f)) /\ Take(t, Own(f)) /\ Put(t, g) /\ UNCHANGED inUse
    BY <1>1, <1>8, <2>1 DEF DestroyLocks
  <2>3. /\ g \in FrameT /\ SameNeeds(f, g) /\ g.op = "destroy" /\ g.at = "senders"
        /\ g.obj = f.obj /\ g.relock = "no" /\ g.conn = f.conn /\ g.walk = f.walk
        /\ g.seen = f.seen
    BY <2>1, <1>3 DEF FrameT, SameNeeds, Points
  <2>4. Sane(t, g)
    <3>1. Destroys(t, g)
      BY <1>4, <1>8, <2>3 DEF Destroys
    <3> QED BY <3>1, <2>3, <1>3, DestroySane
  <2>5. OwnerTyped' /\ LockedTo(t, Holds(g))
    <3>1. Holds(g) = {Own(f)}
      BY <2>3 DEF Holds, Own
    <3> QED BY <3>1, <1>1, <1>3, <2>2, LocksTaken
  <2>6. UNCHANGED <<connVars, object>>
    BY <1>2, <1>5, <2>2 DEF connVars
  <2> QED BY <1>1, <1>3, <1>5, <2>2, <2>3, <2>4, <2>5, <2>6, QuietStep
<1> QED BY <1>6, <1>7, <1>8

\* The first connection of the list is deleted.
LEMMA DeleteStep ==
  ASSUME IInv, NEW t \in Threads, NEW f, f = Top(t), stack[t] # <<>>, f \in FrameT, Sane(t, f),
         f.at = "receivers", f.op = "destroy", f.conn # NoConn, DeleteFirst(t, f),
         senders' \in [Objects -> Seq(Conns)],
         \A o \in Objects :
           Once(senders'[o]) /\ Members(senders'[o]) = Members(senders[o]) \ {f.conn},
         UNCHANGED <<made, vector, inUse, dirty, objectVars>>,
         OwnerTyped', LockedTo(t, {Own(f)})
  PROVE  IInv'
<1>1. PICK c : c = f.conn
  OBVIOUS
<1>2. PICK k : k = Head(f.walk)
  OBVIOUS
<1>3. PICK rest : rest = Minus(lists[f.obj][k], {c})
  OBVIOUS
<1>4. PICK g : g = [f EXCEPT !.conn = First(rest), !.relock = "no"]
  OBVIOUS
<1>5. /\ lists' = [lists EXCEPT ![f.obj][k] = rest]
      /\ conns' = [conns EXCEPT ![c].freed = TRUE, ![c].receiver = Nobody]
      /\ Put(t, g)
  BY <1>1, <1>2, <1>3, <1>4 DEF DeleteFirst
<1>6. /\ c \in 1..made /\ c \in Conns /\ f.walk # <<>> /\ f.walk \in Seq(Lists) /\ k \in Lists
      /\ lists[f.obj][k] \in Seq(Conns) /\ Walked(f) = lists[f.obj][k] /\ f.obj \in Objects
  BY <1>1, <1>2, ConnIs, OwnIs DEF FrameT
<1>7. /\ object[f.obj] = "dying" /\ Home[f.obj] = t /\ f.seen = {} /\ c = First(Walked(f))
      /\ \A l \in Lists \ Members(f.walk) : lists[f.obj][l] = <<>>
  BY <1>1 DEF Sane, Destroys
<1>8. c \in Members(lists[f.obj][k]) /\ conns[c].sender = f.obj /\ conns[c].list = k
  <2>1. c \in Members(lists[f.obj][k])
    BY <1>1, <1>6, <1>7, EndsAre
  <2> QED BY <2>1, <1>6 DEF IInv, Standing, Sent
<1>9. /\ rest \in Seq(Conns) /\ Rising(rest) /\ Members(rest) = Members(lists[f.obj][k]) \ {c}
      /\ First(rest) \in 0..made /\ First(rest) \in 0..MaxConns
  <2>1. Rising(lists[f.obj][k]) /\ \A d \in Members(lists[f.obj][k]) : d \in 1..made
    BY <1>6 DEF IInv, Standing, Sent
  <2>2. rest \in Seq(Conns) /\ Rising(rest) /\ Members(rest) = Members(lists[f.obj][k]) \ {c}
    BY <1>3, <1>6, <2>1, MinusIs
  <2>3. First(rest) \in Members(rest) \cup {NoConn}
    BY <2>2, EndsAre
  <2>4. First(rest) \in 1..made \/ First(rest) = 0
    BY <2>1, <2>2, <2>3 DEF NoConn
  <2>5. made \in Nat /\ made <= MaxConns /\ MaxConns \in Nat
    BY SignalSlotAssumption DEF IInv, DataTyped
  <2> QED BY <2>2, <2>4, <2>5
<1>10. /\ g \in FrameT /\ SameNeeds(f, g) /\ g.at = "receivers" /\ g.relock = "no"
       /\ g.op = "destroy" /\ g.conn = First(rest) /\ g.walk = f.walk /\ g.obj = f.obj
       /\ g.seen = f.seen
  BY <1>4, <1>9 DEF FrameT, SameNeeds
<1>11. /\ conns' \in [Conns -> ConnT]
       /\ \A d \in Conns :
            /\ conns'[d].sender = conns[d].sender /\ conns'[d].list = conns[d].list
            /\ conns'[d].freed <=> conns[d].freed \/ d = c
            /\ conns'[d].receiver = IF d = c THEN Nobody ELSE conns[d].receiver
  <2>1. PICK x : x = [conns[c] EXCEPT !.freed = TRUE, !.receiver = Nobody]
    OBVIOUS
  <2>2. conns \in [Conns -> ConnT] /\ conns[c] \in ConnT
    BY <1>6 DEF IInv, DataTyped
  <2>3. /\ x \in ConnT /\ x.sender = conns[c].sender /\ x.list = conns[c].list /\ x.freed
        /\ x.receiver = Nobody
    BY <2>1, <2>2 DEF ConnT, SomeObject
  <2>4. conns' = [conns EXCEPT ![c] = x]
    BY <1>5, <1>6, <2>1, <2>2
  <2> QED BY <2>2, <2>3, <2>4, <1>6
<1>12. /\ lists' \in [Objects -> [Lists -> Seq(Conns)]] /\ lists'[f.obj][k] = rest
       /\ \A x \in Objects : x # f.obj => lists'[x] = lists[x]
       /\ \A l \in Lists : l # k => lists'[f.obj][l] = lists[f.obj][l]
  <2>1. lists \in [Objects -> [Lists -> Seq(Conns)]]
    BY DEF IInv, DataTyped
  <2> QED BY <2>1, <1>5, <1>6, <1>9
<1>13. DataTyped'
  BY <1>11, <1>12 DEF IInv, DataTyped, objectVars
<1>14. Breaks({c}, {c})
  <2>1. \A d \in 1..made : d \in Conns
    BY SignalSlotAssumption DEF Conns, IInv, DataTyped
  <2>2. ASSUME NEW o \in Objects, NEW l \in Lists
        PROVE  Rising(lists'[o][l]) /\ Members(lists'[o][l]) = Members(lists[o][l]) \ {c}
    <3>1. CASE o = f.obj /\ l = k
      BY <3>1, <1>9, <1>12
    <3>2. CASE ~(o = f.obj /\ l = k)
      <4>1. lists'[o][l] = lists[o][l]
        BY <3>2, <1>12
      <4>2. c \notin Members(lists[o][l]) /\ Rising(lists[o][l])
        BY <3>2, <1>8 DEF IInv, Standing, Sent
      <4> QED BY <4>1, <4>2
    <3> QED BY <3>1, <3>2
  <2> QED BY <1>1, <1>11, <2>1, <2>2 DEF Breaks, objectVars
<1>15. Standing' /\ Gentle(t)
  <2>1. \A o \in Objects : o # Top(t).obj => lists'[o] = lists[o] /\ vector'[o] = vector[o]
    BY <1>12
  <2>2. \A o \in Objects : ~(vector'[o] # "used" /\ vector[o] = "used")
    OBVIOUS
  <2> QED BY <1>13, <1>14, <2>1, <2>2, BreaksKeep
<1>16. Sane(t, g)'
  <2>1. Placed(g)' /\ Relocks(g)' /\ Connects(g)'
    BY <1>6, <1>10 DEF Placed, Relocks, Connects
  <2>2. AtConn(g)'
    <3>1. g.conn <= made
      BY <1>9, <1>10, SignalSlotAssumption DEF IInv, DataTyped
    <3> QED BY <3>1, <1>10 DEF AtConn
  <2>3. Destroys(t, g)'
    <3>1. Walked(g)' = rest
      BY <1>2, <1>6, <1>10, <1>12 DEF Walked
    <3>2. \A l \in Lists \ Members(g.walk) : lists'[g.obj][l] = <<>>
      <4>1. k \in Members(f.walk)
        BY <1>2, <1>6, TailIs
      <4> QED BY <4>1, <1>7, <1>10, <1>12
    <3> QED BY <3>1, <3>2, <1>7, <1>10 DEF Destroys, objectVars
  <2> QED BY <2>1, <2>2, <2>3 DEF Sane
<1>17. LockedTo(t, Holds(g))
  <2>1. Holds(g) = {Own(f)}
    BY <1>10 DEF Holds, Own
  <2> QED BY <2>1
<1> QED BY <1>5, <1>10, <1>13, <1>15, <1>16, <1>17, PutStep

LEMMA DestroyBrokenStep == ASSUME IInv, NEW t \in Threads, DestroyBroken(t) PROVE IInv'
<1>1. PICK f : f = Top(t)
  OBVIOUS
<1>2. /\ At(t, "destroy", "receivers") /\ f.relock = "no" /\ f.conn # NoConn
      /\ Receiver(f) = Nobody /\ DeleteFirst(t, f)
      /\ UNCHANGED <<made, vector, inUse, dirty, senders, objectVars, owner>>
  BY <1>1 DEF DestroyBroken
<1>3. /\ stack[t] # <<>> /\ f \in FrameT /\ Sane(t, f) /\ f.at = "receivers" /\ f.op = "destroy"
  BY <1>1, <1>2, DestroyIs
<1>4. senders' \in [Objects -> Seq(Conns)]
  BY <1>2 DEF IInv, DataTyped
<1>5. ASSUME NEW o \in Objects
      PROVE  Once(senders'[o]) /\ Members(senders'[o]) = Members(senders[o]) \ {f.conn}
  <2>1. /\ Once(senders[o]) /\ Members(senders[o]) = {c \in 1..made : conns[c].receiver = o}
        /\ o # Nobody
    BY SignalSlotAssumption DEF IInv, Standing, Received
  <2>2. f.conn \notin Members(senders[o])
    BY <2>1, <1>2 DEF Receiver
  <2> QED BY <2>1, <2>2, <1>2
<1>6. OwnerTyped' /\ LockedTo(t, {Own(f)})
  <2>1. Holds(f) = {Own(f)}
    BY <1>2, <1>3 DEF Holds
  <2> QED BY <2>1, <1>1, <1>2, <1>3, LocksSame
<1> QED BY <1>1, <1>2, <1>3, <1>4, <1>5, <1>6, DeleteStep

LEMMA DestroyReceiverStep == ASSUME IInv, NEW t \in Threads, DestroyReceiver(t) PROVE IInv'
<1>1. PICK f : f = Top(t)
  OBVIOUS
<1>2. /\ WithOther(t, "receivers") /\ LeaveSenders(f.conn) /\ DeleteFirst(t, f)
      /\ UNCHANGED <<made, vector, inUse, dirty, objectVars>>
  BY <1>1 DEF DestroyReceiver
<1>3. /\ stack[t] # <<>> /\ f \in FrameT /\ Sane(t, f) /\ f.at = "receivers" /\ f.op = "destroy"
      /\ OwnerTyped' /\ LockedTo(t, {Own(f)}) /\ f.conn # NoConn
  BY <1>1, <1>2, WithOtherIs
<1>4. f.conn \in 1..made
  BY <1>3, ConnIs
<1>5. /\ senders' \in [Objects -> Seq(Conns)]
      /\ \A o \in Objects :
           Once(senders'[o]) /\ Members(senders'[o]) = Members(senders[o]) \ {f.conn}
  BY <1>2, <1>4, LeavesIs
<1> QED BY <1>1, <1>2, <1>3, <1>5, DeleteStep

LEMMA DestroyListStep == ASSUME IInv, NEW t \in Threads, DestroyList(t) PROVE IInv'
<1>1. PICK f : f = Top(t)
  OBVIOUS
<1>2. PICK g : g = Begin(f, Tail(f.walk))
  OBVIOUS
<1>3. /\ At(t, "destroy", "receivers") /\ f.conn = NoConn /\ f.walk # <<>> /\ Put(t, g)
      /\ UNCHANGED <<connVars, objectVars, owner>>
  BY <1>1, <1>2 DEF DestroyList
<1>4. /\ stack[t] # <<>> /\ f \in FrameT /\ f.op = "destroy" /\ f.at = "receivers"
      /\ f.obj \in Objects /\ f.relock = "no" /\ f.walk \in Seq(Lists) /\ Destroys(t, f)
  BY <1>1, <1>3, DestroyIs
<1>5. /\ Tail(f.walk) \in Seq(Lists) /\ Head(f.walk) \in Lists
      /\ Members(f.walk) = Members(Tail(f.walk)) \cup {Head(f.walk)}
  BY <1>3, <1>4, TailIs
<1>6. /\ g \in FrameT /\ SameNeeds(f, g) /\ g.at = "receivers" /\ g.relock = "no"
      /\ g.conn \in 0..made /\ (g.conn # NoConn => g.walk # <<>>) /\ g.conn = First(Walked(g))
      /\ g.walk = Tail(f.walk) /\ g.seen = {}
  BY <1>2, <1>4, <1>5, BegunIs, BegunAt DEF IInv
<1>7. g.op = "destroy" /\ g.obj = f.obj
  BY <1>4, <1>6 DEF SameNeeds
<1>8. Sane(t, g)
  <2>1. lists[f.obj][Head(f.walk)] = <<>>
    <3>1. lists[f.obj][Head(f.walk)] \in Seq(Conns)
      BY <1>4, <1>5 DEF IInv, DataTyped
    <3>2. First(lists[f.obj][Head(f.walk)]) = NoConn
      BY <1>3, <1>4 DEF Destroys, Walked
    <3> QED BY <3>1, <3>2, EndsAre
  <2>2. /\ object[f.obj] = "dying" /\ Home[f.obj] = t
        /\ \A l \in Lists \ Members(f.walk) : lists[f.obj][l] = <<>>
    BY <1>4 DEF Destroys
  <2>3. \A l \in Lists \ Members(g.walk) : lists[g.obj][l] = <<>>
    BY <2>1, <2>2, <1>5, <1>6, <1>7
  <2>4. Destroys(t, g)
    BY <2>2, <2>3, <1>6, <1>7 DEF Destroys
  <2>5. g.conn <= made
    BY <1>6, SignalSlotAssumption DEF IInv, DataTyped
  <2> QED BY <2>4, <2>5, <1>6, <1>7, DestroySane
<1>9. OwnerTyped' /\ LockedTo(t, Holds(g))
  <2>1. Holds(g) = Holds(f)
    BY <1>4, <1>6, <1>7 DEF Holds, Own
  <2> QED BY <2>1, <1>1, <1>3, <1>4, LocksSame
<1>10. UNCHANGED <<connVars, object>> /\ currentSender' \in [Objects -> 0..MaxDepth]
  BY <1>3 DEF objectVars, IInv, DataTyped
<1> QED BY <1>1, <1>3, <1>4, <1>6, <1>8, <1>9, <1>10, QuietStep

LEMMA DestroyVectorStep == ASSUME IInv, NEW t \in Threads, DestroyVector(t) PROVE IInv'
<1>1. PICK f : f = Top(t)
  OBVIOUS
<1>2. PICK n : n = inUse[f.obj] - 1
  OBVIOUS
<1>3. PICK v : v = IF n = 0 THEN "deleted" ELSE "orphaned"
  OBVIOUS
<1>4. PICK g : g = [f EXCEPT !.at = "senders"]
  OBVIOUS
<1>5. /\ At(t, "destroy", "receivers") /\ f.walk = <<>>
      /\ inUse' = [inUse EXCEPT ![f.obj] = n] /\ vector' = [vector EXCEPT ![f.obj] = v]
      /\ Put(t, g) /\ UNCHANGED <<made, conns, lists, dirty, senders, objectVars, owner>>
  BY <1>1, <1>2, <1>3, <1>4 DEF DestroyVector
<1>6. /\ stack[t] # <<>> /\ f \in FrameT /\ f.op = "destroy" /\ f.at = "receivers"
      /\ f.obj \in Objects /\ f.conn <= made /\ f.conn = NoConn /\ Destroys(t, f)
  BY <1>1, <1>5, DestroyIs
<1>7. f.relock = "no"
  BY <1>1, <1>5, <1>6, DestroyIs
<1>8. /\ g \in FrameT /\ SameNeeds(f, g) /\ g.at = "senders" /\ g.relock = "no" /\ g.op = "destroy"
      /\ g.conn = f.conn /\ g.obj = f.obj /\ g.seen = f.seen /\ g.walk = f.walk
  BY <1>4, <1>6, <1>7 DEF FrameT, SameNeeds, Points
<1>9. /\ object[f.obj] = "dying" /\ Home[f.obj] = t /\ f.seen = {}
      /\ \A l \in Lists : lists[f.obj][l] = <<>>
  <2>1. Members(<<>>) = {}
    BY DEF Members
  <2> QED BY <2>1, <1>5, <1>6 DEF Destroys
<1>10. /\ vector' \in [Objects -> {"none", "used", "orphaned", "deleted"}] /\ vector'[f.obj] # "used"
       /\ \A x \in Objects : x # f.obj => vector'[x] = vector[x]
       /\ inUse' \in [Objects -> Int]
  <2>1. v \in {"orphaned", "deleted"} /\ n \in Int
    BY <1>2, <1>3, <1>6 DEF IInv, DataTyped
  <2> QED BY <2>1, <1>5, <1>6 DEF IInv, DataTyped
<1>11. DataTyped'
  BY <1>5, <1>10 DEF IInv, DataTyped, objectVars
<1>12. Breaks({}, {})
  BY <1>5, NothingBreaks DEF objectVars
<1>13. Standing' /\ Gentle(t)
  <2>1. \A o \in Objects : o # Top(t).obj => lists'[o] = lists[o] /\ vector'[o] = vector[o]
    BY <1>1, <1>5, <1>10
  <2>2. \A o \in Objects : vector'[o] # "used" /\ vector[o] = "used" =>
                             \A l \in Lists : lists'[o][l] = <<>>
    BY <1>5, <1>9, <1>10
  <2> QED BY <1>6, <1>11, <1>12, <2>1, <2>2, BreaksKeep
<1>14. Sane(t, g)'
  <2>1. Destroys(t, g)'
    BY <1>5, <1>8, <1>9, <1>10 DEF Destroys, objectVars
  <2>2. Placed(g)' /\ Relocks(g)' /\ Connects(g)' /\ AtConn(g)'
    BY <1>5, <1>6, <1>8 DEF Placed, Relocks, Connects, AtConn
  <2> QED BY <2>1, <2>2 DEF Sane
<1>15. OwnerTyped' /\ LockedTo(t, Holds(g))
  <2>1. Holds(g) = Holds(f)
    BY <1>6, <1>7, <1>8 DEF Holds, Own
  <2> QED BY <2>1, <1>1, <1>5, <1>6, LocksSame
<1>16. made' = made /\ SameNeeds(Top(t), g)
  BY <1>1, <1>5, <1>8
<1> QED BY <1>5, <1>6, <1>8, <1>11, <1>13, <1>14, <1>15, <1>16, PutStep

LEMMA DestroySenderStep == ASSUME IInv, NEW t \in Threads, DestroySender(t) PROVE IInv'
<1>1. PICK f : f = Top(t)
  OBVIOUS
<1>2. PICK c : c = Current(f)
  OBVIOUS
<1>3. PICK s : s = conns[c].sender
  OBVIOUS
<1>4. WithOther(t, "senders") /\ UNCHANGED <<made, lists, vector, inUse, objectVars>>
  BY DEF DestroySender
<1>5. /\ stack[t] # <<>> /\ f \in FrameT /\ Sane(t, f) /\ f.at = "senders" /\ f.op = "destroy"
      /\ f.obj \in Objects /\ OwnerTyped' /\ LockedTo(t, {Own(f)}) /\ f.relock \in {"no", "own"}
      /\ (f.relock = "no" => Meets(t))
  BY <1>1, <1>4, WithOtherIs
<1>6. /\ object[f.obj] = "dying" /\ Home[f.obj] = t /\ vector[f.obj] # "used"
      /\ f.seen \cap Members(senders[f.obj]) = {}
      /\ f.conn <= made /\ (f.conn # NoConn => f.walk # <<>>)
  BY <1>5 DEF Sane, Destroys, Placed, AtConn
<1>7. /\ senders \in [Objects -> Seq(Conns)] /\ senders[f.obj] \in Seq(Conns) /\ Once(senders[f.obj])
      /\ Members(senders[f.obj]) = {d \in 1..made : conns[d].receiver = f.obj}
  BY <1>5 DEF IInv, DataTyped, Standing, Received
<1>8. CASE f.relock = "own" /\ ~SameNode(f)
  <2>1. PICK g : g = [f EXCEPT !.relock = "no"]
    OBVIOUS
  <2>2. Put(t, g) /\ UNCHANGED <<conns, dirty, senders>>
    BY <1>1, <1>8, <2>1 DEF DestroySender
  <2>3. /\ g \in FrameT /\ SameNeeds(f, g) /\ g.at = "senders" /\ g.relock = "no"
        /\ g.op = "destroy" /\ g.conn = f.conn /\ g.obj = f.obj /\ g.seen = f.seen
        /\ g.walk = f.walk
    BY <1>5, <2>1 DEF FrameT, SameNeeds
  <2>4. Sane(t, g)
    <3>1. Destroys(t, g)
      BY <2>3, <1>6 DEF Destroys
    <3> QED BY <3>1, <2>3, <1>6, DestroySane
  <2>5. LockedTo(t, Holds(g))
    <3>1. Holds(g) = {Own(f)}
      BY <2>3 DEF Holds, Own
    <3> QED BY <3>1, <1>5
  <2>6. UNCHANGED <<connVars, object>> /\ currentSender' \in [Objects -> 0..MaxDepth]
    BY <1>4, <2>2 DEF connVars, objectVars, IInv, DataTyped
  <2> QED BY <1>1, <1>5, <2>2, <2>3, <2>4, <2>5, <2>6, QuietStep
<1>9. CASE ~(f.relock = "own" /\ ~SameNode(f))
  <2>1. PICK g : g = [f EXCEPT !.relock = "no", !.seen = @ \cup {c}]
    OBVIOUS
  <2>2. /\ Put(t, g) /\ conns' = [conns EXCEPT ![c].receiver = Nobody]
        /\ dirty' = [dirty EXCEPT ![s] = @ \/ vector[s] = "used"]
        /\ senders' = [senders EXCEPT ![f.obj] = Tail(@)]
    BY <1>1, <1>2, <1>3, <1>9, <2>1 DEF DestroySender
  <2>3. senders[f.obj] # <<>> /\ c = Head(senders[f.obj])
    <3>1. senders[f.obj] # <<>>
      <4>1. CASE f.relock = "own"
        BY <4>1, <1>9 DEF SameNode
      <4>2. CASE f.relock = "no"
        BY <4>2, <1>1, <1>5, MeetIs
      <4> QED BY <4>1, <4>2, <1>5
    <3> QED BY <3>1, <1>2, <1>5 DEF Current, First
  <2>4. /\ Tail(senders[f.obj]) \in Seq(Conns) /\ Once(Tail(senders[f.obj]))
        /\ c \in Members(senders[f.obj])
        /\ Members(Tail(senders[f.obj])) = Members(senders[f.obj]) \ {c}
    <3>1. /\ Tail(senders[f.obj]) \in Seq(Conns) /\ c \in Members(senders[f.obj])
          /\ Members(senders[f.obj]) = Members(Tail(senders[f.obj])) \cup {c}
          /\ Once(Tail(senders[f.obj])) /\ c \notin Members(Tail(senders[f.obj]))
      BY <1>7, <2>3, TailIs
    <3> QED BY <3>1
  <2>5. /\ c \in 1..made /\ c \in Conns /\ c \in 0..MaxConns /\ conns[c].receiver = f.obj
        /\ \A d \in 1..made : d \in Conns
    <3>1. c \in 1..made /\ conns[c].receiver = f.obj
      BY <2>4, <1>7
    <3>2. \A d \in 1..made : d \in Conns /\ d \in 0..MaxConns
      BY SignalSlotAssumption DEF Conns, IInv, DataTyped
    <3> QED BY <3>1, <3>2
  <2>6. /\ g \in FrameT /\ SameNeeds(f, g) /\ g.at = "senders" /\ g.relock = "no"
        /\ g.op = "destroy" /\ g.conn = f.conn /\ g.obj = f.obj /\ g.seen = f.seen \cup {c}
        /\ g.walk = f.walk
    BY <1>5, <2>1, <2>5 DEF FrameT, SameNeeds
  <2>7. /\ conns' \in [Conns -> ConnT]
        /\ \A d \in Conns :
             /\ conns'[d].sender = conns[d].sender /\ conns'[d].list = conns[d].list
             /\ conns'[d].freed = conns[d].freed
             /\ conns'[d].receiver = IF d = c THEN Nobody ELSE conns[d].receiver
    <3>1. conns \in [Conns -> ConnT]
      BY DEF IInv, DataTyped
    <3> QED BY <3>1, <2>2, <2>5 DEF ConnT, SomeObject
  <2>8. /\ senders' \in [Objects -> Seq(Conns)]
        /\ senders'[f.obj] = Tail(senders[f.obj])
        /\ \A o \in Objects : o # f.obj => senders'[o] = senders[o]
    BY <1>5, <1>7, <2>2, <2>4
  <2>9. ASSUME NEW o \in Objects
        PROVE  Once(senders'[o]) /\ Members(senders'[o]) = Members(senders[o]) \ {c}
    <3>1. CASE o = f.obj
      BY <3>1, <2>4, <2>8
    <3>2. CASE o # f.obj
      <4>1. Once(senders[o]) /\ c \notin Members(senders[o])
        BY <3>2, <2>5 DEF IInv, Standing, Received
      <4> QED BY <4>1, <3>2, <2>8
    <3> QED BY <3>1, <3>2
  <2>10. DataTyped'
    <3>1. dirty' \in [Objects -> BOOLEAN]
      <4>1. (dirty[s] \/ vector[s] = "used") \in BOOLEAN
        OBVIOUS
      <4> QED BY <4>1, <2>2 DEF IInv, DataTyped
    <3> QED BY <3>1, <1>4, <2>7, <2>8 DEF IInv, DataTyped, objectVars
  <2>11. Breaks({c}, {})
    <3>1. \A o \in Objects, l \in Lists :
            Rising(lists'[o][l]) /\ Members(lists'[o][l]) = Members(lists[o][l]) \ {}
      BY <1>4 DEF IInv, Standing, Sent
    <3> QED BY <1>4, <2>5, <2>7, <2>9, <3>1 DEF Breaks, objectVars
  <2>12. Standing' /\ Gentle(t)
    <3>1. \A o \in Objects : lists'[o] = lists[o] /\ vector'[o] = vector[o]
      BY <1>4
    <3>2. \A o \in Objects : ~(vector'[o] # "used" /\ vector[o] = "used")
      BY <1>4
    <3> QED BY <1>5, <2>10, <2>11, <3>1, <3>2, BreaksKeep
  <2>13. Sane(t, g)'
    <3>1. Destroys(t, g)'
      <4>1. g.seen \cap Members(senders'[g.obj]) = {}
        BY <1>6, <2>4, <2>6, <2>8
      <4> QED BY <4>1, <1>4, <1>6, <2>6 DEF Destroys, objectVars
    <3>2. Placed(g)' /\ Relocks(g)' /\ Connects(g)' /\ AtConn(g)'
      BY <1>4, <1>6, <2>6 DEF Placed, Relocks, Connects, AtConn
    <3> QED BY <3>1, <3>2 DEF Sane
  <2>14. LockedTo(t, Holds(g))
    <3>1. Holds(g) = {Own(f)}
      BY <2>6 DEF Holds, Own
    <3> QED BY <3>1, <1>5
  <2>15. made' = made /\ SameNeeds(Top(t), g)
    BY <1>1, <1>4, <2>6
  <2> QED BY <1>5, <2>2, <2>6, <2>10, <2>12, <2>13, <2>14, <2>15, PutStep
<1> QED BY <1>8, <1>9

LEMMA DestroyUnlocksStep == ASSUME IInv, NEW t \in Threads, DestroyUnlocks(t) PROVE IInv'
<1>1. PICK f : f = Top(t)
  OBVIOUS
<1>2. PICK g : g = [f EXCEPT !.at = "free"]
  OBVIOUS
<1>3. /\ At(t, "destroy", "senders") /\ f.relock = "no" /\ senders[f.obj] = <<>>
      /\ Release(Own(f)) /\ Put(t, g) /\ UNCHANGED <<connVars, objectVars>>
  BY <1>1, <1>2 DEF DestroyUnlocks
<1>4. /\ stack[t] # <<>> /\ f \in FrameT /\ f.op = "destroy" /\ f.at = "senders"
      /\ f.obj \in Objects /\ f.conn <= made /\ (f.conn # NoConn => f.walk # <<>>)
      /\ Destroys(t, f)
  BY <1>1, <1>3, DestroyIs
<1>5. /\ g \in FrameT /\ SameNeeds(f, g) /\ g.at = "free" /\ g.relock = "no" /\ g.op = "destroy"
      /\ g.conn = f.conn /\ g.obj = f.obj /\ g.walk = f.walk
  BY <1>2, <1>3, <1>4 DEF FrameT, SameNeeds, Points
<1>6. Sane(t, g)
  <2>1. Destroys(t, g)
    BY <1>3, <1>4, <1>5 DEF Destroys
  <2> QED BY <2>1, <1>4, <1>5, DestroySane
<1>7. OwnerTyped' /\ LockedTo(t, Holds(g))
  <2>1. Holds(g) = {} /\ Holds(f) = {Own(f)}
    BY <1>3, <1>4, <1>5 DEF Holds
  <2> QED BY <2>1, <1>1, <1>3, <1>4, LocksReleased
<1>8. UNCHANGED <<connVars, object>> /\ currentSender' \in [Objects -> 0..MaxDepth]
  BY <1>3 DEF objectVars, IInv, DataTyped
<1> QED BY <1>1, <1>3, <1>4, <1>5, <1>6, <1>7, <1>8, QuietStep

LEMMA DestroyEndsStep == ASSUME IInv, NEW t \in Threads, DestroyEnds(t) PROVE IInv'
<1>1. PICK f : f = Top(t)
  OBVIOUS
<1>2. /\ At(t, "destroy", "free") /\ object' = [object EXCEPT ![f.obj] = "gone"] /\ Pop(t)
      /\ UNCHANGED <<connVars, currentSender, owner>>
  BY <1>1 DEF DestroyEnds
<1>3. /\ stack[t] # <<>> /\ f \in FrameT /\ f.op = "destroy" /\ f.at = "free"
      /\ f.obj \in Objects /\ Destroys(t, f)
  BY <1>1, <1>2, DestroyIs
<1>4. /\ object' \in [Objects -> {"alive", "dying", "gone"}]
      /\ \A o \in Objects : o # f.obj => object'[o] = object[o]
  BY <1>2, <1>3 DEF IInv, DataTyped
<1>5. DataTyped'
  BY <1>2, <1>4 DEF IInv, DataTyped, connVars
<1>6. Standing'
  <2>1. Sent' /\ Received'
    BY <1>2 DEF IInv, Standing, Sent, Received, connVars
  <2>2. Joined'
    <3> SUFFICES ASSUME NEW c \in 1..made, conns[c].receiver # Nobody
                 PROVE  /\ ~conns[c].freed
                        /\ object'[conns[c].sender] # "gone"
                        /\ object'[conns[c].receiver] # "gone"
      BY <1>2 DEF Joined, connVars, IInv, Standing
    <3>1. c \in Conns
      BY SignalSlotAssumption DEF Conns, IInv, DataTyped
    <3>2. conns[c].receiver \in Objects /\ conns[c].list \in Lists
      BY <3>1 DEF IInv, DataTyped, ConnT, SomeObject
    <3>3. /\ ~conns[c].freed /\ conns[c].sender \in Objects /\ object[conns[c].sender] # "gone"
          /\ object[conns[c].receiver] # "gone"
      BY DEF IInv, Standing, Joined
    <3>4. conns[c].receiver # f.obj
      <4>1. senders[f.obj] = <<>> /\ senders[f.obj] \in Seq(Conns)
        BY <1>3 DEF Destroys, IInv, DataTyped
      <4>2. Members(senders[f.obj]) = {}
        BY <4>1, EndsAre
      <4> QED BY <4>2, <1>3 DEF IInv, Standing, Received
    <3>5. conns[c].sender # f.obj
      <4>1. vector[f.obj] # "used"
        BY <1>3 DEF Destroys
      <4>2. lists[f.obj][conns[c].list] = <<>> /\ lists[f.obj][conns[c].list] \in Seq(Conns)
        BY <4>1, <1>3, <3>2 DEF IInv, Standing, Sent, DataTyped
      <4>3. Members(lists[f.obj][conns[c].list]) = {}
        BY <4>2, EndsAre
      <4> QED BY <4>3, <1>3, <3>2, <3>3 DEF IInv, Standing, Sent
    <3> QED BY <3>2, <3>3, <3>4, <3>5, <1>4
  <2> QED BY <2>1, <2>2 DEF Standing
<1>7. Gentle(t)
  <2>1. made <= made'
    BY <1>2, SignalSlotAssumption DEF IInv, DataTyped, connVars
  <2> QED BY <2>1, <1>1, <1>2, <1>3, <1>4 DEF Gentle, connVars
<1>8. OwnerTyped' /\ LockedTo(t, {})
  <2>1. Holds(f) = {}
    BY <1>3 DEF Holds
  <2> QED BY <2>1, <1>1, <1>2, <1>3, LocksSame
<1>9. made' = made
  BY <1>2 DEF connVars
<1> QED BY <1>2, <1>3, <1>5, <1>6, <1>7, <1>8, <1>9, PopStep

-----------------------------------------------------------------------------
(* The invariant holds.                                                    *)

LEMMA InitKeeps == ASSUME Init PROVE IInv
<1>1. /\ Nobody \notin Objects /\ Nobody \notin Threads /\ MaxConns \in Nat /\ MaxDepth \in Nat
      /\ 0 \in 0..MaxConns /\ 0 \in 0..MaxDepth
  BY SignalSlotAssumption
<1>2. /\ <<>> \in Seq(Conns) /\ <<>> \in Seq(FrameT) /\ Len(<<>>) = 0 /\ DOMAIN <<>> = {}
      /\ Members(<<>>) = {}
  <2>1. Len(<<>>) = 0 /\ DOMAIN <<>> = {}
    OBVIOUS
  <2> QED BY <2>1 DEF Members
<1>3. \A t \in Threads : stack[t] = <<>>
  BY DEF Init
<1>4. DataTyped
  <2>1. Nobody \in SomeObject /\ "auto" \in AllKinds /\ "sig" \in Lists
    BY DEF SomeObject, AllKinds, Lists
  <2>2. conns \in [Conns -> ConnT]
    BY <2>1 DEF Init, ConnT
  <2>3. lists \in [Objects -> [Lists -> Seq(Conns)]] /\ senders \in [Objects -> Seq(Conns)]
    BY <1>2 DEF Init
  <2>4. /\ made \in 0..MaxConns /\ inUse \in [Objects -> Int] /\ dirty \in [Objects -> BOOLEAN]
        /\ vector \in [Objects -> {"none", "used", "orphaned", "deleted"}]
        /\ object \in [Objects -> {"alive", "dying", "gone"}]
        /\ currentSender \in [Objects -> 0..MaxDepth]
    BY <1>1 DEF Init
  <2> QED BY <2>2, <2>3, <2>4 DEF DataTyped
<1>5. CallsTyped
  BY <1>1, <1>2 DEF Init, CallsTyped
<1>6. 1..made = {}
  BY DEF Init
<1>7. Standing
  <2>1. \A o \in Objects : senders[o] = <<>> /\ \A l \in Lists : lists[o][l] = <<>>
    BY DEF Init
  <2>2. Rising(<<>>) /\ Once(<<>>)
    BY <1>2 DEF Rising, Once
  <2>3. Sent
    <3>1. ASSUME NEW o \in Objects, NEW l \in Lists
          PROVE  {c \in 1..made : conns[c].sender = o /\ conns[c].list = l /\ ~conns[c].freed} = {}
      BY <1>6
    <3> QED BY <1>2, <2>1, <2>2, <3>1 DEF Sent
  <2>5. Received
    <3>1. ASSUME NEW o \in Objects PROVE {c \in 1..made : conns[c].receiver = o} = {}
      BY <1>6
    <3> QED BY <1>2, <2>1, <2>2, <3>1 DEF Received
  <2>4. Joined
    BY <1>6 DEF Joined
  <2> QED BY <2>3, <2>4, <2>5 DEF Standing
<1>8. Locked
  BY <1>1, <1>3 DEF Locked, Init
<1>9. Called
  BY <1>2, <1>3 DEF Called
<1>10. Room
  <2>1. \A t \in Threads : Frames(t) = {}
    BY <1>2, <1>3 DEF Frames
  <2>2. {u \in Threads : Connecting(u)} = {}
    BY <2>1 DEF Connecting
  <2> HIDE DEF Connecting
  <2>3. Cardinality({u \in Threads : Connecting(u)}) = 0
    BY <2>2, FS_EmptySet
  <2> QED BY <2>3, <1>1 DEF Room, Init
<1> QED BY <1>4, <1>5, <1>7, <1>8, <1>9, <1>10 DEF IInv

LEMMA StutterKeeps == ASSUME IInv, UNCHANGED vars PROVE IInv'
<1>1. /\ made' = made /\ conns' = conns /\ lists' = lists /\ vector' = vector /\ inUse' = inUse
      /\ dirty' = dirty /\ senders' = senders /\ object' = object
      /\ currentSender' = currentSender /\ owner' = owner /\ stack' = stack
  BY DEF vars, connVars, objectVars
<1>2. DataTyped' /\ CallsTyped'
  BY <1>1 DEF IInv, DataTyped, CallsTyped
<1>3. Standing'
  BY <1>1 DEF IInv, Standing, Sent, Received, Joined
<1>4. Locked'
  BY <1>1 DEF IInv, Locked, Top
<1>5. Called'
  <2>1. \A t, f : Sane(t, f) => Sane(t, f)'
    BY <1>1 DEF Sane, Placed, Relocks, AtConn, Destroys, Walked, Connects
  <2>2. \A t, f : Alone(t, f) => Alone(t, f)'
    BY <1>1 DEF Alone, Frames
  <2> QED BY <1>1, <2>1, <2>2 DEF IInv, Called
<1>6. Room'
  BY <1>1 DEF IInv, Room, Connecting, Frames
<1> QED BY <1>2, <1>3, <1>4, <1>5, <1>6 DEF IInv

LEMMA CallsKeep == ASSUME IInv, NEW t \in Threads, Calls(t) PROVE IInv'
<1>1. ASSUME NEW s \in Objects, NEW r \in Objects, NEW l \in Signals, NEW k \in Kinds[s],
             NEW u \in BOOLEAN, Connect(t, s, r, l, k, u)
      PROVE  IInv'
  <2>1. l \in Lists /\ k \in AllKinds
    BY SignalSlotAssumption DEF Lists, AllKinds
  <2> QED BY <1>1, <2>1, ConnectStep
<1>2. ASSUME NEW s \in Objects, NEW r \in Objects \cup {Nobody}, NEW w \in Walk,
             Disconnect(t, s, r, w)
      PROVE  IInv'
  <2>1. <<"sig">> \in Seq(Lists) /\ <<"all", "sig">> \in Seq(Lists)
    BY DEF Lists
  <2>2. w \in Seq(Lists) /\ r \in SomeObject
    BY <2>1 DEF Walk, SomeObject
  <2> QED BY <1>2, <2>2, DisconnectStep
<1> QED BY <1>1, <1>2, EmitStep, DestroyStep DEF Calls

LEMMA StepsKeep == ASSUME IInv, NEW t \in Threads, Steps(t) PROVE IInv'
<1>1. CASE \/ LockLower(t) \/ ConnectBoth(t) \/ DisconnectBoth(t) \/ Relock(t) \/ RelockOther(t)
           \/ DisconnectBegins(t) \/ DisconnectSkips(t) \/ DisconnectOther(t)
           \/ DisconnectList(t) \/ DisconnectEnds(t)
  BY <1>1, LockLowerStep, ConnectBothStep, DisconnectBothStep, RelockStep, RelockOtherStep,
     DisconnectBeginsStep, DisconnectSkipsStep, DisconnectOtherStep, DisconnectListStep,
     DisconnectEndsStep
<1>2. CASE \/ EmitBegins(t) \/ EmitSkips(t) \/ EmitQueued(t) \/ EmitBlocking(t)
           \/ BlockingPosts(t) \/ BlockingReturns(t) \/ EmitDirect(t) \/ SlotReturns(t)
           \/ EmitList(t) \/ EmitEnds(t)
  BY <1>2, EmitBeginsStep, EmitSkipsStep, EmitQueuedStep, EmitBlockingStep, BlockingPostsStep,
     BlockingReturnsStep, EmitDirectStep, SlotReturnsStep, EmitListStep, EmitEndsStep
<1>3. CASE \/ DestroyBegins(t) \/ DestroyLocks(t) \/ DestroyBroken(t) \/ DestroyReceiver(t)
           \/ DestroyList(t) \/ DestroyVector(t) \/ DestroySender(t) \/ DestroyUnlocks(t)
           \/ DestroyEnds(t)
  BY <1>3, DestroyBeginsStep, DestroyLocksStep, DestroyBrokenStep, DestroyReceiverStep,
     DestroyListStep, DestroyVectorStep, DestroySenderStep, DestroyUnlocksStep, DestroyEndsStep
<1> QED BY <1>1, <1>2, <1>3 DEF Steps

LEMMA NextKeeps == ASSUME IInv, [Next]_vars PROVE IInv'
BY StutterKeeps, CallsKeep, StepsKeep DEF Next

\* The inductive invariant: which mutex each thread holds, what the lists of connections and
\* of senders contain, and what each call relies on, in every state.
THEOREM Invariance == Spec => []IInv
<1>1. Init => IInv
  BY InitKeeps
<1>2. IInv /\ [Next]_vars => IInv'
  BY NextKeeps
<1> QED BY <1>1, <1>2, PTL DEF Spec

-----------------------------------------------------------------------------
(* What follows from it.                                                   *)

LEMMA AgreesIs == ASSUME IInv PROVE ListsAgree
<1> SUFFICES ASSUME NEW c \in 1..made
             PROVE  LET k == conns[c]
                        there == {p \in Objects \X Lists : c \in Members(lists[p[1]][p[2]])}
                    IN  /\ there = IF k.freed THEN {} ELSE {<<k.sender, k.list>>}
                        /\ \A o \in Objects : c \in Members(senders[o]) <=> o = k.receiver
                        /\ k.receiver # Nobody =>
                             object[k.sender] # "gone" /\ object[k.receiver] # "gone"
  BY DEF ListsAgree
<1>1. conns[c] \in ConnT /\ conns[c].sender \in Objects
  <2>1. c \in Conns
    BY SignalSlotAssumption DEF Conns, IInv, DataTyped
  <2> QED BY <2>1 DEF IInv, DataTyped, Standing, Joined
<1>2. conns[c].list \in Lists /\ conns[c].freed \in BOOLEAN
  BY <1>1 DEF ConnT
<1>3. \A o \in Objects, l \in Lists :
        c \in Members(lists[o][l]) <=> conns[c].sender = o /\ conns[c].list = l /\ ~conns[c].freed
  BY DEF IInv, Standing, Sent
<1> DEFINE there == {p \in Objects \X Lists : c \in Members(lists[p[1]][p[2]])}
<1>4. there = IF conns[c].freed THEN {} ELSE {<<conns[c].sender, conns[c].list>>}
  <2>1. \A p \in Objects \X Lists :
          p \in there <=> conns[c].sender = p[1] /\ conns[c].list = p[2] /\ ~conns[c].freed
    BY <1>3
  <2>2. CASE conns[c].freed
    BY <2>1, <2>2
  <2>3. CASE ~conns[c].freed
    <3>1. \A p \in Objects \X Lists : p \in there <=> p = <<conns[c].sender, conns[c].list>>
      BY <2>1, <2>3
    <3>2. <<conns[c].sender, conns[c].list>> \in Objects \X Lists
      BY <1>1, <1>2
    <3> QED BY <3>1, <3>2, <2>3
  <2> QED BY <2>2, <2>3
<1>5. \A o \in Objects : c \in Members(senders[o]) <=> o = conns[c].receiver
  BY DEF IInv, Standing, Received
<1>6. conns[c].receiver # Nobody =>
        object[conns[c].sender] # "gone" /\ object[conns[c].receiver] # "gone"
  BY DEF IInv, Standing, Joined
<1> QED BY <1>4, <1>5, <1>6

\* However connect, disconnect, emissions and destructors of several threads interleave, a
\* connection stands in its sender's list until it is freed and in its receiver's until it is
\* broken, and neither end is gone before that (qobject.cpp:184, :228, :620).
THEOREM ListsStandTogether == Spec => []ListsAgree
BY Invariance, AgreesIs, PTL

\* Of finitely many different numbers one is the highest.
LEMMA HighestIs ==
  ASSUME NEW S, IsFiniteSet(S), S # {}, NEW h \in [S -> Int],
         \A t, u \in S : h[t] = h[u] => t = u
  PROVE  \E t \in S : \A u \in S : h[u] <= h[t]
<1> DEFINE upTo(t) == {u \in S : h[u] <= h[t]}
           n == Cardinality(S)
           rank == [t \in S |-> Cardinality(upTo(t))]
<1>1. n \in Nat /\ n # 0
  BY FS_CardinalityType, FS_EmptySet
<1>2. ASSUME NEW t \in S
      PROVE  /\ IsFiniteSet(upTo(t)) /\ Cardinality(upTo(t)) \in 1..n
             /\ Cardinality(upTo(t)) = n => upTo(t) = S
  <2>1. upTo(t) \in SUBSET S /\ t \in upTo(t)
    OBVIOUS
  <2> HIDE DEF upTo
  <2>2. /\ IsFiniteSet(upTo(t)) /\ Cardinality(upTo(t)) <= n
        /\ Cardinality(S) = Cardinality(upTo(t)) => S = upTo(t)
    BY <2>1, FS_Subset
  <2>3. Cardinality(upTo(t)) \in Nat /\ Cardinality(upTo(t)) # 0
    BY <2>1, <2>2, FS_CardinalityType, FS_EmptySet
  <2> QED BY <1>1, <2>2, <2>3
<1>3. ASSUME NEW t \in S, NEW u \in S, h[t] < h[u]
      PROVE  Cardinality(upTo(t)) # Cardinality(upTo(u))
  <2>1. upTo(t) \in SUBSET upTo(u) /\ u \in upTo(u) /\ u \notin upTo(t)
    BY <1>3
  <2>2. IsFiniteSet(upTo(u))
    BY <1>2
  <2> HIDE DEF upTo
  <2> QED BY <2>1, <2>2, FS_Subset
<1>4. rank \in Injection(S, 1..n)
  <2>1. rank \in [S -> 1..n]
    BY <1>2
  <2>2. ASSUME NEW t \in S, NEW u \in S, rank[t] = rank[u] PROVE t = u
    <3>1. h[t] < h[u] \/ h[u] < h[t] \/ h[t] = h[u]
      OBVIOUS
    <3> HIDE DEF upTo
    <3> QED BY <3>1, <2>2, <1>3
  <2> QED BY <2>1, <2>2 DEF Injection, IsInjective
<1>5. IsFiniteSet(1..n) /\ Cardinality(1..n) = n
  BY <1>1, FS_Interval
<1>6. rank \in Surjection(S, 1..n)
  BY <1>4, <1>5, FS_Injection
<1>7. PICK t \in S : Cardinality(upTo(t)) = n
  <2>1. n \in 1..n
    BY <1>1
  <2>2. \E t \in S : rank[t] = n
    BY <1>6, <2>1 DEF Surjection
  <2> HIDE DEF upTo, n
  <2> QED BY <2>2
<1>8. upTo(t) = S
  BY <1>2, <1>7
<1> QED BY <1>8

\* A thread that waits for a mutex with another one held waits for a higher one.
LEMMA WantedIs ==
  ASSUME IInv, NEW t \in Threads, NEW m \in Wanted(t), owner[m] \in Threads
  PROVE  \E h \in Mutexes : owner[h] = t /\ h < m /\ h \in Int /\ m \in Int /\ m \in Mutexes
<1>1. stack[t] # <<>>
  BY DEF Wanted
<1>2. PICK f : f = Top(t)
  OBVIOUS
<1>3. /\ f \in FrameT /\ Sane(t, f) /\ \A k \in Mutexes : owner[k] = t <=> k \in Holds(f)
      /\ Own(f) \in Mutexes /\ Own(f) \in Nat
  BY <1>1, <1>2, TopIs, OwnIs
<1>4. CASE f.at = "lockUpper"
  <2>1. m = Upper(f) /\ m # Lower(f)
    BY <1>1, <1>2, <1>4 DEF Wanted
  <2>2. f.peer \in Objects /\ Holds(f) = {Lower(f)}
    BY <1>3, <1>4 DEF Sane, Placed, Holds
  <2>3. Lower(f) < Upper(f) /\ Lower(f) \in Mutexes /\ Upper(f) \in Mutexes
        /\ Lower(f) \in Int /\ Upper(f) \in Int
    BY <1>3, <2>1, <2>2, BothAre
  <2> QED BY <1>3, <2>1, <2>2, <2>3
<1>5. CASE f.at # "lockUpper" /\ f.relock = "own"
  <2>1. m = Own(f)
    BY <1>1, <1>2, <1>5 DEF Wanted
  <2>2. /\ f.at \in {"disconnecting", "receivers", "senders"} /\ f.mutex < Own(f)
        /\ f.from \in Objects /\ f.mutex = MutexOf[f.from]
    BY <1>3, <1>5 DEF Sane, Relocks
  <2>3. f.mutex \in Mutexes /\ f.mutex \in Int /\ Holds(f) = {f.mutex}
    BY <1>5, <2>2, SignalSlotAssumption DEF Holds, Mutexes
  <2> QED BY <1>3, <2>1, <2>2, <2>3
<1>6. CASE f.at # "lockUpper" /\ f.relock # "own"
  <2>1. Meets(t) /\ ~MustRelock(f) /\ m = MutexOf[Other(f)] /\ m # Own(f)
    BY <1>1, <1>2, <1>6 DEF Wanted
  <2>2. /\ Holds(f) = {Own(f)} /\ MutexOf[Other(f)] \in Mutexes /\ MutexOf[Other(f)] \in Nat
    BY <1>2, <2>1, MeetIs
  <2>3. Own(f) < m
    BY <1>3, <2>1, <2>2 DEF MustRelock
  <2> QED BY <1>3, <2>1, <2>2, <2>3
<1> QED BY <1>4, <1>5, <1>6

\* No thread holds two mutexes between its steps.
LEMMA OwnedOnce ==
  ASSUME IInv
  PROVE  \A v \in Threads : \A i, j \in Mutexes : owner[i] = v /\ owner[j] = v => i = j
<1> SUFFICES ASSUME NEW v \in Threads, NEW i \in Mutexes, NEW j \in Mutexes,
                    owner[i] = v, owner[j] = v
             PROVE  i = j
  OBVIOUS
<1>1. stack[v] # <<>> /\ i \in Holds(Top(v)) /\ j \in Holds(Top(v))
  BY DEF IInv, Locked
<1> QED BY <1>1 DEF Holds

LEMMA NoCycleIs == ASSUME IInv PROVE NoLockCycle
<1> SUFFICES ASSUME NEW ts \in (SUBSET Threads) \ {{}}
             PROVE  \E t \in ts : ~\E u \in ts : u # t /\ \E m \in Wanted(t) : owner[m] = u
  BY DEF NoLockCycle
<1> SUFFICES ASSUME \A t \in ts : \E u \in ts : u # t /\ \E m \in Wanted(t) : owner[m] = u
             PROVE  FALSE
  OBVIOUS
<1>0. /\ ts \in SUBSET Threads /\ ts # {}
      /\ \A t \in ts : \E u \in ts : u # t /\ \E m \in Wanted(t) : owner[m] = u
  OBVIOUS
<1>1. \A t \in ts : \E h \in Int : h \in Mutexes /\ owner[h] = t
  <2> SUFFICES ASSUME NEW t \in ts PROVE \E h \in Int : h \in Mutexes /\ owner[h] = t
    OBVIOUS
  <2>1. PICK m \in Wanted(t) : owner[m] \in Threads
    BY <1>0
  <2> QED BY <2>1, WantedIs
<1>2. PICK h \in [ts -> Int] : \A t \in ts : h[t] \in Mutexes /\ owner[h[t]] = t
  <2> DEFINE held == [t \in ts |-> CHOOSE k \in Int : k \in Mutexes /\ owner[k] = t]
  <2>1. \A t \in ts : held[t] \in Int /\ held[t] \in Mutexes /\ owner[held[t]] = t
    BY <1>1
  <2>2. held \in [ts -> Int]
    BY <2>1
  <2> HIDE DEF held
  <2> QED BY <2>1, <2>2
<1>3. \A t, u \in ts : h[t] = h[u] => t = u
  BY <1>2
<1>4. IsFiniteSet(ts)
  BY <1>0, SignalSlotAssumption, FS_Subset
<1>5. PICK t \in ts : \A u \in ts : h[u] <= h[t]
  BY <1>0, <1>3, <1>4, HighestIs
<1>6. PICK u \in ts, m \in Wanted(t) : owner[m] = u
  BY <1>0
<1>7. PICK k \in Mutexes : owner[k] = t /\ k < m /\ k \in Int /\ m \in Int /\ m \in Mutexes
  BY <1>0, <1>6, WantedIs
<1>8. \A v \in Threads : \A i, j \in Mutexes : owner[i] = v /\ owner[j] = v => i = j
  BY OwnedOnce
<1>9. h[t] = k /\ h[u] = m
  BY <1>2, <1>6, <1>7, <1>8
<1> QED BY <1>5, <1>7, <1>9, <1>6

\* Threads that connect, disconnect, emit and destroy objects never wait for the mutexes of
\* each other: who holds a mutex only waits for a higher one (qorderedmutexlocker_p.h:42).
THEOREM LocksAreOrdered == Spec => []NoLockCycle
BY Invariance, NoCycleIs, PTL

-----------------------------------------------------------------------------
(* Connections are only changed under the mutexes that protect them.       *)

\* A call that goes on elsewhere, or ends, changes the stack.
LEMMA StackMoves ==
  ASSUME IInv, NEW t \in Threads, stack[t] # <<>>,
         Pop(t) \/ \E g \in FrameT : Put(t, g) /\ g # Top(t)
  PROVE  stack'[t] # stack[t]
<1>1. PICK s : s = SubSeq(stack[t], 1, Len(stack[t]) - 1)
  OBVIOUS
<1>2. /\ s \in Seq(FrameT) /\ Len(s) = Len(stack[t]) - 1 /\ Len(stack[t]) \in Nat
      /\ Top(t) = stack[t][Len(stack[t])] /\ stack \in [Threads -> Seq(FrameT)]
  BY <1>1, PopIs, StackIs DEF IInv, CallsTyped
<1> HIDE DEF FrameT
<1>3. CASE Pop(t)
  <2>1. stack'[t] = s
    BY <1>1, <1>2, <1>3 DEF Pop
  <2> QED BY <2>1, <1>2
<1>4. ASSUME NEW g \in FrameT, Put(t, g), g # Top(t) PROVE stack'[t] # stack[t]
  <2>1. PICK p : p = Append(s, g)
    OBVIOUS
  <2>2. stack'[t] = p
    BY <1>1, <1>2, <1>4, <2>1 DEF Put
  <2>3. Len(p) = Len(s) + 1 /\ p[Len(s) + 1] = g
    BY <1>2, <2>1, AppendProperties
  <2>4. p[Len(stack[t])] = g
    BY <1>2, <2>3
  <2> QED BY <2>2, <2>4, <1>2, <1>4
<1> QED BY <1>3, <1>4

LEMMA BothPermit ==
  ASSUME IInv, NEW t \in Threads, stack[t] # <<>>, Top(t).at = "lockUpper", HasUpper(t),
         NEW o \in {Top(t).obj, Top(t).peer}
  PROVE  o \in Objects /\ owner[MutexOf[o]] \in {t, Nobody}
<1>1. PICK f : f = Top(t)
  OBVIOUS
<1>2. f \in FrameT /\ Sane(t, f) /\ \A m \in Mutexes : owner[m] = t <=> m \in Holds(f)
  BY <1>1, TopIs
<1>3. f.peer \in Objects /\ f.obj \in Objects /\ Holds(f) = {Lower(f)}
  BY <1>1, <1>2, OwnIs DEF Sane, Placed, Holds
<1>4. /\ Lower(f) \in Mutexes /\ MutexOf[o] \in {Lower(f), Upper(f)}
  BY <1>1, <1>2, <1>3, BothAre
<1>5. owner[Lower(f)] = t /\ (Upper(f) # Lower(f) => owner[Upper(f)] = Nobody)
  BY <1>1, <1>2, <1>3, <1>4 DEF HasUpper, Free
<1> QED BY <1>1, <1>3, <1>4, <1>5

LEMMA ConnectBothPermits ==
  ASSUME IInv, NEW t \in Threads, ConnectBoth(t)
  PROVE  Permitted(t) /\ stack'[t] # stack[t]
<1>1. PICK f : f = Top(t)
  OBVIOUS
<1>2. /\ stack[t] # <<>> /\ f.at = "lockUpper" /\ HasUpper(t) /\ Pop(t)
  BY <1>1 DEF ConnectBoth, At
<1>3. \A o \in {f.obj, f.peer} : o \in Objects /\ owner[MutexOf[o]] \in {t, Nobody}
  BY <1>1, <1>2, BothPermit
<1>4. CASE UNCHANGED <<conns, senders>>
  BY <1>2, <1>4, StackMoves DEF Permitted
<1>5. CASE ~UNCHANGED <<conns, senders>>
  <2>1. \E F, new, z :
          /\ conns' = [WithFreed(conns, F) EXCEPT ![made + 1] = new]
          /\ senders' = [senders EXCEPT ![f.peer] = z]
    <3>1. PICK F : F = Broken(f.obj, inUse[f.obj])
      OBVIOUS
    <3>2. PICK l : l = Head(f.walk)
      OBVIOUS
    <3>3. PICK new : new = [sender |-> f.obj, receiver |-> f.peer, kind |-> f.kind, list |-> l,
                            freed |-> FALSE]
      OBVIOUS
    <3>4. PICK z : z = <<made + 1>> \o senders[f.peer]
      OBVIOUS
    <3>5. /\ conns' = [WithFreed(conns, F) EXCEPT ![made + 1] = new]
          /\ senders' = [senders EXCEPT ![f.peer] = <<made + 1>> \o @]
      BY <1>1, <1>5, <3>1, <3>2, <3>3 DEF ConnectBoth
    <3>6. senders' = [senders EXCEPT ![f.peer] = z]
      BY <3>4, <3>5
    <3> QED BY <3>5, <3>6
  <2>5. PICK F, new, z :
          /\ conns' = [WithFreed(conns, F) EXCEPT ![made + 1] = new]
          /\ senders' = [senders EXCEPT ![f.peer] = z]
    BY <2>1
  <2>2. ASSUME NEW c \in 1..made PROVE conns'[c].receiver = conns[c].receiver
    <3>1. c \in Conns /\ c # made + 1
      BY SignalSlotAssumption DEF Conns, IInv, DataTyped
    <3>2. conns[c] \in ConnT
      BY <3>1 DEF IInv, DataTyped
    <3>3. WithFreed(conns, F)[c].receiver = conns[c].receiver
      BY <3>1, <3>2 DEF WithFreed, ConnT
    <3>4. DOMAIN WithFreed(conns, F) = Conns
      BY DEF WithFreed
    <3> QED BY <2>5, <3>1, <3>3, <3>4
  <2>3. \A o \in Objects : senders'[o] # senders[o] => o = f.peer
    BY <2>5 DEF IInv, DataTyped
  <2> QED BY <1>2, <1>3, <2>2, <2>3, StackMoves DEF Permitted
<1> QED BY <1>4, <1>5

LEMMA DisconnectBothPermits ==
  ASSUME IInv, NEW t \in Threads, DisconnectBoth(t)
  PROVE  Permitted(t) /\ stack'[t] # stack[t]
<1>1. PICK f : f = Top(t)
  OBVIOUS
<1>2. PICK cs : cs = {c \in 1..made : /\ \E l \in Members(f.walk) : c \in Members(lists[f.obj][l])
                                     /\ conns[c].receiver = f.peer}
  OBVIOUS
<1>3. /\ stack[t] # <<>> /\ f.at = "lockUpper" /\ HasUpper(t) /\ Pop(t)
      /\ conns' = [c \in Conns |->
                     IF c \in cs THEN [conns[c] EXCEPT !.receiver = Nobody] ELSE conns[c]]
      /\ senders' = [senders EXCEPT ![f.peer] = Minus(@, cs)]
  BY <1>1, <1>2 DEF DisconnectBoth, At
<1>4. \A o \in {f.obj, f.peer} : o \in Objects /\ owner[MutexOf[o]] \in {t, Nobody}
  BY <1>1, <1>3, BothPermit
<1>5. f.walk \in Seq(Lists) /\ f \in FrameT
  BY <1>1, <1>3, TopIs DEF FrameT
<1>6. ASSUME NEW c \in 1..made, conns'[c].receiver # conns[c].receiver
      PROVE  owner[MutexOf[conns[c].sender]] \in {t, Nobody}
  <2>1. c \in Conns
    BY SignalSlotAssumption DEF Conns, IInv, DataTyped
  <2>2. c \in cs
    BY <1>3, <1>6, <2>1
  <2>3. PICK l \in Members(f.walk) : c \in Members(lists[f.obj][l])
    BY <1>2, <2>2
  <2>4. l \in Lists
    <3>1. \A i \in DOMAIN f.walk : f.walk[i] \in Lists
      BY <1>5, LenProperties, ElementOfSeq
    <3> QED BY <3>1 DEF Members
  <2>5. conns[c].sender = f.obj
    BY <1>4, <2>3, <2>4 DEF IInv, Standing, Sent
  <2> QED BY <2>5, <1>4
<1>7. \A o \in Objects : senders'[o] # senders[o] => o = f.peer
  BY <1>3 DEF IInv, DataTyped
<1> QED BY <1>3, <1>4, <1>6, <1>7, StackMoves DEF Permitted

\* With the other end of a connection locked.
LEMMA OtherPermits ==
  ASSUME IInv, NEW t \in Threads, NEW point \in {"disconnecting", "receivers", "senders"},
         WithOther(t, point)
  PROVE  /\ owner[Own(Top(t))] \in {t, Nobody}
         /\ Top(t).relock = "no" => owner[MutexOf[Other(Top(t))]] \in {t, Nobody}
         /\ Top(t).relock = "own" => owner[MutexOf[Top(t).from]] \in {t, Nobody}
<1>1. PICK f : f = Top(t)
  OBVIOUS
<1>2. stack[t] # <<>> /\ f.at = point /\ f.relock \in {"no", "own"} /\ (f.relock = "no" => Meets(t))
  BY <1>1, WithOtherIs
<1>3. /\ f \in FrameT /\ Sane(t, f) /\ Own(f) \in Mutexes
      /\ \A m \in Mutexes : owner[m] = t <=> m \in Holds(f)
  BY <1>1, <1>2, TopIs, OwnIs
<1>4. CASE f.relock = "no"
  <2>1. owner[Own(f)] = t /\ MutexOf[Other(f)] \in Mutexes
    BY <1>1, <1>2, <1>3, <1>4, MeetIs
  <2>2. MutexOf[Other(f)] # Own(f) => owner[MutexOf[Other(f)]] = Nobody
    BY <1>1, <1>4 DEF WithOther, Free
  <2> QED BY <1>1, <1>4, <2>1, <2>2
<1>5. CASE f.relock = "own"
  <2>1. owner[Own(f)] = Nobody
    BY <1>1, <1>5 DEF WithOther, Free, Meets
  <2>2. Holds(f) = {f.mutex} /\ f.mutex \in Mutexes /\ f.mutex = MutexOf[f.from]
    BY <1>2, <1>3, <1>5 DEF Sane, Relocks, Holds, Mutexes
  <2> QED BY <1>1, <1>3, <1>5, <2>1, <2>2
<1> QED BY <1>2, <1>4, <1>5

\* The connection that a walk is at is broken with its receiver's mutex.
LEMMA LeavePermits ==
  ASSUME IInv, NEW t \in Threads, NEW point \in {"disconnecting", "receivers"},
         WithOther(t, point), LeaveSenders(Top(t).conn), NEW c, c = Top(t).conn,
         conns[c].sender = Top(t).obj,
         \A d \in 1..made : d # c => conns'[d].receiver = conns[d].receiver
  PROVE  Permitted(t)
<1>1. PICK f : f = Top(t)
  OBVIOUS
<1>2. /\ stack[t] # <<>> /\ f \in FrameT /\ Sane(t, f) /\ f.at = point /\ f.relock \in {"no", "own"}
      /\ f.relock = "no" => Meets(t)
  BY <1>1, WithOtherIs
<1>3. /\ owner[Own(f)] \in {t, Nobody}
      /\ f.relock = "no" => owner[MutexOf[Other(f)]] \in {t, Nobody}
      /\ f.relock = "own" => owner[MutexOf[f.from]] \in {t, Nobody}
  BY <1>1, OtherPermits
<1>4. ASSUME NEW o \in Objects, senders'[o] # senders[o] PROVE owner[MutexOf[o]] \in {t, Nobody}
  <2>1. o = conns[f.conn].receiver /\ o # Nobody
    <3>1. senders = [x \in Objects |-> senders[x]]
      BY DEF IInv, DataTyped
    <3> QED BY <3>1, <1>1, <1>4, SignalSlotAssumption DEF LeaveSenders
  <2>2. CASE f.relock = "no"
    <3>1. Other(f) = o
      BY <1>2, <2>1 DEF Other, Current
    <3> QED BY <3>1, <2>2, <1>3
  <2>3. CASE f.relock = "own"
    <3>1. o = f.from
      BY <1>2, <2>1, <2>3 DEF Sane, Relocks
    <3> QED BY <3>1, <2>3, <1>3
  <2> QED BY <1>2, <2>2, <2>3
<1> QED BY <1>1, <1>3, <1>4 DEF Permitted, Own

\* The connection behind another one is another one.
LEMMA FollowingIsOther ==
  ASSUME NEW q \in Seq(Conns), Rising(q), NEW c \in Conns
  PROVE  Following(q, c) # c
<1>1. Len(q) \in Nat /\ DOMAIN q = 1..Len(q) /\ c # NoConn
  BY LenProperties DEF Conns, NoConn
<1>2. PICK after : after = {i \in 2..Len(q) : q[i - 1] = c}
  OBVIOUS
<1>3. CASE after = {}
  BY <1>1, <1>2, <1>3 DEF Following
<1>4. CASE after # {}
  <2>1. PICK i \in after : Following(q, c) = q[i]
    BY <1>2, <1>4 DEF Following
  <2>2. i \in DOMAIN q /\ i - 1 \in DOMAIN q /\ i - 1 < i /\ q[i - 1] = c
    BY <1>1, <1>2, <2>1
  <2>3. q[i - 1] < q[i]
    BY <2>2 DEF Rising
  <2> QED BY <2>1, <2>2, <2>3 DEF Conns
<1> QED BY <1>3, <1>4

LEMMA DisconnectOtherPermits ==
  ASSUME IInv, NEW t \in Threads, DisconnectOther(t)
  PROVE  Permitted(t) /\ stack'[t] # stack[t]
<1>1. PICK f : f = Top(t)
  OBVIOUS
<1>2. PICK c : c = Following(lists[f.obj][Head(f.walk)], f.conn)
  OBVIOUS
<1>3. PICK g : g = [f EXCEPT !.conn = c, !.seen = @ \cup {f.conn}, !.relock = "no"]
  OBVIOUS
<1>4. /\ WithOther(t, "disconnecting") /\ LeaveSenders(f.conn)
      /\ conns' = [conns EXCEPT ![f.conn].receiver = Nobody] /\ Put(t, g)
  BY <1>1, <1>2, <1>3 DEF DisconnectOther
<1>5. /\ stack[t] # <<>> /\ f \in FrameT /\ Sane(t, f) /\ f.at = "disconnecting"
      /\ f.obj \in Objects /\ f.conn # NoConn
  BY <1>1, <1>4, WithOtherIs
<1>6. f.conn \in 1..made /\ f.conn \in Conns /\ f.conn \in 0..MaxConns /\ Head(f.walk) \in Lists
  BY <1>5, ConnIs DEF FrameT
<1>7. conns[f.conn].sender = f.obj
  BY <1>5 DEF Sane, AtConn
<1>8. \A d \in 1..made : d # f.conn => conns'[d].receiver = conns[d].receiver
  <2>1. \A d \in 1..made : d \in Conns
    BY SignalSlotAssumption DEF Conns, IInv, DataTyped
  <2> QED BY <2>1, <1>4 DEF IInv, DataTyped
<1>9. c # f.conn /\ c \in 0..MaxConns
  <2>1. lists[f.obj][Head(f.walk)] \in Seq(Conns) /\ Rising(lists[f.obj][Head(f.walk)])
    BY <1>5, <1>6 DEF IInv, DataTyped, Standing, Sent
  <2>2. c \in 0..MaxConns
    BY <1>2, <1>5, <1>6, FollowingIs
  <2> QED BY <2>1, <2>2, <1>2, <1>6, FollowingIsOther
<1>10. g \in FrameT /\ g # f
  <2>1. g \in FrameT /\ g.conn = c
    BY <1>3, <1>5, <1>6, <1>9 DEF FrameT
  <2> QED BY <2>1, <1>9
<1>11. Permitted(t)
  BY <1>1, <1>4, <1>7, <1>8, LeavePermits
<1>12. stack'[t] # stack[t]
  BY <1>1, <1>4, <1>5, <1>10, StackMoves
<1> QED BY <1>11, <1>12

LEMMA DestroyReceiverPermits ==
  ASSUME IInv, NEW t \in Threads, DestroyReceiver(t)
  PROVE  Permitted(t) /\ stack'[t] # stack[t]
<1>1. PICK f : f = Top(t)
  OBVIOUS
<1>2. PICK rest : rest = Minus(lists[f.obj][Head(f.walk)], {f.conn})
  OBVIOUS
<1>3. PICK g : g = [f EXCEPT !.conn = First(rest), !.relock = "no"]
  OBVIOUS
<1>4. /\ WithOther(t, "receivers") /\ LeaveSenders(f.conn)
      /\ conns' = [conns EXCEPT ![f.conn].freed = TRUE, ![f.conn].receiver = Nobody] /\ Put(t, g)
  BY <1>1, <1>2, <1>3 DEF DestroyReceiver, DeleteFirst
<1>5. /\ stack[t] # <<>> /\ f \in FrameT /\ Sane(t, f) /\ f.at = "receivers" /\ f.op = "destroy"
      /\ f.obj \in Objects /\ f.conn # NoConn
  BY <1>1, <1>4, WithOtherIs
<1>6. /\ f.conn \in 1..made /\ f.conn \in Conns /\ Head(f.walk) \in Lists
      /\ lists[f.obj][Head(f.walk)] \in Seq(Conns) /\ Walked(f) = lists[f.obj][Head(f.walk)]
  BY <1>5, ConnIs
<1>7. conns[f.conn].sender = f.obj
  <2>1. f.conn = First(Walked(f))
    BY <1>5 DEF Sane, Destroys
  <2>2. f.conn \in Members(lists[f.obj][Head(f.walk)])
    BY <2>1, <1>5, <1>6, EndsAre
  <2> QED BY <2>2, <1>5, <1>6 DEF IInv, Standing, Sent
<1>8. \A d \in 1..made : d # f.conn => conns'[d].receiver = conns[d].receiver
  <2>1. \A d \in 1..made : d \in Conns
    BY SignalSlotAssumption DEF Conns, IInv, DataTyped
  <2> QED BY <2>1, <1>4 DEF IInv, DataTyped
<1>9. g \in FrameT /\ g # f
  <2>1. rest \in Seq(Conns) /\ f.conn \notin Members(rest)
    BY <1>2, <1>6, MinusIs
  <2>2. First(rest) \in Members(rest) \cup {NoConn} /\ First(rest) \in 0..MaxConns
    BY <2>1, EndsAre
  <2>3. g \in FrameT /\ g.conn = First(rest)
    BY <2>2, <1>3, <1>5 DEF FrameT
  <2> QED BY <2>1, <2>2, <2>3, <1>5
<1>10. Permitted(t)
  BY <1>1, <1>4, <1>7, <1>8, LeavePermits
<1>11. stack'[t] # stack[t]
  BY <1>1, <1>4, <1>5, <1>9, StackMoves
<1> QED BY <1>10, <1>11

LEMMA DestroySenderPermits ==
  ASSUME IInv, NEW t \in Threads, DestroySender(t)
  PROVE  EndsSame \/ (Permitted(t) /\ stack'[t] # stack[t])
<1>1. PICK f : f = Top(t)
  OBVIOUS
<1>2. PICK c : c = Current(f)
  OBVIOUS
<1>3. WithOther(t, "senders")
  BY DEF DestroySender
<1>4. /\ stack[t] # <<>> /\ f \in FrameT /\ Sane(t, f) /\ f.at = "senders" /\ f.op = "destroy"
      /\ f.obj \in Objects /\ f.relock \in {"no", "own"} /\ (f.relock = "no" => Meets(t))
  BY <1>1, <1>3, WithOtherIs
<1>5. CASE f.relock = "own" /\ ~SameNode(f)
  BY <1>1, <1>5 DEF DestroySender, EndsSame
<1>6. CASE ~(f.relock = "own" /\ ~SameNode(f))
  <2>1. PICK g : g = [f EXCEPT !.relock = "no", !.seen = @ \cup {c}]
    OBVIOUS
  <2>2. /\ Put(t, g) /\ conns' = [conns EXCEPT ![c].receiver = Nobody]
        /\ senders' = [senders EXCEPT ![f.obj] = Tail(@)]
    BY <1>1, <1>2, <1>6, <2>1 DEF DestroySender
  <2>3. senders[f.obj] # <<>> /\ c = Head(senders[f.obj]) /\ c = First(senders[f.obj])
    <3>1. senders[f.obj] # <<>>
      BY <1>1, <1>4, <1>6, MeetIs DEF SameNode
    <3> QED BY <3>1, <1>2, <1>4 DEF Current, First
  <2>4. c \in Members(senders[f.obj]) /\ c \in 1..made /\ c \in 0..MaxConns
    <3>1. senders[f.obj] \in Seq(Conns)
      BY <1>4 DEF IInv, DataTyped
    <3>2. c \in Members(senders[f.obj])
      BY <3>1, <2>3, TailIs
    <3>3. c \in 1..made
      BY <3>2, <1>4 DEF IInv, Standing, Received
    <3>4. made \in Nat /\ made <= MaxConns /\ MaxConns \in Nat
      BY SignalSlotAssumption DEF IInv, DataTyped
    <3> QED BY <3>2, <3>3, <3>4
  <2>5. /\ owner[Own(f)] \in {t, Nobody} /\ owner[MutexOf[conns[c].sender]] \in {t, Nobody}
    <3>1. /\ owner[Own(f)] \in {t, Nobody}
          /\ f.relock = "no" => owner[MutexOf[Other(f)]] \in {t, Nobody}
          /\ f.relock = "own" => owner[MutexOf[f.from]] \in {t, Nobody}
      BY <1>1, <1>3, OtherPermits
    <3>2. Other(f) = conns[c].sender
      BY <1>2, <1>4 DEF Other
    <3>3. f.relock = "own" => conns[c].sender = f.from
      BY <1>6, <2>3 DEF SameNode
    <3> QED BY <1>4, <3>1, <3>2, <3>3
  <2>6. Permitted(t)
    <3>1. \A d \in 1..made : d # c => conns'[d].receiver = conns[d].receiver
      <4>1. \A d \in 1..made : d \in Conns
        BY SignalSlotAssumption DEF Conns, IInv, DataTyped
      <4> QED BY <4>1, <2>2 DEF IInv, DataTyped
    <3>2. \A o \in Objects : o # f.obj => senders'[o] = senders[o]
      BY <2>2 DEF IInv, DataTyped
    <3> QED BY <3>1, <3>2, <2>5 DEF Permitted, Own
  <2>7. stack'[t] # stack[t]
    <3>1. f.seen \cap Members(senders[f.obj]) = {}
      BY <1>4 DEF Sane, Destroys
    <3>2. g \in FrameT /\ g.seen = f.seen \cup {c}
      BY <1>4, <2>1, <2>4 DEF FrameT
    <3>3. g # f
      BY <3>1, <3>2, <2>4
    <3> QED BY <3>2, <3>3, <1>1, <1>4, <2>2, StackMoves
  <2> QED BY <2>6, <2>7
<1> QED BY <1>5, <1>6

\* Connections that are freed have been broken before.
LEMMA EmitEndsSame == ASSUME IInv, NEW t \in Threads, EmitEnds(t) PROVE EndsSame
<1>1. PICK F : conns' = WithFreed(conns, F)
  BY DEF EmitEnds
<1>2. ASSUME NEW c \in 1..made PROVE conns'[c].receiver = conns[c].receiver
  <2>1. c \in Conns
    BY SignalSlotAssumption DEF Conns, IInv, DataTyped
  <2>2. conns[c] \in ConnT
    BY <2>1 DEF IInv, DataTyped
  <2> QED BY <1>1, <2>1, <2>2 DEF WithFreed, ConnT
<1> QED BY <1>2 DEF EmitEnds, EndsSame

LEMMA DestroyBrokenSame == ASSUME IInv, NEW t \in Threads, DestroyBroken(t) PROVE EndsSame
<1>1. PICK f : f = Top(t)
  OBVIOUS
<1>2. /\ At(t, "destroy", "receivers") /\ f.conn # NoConn /\ Receiver(f) = Nobody
      /\ conns' = [conns EXCEPT ![f.conn].freed = TRUE, ![f.conn].receiver = Nobody]
      /\ senders' = senders
  BY <1>1 DEF DestroyBroken, DeleteFirst
<1>3. f.conn \in Conns
  <2>1. stack[t] # <<>> /\ f \in FrameT /\ Sane(t, f)
    BY <1>1, <1>2, DestroyIs
  <2> QED BY <2>1, <1>2, ConnIs
<1>4. ASSUME NEW c \in 1..made PROVE conns'[c].receiver = conns[c].receiver
  <2>1. c \in Conns /\ conns \in [Conns -> ConnT]
    BY SignalSlotAssumption DEF Conns, IInv, DataTyped
  <2>2. CASE c = f.conn
    <3>1. conns'[c].receiver = Nobody
      BY <1>2, <2>1, <2>2 DEF ConnT
    <3> QED BY <3>1, <2>2, <1>2 DEF Receiver
  <2>3. CASE c # f.conn
    BY <1>2, <2>1, <2>3
  <2> QED BY <2>2, <2>3
<1> QED BY <1>2, <1>4 DEF EndsSame

LEMMA StepPermits ==
  ASSUME IInv, NEW t \in Threads, Calls(t) \/ Steps(t)
  PROVE  EndsSame \/ (Permitted(t) /\ stack'[t] # stack[t])
<1>1. CASE Calls(t)
  <2>1. UNCHANGED <<conns, senders>>
    BY <1>1 DEF Calls, Connect, Disconnect, Emit, Destroy, connVars
  <2> QED BY <2>1 DEF EndsSame
<1>2. CASE \/ LockLower(t) \/ Relock(t) \/ RelockOther(t) \/ DisconnectBegins(t)
           \/ DisconnectSkips(t) \/ DisconnectList(t) \/ DisconnectEnds(t)
  <2>1. UNCHANGED <<conns, senders>>
    BY <1>2 DEF LockLower, Relock, RelockOther, DisconnectBegins, DisconnectSkips,
       DisconnectList, DisconnectEnds, connVars
  <2> QED BY <2>1 DEF EndsSame
<1>3. CASE \/ EmitBegins(t) \/ EmitSkips(t) \/ EmitQueued(t) \/ EmitBlocking(t)
           \/ BlockingPosts(t) \/ BlockingReturns(t) \/ EmitDirect(t) \/ SlotReturns(t)
           \/ EmitList(t)
  <2>1. UNCHANGED <<conns, senders>>
    BY <1>3 DEF EmitBegins, EmitSkips, EmitQueued, EmitBlocking, BlockingPosts, BlockingReturns,
       EmitDirect, SlotReturns, EmitList, connVars
  <2> QED BY <2>1 DEF EndsSame
<1>4. CASE \/ DestroyBegins(t) \/ DestroyLocks(t) \/ DestroyList(t) \/ DestroyVector(t)
           \/ DestroyUnlocks(t) \/ DestroyEnds(t)
  <2>1. UNCHANGED <<conns, senders>>
    BY <1>4 DEF DestroyBegins, DestroyLocks, DestroyList, DestroyVector, DestroyUnlocks,
       DestroyEnds, connVars
  <2> QED BY <2>1 DEF EndsSame
<1>5. CASE ConnectBoth(t) \/ DisconnectBoth(t) \/ DisconnectOther(t)
  BY <1>5, ConnectBothPermits, DisconnectBothPermits, DisconnectOtherPermits
<1>6. CASE EmitEnds(t) \/ DestroyBroken(t) \/ DestroyReceiver(t) \/ DestroySender(t)
  BY <1>6, EmitEndsSame, DestroyBrokenSame, DestroyReceiverPermits, DestroySenderPermits
<1> QED BY <1>1, <1>2, <1>3, <1>4, <1>5, <1>6 DEF Steps

LEMMA NextUnderLock == ASSUME IInv, [Next]_vars PROVE UnderLock
<1>1. CASE EndsSame
  BY <1>1 DEF EndsSame, UnderLock
<1>2. CASE UNCHANGED vars
  BY <1>2 DEF UnderLock, vars, connVars
<1>3. ASSUME NEW u \in Threads, Permitted(u), stack'[u] # stack[u] PROVE UnderLock
  BY <1>3, SignalSlotAssumption DEF Permitted, UnderLock
<1> QED BY <1>1, <1>2, <1>3, StepPermits DEF Next

\* Whoever connects, disconnects or destroys an object: a connection is broken, and a list of
\* senders changed, only while no other thread holds the mutex that protects it
\* (qobject.cpp:184).
THEOREM ChangesAreLocked == Spec => ChangedUnderLock
<1>1. IInv /\ [Next]_vars => UnderLock
  BY NextUnderLock
<1>2. UnderLock <=> \A t \in Threads : stack'[t] = stack[t] =>
        /\ \A c \in 1..made :
             conns'[c].receiver # conns[c].receiver => owner[MutexOf[conns[c].sender]] # t
        /\ \A o \in Objects : senders'[o] # senders[o] => owner[MutexOf[o]] # t
  BY DEF UnderLock
<1> QED BY <1>1, <1>2, Invariance, PTL DEF Spec, ChangedUnderLock

-----------------------------------------------------------------------------
(* Who uses the vector of an object.                                       *)

LEMMA PlacesAre ==
  ASSUME CallsTyped, NEW t \in Threads, NEW i \in DOMAIN stack[t]
  PROVE  i \in 1..MaxDepth /\ i \in 1..Len(stack[t]) /\ stack[t][i] \in FrameT
<1>1. Len(stack[t]) \in 0..MaxDepth /\ DOMAIN stack[t] = 1..Len(stack[t])
  BY StackIs
<1>2. i \in 1..MaxDepth
  BY <1>1, SignalSlotAssumption
<1> QED BY <1>1, <1>2, StackIs

\* The innermost call goes on as g, ...
LEMMA TopMoves ==
  ASSUME IInv, NEW t \in Threads, stack[t] # <<>>, NEW s \in Seq(FrameT), NEW g \in FrameT,
         Len(s) = Len(stack[t]), s[Len(s)] = g,
         \A i \in 1..(Len(s) - 1) : Alike(stack[t][i], s[i]), stack' = [stack EXCEPT ![t] = s]
  PROVE  Moves(t, Len(stack[t]), {Top(t)}, {g})
<1>1. PICK n : n = Len(stack[t])
  OBVIOUS
<1>2. /\ n \in Nat /\ n \in DOMAIN stack[t] /\ DOMAIN stack[t] = 1..n /\ Top(t) = stack[t][n]
      /\ n \in 1..MaxDepth
  BY <1>1, StackIs, PlacesAre, SignalSlotAssumption DEF IInv
<1>3. stack'[t] = s /\ DOMAIN s = 1..n /\ \A u \in Threads \ {t} : stack'[u] = stack[u]
  <2>1. DOMAIN s = 1..Len(s)
    <3> HIDE DEF FrameT
    <3> QED BY LenProperties
  <2> QED BY <2>1, <1>1 DEF IInv, CallsTyped
<1>4. ASSUME NEW u \in Threads, NEW i \in 1..MaxDepth, u # t \/ i # n
      PROVE  /\ i \in DOMAIN stack'[u] <=> i \in DOMAIN stack[u]
             /\ i \in DOMAIN stack[u] => Alike(stack[u][i], stack'[u][i])
  <2>1. CASE u = t
    <3>1. i \in DOMAIN stack[t] => i \in 1..(Len(s) - 1)
      BY <2>1, <1>1, <1>2, <1>4
    <3> QED BY <3>1, <2>1, <1>2, <1>3
  <2>2. CASE u # t
    <3>1. stack'[u] = stack[u]
      BY <2>2, <1>3
    <3> QED BY <3>1, StackIs, AlikeSame DEF IInv
  <2> QED BY <2>1, <2>2
<1>5. n \in DOMAIN stack'[t] /\ stack'[t][n] = g
  BY <1>1, <1>2, <1>3
<1> QED BY <1>1, <1>2, <1>4, <1>5 DEF Moves

LEMMA PutMoves ==
  ASSUME IInv, NEW t \in Threads, stack[t] # <<>>, NEW g \in FrameT, Put(t, g)
  PROVE  Moves(t, Len(stack[t]), {Top(t)}, {g})
<1>0. PICK r : r = SubSeq(stack[t], 1, Len(stack[t]) - 1)
  OBVIOUS
<1>1. /\ r \in Seq(FrameT) /\ Len(r) = Len(stack[t]) - 1
      /\ \A i \in 1..(Len(stack[t]) - 1) : r[i] = stack[t][i]
  BY <1>0, PopIs DEF IInv
<1>2. Len(stack[t]) \in Nat /\ DOMAIN stack[t] = 1..Len(stack[t])
      /\ \A i \in DOMAIN stack[t] : stack[t][i] \in FrameT
  BY StackIs, SignalSlotAssumption DEF IInv
<1>3. PICK s : s = Append(r, g)
  OBVIOUS
<1> HIDE DEF FrameT
<1>4. /\ s \in Seq(FrameT) /\ Len(s) = Len(r) + 1 /\ s[Len(r) + 1] = g
      /\ \A i \in 1..Len(r) : s[i] = r[i]
  BY <1>1, <1>3, AppendProperties
<1>5. Len(s) = Len(stack[t]) /\ s[Len(s)] = g
  BY <1>1, <1>2, <1>4
<1>6. ASSUME NEW i \in 1..(Len(s) - 1) PROVE Alike(stack[t][i], s[i])
  <2>1. i \in 1..Len(r) /\ i \in 1..(Len(stack[t]) - 1) /\ i \in DOMAIN stack[t]
    BY <1>1, <1>2, <1>5
  <2> QED BY <2>1, <1>1, <1>2, <1>4, AlikeSame
<1>7. stack' = [stack EXCEPT ![t] = s]
  BY <1>0, <1>3 DEF Put
<1> QED BY <1>4, <1>5, <1>6, <1>7, TopMoves

\* ... or returns, ...
LEMMA PopMoves ==
  ASSUME IInv, NEW t \in Threads, stack[t] # <<>>, Pop(t)
  PROVE  Moves(t, Len(stack[t]), {Top(t)}, {})
<1>1. PICK n : n = Len(stack[t])
  OBVIOUS
<1>2. /\ n \in Nat /\ n \in DOMAIN stack[t] /\ DOMAIN stack[t] = 1..n /\ Top(t) = stack[t][n]
      /\ n \in 1..MaxDepth
  BY <1>1, StackIs, PlacesAre, SignalSlotAssumption DEF IInv
<1>3. PICK s : s = SubSeq(stack[t], 1, Len(stack[t]) - 1)
  OBVIOUS
<1>4. DOMAIN s = 1..(n - 1) /\ \A i \in 1..(n - 1) : s[i] = stack[t][i]
  BY <1>1, <1>3, PopIs DEF IInv
<1>5. stack'[t] = s /\ \A u \in Threads \ {t} : stack'[u] = stack[u]
  BY <1>3 DEF Pop, IInv, CallsTyped
<1>6. ASSUME NEW u \in Threads, NEW i \in 1..MaxDepth, u # t \/ i # n
      PROVE  /\ i \in DOMAIN stack'[u] <=> i \in DOMAIN stack[u]
             /\ i \in DOMAIN stack[u] => Alike(stack[u][i], stack'[u][i])
  <2>1. /\ i \in DOMAIN stack'[u] <=> i \in DOMAIN stack[u]
        /\ i \in DOMAIN stack[u] => stack'[u][i] = stack[u][i]
    <3>1. CASE u = t
      <4>1. i \in 1..n <=> i \in 1..(n - 1)
        BY <3>1, <1>2, <1>6
      <4> QED BY <4>1, <3>1, <1>2, <1>4, <1>5
    <3>2. CASE u # t
      BY <3>2, <1>5
    <3> QED BY <3>1, <3>2
  <2> QED BY <2>1, StackIs, AlikeSame DEF IInv
<1>7. n \notin DOMAIN stack'[t]
  BY <1>2, <1>4, <1>5
<1> QED BY <1>1, <1>2, <1>6, <1>7 DEF Moves

\* ... or makes a call.
LEMMA PushMoves ==
  ASSUME IInv, NEW t \in Threads, NEW g \in FrameT, MayCall(t), Push(t, g)
  PROVE  Moves(t, Len(stack[t]) + 1, {}, {g})
<1>0. /\ stack[t] \in Seq(FrameT) /\ Len(stack[t]) \in Nat /\ DOMAIN stack[t] = 1..Len(stack[t])
      /\ Len(stack[t]) < MaxDepth
  BY StackIs, SignalSlotAssumption DEF IInv, MayCall
<1>1. PICK s : s = Append(stack[t], g)
  OBVIOUS
<1>2. PICK n : n = Len(stack[t]) + 1
  OBVIOUS
<1>3. /\ DOMAIN s = 1..n /\ s[n] = g /\ n \in 1..MaxDepth
      /\ \A i \in 1..Len(stack[t]) : s[i] = stack[t][i]
  <2>1. /\ s \in Seq(FrameT) /\ Len(s) = n /\ s[n] = g
        /\ \A i \in 1..Len(stack[t]) : s[i] = stack[t][i]
    <3> HIDE DEF FrameT
    <3> QED BY <1>0, <1>1, <1>2, AppendProperties
  <2>2. DOMAIN s = 1..Len(s)
    <3> HIDE DEF FrameT
    <3> QED BY <2>1, LenProperties
  <2>3. n \in 1..MaxDepth
    BY <1>0, <1>2, SignalSlotAssumption
  <2> QED BY <2>1, <2>2, <2>3
<1>4. stack'[t] = s /\ \A u \in Threads \ {t} : stack'[u] = stack[u]
  BY <1>1 DEF Push, IInv, CallsTyped
<1>5. ASSUME NEW u \in Threads, NEW i \in 1..MaxDepth, u # t \/ i # n
      PROVE  /\ i \in DOMAIN stack'[u] <=> i \in DOMAIN stack[u]
             /\ i \in DOMAIN stack[u] => Alike(stack[u][i], stack'[u][i])
  <2>1. /\ i \in DOMAIN stack'[u] <=> i \in DOMAIN stack[u]
        /\ i \in DOMAIN stack[u] => stack'[u][i] = stack[u][i]
    <3>1. CASE u = t
      <4>1. i \in 1..n <=> i \in 1..Len(stack[t])
        BY <3>1, <1>0, <1>2, <1>5
      <4> QED BY <4>1, <3>1, <1>0, <1>3, <1>4
    <3>2. CASE u # t
      BY <3>2, <1>4
    <3> QED BY <3>1, <3>2
  <2> QED BY <2>1, StackIs, AlikeSame DEF IInv
<1>6. n \notin DOMAIN stack[t] /\ n \in DOMAIN stack'[t] /\ stack'[t][n] = g
  BY <1>0, <1>2, <1>3, <1>4
<1> QED BY <1>2, <1>3, <1>5, <1>6 DEF Moves

LEMMA UsersMove ==
  ASSUME CallsTyped, NEW t \in Threads, NEW n, NEW old, NEW new, Moves(t, n, old, new),
         NEW o \in Objects
  PROVE  LET was == \E f \in old : UserOf(f, o)
             is == \E g \in new : UserOf(g, o)
         IN  /\ IsFiniteSet(Users(o)) /\ Cardinality(Users(o)) \in Nat
             /\ Cardinality(Users(o))' =
                  IF was <=> is THEN Cardinality(Users(o))
                  ELSE IF is THEN Cardinality(Users(o)) + 1 ELSE Cardinality(Users(o)) - 1
<1>1. PICK p : p = <<t, n>>
  OBVIOUS
<1>2. PICK S : S = Users(o)
  OBVIOUS
<1>3. PICK T : T = Users(o)'
  OBVIOUS
<1>4. n \in 1..MaxDepth
  BY DEF Moves
<1>5. IsFiniteSet(S) /\ Cardinality(S) \in Nat
  <2>1. IsFiniteSet(1..MaxDepth)
    <3>1. 1 \in Int /\ MaxDepth \in Int
      BY SignalSlotAssumption
    <3> QED BY <3>1, FS_Interval
  <2>2. IsFiniteSet(Threads \X (1..MaxDepth))
    BY <2>1, SignalSlotAssumption, FS_Product
  <2>3. S \subseteq Threads \X (1..MaxDepth)
    BY <1>2 DEF Users
  <2> QED BY <2>2, <2>3, FS_Subset, FS_CardinalityType
<1>6. ASSUME NEW u \in Threads, NEW i \in 1..MaxDepth
      PROVE  /\ <<u, i>> \in S <=> i \in DOMAIN stack[u] /\ UserOf(stack[u][i], o)
             /\ <<u, i>> \in T <=> i \in DOMAIN stack'[u] /\ UserOf(stack'[u][i], o)
  BY <1>2, <1>3 DEF Users, UserOf, UsesVector
<1>7. p \in S <=> \E f \in old : UserOf(f, o)
  BY <1>1, <1>4, <1>6 DEF Moves
<1>8. p \in T <=> \E g \in new : UserOf(g, o)
  BY <1>1, <1>4, <1>6 DEF Moves
<1>9. S \ {p} = T \ {p}
  <2>1. ASSUME NEW u \in Threads, NEW i \in 1..MaxDepth, u # t \/ i # n
        PROVE  <<u, i>> \in S <=> <<u, i>> \in T
    <3>1. /\ i \in DOMAIN stack'[u] <=> i \in DOMAIN stack[u]
          /\ i \in DOMAIN stack[u] => Alike(stack[u][i], stack'[u][i])
      BY <2>1 DEF Moves
    <3>2. i \in DOMAIN stack[u] => (UserOf(stack[u][i], o) <=> UserOf(stack'[u][i], o))
      BY <3>1, StackIs, AlikeIs DEF UserOf, UsesVector
    <3> QED BY <3>1, <3>2, <1>6
  <2>2. S \subseteq Threads \X (1..MaxDepth) /\ T \subseteq Threads \X (1..MaxDepth)
    BY <1>2, <1>3 DEF Users
  <2>3. \A q \in Threads \X (1..MaxDepth) : q # p => (q \in S <=> q \in T)
    BY <1>1, <2>1
  <2> QED BY <2>2, <2>3
<1>10. Cardinality(T) = IF p \in S <=> p \in T THEN Cardinality(S)
                        ELSE IF p \in T THEN Cardinality(S) + 1 ELSE Cardinality(S) - 1
  <2>1. CASE p \in S <=> p \in T
    <3>1. S = T
      BY <2>1, <1>9
    <3> QED BY <3>1, <2>1
  <2>2. CASE p \in T /\ p \notin S
    <3>1. T = S \cup {p}
      BY <2>2, <1>9
    <3> QED BY <3>1, <2>2, <1>5, FS_AddElement
  <2>3. CASE p \in S /\ p \notin T
    <3>1. T = S \ {p}
      BY <2>3, <1>9
    <3> QED BY <3>1, <2>3, <1>5, FS_RemoveElement
  <2> QED BY <2>1, <2>2, <2>3
<1>11. Cardinality(Users(o))' = Cardinality(T)
  BY <1>3
<1> QED BY <1>2, <1>5, <1>7, <1>8, <1>10, <1>11

\* A call after a step is a new one, or one of the rest with another ref, and the reverse.
LEMMA RestIs ==
  ASSUME CallsTyped, CallsTyped', NEW t \in Threads, NEW n, NEW old, NEW new,
         Moves(t, n, old, new)
  PROVE  /\ \A u \in Threads, g \in FrameT : g \in Frames(u)' =>
              (u = t /\ g \in new) \/ \E f \in Rest(t, n) \cap Frames(u) : Alike(f, g)
         /\ \A u \in Threads, f \in FrameT : f \in Frames(u) =>
              \/ u = t /\ f \in old
              \/ f \in Rest(t, n) /\ \E g \in FrameT : g \in Frames(u)' /\ Alike(f, g)
         /\ \A f \in Rest(t, n) : f \in FrameT /\ \E u \in Threads : f \in Frames(u)
         /\ \A g \in new : g \in FrameT /\ g \in Frames(t)'
         /\ \A f \in old : f \in FrameT /\ f \in Frames(t)
<1>1. ASSUME NEW u \in Threads, NEW g \in FrameT, g \in Frames(u)', ~(u = t /\ g \in new)
      PROVE  \E f \in Rest(t, n) \cap Frames(u) : Alike(f, g)
  <2>1. PICK i \in DOMAIN stack'[u] : g = stack'[u][i]
    BY <1>1 DEF Frames, Members
  <2>2. i \in 1..MaxDepth
    <3>1. Len(stack'[u]) <= MaxDepth /\ stack'[u] \in Seq(FrameT)
      BY DEF CallsTyped
    <3>2. DOMAIN stack'[u] = 1..Len(stack'[u]) /\ Len(stack'[u]) \in Nat
      <4> HIDE DEF FrameT
      <4> QED BY <3>1, LenProperties
    <3> QED BY <2>1, <3>1, <3>2, SignalSlotAssumption
  <2>3. u # t \/ i # n
    BY <1>1, <2>1 DEF Moves
  <2>4. i \in DOMAIN stack[u] /\ Alike(stack[u][i], g)
    BY <2>1, <2>2, <2>3 DEF Moves
  <2>5. stack[u][i] \in Rest(t, n) /\ stack[u][i] \in Frames(u)
    BY <2>3, <2>4, StackIs DEF Rest, Frames, Members
  <2> QED BY <2>4, <2>5
<1>2. ASSUME NEW u \in Threads, NEW f \in FrameT, f \in Frames(u), ~(u = t /\ f \in old)
      PROVE  f \in Rest(t, n) /\ \E g \in FrameT : g \in Frames(u)' /\ Alike(f, g)
  <2>1. PICK i \in DOMAIN stack[u] : f = stack[u][i]
    BY <1>2 DEF Frames, Members
  <2>2. i \in 1..MaxDepth
    BY PlacesAre
  <2>3. u # t \/ i # n
    BY <1>2, <2>1 DEF Moves
  <2>4. i \in DOMAIN stack'[u] /\ Alike(f, stack'[u][i])
    BY <2>1, <2>2, <2>3 DEF Moves
  <2>5. stack'[u][i] \in FrameT
    BY <2>4, AlikeIs
  <2> QED BY <2>1, <2>3, <2>4, <2>5 DEF Rest, Frames, Members
<1>3. \A f \in Rest(t, n) : f \in FrameT /\ \E u \in Threads : f \in Frames(u)
  BY DEF Rest, Frames, Members
<1>4. ASSUME NEW g \in new PROVE g \in FrameT /\ g \in Frames(t)'
  <2>1. n \in DOMAIN stack'[t] /\ g = stack'[t][n]
    BY DEF Moves
  <2>2. stack'[t] \in Seq(FrameT)
    BY DEF CallsTyped
  <2>3. g \in FrameT
    <3> HIDE DEF FrameT
    <3> QED BY <2>1, <2>2, LenProperties, ElementOfSeq
  <2> QED BY <2>1, <2>3 DEF Frames, Members
<1>5. ASSUME NEW f \in old PROVE f \in FrameT /\ f \in Frames(t)
  <2>1. n \in DOMAIN stack[t] /\ f = stack[t][n]
    BY DEF Moves
  <2> QED BY <2>1, StackIs DEF Frames, Members
<1> QED BY <1>1, <1>2, <1>3, <1>4, <1>5

\* The step of a call keeps Vectors if it counts and leaves every call and vector in order.
LEMMA VectorsKept ==
  ASSUME CallsTyped, CallsTyped', Vectors,
         NEW t \in Threads, NEW n, NEW old, NEW new, Moves(t, n, old, new),
         \A o \in Objects :
           LET was == \E f \in old : UserOf(f, o)
               is == \E g \in new : UserOf(g, o)
           IN  inUse'[o] = IF was <=> is THEN inUse[o]
                           ELSE IF is THEN inUse[o] + 1 ELSE inUse[o] - 1,
         \A o \in Objects : VectorOk(o)',
         \A f \in Rest(t, n) : FrameOk(f)',
         \A g \in new : FrameOk(g)'
  PROVE  Vectors'
<1>1. ASSUME NEW o \in Objects PROVE inUse'[o] = Cardinality(Users(o))'
  <2>1. inUse[o] = Cardinality(Users(o))
    BY DEF Vectors
  <2> QED BY <2>1, UsersMove
<1>2. ASSUME NEW u \in Threads, NEW g, g \in Frames(u)' PROVE FrameOk(g)'
  <2>1. g \in FrameT
    <3>1. stack'[u] \in Seq(FrameT)
      BY DEF CallsTyped
    <3>2. PICK i \in DOMAIN stack'[u] : g = stack'[u][i]
      BY <1>2 DEF Frames, Members
    <3> HIDE DEF FrameT
    <3> QED BY <3>1, <3>2, LenProperties, ElementOfSeq
  <2>2. CASE g \in new
    BY <2>2
  <2>3. CASE g \notin new
    <3>1. PICK f \in Rest(t, n) : Alike(f, g)
      BY <2>1, <2>3, <1>2, RestIs
    <3>2. f \in FrameT /\ FrameOk(f)'
      BY <3>1 DEF Rest
    <3>3. g.op = f.op /\ g.at = f.at /\ g.obj = f.obj /\ g.conn = f.conn
      BY <3>1, <3>2, AlikeIs
    <3> QED BY <3>2, <3>3 DEF FrameOk, UsesVector, Refers
  <2> QED BY <2>2, <2>3
<1>3. \A o \in Objects : (inUse[o] = Cardinality(Users(o)) /\ VectorOk(o))'
  BY <1>1
<1>4. (\A u \in Threads : \A g \in Frames(u) : FrameOk(g))'
  BY <1>2
<1> QED BY <1>3, <1>4 DEF Vectors

\* ~QObject does not go back.
LEMMA PastKept ==
  ASSUME CallsTyped, CallsTyped', NEW t \in Threads, NEW n, NEW old, NEW new,
         Moves(t, n, old, new), NEW o, NEW S, Past(o, S),
         \A f \in old : f.op = "destroy" /\ f.obj = o /\ f.at \in S =>
           \E g \in new : g.op = "destroy" /\ g.obj = o /\ g.at \in S
  PROVE  Past(o, S)'
<1>0. PICK u \in Threads : \E f \in Frames(u) : f.op = "destroy" /\ f.obj = o /\ f.at \in S
  BY DEF Past
<1>1. PICK f \in Frames(u) : f.op = "destroy" /\ f.obj = o /\ f.at \in S
  BY <1>0
<1>2. f \in FrameT
  <2>1. PICK i \in DOMAIN stack[u] : f = stack[u][i]
    BY <1>1 DEF Frames, Members
  <2> QED BY <2>1, StackIs
<1>3. CASE u = t /\ f \in old
  <2>1. PICK g \in new : g.op = "destroy" /\ g.obj = o /\ g.at \in S
    BY <1>1, <1>3
  <2>2. g \in Frames(t)'
    BY RestIs
  <2> QED BY <2>1, <2>2 DEF Past
<1>4. CASE ~(u = t /\ f \in old)
  <2>1. PICK g \in FrameT : g \in Frames(u)' /\ Alike(f, g)
    BY <1>1, <1>2, <1>4, RestIs
  <2>2. g.op = f.op /\ g.at = f.at /\ g.obj = f.obj
    BY <1>2, <2>1, AlikeIs
  <2> QED BY <1>1, <2>1, <2>2 DEF Past
<1> QED BY <1>3, <1>4

LEMMA PastNow ==
  ASSUME CallsTyped, CallsTyped', NEW t \in Threads, NEW n, NEW old, NEW new,
         Moves(t, n, old, new), NEW S, NEW g \in new, g.op = "destroy", g.at \in S
  PROVE  Past(g.obj, S)'
<1>1. g \in Frames(t)'
  BY RestIs
<1> QED BY <1>1 DEF Past

\* No object ends that a call in the foreground needs, unless this is the call that ends it.
LEMMA NotPast ==
  ASSUME IInv, NEW t \in Threads, stack[t] # <<>>, NEW o, Needs(Top(t), o),
         NEW S \in SUBSET Ending,
         ~(Top(t).op = "destroy" /\ Top(t).obj = o /\ Top(t).at \in S)
  PROVE  ~Past(o, S)
<1> SUFFICES ASSUME NEW u \in Threads, NEW f \in Frames(u),
                    f.op = "destroy", f.obj = o, f.at \in S
             PROVE  FALSE
  BY DEF Past
<1>1. PICK i \in DOMAIN stack[u] : f = stack[u][i]
  BY DEF Frames, Members
<1>2. Alone(u, f) /\ (i < Len(stack[u]) => f.at \in Pausing)
  BY <1>1 DEF IInv, Called
<1>3. u = t
  <2>1. Top(t) \in Frames(t)
    BY StackIs DEF IInv
  <2> QED BY <2>1, <1>2 DEF Alone
<1>4. f.at \notin Pausing
  BY DEF Pausing, Ending, Leaving
<1>5. i = Len(stack[t])
  <2>1. i \in 1..Len(stack[t]) /\ Len(stack[t]) \in Nat
    BY <1>1, <1>3, StackIs, SignalSlotAssumption DEF IInv
  <2> QED BY <2>1, <1>2, <1>3, <1>4
<1> QED BY <1>1, <1>3, <1>5 DEF Top

-----------------------------------------------------------------------------
(* The steps that leave the vectors and their users as they are.           *)

\* The calls refer to connections that were made.
LEMMA FrameConn ==
  ASSUME IInv, NEW u \in Threads, NEW f \in Frames(u)
  PROVE  /\ f \in FrameT /\ f.obj \in Objects /\ Sane(u, f) /\ Alone(u, f)
         /\ f.conn # NoConn => f.conn \in 1..made
<1>1. PICK i \in DOMAIN stack[u] : f = stack[u][i]
  BY DEF Frames, Members
<1>2. f \in FrameT /\ Sane(u, f) /\ Alone(u, f)
  BY <1>1, StackIs DEF IInv, Called
<1>3. f.conn # NoConn => f.conn \in 1..made
  BY <1>2, ConnIs
<1> QED BY <1>2, <1>3 DEF FrameT

\* After a step, the connections in the lists of an object.
LEMMA ListedIs ==
  ASSUME IInv', NEW o \in Objects, NEW c \in Conns, c \in Listed(o)'
  PROVE  conns'[c].sender = o /\ ~conns'[c].freed
BY DEF IInv, Standing, Sent, Listed

LEMMA QuietKept ==
  ASSUME VInv, IInv', NEW t \in Threads, NEW n, NEW old, NEW new, Moves(t, n, old, new),
         UNCHANGED <<vector, inUse>>, ConnsKept,
         \A o \in Objects : object'[o] = "gone" <=> object[o] = "gone",
         \A o \in Objects : (\E f \in old : UserOf(f, o)) <=> (\E g \in new : UserOf(g, o)),
         \A f \in old : f.op = "destroy" /\ f.at \in Ending =>
           \E g \in new : /\ g.op = "destroy" /\ g.obj = f.obj /\ g.at \in Ending
                          /\ f.at \in Leaving => g.at \in Leaving,
         \A g \in new : FrameOk(g)'
  PROVE  Vectors'
<1>1. CallsTyped /\ CallsTyped'
  BY DEF VInv, IInv
<1>2. ASSUME NEW o, NEW S \in {Ending, Leaving}, Past(o, S) PROVE Past(o, S)'
  <2>1. \A f \in old : f.op = "destroy" /\ f.obj = o /\ f.at \in S =>
          \E g \in new : g.op = "destroy" /\ g.obj = o /\ g.at \in S
    BY DEF Ending
  <2> QED BY <2>1, <1>1, <1>2, PastKept
<1>3. ASSUME NEW o \in Objects PROVE VectorOk(o)'
  <2>1. VectorOk(o)
    BY DEF VInv, Vectors
  <2>2. vector'[o] = vector[o] /\ inUse'[o] = inUse[o]
    OBVIOUS
  <2>3. Past(o, Leaving) => Past(o, Leaving)'
    BY <1>2
  <2> QED BY <2>1, <2>2, <2>3 DEF VectorOk
<1>4. ASSUME NEW f \in Rest(t, n) PROVE FrameOk(f)'
  <2>1. PICK u \in Threads : f \in Frames(u)
    BY <1>1, RestIs
  <2>2. f.obj \in Objects /\ (f.conn # NoConn => f.conn \in 1..made)
    BY <2>1, FrameConn DEF VInv
  <2>3. FrameOk(f)
    BY <2>1 DEF VInv, Vectors
  <2>4. Past(f.obj, Ending) => Past(f.obj, Ending)'
    BY <1>2
  <2> QED BY <2>2, <2>3, <2>4 DEF FrameOk, Refers, ConnsKept, UsesVector
<1>5. \A o \in Objects : inUse[o] \in Int
  BY DEF VInv, IInv, DataTyped
<1>6. Vectors
  BY DEF VInv
<1>7. \A o \in Objects :
        LET was == \E f \in old : UserOf(f, o)
            is == \E g \in new : UserOf(g, o)
        IN  inUse'[o] = IF was <=> is THEN inUse[o]
                        ELSE IF is THEN inUse[o] + 1 ELSE inUse[o] - 1
  OBVIOUS
<1> QED BY <1>1, <1>3, <1>4, <1>6, <1>7, VectorsKept

\* The innermost call goes on.
LEMMA SameTop ==
  ASSUME VInv, IInv', NEW t \in Threads, stack[t] # <<>>, NEW f, f = Top(t), NEW g \in FrameT,
         Moves(t, Len(stack[t]), {f}, {g}), UNCHANGED <<vector, inUse, object>>, ConnsKept,
         g.op = f.op, g.obj = f.obj, UsesVector(g) <=> UsesVector(f),
         f.op = "destroy" /\ f.at \in Ending => g.at \in Ending /\ (f.at \in Leaving => g.at \in Leaving),
         g.at # "lockOne" \/ object[f.obj] # "gone",
         UsesVector(g) => g.conn \in {f.conn, NoConn} \cup Listed(f.obj)'
  PROVE  Vectors'
<1>1. f \in Frames(t) /\ FrameOk(f) /\ f.obj \in Objects /\ (f.conn # NoConn => f.conn \in 1..made)
  <2>1. f \in Frames(t)
    BY TopIs DEF VInv
  <2> QED BY <2>1, FrameConn DEF VInv, Vectors
<1>2. CallsTyped /\ CallsTyped'
  BY DEF VInv, IInv
<1>3. Past(f.obj, Ending) => Past(f.obj, Ending)'
  <2>1. ASSUME Past(f.obj, Ending) PROVE Past(f.obj, Ending)'
    BY <2>1, <1>2, PastKept
  <2> QED BY <2>1
<1>4. ASSUME UsesVector(g), g.conn # NoConn
      PROVE  /\ conns'[g.conn].sender = g.obj
             /\ conns'[g.conn].freed => vector'[g.obj] = "orphaned" \/ Past(g.obj, Ending)'
  <2>1. CASE g.conn = f.conn
    BY <2>1, <1>1, <1>3, <1>4 DEF FrameOk, Refers, ConnsKept
  <2>2. CASE g.conn \in Listed(f.obj)'
    <3>1. conns'[g.conn].sender = f.obj /\ ~conns'[g.conn].freed
      <4>1. g.conn \in Conns
        BY <2>2 DEF Listed
      <4> QED BY <4>1, <2>2, <1>1, ListedIs
    <3> QED BY <3>1
  <2> QED BY <2>1, <2>2, <1>4
<1>5. FrameOk(g)'
  BY <1>1, <1>4 DEF FrameOk, Refers, UsesVector
<1>6. \A o \in Objects : UserOf(f, o) <=> UserOf(g, o)
  BY DEF UserOf
<1> QED BY <1>5, <1>6, QuietKept

LEMMA QuietTop ==
  ASSUME VInv, IInv', NEW t \in Threads, stack[t] # <<>>, NEW f, f = Top(t), NEW g \in FrameT,
         Put(t, g), UNCHANGED <<made, conns, lists, vector, inUse, object>>,
         g.op = f.op, g.obj = f.obj, UsesVector(g) <=> UsesVector(f),
         f.op = "destroy" /\ f.at \in Ending => g.at \in Ending /\ (f.at \in Leaving => g.at \in Leaving),
         g.at # "lockOne", UsesVector(g) => g.conn \in {f.conn, NoConn} \cup Listed(f.obj)
  PROVE  Vectors'
<1>1. Moves(t, Len(stack[t]), {f}, {g})
  BY PutMoves DEF VInv
<1>2. ConnsKept
  BY DEF ConnsKept
<1>3. Listed(f.obj)' = Listed(f.obj)
  BY DEF Listed
<1> QED BY <1>1, <1>2, <1>3, SameTop

\* What follows a connection, and what a walk begins with, is in the lists of the object.
LEMMA FollowingListed ==
  ASSUME IInv, NEW f \in FrameT, f.walk # <<>>, NEW c
  PROVE  Following(lists[f.obj][Head(f.walk)], c) \in {NoConn} \cup Listed(f.obj)
<1>1. f.obj \in Objects /\ Head(f.walk) \in Lists
  <2>1. f.walk \in Seq(Lists) /\ f.obj \in Objects
    BY DEF FrameT
  <2> QED BY <2>1, HeadTailProperties
<1>2. lists[f.obj][Head(f.walk)] \in Seq(Conns)
  BY <1>1 DEF IInv, DataTyped
<1>3. /\ Following(lists[f.obj][Head(f.walk)], c) \in Members(lists[f.obj][Head(f.walk)]) \cup {NoConn}
      /\ Members(lists[f.obj][Head(f.walk)]) \subseteq Conns
  BY <1>2, EndsAre
<1> QED BY <1>1, <1>3 DEF Listed

LEMMA BegunListed ==
  ASSUME IInv, NEW f \in FrameT, NEW w \in Seq(Lists)
  PROVE  LET g == Begin(f, w)
         IN  /\ g \in FrameT /\ g.op = f.op /\ g.obj = f.obj /\ g.at = f.at
             /\ g.conn \in {NoConn} \cup Listed(f.obj)
<1>1. PICK g : g = Begin(f, w)
  OBVIOUS
<1>2. /\ g \in FrameT /\ g.op = f.op /\ g.obj = f.obj /\ g.at = f.at /\ g.walk = w
      /\ g.conn \in Members(Walked(g)) \cup {NoConn} /\ (w = <<>> => g.conn = NoConn)
  BY <1>1, BegunIs DEF IInv, SameNeeds
<1>3. CASE w = <<>>
  BY <1>1, <1>2, <1>3
<1>4. CASE w # <<>>
  <2>1. Head(w) \in Lists /\ f.obj \in Objects
    BY <1>4, HeadTailProperties DEF FrameT
  <2>2. Walked(g) = lists[f.obj][Head(w)]
    BY <1>2, <1>4 DEF Walked
  <2>3. Members(Walked(g)) \subseteq Conns
    BY <2>1, <2>2, EndsAre DEF IInv, DataTyped
  <2> QED BY <2>1, <2>2, <2>3, <1>1, <1>2 DEF Listed
<1> QED BY <1>3, <1>4

LEMMA LockLowerVectors ==
  ASSUME VInv, IInv', NEW t \in Threads, LockLower(t) PROVE Vectors'
<1>1. PICK f : f = Top(t)
  OBVIOUS
<1>2. PICK g : g = [f EXCEPT !.at = "lockUpper"]
  OBVIOUS
<1>3. /\ stack[t] # <<>> /\ f.at = "lock" /\ f.op \in {"connect", "disconnect"} /\ Put(t, g)
      /\ UNCHANGED <<connVars, objectVars>>
  BY <1>1, <1>2 DEF LockLower, At
<1>4. f \in FrameT
  BY <1>1, <1>3, TopIs DEF VInv
<1>5. g \in FrameT /\ g.op = f.op /\ g.obj = f.obj /\ g.at = "lockUpper"
  BY <1>2, <1>4 DEF FrameT, Points
<1> QED BY <1>1, <1>3, <1>4, <1>5, QuietTop DEF UsesVector, connVars, objectVars

LEMMA RelockVectors ==
  ASSUME VInv, IInv', NEW t \in Threads, Relock(t) PROVE Vectors'
<1>1. PICK f : f = Top(t)
  OBVIOUS
<1>2. PICK g : g = [f EXCEPT !.relock = "other", !.mutex = MutexOf[Other(f)], !.from = Other(f)]
  OBVIOUS
<1>3. Meets(t) /\ Put(t, g) /\ UNCHANGED <<connVars, objectVars>>
  BY <1>1, <1>2 DEF Relock
<1>4. /\ stack[t] # <<>> /\ f \in FrameT /\ MutexOf[Other(f)] \in Nat /\ Other(f) \in Objects
      /\ f.at \in {"disconnecting", "receivers", "senders"}
  BY <1>1, <1>3, MeetIs, TopIs DEF VInv
<1>5. g \in FrameT /\ g.op = f.op /\ g.obj = f.obj /\ g.at = f.at /\ g.conn = f.conn
  BY <1>2, <1>4 DEF FrameT, SomeObject
<1> QED BY <1>1, <1>3, <1>4, <1>5, QuietTop DEF UsesVector, connVars, objectVars

LEMMA RelockOtherVectors ==
  ASSUME VInv, IInv', NEW t \in Threads, RelockOther(t) PROVE Vectors'
<1>1. PICK f : f = Top(t)
  OBVIOUS
<1>2. PICK g : g = [f EXCEPT !.relock = "own"]
  OBVIOUS
<1>3. /\ stack[t] # <<>> /\ f.relock = "other" /\ Put(t, g) /\ UNCHANGED <<connVars, objectVars>>
  BY <1>1, <1>2 DEF RelockOther
<1>4. f \in FrameT /\ f.at \in {"disconnecting", "receivers", "senders"}
  <2>1. f \in FrameT /\ Sane(t, f)
    BY <1>1, <1>3, TopIs DEF VInv
  <2> QED BY <2>1, <1>3 DEF Sane, Relocks
<1>5. g \in FrameT /\ g.op = f.op /\ g.obj = f.obj /\ g.at = f.at /\ g.conn = f.conn
  BY <1>2, <1>4 DEF FrameT
<1> QED BY <1>1, <1>3, <1>4, <1>5, QuietTop DEF UsesVector, connVars, objectVars

LEMMA DisconnectSkipsVectors ==
  ASSUME VInv, IInv', NEW t \in Threads, DisconnectSkips(t) PROVE Vectors'
<1>1. PICK f : f = Top(t)
  OBVIOUS
<1>2. PICK c : c = Following(lists[f.obj][Head(f.walk)], f.conn)
  OBVIOUS
<1>3. PICK g : g = [f EXCEPT !.conn = c]
  OBVIOUS
<1>4. /\ At(t, "disconnect", "disconnecting") /\ f.conn # NoConn /\ Put(t, g)
      /\ UNCHANGED <<connVars, objectVars>>
  BY <1>1, <1>2, <1>3 DEF DisconnectSkips
<1>5. /\ stack[t] # <<>> /\ f \in FrameT /\ Sane(t, f) /\ f.op = "disconnect"
      /\ f.at = "disconnecting"
  BY <1>1, <1>4, DisconnectIs DEF VInv
<1>6. f.walk # <<>> /\ f.obj \in Objects /\ Head(f.walk) \in Lists
  BY <1>4, <1>5, ConnIs DEF VInv, FrameT
<1>7. c \in {NoConn} \cup Listed(f.obj) /\ c \in 0..MaxConns
  BY <1>2, <1>5, <1>6, FollowingListed, FollowingIs DEF VInv
<1>8. g \in FrameT /\ g.op = f.op /\ g.obj = f.obj /\ g.at = f.at /\ g.conn = c
  BY <1>3, <1>5, <1>7 DEF FrameT
<1> QED BY <1>1, <1>4, <1>5, <1>7, <1>8, QuietTop DEF UsesVector, connVars, objectVars

LEMMA DisconnectListVectors ==
  ASSUME VInv, IInv', NEW t \in Threads, DisconnectList(t) PROVE Vectors'
<1>1. PICK f : f = Top(t)
  OBVIOUS
<1>2. PICK g : g = Begin(f, Tail(f.walk))
  OBVIOUS
<1>3. /\ At(t, "disconnect", "disconnecting") /\ f.walk # <<>> /\ Put(t, g)
      /\ UNCHANGED <<made, conns, lists, vector, inUse, objectVars>>
  BY <1>1, <1>2 DEF DisconnectList
<1>4. /\ stack[t] # <<>> /\ f \in FrameT /\ f.op = "disconnect" /\ f.at = "disconnecting"
      /\ Tail(f.walk) \in Seq(Lists)
  BY <1>1, <1>3, DisconnectIs, HeadTailProperties DEF VInv
<1>5. /\ g \in FrameT /\ g.op = f.op /\ g.obj = f.obj /\ g.at = f.at
      /\ g.conn \in {NoConn} \cup Listed(f.obj)
  BY <1>2, <1>4, BegunListed DEF VInv
<1> QED BY <1>1, <1>3, <1>4, <1>5, QuietTop DEF UsesVector, objectVars

LEMMA EmitListVectors ==
  ASSUME VInv, IInv', NEW t \in Threads, EmitList(t) PROVE Vectors'
<1>1. PICK f : f = Top(t)
  OBVIOUS
<1>2. PICK g : g = Begin(f, Tail(f.walk))
  OBVIOUS
<1>3. /\ At(t, "emit", "walk") /\ f.walk # <<>> /\ Put(t, g) /\ UNCHANGED <<connVars, objectVars>>
  BY <1>1, <1>2 DEF EmitList
<1>4. /\ stack[t] # <<>> /\ f \in FrameT /\ f.op = "emit" /\ f.at = "walk"
      /\ Tail(f.walk) \in Seq(Lists)
  BY <1>1, <1>3, EmitIs, HeadTailProperties DEF VInv
<1>5. /\ g \in FrameT /\ g.op = f.op /\ g.obj = f.obj /\ g.at = f.at
      /\ g.conn \in {NoConn} \cup Listed(f.obj)
  BY <1>2, <1>4, BegunListed DEF VInv
<1> QED BY <1>1, <1>3, <1>4, <1>5, QuietTop DEF UsesVector, connVars, objectVars

LEMMA DestroyListVectors ==
  ASSUME VInv, IInv', NEW t \in Threads, DestroyList(t) PROVE Vectors'
<1>1. PICK f : f = Top(t)
  OBVIOUS
<1>2. PICK g : g = Begin(f, Tail(f.walk))
  OBVIOUS
<1>3. /\ At(t, "destroy", "receivers") /\ f.walk # <<>> /\ Put(t, g)
      /\ UNCHANGED <<connVars, objectVars>>
  BY <1>1, <1>2 DEF DestroyList
<1>4. /\ stack[t] # <<>> /\ f \in FrameT /\ f.op = "destroy" /\ f.at = "receivers"
      /\ Tail(f.walk) \in Seq(Lists)
  <2>1. stack[t] # <<>> /\ f.op = "destroy" /\ f.at = "receivers"
    BY <1>1, <1>3 DEF At
  <2>2. f \in FrameT
    BY <2>1, <1>1, TopIs DEF VInv
  <2>3. f.walk \in Seq(Lists)
    BY <2>2 DEF FrameT
  <2> QED BY <2>1, <2>2, <2>3, <1>3, HeadTailProperties
<1>5. /\ g \in FrameT /\ g.op = f.op /\ g.obj = f.obj /\ g.at = f.at
      /\ g.conn \in {NoConn} \cup Listed(f.obj)
  BY <1>2, <1>4, BegunListed DEF VInv
<1> QED BY <1>1, <1>3, <1>4, <1>5, QuietTop DEF UsesVector, connVars, objectVars

LEMMA DestroyUnlocksVectors ==
  ASSUME VInv, IInv', NEW t \in Threads, DestroyUnlocks(t) PROVE Vectors'
<1>1. PICK f : f = Top(t)
  OBVIOUS
<1>2. PICK g : g = [f EXCEPT !.at = "free"]
  OBVIOUS
<1>3. /\ stack[t] # <<>> /\ f.op = "destroy" /\ f.at = "senders" /\ Put(t, g)
      /\ UNCHANGED <<connVars, objectVars>>
  BY <1>1, <1>2 DEF DestroyUnlocks, At
<1>4. f \in FrameT
  BY <1>1, <1>3, TopIs DEF VInv
<1>5. g \in FrameT /\ g.op = f.op /\ g.obj = f.obj /\ g.at = "free"
  BY <1>2, <1>4 DEF FrameT, Points
<1> QED BY <1>1, <1>3, <1>4, <1>5, QuietTop DEF UsesVector, connVars, objectVars, Ending, Leaving

-----------------------------------------------------------------------------
(* Emissions.                                                              *)

LEMMA AdvanceListed ==
  ASSUME IInv, NEW f \in FrameT, f.walk # <<>>
  PROVE  LET g == Advance(f)
         IN  /\ g \in FrameT /\ g.op = f.op /\ g.obj = f.obj /\ g.at = "walk"
             /\ g.conn \in {NoConn} \cup Listed(f.obj)
<1>1. PICK c : c = IF f.conn = f.last THEN NoConn ELSE Following(lists[f.obj][Head(f.walk)], f.conn)
  OBVIOUS
<1>2. c \in {NoConn} \cup Listed(f.obj)
  BY <1>1, FollowingListed
<1>3. Advance(f) = [f EXCEPT !.at = "walk", !.conn = c]
  BY <1>1 DEF Advance
<1>4. Advance(f).conn = c
  BY <1>3 DEF FrameT
<1> QED BY <1>2, <1>4, AdvanceIs

LEMMA VisitVectors ==
  ASSUME VInv, IInv', NEW t \in Threads, Visits(t), NEW h, h \in {Top(t), Visited(Top(t))},
         Put(t, Advance(h)), UNCHANGED <<connVars, objectVars>>
  PROVE  Vectors'
<1>1. PICK f : f = Top(t)
  OBVIOUS
<1>2. /\ stack[t] # <<>> /\ f \in FrameT /\ f.op = "emit" /\ f.at = "walk" /\ f.walk # <<>>
  <2>1. At(t, "emit", "walk") /\ f.conn # NoConn
    BY <1>1 DEF Visits
  <2> QED BY <2>1, <1>1, EmitIs DEF Sane, Placed, VInv
<1>3. h \in FrameT /\ h.walk # <<>> /\ h.op = "emit" /\ h.obj = f.obj
  BY <1>1, <1>2, VisitedIs
<1>4. PICK g : g = Advance(h)
  OBVIOUS
<1>5. /\ g \in FrameT /\ g.op = f.op /\ g.obj = f.obj /\ g.at = "walk"
      /\ g.conn \in {NoConn} \cup Listed(f.obj)
  BY <1>2, <1>3, <1>4, AdvanceListed DEF VInv
<1> QED BY <1>1, <1>2, <1>4, <1>5, QuietTop DEF UsesVector, connVars, objectVars

LEMMA EmitBlockingVectors ==
  ASSUME VInv, IInv', NEW t \in Threads, EmitBlocking(t) PROVE Vectors'
<1>1. PICK f : f = Top(t)
  OBVIOUS
<1>2. PICK v : v = Visited(f)
  OBVIOUS
<1>3. PICK g : g = [v EXCEPT !.at = "unlocked", !.peer = Receiver(f)]
  OBVIOUS
<1>4. /\ At(t, "emit", "walk") /\ f.conn # NoConn /\ Put(t, g) /\ UNCHANGED <<connVars, objectVars>>
  BY <1>1, <1>2, <1>3 DEF EmitBlocking, Visits
<1>5. stack[t] # <<>> /\ f \in FrameT /\ Sane(t, f) /\ f.op = "emit" /\ f.at = "walk"
  BY <1>1, <1>4, EmitIs DEF VInv
<1>6. Receiver(f) \in SomeObject
  BY <1>4, <1>5, ConnIs DEF VInv
<1>7. v \in FrameT /\ v.conn = f.conn /\ v.op = f.op /\ v.obj = f.obj
  BY <1>2, <1>5, VisitedIs
<1>8. g \in FrameT /\ g.op = f.op /\ g.obj = f.obj /\ g.at = "unlocked" /\ g.conn = f.conn
  BY <1>3, <1>6, <1>7 DEF FrameT, Points
<1> QED BY <1>1, <1>4, <1>5, <1>8, QuietTop DEF UsesVector, connVars, objectVars

LEMMA BlockingPostsVectors ==
  ASSUME VInv, IInv', NEW t \in Threads, BlockingPosts(t) PROVE Vectors'
<1>1. PICK f : f = Top(t)
  OBVIOUS
<1>2. PICK g : g = [f EXCEPT !.at = "posted"]
  OBVIOUS
<1>3. /\ At(t, "emit", "unlocked") /\ Put(t, g) /\ UNCHANGED <<connVars, objectVars>>
  BY <1>1, <1>2 DEF BlockingPosts
<1>4. stack[t] # <<>> /\ f \in FrameT /\ f.op = "emit" /\ f.at = "unlocked"
  BY <1>1, <1>3, EmitIs DEF VInv
<1>5. g \in FrameT /\ g.op = f.op /\ g.obj = f.obj /\ g.at = "posted" /\ g.conn = f.conn
  BY <1>2, <1>4 DEF FrameT, Points
<1> QED BY <1>1, <1>3, <1>4, <1>5, QuietTop DEF UsesVector, connVars, objectVars

LEMMA BlockingReturnsVectors ==
  ASSUME VInv, IInv', NEW t \in Threads, BlockingReturns(t) PROVE Vectors'
<1>1. PICK f : f = Top(t)
  OBVIOUS
<1>2. PICK g : g = Advance(f)
  OBVIOUS
<1>3. /\ At(t, "emit", "posted") /\ Put(t, g) /\ UNCHANGED <<connVars, objectVars>>
  BY <1>1, <1>2 DEF BlockingReturns
<1>4. stack[t] # <<>> /\ f \in FrameT /\ f.op = "emit" /\ f.at = "posted" /\ f.walk # <<>>
  BY <1>1, <1>3, EmitIs DEF VInv, Sane, Placed
<1>5. /\ g \in FrameT /\ g.op = f.op /\ g.obj = f.obj /\ g.at = "walk"
      /\ g.conn \in {NoConn} \cup Listed(f.obj)
  BY <1>2, <1>4, AdvanceListed DEF VInv
<1> QED BY <1>1, <1>3, <1>4, <1>5, QuietTop DEF UsesVector, connVars, objectVars

LEMMA EmitDirectVectors ==
  ASSUME VInv, IInv', NEW t \in Threads, EmitDirect(t) PROVE Vectors'
<1>1. PICK f : f = Top(t)
  OBVIOUS
<1>2. PICK r : r = Receiver(f)
  OBVIOUS
<1>3. PICK v : v = Visited(f)
  OBVIOUS
<1>4. PICK p : p = currentSender[r]
  OBVIOUS
<1>5. PICK g : g = [v EXCEPT !.at = "called", !.peer = r, !.ref = 1, !.prev = p]
  OBVIOUS
<1>6. /\ At(t, "emit", "walk") /\ f.conn # NoConn /\ Activation(t, f) = "direct" /\ Put(t, g)
      /\ UNCHANGED <<connVars, object>>
  BY <1>1, <1>2, <1>3, <1>4, <1>5 DEF EmitDirect, Visits
<1>7. stack[t] # <<>> /\ f \in FrameT /\ Sane(t, f) /\ f.op = "emit" /\ f.at = "walk"
  BY <1>1, <1>6, EmitIs DEF VInv
<1>8. r \in SomeObject
  BY <1>2, <1>6, <1>7, ConnIs DEF VInv
<1>9. p \in 0..MaxDepth
  <2>1. r # Nobody
    BY <1>2, <1>6 DEF Activation
  <2>2. r \in Objects
    BY <2>1, <1>8 DEF SomeObject
  <2> QED BY <2>2, <1>4 DEF VInv, IInv, DataTyped
<1>10. v \in FrameT /\ v.conn = f.conn /\ v.op = f.op /\ v.obj = f.obj
  BY <1>3, <1>7, VisitedIs
<1>11. g \in FrameT /\ g.op = f.op /\ g.obj = f.obj /\ g.at = "called" /\ g.conn = f.conn
  BY <1>5, <1>8, <1>9, <1>10 DEF FrameT, Points
<1> QED BY <1>1, <1>6, <1>7, <1>11, QuietTop DEF UsesVector, connVars

LEMMA SlotReturnsVectors ==
  ASSUME VInv, IInv', NEW t \in Threads, SlotReturns(t) PROVE Vectors'
<1>1. PICK f : f = Top(t)
  OBVIOUS
<1>2. PICK g : g = Returned(f)
  OBVIOUS
<1>3. At(t, "emit", "called") /\ UNCHANGED <<connVars, object>>
  BY DEF SlotReturns
<1>4. /\ stack[t] # <<>> /\ f \in FrameT /\ f.op = "emit" /\ f.at = "called" /\ f.walk # <<>>
  BY <1>1, <1>3, EmitIs DEF VInv, Sane, Placed
<1>5. /\ g \in FrameT /\ g.op = f.op /\ g.obj = f.obj /\ g.at = "walk"
      /\ g.conn \in {NoConn} \cup Listed(f.obj)
  <2>1. CASE Orphaned(f)
    <3>1. NoConn \in 0..MaxConns /\ <<>> \in Seq(Lists)
      BY SignalSlotAssumption, EmptySeq DEF NoConn
    <3>2. g = [f EXCEPT !.at = "walk", !.conn = NoConn, !.walk = <<>>]
      BY <2>1, <1>2 DEF Returned
    <3> QED BY <3>1, <3>2, <1>4 DEF FrameT, Points
  <2>2. CASE ~Orphaned(f)
    BY <2>2, <1>2, <1>4, AdvanceListed DEF VInv, Returned
  <2> QED BY <2>1, <2>2
<1>6. Moves(t, Len(stack[t]), {f}, {g})
  <2>1. PICK s \in Seq(FrameT) :
          /\ Len(s) = Len(stack[t]) /\ s[Len(s)] = g /\ stack' = [stack EXCEPT ![t] = s]
          /\ \A i \in 1..(Len(s) - 1) : Alike(stack[t][i], s[i])
    BY <1>1, <1>2, <1>5, SlotStack DEF VInv
  <2> QED BY <2>1, <1>1, <1>4, <1>5, TopMoves DEF VInv
<1>7. Listed(f.obj)' = Listed(f.obj) /\ ConnsKept
  BY <1>3 DEF Listed, ConnsKept, connVars
<1> QED BY <1>1, <1>3, <1>4, <1>5, <1>6, <1>7, SameTop DEF UsesVector, connVars

LEMMA DestroyBeginsVectors ==
  ASSUME VInv, IInv', NEW t \in Threads, DestroyBegins(t) PROVE Vectors'
<1>1. PICK f : f = Top(t)
  OBVIOUS
<1>2. PICK g : g = Told(f)
  OBVIOUS
<1>3. At(t, "destroy", "destroyed") /\ UNCHANGED <<connVars, object>>
  BY DEF DestroyBegins
<1>4. /\ stack[t] # <<>> /\ f \in FrameT /\ f.op = "destroy" /\ f.at = "destroyed"
      /\ object[f.obj] = "dying"
  BY <1>1, <1>3, DestroyIs DEF VInv, Destroys
<1>5. g \in FrameT /\ g.op = f.op /\ g.obj = f.obj /\ g.at = "lockOne"
  BY <1>2, <1>4 DEF FrameT, Points, Told
<1>6. Moves(t, Len(stack[t]), {f}, {g})
  <2>1. PICK s \in Seq(FrameT) :
          /\ Len(s) = Len(stack[t]) /\ s[Len(s)] = g /\ stack' = [stack EXCEPT ![t] = s]
          /\ \A i \in 1..(Len(s) - 1) : Alike(stack[t][i], s[i])
    BY <1>1, <1>2, <1>5, ToldStack DEF VInv
  <2> QED BY <2>1, <1>1, <1>4, <1>5, TopMoves DEF VInv
<1>7. ConnsKept
  BY <1>3 DEF ConnsKept, connVars
<1> QED BY <1>1, <1>3, <1>4, <1>5, <1>6, <1>7, SameTop DEF UsesVector, connVars, Ending, Leaving

-----------------------------------------------------------------------------
(* Calls that begin, and calls that end without a vector.                  *)

LEMMA QuietPop ==
  ASSUME VInv, IInv', NEW t \in Threads, stack[t] # <<>>, Pop(t),
         UNCHANGED <<vector, inUse, object>>, ConnsKept,
         ~UsesVector(Top(t)), Top(t).op # "destroy"
  PROVE  Vectors'
<1>1. Moves(t, Len(stack[t]), {Top(t)}, {})
  BY PopMoves DEF VInv
<1>2. \A o \in Objects : ~(\E f \in {Top(t)} : UserOf(f, o))
  BY DEF UserOf
<1> QED BY <1>1, <1>2, QuietKept

LEMMA QuietPush ==
  ASSUME VInv, IInv', NEW t \in Threads, NEW g \in FrameT, MayCall(t), Push(t, g),
         UNCHANGED connVars, \A o \in Objects : object'[o] = "gone" <=> object[o] = "gone",
         ~UsesVector(g), object[g.obj] # "gone"
  PROVE  Vectors'
<1>1. Moves(t, Len(stack[t]) + 1, {}, {g})
  BY PushMoves DEF VInv
<1>2. ConnsKept
  BY DEF ConnsKept, connVars
<1>3. g.obj \in Objects
  BY DEF FrameT
<1>4. FrameOk(g)'
  BY <1>3 DEF FrameOk, UsesVector
<1>5. \A o \in Objects : ~(\E h \in {g} : UserOf(h, o))
  BY DEF UserOf
<1>6. UNCHANGED <<vector, inUse>>
  BY DEF connVars
<1> QED BY <1>1, <1>2, <1>4, <1>5, <1>6, QuietKept

LEMMA EmitVectors ==
  ASSUME VInv, IInv', NEW t \in Threads, NEW o \in Objects, Emit(t, o) PROVE Vectors'
<1>0. PICK w : w = <<"sig", "all">>
  OBVIOUS
<1>1. PICK g : g = Call("emit", "lockOne", o, Nobody, w)
  OBVIOUS
<1>2. MayCall(t) /\ Usable(t, o) /\ Push(t, g) /\ UNCHANGED <<connVars, objectVars>>
  BY <1>0, <1>1 DEF Emit
<1>3. g \in FrameT /\ g.at = "lockOne" /\ g.obj = o
  <2>1. /\ "emit" \in Ops /\ "lockOne" \in Points /\ Nobody \in SomeObject
        /\ w \in Seq(Lists)
    BY <1>0 DEF Ops, Points, SomeObject, Lists
  <2> QED BY <1>1, <2>1, CallIs
<1>4. object[o] # "gone" /\ ~UsesVector(g)
  BY <1>2, <1>3 DEF Usable, UsesVector
<1> QED BY <1>2, <1>3, <1>4, QuietPush DEF objectVars

LEMMA DisconnectVectors ==
  ASSUME VInv, IInv', NEW t \in Threads, NEW o \in Objects, NEW r \in SomeObject,
         NEW w \in Seq(Lists), Disconnect(t, o, r, w)
  PROVE  Vectors'
<1>0. PICK point : point = IF r = Nobody THEN "lockOne" ELSE "lock"
  OBVIOUS
<1>1. PICK g : g = Call("disconnect", point, o, r, w)
  OBVIOUS
<1>2. MayCall(t) /\ Usable(t, o) /\ Push(t, g) /\ UNCHANGED <<connVars, objectVars>>
  BY <1>0, <1>1 DEF Disconnect
<1>3. g \in FrameT /\ g.at = point /\ g.obj = o
  <2>1. "disconnect" \in Ops /\ point \in Points
    BY <1>0 DEF Ops, Points
  <2> QED BY <1>1, <2>1, CallIs
<1>4. object[o] # "gone" /\ ~UsesVector(g)
  BY <1>0, <1>2, <1>3 DEF Usable, UsesVector
<1> QED BY <1>2, <1>3, <1>4, QuietPush DEF objectVars

LEMMA ConnectVectors ==
  ASSUME VInv, IInv', NEW t \in Threads, NEW o \in Objects, NEW r \in Objects, NEW l \in Lists,
         NEW k \in AllKinds, NEW unique \in BOOLEAN, Connect(t, o, r, l, k, unique)
  PROVE  Vectors'
<1>a. PICK w : w = <<l>>
  OBVIOUS
<1>0. PICK h : h = Call("connect", "lock", o, r, w)
  OBVIOUS
<1>1. PICK g : g = [h EXCEPT !.kind = k, !.unique = unique]
  OBVIOUS
<1>2. MayCall(t) /\ Usable(t, o) /\ Push(t, g) /\ UNCHANGED <<connVars, objectVars>>
  BY <1>a, <1>0, <1>1 DEF Connect
<1>3. g \in FrameT /\ g.at = "lock" /\ g.obj = o
  <2>1. "connect" \in Ops /\ "lock" \in Points /\ r \in SomeObject /\ w \in Seq(Lists)
    BY <1>a DEF Ops, Points, SomeObject
  <2>2. h \in FrameT /\ h.at = "lock" /\ h.obj = o
    BY <1>0, <2>1, CallIs
  <2> QED BY <1>1, <2>2 DEF FrameT
<1>4. object[o] # "gone" /\ ~UsesVector(g)
  BY <1>2, <1>3 DEF Usable, UsesVector
<1> QED BY <1>2, <1>3, <1>4, QuietPush DEF objectVars

LEMMA DestroyVectors ==
  ASSUME VInv, IInv', NEW t \in Threads, NEW o \in Objects, Destroy(t, o) PROVE Vectors'
<1>0. PICK w : w = <<"all", "sig">>
  OBVIOUS
<1>1. PICK g : g = Call("destroy", "destroyed", o, Nobody, w)
  OBVIOUS
<1>2. /\ MayCall(t) /\ object[o] = "alive" /\ Push(t, g)
      /\ object' = [object EXCEPT ![o] = "dying"] /\ UNCHANGED connVars
  BY <1>0, <1>1 DEF Destroy
<1>3. g \in FrameT /\ g.at = "destroyed" /\ g.obj = o
  <2>1. "destroy" \in Ops /\ "destroyed" \in Points /\ Nobody \in SomeObject
        /\ w \in Seq(Lists)
    BY <1>0 DEF Ops, Points, SomeObject, Lists
  <2> QED BY <1>1, <2>1, CallIs
<1>4. \A x \in Objects : object'[x] = "gone" <=> object[x] = "gone"
  BY <1>2 DEF VInv, IInv, DataTyped
<1>5. object[g.obj] # "gone" /\ ~UsesVector(g)
  BY <1>2, <1>3 DEF UsesVector
<1> QED BY <1>2, <1>3, <1>4, <1>5, QuietPush

LEMMA DisconnectBothVectors ==
  ASSUME VInv, IInv', NEW t \in Threads, DisconnectBoth(t) PROVE Vectors'
<1>1. PICK cs : cs = {c \in 1..made : /\ \E l \in Members(Top(t).walk) : c \in Members(lists[Top(t).obj][l])
                                     /\ conns[c].receiver = Top(t).peer}
  OBVIOUS
<1>2. /\ At(t, "disconnect", "lockUpper") /\ Pop(t)
      /\ conns' = [c \in Conns |->
                     IF c \in cs THEN [conns[c] EXCEPT !.receiver = Nobody] ELSE conns[c]]
      /\ UNCHANGED <<vector, inUse, objectVars>>
  BY <1>1 DEF DisconnectBoth
<1>3. ConnsKept
  <2>1. \A c \in 1..made : c \in Conns /\ conns[c] \in ConnT
    BY SignalSlotAssumption DEF Conns, VInv, IInv, DataTyped
  <2> QED BY <2>1, <1>2 DEF ConnsKept, ConnT
<1>4. stack[t] # <<>> /\ ~UsesVector(Top(t)) /\ Top(t).op # "destroy"
  BY <1>2 DEF At, UsesVector
<1> QED BY <1>2, <1>3, <1>4, QuietPop DEF objectVars

LEMMA DisconnectOtherVectors ==
  ASSUME VInv, IInv', NEW t \in Threads, DisconnectOther(t) PROVE Vectors'
<1>1. PICK f : f = Top(t)
  OBVIOUS
<1>2. PICK c : c = Following(lists[f.obj][Head(f.walk)], f.conn)
  OBVIOUS
<1>3. PICK g : g = [f EXCEPT !.conn = c, !.seen = @ \cup {f.conn}, !.relock = "no"]
  OBVIOUS
<1>4. /\ WithOther(t, "disconnecting")
      /\ conns' = [conns EXCEPT ![f.conn].receiver = Nobody] /\ Put(t, g)
      /\ UNCHANGED <<made, lists, vector, inUse, dirty, objectVars>>
  BY <1>1, <1>2, <1>3 DEF DisconnectOther
<1>5. /\ stack[t] # <<>> /\ f \in FrameT /\ Sane(t, f) /\ f.at = "disconnecting"
      /\ f.op = "disconnect" /\ f.obj \in Objects /\ f.conn # NoConn
  BY <1>1, <1>4, WithOtherIs DEF VInv
<1>6. /\ f.conn \in 1..made /\ f.conn \in Conns /\ f.walk # <<>> /\ Head(f.walk) \in Lists
  BY <1>5, ConnIs DEF VInv
<1>7. c \in {NoConn} \cup Listed(f.obj) /\ c \in 0..MaxConns
  BY <1>2, <1>5, <1>6, FollowingListed, FollowingIs DEF VInv
<1>8. /\ g \in FrameT /\ g.op = f.op /\ g.obj = f.obj /\ g.at = f.at /\ g.conn = c
  BY <1>3, <1>5, <1>7 DEF FrameT
<1>9. ConnsKept
  <2>1. conns \in [Conns -> ConnT] /\ \A d \in 1..made : d \in Conns
    BY SignalSlotAssumption DEF Conns, VInv, IInv, DataTyped
  <2> QED BY <2>1, <1>4, <1>6 DEF ConnsKept, ConnT
<1>10. Moves(t, Len(stack[t]), {f}, {g})
  BY <1>1, <1>4, <1>5, <1>8, PutMoves DEF VInv
<1>11. Listed(f.obj)' = Listed(f.obj)
  BY <1>4 DEF Listed
<1> QED BY <1>1, <1>4, <1>5, <1>7, <1>8, <1>9, <1>10, <1>11, SameTop DEF UsesVector, objectVars

LEMMA DestroySenderVectors ==
  ASSUME VInv, IInv', NEW t \in Threads, DestroySender(t) PROVE Vectors'
<1>1. PICK f : f = Top(t)
  OBVIOUS
<1>2. PICK c : c = Current(f)
  OBVIOUS
<1>3. WithOther(t, "senders") /\ UNCHANGED <<made, lists, vector, inUse, objectVars>>
  BY DEF DestroySender
<1>4. /\ stack[t] # <<>> /\ f \in FrameT /\ f.at = "senders" /\ f.op = "destroy"
  BY <1>1, <1>3, WithOtherIs DEF VInv
<1>5. \E g \in FrameT : /\ Put(t, g) /\ g.op = f.op /\ g.at = f.at /\ g.obj = f.obj
  <2>1. CASE f.relock = "own" /\ ~SameNode(f)
    <3>1. PICK g : g = [f EXCEPT !.relock = "no"]
      OBVIOUS
    <3>2. Put(t, g)
      BY <1>1, <2>1, <3>1 DEF DestroySender
    <3>3. g \in FrameT /\ g.op = f.op /\ g.at = f.at /\ g.obj = f.obj
      BY <1>4, <3>1 DEF FrameT
    <3> QED BY <3>2, <3>3
  <2>2. CASE ~(f.relock = "own" /\ ~SameNode(f))
    <3>1. PICK g : g = [f EXCEPT !.relock = "no", !.seen = @ \cup {c}]
      OBVIOUS
    <3>2. Put(t, g)
      BY <1>1, <1>2, <2>2, <3>1 DEF DestroySender
    <3>3. c \in 0..MaxConns
      <4>1. senders[f.obj] \in Seq(Conns)
        BY <1>4 DEF VInv, IInv, DataTyped, FrameT
      <4> QED BY <4>1, <1>2, <1>4, EndsAre DEF Current
    <3>4. g \in FrameT /\ g.op = f.op /\ g.at = f.at /\ g.obj = f.obj
      BY <1>4, <3>1, <3>3 DEF FrameT
    <3> QED BY <3>2, <3>4
  <2> QED BY <2>1, <2>2
<1>6. ConnsKept
  <2>1. conns \in [Conns -> ConnT] /\ \A d \in 1..made : d \in Conns
    BY SignalSlotAssumption DEF Conns, VInv, IInv, DataTyped
  <2>2. conns' = conns \/ conns' = [conns EXCEPT ![c].receiver = Nobody]
    BY <1>1, <1>2 DEF DestroySender
  <2> QED BY <2>1, <2>2 DEF ConnsKept, ConnT
<1>7. PICK g \in FrameT : Put(t, g) /\ g.op = f.op /\ g.at = f.at /\ g.obj = f.obj
  BY <1>5
<1>8. Moves(t, Len(stack[t]), {f}, {g})
  BY <1>1, <1>4, <1>7, PutMoves DEF VInv
<1> QED BY <1>1, <1>3, <1>4, <1>6, <1>7, <1>8, SameTop DEF UsesVector, objectVars

-----------------------------------------------------------------------------
(* The other calls, and those that take a vector or give it back.          *)

\* The other calls of a thread wait for the innermost one.
LEMMA RestWaits ==
  ASSUME IInv, NEW t \in Threads, stack[t] # <<>>, NEW f \in Rest(t, Len(stack[t]))
  PROVE  f \in FrameT /\ \E u \in Threads : f \in Frames(u) /\ (u = t => f.at \in Pausing)
<1>1. PICK u \in Threads : \E i \in DOMAIN stack[u] : (u # t \/ i # Len(stack[t])) /\ f = stack[u][i]
  BY DEF Rest
<1>2. PICK i \in DOMAIN stack[u] : (u # t \/ i # Len(stack[t])) /\ f = stack[u][i]
  BY <1>1
<1>3. f \in Frames(u)
  BY <1>2 DEF Frames, Members
<1>4. ASSUME u = t PROVE f.at \in Pausing
  <2>1. i \in 1..Len(stack[t]) /\ Len(stack[t]) \in Nat
    BY <1>2, <1>4, StackIs, SignalSlotAssumption DEF IInv
  <2>2. i < Len(stack[u])
    BY <2>1, <1>2, <1>4
  <2> QED BY <2>2, <1>2 DEF IInv, Called
<1> QED BY <1>3, <1>4 DEF Rest

\* The others that use the vector are counted too.
LEMMA RestCounts ==
  ASSUME CallsTyped, Vectors, NEW t \in Threads, NEW n, NEW old, NEW new, Moves(t, n, old, new),
         NEW o \in Objects, NEW f \in Rest(t, n), UserOf(f, o)
  PROVE  /\ inUse[o] # 0
         /\ (\E g \in old : UserOf(g, o)) => inUse[o] - 1 # 0
<1>1. PICK S : S = Users(o)
  OBVIOUS
<1>2. PICK p : p = <<t, n>>
  OBVIOUS
<1>3. IsFiniteSet(S) /\ Cardinality(S) \in Nat /\ inUse[o] = Cardinality(S)
  BY <1>1, UsersMove DEF Vectors
<1>4. PICK u \in Threads : \E i \in DOMAIN stack[u] : (u # t \/ i # n) /\ f = stack[u][i]
  BY DEF Rest
<1>5. PICK i \in DOMAIN stack[u] : (u # t \/ i # n) /\ f = stack[u][i]
  BY <1>4
<1>6. PICK q : q = <<u, i>>
  OBVIOUS
<1>7. q \in S /\ q # p
  <2>1. i \in 1..MaxDepth
    BY PlacesAre
  <2> QED BY <2>1, <1>1, <1>2, <1>5, <1>6 DEF Users, UserOf, UsesVector
<1>8. Cardinality(S) # 0
  BY <1>3, <1>7, FS_EmptySet
<1>9. ASSUME NEW g \in old, UserOf(g, o) PROVE Cardinality(S) - 1 # 0
  <2>1. n \in DOMAIN stack[t] /\ g = stack[t][n] /\ n \in 1..MaxDepth
    BY DEF Moves
  <2>2. p \in S
    BY <2>1, <1>1, <1>2, <1>9 DEF Users, UserOf, UsesVector
  <2>3. Cardinality(S \ {p}) = Cardinality(S) - 1 /\ IsFiniteSet(S \ {p})
    BY <2>2, <1>3, FS_RemoveElement
  <2>4. S \ {p} # {}
    BY <1>7
  <2> QED BY <2>3, <2>4, FS_EmptySet
<1> QED BY <1>3, <1>8, <1>9

\* Another call stays in order, unless its object ends or its connection is freed.
LEMMA RestKept ==
  ASSUME VInv, NEW u \in Threads, NEW f \in Frames(u),
         f.at = "lockOne" => object'[f.obj] # "gone",
         UsesVector(f) =>
           /\ \/ vector'[f.obj] = vector[f.obj]
              \/ vector'[f.obj] = "orphaned" /\ f.op # "destroy"
           /\ Past(f.obj, Ending) => vector'[f.obj] = "orphaned" \/ Past(f.obj, Ending)'
           /\ \A c \in 1..made : conns[c].sender = f.obj =>
                /\ conns'[c].sender = f.obj
                /\ conns'[c].freed =>
                     conns[c].freed \/ vector'[f.obj] = "orphaned" \/ Past(f.obj, Ending)'
  PROVE  FrameOk(f)'
<1>1. FrameOk(f) /\ (f.conn # NoConn => f.conn \in 1..made)
  BY FrameConn DEF VInv, Vectors
<1>2. ASSUME UsesVector(f)
      PROVE  /\ vector'[f.obj] \in {"used", "orphaned"}
             /\ (f.op = "destroy" => vector'[f.obj] = "used")
             /\ Refers(f)'
  <2>1. vector'[f.obj] \in {"used", "orphaned"} /\ (f.op = "destroy" => vector'[f.obj] = "used")
    BY <1>1, <1>2 DEF FrameOk
  <2>2. ASSUME f.conn # NoConn
        PROVE  /\ conns'[f.conn].sender = f.obj
               /\ conns'[f.conn].freed => vector'[f.obj] = "orphaned" \/ Past(f.obj, Ending)'
    <3>1. /\ f.conn \in 1..made /\ conns[f.conn].sender = f.obj
          /\ conns[f.conn].freed => vector[f.obj] = "orphaned" \/ Past(f.obj, Ending)
      BY <2>2, <1>1, <1>2 DEF FrameOk, Refers
    <3> QED BY <3>1, <1>2
  <2> QED BY <2>1, <2>2 DEF Refers
<1> QED BY <1>2 DEF FrameOk, UsesVector

\* An object that a call at its mutex needs has not given up its vector.
LEMMA Kept ==
  ASSUME VInv, NEW t \in Threads, stack[t] # <<>>, NEW o \in Objects, Needs(Top(t), o),
         object[o] # "gone", Top(t).at \notin Leaving
  PROVE  vector[o] \in {"none", "used"}
<1>1. ~Past(o, Leaving)
  BY NotPast DEF VInv, Ending
<1>2. VectorOk(o) /\ vector[o] \in {"none", "used", "orphaned", "deleted"}
  BY DEF VInv, Vectors, IInv, DataTyped
<1> QED BY <1>1, <1>2 DEF VectorOk

\* A call takes the vector.
LEMMA UsedVectors ==
  ASSUME VInv, IInv', NEW t \in Threads, stack[t] # <<>>, NEW f, f = Top(t), f.at = "lockOne",
         vector[f.obj] # "none", NEW g \in FrameT, Put(t, g), Uses(f.obj),
         UNCHANGED <<made, conns, lists, vector, object>>,
         g.op = f.op, g.obj = f.obj, UsesVector(g),
         g.conn \in {NoConn} \cup Listed(f.obj)
  PROVE  Vectors'
<1>1. f \in Frames(t) /\ FrameOk(f) /\ f.obj \in Objects /\ f \in FrameT
  <2>1. f \in Frames(t)
    BY TopIs DEF VInv
  <2> QED BY <2>1, FrameConn DEF VInv, Vectors
<1>2. CallsTyped /\ CallsTyped' /\ Vectors
  BY DEF VInv, IInv
<1>3. Moves(t, Len(stack[t]), {f}, {g})
  BY <1>1, PutMoves DEF VInv
<1>4. vector[f.obj] = "used" /\ ~UsesVector(f) /\ f.at \notin Ending
  <2>1. f.at \notin Ending /\ f.at \notin Leaving
    BY DEF Ending, Leaving
  <2>2. object[f.obj] # "gone"
    BY <1>1 DEF FrameOk
  <2> QED BY <2>1, <2>2, <1>1, Kept DEF Needs, UsesVector
<1>5. ASSUME NEW o, NEW S \in {Ending, Leaving}, Past(o, S) PROVE Past(o, S)'
  <2>1. \A h \in {f} : ~(h.op = "destroy" /\ h.obj = o /\ h.at \in S)
    BY <1>4 DEF Ending
  <2> QED BY <2>1, <1>2, <1>3, <1>5, PastKept
<1>6. inUse \in [Objects -> Int] /\ inUse' = [inUse EXCEPT ![f.obj] = @ + 1]
  BY DEF Uses, VInv, IInv, DataTyped
<1>7. ASSUME NEW o \in Objects PROVE VectorOk(o)'
  <2>1. VectorOk(o)
    BY <1>2 DEF Vectors
  <2>2. Past(o, Leaving) => Past(o, Leaving)'
    BY <1>5
  <2>3. o # f.obj => inUse'[o] = inUse[o]
    BY <1>6
  <2> QED BY <2>1, <2>2, <2>3, <1>4 DEF VectorOk
<1>8. ASSUME NEW h \in Rest(t, Len(stack[t])) PROVE FrameOk(h)'
  <2>1. PICK u \in Threads : h \in Frames(u)
    BY <1>2, <1>3, RestIs
  <2>2. FrameOk(h)
    BY <2>1, <1>2 DEF Vectors
  <2>3. Past(h.obj, Ending) => Past(h.obj, Ending)'
    BY <1>5
  <2> QED BY <2>1, <2>2, <2>3, RestKept DEF FrameOk
<1>9. FrameOk(g)'
  <2>1. g.conn # NoConn => conns'[g.conn].sender = g.obj /\ ~conns'[g.conn].freed
    <3>1. ASSUME g.conn \in Listed(f.obj)
          PROVE  conns'[g.conn].sender = g.obj /\ ~conns'[g.conn].freed
      <4>1. g.conn \in Conns /\ g.conn \in Listed(f.obj)'
        BY <3>1 DEF Listed
      <4> QED BY <4>1, <1>1, ListedIs
    <3> QED BY <3>1
  <2>2. g.at # "lockOne"
    BY DEF UsesVector
  <2> QED BY <2>1, <2>2, <1>4 DEF FrameOk, Refers
<1>10. PICK old : old = {f}
  OBVIOUS
<1>11. PICK new : new = {g}
  OBVIOUS
<1>12. \A o \in Objects :
         LET was == \E h \in old : UserOf(h, o)
             is == \E h \in new : UserOf(h, o)
         IN  inUse'[o] = IF was <=> is THEN inUse[o]
                         ELSE IF is THEN inUse[o] + 1 ELSE inUse[o] - 1
  BY <1>1, <1>4, <1>6, <1>10, <1>11 DEF UserOf
<1>13. Moves(t, Len(stack[t]), old, new) /\ \A h \in new : FrameOk(h)'
  BY <1>3, <1>9, <1>10, <1>11
<1> QED BY <1>2, <1>7, <1>8, <1>12, <1>13, VectorsKept

\* Nothing is connected, and the call ends.
LEMMA NothingVectors ==
  ASSUME VInv, IInv', NEW t \in Threads, stack[t] # <<>>, Top(t).at = "lockOne",
         Top(t).op # "destroy", Pop(t), UNCHANGED <<made, conns, vector, inUse, object>>
  PROVE  Vectors'
BY QuietPop DEF ConnsKept, UsesVector

LEMMA EmitBeginsVectors ==
  ASSUME VInv, IInv', NEW t \in Threads, EmitBegins(t) PROVE Vectors'
<1>1. PICK f : f = Top(t)
  OBVIOUS
<1>2. /\ At(t, "emit", "lockOne")
      /\ UNCHANGED <<made, conns, lists, vector, dirty, senders, objectVars>>
  BY <1>1 DEF EmitBegins
<1>3. /\ stack[t] # <<>> /\ f \in FrameT /\ f.op = "emit" /\ f.at = "lockOne"
      /\ f.walk \in Seq(Lists) /\ f.obj \in Objects
  BY <1>1, <1>2, EmitIs DEF VInv
<1>4. CASE vector[f.obj] = "none"
  <2>1. Pop(t) /\ UNCHANGED inUse
    BY <1>1, <1>4 DEF EmitBegins
  <2> QED BY <2>1, <1>1, <1>2, <1>3, NothingVectors DEF objectVars
<1>5. CASE vector[f.obj] # "none"
  <2>1. PICK h : h = Begin(f, f.walk)
    OBVIOUS
  <2>2. PICK g : g = [h EXCEPT !.at = "walk", !.began = made]
    OBVIOUS
  <2>3. Uses(f.obj) /\ Put(t, g)
    BY <1>1, <1>5, <2>1, <2>2 DEF EmitBegins
  <2>4. h \in FrameT /\ h.op = f.op /\ h.obj = f.obj /\ h.conn \in {NoConn} \cup Listed(f.obj)
    BY <1>3, <2>1, BegunListed DEF VInv
  <2>5. g \in FrameT /\ g.op = f.op /\ g.obj = f.obj /\ g.at = "walk" /\ g.conn = h.conn
    <3>1. made \in 0..MaxConns
      BY DEF VInv, IInv, DataTyped
    <3> QED BY <3>1, <2>2, <2>4 DEF FrameT, Points
  <2> QED BY <1>1, <1>2, <1>3, <1>5, <2>3, <2>4, <2>5, UsedVectors DEF UsesVector, objectVars
<1> QED BY <1>4, <1>5

LEMMA DisconnectBeginsVectors ==
  ASSUME VInv, IInv', NEW t \in Threads, DisconnectBegins(t) PROVE Vectors'
<1>1. PICK f : f = Top(t)
  OBVIOUS
<1>2. /\ At(t, "disconnect", "lockOne")
      /\ UNCHANGED <<made, conns, lists, vector, dirty, senders, objectVars>>
  BY <1>1 DEF DisconnectBegins
<1>3. /\ stack[t] # <<>> /\ f \in FrameT /\ f.op = "disconnect" /\ f.at = "lockOne"
      /\ f.walk \in Seq(Lists) /\ f.obj \in Objects
  BY <1>1, <1>2, DisconnectIs DEF VInv
<1>4. CASE vector[f.obj] = "none"
  <2>1. Pop(t) /\ UNCHANGED inUse
    BY <1>1, <1>4 DEF DisconnectBegins
  <2> QED BY <2>1, <1>1, <1>2, <1>3, NothingVectors DEF objectVars
<1>5. CASE vector[f.obj] # "none"
  <2>1. PICK h : h = Begin(f, f.walk)
    OBVIOUS
  <2>2. PICK g : g = [h EXCEPT !.at = "disconnecting"]
    OBVIOUS
  <2>3. Uses(f.obj) /\ Put(t, g)
    BY <1>1, <1>5, <2>1, <2>2 DEF DisconnectBegins
  <2>4. h \in FrameT /\ h.op = f.op /\ h.obj = f.obj /\ h.conn \in {NoConn} \cup Listed(f.obj)
    BY <1>3, <2>1, BegunListed DEF VInv
  <2>5. g \in FrameT /\ g.op = f.op /\ g.obj = f.obj /\ g.at = "disconnecting" /\ g.conn = h.conn
    BY <2>2, <2>4 DEF FrameT, Points
  <2> QED BY <1>1, <1>2, <1>3, <1>5, <2>3, <2>4, <2>5, UsedVectors DEF UsesVector, objectVars
<1> QED BY <1>4, <1>5

LEMMA DestroyLocksVectors ==
  ASSUME VInv, IInv', NEW t \in Threads, DestroyLocks(t) PROVE Vectors'
<1>1. PICK f : f = Top(t)
  OBVIOUS
<1>2. /\ At(t, "destroy", "lockOne")
      /\ UNCHANGED <<made, conns, lists, vector, dirty, senders, objectVars>>
  BY DEF DestroyLocks
<1>3. /\ stack[t] # <<>> /\ f \in FrameT /\ f.op = "destroy" /\ f.at = "lockOne"
      /\ f.obj \in Objects /\ f.walk \in Seq(Lists)
  BY <1>1, <1>2, DestroyIs DEF VInv
<1>4. CASE ~(Connected(f.obj) /\ vector[f.obj] = "used")
  <2>1. PICK point \in Leaving :
          Put(t, [f EXCEPT !.at = point]) /\ UNCHANGED inUse
    BY <1>1, <1>4 DEF DestroyLocks, Leaving
  <2>2. PICK g : g = [f EXCEPT !.at = point]
    OBVIOUS
  <2>3. g \in FrameT /\ g.op = f.op /\ g.obj = f.obj /\ g.at \in Leaving
    BY <1>3, <2>1, <2>2 DEF FrameT, Points, Leaving
  <2>4. ~UsesVector(f) /\ ~UsesVector(g) /\ f.at \notin Ending /\ g.at # "lockOne"
    BY <1>3, <2>3 DEF UsesVector, Leaving, Ending
  <2> QED BY <1>1, <1>2, <1>3, <2>1, <2>2, <2>3, <2>4, QuietTop DEF objectVars
<1>5. CASE Connected(f.obj) /\ vector[f.obj] = "used"
  <2>1. PICK h : h = Begin(f, f.walk)
    OBVIOUS
  <2>2. PICK g : g = [h EXCEPT !.at = "receivers"]
    OBVIOUS
  <2>3. Uses(f.obj) /\ Put(t, g)
    BY <1>1, <1>5, <2>1, <2>2 DEF DestroyLocks
  <2>4. h \in FrameT /\ h.op = f.op /\ h.obj = f.obj /\ h.conn \in {NoConn} \cup Listed(f.obj)
    BY <1>3, <2>1, BegunListed DEF VInv
  <2>5. g \in FrameT /\ g.op = f.op /\ g.obj = f.obj /\ g.at = "receivers" /\ g.conn = h.conn
    BY <2>2, <2>4 DEF FrameT, Points
  <2> QED BY <1>1, <1>2, <1>3, <1>5, <2>3, <2>4, <2>5, UsedVectors DEF UsesVector, objectVars
<1> QED BY <1>4, <1>5

\* A call gives the vector back, and frees at most what nobody else looks at.
LEMMA UnusedVectors ==
  ASSUME VInv, IInv', NEW t \in Threads, stack[t] # <<>>, NEW f, f = Top(t),
         UsesVector(f), f.op # "destroy", Pop(t), Unuse(f.obj), UNCHANGED object,
         \A c \in 1..made :
           /\ conns'[c].sender = conns[c].sender
           /\ conns'[c].freed =>
                conns[c].freed \/ (conns[c].sender = f.obj /\ inUse[f.obj] - 1 = 0)
  PROVE  Vectors'
<1>1. f \in FrameT /\ f.obj \in Objects
  <2>1. f \in Frames(t)
    BY TopIs DEF VInv
  <2> QED BY <2>1, FrameConn DEF VInv
<1>2. CallsTyped /\ CallsTyped' /\ Vectors
  BY DEF VInv, IInv
<1>3. PICK old : old = {f}
  OBVIOUS
<1>4. PICK new : new = {}
  OBVIOUS
<1>5. Moves(t, Len(stack[t]), old, new)
  BY <1>3, <1>4, PopMoves DEF VInv
<1>6. ASSUME NEW o, NEW S \in {Ending, Leaving}, Past(o, S) PROVE Past(o, S)'
  <2>1. \A h \in old : ~(h.op = "destroy" /\ h.obj = o /\ h.at \in S)
    BY <1>3
  <2> QED BY <2>1, <1>2, <1>5, <1>6, PastKept
<1>7. inUse \in [Objects -> Int] /\ inUse' = [inUse EXCEPT ![f.obj] = inUse[f.obj] - 1]
  BY DEF Unuse, VInv, IInv, DataTyped
<1>8. /\ inUse'[f.obj] = inUse[f.obj] - 1
      /\ vector'[f.obj] = IF vector[f.obj] = "orphaned" /\ inUse'[f.obj] = 0 THEN "deleted"
                          ELSE vector[f.obj]
      /\ \A o \in Objects : o # f.obj => vector'[o] = vector[o] /\ inUse'[o] = inUse[o]
  BY <1>1, <1>7 DEF Unuse, VInv, IInv, DataTyped
<1>9. ASSUME NEW o \in Objects PROVE VectorOk(o)'
  <2>1. VectorOk(o)
    BY <1>2 DEF Vectors
  <2>2. Past(o, Leaving) => Past(o, Leaving)'
    BY <1>6
  <2>3. CASE o = f.obj
    BY <2>1, <2>2, <2>3, <1>8 DEF VectorOk
  <2>4. CASE o # f.obj
    BY <2>1, <2>2, <2>4, <1>8 DEF VectorOk
  <2> QED BY <2>3, <2>4
<1>10. ASSUME NEW h \in Rest(t, Len(stack[t])) PROVE FrameOk(h)'
  <2>1. PICK u \in Threads : h \in Frames(u)
    BY <1>2, <1>5, RestIs
  <2>2. FrameOk(h) /\ h.obj \in Objects
    BY <2>1, <1>2, FrameConn DEF VInv, Vectors
  <2>3. Past(h.obj, Ending) => Past(h.obj, Ending)'
    BY <1>6
  <2>4. ASSUME UsesVector(h), h.obj = f.obj PROVE inUse[f.obj] - 1 # 0
    <3>1. UserOf(h, f.obj) /\ UserOf(f, f.obj) /\ f \in old
      BY <2>4, <1>3 DEF UserOf
    <3> QED BY <3>1, <1>1, <1>2, <1>5, RestCounts
  <2>5. UsesVector(h) =>
          /\ vector'[h.obj] = vector[h.obj]
          /\ \A c \in 1..made : conns[c].sender = h.obj =>
               conns'[c].sender = h.obj /\ (conns'[c].freed => conns[c].freed)
    BY <2>2, <2>4, <1>8
  <2> QED BY <2>1, <2>2, <2>3, <2>5, RestKept DEF FrameOk
<1>11. \A o \in Objects :
         LET was == \E h \in old : UserOf(h, o)
             is == \E h \in new : UserOf(h, o)
         IN  inUse'[o] = IF was <=> is THEN inUse[o]
                         ELSE IF is THEN inUse[o] + 1 ELSE inUse[o] - 1
  BY <1>1, <1>3, <1>4, <1>8 DEF UserOf
<1>12. \A h \in new : FrameOk(h)'
  BY <1>4
<1> QED BY <1>2, <1>5, <1>9, <1>10, <1>11, <1>12, VectorsKept

LEMMA EmitEndsVectors ==
  ASSUME VInv, IInv', NEW t \in Threads, EmitEnds(t) PROVE Vectors'
<1>1. PICK f : f = Top(t)
  OBVIOUS
<1>2. PICK F : F = IF Orphaned(f) THEN {} ELSE Broken(f.obj, inUse[f.obj] - 1)
  OBVIOUS
<1>3. /\ At(t, "emit", "walk") /\ Unuse(f.obj) /\ Pop(t) /\ conns' = WithFreed(conns, F)
      /\ UNCHANGED objectVars
  BY <1>1, <1>2 DEF EmitEnds
<1>4. stack[t] # <<>> /\ f.op = "emit" /\ f.at = "walk"
  BY <1>1, <1>3 DEF At
<1>5. \A c \in F : conns[c].sender = f.obj /\ inUse[f.obj] - 1 = 0
  BY <1>2 DEF Broken, MayClean
<1>6. ASSUME NEW c \in 1..made
      PROVE  /\ conns'[c].sender = conns[c].sender
             /\ conns'[c].freed => conns[c].freed \/ c \in F
  <2>1. c \in Conns
    BY SignalSlotAssumption DEF Conns, VInv, IInv, DataTyped
  <2>2. conns[c] \in ConnT /\ conns'[c] = [conns[c] EXCEPT !.freed = @ \/ c \in F]
    BY <2>1, <1>3 DEF VInv, IInv, DataTyped, WithFreed
  <2> QED BY <2>2 DEF ConnT
<1> QED BY <1>1, <1>3, <1>4, <1>5, <1>6, UnusedVectors DEF UsesVector, objectVars

LEMMA DisconnectEndsVectors ==
  ASSUME VInv, IInv', NEW t \in Threads, DisconnectEnds(t) PROVE Vectors'
<1>1. PICK f : f = Top(t)
  OBVIOUS
<1>2. /\ At(t, "disconnect", "disconnecting") /\ Unuse(f.obj) /\ Pop(t)
      /\ UNCHANGED <<conns, objectVars>>
  BY <1>1 DEF DisconnectEnds
<1>3. stack[t] # <<>> /\ f.op = "disconnect" /\ f.at = "disconnecting"
  BY <1>1, <1>2 DEF At
<1> QED BY <1>1, <1>2, <1>3, UnusedVectors DEF UsesVector, objectVars

\* ~QObject gives its vector up: to the others that use it, or it deletes it.
LEMMA DestroyVectorVectors ==
  ASSUME VInv, IInv', NEW t \in Threads, DestroyVector(t) PROVE Vectors'
<1>1. PICK f : f = Top(t)
  OBVIOUS
<1>2. PICK n : n = inUse[f.obj] - 1
  OBVIOUS
<1>3. PICK v : v = IF n = 0 THEN "deleted" ELSE "orphaned"
  OBVIOUS
<1>4. PICK g : g = [f EXCEPT !.at = "senders"]
  OBVIOUS
<1>5. /\ At(t, "destroy", "receivers")
      /\ inUse' = [inUse EXCEPT ![f.obj] = n] /\ vector' = [vector EXCEPT ![f.obj] = v]
      /\ Put(t, g) /\ UNCHANGED <<made, conns, objectVars>>
  BY <1>1, <1>2, <1>3, <1>4 DEF DestroyVector
<1>6. /\ stack[t] # <<>> /\ f \in FrameT /\ f.op = "destroy" /\ f.at = "receivers"
      /\ f.obj \in Objects
  BY <1>1, <1>5, DestroyIs DEF VInv
<1>7. g \in FrameT /\ g.op = "destroy" /\ g.obj = f.obj /\ g.at = "senders"
  BY <1>4, <1>6 DEF FrameT, Points
<1>8. CallsTyped /\ CallsTyped' /\ Vectors
  BY DEF VInv, IInv
<1>9. PICK old : old = {f}
  OBVIOUS
<1>10. PICK new : new = {g}
  OBVIOUS
<1>11. Moves(t, Len(stack[t]), old, new)
  BY <1>1, <1>5, <1>6, <1>7, <1>9, <1>10, PutMoves DEF VInv
<1>12. /\ inUse'[f.obj] = n /\ vector'[f.obj] = v
       /\ \A o \in Objects : o # f.obj => vector'[o] = vector[o] /\ inUse'[o] = inUse[o]
  BY <1>5, <1>6 DEF VInv, IInv, DataTyped
<1>13. ASSUME NEW o, NEW S \in {Ending, Leaving}, Past(o, S) PROVE Past(o, S)'
  <2>1. \A h \in old : h.op = "destroy" /\ h.obj = o /\ h.at \in S =>
          \E k \in new : k.op = "destroy" /\ k.obj = o /\ k.at \in S
    BY <1>7, <1>9, <1>10 DEF Ending, Leaving
  <2> QED BY <2>1, <1>8, <1>11, <1>13, PastKept
<1>14. Past(f.obj, Leaving)'
  <2>1. g \in new /\ "senders" \in Leaving
    BY <1>10 DEF Leaving
  <2> QED BY <1>7, <1>8, <1>11, <2>1, PastNow
<1>15. ASSUME NEW o \in Objects PROVE VectorOk(o)'
  <2>1. VectorOk(o)
    BY <1>8 DEF Vectors
  <2>2. Past(o, Leaving) => Past(o, Leaving)'
    BY <1>13
  <2>3. CASE o = f.obj
    BY <2>3, <1>3, <1>12, <1>14 DEF VectorOk
  <2>4. CASE o # f.obj
    BY <2>1, <2>2, <2>4, <1>5, <1>12 DEF VectorOk, objectVars
  <2> QED BY <2>3, <2>4
<1>16. ASSUME NEW h \in Rest(t, Len(stack[t])) PROVE FrameOk(h)'
  <2>1. PICK u \in Threads : h \in Frames(u) /\ (u = t => h.at \in Pausing)
    BY <1>6, RestWaits DEF VInv
  <2>2. FrameOk(h) /\ h.obj \in Objects /\ Alone(u, h) /\ h \in FrameT
    BY <2>1, <1>8, FrameConn DEF VInv, Vectors
  <2>3. Past(h.obj, Ending) => Past(h.obj, Ending)'
    BY <1>13
  <2>4. ASSUME UsesVector(h), h.obj = f.obj PROVE vector'[h.obj] = "orphaned" /\ h.op # "destroy"
    <3>1. UserOf(h, f.obj) /\ UserOf(f, f.obj) /\ f \in old
      BY <2>4, <1>6, <1>9 DEF UserOf, UsesVector
    <3>2. n # 0
      BY <3>1, <1>2, <1>6, <1>8, <1>11, RestCounts
    <3>3. h.op # "destroy"
      <4>1. ASSUME h.op = "destroy" PROVE FALSE
        <5>1. u = t
          <6>1. Top(t) \in Frames(t) /\ Needs(Top(t), h.obj)
            BY <1>1, <1>6, <2>4, TopIs DEF VInv, Needs
          <6> QED BY <6>1, <4>1, <2>2 DEF Alone
        <5>2. Sane(u, h)
          BY <2>1, FrameConn DEF VInv
        <5> QED BY <5>1, <5>2, <4>1, <2>1, <2>4 DEF Sane, Placed, Pausing, UsesVector
      <4> QED BY <4>1
    <3> QED BY <3>2, <3>3, <2>4, <1>3, <1>12
  <2>5. UsesVector(h) => vector'[h.obj] = vector[h.obj] \/ (vector'[h.obj] = "orphaned" /\ h.op # "destroy")
    BY <2>2, <2>4, <1>12
  <2> QED BY <2>1, <2>2, <2>3, <2>5, <1>5, RestKept DEF FrameOk, objectVars
<1>17. \A o \in Objects :
         LET was == \E h \in old : UserOf(h, o)
             is == \E h \in new : UserOf(h, o)
         IN  inUse'[o] = IF was <=> is THEN inUse[o]
                         ELSE IF is THEN inUse[o] + 1 ELSE inUse[o] - 1
  BY <1>2, <1>6, <1>7, <1>9, <1>10, <1>12 DEF UserOf, UsesVector
<1>18. \A h \in new : FrameOk(h)'
  BY <1>7, <1>10 DEF FrameOk, UsesVector
<1> QED BY <1>8, <1>11, <1>15, <1>16, <1>17, <1>18, VectorsKept

-----------------------------------------------------------------------------
(* Connections that are made and freed, and objects that end.              *)

LEMMA ConnectBothVectors ==
  ASSUME VInv, IInv', NEW t \in Threads, ConnectBoth(t) PROVE Vectors'
<1>1. PICK f : f = Top(t)
  OBVIOUS
<1>2. At(t, "connect", "lockUpper") /\ Pop(t) /\ UNCHANGED <<inUse, objectVars>>
  BY <1>1 DEF ConnectBoth
<1>3. stack[t] # <<>> /\ f.op = "connect" /\ f.at = "lockUpper" /\ ~UsesVector(f)
  BY <1>1, <1>2 DEF At, UsesVector
<1>4. f \in FrameT /\ f.obj \in Objects /\ object[f.obj] # "gone"
  <2>1. f \in FrameT /\ Sane(t, f)
    BY <1>1, <1>3, TopIs DEF VInv
  <2> QED BY <2>1, <1>3 DEF FrameT, Sane, Connects
<1>5. CASE UNCHANGED <<made, conns, lists, vector, dirty, senders>>
  BY <1>1, <1>2, <1>3, <1>5, QuietPop DEF objectVars, ConnsKept
<1>6. CASE ~UNCHANGED <<made, conns, lists, vector, dirty, senders>>
  <2>1. PICK c : c = made + 1
    OBVIOUS
  <2>2. PICK F : F = Broken(f.obj, inUse[f.obj])
    OBVIOUS
  <2>3. /\ \E new : conns' = [WithFreed(conns, F) EXCEPT ![c] = new]
        /\ vector' = [vector EXCEPT ![f.obj] = "used"]
    BY <1>1, <1>6, <2>1, <2>2 DEF ConnectBoth
  <2>4. \A d \in F : conns[d].sender = f.obj /\ inUse[f.obj] = 0
    BY <2>2 DEF Broken, MayClean
  <2>5. ASSUME NEW d \in 1..made
        PROVE  /\ conns'[d].sender = conns[d].sender
               /\ conns'[d].freed => conns[d].freed \/ d \in F
    <3>1. d \in Conns /\ d # c
      BY <2>1, SignalSlotAssumption DEF Conns, VInv, IInv, DataTyped
    <3>2. conns[d] \in ConnT /\ conns'[d] = [conns[d] EXCEPT !.freed = @ \/ d \in F]
      BY <3>1, <2>3 DEF VInv, IInv, DataTyped, WithFreed
    <3> QED BY <3>2 DEF ConnT
  <2>6. CallsTyped /\ CallsTyped' /\ Vectors
    BY DEF VInv, IInv
  <2>7. PICK old : old = {f}
    OBVIOUS
  <2>8. PICK new : new = {}
    OBVIOUS
  <2>9. Moves(t, Len(stack[t]), old, new)
    BY <1>1, <1>2, <1>3, <2>7, <2>8, PopMoves DEF VInv
  <2>10. ASSUME NEW o, NEW S \in {Ending, Leaving}, Past(o, S) PROVE Past(o, S)'
    <3>1. \A h \in old : ~(h.op = "destroy" /\ h.obj = o /\ h.at \in S)
      BY <1>3, <2>7
    <3> QED BY <3>1, <2>6, <2>9, <2>10, PastKept
  <2>11. /\ vector[f.obj] \in {"none", "used"} /\ vector'[f.obj] = "used"
         /\ \A o \in Objects : o # f.obj => vector'[o] = vector[o]
    <3>1. vector[f.obj] \in {"none", "used"}
      BY <1>1, <1>3, <1>4, Kept DEF Needs, Leaving
    <3> QED BY <3>1, <1>4, <2>3 DEF VInv, IInv, DataTyped
  <2>12. ASSUME NEW o \in Objects PROVE VectorOk(o)'
    <3>1. VectorOk(o)
      BY <2>6 DEF Vectors
    <3>2. Past(o, Leaving) => Past(o, Leaving)'
      BY <2>10
    <3>3. CASE o = f.obj
      BY <3>3, <1>2, <1>4, <2>11 DEF VectorOk, objectVars
    <3>4. CASE o # f.obj
      BY <3>1, <3>2, <3>4, <1>2, <2>11 DEF VectorOk, objectVars
    <3> QED BY <3>3, <3>4
  <2>13. ASSUME NEW h \in Rest(t, Len(stack[t])) PROVE FrameOk(h)'
    <3>1. PICK u \in Threads : h \in Frames(u)
      BY <2>6, <2>9, RestIs
    <3>2. FrameOk(h) /\ h.obj \in Objects
      BY <3>1, <2>6, FrameConn DEF VInv, Vectors
    <3>3. Past(h.obj, Ending) => Past(h.obj, Ending)'
      BY <2>10
    <3>4. ASSUME UsesVector(h), h.obj = f.obj
          PROVE  inUse[f.obj] # 0 /\ vector'[h.obj] = vector[h.obj]
      <4>1. UserOf(h, f.obj)
        BY <3>4 DEF UserOf
      <4>2. inUse[f.obj] # 0
        BY <4>1, <1>4, <2>6, <2>9, RestCounts
      <4> QED BY <4>2, <3>2, <3>4, <2>11 DEF FrameOk
    <3>5. UsesVector(h) =>
            /\ vector'[h.obj] = vector[h.obj]
            /\ \A d \in 1..made : conns[d].sender = h.obj =>
                 conns'[d].sender = h.obj /\ (conns'[d].freed => conns[d].freed)
      BY <3>2, <3>4, <2>4, <2>5, <2>11
    <3> QED BY <3>1, <3>2, <3>3, <3>5, <1>2, RestKept DEF FrameOk, objectVars
  <2>14. \A o \in Objects :
           LET was == \E h \in old : UserOf(h, o)
               is == \E h \in new : UserOf(h, o)
           IN  inUse'[o] = IF was <=> is THEN inUse[o]
                           ELSE IF is THEN inUse[o] + 1 ELSE inUse[o] - 1
    BY <1>2, <1>3, <2>7, <2>8 DEF UserOf
  <2>15. \A h \in new : FrameOk(h)'
    BY <2>8
  <2> QED BY <2>6, <2>9, <2>12, <2>13, <2>14, <2>15, VectorsKept
<1> QED BY <1>5, <1>6

\* ~QObject frees the connection it is at, whoever uses the list.
LEMMA DeleteVectors ==
  ASSUME VInv, IInv', NEW t \in Threads, stack[t] # <<>>, NEW f, f = Top(t),
         f.op = "destroy", f.at = "receivers", f.conn # NoConn, DeleteFirst(t, f),
         UNCHANGED <<made, vector, inUse, object>>
  PROVE  Vectors'
<1>1. f \in FrameT /\ Sane(t, f) /\ f.obj \in Objects /\ f \in Frames(t)
  <2>1. f \in Frames(t)
    BY TopIs DEF VInv
  <2> QED BY <2>1, FrameConn DEF VInv
<1>2. PICK c : c = f.conn
  OBVIOUS
<1>3. PICK k : k = Head(f.walk)
  OBVIOUS
<1>4. PICK rest : rest = Minus(lists[f.obj][k], {c})
  OBVIOUS
<1>5. PICK g : g = [f EXCEPT !.conn = First(rest), !.relock = "no"]
  OBVIOUS
<1>6. /\ lists' = [lists EXCEPT ![f.obj][k] = rest]
      /\ conns' = [conns EXCEPT ![c].freed = TRUE, ![c].receiver = Nobody] /\ Put(t, g)
  BY <1>2, <1>3, <1>4, <1>5 DEF DeleteFirst
<1>7. /\ c \in Conns /\ k \in Lists /\ lists[f.obj][k] \in Seq(Conns) /\ Walked(f) = lists[f.obj][k]
  BY <1>1, <1>2, <1>3, ConnIs DEF VInv
<1>8. conns[c].sender = f.obj
  <2>1. c = First(Walked(f))
    BY <1>1, <1>2 DEF Sane, Destroys
  <2>2. c \in Members(lists[f.obj][k])
    BY <2>1, <1>2, <1>7, EndsAre
  <2> QED BY <2>2, <1>1, <1>7 DEF VInv, IInv, Standing, Sent
<1>9. rest \in Seq(Conns) /\ First(rest) \in Members(rest) \cup {NoConn} /\ First(rest) \in 0..MaxConns
  <2>1. rest \in Seq(Conns)
    BY <1>4, <1>7, MinusIs
  <2> QED BY <2>1, EndsAre
<1>10. /\ g \in FrameT /\ g.op = "destroy" /\ g.at = "receivers" /\ g.obj = f.obj
       /\ g.conn = First(rest)
  BY <1>1, <1>5, <1>9 DEF FrameT
<1>11. g.conn \in {NoConn} \cup Listed(f.obj)'
  <2>1. lists'[f.obj][k] = rest
    BY <1>1, <1>6, <1>7 DEF VInv, IInv, DataTyped
  <2>2. Members(rest) \subseteq Conns
    BY <1>9, EndsAre
  <2> QED BY <2>1, <2>2, <1>7, <1>9, <1>10 DEF Listed
<1>12. CallsTyped /\ CallsTyped' /\ Vectors
  BY DEF VInv, IInv
<1>13. PICK old : old = {f}
  OBVIOUS
<1>14. PICK new : new = {g}
  OBVIOUS
<1>15. Moves(t, Len(stack[t]), old, new)
  BY <1>6, <1>10, <1>13, <1>14, PutMoves DEF VInv
<1>16. ASSUME NEW o, NEW S \in {Ending, Leaving}, Past(o, S) PROVE Past(o, S)'
  <2>1. \A h \in old : h.op = "destroy" /\ h.obj = o /\ h.at \in S =>
          \E j \in new : j.op = "destroy" /\ j.obj = o /\ j.at \in S
    BY <1>10, <1>13, <1>14
  <2> QED BY <2>1, <1>12, <1>15, <1>16, PastKept
<1>17. Past(f.obj, Ending)'
  BY <1>10, <1>12, <1>14, <1>15, PastNow DEF Ending
<1>18. ASSUME NEW d \in 1..made
       PROVE  /\ conns'[d].sender = conns[d].sender
              /\ conns'[d].freed => conns[d].freed \/ conns[d].sender = f.obj
  <2>1. d \in Conns
    BY SignalSlotAssumption DEF Conns, VInv, IInv, DataTyped
  <2>2. conns[d] \in ConnT /\ (d # c => conns'[d] = conns[d])
        /\ conns'[d].sender = conns[d].sender
    BY <2>1, <1>6, <1>7 DEF VInv, IInv, DataTyped, ConnT
  <2> QED BY <2>2, <1>8
<1>19. \A o \in Objects : VectorOk(o)'
  BY <1>12, <1>16 DEF Vectors, VectorOk
<1>20. ASSUME NEW h \in Rest(t, Len(stack[t])) PROVE FrameOk(h)'
  <2>1. PICK u \in Threads : h \in Frames(u)
    BY <1>12, <1>15, RestIs
  <2>2. FrameOk(h)
    BY <2>1, <1>12 DEF Vectors
  <2>3. Past(h.obj, Ending) => Past(h.obj, Ending)'
    BY <1>16
  <2>4. \A d \in 1..made : conns[d].sender = h.obj =>
          /\ conns'[d].sender = h.obj
          /\ conns'[d].freed => conns[d].freed \/ Past(h.obj, Ending)'
    BY <1>17, <1>18
  <2> QED BY <2>1, <2>2, <2>3, <2>4, RestKept DEF FrameOk
<1>21. FrameOk(g)'
  <2>1. vector[f.obj] = "used"
    BY <1>1, <1>12 DEF Vectors, FrameOk, UsesVector
  <2>2. g.conn # NoConn => conns'[g.conn].sender = g.obj /\ ~conns'[g.conn].freed
    <3>1. ASSUME g.conn \in Listed(f.obj)'
          PROVE  conns'[g.conn].sender = g.obj /\ ~conns'[g.conn].freed
      <4>1. g.conn \in Conns
        BY <3>1 DEF Listed
      <4> QED BY <3>1, <4>1, <1>1, <1>10, ListedIs
    <3> QED BY <3>1, <1>11
  <2> QED BY <2>1, <2>2, <1>10 DEF FrameOk, Refers
<1>22. \A o \in Objects :
         LET was == \E h \in old : UserOf(h, o)
             is == \E h \in new : UserOf(h, o)
         IN  inUse'[o] = IF was <=> is THEN inUse[o]
                         ELSE IF is THEN inUse[o] + 1 ELSE inUse[o] - 1
  BY <1>10, <1>13, <1>14 DEF UserOf, UsesVector
<1>23. \A h \in new : FrameOk(h)'
  BY <1>14, <1>21
<1> QED BY <1>12, <1>15, <1>19, <1>20, <1>22, <1>23, VectorsKept

LEMMA DestroyBrokenVectors ==
  ASSUME VInv, IInv', NEW t \in Threads, DestroyBroken(t) PROVE Vectors'
<1>1. PICK f : f = Top(t)
  OBVIOUS
<1>2. /\ At(t, "destroy", "receivers") /\ f.conn # NoConn /\ DeleteFirst(t, f)
      /\ UNCHANGED <<made, vector, inUse, objectVars>>
  BY <1>1 DEF DestroyBroken
<1>3. stack[t] # <<>> /\ f.at = "receivers" /\ f.op = "destroy"
  BY <1>1, <1>2 DEF At
<1> QED BY <1>1, <1>2, <1>3, DeleteVectors DEF objectVars

LEMMA DestroyReceiverVectors ==
  ASSUME VInv, IInv', NEW t \in Threads, DestroyReceiver(t) PROVE Vectors'
<1>1. PICK f : f = Top(t)
  OBVIOUS
<1>2. /\ WithOther(t, "receivers") /\ DeleteFirst(t, f)
      /\ UNCHANGED <<made, vector, inUse, objectVars>>
  BY <1>1 DEF DestroyReceiver
<1>3. stack[t] # <<>> /\ f.at = "receivers" /\ f.op = "destroy" /\ f.conn # NoConn
  BY <1>1, <1>2, WithOtherIs DEF VInv
<1> QED BY <1>1, <1>2, <1>3, DeleteVectors DEF objectVars

LEMMA DestroyEndsVectors ==
  ASSUME VInv, IInv', NEW t \in Threads, DestroyEnds(t) PROVE Vectors'
<1>1. PICK f : f = Top(t)
  OBVIOUS
<1>2. /\ At(t, "destroy", "free") /\ object' = [object EXCEPT ![f.obj] = "gone"] /\ Pop(t)
      /\ UNCHANGED connVars
  BY <1>1 DEF DestroyEnds
<1>3. /\ stack[t] # <<>> /\ f \in FrameT /\ f.op = "destroy" /\ f.at = "free"
      /\ f.obj \in Objects /\ vector[f.obj] # "used" /\ ~UsesVector(f)
  BY <1>1, <1>2, DestroyIs DEF VInv, Destroys, UsesVector
<1>4. CallsTyped /\ CallsTyped' /\ Vectors
  BY DEF VInv, IInv
<1>5. PICK old : old = {f}
  OBVIOUS
<1>6. PICK new : new = {}
  OBVIOUS
<1>7. Moves(t, Len(stack[t]), old, new)
  BY <1>1, <1>2, <1>3, <1>5, <1>6, PopMoves DEF VInv
<1>8. ASSUME NEW o, o # f.obj, NEW S \in {Ending, Leaving}, Past(o, S) PROVE Past(o, S)'
  <2>1. \A h \in old : ~(h.op = "destroy" /\ h.obj = o /\ h.at \in S)
    BY <1>5, <1>8
  <2> QED BY <2>1, <1>4, <1>7, <1>8, PastKept
<1>9. /\ object'[f.obj] = "gone"
      /\ \A o \in Objects : o # f.obj => object'[o] = object[o]
  BY <1>2, <1>3 DEF VInv, IInv, DataTyped
<1>10. ASSUME NEW o \in Objects PROVE VectorOk(o)'
  <2>1. VectorOk(o)
    BY <1>4 DEF Vectors
  <2>2. CASE o = f.obj
    BY <2>1, <2>2, <1>2, <1>3, <1>9 DEF VectorOk, connVars
  <2>3. CASE o # f.obj
    BY <2>1, <2>3, <1>2, <1>8, <1>9 DEF VectorOk, connVars
  <2> QED BY <2>2, <2>3
<1>11. ASSUME NEW h \in Rest(t, Len(stack[t])) PROVE FrameOk(h)'
  <2>1. PICK u \in Threads : h \in Frames(u) /\ (u = t => h.at \in Pausing)
    BY <1>3, RestWaits DEF VInv
  <2>2. FrameOk(h) /\ h.obj \in Objects
    BY <2>1, <1>4, FrameConn DEF VInv, Vectors
  <2>3. CASE h.obj = f.obj
    <3>1. h.at # "lockOne"
      <4>1. u = t
        <5>1. Alone(t, Top(t)) /\ Needs(h, f.obj)
          BY <1>3, <2>3, TopIs DEF VInv, Needs
        <5> QED BY <5>1, <1>1, <1>3, <2>1 DEF Alone
      <4> QED BY <4>1, <2>1 DEF Pausing
    <3>2. UsesVector(h) => vector[h.obj] = "orphaned"
      BY <2>2, <2>3, <1>3 DEF FrameOk
    <3> QED BY <3>1, <3>2, <2>1, <1>2, RestKept DEF connVars
  <2>4. CASE h.obj # f.obj
    <3>1. Past(h.obj, Ending) => Past(h.obj, Ending)'
      BY <2>4, <1>8
    <3>2. h.at = "lockOne" => object'[h.obj] # "gone"
      BY <2>2, <2>4, <1>9 DEF FrameOk
    <3> QED BY <3>1, <3>2, <2>1, <1>2, RestKept DEF connVars
  <2> QED BY <2>3, <2>4
<1>12. \A o \in Objects :
         LET was == \E h \in old : UserOf(h, o)
             is == \E h \in new : UserOf(h, o)
         IN  inUse'[o] = IF was <=> is THEN inUse[o]
                         ELSE IF is THEN inUse[o] + 1 ELSE inUse[o] - 1
  BY <1>2, <1>3, <1>5, <1>6 DEF UserOf, connVars
<1>13. \A h \in new : FrameOk(h)'
  BY <1>6
<1> QED BY <1>4, <1>7, <1>10, <1>11, <1>12, <1>13, VectorsKept

-----------------------------------------------------------------------------
(* Connections are valid as long as a call looks at them.                  *)

LEMMA InitVectors == ASSUME Init PROVE Vectors
<1>1. \A t \in Threads : stack[t] = <<>>
  BY DEF Init
<1>2. \A t \in Threads : DOMAIN stack[t] = {} /\ Frames(t) = {}
  BY <1>1 DEF Frames, Members
<1>3. ASSUME NEW o \in Objects PROVE inUse[o] = Cardinality(Users(o)) /\ VectorOk(o)
  <2>1. Users(o) = {}
    BY <1>2 DEF Users
  <2>2. Cardinality(Users(o)) = 0
    BY <2>1, FS_EmptySet
  <2> QED BY <2>2 DEF Init, VectorOk
<1> QED BY <1>2, <1>3 DEF Vectors

LEMMA StutterVectors == ASSUME VInv, UNCHANGED vars PROVE Vectors'
<1>1. /\ conns' = conns /\ vector' = vector /\ inUse' = inUse /\ object' = object
      /\ stack' = stack
  BY DEF vars, connVars, objectVars
<1>2. \A o : Users(o)' = Users(o)
  BY <1>1 DEF Users
<1>3. \A o, S : Past(o, S)' <=> Past(o, S)
  BY <1>1 DEF Past, Frames
<1>4. \A o : VectorOk(o)' <=> VectorOk(o)
  BY <1>1, <1>3 DEF VectorOk
<1>5. \A f : FrameOk(f)' <=> FrameOk(f)
  BY <1>1, <1>3 DEF FrameOk, Refers, UsesVector
<1>6. \A t : Frames(t)' = Frames(t)
  BY <1>1 DEF Frames
<1> QED BY <1>1, <1>2, <1>4, <1>5, <1>6 DEF VInv, Vectors

LEMMA CallsVectors == ASSUME VInv, IInv', NEW t \in Threads, Calls(t) PROVE Vectors'
<1>1. ASSUME NEW s \in Objects, NEW r \in Objects, NEW l \in Signals, NEW k \in Kinds[s],
             NEW u \in BOOLEAN, Connect(t, s, r, l, k, u)
      PROVE  Vectors'
  <2>1. l \in Lists /\ k \in AllKinds
    BY SignalSlotAssumption DEF Lists, AllKinds
  <2> QED BY <1>1, <2>1, ConnectVectors
<1>2. ASSUME NEW s \in Objects, NEW r \in Objects \cup {Nobody}, NEW w \in Walk,
             Disconnect(t, s, r, w)
      PROVE  Vectors'
  <2>1. <<"sig">> \in Seq(Lists) /\ <<"all", "sig">> \in Seq(Lists)
    BY DEF Lists
  <2>2. w \in Seq(Lists) /\ r \in SomeObject
    BY <2>1 DEF Walk, SomeObject
  <2> QED BY <1>2, <2>2, DisconnectVectors
<1> QED BY <1>1, <1>2, EmitVectors, DestroyVectors DEF Calls

LEMMA StepsVectors == ASSUME VInv, IInv', NEW t \in Threads, Steps(t) PROVE Vectors'
<1>1. CASE \/ LockLower(t) \/ ConnectBoth(t) \/ DisconnectBoth(t) \/ Relock(t) \/ RelockOther(t)
           \/ DisconnectBegins(t) \/ DisconnectSkips(t) \/ DisconnectOther(t)
           \/ DisconnectList(t) \/ DisconnectEnds(t)
  BY <1>1, LockLowerVectors, ConnectBothVectors, DisconnectBothVectors, RelockVectors,
     RelockOtherVectors, DisconnectBeginsVectors, DisconnectSkipsVectors,
     DisconnectOtherVectors, DisconnectListVectors, DisconnectEndsVectors
<1>2. CASE EmitSkips(t) \/ EmitQueued(t)
  BY <1>2, VisitVectors DEF EmitSkips, EmitQueued
<1>3. CASE \/ EmitBegins(t) \/ EmitBlocking(t) \/ BlockingPosts(t) \/ BlockingReturns(t)
           \/ EmitDirect(t) \/ SlotReturns(t) \/ EmitList(t) \/ EmitEnds(t)
  BY <1>3, EmitBeginsVectors, EmitBlockingVectors, BlockingPostsVectors,
     BlockingReturnsVectors, EmitDirectVectors, SlotReturnsVectors, EmitListVectors,
     EmitEndsVectors
<1>4. CASE \/ DestroyBegins(t) \/ DestroyLocks(t) \/ DestroyBroken(t) \/ DestroyReceiver(t)
           \/ DestroyList(t) \/ DestroyVector(t) \/ DestroySender(t) \/ DestroyUnlocks(t)
           \/ DestroyEnds(t)
  BY <1>4, DestroyBeginsVectors, DestroyLocksVectors, DestroyBrokenVectors,
     DestroyReceiverVectors, DestroyListVectors, DestroyVectorVectors, DestroySenderVectors,
     DestroyUnlocksVectors, DestroyEndsVectors
<1> QED BY <1>1, <1>2, <1>3, <1>4 DEF Steps

LEMMA NextKeepsVectors == ASSUME VInv, [Next]_vars PROVE VInv'
<1>1. IInv'
  BY NextKeeps DEF VInv
<1>2. Vectors'
  BY <1>1, StutterVectors, CallsVectors, StepsVectors DEF Next
<1> QED BY <1>1, <1>2 DEF VInv

LEMMA ValidIs == ASSUME VInv PROVE ConnectionsValid
<1>1. VectorLifetime
  <2> SUFFICES ASSUME NEW o \in Objects
               PROVE  /\ inUse[o] = Cardinality(Users(o))
                      /\ vector[o] = "orphaned" => Users(o) # {}
                      /\ object[o] = "gone" => vector[o] # "used"
    BY DEF VectorLifetime, Users
  <2>1. inUse[o] = Cardinality(Users(o)) /\ VectorOk(o)
    BY DEF VInv, Vectors
  <2>2. Users(o) = {} => Cardinality(Users(o)) = 0
    BY FS_EmptySet
  <2> QED BY <2>1, <2>2 DEF VectorOk
<1>2. ASSUME NEW t \in Threads, stack[t] # <<>>,
             Top(t).at \in {"walk", "called", "posted", "disconnecting", "receivers"}
      PROVE  /\ vector[Top(t).obj] \in {"used", "orphaned"}
             /\ Top(t).conn # NoConn /\ ~Orphaned(Top(t)) => ~conns[Top(t).conn].freed
  <2>1. PICK f : f = Top(t)
    OBVIOUS
  <2>2. f \in Frames(t) /\ f \in FrameT /\ Sane(t, f) /\ f.obj \in Objects /\ FrameOk(f)
    <3>1. f \in Frames(t)
      BY <1>2, <2>1, TopIs DEF VInv
    <3> QED BY <3>1, FrameConn DEF VInv, Vectors
  <2>3. vector[f.obj] \in {"used", "orphaned"} /\ Refers(f)
    BY <1>2, <2>1, <2>2 DEF FrameOk, UsesVector
  <2>4. ASSUME f.conn # NoConn, ~Orphaned(f) PROVE ~conns[f.conn].freed
    <3>1. CASE f.op = "destroy" /\ f.at \in Ending
      <4>1. f.at = "receivers"
        BY <3>1, <1>2, <2>1 DEF Ending, Leaving
      <4>2. f.conn = First(Walked(f))
        BY <3>1, <4>1, <2>2 DEF Sane, Destroys
      <4>3. /\ Head(f.walk) \in Lists /\ Walked(f) = lists[f.obj][Head(f.walk)]
            /\ lists[f.obj][Head(f.walk)] \in Seq(Conns)
        BY <2>2, <2>4, ConnIs DEF VInv
      <4>4. f.conn \in Members(lists[f.obj][Head(f.walk)])
        BY <4>2, <4>3, <2>4, EndsAre
      <4> QED BY <4>3, <4>4, <2>2 DEF VInv, IInv, Standing, Sent
    <3>2. CASE ~(f.op = "destroy" /\ f.at \in Ending)
      <4>1. ~Past(f.obj, Ending)
        BY <3>2, <1>2, <2>1, NotPast DEF VInv, Needs
      <4> QED BY <4>1, <2>3, <2>4 DEF Refers, Orphaned
    <3> QED BY <3>1, <3>2
  <2> QED BY <2>1, <2>3, <2>4
<1> QED BY <1>1, <1>2 DEF ConnectionsValid

LEMMA TypesAre == ASSUME VInv PROVE TypeOK
<1>1. DataTyped /\ CallsTyped
  BY DEF VInv, IInv
<1>2. ASSUME NEW c \in Conns
      PROVE  /\ conns[c].sender \in Objects \cup {Nobody}
             /\ conns[c].receiver \in Objects \cup {Nobody} /\ conns[c].freed \in BOOLEAN
  BY <1>1 DEF DataTyped, ConnT, SomeObject
<1>3. ASSUME NEW o \in Objects
      PROVE  /\ vector[o] \in {"none", "used", "orphaned", "deleted"}
             /\ inUse[o] \in Nat /\ dirty[o] \in BOOLEAN
             /\ Members(senders[o]) \subseteq 1..made
             /\ object[o] \in {"alive", "dying", "gone"}
             /\ currentSender[o] \in 0..MaxDepth
  <2>1. inUse[o] = Cardinality(Users(o))
    BY DEF VInv, Vectors
  <2>2. IsFiniteSet(1..MaxDepth)
    <3>1. 1 \in Int /\ MaxDepth \in Int
      BY SignalSlotAssumption
    <3> QED BY <3>1, FS_Interval
  <2>3. IsFiniteSet(Threads \X (1..MaxDepth)) /\ Users(o) \subseteq Threads \X (1..MaxDepth)
    BY <2>2, SignalSlotAssumption, FS_Product DEF Users
  <2>4. inUse[o] \in Nat
    BY <2>1, <2>3, FS_Subset, FS_CardinalityType
  <2>5. Members(senders[o]) \subseteq 1..made
    BY DEF VInv, IInv, Standing, Received
  <2> QED BY <2>4, <2>5, <1>1 DEF DataTyped
<1>4. ASSUME NEW t \in Threads
      PROVE  Len(stack[t]) <= MaxDepth /\ \A f \in Frames(t) : f.at \in Points /\ f.obj \in Objects
  <2>1. \A f \in Frames(t) : f \in FrameT
    BY <1>1, StackIs DEF Frames, Members
  <2> QED BY <2>1, <1>1 DEF CallsTyped, FrameT
<1>5. made \in 0..MaxConns /\ owner \in [Mutexes -> Threads \cup {Nobody}]
  BY <1>1 DEF DataTyped, CallsTyped
<1> QED BY <1>2, <1>3, <1>4, <1>5 DEF TypeOK

LEMMA VectorsInvariance == Spec => []VInv
<1>1. Init => VInv
  BY InitKeeps, InitVectors DEF VInv
<1>2. VInv /\ [Next]_vars => VInv'
  BY NextKeepsVectors
<1> QED BY <1>1, <1>2, PTL DEF Spec

\* Every variable of the connections and of the calls keeps to its values, and the counter of
\* a vector is never negative.
THEOREM TypeCorrect == Spec => []TypeOK
<1>1. VInv => TypeOK
  BY TypesAre
<1> QED BY <1>1, VectorsInvariance, PTL

\* However slots and other threads disconnect and destroy, a walk never looks at a connection
\* or a vector that was freed: the vector counts the calls that use it, cleanConnectionLists
\* (qobject.cpp:228) frees connections only when there is none, and what ~QObject frees at
\* once (qobject.cpp:620) the calls find orphaned before they look again.
THEOREM WalksAreValid == Spec => []ConnectionsValid
<1>1. VInv => ConnectionsValid
  BY ValidIs
<1> QED BY <1>1, VectorsInvariance, PTL

-----------------------------------------------------------------------------
(* The emissions that call slots of an object, and its currentSender.      *)

\* Which places the steps change: the innermost call's, ...
LEMMA PutPlaces ==
  ASSUME IInv, NEW t \in Threads, stack[t] # <<>>, NEW g, Put(t, g)
  PROVE  /\ Elsewhere(t, Len(stack[t])) /\ Len(stack[t]) \in DOMAIN stack[t]
         /\ DOMAIN stack'[t] = DOMAIN stack[t] /\ stack'[t][Len(stack[t])] = g
<1>0. PICK r : r = SubSeq(stack[t], 1, Len(stack[t]) - 1)
  OBVIOUS
<1>1. /\ r \in Seq(FrameT) /\ Len(r) = Len(stack[t]) - 1
      /\ \A i \in 1..(Len(stack[t]) - 1) : r[i] = stack[t][i]
  BY <1>0, PopIs DEF IInv
<1>2. Len(stack[t]) \in Nat /\ Len(stack[t]) \in DOMAIN stack[t] /\ DOMAIN stack[t] = 1..Len(stack[t])
  BY StackIs, SignalSlotAssumption DEF IInv
<1>3. PICK s : s = Append(r, g)
  OBVIOUS
<1>4. PICK S : S = FrameT \cup {g}
  OBVIOUS
<1>5. r \in Seq(S)
  <2> HIDE DEF FrameT
  <2> QED BY <1>1, <1>4
<1>6. /\ s \in Seq(S) /\ Len(s) = Len(r) + 1 /\ s[Len(r) + 1] = g
      /\ \A i \in 1..Len(r) : s[i] = r[i]
  <2> HIDE DEF FrameT
  <2> QED BY <1>3, <1>4, <1>5, AppendProperties
<1>7. DOMAIN s = DOMAIN stack[t] /\ s[Len(stack[t])] = g
  <2>1. DOMAIN s = 1..Len(s)
    BY <1>6, LenProperties
  <2> QED BY <2>1, <1>1, <1>2, <1>6
<1>8. stack'[t] = s /\ \A u \in Threads \ {t} : stack'[u] = stack[u]
  BY <1>0, <1>3 DEF Put, IInv, CallsTyped
<1>9. ASSUME NEW i \in DOMAIN stack[t], i # Len(stack[t]) PROVE s[i] = stack[t][i]
  <2>1. i \in 1..Len(r) /\ i \in 1..(Len(stack[t]) - 1)
    BY <1>1, <1>2, <1>9
  <2> QED BY <2>1, <1>1, <1>6
<1> QED BY <1>2, <1>7, <1>8, <1>9 DEF Elsewhere

\* ... the one of the call that returns, ...
LEMMA PopPlaces ==
  ASSUME IInv, NEW t \in Threads, stack[t] # <<>>, Pop(t)
  PROVE  /\ Elsewhere(t, Len(stack[t])) /\ Len(stack[t]) \in DOMAIN stack[t]
         /\ Len(stack[t]) \notin DOMAIN stack'[t]
<1>1. Len(stack[t]) \in Nat /\ Len(stack[t]) \in DOMAIN stack[t] /\ DOMAIN stack[t] = 1..Len(stack[t])
  BY StackIs, SignalSlotAssumption DEF IInv
<1>2. PICK s : s = SubSeq(stack[t], 1, Len(stack[t]) - 1)
  OBVIOUS
<1>3. DOMAIN s = 1..(Len(stack[t]) - 1) /\ \A i \in 1..(Len(stack[t]) - 1) : s[i] = stack[t][i]
  BY <1>2, PopIs DEF IInv
<1>4. stack'[t] = s /\ \A u \in Threads \ {t} : stack'[u] = stack[u]
  BY <1>2 DEF Pop, IInv, CallsTyped
<1>5. Len(stack[t]) \notin 1..(Len(stack[t]) - 1)
  BY <1>1
<1>6. \A i \in Nat : i # Len(stack[t]) => (i \in 1..(Len(stack[t]) - 1) <=> i \in 1..Len(stack[t]))
  BY <1>1
<1> QED BY <1>1, <1>3, <1>4, <1>5, <1>6 DEF Elsewhere

\* ... and the one of a call that begins.
LEMMA PushPlaces ==
  ASSUME IInv, NEW t \in Threads, NEW g, Push(t, g)
  PROVE  /\ Elsewhere(t, Len(stack[t]) + 1) /\ Len(stack[t]) + 1 \notin DOMAIN stack[t]
         /\ Len(stack[t]) + 1 \in DOMAIN stack'[t] /\ stack'[t][Len(stack[t]) + 1] = g
<1>1. stack[t] \in Seq(FrameT) /\ Len(stack[t]) \in Nat /\ DOMAIN stack[t] = 1..Len(stack[t])
  BY StackIs, SignalSlotAssumption DEF IInv
<1>2. PICK S : S = FrameT \cup {g}
  OBVIOUS
<1>3. PICK s : s = Append(stack[t], g)
  OBVIOUS
<1>4. PICK n : n = Len(stack[t])
  OBVIOUS
<1>5. stack[t] \in Seq(S)
  <2> HIDE DEF FrameT
  <2> QED BY <1>1, <1>2
<1>6. /\ s \in Seq(S) /\ Len(s) = n + 1 /\ s[n + 1] = g
      /\ \A i \in 1..n : s[i] = stack[t][i]
  <2> HIDE DEF FrameT
  <2> QED BY <1>2, <1>3, <1>4, <1>5, AppendProperties
<1>7. DOMAIN s = 1..(n + 1)
  BY <1>6, LenProperties
<1>8. stack'[t] = s /\ \A u \in Threads \ {t} : stack'[u] = stack[u]
  BY <1>3 DEF Push, IInv, CallsTyped
<1>9. n + 1 \notin 1..n /\ n + 1 \in 1..(n + 1)
  BY <1>1, <1>4
<1>10. \A i \in Nat : i # n + 1 => (i \in 1..(n + 1) <=> i \in 1..n)
  BY <1>1, <1>4
<1> QED BY <1>1, <1>4, <1>6, <1>7, <1>8, <1>9, <1>10 DEF Elsewhere

LEMMA PlacesInNat ==
  ASSUME IInv, IInv', NEW u \in Threads
  PROVE  (\A i \in DOMAIN stack[u] : i \in Nat) /\ \A i \in DOMAIN stack'[u] : i \in Nat
<1>1. DOMAIN stack[u] = 1..Len(stack[u]) /\ Len(stack[u]) \in Nat
  BY StackIs, SignalSlotAssumption DEF IInv
<1>2. DOMAIN stack'[u] = 1..Len(stack'[u]) /\ Len(stack'[u]) \in Nat
  <2>1. stack'[u] \in Seq(FrameT)
    BY DEF IInv, CallsTyped
  <2> HIDE DEF FrameT
  <2> QED BY <2>1, LenProperties
<1> QED BY <1>1, <1>2

\* A step whose call is not in a slot before or after.
LEMMA QuietChained ==
  ASSUME IInv, IInv', Chained, NEW t \in Threads, NEW n, Elsewhere(t, n),
         n \in DOMAIN stack[t] => stack[t][n].at # "called",
         n \in DOMAIN stack'[t] => stack'[t][n].at # "called",
         currentSender' = currentSender, \A o \in Objects : Over(o)' <=> Over(o)
  PROVE  Chained'
<1>1. ASSUME NEW u \in Threads
      PROVE  (\A i \in DOMAIN stack[u] : i \in Nat) /\ \A i \in DOMAIN stack'[u] : i \in Nat
  BY PlacesInNat
<1>2. ASSUME NEW u \in Threads, NEW i
      PROVE  /\ (i \in DOMAIN stack'[u] /\ stack'[u][i].at = "called") <=>
                  (i \in DOMAIN stack[u] /\ stack[u][i].at = "called")
             /\ i \in DOMAIN stack[u] /\ stack[u][i].at = "called" =>
                  stack'[u][i] = stack[u][i]
  BY <1>1 DEF Elsewhere
<1>3. ASSUME NEW o \in Objects, NEW i
      PROVE  /\ Slot(o, i)' <=> Slot(o, i)
             /\ Slot(o, i) => stack'[Home[o]][i] = stack[Home[o]][i]
  <2>1. Home[o] \in Threads
    BY SignalSlotAssumption
  <2> QED BY <2>1, <1>2 DEF Slot
<1>4. ASSUME NEW o \in Objects, NEW i PROVE Inner(o, i)' <=> Inner(o, i)
  BY <1>3 DEF Inner, Slot
<1>5. ASSUME NEW u \in Threads, NEW i \in DOMAIN stack'[u], stack'[u][i].at = "called"
      PROVE  stack'[u][i].peer \in Objects /\ Home[stack'[u][i].peer] = u
  BY <1>2, <1>5 DEF Chained
<1>6. ASSUME NEW o \in Objects PROVE Pointed(o)'
  <2>1. Pointed(o)
    BY DEF Chained
  <2> QED BY <2>1, <1>3, <1>4 DEF Pointed, Inner, Slot
<1>7. ASSUME NEW o \in Objects, NEW i, Slot(o, i)' PROVE ChainedAt(o, i)'
  <2>1. Slot(o, i) /\ stack'[Home[o]][i] = stack[Home[o]][i]
    BY <1>3, <1>7
  <2>2. ChainedAt(o, i)
    BY <2>1 DEF Chained, Slot
  <2>3. PICK p : p = stack[Home[o]][i].prev
    OBVIOUS
  <2>4. /\ p = 0 \/ (p < i /\ Slot(o, p)')
        /\ Inner(o, i)' \/ stack'[Home[o]][i].ref = 1
        /\ \A j : j \in DOMAIN stack[Home[o]] /\ j < i /\ Slot(o, j) => j <= p
    <3>1. \A j : Slot(o, j) => Slot(o, j)'
      BY <1>3
    <3>2. \A j : j \in DOMAIN stack[Home[o]] /\ j < i /\ Slot(o, j) => j <= p
      BY <2>2, <2>3 DEF ChainedAt
    <3>3. /\ p = 0 \/ (p < i /\ Slot(o, p))
          /\ Inner(o, i) \/ stack[Home[o]][i].ref = 1
      BY <2>2, <2>3 DEF ChainedAt
    <3> QED BY <2>1, <3>1, <3>2, <3>3, <1>4
  <2>5. \A j \in DOMAIN stack'[Home[o]] : j < i /\ Slot(o, j)' => j <= p
    <3>1. \A j : Slot(o, j)' => Slot(o, j) /\ j \in DOMAIN stack[Home[o]]
      BY <1>3 DEF Slot
    <3> QED BY <2>4, <3>1
  <2>6. stack'[Home[o]][i].prev = p
    BY <2>1, <2>3
  <2> QED BY <2>4, <2>5, <2>6 DEF ChainedAt
<1> QED BY <1>5, <1>6, <1>7 DEF Chained

LEMMA PastIs ==
  ASSUME NEW o, NEW S
  PROVE  Past(o, S) <=> \E u \in Threads : \E i \in DOMAIN stack[u] :
                          stack[u][i].op = "destroy" /\ stack[u][i].obj = o /\ stack[u][i].at \in S
BY DEF Past, Frames, Members

\* Past is about these calls, whatever else a step changes.
LEMMA PastEqual ==
  ASSUME NEW o,
         \A u \in Threads : \A i :
           (i \in DOMAIN stack'[u] /\ Ends(stack'[u][i], o)) <=>
             (i \in DOMAIN stack[u] /\ Ends(stack[u][i], o))
  PROVE  Past(o, After)' <=> Past(o, After)
<1>1. Past(o, After) <=> \E u \in Threads : \E i : i \in DOMAIN stack[u] /\ Ends(stack[u][i], o)
  BY PastIs DEF Ends
<1>2. Past(o, After)' <=> \E u \in Threads : \E i : i \in DOMAIN stack'[u] /\ Ends(stack'[u][i], o)
  BY DEF Past, Frames, Members, Ends
<1> QED BY <1>1, <1>2

LEMMA PastSame ==
  ASSUME IInv, IInv', NEW t \in Threads, NEW n \in Nat, Elsewhere(t, n), NEW o,
         (n \in DOMAIN stack[t] /\ Ends(stack[t][n], o)) <=>
           (n \in DOMAIN stack'[t] /\ Ends(stack'[t][n], o))
  PROVE  Past(o, After)' <=> Past(o, After)
<1>1. ASSUME NEW u \in Threads, NEW i
      PROVE  (i \in DOMAIN stack'[u] /\ Ends(stack'[u][i], o)) <=>
               (i \in DOMAIN stack[u] /\ Ends(stack[u][i], o))
  BY PlacesInNat DEF Elsewhere
<1> QED BY <1>1, PastEqual

LEMMA PutChained ==
  ASSUME IInv, IInv', Chained, NEW t \in Threads, stack[t] # <<>>, NEW f, f = Top(t), NEW g,
         Put(t, g), f.at # "called", g.at # "called",
         \A o \in Objects : Ends(f, o) <=> Ends(g, o), UNCHANGED objectVars
  PROVE  Chained'
<1>1. PICK n : n = Len(stack[t])
  OBVIOUS
<1>2. /\ Elsewhere(t, n) /\ n \in DOMAIN stack[t] /\ n \in DOMAIN stack'[t] /\ stack'[t][n] = g
      /\ stack[t][n] = f /\ n \in Nat
  <2>1. Len(stack[t]) \in Nat
    BY StackIs, SignalSlotAssumption DEF IInv
  <2> QED BY <2>1, <1>1, PutPlaces DEF Top
<1>3. \A o \in Objects : Over(o)' <=> Over(o)
  BY <1>2, PastSame DEF Over, objectVars
<1> QED BY <1>2, <1>3, QuietChained DEF objectVars

LEMMA PopChained ==
  ASSUME IInv, IInv', Chained, NEW t \in Threads, stack[t] # <<>>, Pop(t), Top(t).at # "called",
         Top(t).op # "destroy", UNCHANGED objectVars
  PROVE  Chained'
<1>1. PICK n : n = Len(stack[t])
  OBVIOUS
<1>2. /\ Elsewhere(t, n) /\ n \in DOMAIN stack[t] /\ n \notin DOMAIN stack'[t]
      /\ stack[t][n] = Top(t) /\ n \in Nat
  <2>1. Len(stack[t]) \in Nat
    BY StackIs, SignalSlotAssumption DEF IInv
  <2> QED BY <2>1, <1>1, PopPlaces DEF Top
<1>3. \A o \in Objects : Over(o)' <=> Over(o)
  BY <1>2, PastSame DEF Over, objectVars, Ends
<1> QED BY <1>2, <1>3, QuietChained DEF objectVars

LEMMA PushChained ==
  ASSUME IInv, IInv', Chained, NEW t \in Threads, NEW g, Push(t, g), g.at # "called",
         \A o \in Objects : ~Ends(g, o), currentSender' = currentSender,
         \A o \in Objects : object'[o] = "gone" <=> object[o] = "gone"
  PROVE  Chained'
<1>1. PICK n : n = Len(stack[t]) + 1
  OBVIOUS
<1>2. /\ Elsewhere(t, n) /\ n \notin DOMAIN stack[t] /\ n \in DOMAIN stack'[t] /\ stack'[t][n] = g
      /\ n \in Nat
  <2>1. Len(stack[t]) \in Nat
    BY StackIs, SignalSlotAssumption DEF IInv
  <2> QED BY <2>1, <1>1, PushPlaces
<1>3. \A o \in Objects : Over(o)' <=> Over(o)
  BY <1>2, PastSame DEF Over
<1> QED BY <1>2, <1>3, QuietChained

\* The calls that begin.
LEMMA CallFields ==
  ASSUME NEW op, NEW point, NEW o, NEW p, NEW w
  PROVE  /\ Call(op, point, o, p, w).at = point /\ Call(op, point, o, p, w).op = op
         /\ \A k, u : /\ [Call(op, point, o, p, w) EXCEPT !.kind = k, !.unique = u].at = point
                      /\ [Call(op, point, o, p, w) EXCEPT !.kind = k, !.unique = u].op = op
BY DEF Call

LEMMA CallsChained == ASSUME IInv, IInv', Chained, NEW t \in Threads, Calls(t) PROVE Chained'
<1>1. ASSUME NEW s, NEW r, NEW l, NEW k, NEW u, Connect(t, s, r, l, k, u)
      PROVE  Chained'
  <2>1. PICK g : g = [Call("connect", "lock", s, r, <<l>>) EXCEPT !.kind = k, !.unique = u]
    OBVIOUS
  <2>2. g.at = "lock" /\ g.op = "connect" /\ Push(t, g) /\ UNCHANGED objectVars
    BY <1>1, <2>1, CallFields DEF Connect
  <2> QED BY <2>2, PushChained DEF Ends, objectVars
<1>2. ASSUME NEW s, NEW r, NEW w, Disconnect(t, s, r, w)
      PROVE  Chained'
  <2>1. PICK g : g = Call("disconnect", IF r = Nobody THEN "lockOne" ELSE "lock", s, r, w)
    OBVIOUS
  <2>2. g.at \in {"lockOne", "lock"} /\ g.op = "disconnect" /\ Push(t, g) /\ UNCHANGED objectVars
    BY <1>2, <2>1, CallFields DEF Disconnect
  <2> QED BY <2>2, PushChained DEF Ends, objectVars
<1>3. ASSUME NEW s, Emit(t, s) PROVE Chained'
  <2>1. PICK g : g = Call("emit", "lockOne", s, Nobody, <<"sig", "all">>)
    OBVIOUS
  <2>2. g.at = "lockOne" /\ g.op = "emit" /\ Push(t, g) /\ UNCHANGED objectVars
    BY <1>3, <2>1, CallFields DEF Emit
  <2> QED BY <2>2, PushChained DEF Ends, objectVars
<1>4. ASSUME NEW o \in Objects, Destroy(t, o) PROVE Chained'
  <2>1. PICK g : g = Call("destroy", "destroyed", o, Nobody, <<"all", "sig">>)
    OBVIOUS
  <2>2. /\ g.at = "destroyed" /\ g.op = "destroy" /\ Push(t, g) /\ object[o] = "alive"
        /\ object' = [object EXCEPT ![o] = "dying"] /\ currentSender' = currentSender
    BY <1>4, <2>1, CallFields DEF Destroy
  <2>3. \A x \in Objects : object'[x] = "gone" <=> object[x] = "gone"
    BY <2>2 DEF IInv, DataTyped
  <2> QED BY <2>2, <2>3, PushChained DEF Ends, After, Ending, Leaving
<1> QED BY <1>1, <1>2, <1>3, <1>4 DEF Calls

\* The innermost call goes on at the same end of ~QObject, or is another call.
LEMMA GoesOn ==
  ASSUME IInv, IInv', Chained, NEW t \in Threads, stack[t] # <<>>, NEW f, f = Top(t), NEW g,
         Put(t, g), g.op = f.op, g.obj = f.obj, f.at # "called", g.at # "called",
         f.op = "destroy" => (f.at \in After <=> g.at \in After), UNCHANGED objectVars
  PROVE  Chained'
BY PutChained DEF Ends

LEMMA BeginFields ==
  ASSUME NEW f \in FrameT, NEW w
  PROVE  /\ Begin(f, w).op = f.op /\ Begin(f, w).obj = f.obj /\ Begin(f, w).at = f.at
         /\ \A p : /\ [Begin(f, w) EXCEPT !.at = p].op = f.op
                   /\ [Begin(f, w) EXCEPT !.at = p].obj = f.obj
                   /\ [Begin(f, w) EXCEPT !.at = p].at = p
         /\ \A p, b : /\ [Begin(f, w) EXCEPT !.at = p, !.began = b].op = f.op
                      /\ [Begin(f, w) EXCEPT !.at = p, !.began = b].obj = f.obj
                      /\ [Begin(f, w) EXCEPT !.at = p, !.began = b].at = p
BY DEF Begin, FrameT

LEMMA WaitsChained ==
  ASSUME IInv, IInv', Chained, NEW t \in Threads, LockLower(t) \/ Relock(t) \/ RelockOther(t)
  PROVE  Chained'
<1>1. PICK f : f = Top(t)
  OBVIOUS
<1>2. CASE LockLower(t)
  <2>1. PICK g : g = [f EXCEPT !.at = "lockUpper"]
    OBVIOUS
  <2>2. /\ stack[t] # <<>> /\ f.op \in {"connect", "disconnect"} /\ f.at = "lock" /\ Put(t, g)
        /\ UNCHANGED objectVars
    BY <1>1, <1>2, <2>1 DEF LockLower, At
  <2>3. f \in FrameT
    BY <1>1, <2>2, TopIs
  <2>4. g.op = f.op /\ g.obj = f.obj /\ g.at = "lockUpper"
    BY <2>1, <2>3 DEF FrameT
  <2> QED BY <1>1, <2>2, <2>4, GoesOn
<1>3. CASE Relock(t)
  <2>1. PICK g : g = [f EXCEPT !.relock = "other", !.mutex = MutexOf[Other(f)], !.from = Other(f)]
    OBVIOUS
  <2>2. /\ stack[t] # <<>> /\ Put(t, g) /\ f.at \in {"disconnecting", "receivers", "senders"}
        /\ UNCHANGED objectVars
    BY <1>1, <1>3, <2>1 DEF Relock, Meets
  <2>3. f \in FrameT
    BY <1>1, <2>2, TopIs
  <2>4. g.op = f.op /\ g.obj = f.obj /\ g.at = f.at
    BY <2>1, <2>3 DEF FrameT
  <2> QED BY <1>1, <2>2, <2>4, GoesOn
<1>4. CASE RelockOther(t)
  <2>1. PICK g : g = [f EXCEPT !.relock = "own"]
    OBVIOUS
  <2>2. stack[t] # <<>> /\ Put(t, g) /\ f.relock = "other" /\ UNCHANGED objectVars
    BY <1>1, <1>4, <2>1 DEF RelockOther
  <2>3. f \in FrameT /\ f.at \in {"disconnecting", "receivers", "senders"}
    BY <1>1, <2>2, TopIs DEF Sane, Relocks
  <2>4. g.op = f.op /\ g.obj = f.obj /\ g.at = f.at
    BY <2>1, <2>3 DEF FrameT
  <2> QED BY <1>1, <2>2, <2>3, <2>4, GoesOn
<1> QED BY <1>2, <1>3, <1>4

LEMMA DisconnectsChained ==
  ASSUME IInv, IInv', Chained, NEW t \in Threads,
         \/ ConnectBoth(t) \/ DisconnectBoth(t) \/ DisconnectBegins(t) \/ DisconnectSkips(t)
         \/ DisconnectOther(t) \/ DisconnectList(t) \/ DisconnectEnds(t)
  PROVE  Chained'
<1>1. PICK f : f = Top(t)
  OBVIOUS
<1>2. CASE ConnectBoth(t) \/ DisconnectBoth(t) \/ DisconnectEnds(t)
  <2>1. /\ stack[t] # <<>> /\ f.op # "destroy" /\ f.at # "called" /\ Pop(t)
        /\ UNCHANGED objectVars
    BY <1>1, <1>2 DEF ConnectBoth, DisconnectBoth, DisconnectEnds, At
  <2> QED BY <2>1, <1>1, PopChained
<1>3. CASE DisconnectBegins(t)
  <2>1. PICK g : g = [Begin(f, f.walk) EXCEPT !.at = "disconnecting"]
    OBVIOUS
  <2>2. /\ stack[t] # <<>> /\ f.op = "disconnect" /\ f.at = "lockOne" /\ UNCHANGED objectVars
        /\ Pop(t) \/ Put(t, g)
    BY <1>1, <1>3, <2>1 DEF DisconnectBegins, At
  <2>3. f \in FrameT
    BY <1>1, <2>2, TopIs
  <2>4. g.op = f.op /\ g.obj = f.obj /\ g.at = "disconnecting"
    BY <2>1, <2>3, BeginFields
  <2> QED BY <1>1, <2>2, <2>4, GoesOn, PopChained
<1>4. CASE DisconnectSkips(t)
  <2>1. PICK g : g = [f EXCEPT !.conn = Following(lists[f.obj][Head(f.walk)], @)]
    OBVIOUS
  <2>2. /\ stack[t] # <<>> /\ f.op = "disconnect" /\ f.at = "disconnecting" /\ UNCHANGED objectVars
        /\ Put(t, g)
    BY <1>1, <1>4, <2>1 DEF DisconnectSkips, At
  <2>3. f \in FrameT
    BY <1>1, <2>2, TopIs
  <2>4. g.op = f.op /\ g.obj = f.obj /\ g.at = f.at
    BY <2>1, <2>3 DEF FrameT
  <2> QED BY <1>1, <2>2, <2>4, GoesOn
<1>5. CASE DisconnectOther(t)
  <2>1. PICK g : g = [f EXCEPT !.conn = Following(lists[f.obj][Head(f.walk)], @),
                               !.seen = @ \cup {f.conn}, !.relock = "no"]
    OBVIOUS
  <2>2. stack[t] # <<>> /\ f.at = "disconnecting" /\ UNCHANGED objectVars /\ Put(t, g)
    BY <1>1, <1>5, <2>1 DEF DisconnectOther, WithOther
  <2>3. f \in FrameT
    BY <1>1, <2>2, TopIs
  <2>4. g.op = f.op /\ g.obj = f.obj /\ g.at = f.at
    BY <2>1, <2>3 DEF FrameT
  <2> QED BY <1>1, <2>2, <2>4, GoesOn
<1>6. CASE DisconnectList(t)
  <2>1. PICK g : g = Begin(f, Tail(f.walk))
    OBVIOUS
  <2>2. /\ stack[t] # <<>> /\ f.op = "disconnect" /\ f.at = "disconnecting" /\ UNCHANGED objectVars
        /\ Put(t, g)
    BY <1>1, <1>6, <2>1 DEF DisconnectList, At
  <2>3. f \in FrameT
    BY <1>1, <2>2, TopIs
  <2>4. g.op = f.op /\ g.obj = f.obj /\ g.at = f.at
    BY <2>1, <2>3, BeginFields
  <2> QED BY <1>1, <2>2, <2>4, GoesOn
<1> QED BY <1>2, <1>3, <1>4, <1>5, <1>6

LEMMA AdvanceFields ==
  ASSUME NEW f \in FrameT
  PROVE  /\ Advance(f).op = f.op /\ Advance(f).obj = f.obj /\ Advance(f).at = "walk"
         /\ Visited(f) \in FrameT /\ Visited(f).op = f.op /\ Visited(f).obj = f.obj
BY VisitedIs DEF Advance, FrameT

LEMMA EmissionsChained ==
  ASSUME IInv, IInv', Chained, NEW t \in Threads,
         \/ EmitBegins(t) \/ EmitSkips(t) \/ EmitQueued(t) \/ EmitBlocking(t)
         \/ BlockingPosts(t) \/ BlockingReturns(t) \/ EmitList(t) \/ EmitEnds(t)
  PROVE  Chained'
<1>1. PICK f : f = Top(t)
  OBVIOUS
<1>2. stack[t] # <<>> /\ f.op = "emit" /\ f.at # "called" /\ UNCHANGED objectVars
  BY <1>1 DEF EmitBegins, EmitSkips, EmitQueued, EmitBlocking, BlockingPosts, BlockingReturns,
     EmitList, EmitEnds, Visits, At
<1>3. f \in FrameT
  BY <1>1, <1>2, TopIs
<1>4. CASE EmitBegins(t)
  <2>1. PICK g : g = [Begin(f, f.walk) EXCEPT !.at = "walk", !.began = made]
    OBVIOUS
  <2>2. Pop(t) \/ Put(t, g)
    BY <1>1, <1>4, <2>1 DEF EmitBegins
  <2>3. g.op = f.op /\ g.obj = f.obj /\ g.at = "walk"
    BY <2>1, <1>3, BeginFields
  <2> QED BY <1>1, <1>2, <2>2, <2>3, GoesOn, PopChained
<1>5. CASE EmitSkips(t) \/ BlockingReturns(t)
  <2>1. PICK g : g = Advance(f)
    OBVIOUS
  <2>2. Put(t, g) /\ g.op = f.op /\ g.obj = f.obj /\ g.at = "walk"
    BY <1>1, <1>3, <1>5, <2>1, AdvanceFields DEF EmitSkips, BlockingReturns
  <2> QED BY <1>1, <1>2, <2>2, GoesOn
<1>6. CASE EmitQueued(t)
  <2>1. PICK g : g = Advance(Visited(f))
    OBVIOUS
  <2>2. Put(t, g) /\ g.op = f.op /\ g.obj = f.obj /\ g.at = "walk"
    BY <1>1, <1>3, <1>6, <2>1, AdvanceFields DEF EmitQueued
  <2> QED BY <1>1, <1>2, <2>2, GoesOn
<1>7. CASE EmitBlocking(t)
  <2>1. PICK v : v = Visited(f)
    OBVIOUS
  <2>2. PICK g : g = [v EXCEPT !.at = "unlocked", !.peer = Receiver(f)]
    OBVIOUS
  <2>3. v \in FrameT /\ v.op = f.op /\ v.obj = f.obj
    BY <1>3, <2>1, AdvanceFields
  <2>4. Put(t, g) /\ g.op = f.op /\ g.obj = f.obj /\ g.at = "unlocked"
    BY <1>1, <1>7, <2>1, <2>2, <2>3 DEF EmitBlocking, FrameT
  <2> QED BY <1>1, <1>2, <2>4, GoesOn
<1>8. CASE BlockingPosts(t)
  <2>1. PICK g : g = [f EXCEPT !.at = "posted"]
    OBVIOUS
  <2>2. Put(t, g) /\ g.op = f.op /\ g.obj = f.obj /\ g.at = "posted"
    BY <1>1, <1>3, <1>8, <2>1 DEF BlockingPosts, FrameT
  <2> QED BY <1>1, <1>2, <2>2, GoesOn
<1>9. CASE EmitList(t)
  <2>1. PICK g : g = Begin(f, Tail(f.walk))
    OBVIOUS
  <2>2. Put(t, g) /\ g.op = f.op /\ g.obj = f.obj /\ g.at = f.at
    BY <1>1, <1>3, <1>9, <2>1, BeginFields DEF EmitList
  <2> QED BY <1>1, <1>2, <2>2, GoesOn
<1>10. CASE EmitEnds(t)
  <2>1. Pop(t)
    BY <1>10 DEF EmitEnds
  <2> QED BY <1>1, <1>2, <2>1, PopChained
<1> QED BY <1>4, <1>5, <1>6, <1>7, <1>8, <1>9, <1>10

LEMMA DestructorsChained ==
  ASSUME IInv, IInv', Chained, NEW t \in Threads,
         \/ DestroyLocks(t) \/ DestroyBroken(t) \/ DestroyReceiver(t) \/ DestroyList(t)
         \/ DestroyVector(t) \/ DestroySender(t) \/ DestroyUnlocks(t)
  PROVE  Chained'
<1>1. PICK f : f = Top(t)
  OBVIOUS
<1>2. /\ stack[t] # <<>> /\ UNCHANGED objectVars /\ f.at \in After
  BY <1>1 DEF DestroyLocks, DestroyBroken, DestroyReceiver, DestroyList, DestroyVector,
     DestroySender, DestroyUnlocks, WithOther, At, After, Ending, Leaving
<1>3. f \in FrameT
  BY <1>1, <1>2, TopIs
<1>4. ASSUME NEW g, Put(t, g), g.op = f.op, g.obj = f.obj, g.at \in After
      PROVE  Chained'
  BY <1>1, <1>2, <1>4, GoesOn DEF After, Ending, Leaving
<1>5. CASE DestroyLocks(t)
  <2>1. PICK g : g = [Begin(f, f.walk) EXCEPT !.at = "receivers"]
    OBVIOUS
  <2>2. PICK h : h = [f EXCEPT !.at = "senders"]
    OBVIOUS
  <2>3. PICK k : k = [f EXCEPT !.at = "free"]
    OBVIOUS
  <2>4. Put(t, g) \/ Put(t, h) \/ Put(t, k)
    BY <1>1, <1>5, <2>1, <2>2, <2>3 DEF DestroyLocks
  <2>5. g.op = f.op /\ g.obj = f.obj /\ g.at \in After
    BY <1>3, <2>1, BeginFields DEF After, Ending
  <2>6. /\ h.op = f.op /\ h.obj = f.obj /\ h.at \in After
        /\ k.op = f.op /\ k.obj = f.obj /\ k.at \in After
    BY <1>3, <2>2, <2>3 DEF After, Ending, Leaving, FrameT
  <2> QED BY <1>4, <2>4, <2>5, <2>6
<1>6. CASE DestroyBroken(t) \/ DestroyReceiver(t)
  <2>1. PICK g : g = [f EXCEPT !.conn = First(Minus(lists[f.obj][Head(f.walk)], {f.conn})),
                               !.relock = "no"]
    OBVIOUS
  <2>2. Put(t, g)
    BY <1>1, <1>6, <2>1 DEF DestroyBroken, DestroyReceiver, DeleteFirst
  <2>3. g.op = f.op /\ g.obj = f.obj /\ g.at = f.at
    BY <1>3, <2>1 DEF FrameT
  <2> QED BY <1>2, <1>4, <2>2, <2>3
<1>7. CASE DestroyList(t)
  <2>1. PICK g : g = Begin(f, Tail(f.walk))
    OBVIOUS
  <2>2. Put(t, g) /\ g.op = f.op /\ g.obj = f.obj /\ g.at = f.at
    BY <1>1, <1>3, <1>7, <2>1, BeginFields DEF DestroyList
  <2> QED BY <1>2, <1>4, <2>2
<1>8. CASE DestroyVector(t)
  <2>1. PICK g : g = [f EXCEPT !.at = "senders"]
    OBVIOUS
  <2>2. Put(t, g)
    BY <1>1, <1>8, <2>1 DEF DestroyVector
  <2>3. g.op = f.op /\ g.obj = f.obj /\ g.at = "senders"
    BY <1>3, <2>1 DEF FrameT
  <2> QED BY <1>4, <2>2, <2>3 DEF After, Ending, Leaving
<1>9. CASE DestroySender(t)
  <2>1. PICK g : g = [f EXCEPT !.relock = "no"]
    OBVIOUS
  <2>2. PICK h : h = [f EXCEPT !.relock = "no", !.seen = @ \cup {Current(f)}]
    OBVIOUS
  <2>3. Put(t, g) \/ Put(t, h)
    BY <1>1, <1>9, <2>1, <2>2 DEF DestroySender
  <2>4. g.op = f.op /\ g.obj = f.obj /\ g.at = f.at /\ h.op = f.op /\ h.obj = f.obj /\ h.at = f.at
    BY <1>3, <2>1, <2>2 DEF FrameT
  <2> QED BY <1>2, <1>4, <2>3, <2>4
<1>10. CASE DestroyUnlocks(t)
  <2>1. PICK g : g = [f EXCEPT !.at = "free"]
    OBVIOUS
  <2>2. Put(t, g)
    BY <1>1, <1>10, <2>1 DEF DestroyUnlocks
  <2>3. g.op = f.op /\ g.obj = f.obj /\ g.at = "free"
    BY <1>3, <2>1 DEF FrameT
  <2> QED BY <1>4, <2>2, <2>3 DEF After, Ending, Leaving
<1> QED BY <1>5, <1>6, <1>7, <1>8, <1>9, <1>10

\* The object that is gone was over before.
LEMMA DestroyEndsChained ==
  ASSUME IInv, IInv', Chained, NEW t \in Threads, DestroyEnds(t)
  PROVE  Chained'
<1>1. PICK f : f = Top(t)
  OBVIOUS
<1>2. /\ stack[t] # <<>> /\ f.op = "destroy" /\ f.at = "free" /\ Pop(t)
      /\ object' = [object EXCEPT ![f.obj] = "gone"] /\ currentSender' = currentSender
  BY <1>1 DEF DestroyEnds, At
<1>3. PICK n : n = Len(stack[t])
  OBVIOUS
<1>4. /\ Elsewhere(t, n) /\ n \in DOMAIN stack[t] /\ n \notin DOMAIN stack'[t]
      /\ stack[t][n] = f /\ n \in Nat
  <2>1. Len(stack[t]) \in Nat
    BY StackIs, SignalSlotAssumption DEF IInv
  <2> QED BY <2>1, <1>1, <1>2, <1>3, PopPlaces DEF Top
<1>5. ASSUME NEW o \in Objects PROVE Over(o)' <=> Over(o)
  <2>1. object'[o] = IF o = f.obj THEN "gone" ELSE object[o]
    BY <1>2 DEF IInv, DataTyped
  <2>2. CASE o = f.obj
    <3>1. Past(o, After)
      BY <1>2, <1>4, <2>2, PastIs DEF After, Ending, Leaving
    <3> QED BY <3>1, <2>1, <2>2 DEF Over
  <2>3. CASE o # f.obj
    <3>1. Past(o, After)' <=> Past(o, After)
      BY <1>4, <2>3, PastSame DEF Ends
    <3> QED BY <3>1, <2>1, <2>3 DEF Over
  <2> QED BY <2>2, <2>3
<1> QED BY <1>2, <1>4, <1>5, QuietChained

\* Whoever has told currentSender runs in the thread of the object, in the foreground.
LEMMA EndsInFront ==
  ASSUME IInv, NEW o \in Objects, Past(o, After)
  PROVE  stack[Home[o]] # <<>> /\ Ends(Top(Home[o]), o)
<1>0. PICK u \in Threads : \E i \in DOMAIN stack[u] : Ends(stack[u][i], o)
  BY PastIs DEF Ends
<1>1. PICK i \in DOMAIN stack[u] : Ends(stack[u][i], o)
  BY <1>0
<1>2. Sane(u, stack[u][i]) /\ (i < Len(stack[u]) => stack[u][i].at \in Pausing)
  BY DEF IInv, Called
<1>3. Home[o] = u
  BY <1>1, <1>2 DEF Sane, Destroys, Ends
<1>4. stack[u][i].at \notin Pausing
  BY <1>1 DEF Ends, After, Ending, Leaving, Pausing
<1>5. i = Len(stack[u]) /\ stack[u] # <<>>
  <2>1. i \in 1..Len(stack[u]) /\ Len(stack[u]) \in Nat /\ (stack[u] = <<>> => Len(stack[u]) = 0)
    BY StackIs, SignalSlotAssumption DEF IInv
  <2> QED BY <2>1, <1>2, <1>4
<1> QED BY <1>1, <1>3, <1>5 DEF Top

\* A slot that is called becomes the innermost.
LEMMA EmitDirectChained ==
  ASSUME IInv, IInv', Chained, NEW t \in Threads, EmitDirect(t)
  PROVE  Chained'
<1>1. PICK f : f = Top(t)
  OBVIOUS
<1>2. PICK r : r = Receiver(f)
  OBVIOUS
<1>3. PICK v : v = Visited(f)
  OBVIOUS
<1>4. PICK g : g = [v EXCEPT !.at = "called", !.peer = r, !.ref = 1, !.prev = currentSender[r]]
  OBVIOUS
<1>5. PICK n : n = Len(stack[t])
  OBVIOUS
<1>6. /\ At(t, "emit", "walk") /\ f.conn # NoConn /\ Activation(t, f) = "direct" /\ Put(t, g)
      /\ currentSender' = [currentSender EXCEPT ![r] = n] /\ object' = object
  BY <1>1, <1>2, <1>3, <1>4, <1>5 DEF EmitDirect, Visits
<1>7. /\ stack[t] # <<>> /\ f \in FrameT /\ f.op = "emit" /\ f.at = "walk" /\ f.conn <= made
      /\ Sane(t, f)
  BY <1>1, <1>6, EmitIs
<1>8. r \in Objects /\ Home[r] = t /\ object[r] # "gone"
  <2>1. f.conn \in 1..made /\ f.conn \in Conns /\ conns[f.conn] \in ConnT
    BY <1>6, <1>7, ConnIs DEF IInv, DataTyped
  <2>2. r # Nobody /\ Home[r] = t
    BY <1>2, <1>6, <2>1 DEF Activation, ConnT, AllKinds
  <2>3. r \in Objects
    BY <1>2, <2>1, <2>2 DEF Receiver, ConnT, SomeObject
  <2> QED BY <2>1, <2>2, <2>3, <1>2 DEF IInv, Standing, Joined, Receiver
<1>9. g.op = "emit" /\ g.at = "called" /\ g.peer = r /\ g.ref = 1 /\ g.prev = currentSender[r]
  <2>1. v \in FrameT /\ v.op = "emit"
    BY <1>3, <1>7, VisitedIs
  <2> QED BY <2>1, <1>4 DEF FrameT
<1>10. /\ Elsewhere(t, n) /\ n \in DOMAIN stack[t] /\ n \in DOMAIN stack'[t] /\ stack'[t][n] = g
       /\ stack[t][n] = f /\ n \in Nat /\ n # 0
  <2>1. Len(stack[t]) \in Nat /\ DOMAIN stack[t] = 1..Len(stack[t])
    BY StackIs, SignalSlotAssumption DEF IInv
  <2> QED BY <2>1, <1>1, <1>5, <1>6, <1>7, PutPlaces DEF Top
<1>11. \A i \in DOMAIN stack[t] : i \in Nat /\ i <= n /\ i # 0
  BY <1>5, StackIs, SignalSlotAssumption DEF IInv
<1>12. DOMAIN stack'[t] = DOMAIN stack[t]
  BY <1>5, <1>6, <1>7, PutPlaces
<1>13. ASSUME NEW o \in Objects PROVE Over(o)' <=> Over(o)
  <2>1. Past(o, After)' <=> Past(o, After)
    BY <1>7, <1>9, <1>10, PastSame DEF Ends
  <2> QED BY <2>1, <1>6 DEF Over
<1>14. ~Over(r)
  <2>1. ~Past(r, After)
    BY <1>1, <1>7, <1>8, EndsInFront DEF Ends
  <2> QED BY <2>1, <1>8 DEF Over
<1>15. ASSUME NEW o \in Objects, NEW i
       PROVE  /\ Slot(o, i)' <=> Slot(o, i) \/ (o = r /\ i = n)
              /\ Slot(o, i) => stack'[Home[o]][i] = stack[Home[o]][i] /\ ~(Home[o] = t /\ i = n)
  <2>1. Home[o] \in Threads
    BY SignalSlotAssumption
  <2>2. CASE Home[o] = t /\ i = n
    BY <2>2, <1>7, <1>8, <1>9, <1>10 DEF Slot
  <2>3. CASE ~(Home[o] = t /\ i = n)
    <3>1. i \in DOMAIN stack'[Home[o]] <=> i \in DOMAIN stack[Home[o]]
      BY <2>1, <2>3, <1>10, PlacesInNat DEF Elsewhere
    <3>2. i \in DOMAIN stack[Home[o]] => stack'[Home[o]][i] = stack[Home[o]][i]
      BY <2>1, <2>3, <1>10, PlacesInNat DEF Elsewhere
    <3> QED BY <2>3, <3>1, <3>2, <1>8 DEF Slot
  <2> QED BY <2>2, <2>3
<1>16. ASSUME NEW o \in Objects, o # r, NEW i PROVE Inner(o, i)' <=> Inner(o, i)
  BY <1>15, <1>16 DEF Inner, Slot
<1>17. \A i : Inner(r, i)' <=> i = n
  <2>1. ASSUME NEW i PROVE Inner(r, i)' <=> i = n
    <3>1. Slot(r, n)' /\ \A j : Slot(r, j)' => j \in DOMAIN stack[t] /\ j <= n
      BY <1>8, <1>10, <1>11, <1>15 DEF Slot
    <3>2. i = n => Inner(r, i)'
      BY <3>1, <1>8, <1>10, <1>11, <1>12 DEF Inner
    <3>3. ASSUME Inner(r, i)', i # n PROVE FALSE
      <4>1. i < n
        BY <3>1, <3>3, <1>10, <1>11 DEF Inner
      <4> QED BY <4>1, <3>1, <3>3, <1>8, <1>10 DEF Inner
    <3> QED BY <3>2, <3>3
  <2> QED BY <2>1
<1>18. ASSUME NEW u \in Threads, NEW i \in DOMAIN stack'[u], stack'[u][i].at = "called"
       PROVE  stack'[u][i].peer \in Objects /\ Home[stack'[u][i].peer] = u
  <2>1. CASE u = t /\ i = n
    BY <2>1, <1>8, <1>9, <1>10
  <2>2. CASE ~(u = t /\ i = n)
    BY <2>2, <1>10, <1>18, PlacesInNat DEF Elsewhere, Chained
  <2> QED BY <2>1, <2>2
<1>19. ASSUME NEW o \in Objects PROVE Pointed(o)'
  <2>1. currentSender'[o] = IF o = r THEN n ELSE currentSender[o]
    BY <1>6 DEF IInv, DataTyped
  <2>2. CASE o = r
    BY <2>1, <2>2, <1>8, <1>9, <1>10, <1>13, <1>14, <1>17 DEF Pointed
  <2>3. CASE o # r
    <3>1. Pointed(o)
      BY DEF Chained
    <3> QED BY <2>1, <2>3, <3>1, <1>13, <1>15, <1>16 DEF Pointed, Inner, Slot
  <2> QED BY <2>2, <2>3
<1>20. ASSUME NEW o \in Objects, NEW i, Slot(o, i)' PROVE ChainedAt(o, i)'
  <2>1. CASE o = r /\ i = n
    <3>1. stack'[Home[r]][n] = g
      BY <1>8, <1>10
    <3>2. \A j : Slot(r, j) => j < n
      BY <1>8, <1>10, <1>11, <1>15 DEF Slot
    <3>3. CASE currentSender[r] = 0
      <4>1. \A j : ~Slot(r, j)
        BY <3>3, <1>8, <1>14 DEF Chained, Pointed, Slot
      <4> QED BY <2>1, <3>1, <3>3, <4>1, <1>8, <1>9, <1>10, <1>15, <1>17 DEF ChainedAt
    <3>4. CASE currentSender[r] # 0
      <4>1. Inner(r, currentSender[r])
        BY <3>4, <1>8 DEF Chained, Pointed
      <4>2. \A j : Slot(r, j) => j <= currentSender[r]
        BY <4>1, <1>8, <1>11 DEF Inner, Slot
      <4>3. Slot(r, currentSender[r]) /\ currentSender[r] < n
        BY <4>1, <3>2 DEF Inner
      <4>4. \A j : j < n /\ Slot(r, j)' => j <= currentSender[r]
        <5>1. \A j : Slot(r, j)' => Slot(r, j) \/ j = n
          BY <1>8, <1>15
        <5> QED BY <5>1, <4>2, <1>10
      <4> QED BY <2>1, <3>1, <4>3, <4>4, <1>8, <1>9, <1>15, <1>17 DEF ChainedAt
    <3> QED BY <3>3, <3>4
  <2>2. CASE ~(o = r /\ i = n)
    <3>1. Slot(o, i) /\ stack'[Home[o]][i] = stack[Home[o]][i]
      BY <2>2, <1>15, <1>20
    <3>2. ChainedAt(o, i)
      BY <3>1 DEF Chained, Slot
    <3>3. \A j : Slot(o, j)' /\ j < i => Slot(o, j)
      <4>1. o = r => i < n
        BY <2>2, <3>1, <1>8, <1>10, <1>11, <1>15 DEF Slot
      <4>2. o = r => i \in Nat
        BY <3>1, <1>8, <1>11 DEF Slot
      <4> QED BY <4>1, <4>2, <1>10, <1>15
    <3>4. Inner(o, i)' \/ stack[Home[o]][i].ref = 1
      <4>1. CASE o # r
        BY <4>1, <3>2, <1>16 DEF ChainedAt
      <4>2. CASE o = r /\ Inner(r, i)
        <5>1. currentSender[r] # 0
          BY <4>2, <3>1, <1>8, <1>14 DEF Chained, Pointed, Slot
        <5>2. Inner(r, currentSender[r]) /\ stack[Home[r]][currentSender[r]].ref = 1
          BY <5>1, <1>8 DEF Chained, Pointed
        <5>3. currentSender[r] = i
          BY <4>2, <5>2, <1>8, <1>11 DEF Inner, Slot
        <5> QED BY <4>2, <5>2, <5>3
      <4>3. CASE o = r /\ ~Inner(r, i)
        BY <4>3, <3>2 DEF ChainedAt
      <4> QED BY <4>1, <4>2, <4>3
    <3>5. PICK p : p = stack[Home[o]][i].prev
      OBVIOUS
    <3>6. p = 0 \/ (p < i /\ Slot(o, p)')
      BY <3>2, <3>5, <1>15 DEF ChainedAt
    <3>7. \A j : j < i /\ Slot(o, j)' => j <= p
      BY <3>2, <3>3, <3>5 DEF ChainedAt, Slot
    <3> QED BY <3>1, <3>4, <3>5, <3>6, <3>7 DEF ChainedAt
  <2> QED BY <2>1, <2>2
<1> QED BY <1>18, <1>19, <1>20 DEF Chained

LEMMA BelowPlaces ==
  ASSUME IInv, NEW t \in Threads, stack[t] # <<>>, NEW s \in Seq(FrameT),
         Len(s) = Len(stack[t]), stack' = [stack EXCEPT ![t] = s], NEW k, NEW x,
         \A i \in 1..(Len(s) - 1) :
           s[i] = IF i = k THEN [stack[t][i] EXCEPT !.ref = x] ELSE stack[t][i]
  PROVE  /\ Len(stack[t]) \in Nat /\ Len(stack[t]) # 0 /\ Len(stack[t]) \in DOMAIN stack[t]
         /\ \A i \in DOMAIN stack[t] : i \in Nat /\ i # 0 /\ i <= Len(stack[t])
         /\ stack'[t][Len(stack[t])] = s[Len(s)] /\ RefAlone(t, k, x)
<1>1. PICK n : n = Len(stack[t])
  OBVIOUS
<1>2. /\ n \in Nat /\ n # 0 /\ n \in DOMAIN stack[t] /\ DOMAIN stack[t] = 1..n
      /\ \A i \in DOMAIN stack[t] : stack[t][i] \in FrameT
  <2>1. n \in Nat /\ n \in DOMAIN stack[t] /\ DOMAIN stack[t] = 1..n
    BY <1>1, StackIs, SignalSlotAssumption DEF IInv
  <2> QED BY <2>1, StackIs DEF IInv
<1>3. DOMAIN s = 1..n
  <2> HIDE DEF FrameT
  <2> QED BY <1>1, LenProperties
<1>4. stack'[t] = s /\ \A u \in Threads \ {t} : stack'[u] = stack[u]
  BY DEF IInv, CallsTyped
<1>5. ASSUME NEW i \in DOMAIN stack[t], i # n
      PROVE  /\ s[i].op = stack[t][i].op /\ s[i].at = stack[t][i].at
             /\ s[i].obj = stack[t][i].obj /\ s[i].peer = stack[t][i].peer
             /\ s[i].prev = stack[t][i].prev
             /\ s[i].ref = IF i = k THEN x ELSE stack[t][i].ref
  <2>1. i \in 1..(Len(s) - 1)
    BY <1>1, <1>2, <1>5
  <2>2. s[i] = IF i = k THEN [stack[t][i] EXCEPT !.ref = x] ELSE stack[t][i]
    BY <2>1
  <2>3. stack[t][i] \in FrameT
    BY <1>2
  <2> QED BY <2>2, <2>3 DEF FrameT
<1>6. \A i \in DOMAIN stack[t] : i \in Nat /\ i # 0 /\ i <= n
  BY <1>2
<1> QED BY <1>1, <1>2, <1>3, <1>4, <1>5, <1>6 DEF RefAlone

\* The slot that returns was the innermost of the receiver, ...
LEMMA ReturningIs ==
  ASSUME IInv, Chained, NEW t \in Threads, stack[t] # <<>>, NEW f, f = Top(t), f.at = "called",
         NEW n, n = Len(stack[t]), NEW r, r = f.peer
  PROVE  /\ r \in Objects /\ Home[r] = t /\ Slot(r, n) /\ Inner(r, n) /\ stack[t][n] = f
         /\ f.prev = 0 \/ (f.prev < n /\ Slot(r, f.prev))
         /\ \A j : Slot(r, j) => j = n \/ j <= f.prev
         /\ f.ref = 1 => currentSender[r] = n /\ ~Over(r)
         /\ f.ref # 1 => f.ref = 0 /\ currentSender[r] = 0 /\ Over(r)
<1>1. /\ n \in Nat /\ n \in DOMAIN stack[t] /\ stack[t][n] = f /\ f \in FrameT
      /\ \A j \in DOMAIN stack[t] : j \in Nat /\ j <= n
  <2>1. n \in DOMAIN stack[t] /\ DOMAIN stack[t] = 1..n /\ n \in Nat
    BY StackIs, SignalSlotAssumption DEF IInv
  <2> QED BY <2>1, TopIs DEF Top
<1>2. r \in Objects /\ Home[r] = t /\ Slot(r, n)
  BY <1>1 DEF Chained, Slot
<1>3. Inner(r, n)
  BY <1>1, <1>2 DEF Inner
<1>4. ChainedAt(r, n) /\ Pointed(r)
  BY <1>1, <1>2 DEF Chained
<1>5. f.prev = 0 \/ (f.prev < n /\ Slot(r, f.prev))
  BY <1>1, <1>2, <1>4 DEF ChainedAt
<1>6. \A j : Slot(r, j) => j = n \/ j <= f.prev
  BY <1>1, <1>2, <1>4 DEF ChainedAt, Slot
<1>7. CASE currentSender[r] # 0
  <2>1. Inner(r, currentSender[r]) /\ ~Over(r) /\ stack[t][currentSender[r]].ref = 1
    BY <1>2, <1>4, <1>7 DEF Pointed
  <2>2. currentSender[r] = n
    BY <2>1, <1>1, <1>2, <1>3 DEF Inner, Slot
  <2> QED BY <2>1, <2>2, <1>1, <1>2, <1>3, <1>5, <1>6
<1>8. CASE currentSender[r] = 0
  BY <1>1, <1>2, <1>3, <1>4, <1>5, <1>6, <1>8 DEF Pointed
<1> QED BY <1>7, <1>8

\* ... and the next one further out takes its place, with what it was told.
LEMMA SlotReturnsChained ==
  ASSUME IInv, IInv', Chained, NEW t \in Threads, SlotReturns(t)
  PROVE  Chained'
<1>1. PICK f : f = Top(t)
  OBVIOUS
<1>2. PICK g : g = Returned(f)
  OBVIOUS
<1>3. PICK n : n = Len(stack[t])
  OBVIOUS
<1>4. PICK r : r = f.peer
  OBVIOUS
<1>5. PICK p : p = f.prev
  OBVIOUS
<1>6. /\ At(t, "emit", "called") /\ object' = object
      /\ currentSender' = IF f.ref = 1 THEN [currentSender EXCEPT ![r] = p] ELSE currentSender
  BY <1>1, <1>4, <1>5 DEF SlotReturns
<1>7. stack[t] # <<>> /\ f \in FrameT /\ f.op = "emit" /\ f.at = "called" /\ f.walk # <<>>
  BY <1>1, <1>6, EmitIs DEF Sane, Placed
<1>8. g \in FrameT /\ g.op = "emit" /\ g.at = "walk"
  <2>1. CASE Orphaned(f)
    <3>1. NoConn \in 0..MaxConns /\ <<>> \in Seq(Lists)
      BY SignalSlotAssumption, EmptySeq DEF NoConn
    <3>2. g = [f EXCEPT !.at = "walk", !.conn = NoConn, !.walk = <<>>]
      BY <2>1, <1>2 DEF Returned
    <3> QED BY <3>1, <3>2, <1>7 DEF FrameT, Points
  <2>2. CASE ~Orphaned(f)
    <3>1. Advance(f) \in FrameT /\ Advance(f).op = f.op /\ Advance(f).at = "walk"
      BY <1>1, <1>6, <1>7, EmitIs, AdvanceIs, AdvanceFields
    <3> QED BY <2>2, <3>1, <1>2, <1>7 DEF Returned
  <2> QED BY <2>1, <2>2
<1>9. PICK s \in Seq(FrameT) :
        /\ Len(s) = n /\ s[Len(s)] = g /\ stack' = [stack EXCEPT ![t] = s]
        /\ \A i \in 1..(Len(s) - 1) :
             s[i] = IF i = p THEN [stack[t][i] EXCEPT !.ref = f.ref] ELSE stack[t][i]
  <2>1. Returned(Top(t)) \in FrameT
    BY <1>1, <1>2, <1>8
  <2> HIDE DEF FrameT
  <2>2. PICK s \in Seq(FrameT) :
           /\ Len(s) = Len(stack[t]) /\ s[Len(s)] = Returned(Top(t))
           /\ stack' = [stack EXCEPT ![t] = s]
           /\ \A i \in 1..(Len(s) - 1) :
                s[i] = IF i = Top(t).prev THEN [stack[t][i] EXCEPT !.ref = Top(t).ref]
                       ELSE stack[t][i]
    BY <2>1, SlotStack
  <2> QED BY <1>1, <1>2, <1>3, <1>5, <2>2
<1>10. /\ n \in Nat /\ n # 0 /\ n \in DOMAIN stack[t] /\ stack'[t][n] = g
       /\ \A i \in DOMAIN stack[t] : i \in Nat /\ i # 0 /\ i <= n
       /\ RefAlone(t, p, f.ref)
  <2>1. PICK k, x : k = p /\ x = f.ref
    OBVIOUS
  <2>2. \A i \in 1..(Len(s) - 1) :
          s[i] = IF i = k THEN [stack[t][i] EXCEPT !.ref = x] ELSE stack[t][i]
    BY <1>9, <2>1
  <2>3. /\ Len(stack[t]) \in Nat /\ Len(stack[t]) # 0 /\ Len(stack[t]) \in DOMAIN stack[t]
        /\ \A i \in DOMAIN stack[t] : i \in Nat /\ i # 0 /\ i <= Len(stack[t])
        /\ stack'[t][Len(stack[t])] = s[Len(s)] /\ RefAlone(t, k, x)
    <3> HIDE DEF FrameT
    <3> QED BY <2>2, <1>3, <1>7, <1>9, BelowPlaces
  <2> QED BY <1>3, <1>9, <2>1, <2>3
<1>11. /\ r \in Objects /\ Home[r] = t /\ Slot(r, n) /\ Inner(r, n) /\ stack[t][n] = f
       /\ p = 0 \/ (p < n /\ Slot(r, p))
       /\ \A j : Slot(r, j) => j = n \/ j <= p
       /\ f.ref = 1 => currentSender[r] = n /\ ~Over(r)
       /\ f.ref # 1 => f.ref = 0 /\ currentSender[r] = 0 /\ Over(r)
  BY <1>1, <1>3, <1>4, <1>5, <1>7, ReturningIs
<1>12. ASSUME NEW o \in Objects PROVE Over(o)' <=> Over(o)
  <2>1. ASSUME NEW u \in Threads, NEW i
        PROVE  (i \in DOMAIN stack'[u] /\ Ends(stack'[u][i], o)) <=>
                 (i \in DOMAIN stack[u] /\ Ends(stack[u][i], o))
    BY <1>3, <1>7, <1>8, <1>10, <1>11 DEF Ends, RefAlone
  <2>2. Past(o, After)' <=> Past(o, After)
    BY <2>1, PastEqual
  <2> QED BY <2>2, <1>6 DEF Over
<1>13. ASSUME NEW o \in Objects, NEW i
       PROVE  /\ Slot(o, i)' <=> Slot(o, i) /\ ~(o = r /\ i = n)
              /\ Slot(o, i)' => stack'[Home[o]][i].prev = stack[Home[o]][i].prev
              /\ Slot(o, i)' => stack'[Home[o]][i].ref =
                                  IF o = r /\ i = p THEN f.ref ELSE stack[Home[o]][i].ref
  <2>1. Home[o] \in Threads
    BY SignalSlotAssumption
  <2>2. CASE Home[o] = t /\ i = n
    BY <2>2, <1>3, <1>4, <1>8, <1>10, <1>11 DEF Slot, RefAlone
  <2>3. CASE ~(Home[o] = t /\ i = n)
    <3>1. Slot(o, i)' <=> Slot(o, i)
      BY <2>1, <2>3, <1>3, <1>10 DEF Slot, RefAlone
    <3>2. Slot(o, i) /\ Home[o] = t /\ i = p => o = r
      BY <1>10, <1>11 DEF Slot
    <3> QED BY <2>1, <2>3, <3>1, <3>2, <1>3, <1>10, <1>11 DEF Slot, RefAlone
  <2> QED BY <2>2, <2>3
<1>14. ASSUME NEW o \in Objects, NEW i
       PROVE  Slot(o, i) => i \in DOMAIN stack[Home[o]] /\ i \in DOMAIN stack'[Home[o]]
  BY <1>10, SignalSlotAssumption DEF Slot, RefAlone
<1>15. ASSUME NEW o \in Objects, o # r, NEW i PROVE Inner(o, i)' <=> Inner(o, i)
  BY <1>13, <1>14, <1>15 DEF Inner
<1>16. ASSUME NEW i PROVE Slot(r, i)' => i \in Nat /\ i # 0 /\ i < n /\ i <= p
  <2>1. HAVE Slot(r, i)'
  <2>2. Slot(r, i) /\ i # n
    BY <2>1, <1>11, <1>13
  <2> QED BY <2>2, <1>10, <1>11 DEF Slot
<1>17. ASSUME NEW i PROVE Inner(r, i)' <=> p # 0 /\ i = p
  <2>1. CASE p = 0
    BY <2>1, <1>16 DEF Inner
  <2>2. CASE p # 0
    <3>1. Slot(r, p)'
      BY <2>2, <1>10, <1>11, <1>13
    <3>2. Inner(r, p)'
      BY <3>1, <1>16 DEF Inner
    <3>3. ASSUME Inner(r, i)' PROVE i = p
      <4>1. ~(p > i)
        BY <3>1, <3>3, <1>11, <1>14, <1>13 DEF Inner
      <4>2. i <= p /\ i \in Nat /\ p \in Nat
        BY <3>1, <3>3, <1>16 DEF Inner
      <4> QED BY <4>1, <4>2
    <3> QED BY <2>2, <3>2, <3>3
  <2> QED BY <2>1, <2>2
<1>18. ASSUME NEW u \in Threads, NEW i \in DOMAIN stack'[u], stack'[u][i].at = "called"
       PROVE  stack'[u][i].peer \in Objects /\ Home[stack'[u][i].peer] = u
  BY <1>3, <1>8, <1>10, <1>18 DEF Chained, RefAlone
<1>19. ASSUME NEW o \in Objects PROVE Pointed(o)'
  <2>1. Pointed(o)
    BY DEF Chained
  <2>2. CASE o # r
    <3>1. currentSender'[o] = currentSender[o]
      BY <2>2, <1>6, <1>11 DEF IInv, DataTyped
    <3>2. \A i : Inner(o, i) => Slot(o, i)
      BY DEF Inner
    <3> QED BY <2>1, <2>2, <3>1, <3>2, <1>12, <1>13, <1>14, <1>15 DEF Pointed
  <2>3. CASE o = r /\ f.ref = 1
    <3>1. currentSender'[r] = p /\ ~Over(r)'
      BY <2>3, <1>6, <1>11, <1>12 DEF IInv, DataTyped
    <3>2. p # 0 => Inner(r, p)' /\ stack'[Home[r]][p].ref = 1
      BY <2>3, <1>11, <1>13, <1>17 DEF Inner
    <3>3. p = 0 => \A i : ~Slot(r, i)'
      BY <1>16
    <3> QED BY <2>3, <3>1, <3>2, <3>3 DEF Pointed
  <2>4. CASE o = r /\ f.ref # 1
    <3>1. currentSender'[r] = 0 /\ Over(r)' /\ f.ref = 0
      BY <2>4, <1>6, <1>11, <1>12
    <3>2. \A i : Slot(r, i)' /\ Inner(r, i)' => stack'[Home[r]][i].ref = 0
      BY <3>1, <1>11, <1>13, <1>17
    <3> QED BY <2>4, <3>1, <3>2 DEF Pointed
  <2> QED BY <2>2, <2>3, <2>4
<1>20. ASSUME NEW o \in Objects, NEW i, Slot(o, i)' PROVE ChainedAt(o, i)'
  <2>1. Slot(o, i) /\ stack'[Home[o]][i].prev = stack[Home[o]][i].prev
    BY <1>13, <1>20
  <2>2. PICK q : q = stack[Home[o]][i].prev
    OBVIOUS
  <2>3. ChainedAt(o, i)
    BY <2>1 DEF Chained, Slot
  <2>4. q = 0 \/ (q < i /\ Slot(o, q)')
    <3>1. q = 0 \/ (q < i /\ Slot(o, q))
      BY <2>2, <2>3 DEF ChainedAt
    <3>2. o = r => i < n /\ i \in Nat
      BY <1>16, <1>20
    <3>3. ASSUME o = r, q = n, q < i PROVE FALSE
      BY <3>2, <3>3, <1>10
    <3> QED BY <3>1, <3>3, <1>13
  <2>5. \A j : j < i /\ Slot(o, j)' => j <= q
    BY <2>2, <2>3, <1>13, <1>14 DEF ChainedAt
  <2>6. Inner(o, i)' \/ stack'[Home[o]][i].ref = 1
    <3>1. CASE o # r
      BY <3>1, <2>3, <1>13, <1>15, <1>20 DEF ChainedAt
    <3>2. CASE o = r /\ i = p
      BY <3>2, <1>16, <1>17, <1>20
    <3>3. CASE o = r /\ i # p
      <4>1. ~Inner(r, i)
        BY <3>3, <1>10, <1>11, <1>16, <1>20 DEF Inner
      <4> QED BY <3>3, <4>1, <2>3, <1>13, <1>20 DEF ChainedAt
    <3> QED BY <3>1, <3>2, <3>3
  <2> QED BY <2>1, <2>2, <2>4, <2>5, <2>6 DEF ChainedAt
<1> QED BY <1>18, <1>19, <1>20 DEF Chained

\* ~QObject tells the innermost, which hands it on when it returns.
LEMMA DestroyBeginsChained ==
  ASSUME IInv, IInv', Chained, NEW t \in Threads, DestroyBegins(t)
  PROVE  Chained'
<1>1. PICK f : f = Top(t)
  OBVIOUS
<1>2. PICK g : g = Told(f)
  OBVIOUS
<1>3. PICK n : n = Len(stack[t])
  OBVIOUS
<1>4. PICK d : d = f.obj
  OBVIOUS
<1>5. PICK k : k = currentSender[d]
  OBVIOUS
<1>6. /\ At(t, "destroy", "destroyed") /\ object' = object
      /\ currentSender' = [currentSender EXCEPT ![d] = 0]
  BY <1>1, <1>4 DEF DestroyBegins
<1>7. /\ stack[t] # <<>> /\ f \in FrameT /\ f.op = "destroy" /\ f.at = "destroyed"
      /\ d \in Objects /\ Home[d] = t
  <2>1. /\ stack[t] # <<>> /\ f \in FrameT /\ f.op = "destroy" /\ f.at = "destroyed"
        /\ d \in Objects /\ Destroys(t, f)
    BY <1>1, <1>4, <1>6, DestroyIs
  <2> QED BY <2>1, <1>4 DEF Destroys
<1>8. g \in FrameT /\ g.op = "destroy" /\ g.at = "lockOne" /\ g.obj = d
  BY <1>2, <1>4, <1>7 DEF FrameT, Points, Told
<1>9. PICK s \in Seq(FrameT) :
        /\ Len(s) = Len(stack[t]) /\ s[Len(s)] = Told(Top(t))
        /\ stack' = [stack EXCEPT ![t] = s]
        /\ \A i \in 1..(Len(s) - 1) : Alike(stack[t][i], s[i])
        /\ \A i \in 1..(Len(s) - 1) :
             s[i] = IF i = currentSender[Top(t).obj] THEN [stack[t][i] EXCEPT !.ref = 0]
                    ELSE stack[t][i]
  <2>1. Told(Top(t)) \in FrameT
    BY <1>1, <1>2, <1>8
  <2> HIDE DEF FrameT
  <2> QED BY <2>1, ToldStack
<1>10. /\ n \in DOMAIN stack[t] /\ stack'[t][n] = g /\ RefAlone(t, k, 0)
  <2>1. PICK x, y : x = 0 /\ y = currentSender[Top(t).obj]
    OBVIOUS
  <2>2. \A i \in 1..(Len(s) - 1) :
          s[i] = IF i = y THEN [stack[t][i] EXCEPT !.ref = x] ELSE stack[t][i]
    BY <1>9, <2>1
  <2>3. Len(s) = Len(stack[t]) /\ stack' = [stack EXCEPT ![t] = s] /\ stack[t] # <<>>
    BY <1>7, <1>9
  <2>4. /\ Len(stack[t]) \in Nat /\ Len(stack[t]) # 0 /\ Len(stack[t]) \in DOMAIN stack[t]
        /\ \A i \in DOMAIN stack[t] : i \in Nat /\ i # 0 /\ i <= Len(stack[t])
        /\ stack'[t][Len(stack[t])] = s[Len(s)] /\ RefAlone(t, y, x)
    <3> HIDE DEF FrameT
    <3> QED BY <2>2, <2>3, BelowPlaces
  <2>5. s[Len(s)] = g /\ y = k
    BY <1>1, <1>2, <1>4, <1>5, <1>9, <2>1
  <2> QED BY <1>3, <2>1, <2>4, <2>5
<1>11. stack[t][n] = f
  BY <1>1, <1>3 DEF Top
<1>12. ASSUME NEW o \in Objects PROVE Over(o)' <=> Over(o) \/ o = d
  <2>1. CASE o = d
    <3>1. n \in DOMAIN stack'[t] /\ Ends(stack'[t][n], d)
      BY <1>8, <1>10 DEF Ends, After, RefAlone
    <3>2. Past(d, After)'
      BY <3>1 DEF Past, Frames, Members, Ends
    <3> QED BY <2>1, <3>2 DEF Over
  <2>2. CASE o # d
    <3>1. ASSUME NEW u \in Threads, NEW i
          PROVE  (i \in DOMAIN stack'[u] /\ Ends(stack'[u][i], o)) <=>
                   (i \in DOMAIN stack[u] /\ Ends(stack[u][i], o))
      BY <2>2, <1>3, <1>4, <1>8, <1>10, <1>11 DEF Ends, RefAlone
    <3>2. Past(o, After)' <=> Past(o, After)
      BY <3>1, PastEqual
    <3> QED BY <2>2, <3>2, <1>6 DEF Over
  <2> QED BY <2>1, <2>2
<1>13. Pointed(d) /\ (k # 0 => Inner(d, k))
  BY <1>5, <1>7 DEF Chained, Pointed
<1>14. ASSUME NEW o \in Objects, NEW i
       PROVE  /\ Slot(o, i)' <=> Slot(o, i)
              /\ Slot(o, i) => stack'[Home[o]][i].prev = stack[Home[o]][i].prev
              /\ Slot(o, i) /\ ~(o = d /\ i = k) =>
                   stack'[Home[o]][i].ref = stack[Home[o]][i].ref
              /\ Slot(d, k) => stack'[Home[d]][k].ref = 0
  <2>1. Home[o] \in Threads
    BY SignalSlotAssumption
  <2>2. Slot(o, i)' <=> Slot(o, i)
    <3>1. CASE Home[o] = t /\ i = n
      BY <3>1, <1>7, <1>8, <1>10, <1>11 DEF Slot
    <3>2. CASE ~(Home[o] = t /\ i = n)
      BY <2>1, <3>2, <1>3, <1>10 DEF Slot, RefAlone
    <3> QED BY <3>1, <3>2
  <2>3. Slot(o, i) => ~(Home[o] = t /\ i = n)
    BY <1>7, <1>11 DEF Slot
  <2>4. Slot(o, i) => stack'[Home[o]][i].prev = stack[Home[o]][i].prev
    BY <2>1, <2>3, <1>3, <1>10 DEF Slot, RefAlone
  <2>5. ASSUME Slot(o, i), ~(o = d /\ i = k)
        PROVE  stack'[Home[o]][i].ref = stack[Home[o]][i].ref
    <3>1. ~(Home[o] = t /\ i = k)
      <4>1. CASE k = 0
        <5>1. 0 \notin DOMAIN stack[Home[o]]
          BY <2>1, StackIs DEF IInv
        <5> QED BY <4>1, <5>1, <2>5 DEF Slot
      <4>2. CASE k # 0
        BY <4>2, <2>5, <1>7, <1>13 DEF Slot, Inner
      <4> QED BY <4>1, <4>2
    <3> QED BY <2>1, <2>3, <2>5, <3>1, <1>3, <1>10 DEF Slot, RefAlone
  <2>6. Slot(d, k) => stack'[Home[d]][k].ref = 0
    <3>1. Slot(d, k) => k # n
      BY <1>7, <1>11 DEF Slot
    <3> QED BY <3>1, <1>3, <1>7, <1>10 DEF Slot, RefAlone
  <2> QED BY <2>2, <2>4, <2>5, <2>6
<1>15. ASSUME NEW o \in Objects, NEW i
       PROVE  Slot(o, i) => i \in DOMAIN stack[Home[o]] /\ i \in DOMAIN stack'[Home[o]]
  BY <1>10, SignalSlotAssumption DEF Slot, RefAlone
<1>16. ASSUME NEW o \in Objects, NEW i PROVE Inner(o, i)' <=> Inner(o, i)
  BY <1>14, <1>15 DEF Inner
<1>17. ASSUME NEW u \in Threads, NEW i \in DOMAIN stack'[u], stack'[u][i].at = "called"
       PROVE  stack'[u][i].peer \in Objects /\ Home[stack'[u][i].peer] = u
  BY <1>3, <1>8, <1>10, <1>17 DEF Chained, RefAlone
<1>18. ASSUME NEW o \in Objects PROVE Pointed(o)'
  <2>1. Pointed(o)
    BY DEF Chained
  <2>2. \A i : Inner(o, i) => Slot(o, i)
    BY DEF Inner
  <2>3. CASE o # d
    <3>1. currentSender'[o] = currentSender[o]
      BY <2>3, <1>6 DEF IInv, DataTyped
    <3> QED BY <2>1, <2>2, <2>3, <3>1, <1>12, <1>14, <1>15, <1>16 DEF Pointed
  <2>4. CASE o = d
    <3>1. currentSender'[d] = 0 /\ Over(d)'
      BY <1>6, <1>7, <1>12 DEF IInv, DataTyped
    <3>2. ASSUME NEW i, Inner(d, i) PROVE stack'[Home[d]][i].ref = 0
      <4>1. CASE k # 0
        <5>1. i = k
          <6>1. i \in Nat /\ k \in Nat /\ ~(i > k) /\ ~(k > i)
            <7>1. i \in DOMAIN stack[Home[d]] /\ k \in DOMAIN stack[Home[d]]
              BY <4>1, <3>2, <1>7, <1>13 DEF Inner, Slot
            <7> QED BY <7>1, <4>1, <3>2, <1>7, <1>13, StackIs DEF Inner, IInv
          <6> QED BY <6>1
        <5> QED BY <5>1, <3>2, <1>7, <1>14 DEF Inner
      <4>2. CASE k = 0
        <5>1. Slot(d, i) /\ i # k
          <6>1. 0 \notin DOMAIN stack[t]
            BY StackIs DEF IInv
          <6> QED BY <6>1, <4>2, <3>2, <1>7 DEF Inner, Slot
        <5>2. stack[Home[d]][i].ref = 0
          BY <4>2, <5>1, <3>2, <1>5, <1>13 DEF Pointed, Slot
        <5> QED BY <5>1, <5>2, <1>7, <1>14
      <4> QED BY <4>1, <4>2
    <3> QED BY <2>4, <3>1, <3>2, <1>16 DEF Pointed
  <2> QED BY <2>3, <2>4
<1>19. ASSUME NEW o \in Objects, NEW i, Slot(o, i)' PROVE ChainedAt(o, i)'
  <2>1. Slot(o, i) /\ stack'[Home[o]][i].prev = stack[Home[o]][i].prev
    BY <1>14, <1>19
  <2>2. PICK q : q = stack[Home[o]][i].prev
    OBVIOUS
  <2>3. ChainedAt(o, i)
    BY <2>1 DEF Chained, Slot
  <2>4. q = 0 \/ (q < i /\ Slot(o, q)')
    BY <2>2, <2>3, <1>14 DEF ChainedAt
  <2>5. \A j : j < i /\ Slot(o, j)' => j <= q
    BY <2>2, <2>3, <1>14, <1>15 DEF ChainedAt
  <2>6. Inner(o, i)' \/ stack'[Home[o]][i].ref = 1
    <3>1. CASE Inner(o, i)
      BY <3>1, <1>16
    <3>2. CASE ~Inner(o, i)
      <4>1. ~(o = d /\ i = k)
        <5>1. k = 0 => ~Slot(d, k)
          BY <1>7, StackIs DEF IInv, Slot
        <5> QED BY <5>1, <3>2, <2>1, <1>13
      <4> QED BY <3>2, <4>1, <2>1, <2>3, <1>14 DEF ChainedAt
    <3> QED BY <3>1, <3>2
  <2> QED BY <2>1, <2>2, <2>4, <2>5, <2>6 DEF ChainedAt
<1> QED BY <1>17, <1>18, <1>19 DEF Chained

LEMMA StepsChained ==
  ASSUME IInv, IInv', Chained, NEW t \in Threads, Steps(t) PROVE Chained'
BY WaitsChained, DisconnectsChained, EmissionsChained, EmitDirectChained, SlotReturnsChained,
   DestroyBeginsChained, DestructorsChained, DestroyEndsChained DEF Steps

LEMMA InitChained == ASSUME Init PROVE Chained
<1>1. \A t \in Threads : stack[t] = <<>>
  BY DEF Init
<1>2. \A t \in Threads : DOMAIN stack[t] = {}
  BY <1>1
<1>3. \A o \in Objects : currentSender[o] = 0 /\ DOMAIN stack[Home[o]] = {}
  BY <1>2, SignalSlotAssumption DEF Init
<1> QED BY <1>2, <1>3 DEF Chained, Pointed, Slot

LEMMA StutterChained == ASSUME Chained, UNCHANGED vars PROVE Chained'
<1>1. stack' = stack /\ currentSender' = currentSender /\ object' = object
  BY DEF vars, objectVars
<1>2. \A o : Over(o)' <=> Over(o)
  BY <1>1 DEF Over, Past, Frames
<1>3. \A o, i : Slot(o, i)' <=> Slot(o, i)
  BY <1>1 DEF Slot
<1>4. \A o, i : Inner(o, i)' <=> Inner(o, i)
  BY <1>1, <1>3 DEF Inner
<1>5. \A o, i : ChainedAt(o, i)' <=> ChainedAt(o, i)
  BY <1>1, <1>3, <1>4 DEF ChainedAt
<1>6. \A o : Pointed(o)' <=> Pointed(o)
  BY <1>1, <1>2, <1>3, <1>4 DEF Pointed
<1> QED BY <1>1, <1>3, <1>5, <1>6 DEF Chained

LEMMA NextKeepsChained ==
  ASSUME IInv, Chained, [Next]_vars PROVE Chained'
<1>1. IInv'
  BY NextKeeps
<1> QED BY <1>1, StutterChained, CallsChained, StepsChained DEF Next

LEMMA SendersAre == ASSUME IInv, Chained PROVE SenderPointersValid
<1>1. ASSUME NEW o \in Objects, currentSender[o] # 0
      PROVE  LET i == currentSender[o]
                 s == stack[Home[o]]
             IN  /\ object[o] # "gone"
                 /\ i \in DOMAIN s /\ s[i].at = "called" /\ s[i].peer = o
                 /\ \A j \in DOMAIN s : j > i => ~(s[j].at = "called" /\ s[j].peer = o)
  <2>1. ~Over(o) /\ Inner(o, currentSender[o])
    BY <1>1 DEF Chained, Pointed
  <2> QED BY <2>1 DEF Inner, Slot, Over
<1>2. ASSUME NEW t \in Threads, stack[t] # <<>>, Top(t).at = "called", Top(t).ref = 1
      PROVE  object[Top(t).peer] # "gone"
  <2>1. PICK f, n, r : f = Top(t) /\ n = Len(stack[t]) /\ r = f.peer
    OBVIOUS
  <2>2. ~Over(r)
    BY <2>1, <1>2, ReturningIs
  <2> QED BY <2>1, <2>2 DEF Over
<1> QED BY <1>1, <1>2 DEF SenderPointersValid

\* However deep the slots of an object are nested, and wherever among them it is destroyed,
\* sender() finds the innermost emission that calls it, and an emission that returns writes
\* to no receiver that is gone: QObjectPrivate::setCurrentSender and resetCurrentSender keep
\* the Senders of the stacks chained, and ~QObject tells the innermost (qobject.cpp:585).
THEOREM SendersAreFound == Spec => []SenderPointersValid
<1>1. Init => IInv /\ Chained
  BY InitKeeps, InitChained
<1>2. IInv /\ Chained /\ [Next]_vars => (IInv /\ Chained)'
  BY NextKeeps, NextKeepsChained
<1>3. IInv /\ Chained => SenderPointersValid
  BY SendersAre
<1> QED BY <1>1, <1>2, <1>3, PTL DEF Spec

-----------------------------------------------------------------------------
(* What an emission has visited.                                           *)

\* The order of a list: its ends, ...
LEMMA EndsOrdered ==
  ASSUME NEW q \in Seq(Conns), q # <<>>, Rising(q)
  PROVE  /\ First(q) \in Members(q) /\ Last(q) \in Members(q)
         /\ \A c \in Members(q) : First(q) <= c /\ c <= Last(q)
<1>1. /\ Len(q) \in Nat /\ DOMAIN q = 1..Len(q) /\ \A i \in DOMAIN q : q[i] \in Conns
      /\ Len(q) >= 1 /\ Head(q) = q[1]
  BY LenProperties, ElementOfSeq, EmptySeq, HeadTailProperties
<1>2. First(q) = q[1] /\ Last(q) = q[Len(q)] /\ 1 \in DOMAIN q /\ Len(q) \in DOMAIN q
  BY <1>1 DEF First, Last
<1>3. \A c \in Conns : c \in Int
  BY DEF Conns
<1>4. ASSUME NEW i \in DOMAIN q PROVE q[1] <= q[i] /\ q[i] <= q[Len(q)]
  <2>1. (i = 1 \/ 1 < i) /\ (i = Len(q) \/ i < Len(q))
    BY <1>1
  <2>2. q[1] \in Int /\ q[i] \in Int /\ q[Len(q)] \in Int
    BY <1>1, <1>2, <1>3
  <2>3. q[1] <= q[i]
    BY <2>1, <2>2, <1>2 DEF Rising
  <2>4. q[i] <= q[Len(q)]
    BY <2>1, <2>2, <1>2 DEF Rising
  <2> QED BY <2>3, <2>4
<1> QED BY <1>2, <1>4 DEF Members

\* ... and what follows a connection that is not the last one.
LEMMA FollowsIs ==
  ASSUME NEW q \in Seq(Conns), Rising(q), NEW c \in Members(q), NEW d \in Members(q), c < d
  PROVE  LET n == Following(q, c)
         IN  /\ n \in Members(q) /\ c < n /\ n <= d
             /\ \A e \in Members(q) : e < n => e <= c
<1>1. /\ Len(q) \in Nat /\ DOMAIN q = 1..Len(q) /\ \A i \in DOMAIN q : q[i] \in Conns
  BY LenProperties, ElementOfSeq
<1>2. \A i \in DOMAIN q : q[i] \in Int
  BY <1>1 DEF Conns
<1>3. PICK i \in DOMAIN q : q[i] = c
  BY DEF Members
<1>4. PICK k \in DOMAIN q : q[k] = d
  BY DEF Members
<1>5. ASSUME NEW a \in DOMAIN q, NEW b \in DOMAIN q PROVE (q[a] < q[b] <=> a < b) /\ (q[a] = q[b] => a = b)
  <2>1. a < b \/ b < a \/ a = b
    BY <1>1
  <2>2. q[a] \in Int /\ q[b] \in Int
    BY <1>2
  <2>3. a < b => q[a] < q[b] /\ ~(b < a)
    BY <1>1 DEF Rising
  <2>4. b < a => q[b] < q[a] /\ ~(a < b)
    BY <1>1 DEF Rising
  <2>5. a = b => ~(a < b)
    BY <1>1
  <2> QED BY <2>1, <2>2, <2>3, <2>4, <2>5
<1>6. i < k
  BY <1>3, <1>4, <1>5
<1>7. PICK after : after = {j \in 2..Len(q) : q[j - 1] = c}
  OBVIOUS
<1>8. i + 1 \in after
  BY <1>1, <1>3, <1>4, <1>6, <1>7
<1>9. \A j \in after : j = i + 1
  <2> SUFFICES ASSUME NEW j \in 2..Len(q), q[j - 1] = c PROVE j = i + 1
    BY <1>7
  <2>1. j - 1 \in DOMAIN q
    BY <1>1
  <2>2. j - 1 = i
    BY <2>1, <1>3, <1>5
  <2> QED BY <2>2, <1>1
<1>10. Following(q, c) = q[i + 1]
  <2>1. after # {} /\ (CHOOSE j \in after : TRUE) \in after
    BY <1>8
  <2>2. (CHOOSE j \in after : TRUE) = i + 1
    BY <2>1, <1>9
  <2> QED BY <2>1, <2>2, <1>7 DEF Following
<1>11. i + 1 \in DOMAIN q /\ i < i + 1 /\ (i + 1 = k \/ i + 1 < k)
  BY <1>1, <1>3, <1>4, <1>6
<1>12. q[i + 1] \in Members(q) /\ c < q[i + 1]
  BY <1>3, <1>5, <1>11 DEF Members
<1>13. q[i + 1] <= d
  BY <1>2, <1>4, <1>5, <1>11
<1>14. ASSUME NEW e \in Members(q), e < q[i + 1] PROVE e <= c
  <2>1. PICK j \in DOMAIN q : q[j] = e
    BY DEF Members
  <2>2. j < i + 1
    BY <2>1, <1>5, <1>11, <1>14
  <2>3. j < i \/ j = i
    BY <2>2, <1>1, <1>3
  <2> QED BY <2>1, <2>3, <1>2, <1>3, <1>5
<1> QED BY <1>10, <1>12, <1>13, <1>14

\* The list of a walk.
LEMMA WalkedIs ==
  ASSUME IInv, NEW f \in FrameT, f.walk # <<>>
  PROVE  /\ f.obj \in Objects /\ Head(f.walk) \in Lists /\ Walked(f) = lists[f.obj][Head(f.walk)]
         /\ Walked(f) \in Seq(Conns) /\ Rising(Walked(f))
         /\ \A c \in Members(Walked(f)) : c \in 1..made
<1>1. f.obj \in Objects /\ Head(f.walk) \in Lists
  <2>1. f.walk \in Seq(Lists) /\ f.obj \in Objects
    BY DEF FrameT
  <2> QED BY <2>1, HeadTailProperties
<1>2. Walked(f) = lists[f.obj][Head(f.walk)]
  BY DEF Walked
<1>3. Walked(f) \in Seq(Conns) /\ Rising(Walked(f)) /\ \A c \in Members(Walked(f)) : c \in 1..made
  BY <1>1, <1>2 DEF IInv, DataTyped, Standing, Sent
<1> QED BY <1>1, <1>2, <1>3

LEMMA NumbersAre ==
  ASSUME IInv, NEW f \in FrameT
  PROVE  /\ made \in Nat /\ f.conn \in Nat /\ f.last \in Nat /\ f.upTo \in Nat
         /\ \A c \in f.seen : c \in Nat
BY SignalSlotAssumption DEF IInv, DataTyped, FrameT

\* A walk that begins with a list has seen what it should, ...
LEMMA BegunDone ==
  ASSUME IInv, NEW f \in FrameT, NEW w \in Seq(Lists), w # <<>>, NEW g \in FrameT,
         g.obj = f.obj, g.walk = w, g.at = "walk", g.conn = First(Walked(g)), g.last = Last(Walked(g)),
         g.upTo = made, g.seen = {}
  PROVE  Done(g)
<1>1. /\ Walked(g) \in Seq(Conns) /\ Rising(Walked(g))
      /\ \A c \in Members(Walked(g)) : c \in 1..made
  BY WalkedIs
<1>2. made \in Nat
  BY NumbersAre
<1>3. CASE Walked(g) = <<>>
  <2>1. g.conn = NoConn /\ g.last = NoConn /\ Members(Walked(g)) = {}
    BY <1>1, <1>3, EndsAre DEF First, Last
  <2> QED BY <2>1, <1>2 DEF Done, Visiting, NoConn
<1>4. CASE Walked(g) # <<>>
  <2>1. /\ g.conn \in Members(Walked(g)) /\ g.last \in Members(Walked(g))
        /\ \A c \in Members(Walked(g)) : g.conn <= c /\ c <= g.last
    BY <1>1, <1>4, EndsOrdered
  <2>2. g.last \in 1..made /\ g.conn \in 1..made /\ g.conn # NoConn
    BY <2>1, <1>1 DEF NoConn
  <2>3. \A c \in Members(Walked(g)) : ~(c < g.conn)
    BY <2>1, <2>2, <1>1
  <2> QED BY <2>1, <2>2, <2>3, <1>2 DEF Done, Visiting
<1> QED BY <1>3, <1>4

\* ... one that visits a connection too, ...
LEMMA VisitedVisiting ==
  ASSUME IInv, NEW f \in FrameT, f.conn # NoConn, Visiting(f)
  PROVE  Visiting(Visited(f)) /\ Visited(f).conn \in Visited(f).seen
<1>1. PICK g : g = Visited(f)
  OBVIOUS
<1>2. /\ g.last = f.last /\ g.upTo = f.upTo /\ g.conn = f.conn /\ g.seen = f.seen \cup {f.conn}
      /\ Walked(g) = Walked(f)
  BY <1>1 DEF Visited, FrameT, Walked
<1>3. f.conn <= f.conn
  BY NumbersAre
<1>4. Visiting(g)
  BY <1>2, <1>3 DEF Visiting
<1> QED BY <1>1, <1>2, <1>4

\* ... and one that goes on behind one that it has seen or that is broken.
LEMMA AdvanceDone ==
  ASSUME IInv, NEW f \in FrameT, f.conn # NoConn, f.walk # <<>>, Visiting(f),
         f.conn \in f.seen \/ conns[f.conn].receiver = Nobody
  PROVE  Done(Advance(f))
<1>1. PICK g : g = Advance(f)
  OBVIOUS
<1>2. /\ g.last = f.last /\ g.upTo = f.upTo /\ g.seen = f.seen /\ g.at = "walk"
      /\ g.conn = (IF f.conn = f.last THEN NoConn
                   ELSE Following(lists[f.obj][Head(f.walk)], f.conn))
      /\ g.walk = f.walk /\ g.obj = f.obj
  BY <1>1 DEF Advance, FrameT
<1>3. Walked(g) = Walked(f)
  BY <1>2 DEF Walked
<1>4. /\ Walked(f) = lists[f.obj][Head(f.walk)] /\ Walked(f) \in Seq(Conns) /\ Rising(Walked(f))
      /\ \A c \in Members(Walked(f)) : c \in 1..made
  BY WalkedIs
<1>5. /\ made \in Nat /\ f.conn \in Nat /\ f.last \in Nat /\ f.upTo \in Nat
      /\ \A c \in f.seen : c \in Nat
  BY NumbersAre
<1>6. /\ f.last <= f.upTo /\ f.upTo <= made
      /\ \A c \in Members(Walked(f)) : c <= f.upTo => c <= f.last
      /\ f.conn \in Members(Walked(f)) /\ f.last \in Members(Walked(f)) /\ f.conn <= f.last
      /\ \A c \in f.seen : c # NoConn /\ c <= f.conn
      /\ \A c \in Members(Walked(f)) : c <= f.upTo /\ c < f.conn =>
           conns[c].receiver = Nobody \/ c \in f.seen
  BY DEF Visiting
<1>7. ASSUME NEW c \in Members(Walked(f)), c <= f.upTo, c <= f.conn
      PROVE  conns[c].receiver = Nobody \/ c \in f.seen
  <2>1. c < f.conn \/ c = f.conn
    BY <1>4, <1>5, <1>7
  <2> QED BY <2>1, <1>6, <1>7
<1>8. CASE f.conn = f.last
  <2>1. g.conn = NoConn
    BY <1>2, <1>8
  <2>2. \A c \in Members(Walked(f)) : c <= f.upTo => conns[c].receiver = Nobody \/ c \in f.seen
    BY <1>6, <1>7, <1>8
  <2> QED BY <2>1, <2>2, <1>1, <1>2, <1>3, <1>6 DEF Done, Visiting
<1>9. CASE f.conn # f.last
  <2>1. f.conn < f.last
    BY <1>5, <1>6, <1>9
  <2>2. /\ g.conn \in Members(Walked(f)) /\ f.conn < g.conn /\ g.conn <= f.last
        /\ \A e \in Members(Walked(f)) : e < g.conn => e <= f.conn
    BY <2>1, <1>2, <1>4, <1>6, <1>9, FollowsIs
  <2>3. g.conn \in Nat /\ g.conn # NoConn
    BY <2>2, <1>4 DEF NoConn
  <2>4. g.conn \notin f.seen /\ \A c \in f.seen : c <= g.conn
    BY <2>2, <2>3, <1>5, <1>6
  <2>5. \A c \in Members(Walked(f)) : c <= f.upTo /\ c < g.conn =>
           conns[c].receiver = Nobody \/ c \in f.seen
    BY <2>2, <1>7
  <2> QED BY <2>2, <2>3, <2>4, <2>5, <1>1, <1>2, <1>3, <1>6 DEF Done, Visiting
<1> QED BY <1>8, <1>9

-----------------------------------------------------------------------------
(* Steps that leave the walks of the other emissions as they are.          *)

LEMMA VisitingKept ==
  ASSUME IInv, IInv', NEW f \in FrameT, f.walk # <<>>, Visiting(f), NEW g, Alike(f, g),
         OnlyBreaks, Grown(f.obj)
  PROVE  Visiting(g)'
<1>1. /\ g \in FrameT /\ g.obj = f.obj /\ g.walk = f.walk /\ g.conn = f.conn /\ g.seen = f.seen
      /\ g.last = f.last /\ g.upTo = f.upTo
  BY DEF Alike, FrameT
<1>2. PICK q : q = Members(Walked(f))
  OBVIOUS
<1>3. PICK r : r = Members(Walked(f))'
  OBVIOUS
<1>4. /\ f.obj \in Objects /\ Head(f.walk) \in Lists /\ Walked(f) = lists[f.obj][Head(f.walk)]
      /\ \A c \in q : c \in 1..made
  BY <1>2, WalkedIs
<1>5. Walked(f)' = lists'[f.obj][Head(f.walk)] /\ Members(Walked(g))' = r
  BY <1>1, <1>3 DEF Walked
<1>6. /\ made \in Nat /\ f.conn \in Nat /\ f.last \in Nat /\ f.upTo \in Nat /\ made' \in Nat
      /\ \A c \in f.seen : c \in Nat
  BY NumbersAre, SignalSlotAssumption DEF IInv, DataTyped
<1>7. /\ f.last <= f.upTo /\ f.upTo <= made
      /\ \A c \in q : c <= f.upTo => c <= f.last
      /\ f.conn # NoConn => f.conn \in q /\ f.last \in q /\ f.conn <= f.last
      /\ \A c \in f.seen : c # NoConn /\ (f.conn # NoConn => c <= f.conn)
      /\ \A c \in q : c <= f.upTo /\ (f.conn = NoConn \/ c < f.conn) =>
           conns[c].receiver = Nobody \/ c \in f.seen
  BY <1>2 DEF Visiting
<1>8. q \subseteq r /\ \A c \in r \ q : made < c
  BY <1>2, <1>3, <1>4, <1>5 DEF Grown
<1>9. \A c \in r : c \in Nat
  BY <1>4, <1>3, <1>5 DEF IInv, Standing, Sent
<1>10. f.upTo <= made'
  BY <1>6, <1>7 DEF OnlyBreaks
<1>11. ASSUME NEW c \in r, c <= f.upTo PROVE c \in q
  <2>1. ~(made < c)
    BY <1>6, <1>7, <1>9, <1>11
  <2> QED BY <2>1, <1>8
<1>12. ASSUME NEW c \in r, c <= f.upTo, f.conn = NoConn \/ c < f.conn
       PROVE  conns'[c].receiver = Nobody \/ c \in f.seen
  <2>1. c \in q /\ c \in 1..made
    BY <1>4, <1>11, <1>12
  <2> QED BY <2>1, <1>7, <1>12 DEF OnlyBreaks
<1> QED BY <1>1, <1>5, <1>7, <1>8, <1>10, <1>11, <1>12 DEF Visiting

\* A step that changes one call.
LEMMA RestComplete ==
  ASSUME VInv, IInv', Complete, NEW t \in Threads, NEW n, NEW old, NEW new, Moves(t, n, old, new),
         OnlyBreaks,
         \A f \in Rest(t, n) : Emitting(f) =>
           /\ f.at # "called" => vector'[f.obj] = "used"
           /\ vector'[f.obj] = "used" /\ ~Past(f.obj, Ending)' =>
                vector[f.obj] = "used" /\ ~Past(f.obj, Ending) /\ Grown(f.obj),
         \A g \in new : CompleteAt(g)'
  PROVE  Complete'
<1>1. CallsTyped /\ CallsTyped' /\ IInv
  BY DEF VInv, IInv
<1>2. ASSUME NEW u \in Threads, NEW g \in Frames(u)' PROVE CompleteAt(g)'
  <2>1. g \in FrameT
    <3>1. PICK i \in DOMAIN stack'[u] : g = stack'[u][i]
      BY DEF Frames, Members
    <3>2. stack'[u] \in Seq(FrameT)
      BY <1>1 DEF CallsTyped
    <3> HIDE DEF FrameT
    <3> QED BY <3>1, <3>2, LenProperties, ElementOfSeq
  <2>2. CASE u = t /\ g \in new
    BY <2>2
  <2>3. CASE ~(u = t /\ g \in new)
    <3>1. PICK f \in Rest(t, n) \cap Frames(u) : Alike(f, g)
      BY <2>1, <2>3, <1>1, RestIs
    <3>2. f \in FrameT /\ CompleteAt(f)
      BY <3>1, <1>1, RestIs DEF Complete
    <3>3. g.op = f.op /\ g.at = f.at /\ g.obj = f.obj /\ g.walk = f.walk /\ g.conn = f.conn /\ g.seen = f.seen
      BY <3>1, <3>2, AlikeIs
    <3>4. ASSUME Emitting(f), vector'[f.obj] = "used", ~Past(f.obj, Ending)'
          PROVE  Done(g)'
      <4>1. Done(f) /\ Grown(f.obj) /\ f.walk # <<>>
        BY <3>1, <3>2, <3>4 DEF CompleteAt, Emitting
      <4>2. Visiting(g)'
        BY <4>1, <3>1, <3>2, <1>1, VisitingKept DEF Done
      <4> QED BY <4>1, <4>2, <3>3 DEF Done
    <3> QED BY <3>1, <3>3, <3>4 DEF CompleteAt, Emitting
  <2> QED BY <2>2, <2>3
<1> QED BY <1>2 DEF Complete

\* ... in lists that stay.
LEMMA QuietComplete ==
  ASSUME VInv, IInv', Complete, NEW t \in Threads, NEW n, NEW old, NEW new, Moves(t, n, old, new),
         OnlyBreaks, UNCHANGED <<lists, vector>>,
         \A f \in old : f.op = "destroy" /\ f.at \in Ending =>
           \E g \in new : g.op = "destroy" /\ g.obj = f.obj /\ g.at \in Ending,
         \A g \in new : CompleteAt(g)'
  PROVE  Complete'
<1>1. CallsTyped /\ CallsTyped'
  BY DEF VInv, IInv
<1>2. ASSUME NEW o, Past(o, Ending) PROVE Past(o, Ending)'
  BY <1>1, <1>2, PastKept
<1>3. \A o : Grown(o)
  BY DEF Grown
<1>4. ASSUME NEW f \in Rest(t, n), Emitting(f)
      PROVE  /\ f.at # "called" => vector'[f.obj] = "used"
             /\ vector'[f.obj] = "used" /\ ~Past(f.obj, Ending)' =>
                  vector[f.obj] = "used" /\ ~Past(f.obj, Ending) /\ Grown(f.obj)
  <2>1. CompleteAt(f)
    BY <1>1, RestIs DEF Complete
  <2> QED BY <2>1, <1>2, <1>3, <1>4 DEF CompleteAt
<1> QED BY <1>4, RestComplete

LEMMA PutTyped ==
  ASSUME IInv, IInv', NEW t \in Threads, stack[t] # <<>>, NEW g, Put(t, g)
  PROVE  g \in FrameT
<1>1. /\ Len(stack[t]) \in DOMAIN stack'[t] /\ stack'[t][Len(stack[t])] = g
      /\ stack'[t] \in Seq(FrameT)
  BY PutPlaces DEF IInv, CallsTyped
<1> HIDE DEF FrameT
<1> QED BY <1>1, LenProperties, ElementOfSeq

\* The innermost call goes on, and is no emission, ...
LEMMA OtherGoesOn ==
  ASSUME VInv, IInv', Complete, NEW t \in Threads, stack[t] # <<>>, NEW f, f = Top(t),
         NEW g, Put(t, g), f.op # "emit", g.op = f.op, g.obj = f.obj,
         f.op = "destroy" /\ f.at \in Ending => g.at \in Ending,
         OnlyBreaks, UNCHANGED <<lists, vector>>
  PROVE  Complete'
<1>1. Moves(t, Len(stack[t]), {f}, {g})
  BY PutTyped, PutMoves DEF VInv
<1>2. CompleteAt(g)'
  BY DEF CompleteAt, Emitting
<1> QED BY <1>1, <1>2, QuietComplete

\* ... or is one, ...
LEMMA EmissionGoesOn ==
  ASSUME VInv, IInv', Complete, NEW t \in Threads, stack[t] # <<>>, NEW f, f = Top(t),
         NEW g \in FrameT, Moves(t, Len(stack[t]), {f}, {g}), f.op = "emit",
         UNCHANGED <<made, conns, lists, vector>>, CompleteAt(g)
  PROVE  Complete'
<1>1. CallsTyped /\ CallsTyped'
  BY DEF VInv, IInv
<1>2. Past(g.obj, Ending) => Past(g.obj, Ending)'
  <2>1. ASSUME Past(g.obj, Ending) PROVE Past(g.obj, Ending)'
    BY <2>1, <1>1, PastKept
  <2> QED BY <2>1
<1>3. OnlyBreaks
  BY SignalSlotAssumption DEF OnlyBreaks, VInv, IInv, DataTyped
<1>4. Done(g) => Done(g)'
  BY DEF Done, Visiting, Walked
<1>5. CompleteAt(g)'
  BY <1>2, <1>4 DEF CompleteAt, Emitting
<1> QED BY <1>3, <1>5, QuietComplete

\* ... or returns, ...
LEMMA ReturnsComplete ==
  ASSUME VInv, IInv', Complete, NEW t \in Threads, stack[t] # <<>>, Pop(t), Top(t).op # "destroy",
         OnlyBreaks, UNCHANGED <<lists, vector>>
  PROVE  Complete'
<1>1. Moves(t, Len(stack[t]), {Top(t)}, {})
  BY PopMoves DEF VInv
<1> QED BY <1>1, QuietComplete

\* ... or makes a call.
LEMMA BeginsComplete ==
  ASSUME VInv, IInv', Complete, NEW t \in Threads, NEW g, MayCall(t), Push(t, g),
         g.op = "emit" => g.at = "lockOne", UNCHANGED connVars
  PROVE  Complete'
<1>0. g \in FrameT
  <2>1. /\ Len(stack[t]) + 1 \in DOMAIN stack'[t] /\ stack'[t][Len(stack[t]) + 1] = g
        /\ stack'[t] \in Seq(FrameT)
    BY PushPlaces DEF VInv, IInv, CallsTyped
  <2> HIDE DEF FrameT
  <2> QED BY <2>1, LenProperties, ElementOfSeq
<1>1. Moves(t, Len(stack[t]) + 1, {}, {g})
  BY <1>0, PushMoves DEF VInv
<1>2. OnlyBreaks /\ UNCHANGED <<lists, vector>>
  BY SignalSlotAssumption DEF OnlyBreaks, VInv, IInv, DataTyped, connVars
<1>3. CompleteAt(g)'
  BY DEF CompleteAt, Emitting
<1> QED BY <1>1, <1>2, <1>3, QuietComplete

LEMMA NothingBroken == ASSUME IInv, UNCHANGED <<made, conns>> PROVE OnlyBreaks
BY SignalSlotAssumption DEF OnlyBreaks, IInv, DataTyped

LEMMA OneBroken ==
  ASSUME IInv, made' = made, NEW c, conns' = [conns EXCEPT ![c].receiver = Nobody]
  PROVE  OnlyBreaks
<1>1. made \in Nat /\ conns \in [Conns -> ConnT] /\ \A d \in 1..made : d \in Conns
  BY SignalSlotAssumption DEF Conns, IInv, DataTyped
<1>2. ASSUME NEW d \in 1..made PROVE conns'[d].receiver \in {conns[d].receiver, Nobody}
  <2>1. d \in Conns /\ conns[d] \in ConnT
    BY <1>1
  <2>2. conns'[d] = IF d = c THEN [conns[d] EXCEPT !.receiver = Nobody] ELSE conns[d]
    BY <2>1, <1>1
  <2> QED BY <2>1, <2>2 DEF ConnT
<1> QED BY <1>1, <1>2 DEF OnlyBreaks

LEMMA CallsComplete == ASSUME VInv, IInv', Complete, NEW t \in Threads, Calls(t) PROVE Complete'
<1>1. ASSUME NEW s, NEW r, NEW l, NEW k, NEW u, Connect(t, s, r, l, k, u)
      PROVE  Complete'
  <2>1. PICK g : g = [Call("connect", "lock", s, r, <<l>>) EXCEPT !.kind = k, !.unique = u]
    OBVIOUS
  <2>2. MayCall(t) /\ g.op = "connect" /\ Push(t, g) /\ UNCHANGED connVars
    BY <1>1, <2>1, CallFields DEF Connect
  <2> QED BY <2>2, BeginsComplete
<1>2. ASSUME NEW s, NEW r, NEW w, Disconnect(t, s, r, w)
      PROVE  Complete'
  <2>1. PICK g : g = Call("disconnect", IF r = Nobody THEN "lockOne" ELSE "lock", s, r, w)
    OBVIOUS
  <2>2. MayCall(t) /\ g.op = "disconnect" /\ Push(t, g) /\ UNCHANGED connVars
    BY <1>2, <2>1, CallFields DEF Disconnect
  <2> QED BY <2>2, BeginsComplete
<1>3. ASSUME NEW s, Emit(t, s) PROVE Complete'
  <2>1. PICK g : g = Call("emit", "lockOne", s, Nobody, <<"sig", "all">>)
    OBVIOUS
  <2>2. MayCall(t) /\ g.at = "lockOne" /\ g.op = "emit" /\ Push(t, g) /\ UNCHANGED connVars
    BY <1>3, <2>1, CallFields DEF Emit
  <2> QED BY <2>2, BeginsComplete
<1>4. ASSUME NEW o \in Objects, Destroy(t, o) PROVE Complete'
  <2>1. PICK g : g = Call("destroy", "destroyed", o, Nobody, <<"all", "sig">>)
    OBVIOUS
  <2>2. MayCall(t) /\ g.op = "destroy" /\ Push(t, g) /\ UNCHANGED connVars
    BY <1>4, <2>1, CallFields DEF Destroy
  <2> QED BY <2>2, BeginsComplete
<1> QED BY <1>1, <1>2, <1>3, <1>4 DEF Calls

LEMMA WaitsComplete ==
  ASSUME VInv, IInv', Complete, NEW t \in Threads, LockLower(t) \/ Relock(t) \/ RelockOther(t)
  PROVE  Complete'
<1>1. PICK f : f = Top(t)
  OBVIOUS
<1>0. OnlyBreaks /\ UNCHANGED <<lists, vector>>
  <2>1. UNCHANGED connVars
    BY DEF LockLower, Relock, RelockOther
  <2> QED BY <2>1, NothingBroken DEF VInv, connVars
<1>2. CASE LockLower(t)
  <2>1. PICK g : g = [f EXCEPT !.at = "lockUpper"]
    OBVIOUS
  <2>2. stack[t] # <<>> /\ f.op \in {"connect", "disconnect"} /\ f.at = "lock" /\ Put(t, g)
    BY <1>1, <1>2, <2>1 DEF LockLower, At
  <2>3. f \in FrameT
    BY <1>1, <2>2, TopIs DEF VInv
  <2>4. g.op = f.op /\ g.obj = f.obj
    BY <2>1, <2>3 DEF FrameT
  <2> QED BY <1>0, <1>1, <2>2, <2>4, OtherGoesOn
<1>3. CASE Relock(t)
  <2>1. PICK g : g = [f EXCEPT !.relock = "other", !.mutex = MutexOf[Other(f)], !.from = Other(f)]
    OBVIOUS
  <2>2. stack[t] # <<>> /\ Put(t, g) /\ f.at \in {"disconnecting", "receivers", "senders"}
    BY <1>1, <1>3, <2>1 DEF Relock, Meets
  <2>3. f \in FrameT /\ f.op # "emit"
    BY <1>1, <2>2, TopIs DEF VInv, Sane, Placed
  <2>4. g.op = f.op /\ g.obj = f.obj /\ g.at = f.at
    BY <2>1, <2>3 DEF FrameT
  <2> QED BY <1>0, <1>1, <2>2, <2>3, <2>4, OtherGoesOn
<1>4. CASE RelockOther(t)
  <2>1. PICK g : g = [f EXCEPT !.relock = "own"]
    OBVIOUS
  <2>2. stack[t] # <<>> /\ Put(t, g) /\ f.relock = "other"
    BY <1>1, <1>4, <2>1 DEF RelockOther
  <2>3. f \in FrameT /\ f.op # "emit"
    BY <1>1, <2>2, TopIs DEF VInv, Sane, Relocks, Placed
  <2>4. g.op = f.op /\ g.obj = f.obj /\ g.at = f.at
    BY <2>1, <2>3 DEF FrameT
  <2> QED BY <1>0, <1>1, <2>2, <2>3, <2>4, OtherGoesOn
<1> QED BY <1>2, <1>3, <1>4

LEMMA DisconnectsComplete ==
  ASSUME VInv, IInv', Complete, NEW t \in Threads,
         \/ DisconnectBoth(t) \/ DisconnectBegins(t) \/ DisconnectSkips(t)
         \/ DisconnectOther(t) \/ DisconnectList(t)
  PROVE  Complete'
<1>1. PICK f : f = Top(t)
  OBVIOUS
<1>2. CASE DisconnectBoth(t)
  <2>1. PICK cs : cs = {c \in 1..made : /\ \E l \in Members(f.walk) : c \in Members(lists[f.obj][l])
                                       /\ conns[c].receiver = f.peer}
    OBVIOUS
  <2>2. /\ stack[t] # <<>> /\ f.op = "disconnect" /\ Pop(t)
        /\ conns' = [c \in Conns |->
                       IF c \in cs THEN [conns[c] EXCEPT !.receiver = Nobody] ELSE conns[c]]
        /\ UNCHANGED <<made, lists, vector>>
    BY <1>1, <1>2, <2>1 DEF DisconnectBoth, At
  <2>3. OnlyBreaks
    <3>1. made \in Nat /\ \A c \in 1..made : c \in Conns /\ conns[c] \in ConnT
      BY SignalSlotAssumption DEF Conns, VInv, IInv, DataTyped
    <3> QED BY <3>1, <2>2 DEF OnlyBreaks, ConnT
  <2> QED BY <1>1, <2>2, <2>3, ReturnsComplete
<1>3. CASE DisconnectBegins(t)
  <2>1. PICK g : g = [Begin(f, f.walk) EXCEPT !.at = "disconnecting"]
    OBVIOUS
  <2>2. /\ stack[t] # <<>> /\ f.op = "disconnect" /\ UNCHANGED <<made, conns, lists, vector>>
        /\ Pop(t) \/ Put(t, g)
    BY <1>1, <1>3, <2>1 DEF DisconnectBegins, At
  <2>3. f \in FrameT
    BY <1>1, <2>2, TopIs DEF VInv
  <2>4. g.op = f.op /\ g.obj = f.obj
    BY <2>1, <2>3, BeginFields
  <2>5. OnlyBreaks
    BY <2>2, NothingBroken DEF VInv
  <2> QED BY <1>1, <2>2, <2>4, <2>5, OtherGoesOn, ReturnsComplete
<1>4. CASE DisconnectSkips(t)
  <2>1. PICK g : g = [f EXCEPT !.conn = Following(lists[f.obj][Head(f.walk)], @)]
    OBVIOUS
  <2>2. stack[t] # <<>> /\ f.op = "disconnect" /\ UNCHANGED connVars /\ Put(t, g)
    BY <1>1, <1>4, <2>1 DEF DisconnectSkips, At
  <2>3. f \in FrameT
    BY <1>1, <2>2, TopIs DEF VInv
  <2>4. g.op = f.op /\ g.obj = f.obj
    BY <2>1, <2>3 DEF FrameT
  <2>5. OnlyBreaks
    BY <2>2, NothingBroken DEF VInv, connVars
  <2> QED BY <1>1, <2>2, <2>4, <2>5, OtherGoesOn DEF connVars
<1>5. CASE DisconnectOther(t)
  <2>1. PICK g : g = [f EXCEPT !.conn = Following(lists[f.obj][Head(f.walk)], @),
                               !.seen = @ \cup {f.conn}, !.relock = "no"]
    OBVIOUS
  <2>2. /\ stack[t] # <<>> /\ f.at = "disconnecting" /\ UNCHANGED <<made, lists, vector>>
        /\ conns' = [conns EXCEPT ![f.conn].receiver = Nobody] /\ Put(t, g)
    BY <1>1, <1>5, <2>1 DEF DisconnectOther, WithOther
  <2>3. f \in FrameT /\ f.op \in {"disconnect"}
    BY <1>1, <2>2, TopIs DEF VInv, Sane, Placed, FrameT, Ops
  <2>4. g.op = f.op /\ g.obj = f.obj
    BY <2>1, <2>3 DEF FrameT
  <2>5. OnlyBreaks
    BY <2>2, OneBroken DEF VInv
  <2> QED BY <1>1, <2>2, <2>3, <2>4, <2>5, OtherGoesOn
<1>6. CASE DisconnectList(t)
  <2>1. PICK g : g = Begin(f, Tail(f.walk))
    OBVIOUS
  <2>2. /\ stack[t] # <<>> /\ f.op = "disconnect" /\ UNCHANGED <<made, conns, lists, vector>>
        /\ Put(t, g)
    BY <1>1, <1>6, <2>1 DEF DisconnectList, At
  <2>3. f \in FrameT
    BY <1>1, <2>2, TopIs DEF VInv
  <2>4. g.op = f.op /\ g.obj = f.obj
    BY <2>1, <2>3, BeginFields
  <2>5. OnlyBreaks
    BY <2>2, NothingBroken DEF VInv
  <2> QED BY <1>1, <2>2, <2>4, <2>5, OtherGoesOn
<1> QED BY <1>2, <1>3, <1>4, <1>5, <1>6

LEMMA DestroyBeginsComplete ==
  ASSUME VInv, IInv', Complete, NEW t \in Threads, DestroyBegins(t) PROVE Complete'
<1>1. PICK f : f = Top(t)
  OBVIOUS
<1>2. PICK g : g = Told(f)
  OBVIOUS
<1>3. At(t, "destroy", "destroyed") /\ UNCHANGED connVars
  BY DEF DestroyBegins
<1>4. /\ stack[t] # <<>> /\ f \in FrameT /\ f.op = "destroy" /\ f.at = "destroyed"
  BY <1>1, <1>3, DestroyIs DEF VInv
<1>5. g \in FrameT /\ g.op = "destroy"
  BY <1>2, <1>4 DEF FrameT, Points, Told
<1>6. Moves(t, Len(stack[t]), {f}, {g})
  <2>1. PICK s \in Seq(FrameT) :
          /\ Len(s) = Len(stack[t]) /\ s[Len(s)] = g /\ stack' = [stack EXCEPT ![t] = s]
          /\ \A i \in 1..(Len(s) - 1) : Alike(stack[t][i], s[i])
    BY <1>1, <1>2, <1>5, ToldStack DEF VInv
  <2> QED BY <2>1, <1>1, <1>4, <1>5, TopMoves DEF VInv
<1>7. OnlyBreaks
  BY <1>3, NothingBroken DEF VInv, connVars
<1>8. CompleteAt(g)'
  BY <1>5 DEF CompleteAt, Emitting
<1> QED BY <1>3, <1>4, <1>6, <1>7, <1>8, QuietComplete DEF connVars, Ending, Leaving

LEMMA DestructorsComplete ==
  ASSUME VInv, IInv', Complete, NEW t \in Threads,
         DestroyLocks(t) \/ DestroyList(t) \/ DestroySender(t) \/ DestroyUnlocks(t)
  PROVE  Complete'
<1>1. PICK f : f = Top(t)
  OBVIOUS
<1>2. /\ stack[t] # <<>> /\ f.at \in After /\ UNCHANGED <<made, lists, vector>>
      /\ f.at \in Ending \/ f.op = "destroy"
  BY <1>1 DEF DestroyLocks, DestroyList, connVars,
     DestroySender, DestroyUnlocks, WithOther, At, After, Ending, Leaving
<1>3. f \in FrameT
  BY <1>1, <1>2, TopIs DEF VInv
<1>4. ASSUME NEW g, Put(t, g), g.op = f.op, g.obj = f.obj, g.at \in Ending, OnlyBreaks
      PROVE  Complete'
  <2>1. f.op # "emit"
    BY <1>1, <1>2, TopIs DEF VInv, Sane, Placed, Ending, Leaving
  <2> QED BY <1>1, <1>2, <1>4, <2>1, OtherGoesOn
<1>5. CASE DestroyLocks(t)
  <2>1. PICK g : g = [Begin(f, f.walk) EXCEPT !.at = "receivers"]
    OBVIOUS
  <2>2. PICK h : h = [f EXCEPT !.at = "senders"]
    OBVIOUS
  <2>3. PICK k : k = [f EXCEPT !.at = "free"]
    OBVIOUS
  <2>4. (Put(t, g) \/ Put(t, h) \/ Put(t, k)) /\ UNCHANGED conns
    BY <1>1, <1>5, <2>1, <2>2, <2>3 DEF DestroyLocks
  <2>5. g.op = f.op /\ g.obj = f.obj /\ g.at \in Ending
    BY <1>3, <2>1, BeginFields DEF Ending
  <2>6. /\ h.op = f.op /\ h.obj = f.obj /\ h.at \in Ending
        /\ k.op = f.op /\ k.obj = f.obj /\ k.at \in Ending
    BY <1>3, <2>2, <2>3 DEF Ending, Leaving, FrameT
  <2>7. OnlyBreaks
    BY <1>2, <2>4, NothingBroken DEF VInv
  <2> QED BY <1>4, <2>4, <2>5, <2>6, <2>7
<1>6. CASE DestroyList(t)
  <2>1. PICK g : g = Begin(f, Tail(f.walk))
    OBVIOUS
  <2>2. Put(t, g) /\ g.op = f.op /\ g.obj = f.obj /\ g.at = "receivers" /\ UNCHANGED conns
    BY <1>1, <1>3, <1>6, <2>1, BeginFields DEF DestroyList, At, connVars
  <2>3. OnlyBreaks
    BY <1>2, <2>2, NothingBroken DEF VInv
  <2> QED BY <1>4, <2>2, <2>3 DEF Ending
<1>7. CASE DestroySender(t)
  <2>1. PICK g : g = [f EXCEPT !.relock = "no"]
    OBVIOUS
  <2>2. PICK h : h = [f EXCEPT !.relock = "no", !.seen = @ \cup {Current(f)}]
    OBVIOUS
  <2>3. /\ f.at = "senders" /\ (Put(t, g) \/ Put(t, h))
        /\ conns' = conns \/ conns' = [conns EXCEPT ![Current(f)].receiver = Nobody]
    BY <1>1, <1>7, <2>1, <2>2 DEF DestroySender, WithOther
  <2>4. g.op = f.op /\ g.obj = f.obj /\ g.at = f.at /\ h.op = f.op /\ h.obj = f.obj /\ h.at = f.at
    BY <1>3, <2>1, <2>2 DEF FrameT
  <2>5. OnlyBreaks
    BY <1>2, <2>3, NothingBroken, OneBroken DEF VInv
  <2> QED BY <1>4, <2>3, <2>4, <2>5 DEF Ending, Leaving
<1>8. CASE DestroyUnlocks(t)
  <2>1. PICK g : g = [f EXCEPT !.at = "free"]
    OBVIOUS
  <2>2. Put(t, g) /\ UNCHANGED conns
    BY <1>1, <1>8, <2>1 DEF DestroyUnlocks, connVars
  <2>3. g.op = f.op /\ g.obj = f.obj /\ g.at = "free"
    BY <1>3, <2>1 DEF FrameT
  <2>4. OnlyBreaks
    BY <1>2, <2>2, NothingBroken DEF VInv
  <2> QED BY <1>4, <2>2, <2>3, <2>4 DEF Ending, Leaving
<1> QED BY <1>5, <1>6, <1>7, <1>8

-----------------------------------------------------------------------------
(* The steps of an emission.                                               *)

\* The emission in the foreground, in a list.
LEMMA EmissionIs ==
  ASSUME VInv, Complete, NEW t \in Threads, NEW point, At(t, "emit", point), point # "lockOne",
         NEW f, f = Top(t), f.walk # <<>>
  PROVE  /\ Emitting(f) /\ CompleteAt(f) /\ f \in FrameT /\ f.at = point /\ f.op = "emit"
         /\ stack[t] # <<>>
         /\ vector[f.obj] \in {"used", "orphaned"} /\ (point # "called" => vector[f.obj] = "used")
         /\ point \in {"unlocked", "posted", "called"} => f.conn # NoConn
<1>1. stack[t] # <<>> /\ f \in FrameT /\ f.op = "emit" /\ f.at = point /\ Sane(t, f)
  BY EmitIs DEF VInv
<1>2. f \in Frames(t)
  BY <1>1, TopIs DEF VInv
<1>3. CompleteAt(f) /\ FrameOk(f) /\ Emitting(f)
  BY <1>1, <1>2 DEF Complete, VInv, Vectors, Emitting
<1>4. UsesVector(f)
  BY <1>1 DEF Sane, Placed, UsesVector
<1> QED BY <1>1, <1>3, <1>4 DEF CompleteAt, FrameOk, Sane, Placed

\* A call that stands where another one does.
LEMMA SameVisit ==
  ASSUME NEW f, NEW g, Visiting(f), g.obj = f.obj, g.walk = f.walk, g.conn = f.conn,
         g.last = f.last, g.upTo = f.upTo, g.seen = f.seen
  PROVE  Visiting(g)
BY DEF Visiting, Walked

\* The walk goes on.
LEMMA AdvanceComplete ==
  ASSUME VInv, IInv', Complete, NEW t \in Threads, stack[t] # <<>>, NEW f, f = Top(t), f.op = "emit",
         f.walk # <<>>, vector[f.obj] = "used", NEW h \in {f, Visited(f)}, f \in FrameT,
         ~Past(f.obj, Ending) =>
           Visiting(h) /\ (h.conn \in h.seen \/ conns[h.conn].receiver = Nobody),
         f.conn # NoConn, Moves(t, Len(stack[t]), {f}, {Advance(h)}),
         UNCHANGED <<made, conns, lists, vector>>
  PROVE  Complete'
<1>1. h \in FrameT /\ h.walk # <<>> /\ h.conn # NoConn /\ h.obj = f.obj /\ h.op = "emit"
  BY VisitedIs
<1>2. PICK g : g = Advance(h)
  OBVIOUS
<1>3. g \in FrameT /\ g.obj = f.obj
  BY <1>1, <1>2, AdvanceIs DEF VInv
<1>4. ~Past(f.obj, Ending) => Done(g)
  BY <1>1, <1>2, AdvanceDone DEF VInv
<1>5. CompleteAt(g)
  BY <1>3, <1>4 DEF CompleteAt
<1> QED BY <1>2, <1>3, <1>5, EmissionGoesOn

LEMMA EmitSkipsComplete ==
  ASSUME VInv, IInv', Complete, NEW t \in Threads, EmitSkips(t) PROVE Complete'
<1>1. PICK f : f = Top(t)
  OBVIOUS
<1>2. PICK g : g = Advance(f)
  OBVIOUS
<1>3. /\ At(t, "emit", "walk") /\ f.conn # NoConn /\ Put(t, g) /\ UNCHANGED connVars
      /\ Activation(t, f) = "none"
  BY <1>1, <1>2 DEF EmitSkips, Visits
<1>4. f \in FrameT /\ f.walk # <<>> /\ stack[t] # <<>> /\ f.op = "emit" /\ Sane(t, f)
  BY <1>1, <1>3, EmitIs DEF VInv, Sane, Placed
<1>5. CompleteAt(f) /\ Emitting(f) /\ vector[f.obj] = "used"
  BY <1>1, <1>3, <1>4, EmissionIs
<1>6. conns[f.conn].receiver = Nobody
  <2>1. conns[f.conn] \in ConnT
    BY <1>3, <1>4, ConnIs DEF VInv
  <2> QED BY <1>3, <2>1, SignalSlotAssumption DEF Activation, Receiver, ConnT, AllKinds
<1>7. Moves(t, Len(stack[t]), {f}, {g})
  <2>1. g \in FrameT
    BY <1>2, <1>4, AdvanceIs DEF VInv
  <2> QED BY <2>1, <1>1, <1>3, <1>4, PutMoves DEF VInv
<1>8. ~Past(f.obj, Ending) => Visiting(f)
  BY <1>5 DEF CompleteAt, Done
<1> QED BY <1>1, <1>2, <1>3, <1>4, <1>5, <1>6, <1>7, <1>8, AdvanceComplete DEF connVars

LEMMA EmitQueuedComplete ==
  ASSUME VInv, IInv', Complete, NEW t \in Threads, EmitQueued(t) PROVE Complete'
<1>1. PICK f : f = Top(t)
  OBVIOUS
<1>2. PICK h : h = Visited(f)
  OBVIOUS
<1>3. PICK g : g = Advance(h)
  OBVIOUS
<1>4. At(t, "emit", "walk") /\ f.conn # NoConn /\ Put(t, g) /\ UNCHANGED connVars
  BY <1>1, <1>2, <1>3 DEF EmitQueued, Visits
<1>5. f \in FrameT /\ f.walk # <<>> /\ stack[t] # <<>> /\ f.op = "emit"
  BY <1>1, <1>4, EmitIs DEF VInv, Sane, Placed
<1>6. CompleteAt(f) /\ Emitting(f) /\ vector[f.obj] = "used"
  BY <1>1, <1>4, <1>5, EmissionIs
<1>7. Moves(t, Len(stack[t]), {f}, {g})
  <2>1. h \in FrameT /\ h.walk # <<>>
    BY <1>2, <1>5, VisitedIs
  <2>2. g \in FrameT
    BY <2>1, <1>3, AdvanceIs DEF VInv
  <2> QED BY <2>2, <1>1, <1>4, <1>5, PutMoves DEF VInv
<1>8. ~Past(f.obj, Ending) => Visiting(h) /\ h.conn \in h.seen
  BY <1>2, <1>4, <1>5, <1>6, VisitedVisiting DEF CompleteAt, Done, VInv
<1> QED BY <1>1, <1>2, <1>3, <1>4, <1>5, <1>6, <1>7, <1>8, AdvanceComplete DEF connVars

\* It stops to activate a connection, without the mutex.
LEMMA StopComplete ==
  ASSUME VInv, IInv', Complete, NEW t \in Threads, NEW f, f = Top(t), Visits(t), NEW g,
         g.op = f.op, g.obj = f.obj, g.walk = f.walk, g.conn = f.conn, g.last = f.last,
         g.upTo = f.upTo, g.seen = f.seen \cup {f.conn}, g.at \notin {"walk", "lockOne"},
         Put(t, g), UNCHANGED <<made, conns, lists, vector>>
  PROVE  Complete'
<1>1. At(t, "emit", "walk") /\ f.conn # NoConn
  BY DEF Visits
<1>2. f \in FrameT /\ f.walk # <<>> /\ stack[t] # <<>> /\ f.op = "emit"
  BY <1>1, EmitIs DEF VInv, Sane, Placed
<1>3. CompleteAt(f) /\ Emitting(f) /\ vector[f.obj] = "used"
  BY <1>1, <1>2, EmissionIs
<1>4. PICK h : h = Visited(f)
  OBVIOUS
<1>5. /\ h.obj = f.obj /\ h.walk = f.walk /\ h.conn = f.conn /\ h.last = f.last /\ h.upTo = f.upTo
      /\ h.seen = f.seen \cup {f.conn}
  BY <1>2, <1>4 DEF Visited, FrameT
<1>6. ~Past(f.obj, Ending) => Visiting(h)
  BY <1>1, <1>2, <1>3, <1>4, VisitedVisiting DEF CompleteAt, Done, VInv
<1>7. ~Past(f.obj, Ending) => Done(g)
  BY <1>5, <1>6, SameVisit DEF Done
<1>8. CompleteAt(g)
  BY <1>3, <1>7 DEF CompleteAt
<1>9. g \in FrameT
  BY <1>2, PutTyped DEF VInv
<1>10. Moves(t, Len(stack[t]), {f}, {g})
  BY <1>2, <1>9, PutMoves DEF VInv
<1> QED BY <1>2, <1>8, <1>9, <1>10, EmissionGoesOn

LEMMA EmitBlockingComplete ==
  ASSUME VInv, IInv', Complete, NEW t \in Threads, EmitBlocking(t) PROVE Complete'
<1>1. PICK f : f = Top(t)
  OBVIOUS
<1>2. PICK g : g = [Visited(f) EXCEPT !.at = "unlocked", !.peer = Receiver(f)]
  OBVIOUS
<1>3. Visits(t) /\ Put(t, g) /\ UNCHANGED connVars
  BY <1>1, <1>2 DEF EmitBlocking
<1>4. f \in FrameT
  BY <1>1, <1>3, EmitIs DEF VInv, Visits
<1>5. /\ g.op = f.op /\ g.obj = f.obj /\ g.walk = f.walk /\ g.conn = f.conn /\ g.last = f.last
      /\ g.upTo = f.upTo /\ g.seen = f.seen \cup {f.conn} /\ g.at = "unlocked"
  BY <1>2, <1>4 DEF Visited, FrameT
<1> QED BY <1>1, <1>3, <1>5, StopComplete DEF connVars

LEMMA EmitDirectComplete ==
  ASSUME VInv, IInv', Complete, NEW t \in Threads, EmitDirect(t) PROVE Complete'
<1>1. PICK f : f = Top(t)
  OBVIOUS
<1>2. PICK p : p = currentSender[Receiver(f)]
  OBVIOUS
<1>3. PICK g : g = [Visited(f) EXCEPT !.at = "called", !.peer = Receiver(f), !.ref = 1, !.prev = p]
  OBVIOUS
<1>4. Visits(t) /\ Put(t, g) /\ UNCHANGED connVars
  BY <1>1, <1>2, <1>3 DEF EmitDirect
<1>5. f \in FrameT
  BY <1>1, <1>4, EmitIs DEF VInv, Visits
<1>6. /\ g.op = f.op /\ g.obj = f.obj /\ g.walk = f.walk /\ g.conn = f.conn /\ g.last = f.last
      /\ g.upTo = f.upTo /\ g.seen = f.seen \cup {f.conn} /\ g.at = "called"
  BY <1>3, <1>5 DEF Visited, FrameT
<1> QED BY <1>1, <1>4, <1>6, StopComplete DEF connVars

LEMMA BlockingPostsComplete ==
  ASSUME VInv, IInv', Complete, NEW t \in Threads, BlockingPosts(t) PROVE Complete'
<1>1. PICK f : f = Top(t)
  OBVIOUS
<1>2. PICK g : g = [f EXCEPT !.at = "posted"]
  OBVIOUS
<1>3. At(t, "emit", "unlocked") /\ Put(t, g) /\ UNCHANGED connVars
  BY <1>1, <1>2 DEF BlockingPosts
<1>4. f \in FrameT /\ f.walk # <<>> /\ stack[t] # <<>> /\ f.op = "emit" /\ f.at = "unlocked"
  BY <1>1, <1>3, EmitIs DEF VInv, Sane, Placed
<1>5. CompleteAt(f) /\ Emitting(f) /\ vector[f.obj] = "used"
  BY <1>1, <1>3, <1>4, EmissionIs
<1>6. /\ g \in FrameT /\ g.obj = f.obj /\ g.walk = f.walk /\ g.conn = f.conn /\ g.last = f.last
      /\ g.upTo = f.upTo /\ g.seen = f.seen /\ g.at = "posted"
  BY <1>2, <1>4 DEF FrameT, Points
<1>7. ~Past(f.obj, Ending) => Done(g)
  BY <1>4, <1>5, <1>6, SameVisit DEF CompleteAt, Done
<1>8. CompleteAt(g)
  BY <1>5, <1>6, <1>7 DEF CompleteAt
<1>9. Moves(t, Len(stack[t]), {f}, {g})
  BY <1>1, <1>3, <1>4, <1>6, PutMoves DEF VInv
<1> QED BY <1>1, <1>3, <1>4, <1>6, <1>8, <1>9, EmissionGoesOn DEF connVars

LEMMA BlockingReturnsComplete ==
  ASSUME VInv, IInv', Complete, NEW t \in Threads, BlockingReturns(t) PROVE Complete'
<1>1. PICK f : f = Top(t)
  OBVIOUS
<1>2. PICK g : g = Advance(f)
  OBVIOUS
<1>3. At(t, "emit", "posted") /\ Put(t, g) /\ UNCHANGED connVars
  BY <1>1, <1>2 DEF BlockingReturns
<1>4. /\ f \in FrameT /\ f.walk # <<>> /\ stack[t] # <<>> /\ f.op = "emit" /\ f.at = "posted"
      /\ f.conn # NoConn
  BY <1>1, <1>3, EmitIs DEF VInv, Sane, Placed
<1>5. CompleteAt(f) /\ Emitting(f) /\ vector[f.obj] = "used"
  BY <1>1, <1>3, <1>4, EmissionIs
<1>6. Moves(t, Len(stack[t]), {f}, {g})
  <2>1. g \in FrameT
    BY <1>2, <1>4, AdvanceIs DEF VInv
  <2> QED BY <2>1, <1>1, <1>3, <1>4, PutMoves DEF VInv
<1>7. ~Past(f.obj, Ending) => Visiting(f) /\ f.conn \in f.seen
  BY <1>4, <1>5 DEF CompleteAt, Done
<1> QED BY <1>1, <1>2, <1>3, <1>4, <1>5, <1>6, <1>7, AdvanceComplete DEF connVars

LEMMA SlotReturnsComplete ==
  ASSUME VInv, IInv', Complete, NEW t \in Threads, SlotReturns(t) PROVE Complete'
<1>1. PICK f : f = Top(t)
  OBVIOUS
<1>2. PICK g : g = Returned(f)
  OBVIOUS
<1>3. At(t, "emit", "called") /\ UNCHANGED connVars
  BY DEF SlotReturns
<1>4. /\ stack[t] # <<>> /\ f \in FrameT /\ f.op = "emit" /\ f.at = "called" /\ f.walk # <<>>
      /\ f.conn # NoConn
  BY <1>1, <1>3, EmitIs DEF VInv, Sane, Placed
<1>5. CompleteAt(f) /\ Emitting(f) /\ vector[f.obj] \in {"used", "orphaned"}
  BY <1>1, <1>3, <1>4, EmissionIs
<1>6. g \in FrameT /\ g.op = "emit" /\ (Orphaned(f) => g.walk = <<>>)
  <2>1. CASE Orphaned(f)
    <3>1. NoConn \in 0..MaxConns /\ <<>> \in Seq(Lists)
      BY SignalSlotAssumption, EmptySeq DEF NoConn
    <3>2. g = [f EXCEPT !.at = "walk", !.conn = NoConn, !.walk = <<>>]
      BY <2>1, <1>2 DEF Returned
    <3> QED BY <3>1, <3>2, <1>4 DEF FrameT, Points
  <2>2. CASE ~Orphaned(f)
    BY <2>2, <1>2, <1>4, AdvanceIs DEF VInv, Returned
  <2> QED BY <2>1, <2>2
<1>7. Moves(t, Len(stack[t]), {f}, {g})
  <2>1. PICK s \in Seq(FrameT) :
          /\ Len(s) = Len(stack[t]) /\ s[Len(s)] = g /\ stack' = [stack EXCEPT ![t] = s]
          /\ \A i \in 1..(Len(s) - 1) : Alike(stack[t][i], s[i])
    BY <1>1, <1>2, <1>6, SlotStack DEF VInv
  <2> QED BY <2>1, <1>1, <1>4, <1>6, TopMoves DEF VInv
<1>8. CASE Orphaned(f)
  <2>1. CompleteAt(g)
    BY <1>6, <1>8 DEF CompleteAt, Emitting
  <2> QED BY <2>1, <1>1, <1>3, <1>4, <1>6, <1>7, EmissionGoesOn DEF connVars
<1>9. CASE ~Orphaned(f)
  <2>1. g = Advance(f) /\ vector[f.obj] = "used"
    BY <1>2, <1>5, <1>9 DEF Returned, Orphaned
  <2>2. ~Past(f.obj, Ending) => Visiting(f) /\ f.conn \in f.seen
    BY <2>1, <1>4, <1>5 DEF CompleteAt, Done
  <2> QED BY <2>1, <2>2, <1>1, <1>3, <1>4, <1>7, AdvanceComplete DEF connVars
<1> QED BY <1>8, <1>9

LEMMA EmitListComplete ==
  ASSUME VInv, IInv', Complete, NEW t \in Threads, EmitList(t) PROVE Complete'
<1>1. PICK f : f = Top(t)
  OBVIOUS
<1>2. PICK w : w = Tail(f.walk)
  OBVIOUS
<1>3. PICK g : g = Begin(f, w)
  OBVIOUS
<1>4. At(t, "emit", "walk") /\ f.walk # <<>> /\ Put(t, g) /\ UNCHANGED connVars
  BY <1>1, <1>2, <1>3 DEF EmitList
<1>5. f \in FrameT /\ stack[t] # <<>> /\ f.op = "emit" /\ f.at = "walk" /\ f.walk \in Seq(Lists)
  BY <1>1, <1>4, EmitIs DEF VInv
<1>6. vector[f.obj] = "used" /\ w \in Seq(Lists)
  BY <1>1, <1>2, <1>4, <1>5, EmissionIs, HeadTailProperties
<1>7. /\ g \in FrameT /\ g.obj = f.obj /\ g.at = "walk" /\ g.walk = w /\ g.seen = {}
      /\ g.conn = First(Walked(g))
  BY <1>3, <1>5, <1>6, BegunIs, BeginFields DEF VInv, IInv
<1>8. g.last = Last(Walked(g)) /\ g.upTo = made
  <2>1. g.last = Last(IF w = <<>> THEN <<>> ELSE lists[f.obj][Head(w)]) /\ g.upTo = made
    BY <1>3, <1>5 DEF Begin, FrameT
  <2> QED BY <2>1, <1>7 DEF Walked
<1>9. CompleteAt(g)
  <2>1. w # <<>> => Done(g)
    BY <1>5, <1>6, <1>7, <1>8, BegunDone DEF VInv
  <2> QED BY <2>1, <1>6, <1>7 DEF CompleteAt, Emitting
<1>10. Moves(t, Len(stack[t]), {f}, {g})
  BY <1>1, <1>4, <1>5, <1>7, PutMoves DEF VInv
<1> QED BY <1>1, <1>4, <1>5, <1>7, <1>9, <1>10, EmissionGoesOn DEF connVars

LEMMA EmitBeginsComplete ==
  ASSUME VInv, IInv', Complete, NEW t \in Threads, EmitBegins(t) PROVE Complete'
<1>1. PICK f : f = Top(t)
  OBVIOUS
<1>2. At(t, "emit", "lockOne") /\ UNCHANGED <<made, conns, lists, vector>>
  BY <1>1 DEF EmitBegins
<1>3. /\ stack[t] # <<>> /\ f \in FrameT /\ f.op = "emit" /\ f.at = "lockOne"
      /\ f.walk \in Seq(Lists) /\ f.obj \in Objects /\ f \in Frames(t)
  BY <1>1, <1>2, EmitIs, TopIs DEF VInv
<1>4. CASE vector[f.obj] = "none"
  <2>1. Pop(t) /\ OnlyBreaks
    BY <1>1, <1>2, <1>4, NothingBroken DEF EmitBegins, VInv
  <2> QED BY <2>1, <1>1, <1>2, <1>3, ReturnsComplete
<1>5. CASE vector[f.obj] # "none"
  <2>1. PICK h : h = Begin(f, f.walk)
    OBVIOUS
  <2>2. PICK g : g = [h EXCEPT !.at = "walk", !.began = made]
    OBVIOUS
  <2>3. Put(t, g)
    BY <1>1, <1>5, <2>1, <2>2 DEF EmitBegins
  <2>4. /\ h \in FrameT /\ h.obj = f.obj /\ h.walk = f.walk /\ h.seen = {} /\ h.conn = First(Walked(h))
    BY <1>3, <2>1, BegunIs, BeginFields DEF VInv, IInv
  <2>5. h.last = Last(Walked(h)) /\ h.upTo = made
    <3>1. h.last = Last(IF f.walk = <<>> THEN <<>> ELSE lists[f.obj][Head(f.walk)]) /\ h.upTo = made
      BY <1>3, <2>1 DEF Begin, FrameT
    <3> QED BY <3>1, <2>4 DEF Walked
  <2>6. /\ g \in FrameT /\ g.obj = f.obj /\ g.at = "walk" /\ g.walk = f.walk /\ g.seen = {}
        /\ g.conn = h.conn /\ g.last = h.last /\ g.upTo = h.upTo
    <3>1. made \in 0..MaxConns
      BY DEF VInv, IInv, DataTyped
    <3> QED BY <3>1, <2>2, <2>4 DEF FrameT, Points
  <2>7. Walked(g) = Walked(h)
    BY <2>4, <2>6 DEF Walked
  <2>8. f.walk # <<>> => Done(g)
    BY <1>3, <2>4, <2>5, <2>6, <2>7, BegunDone DEF VInv
  <2>9. vector[f.obj] = "used"
    <3>1. object[f.obj] # "gone"
      BY <1>3 DEF VInv, Vectors, FrameOk
    <3>2. vector[f.obj] \in {"none", "used"}
      BY <3>1, <1>1, <1>3, Kept DEF Needs, Leaving
    <3> QED BY <3>2, <1>5
  <2>10. CompleteAt(g)
    BY <2>6, <2>8, <2>9 DEF CompleteAt, Emitting
  <2>11. Moves(t, Len(stack[t]), {f}, {g})
    BY <1>1, <1>3, <2>3, <2>6, PutMoves DEF VInv
  <2> QED BY <1>1, <1>2, <1>3, <2>6, <2>10, <2>11, EmissionGoesOn
<1> QED BY <1>4, <1>5

-----------------------------------------------------------------------------
(* Steps that take connections out of lists, and vectors that end.         *)

\* An emission that waits.
LEMMA RestEmission ==
  ASSUME VInv, IInv', Complete, NEW t \in Threads, NEW n, NEW old, NEW new, Moves(t, n, old, new),
         NEW f \in Rest(t, n), Emitting(f)
  PROVE  /\ f \in FrameT /\ f.obj \in Objects /\ CompleteAt(f) /\ UserOf(f, f.obj)
         /\ vector[f.obj] \in {"used", "orphaned"} /\ inUse[f.obj] # 0
         /\ (\E g \in old : UserOf(g, f.obj)) => inUse[f.obj] - 1 # 0
<1>1. CallsTyped /\ CallsTyped' /\ Vectors
  BY DEF VInv, IInv
<1>2. PICK u \in Threads : f \in Frames(u)
  BY <1>1, RestIs
<1>3. /\ f \in FrameT /\ f.obj \in Objects /\ Sane(u, f) /\ CompleteAt(f) /\ FrameOk(f)
  BY <1>1, <1>2, FrameConn DEF VInv, Complete, Vectors
<1>4. UserOf(f, f.obj)
  BY <1>3 DEF Emitting, Sane, Placed, UsesVector, UserOf
<1> QED BY <1>1, <1>3, <1>4, RestCounts DEF FrameOk, UserOf

LEMMA FreedBreaks ==
  ASSUME IInv, made' = made, NEW F, conns' = WithFreed(conns, F)
  PROVE  OnlyBreaks
<1>1. made \in Nat /\ \A d \in 1..made : d \in Conns /\ conns[d] \in ConnT
  BY SignalSlotAssumption DEF Conns, IInv, DataTyped
<1> QED BY <1>1 DEF OnlyBreaks, WithFreed, ConnT

\* A call that leaves its vector: it cleans the lists only if it is the last one.
LEMMA LeavesComplete ==
  ASSUME VInv, IInv', Complete, NEW t \in Threads, stack[t] # <<>>, NEW f, f = Top(t),
         UsesVector(f), f.op # "destroy", Pop(t), Unuse(f.obj), OnlyBreaks,
         \A o \in Objects : o # f.obj => lists'[o] = lists[o],
         inUse[f.obj] - 1 # 0 => Grown(f.obj)
  PROVE  Complete'
<1>1. CallsTyped /\ CallsTyped' /\ Vectors
  BY DEF VInv, IInv
<1>2. PICK old : old = {f}
  OBVIOUS
<1>3. Moves(t, Len(stack[t]), old, {})
  BY <1>2, PopMoves DEF VInv
<1>4. \A o : Past(o, Ending) => Past(o, Ending)'
  <2>1. ASSUME NEW o, Past(o, Ending) PROVE Past(o, Ending)'
    BY <1>1, <1>2, <1>3, <2>1, PastKept
  <2> QED BY <2>1
<1>5. f.obj \in Objects
  BY TopIs DEF VInv, FrameT
<1>6. \A o \in Objects : vector[o] = "used" <=> vector'[o] = "used"
  BY <1>5 DEF Unuse, VInv, IInv, DataTyped
<1>7. ASSUME NEW h \in Rest(t, Len(stack[t])), Emitting(h)
      PROVE  /\ h.at # "called" => vector'[h.obj] = "used"
             /\ vector'[h.obj] = "used" /\ ~Past(h.obj, Ending)' =>
                  vector[h.obj] = "used" /\ ~Past(h.obj, Ending) /\ Grown(h.obj)
  <2>1. /\ h.obj \in Objects /\ CompleteAt(h)
        /\ (\E g \in old : UserOf(g, h.obj)) => inUse[h.obj] - 1 # 0
    BY <1>3, <1>7, RestEmission
  <2>2. Grown(h.obj)
    <3>1. CASE h.obj = f.obj
      BY <3>1, <2>1, <1>2 DEF UserOf
    <3>2. CASE h.obj # f.obj
      BY <3>2, <2>1 DEF Grown
    <3> QED BY <3>1, <3>2
  <2> QED BY <2>1, <2>2, <1>4, <1>6, <1>7 DEF CompleteAt
<1> QED BY <1>3, <1>7, RestComplete

LEMMA EmitEndsComplete ==
  ASSUME VInv, IInv', Complete, NEW t \in Threads, EmitEnds(t) PROVE Complete'
<1>1. PICK f : f = Top(t)
  OBVIOUS
<1>2. PICK F : F = IF Orphaned(f) THEN {} ELSE Broken(f.obj, inUse[f.obj] - 1)
  OBVIOUS
<1>3. /\ At(t, "emit", "walk") /\ Unuse(f.obj) /\ Pop(t) /\ conns' = WithFreed(conns, F)
      /\ lists' = [lists EXCEPT ![f.obj] = Without(@, F)] /\ made' = made
  BY <1>1, <1>2 DEF EmitEnds
<1>4. stack[t] # <<>> /\ f.op = "emit" /\ UsesVector(f) /\ f.obj \in Objects
  BY <1>1, <1>3, EmitIs DEF VInv, UsesVector
<1>5. OnlyBreaks
  BY <1>3, FreedBreaks DEF VInv
<1>6. lists \in [Objects -> [Lists -> Seq(Conns)]]
  BY DEF VInv, IInv, DataTyped
<1>7. \A o \in Objects : o # f.obj => lists'[o] = lists[o]
  BY <1>3, <1>6
<1>8. ASSUME inUse[f.obj] - 1 # 0 PROVE Grown(f.obj)
  <2>1. F = {}
    BY <1>2, <1>8 DEF Broken, MayClean
  <2>2. \A l \in Lists : lists'[f.obj][l] = Minus(lists[f.obj][l], F)
    BY <1>3, <1>4, <1>6 DEF Without
  <2>3. ASSUME NEW l \in Lists PROVE Members(lists'[f.obj][l]) = Members(lists[f.obj][l])
    <3>1. lists[f.obj][l] \in Seq(Conns)
      BY <1>4, <1>6
    <3>2. Members(Minus(lists[f.obj][l], F)) = Members(lists[f.obj][l]) \ F
      BY <3>1, MinusIs
    <3> QED BY <3>2, <2>1, <2>2
  <2> QED BY <2>3 DEF Grown
<1> QED BY <1>1, <1>3, <1>4, <1>5, <1>7, <1>8, LeavesComplete

LEMMA DisconnectEndsComplete ==
  ASSUME VInv, IInv', Complete, NEW t \in Threads, DisconnectEnds(t) PROVE Complete'
<1>1. PICK f : f = Top(t)
  OBVIOUS
<1>2. /\ At(t, "disconnect", "disconnecting") /\ Unuse(f.obj) /\ Pop(t)
      /\ UNCHANGED <<made, conns, lists>>
  BY <1>1 DEF DisconnectEnds
<1>3. stack[t] # <<>> /\ f.op = "disconnect" /\ UsesVector(f)
  BY <1>1, <1>2 DEF At, UsesVector
<1>4. OnlyBreaks
  BY <1>2, NothingBroken DEF VInv
<1>5. Grown(f.obj)
  BY <1>2 DEF Grown
<1> QED BY <1>1, <1>2, <1>3, <1>4, <1>5, LeavesComplete

\* A connection is put behind all those that emissions visit; the lists of an object with an
\* emission are not cleaned.
LEMMA ConnectBothComplete ==
  ASSUME VInv, IInv', Complete, NEW t \in Threads, ConnectBoth(t) PROVE Complete'
<1>1. PICK f : f = Top(t)
  OBVIOUS
<1>2. At(t, "connect", "lockUpper") /\ Pop(t)
  BY <1>1 DEF ConnectBoth
<1>3. stack[t] # <<>> /\ f.op = "connect" /\ f.at = "lockUpper"
  BY <1>1, <1>2 DEF At
<1>4. f \in FrameT /\ f.obj \in Objects /\ object[f.obj] # "gone" /\ Head(f.walk) \in Lists
  <2>1. f \in FrameT /\ Sane(t, f)
    BY <1>1, <1>3, TopIs DEF VInv
  <2>2. f.walk \in Seq(Lists) /\ f.walk # <<>>
    BY <2>1, <1>3 DEF FrameT, Sane, Placed
  <2>3. Head(f.walk) \in Lists
    BY <2>2, HeadTailProperties
  <2> QED BY <2>1, <2>3, <1>3 DEF FrameT, Sane, Connects
<1>5. CASE UNCHANGED <<made, conns, lists, vector, dirty, senders>>
  <2>1. OnlyBreaks
    BY <1>5, NothingBroken DEF VInv
  <2> QED BY <2>1, <1>1, <1>2, <1>3, <1>5, ReturnsComplete
<1>6. CASE ~UNCHANGED <<made, conns, lists, vector, dirty, senders>>
  <2>1. PICK c, F, l : c = made + 1 /\ F = Broken(f.obj, inUse[f.obj]) /\ l = Head(f.walk)
    OBVIOUS
  <2>2. /\ \E new : conns' = [WithFreed(conns, F) EXCEPT ![c] = new]
        /\ lists' = [lists EXCEPT ![f.obj] = [Without(lists[f.obj], F) EXCEPT ![l] = Append(@, c)]]
        /\ vector' = [vector EXCEPT ![f.obj] = "used"] /\ made' = c
    BY <1>1, <1>6, <2>1 DEF ConnectBoth
  <2>3. CallsTyped /\ CallsTyped' /\ Vectors
    BY DEF VInv, IInv
  <2>4. Moves(t, Len(stack[t]), {f}, {})
    BY <1>1, <1>2, <1>3, PopMoves DEF VInv
  <2>5. \A o : Past(o, Ending) => Past(o, Ending)'
    <3>1. ASSUME NEW o, Past(o, Ending) PROVE Past(o, Ending)'
      BY <1>3, <2>3, <2>4, <3>1, PastKept
    <3> QED BY <3>1
  <2>6. made \in Nat /\ made' \in 0..MaxConns /\ c \in Conns
    <3>1. made \in 0..MaxConns /\ made' \in 0..MaxConns
      BY DEF VInv, IInv, DataTyped
    <3> QED BY <3>1, <2>1, <2>2, SignalSlotAssumption DEF Conns
  <2>7. OnlyBreaks
    <3>1. ASSUME NEW d \in 1..made PROVE conns'[d].receiver = conns[d].receiver
      <4>1. d \in Conns /\ d # c /\ conns[d] \in ConnT
        BY <2>1, SignalSlotAssumption DEF Conns, VInv, IInv, DataTyped
      <4>2. conns'[d] = [conns[d] EXCEPT !.freed = @ \/ d \in F]
        BY <4>1, <2>2 DEF WithFreed
      <4> QED BY <4>1, <4>2 DEF ConnT
    <3>2. made <= made'
      BY <2>1, <2>2, <2>6
    <3> QED BY <3>1, <3>2 DEF OnlyBreaks
  <2>8. vector[f.obj] \in {"none", "used"}
    BY <1>1, <1>3, <1>4, Kept DEF Needs, Leaving
  <2>9. lists \in [Objects -> [Lists -> Seq(Conns)]] /\ vector'[f.obj] = "used"
        /\ \A o \in Objects : o # f.obj => lists'[o] = lists[o] /\ vector'[o] = vector[o]
    BY <1>4, <2>2 DEF VInv, IInv, DataTyped
  <2>10. ASSUME F = {} PROVE Grown(f.obj)
    <3>1. ASSUME NEW k \in Lists
          PROVE  Members(lists'[f.obj][k]) \in
                   {Members(lists[f.obj][k]), Members(lists[f.obj][k]) \cup {c}}
      <4>1. PICK q : q = Minus(lists[f.obj][k], F)
        OBVIOUS
      <4>2. q \in Seq(Conns) /\ Members(q) = Members(lists[f.obj][k]) \ F
        <5>1. lists[f.obj][k] \in Seq(Conns)
          BY <1>4, <2>9
        <5> QED BY <5>1, <4>1, MinusIs
      <4>3. lists'[f.obj][k] = IF k = l THEN Append(q, c) ELSE q
        BY <1>4, <2>2, <2>9, <4>1, <3>1 DEF Without
      <4>4. Members(Append(q, c)) = Members(q) \cup {c}
        BY <2>6, <4>2, LongerIs
      <4> QED BY <2>10, <4>2, <4>3, <4>4
    <3>2. made < c
      BY <2>1, <2>6
    <3> QED BY <3>1, <3>2 DEF Grown
  <2>11. ASSUME NEW h \in Rest(t, Len(stack[t])), Emitting(h)
         PROVE  /\ h.at # "called" => vector'[h.obj] = "used"
                /\ vector'[h.obj] = "used" /\ ~Past(h.obj, Ending)' =>
                     vector[h.obj] = "used" /\ ~Past(h.obj, Ending) /\ Grown(h.obj)
    <3>1. /\ h.obj \in Objects /\ CompleteAt(h) /\ vector[h.obj] \in {"used", "orphaned"}
          /\ inUse[h.obj] # 0
      BY <2>4, <2>11, RestEmission
    <3>2. Grown(h.obj) /\ (h.obj = f.obj => vector[h.obj] = "used")
      <4>1. CASE h.obj = f.obj
        <5>1. F = {}
          BY <4>1, <3>1, <2>1 DEF Broken, MayClean
        <5> QED BY <5>1, <4>1, <3>1, <2>8, <2>10
      <4>2. CASE h.obj # f.obj
        BY <4>2, <3>1, <2>9 DEF Grown
      <4> QED BY <4>1, <4>2
    <3> QED BY <3>1, <3>2, <2>5, <2>9, <2>11 DEF CompleteAt
  <2> QED BY <2>4, <2>7, <2>11, RestComplete
<1> QED BY <1>5, <1>6

\* ~QObject takes its lists apart.
LEMMA DeleteComplete ==
  ASSUME VInv, IInv', Complete, NEW t \in Threads, stack[t] # <<>>, NEW f, f = Top(t),
         f.op = "destroy", f.at = "receivers", DeleteFirst(t, f), UNCHANGED <<made, vector>>
  PROVE  Complete'
<1>1. f \in FrameT /\ f.obj \in Objects
  BY TopIs DEF VInv, FrameT
<1>2. PICK g : Put(t, g) /\ \E c : g = [f EXCEPT !.conn = c, !.relock = "no"]
  BY DEF DeleteFirst
<1>3. g.op = "destroy" /\ g.obj = f.obj /\ g.at = "receivers"
  BY <1>1, <1>2 DEF FrameT
<1>4. CallsTyped /\ CallsTyped'
  BY DEF VInv, IInv
<1>5. Moves(t, Len(stack[t]), {f}, {g})
  BY <1>2, PutTyped, PutMoves DEF VInv
<1>6. \A o : Past(o, Ending) => Past(o, Ending)'
  <2>1. ASSUME NEW o, Past(o, Ending) PROVE Past(o, Ending)'
    BY <1>3, <1>4, <1>5, <2>1, PastKept
  <2> QED BY <2>1
<1>7. Past(f.obj, Ending)'
  BY <1>3, <1>4, <1>5, PastNow DEF Ending
<1>8. \A o \in Objects : o # f.obj => lists'[o] = lists[o]
  BY <1>1 DEF DeleteFirst, VInv, IInv, DataTyped
<1>9. OnlyBreaks
  <2>1. made \in Nat /\ conns \in [Conns -> ConnT] /\ \A d \in 1..made : d \in Conns
    BY SignalSlotAssumption DEF Conns, VInv, IInv, DataTyped
  <2>2. PICK c : conns' = [conns EXCEPT ![c].freed = TRUE, ![c].receiver = Nobody]
    BY DEF DeleteFirst
  <2>3. ASSUME NEW d \in 1..made PROVE conns'[d].receiver \in {conns[d].receiver, Nobody}
    <3>1. CASE d = c
      BY <3>1, <2>1, <2>2 DEF ConnT
    <3>2. CASE d # c
      BY <3>2, <2>1, <2>2
    <3> QED BY <3>1, <3>2
  <2> QED BY <2>1, <2>3 DEF OnlyBreaks
<1>10. ASSUME NEW h \in Rest(t, Len(stack[t])), Emitting(h)
       PROVE  /\ h.at # "called" => vector'[h.obj] = "used"
              /\ vector'[h.obj] = "used" /\ ~Past(h.obj, Ending)' =>
                   vector[h.obj] = "used" /\ ~Past(h.obj, Ending) /\ Grown(h.obj)
  <2>1. h.obj \in Objects /\ CompleteAt(h)
    BY <1>5, <1>10, RestEmission
  <2>2. h.obj # f.obj => Grown(h.obj)
    BY <2>1, <1>8 DEF Grown
  <2> QED BY <2>1, <2>2, <1>6, <1>7, <1>10 DEF CompleteAt
<1>11. CompleteAt(g)'
  BY <1>3 DEF CompleteAt, Emitting
<1> QED BY <1>5, <1>9, <1>10, <1>11, RestComplete

\* It gives the vector up while the emissions that use it call slots.
LEMMA DestroyVectorComplete ==
  ASSUME VInv, IInv', Complete, NEW t \in Threads, DestroyVector(t) PROVE Complete'
<1>1. PICK f : f = Top(t)
  OBVIOUS
<1>2. PICK g : g = [f EXCEPT !.at = "senders"]
  OBVIOUS
<1>3. /\ At(t, "destroy", "receivers") /\ Put(t, g) /\ UNCHANGED <<made, conns, lists>>
      /\ vector' = [vector EXCEPT ![f.obj] = IF inUse[f.obj] - 1 = 0 THEN "deleted" ELSE "orphaned"]
  BY <1>1, <1>2 DEF DestroyVector
<1>4. stack[t] # <<>> /\ f \in FrameT /\ f.op = "destroy" /\ f.at = "receivers" /\ f.obj \in Objects
  BY <1>1, <1>3, DestroyIs DEF VInv
<1>5. g.op = "destroy" /\ g.obj = f.obj /\ g.at = "senders"
  BY <1>2, <1>4 DEF FrameT
<1>6. CallsTyped /\ CallsTyped'
  BY DEF VInv, IInv
<1>7. Moves(t, Len(stack[t]), {f}, {g})
  BY <1>1, <1>3, <1>4, PutTyped, PutMoves DEF VInv
<1>8. \A o : Past(o, Ending) => Past(o, Ending)'
  <2>1. ASSUME NEW o, Past(o, Ending) PROVE Past(o, Ending)'
    BY <1>5, <1>6, <1>7, <2>1, PastKept DEF Ending, Leaving
  <2> QED BY <2>1
<1>9. /\ vector'[f.obj] # "used"
      /\ \A o \in Objects : o # f.obj => vector'[o] = vector[o]
  BY <1>3, <1>4 DEF VInv, IInv, DataTyped
<1>10. OnlyBreaks
  BY <1>3, NothingBroken DEF VInv
<1>11. ASSUME NEW h \in Rest(t, Len(stack[t])), Emitting(h)
       PROVE  /\ h.at # "called" => vector'[h.obj] = "used"
              /\ vector'[h.obj] = "used" /\ ~Past(h.obj, Ending)' =>
                   vector[h.obj] = "used" /\ ~Past(h.obj, Ending) /\ Grown(h.obj)
  <2>1. h.obj \in Objects /\ CompleteAt(h)
    BY <1>7, <1>11, RestEmission
  <2>2. h.obj = f.obj => h.at = "called"
    <3>1. PICK u \in Threads : h \in Frames(u) /\ (u = t => h.at \in Pausing)
      BY <1>4, RestWaits DEF VInv
    <3>2. ASSUME h.obj = f.obj PROVE u = t
      <4>1. Alone(t, Top(t)) /\ Needs(h, f.obj)
        BY <1>4, <3>2, TopIs DEF VInv, Needs
      <4> QED BY <4>1, <1>1, <1>4, <3>1 DEF Alone
    <3>3. Sane(u, h)
      BY <3>1, FrameConn DEF VInv
    <3> QED BY <3>1, <3>2, <3>3, <1>11 DEF Emitting, Sane, Placed, Pausing
  <2>3. Grown(h.obj)
    BY <1>3 DEF Grown
  <2> QED BY <2>1, <2>2, <2>3, <1>8, <1>9, <1>11 DEF CompleteAt
<1>12. CompleteAt(g)'
  BY <1>5 DEF CompleteAt, Emitting
<1> QED BY <1>7, <1>10, <1>11, <1>12, RestComplete

LEMMA DestroyEndsComplete ==
  ASSUME VInv, IInv', Complete, NEW t \in Threads, DestroyEnds(t) PROVE Complete'
<1>1. PICK f : f = Top(t)
  OBVIOUS
<1>2. At(t, "destroy", "free") /\ Pop(t) /\ UNCHANGED connVars
  BY <1>1 DEF DestroyEnds
<1>3. stack[t] # <<>> /\ f.op = "destroy" /\ f.at = "free" /\ vector[f.obj] # "used"
  BY <1>1, <1>2, DestroyIs DEF VInv, Destroys
<1>4. CallsTyped /\ CallsTyped'
  BY DEF VInv, IInv
<1>5. Moves(t, Len(stack[t]), {f}, {})
  BY <1>1, <1>2, <1>3, PopMoves DEF VInv
<1>6. \A o : o # f.obj /\ Past(o, Ending) => Past(o, Ending)'
  <2>1. ASSUME NEW o, o # f.obj, Past(o, Ending) PROVE Past(o, Ending)'
    BY <1>4, <1>5, <2>1, PastKept
  <2> QED BY <2>1
<1>7. OnlyBreaks /\ UNCHANGED <<lists, vector>>
  BY <1>2, NothingBroken DEF VInv, connVars
<1>8. ASSUME NEW h \in Rest(t, Len(stack[t])), Emitting(h)
      PROVE  /\ h.at # "called" => vector'[h.obj] = "used"
             /\ vector'[h.obj] = "used" /\ ~Past(h.obj, Ending)' =>
                  vector[h.obj] = "used" /\ ~Past(h.obj, Ending) /\ Grown(h.obj)
  <2>1. CompleteAt(h)
    BY <1>5, <1>8, RestEmission
  <2>2. Grown(h.obj)
    BY <1>7 DEF Grown
  <2> QED BY <2>1, <2>2, <1>3, <1>6, <1>7, <1>8 DEF CompleteAt
<1> QED BY <1>5, <1>7, <1>8, RestComplete

-----------------------------------------------------------------------------
(* Emissions visit every connection that stands and was there.             *)

LEMMA DeletesComplete ==
  ASSUME VInv, IInv', Complete, NEW t \in Threads, DestroyBroken(t) \/ DestroyReceiver(t)
  PROVE  Complete'
<1>1. PICK f : f = Top(t)
  OBVIOUS
<1>2. DeleteFirst(t, f) /\ UNCHANGED <<made, vector>>
  BY <1>1 DEF DestroyBroken, DestroyReceiver
<1>3. stack[t] # <<>> /\ f.op = "destroy" /\ f.at = "receivers"
  <2>1. CASE DestroyBroken(t)
    BY <2>1, <1>1 DEF DestroyBroken, At
  <2>2. CASE DestroyReceiver(t)
    BY <2>2, <1>1, WithOtherIs DEF VInv, DestroyReceiver
  <2> QED BY <2>1, <2>2
<1> QED BY <1>1, <1>2, <1>3, DeleteComplete

LEMMA StepsComplete == ASSUME VInv, IInv', Complete, NEW t \in Threads, Steps(t) PROVE Complete'
<1>1. CASE LockLower(t) \/ Relock(t) \/ RelockOther(t)
  BY <1>1, WaitsComplete
<1>2. CASE \/ DisconnectBoth(t) \/ DisconnectBegins(t) \/ DisconnectSkips(t)
           \/ DisconnectOther(t) \/ DisconnectList(t)
  BY <1>2, DisconnectsComplete
<1>3. CASE ConnectBoth(t) \/ DisconnectEnds(t) \/ EmitEnds(t)
  BY <1>3, ConnectBothComplete, DisconnectEndsComplete, EmitEndsComplete
<1>4. CASE \/ EmitBegins(t) \/ EmitSkips(t) \/ EmitQueued(t) \/ EmitBlocking(t)
           \/ BlockingPosts(t) \/ BlockingReturns(t) \/ EmitDirect(t) \/ SlotReturns(t)
           \/ EmitList(t)
  BY <1>4, EmitBeginsComplete, EmitSkipsComplete, EmitQueuedComplete, EmitBlockingComplete,
     BlockingPostsComplete, BlockingReturnsComplete, EmitDirectComplete, SlotReturnsComplete,
     EmitListComplete
<1>5. CASE DestroyBegins(t)
  BY <1>5, DestroyBeginsComplete
<1>6. CASE DestroyLocks(t) \/ DestroyList(t) \/ DestroySender(t) \/ DestroyUnlocks(t)
  BY <1>6, DestructorsComplete
<1>7. CASE DestroyBroken(t) \/ DestroyReceiver(t)
  BY <1>7, DeletesComplete
<1>8. CASE DestroyVector(t) \/ DestroyEnds(t)
  BY <1>8, DestroyVectorComplete, DestroyEndsComplete
<1> QED BY <1>1, <1>2, <1>3, <1>4, <1>5, <1>6, <1>7, <1>8 DEF Steps

LEMMA InitComplete == ASSUME Init PROVE Complete
<1>1. \A t \in Threads : stack[t] = <<>>
  BY DEF Init
<1>2. \A t \in Threads : Frames(t) = {}
  BY <1>1 DEF Frames, Members
<1> QED BY <1>2 DEF Complete

LEMMA StutterComplete == ASSUME Complete, UNCHANGED vars PROVE Complete'
<1>1. /\ made' = made /\ conns' = conns /\ lists' = lists /\ vector' = vector /\ stack' = stack
  BY DEF vars, connVars
<1>2. \A f : Visiting(f)' <=> Visiting(f)
  BY <1>1 DEF Visiting, Walked
<1>3. \A o : Past(o, Ending)' <=> Past(o, Ending)
  BY <1>1 DEF Past, Frames
<1>4. \A f : CompleteAt(f)' <=> CompleteAt(f)
  BY <1>1, <1>2, <1>3 DEF CompleteAt, Done, Emitting
<1>5. \A t : Frames(t)' = Frames(t)
  BY <1>1 DEF Frames
<1> QED BY <1>4, <1>5 DEF Complete

LEMMA NextKeepsComplete == ASSUME VInv, Complete, [Next]_vars PROVE Complete'
<1>1. IInv'
  BY NextKeeps DEF VInv
<1> QED BY <1>1, StutterComplete, CallsComplete, StepsComplete DEF Next

LEMMA EmissionsAre == ASSUME VInv, Complete PROVE EmissionComplete
<1> SUFFICES ASSUME NEW t \in Threads, At(t, "emit", "walk"), Top(t).walk # <<>>
             PROVE  LET f == Top(t)
                        behind == {c \in Members(lists[f.obj][Head(f.walk)]) :
                                     c <= f.upTo /\ (f.conn = NoConn \/ c < f.conn)}
                    IN  /\ f.conn \in 0..f.upTo \ f.seen
                        /\ \A c \in behind : conns[c].receiver # Nobody => c \in f.seen
  BY DEF EmissionComplete
<1>1. PICK f : f = Top(t)
  OBVIOUS
<1>2. /\ CompleteAt(f) /\ Emitting(f) /\ vector[f.obj] = "used" /\ f \in FrameT /\ f.at = "walk"
      /\ f.op = "emit" /\ stack[t] # <<>>
  BY <1>1, EmissionIs
<1>3. ~Past(f.obj, Ending)
  BY <1>1, <1>2, NotPast DEF VInv, Needs
<1>4. Done(f)
  BY <1>2, <1>3 DEF CompleteAt
<1>5. Walked(f) = lists[f.obj][Head(f.walk)]
  BY <1>1, <1>2, WalkedIs DEF VInv
<1>6. f.conn \in Nat /\ f.last \in Nat /\ f.upTo \in Nat
  BY <1>2, NumbersAre DEF VInv
<1>7. f.conn \in 0..f.upTo
  <2>1. f.last <= f.upTo /\ (f.conn # NoConn => f.conn <= f.last)
    BY <1>4 DEF Done, Visiting
  <2> QED BY <2>1, <1>6 DEF NoConn
<1>8. f.conn \notin f.seen
  BY <1>2, <1>4 DEF Done
<1>9. \A c \in Members(Walked(f)) : c <= f.upTo /\ (f.conn = NoConn \/ c < f.conn) =>
         conns[c].receiver = Nobody \/ c \in f.seen
  BY <1>4 DEF Done, Visiting
<1> QED BY <1>1, <1>5, <1>7, <1>8, <1>9

\* Whatever its slots and other threads connect and disconnect meanwhile, an emission visits,
\* once each and in order, the connections of a list that were there when it began with the
\* list and that nobody has broken by then (QMetaObject::activate, qobject.cpp:2799).
THEOREM EmissionsVisitAll == Spec => []EmissionComplete
<1>1. Init => VInv /\ Complete
  BY InitKeeps, InitVectors, InitComplete DEF VInv
<1>2. VInv /\ Complete /\ [Next]_vars => (VInv /\ Complete)'
  BY NextKeepsVectors, NextKeepsComplete
<1>3. VInv /\ Complete => EmissionComplete
  BY EmissionsAre
<1> QED BY <1>1, <1>2, <1>3, PTL DEF Spec
===============================================================================
