------------------------ MODULE PostEventListProofs -------------------------
(***************************************************************************)
(* Theorems about PostEventList, for any number of objects, events,        *)
(* priorities and nested calls.                                            *)
(*                                                                         *)
(* First come lists: what inserting an entry, nulling some and erasing     *)
(* some does to the events of a list and their order.  Then the invariant  *)
(* of the list, kept by each operation on it; then the stack of calls in   *)
(* progress, whose steps are of four kinds; then every action of Next, by  *)
(* those two; then what a thread may rely on when it goes to sleep, where  *)
(* handlers only run loops; and the theorems.                              *)
(***************************************************************************)
EXTENDS PostEventList, FiniteSetTheorems, SequenceTheorems, TLAPS

-----------------------------------------------------------------------------
(* What the invariants say of one list.                                    *)

\* The events of a list, and those for one object.
Live(l) == {l[k].event : k \in DOMAIN l} \ {NullEvent}
LiveFor(l, r) == {l[k].event : k \in {j \in DOMAIN l : l[j].event # NullEvent /\ l[j].rcv = r}}

Once(l) ==
  \A j, k \in DOMAIN l : l[j].event = l[k].event /\ l[j].event # NullEvent => j = k

InOrder(l) ==
  \A j, k \in DOMAIN l :
    /\ j < k /\ l[j].priority = l[k].priority
    /\ NullEvent \notin {l[j].event, l[k].event}
    /\ Deleting \notin {l[j].type, l[k].type}
    => l[j].event < l[k].event

\* The part of the list into which qUpperBound inserts is sorted.
Descends(l, from) ==
  \A j, k \in DOMAIN l : from < j /\ j < k => l[j].priority >= l[k].priority

\* m is l with e put in at place i, which is behind from and after what comes before e.
Inserted(m, l, i, e) ==
  /\ m \in Seq(Entries) /\ Len(m) = Len(l) + 1
  /\ \A k \in 1..(Len(l) + 1) :
       m[k] = IF k < i THEN l[k] ELSE IF k = i THEN e ELSE l[k - 1]
Fits(l, from, i, e) ==
  /\ i \in 1..(Len(l) + 1)
  /\ i = Len(l) + 1 \/ i > from
  /\ \A k \in DOMAIN l : k > from =>
       IF k < i THEN l[k].priority >= e.priority ELSE l[k].priority < e.priority

\* m is what is left of l without the entries in gone: f says where the entries of m were, in
\* the same order and shift places on or more; some of them are nulled.
Thins(m, l, f, gone, shift) ==
  /\ m \in Seq(Entries)
  /\ \A k \in DOMAIN m :
       /\ f[k] \in DOMAIN l /\ f[k] >= k + shift
       /\ \/ m[k] = l[f[k]] /\ f[k] \notin gone
          \/ m[k] = NullEntry(l[f[k]])
  /\ \A j, k \in DOMAIN m : j < k => f[j] < f[k]
  /\ \A k \in DOMAIN l \ gone : l[k].event # NullEvent => \E j \in DOMAIN m : m[j] = l[k]

-----------------------------------------------------------------------------
(* Entries and lists.                                                      *)

\* The fields of an entry.
LEMMA EntryIs ==
  ASSUME NEW e \in Entries
  PROVE  /\ e.event \in Nat /\ e.event \in 0..MaxEvents /\ e.rcv \in Receivers \cup {NoReceiver}
         /\ e.type \in Types \cup {AnyType} /\ e.priority \in Int /\ e.level \in Nat
         /\ e.by \in 0..MaxEvents
<1>1. /\ e.event \in 0..MaxEvents /\ e.rcv \in Receivers \cup {NoReceiver}
      /\ e.type \in Types \cup {AnyType} /\ e.priority \in Priorities \cup {0} /\ e.level \in Nat
      /\ e.by \in 0..MaxEvents
  BY DEF Entries
<1>2. MaxEvents \in Nat /\ \A p \in Priorities \cup {0} : p \in Int
  BY PostEventListAssumption
<1> QED BY <1>1, <1>2

\* The null entry left in the place of an entry.
LEMMA NullIs ==
  ASSUME NEW e \in Entries
  PROVE  /\ NullEntry(e) \in Entries
         /\ NullEntry(e).event = NullEvent /\ NullEntry(e).priority = e.priority
         /\ NullEntry(e).by = NullEvent
  BY PostEventListAssumption DEF NullEntry, NoEntry, Entries, NullEvent, AnyType

\* A list of entries, place by place.
LEMMA ListIs ==
  ASSUME NEW l \in Seq(Entries)
  PROVE  /\ Len(l) \in Nat /\ DOMAIN l = 1..Len(l)
         /\ \A k \in DOMAIN l : l[k] \in Entries
  BY LenProperties

\* InsertAt, place by place.
LEMMA InsertKept ==
  ASSUME NEW q \in Seq(Entries), NEW i \in 1..(Len(q) + 1), NEW e \in Entries
  PROVE  Inserted(InsertAt(q, i, e), q, i, e)
<1> DEFINE a == SubSeq(q, 1, i - 1)
           b == SubSeq(q, i, Len(q))
<1>0. Len(q) \in Nat /\ DOMAIN q = 1..Len(q) /\ i \in Int /\ \A k \in 1..Len(q) : q[k] \in Entries
  BY LenProperties
<1> HIDE DEF a, b
<1>1. a \in Seq(Entries) /\ Len(a) = i - 1 /\ \A k \in 1..(i - 1) : a[k] = q[k]
  <2>1. \A k \in 1..(i - 1) : q[k] \in Entries
    BY <1>0
  <2>2. i - 1 \in Int
    BY <1>0
  <2>3. /\ SubSeq(q, 1, i - 1) \in Seq(Entries)
        /\ Len(SubSeq(q, 1, i - 1)) = IF 1 <= i - 1 THEN i - 1 - 1 + 1 ELSE 0
        /\ \A k \in 1..(i - 1 - 1 + 1) : SubSeq(q, 1, i - 1)[k] = q[1 + k - 1]
    BY <2>1, <2>2, SubSeqProperties
  <2> QED BY <2>3, <1>0 DEF a
<1>2. b \in Seq(Entries) /\ Len(b) = Len(q) + 1 - i /\ \A k \in 1..Len(b) : b[k] = q[i + k - 1]
  <2>1. \A k \in i..Len(q) : q[k] \in Entries
    BY <1>0
  <2>3. /\ SubSeq(q, i, Len(q)) \in Seq(Entries)
        /\ Len(SubSeq(q, i, Len(q))) = IF i <= Len(q) THEN Len(q) - i + 1 ELSE 0
        /\ \A k \in 1..(Len(q) - i + 1) : SubSeq(q, i, Len(q))[k] = q[i + k - 1]
    BY <2>1, <1>0, SubSeqProperties
  <2> QED BY <2>3, <1>0 DEF b
<1>3. <<e>> \in Seq(Entries) /\ Len(<<e>>) = 1 /\ <<e>>[1] = e
  OBVIOUS
<1> DEFINE c == a \o <<e>>
<1> HIDE DEF c
<1>4. c \in Seq(Entries) /\ Len(c) = i /\ \A k \in 1..i : c[k] = IF k <= i - 1 THEN a[k] ELSE e
  <2>1. /\ a \o <<e>> \in Seq(Entries) /\ Len(a \o <<e>>) = Len(a) + Len(<<e>>)
        /\ \A k \in 1..(Len(a) + Len(<<e>>)) :
             (a \o <<e>>)[k] = IF k <= Len(a) THEN a[k] ELSE <<e>>[k - Len(a)]
    BY <1>1, <1>3, ConcatProperties
  <2> QED BY <2>1, <1>1, <1>3, <1>0 DEF c
<1>5. /\ c \o b \in Seq(Entries) /\ Len(c \o b) = i + Len(b)
      /\ \A k \in 1..(i + Len(b)) : (c \o b)[k] = IF k <= i THEN c[k] ELSE b[k - i]
  BY <1>4, <1>2, ConcatProperties
<1>6. InsertAt(q, i, e) = c \o b
  BY DEF InsertAt, a, b, c
<1>7. ASSUME NEW k \in 1..(Len(q) + 1)
      PROVE  (c \o b)[k] = IF k < i THEN q[k] ELSE IF k = i THEN e ELSE q[k - 1]
  <2>1. CASE k <= i
    BY <2>1, <1>0, <1>1, <1>2, <1>4, <1>5
  <2>2. CASE k > i
    <3>1. k - i \in 1..Len(b) /\ k \in 1..(i + Len(b))
      BY <2>2, <1>0, <1>2
    <3>2. b[k - i] = q[i + (k - i) - 1]
      BY <3>1, <1>2
    <3>3. (c \o b)[k] = b[k - i]
      BY <3>1, <2>2, <1>0, <1>5
    <3>4. i + (k - i) - 1 = k - 1
      BY <1>0
    <3> QED BY <3>2, <3>3, <3>4, <2>2, <1>0
  <2>3. k <= i \/ k > i
    BY <1>0
  <2> QED BY <2>1, <2>2, <2>3
<1>8. i + Len(b) = Len(q) + 1
  BY <1>0, <1>2
<1> QED BY <1>5, <1>6, <1>7, <1>8 DEF Inserted

\* Append, as an insertion at the end.
LEMMA AppendKept ==
  ASSUME NEW q \in Seq(Entries), NEW e \in Entries
  PROVE  Inserted(Append(q, e), q, Len(q) + 1, e)
<1>1. /\ Append(q, e) \in Seq(Entries) /\ Len(Append(q, e)) = Len(q) + 1
      /\ \A k \in 1..Len(q) : Append(q, e)[k] = q[k]
      /\ Append(q, e)[Len(q) + 1] = e
  BY AppendProperties
<1>2. Len(q) \in Nat
  BY LenProperties
<1> QED BY <1>1, <1>2 DEF Inserted

\* addEvent puts the entry behind those that come before it, in the part that is sorted.
LEMMA AddedAt ==
  ASSUME NEW l \in Seq(Entries), NEW e \in Entries,
         insertionOffset \in Nat, Descends(l, insertionOffset)
  PROVE  \E i : Inserted(AddEvent(l, e), l, i, e) /\ Fits(l, insertionOffset, i, e)
<1> DEFINE io == insertionOffset
           n == Len(l)
           H == {k \in (io + 1)..n : l[k].priority >= e.priority}
           at == UpperBound(l, insertionOffset, e.priority)
<1>0. n \in Nat /\ DOMAIN l = 1..n /\ e.priority \in Int /\ \A k \in 1..n : l[k].priority \in Int
  BY ListIs, EntryIs
<1>i. io \in Int /\ io + 1 \in Int /\ n \in Int
  BY <1>0
<1>1. IsFiniteSet(H) /\ Cardinality(H) \in Nat /\ at = io + Cardinality(H)
  <2>1. IsFiniteSet((io + 1)..n)
    BY <1>i, FS_Interval
  <2> QED BY <2>1, FS_Subset, FS_CardinalityType DEF UpperBound
<1>2. ASSUME NEW k \in 1..n, k > io, l[k].priority >= e.priority PROVE k <= at
  <2>1. (io + 1)..k \subseteq H
    <3> SUFFICES ASSUME NEW j \in (io + 1)..k PROVE j \in H
      OBVIOUS
    <3>1. j \in 1..n /\ j \in (io + 1)..n
      BY <1>0, <1>2
    <3>2. l[j].priority >= l[k].priority
      BY <1>0, <1>2, <3>1 DEF Descends
    <3> QED BY <3>1, <3>2, <1>0, <1>2
  <2>2. Cardinality((io + 1)..k) = k - io
    <3>1. k \in Int /\ ~(io + 1 > k)
      BY <1>i, <1>2
    <3> QED BY <3>1, <1>i, FS_Interval
  <2>3. Cardinality((io + 1)..k) <= Cardinality(H)
    BY <2>1, <1>1, FS_Subset
  <2> QED BY <2>2, <2>3, <1>0, <1>1, <1>2
<1>3. ASSUME NEW k \in 1..n, k > io, l[k].priority < e.priority PROVE at < k
  <2>1. H \subseteq (io + 1)..(k - 1)
    <3> SUFFICES ASSUME NEW j \in H PROVE j \in (io + 1)..(k - 1)
      OBVIOUS
    <3>1. j \in 1..n
      BY <1>0
    <3>2. ASSUME j >= k PROVE FALSE
      <4>1. j = k \/ l[k].priority >= l[j].priority
        BY <1>0, <1>3, <3>1, <3>2 DEF Descends
      <4> QED BY <4>1, <1>0, <1>3, <3>1
    <3> QED BY <3>1, <3>2, <1>0, <1>3
  <2>2. IsFiniteSet((io + 1)..(k - 1)) /\ Cardinality((io + 1)..(k - 1)) = k - 1 - io
    <3> DEFINE a == io + 1
               b == k - 1
    <3>1. a \in Int /\ b \in Int /\ (a > b => b = io) /\ b - a + 1 = k - 1 - io /\ k \in Int
      BY <1>i, <1>3
    <3> HIDE DEF a, b
    <3>2. IsFiniteSet(a..b) /\ Cardinality(a..b) = IF a > b THEN 0 ELSE b - a + 1
      BY <3>1, FS_Interval
    <3>3. Cardinality(a..b) = k - 1 - io
      <4>1. a > b => k - 1 - io = 0
        BY <3>1, <1>i DEF b
      <4> QED BY <4>1, <3>1, <3>2
    <3> QED BY <3>2, <3>3 DEF a, b
  <2>3. Cardinality(H) <= Cardinality((io + 1)..(k - 1))
    BY <2>1, <2>2, FS_Subset
  <2> DEFINE c == Cardinality(H)
  <2>4. c \in Nat /\ at = io + c /\ c <= k - 1 - io
    BY <2>2, <2>3, <1>1
  <2>5. io \in Int /\ k \in Int
    BY <1>i
  <2> HIDE DEF H, at, c
  <2> QED BY <2>4, <2>5
<1> HIDE DEF H, at
<1>4. CASE l = <<>>
  <2>1. n = 0 /\ AddEvent(l, e) = Append(l, e)
    BY <1>4 DEF AddEvent
  <2>2. Inserted(AddEvent(l, e), l, n + 1, e)
    BY <2>1, AppendKept
  <2> QED BY <2>1, <2>2, <1>0 DEF Fits
<1>5. CASE l # <<>> /\ Last(l).priority >= e.priority
  <2>1. n > 0 /\ Last(l) = l[n]
    BY <1>5, <1>0, EmptySeq DEF Last
  <2>2. \A k \in 1..n : k > io => l[k].priority >= e.priority
    BY <2>1, <1>0, <1>5 DEF Descends
  <2>3. AddEvent(l, e) = Append(l, e)
    BY <1>5 DEF AddEvent
  <2> QED BY <2>2, <2>3, <1>0, AppendKept DEF Fits
<1>6. CASE l # <<>> /\ ~(Last(l).priority >= e.priority) /\ at >= n
  <2>1. n > 0 /\ Last(l) = l[n]
    BY <1>6, <1>0, EmptySeq DEF Last
  <2>2. io >= n
    <3> SUFFICES ASSUME n > io PROVE FALSE
      BY <1>0
    <3>1. n \in 1..n /\ l[n].priority < e.priority
      BY <2>1, <1>0, <1>6
    <3>2. at < n
      BY <3>1, <1>3
    <3> QED BY <3>2, <1>6, <1>0, <1>1
  <2>3. AddEvent(l, e) = Append(l, e)
    BY <1>6 DEF AddEvent, at
  <2> QED BY <2>2, <2>3, <1>0, AppendKept DEF Fits
<1>7. CASE l # <<>> /\ ~(Last(l).priority >= e.priority) /\ ~(at >= n)
  <2>1. AddEvent(l, e) = InsertAt(l, at + 1, e)
    BY <1>7 DEF AddEvent, at
  <2>2. at + 1 \in 1..(n + 1) /\ at + 1 > io
    BY <1>0, <1>1, <1>7
  <2>3. \A k \in 1..n : k > io =>
          IF k < at + 1 THEN l[k].priority >= e.priority ELSE l[k].priority < e.priority
    BY <1>0, <1>1, <1>2, <1>3
  <2>4. Fits(l, io, at + 1, e)
    BY <2>2, <2>3, <1>0 DEF Fits
  <2> QED BY <2>1, <2>2, <2>4, InsertKept
<1> QED BY <1>4, <1>5, <1>6, <1>7

\* What putting an entry into a list does to it.
LEMMA InsertedSorted ==
  ASSUME NEW l \in Seq(Entries), NEW e \in Entries, NEW m, NEW i, NEW from \in Nat,
         Inserted(m, l, i, e), Fits(l, from, i, e), Descends(l, from)
  PROVE  Descends(m, from)
<1>0. /\ Len(l) \in Nat /\ DOMAIN l = 1..Len(l) /\ DOMAIN m = 1..(Len(l) + 1)
      /\ i \in 1..(Len(l) + 1) /\ e.priority \in Int /\ \A k \in DOMAIN l : l[k].priority \in Int
  BY ListIs, EntryIs DEF Inserted, Fits
<1>1. \A k \in 1..(Len(l) + 1) : m[k] = IF k < i THEN l[k] ELSE IF k = i THEN e ELSE l[k - 1]
  BY DEF Inserted
<1> SUFFICES ASSUME NEW j \in 1..(Len(l) + 1), NEW k \in 1..(Len(l) + 1), from < j, j < k
             PROVE  m[j].priority >= m[k].priority
  BY <1>0 DEF Descends
<1>2. CASE k < i
  <2>1. m[j] = l[j] /\ m[k] = l[k] /\ j \in DOMAIN l /\ k \in DOMAIN l
    BY <1>0, <1>1, <1>2
  <2> QED BY <2>1 DEF Descends
<1>3. CASE k = i
  <2>1. m[j] = l[j] /\ m[k] = e /\ j \in DOMAIN l
    BY <1>0, <1>1, <1>3
  <2> QED BY <2>1, <1>3 DEF Fits
<1>4. CASE k > i /\ j < i
  <2>1. m[j] = l[j] /\ m[k] = l[k - 1] /\ j \in DOMAIN l /\ k - 1 \in DOMAIN l /\ j <= k - 1
    BY <1>0, <1>1, <1>4
  <2>2. j = k - 1 \/ l[j].priority >= l[k - 1].priority
    BY <2>1 DEF Descends
  <2> QED BY <2>1, <2>2, <1>0
<1>5. CASE k > i /\ j = i
  <2>1. m[j] = e /\ m[k] = l[k - 1] /\ k - 1 \in DOMAIN l /\ ~(k - 1 < i) /\ k - 1 > from
    BY <1>0, <1>1, <1>5
  <2>2. l[k - 1].priority < e.priority
    BY <2>1 DEF Fits
  <2> QED BY <2>1, <2>2, <1>0
<1>6. CASE j > i
  <2>1. m[j] = l[j - 1] /\ m[k] = l[k - 1] /\ k - 1 \in DOMAIN l /\ j - 1 \in DOMAIN l
    BY <1>0, <1>1, <1>6
  <2>2. from < j - 1 /\ j - 1 < k - 1
    <3>1. i > from
      BY <1>0, <1>6 DEF Fits
    <3> QED BY <3>1, <1>0, <1>6
  <2> QED BY <2>1, <2>2 DEF Descends
<1> QED BY <1>0, <1>2, <1>3, <1>4, <1>5, <1>6

\* Where the entries of the longer list come from.
LEMMA InsertedFrom ==
  ASSUME NEW l \in Seq(Entries), NEW e \in Entries, NEW m, NEW i,
         i \in 1..(Len(l) + 1), Inserted(m, l, i, e)
  PROVE  /\ DOMAIN m = 1..(Len(l) + 1) /\ i \in DOMAIN m /\ m[i] = e
         /\ \A k \in DOMAIN m \ {i} :
              \E j \in DOMAIN l : m[k] = l[j] /\ j = IF k < i THEN k ELSE k - 1
         /\ \A k \in DOMAIN l :
              \E j \in DOMAIN m \ {i} : m[j] = l[k] /\ j = IF k < i THEN k ELSE k + 1
<1>0. /\ Len(l) \in Nat /\ DOMAIN l = 1..Len(l) /\ DOMAIN m = 1..(Len(l) + 1)
  BY ListIs DEF Inserted
<1>1. \A k \in 1..(Len(l) + 1) : m[k] = IF k < i THEN l[k] ELSE IF k = i THEN e ELSE l[k - 1]
  BY DEF Inserted
<1>2. ASSUME NEW k \in DOMAIN m \ {i}
      PROVE  \E j \in DOMAIN l : m[k] = l[j] /\ j = IF k < i THEN k ELSE k - 1
  <2>1. CASE k < i
    BY <2>1, <1>0, <1>1
  <2>2. CASE k > i
    <3>1. k - 1 \in DOMAIN l /\ m[k] = l[k - 1] /\ ~(k < i)
      BY <2>2, <1>0, <1>1
    <3> QED BY <3>1
  <2> QED BY <2>1, <2>2, <1>0
<1>3. ASSUME NEW k \in DOMAIN l
      PROVE  \E j \in DOMAIN m \ {i} : m[j] = l[k] /\ j = IF k < i THEN k ELSE k + 1
  <2>1. CASE k < i
    BY <2>1, <1>0, <1>1
  <2>2. CASE ~(k < i)
    <3>1. k + 1 \in DOMAIN m \ {i} /\ m[k + 1] = l[(k + 1) - 1] /\ (k + 1) - 1 = k
      BY <2>2, <1>0, <1>1
    <3> QED BY <3>1, <2>2
  <2> QED BY <2>1, <2>2
<1>4. i \in DOMAIN m /\ m[i] = e
  BY <1>0, <1>1
<1> QED BY <1>0, <1>2, <1>3, <1>4

\* It adds one event,
LEMMA InsertedLive ==
  ASSUME NEW l \in Seq(Entries), NEW e \in Entries, NEW m, NEW i,
         i \in 1..(Len(l) + 1), Inserted(m, l, i, e), e.event # NullEvent
  PROVE  /\ Live(m) = Live(l) \cup {e.event}
         /\ \A r : LiveFor(m, r) = LiveFor(l, r) \cup (IF e.rcv = r THEN {e.event} ELSE {})
<1>1. /\ i \in DOMAIN m /\ m[i] = e
      /\ \A k \in DOMAIN m \ {i} : \E j \in DOMAIN l : m[k] = l[j]
      /\ \A k \in DOMAIN l : \E j \in DOMAIN m : m[j] = l[k]
  BY InsertedFrom
<1>2. Live(m) = Live(l) \cup {e.event}
  <2>1. ASSUME NEW x \in Live(m) PROVE x \in Live(l) \cup {e.event}
    BY <1>1 DEF Live
  <2>2. ASSUME NEW x \in Live(l) PROVE x \in Live(m)
    BY <1>1 DEF Live
  <2>3. e.event \in Live(m)
    BY <1>1 DEF Live
  <2> QED BY <2>1, <2>2, <2>3
<1>3. ASSUME NEW r PROVE LiveFor(m, r) = LiveFor(l, r) \cup (IF e.rcv = r THEN {e.event} ELSE {})
  <2>1. ASSUME NEW x \in LiveFor(m, r) PROVE x \in LiveFor(l, r) \/ (e.rcv = r /\ x = e.event)
    BY <1>1 DEF LiveFor
  <2>2. ASSUME NEW x \in LiveFor(l, r) PROVE x \in LiveFor(m, r)
    BY <1>1 DEF LiveFor
  <2>3. e.rcv = r => e.event \in LiveFor(m, r)
    BY <1>1 DEF LiveFor
  <2> QED BY <2>1, <2>2, <2>3
<1> QED BY <1>2, <1>3

\* which is in the list once,
LEMMA InsertedOnce ==
  ASSUME NEW l \in Seq(Entries), NEW e \in Entries, NEW m, NEW i,
         i \in 1..(Len(l) + 1), Inserted(m, l, i, e), Once(l), e.event \notin Live(l)
  PROVE  Once(m)
<1>0. /\ Len(l) \in Nat /\ DOMAIN l = 1..Len(l)
  BY ListIs
<1>1. /\ DOMAIN m = 1..(Len(l) + 1) /\ i \in DOMAIN m /\ m[i] = e
      /\ \A k \in DOMAIN m \ {i} :
           \E j \in DOMAIN l : m[k] = l[j] /\ j = IF k < i THEN k ELSE k - 1
  BY InsertedFrom
<1> SUFFICES ASSUME NEW j \in DOMAIN m, NEW k \in DOMAIN m,
                    m[j].event = m[k].event, m[j].event # NullEvent
             PROVE  j = k
  BY DEF Once
<1>2. ASSUME NEW p \in DOMAIN m \ {i}, m[p].event # NullEvent PROVE m[p].event # e.event
  BY <1>1, <1>2 DEF Live
<1>3. CASE j = i \/ k = i
  BY <1>1, <1>2, <1>3
<1>4. CASE j # i /\ k # i
  <2>1. PICK a \in DOMAIN l : m[j] = l[a] /\ a = IF j < i THEN j ELSE j - 1
    BY <1>1, <1>4
  <2>2. PICK b \in DOMAIN l : m[k] = l[b] /\ b = IF k < i THEN k ELSE k - 1
    BY <1>1, <1>4
  <2>3. a = b
    BY <2>1, <2>2 DEF Once
  <2> QED BY <2>1, <2>2, <2>3, <1>0, <1>1, <1>4
<1> QED BY <1>3, <1>4

\* behind the older ones of its priority.
LEMMA InsertedInOrder ==
  ASSUME NEW l \in Seq(Entries), NEW e \in Entries, NEW m, NEW i, NEW from \in Nat,
         Inserted(m, l, i, e), Fits(l, from, i, e), InOrder(l),
         e.type = Deleting \/ \A x \in Live(l) : x < e.event
  PROVE  InOrder(m)
<1>0. /\ Len(l) \in Nat /\ DOMAIN l = 1..Len(l) /\ i \in 1..(Len(l) + 1)
      /\ e.priority \in Int /\ \A k \in DOMAIN l : l[k].priority \in Int
  BY ListIs, EntryIs DEF Fits
<1>1. /\ DOMAIN m = 1..(Len(l) + 1) /\ i \in DOMAIN m /\ m[i] = e
      /\ \A k \in DOMAIN m \ {i} :
           \E j \in DOMAIN l : m[k] = l[j] /\ j = IF k < i THEN k ELSE k - 1
  BY <1>0, InsertedFrom
<1> SUFFICES ASSUME NEW j \in DOMAIN m, NEW k \in DOMAIN m,
                    j < k, m[j].priority = m[k].priority,
                    NullEvent \notin {m[j].event, m[k].event},
                    Deleting \notin {m[j].type, m[k].type}
             PROVE  m[j].event < m[k].event
  BY DEF InOrder
<1>2. CASE j = i
  <2>1. PICK b \in DOMAIN l : m[k] = l[b] /\ b = IF k < i THEN k ELSE k - 1
    BY <1>0, <1>1, <1>2
  <2>2. b >= i /\ b > from
    <3>1. b >= i
      BY <2>1, <1>0, <1>1, <1>2
    <3>2. i > from
      BY <3>1, <1>0 DEF Fits
    <3> QED BY <3>1, <3>2, <1>0
  <2>3. l[b].priority < e.priority
    BY <2>1, <2>2, <1>0 DEF Fits
  <2> QED BY <2>1, <2>3, <1>0, <1>1, <1>2
<1>3. CASE k = i
  <2>1. PICK a \in DOMAIN l : m[j] = l[a]
    BY <1>0, <1>1, <1>3
  <2>2. l[a].event \in Live(l)
    BY <2>1 DEF Live
  <2> QED BY <2>1, <2>2, <1>1, <1>3
<1>4. CASE j # i /\ k # i
  <2>1. PICK a \in DOMAIN l : m[j] = l[a] /\ a = IF j < i THEN j ELSE j - 1
    BY <1>1, <1>4
  <2>2. PICK b \in DOMAIN l : m[k] = l[b] /\ b = IF k < i THEN k ELSE k - 1
    BY <1>1, <1>4
  <2>3. a < b
    BY <2>1, <2>2, <1>0, <1>1, <1>4
  <2> QED BY <2>1, <2>2, <2>3 DEF InOrder
<1> QED BY <1>2, <1>3, <1>4

-----------------------------------------------------------------------------
(* Taking entries out.                                                     *)

\* Taking entries out or nulling them keeps the sorted part sorted,
LEMMA ThinSorted ==
  ASSUME NEW l \in Seq(Entries), NEW m, NEW f, NEW gone, NEW shift \in Nat, NEW from \in Nat,
         Thins(m, l, f, gone, shift), Descends(l, from + shift)
  PROVE  Descends(m, from)
<1>0. /\ Len(l) \in Nat /\ DOMAIN l = 1..Len(l) /\ Len(m) \in Nat /\ DOMAIN m = 1..Len(m)
      /\ \A k \in DOMAIN l : l[k] \in Entries /\ NullEntry(l[k]).priority = l[k].priority
  BY ListIs, NullIs DEF Thins
<1>1. ASSUME NEW k \in DOMAIN m PROVE f[k] \in DOMAIN l /\ m[k].priority = l[f[k]].priority
  BY <1>0 DEF Thins
<1> SUFFICES ASSUME NEW j \in DOMAIN m, NEW k \in DOMAIN m, from < j, j < k
             PROVE  m[j].priority >= m[k].priority
  BY DEF Descends
<1>2. f[j] < f[k] /\ f[j] >= j + shift
  BY DEF Thins
<1>3. from + shift < f[j]
  BY <1>0, <1>1, <1>2
<1>4. l[f[j]].priority >= l[f[k]].priority
  BY <1>1, <1>2, <1>3 DEF Descends
<1> QED BY <1>1, <1>4

\* keeps events of one priority in order,
LEMMA ThinInOrder ==
  ASSUME NEW l \in Seq(Entries), NEW m, NEW f, NEW gone, NEW shift,
         Thins(m, l, f, gone, shift)
  PROVE  /\ InOrder(l) => InOrder(m)
         /\ Once(l) => Once(m)
<1>0. /\ Len(l) \in Nat /\ DOMAIN l = 1..Len(l) /\ Len(m) \in Nat /\ DOMAIN m = 1..Len(m)
      /\ \A k \in DOMAIN l : l[k] \in Entries /\ NullEntry(l[k]).event = NullEvent
  BY ListIs, NullIs DEF Thins
<1>1. \A k \in DOMAIN m : f[k] \in DOMAIN l /\ (m[k].event # NullEvent => m[k] = l[f[k]])
  BY <1>0 DEF Thins
<1>2. \A j, k \in DOMAIN m : j < k => f[j] < f[k]
  BY DEF Thins
<1>3. ASSUME InOrder(l) PROVE InOrder(m)
  <2> SUFFICES ASSUME NEW j \in DOMAIN m, NEW k \in DOMAIN m,
                      j < k, m[j].priority = m[k].priority,
                      NullEvent \notin {m[j].event, m[k].event},
                      Deleting \notin {m[j].type, m[k].type}
               PROVE  m[j].event < m[k].event
    BY DEF InOrder
  <2>1. m[j] = l[f[j]] /\ m[k] = l[f[k]] /\ f[j] \in DOMAIN l /\ f[k] \in DOMAIN l /\ f[j] < f[k]
    BY <1>1, <1>2
  <2> QED BY <2>1, <1>3 DEF InOrder
<1>4. ASSUME Once(l) PROVE Once(m)
  <2> SUFFICES ASSUME NEW j \in DOMAIN m, NEW k \in DOMAIN m,
                      m[j].event = m[k].event, m[j].event # NullEvent
               PROVE  j = k
    BY DEF Once
  <2>1. m[j] = l[f[j]] /\ m[k] = l[f[k]] /\ f[j] \in DOMAIN l /\ f[k] \in DOMAIN l
    BY <1>1
  <2>2. f[j] = f[k]
    BY <2>1, <1>4 DEF Once
  <2>3. j < k \/ k < j \/ j = k
    BY <1>0
  <2> QED BY <2>1, <2>2, <2>3, <1>0, <1>2
<1> QED BY <1>3, <1>4

EventsAt(l, places) == {l[k].event : k \in places}

\* and takes away those events and no others.
LEMMA ThinLive ==
  ASSUME NEW l \in Seq(Entries), NEW m, NEW f, NEW gone, NEW shift,
         gone \subseteq DOMAIN l, Thins(m, l, f, gone, shift), Once(l)
  PROVE  /\ Live(m) = Live(l) \ EventsAt(l, gone)
         /\ \A r : LiveFor(m, r) = LiveFor(l, r) \ EventsAt(l, gone)
<1> DEFINE G == {l[k].event : k \in gone}
<1>0. \A k \in DOMAIN l : l[k] \in Entries /\ NullEntry(l[k]).event = NullEvent
  BY ListIs, NullIs
<1>1. ASSUME NEW k \in DOMAIN m, m[k].event # NullEvent
      PROVE  f[k] \in DOMAIN l /\ f[k] \notin gone /\ m[k] = l[f[k]] /\ m[k].event \notin G
  <2>1. f[k] \in DOMAIN l /\ f[k] \notin gone /\ m[k] = l[f[k]]
    BY <1>0, <1>1 DEF Thins
  <2> QED BY <2>1, <1>1 DEF Once
<1>2. ASSUME NEW k \in DOMAIN l, l[k].event # NullEvent, l[k].event \notin G
      PROVE  \E j \in DOMAIN m : m[j] = l[k]
  BY <1>2 DEF Thins
<1>3. Live(m) = Live(l) \ G
  <2>1. ASSUME NEW x \in Live(m) PROVE x \in Live(l) \ G
    BY <1>1 DEF Live
  <2>2. ASSUME NEW x \in Live(l) \ G PROVE x \in Live(m)
    BY <1>2 DEF Live
  <2> QED BY <2>1, <2>2
<1>4. ASSUME NEW r PROVE LiveFor(m, r) = LiveFor(l, r) \ G
  <2>1. ASSUME NEW x \in LiveFor(m, r) PROVE x \in LiveFor(l, r) \ G
    BY <1>1 DEF LiveFor
  <2>2. ASSUME NEW x \in LiveFor(l, r) \ G PROVE x \in LiveFor(m, r)
    BY <1>2 DEF LiveFor
  <2> QED BY <2>1, <2>2
<1> QED BY <1>3, <1>4 DEF EventsAt

\* The places that stay, numbered: each number up to how many there are belongs to one.
Rank(S, k) == Cardinality({j \in S : j <= k})

\* The ranks of a finite set of places: each place has one, and they are all used.
LEMMA Ranks ==
  ASSUME NEW n \in Nat, NEW S \in SUBSET (1..n)
  PROVE  /\ Cardinality(S) \in Nat
         /\ \A k \in S : Rank(S, k) \in 1..Cardinality(S) /\ Rank(S, k) <= k
         /\ \A j, k \in S : j < k => Rank(S, j) < Rank(S, k)
         /\ \A i \in 1..Cardinality(S) : \E k \in S : Rank(S, k) = i
<1> DEFINE upTo(k) == {j \in S : j <= k}
<1>0. \A k \in S : k \in Nat /\ k >= 1
  OBVIOUS
<1>1. IsFiniteSet(S) /\ Cardinality(S) \in Nat
  <2>1. IsFiniteSet(1..n)
    <3>1. 1 \in Int /\ n \in Int
      OBVIOUS
    <3> QED BY <3>1, FS_Interval
  <2> QED BY <2>1, FS_Subset, FS_CardinalityType
<1>2. ASSUME NEW k \in S
      PROVE  /\ IsFiniteSet(upTo(k)) /\ Cardinality(upTo(k)) \in Nat
             /\ Cardinality(upTo(k)) <= Cardinality(S) /\ Cardinality(upTo(k)) # 0
             /\ Cardinality(upTo(k)) <= k
  <2>1. IsFiniteSet(upTo(k)) /\ Cardinality(upTo(k)) <= Cardinality(S)
    BY <1>1, FS_Subset
  <2>2. k \in upTo(k)
    OBVIOUS
  <2>3. upTo(k) \subseteq 1..k /\ k \in Nat /\ ~(1 > k)
    <3>1. ASSUME NEW j \in upTo(k) PROVE j \in 1..k
      BY <1>0
    <3>2. k \in Nat /\ ~(1 > k)
      BY <1>0
    <3> QED BY <3>1, <3>2
  <2>4. IsFiniteSet(1..k) /\ Cardinality(1..k) = k
    BY <2>3, FS_Interval
  <2>5. Cardinality(upTo(k)) <= k
    BY <2>3, <2>4, FS_Subset
  <2> HIDE DEF upTo
  <2> QED BY <2>1, <2>2, <2>5, FS_CardinalityType, FS_EmptySet
<1>3. ASSUME NEW j \in S, NEW k \in S, j < k
      PROVE  Cardinality(upTo(j)) < Cardinality(upTo(k))
  <2>1. upTo(j) \cup {k} \subseteq upTo(k) /\ k \notin upTo(j)
    <3>0. j \in Nat /\ k \in Nat
      BY <1>0
    <3>1. \A i \in S : i <= j => i <= k
      BY <1>0, <1>3, <3>0
    <3>2. ~(k <= j) /\ k <= k
      BY <1>3, <3>0
    <3> QED BY <3>1, <3>2
  <2> HIDE DEF upTo
  <2>2. Cardinality(upTo(j) \cup {k}) = Cardinality(upTo(j)) + 1
    BY <2>1, <1>2, FS_AddElement
  <2>3. Cardinality(upTo(j) \cup {k}) <= Cardinality(upTo(k))
    BY <2>1, <1>2, FS_Subset
  <2> QED BY <2>2, <2>3, <1>2
<1> DEFINE c == Cardinality(S)
           rank == [k \in S |-> Cardinality(upTo(k))]
<1>4. rank \in Injection(S, 1..c)
  <2>1. rank \in [S -> 1..c]
    <3> SUFFICES ASSUME NEW k \in S PROVE Cardinality(upTo(k)) \in 1..c
      OBVIOUS
    <3> QED BY <1>1, <1>2
  <2>2. ASSUME NEW j \in S, NEW k \in S, rank[j] = rank[k] PROVE j = k
    <3>1. j < k \/ k < j \/ j = k
      BY <1>0
    <3>2. Cardinality(upTo(j)) = Cardinality(upTo(k)) /\ Cardinality(upTo(j)) \in Nat
      BY <2>2, <1>2
    <3> QED BY <3>1, <3>2, <1>3
  <2> QED BY <2>1, <2>2 DEF Injection, IsInjective
<1>5. IsFiniteSet(1..c) /\ Cardinality(1..c) = c
  BY <1>1, FS_Interval
<1>6. rank \in Surjection(S, 1..c)
  BY <1>4, <1>5, FS_Injection
<1>7. \A i \in 1..c : \E k \in S : Cardinality(upTo(k)) = i
  BY <1>6 DEF Surjection
<1>8. \A k \in S : Cardinality(upTo(k)) \in 1..Cardinality(S)
  BY <1>1, <1>2
<1> QED BY <1>1, <1>2, <1>3, <1>7, <1>8 DEF Rank

\* Nulling one entry is such a step,
LEMMA NulledThins ==
  ASSUME NEW l \in Seq(Entries), NEW k \in DOMAIN l
  PROVE  /\ \E f : Thins(Nulled(l, k), l, f, {k}, 0)
         /\ Nulled(l, k) \in Seq(Entries) /\ Len(Nulled(l, k)) = Len(l)
         /\ Nulled(l, k)[k] = NullEntry(l[k])
         /\ \A j \in DOMAIN l \ {k} : Nulled(l, k)[j] = l[j]
<1>0. /\ Len(l) \in Nat /\ DOMAIN l = 1..Len(l)
      /\ \A j \in DOMAIN l : l[j] \in Entries /\ NullEntry(l[j]) \in Entries
  BY ListIs, NullIs
<1>1. /\ Nulled(l, k) \in Seq(Entries) /\ Len(Nulled(l, k)) = Len(l)
      /\ DOMAIN Nulled(l, k) = DOMAIN l
      /\ \A j \in DOMAIN l : Nulled(l, k)[j] = IF j = k THEN NullEntry(l[k]) ELSE l[j]
  BY <1>0, ExceptSeq DEF Nulled
<1> DEFINE f == [j \in DOMAIN l |-> j]
<1>2. \A j \in DOMAIN l : f[j] = j /\ j >= j + 0
  BY <1>0
<1> HIDE DEF f
<1>3. Thins(Nulled(l, k), l, f, {k}, 0)
  BY <1>1, <1>2 DEF Thins
<1> QED BY <1>1, <1>3

\* erasing the entries before startOffset is,
LEMMA DroppedThins ==
  ASSUME NEW l \in Seq(Entries), NEW s \in 0..Len(l), \A k \in 1..s : l[k].event = NullEvent
  PROVE  /\ \E f : Thins(SubSeq(l, s + 1, Len(l)), l, f, {}, s)
         /\ Len(SubSeq(l, s + 1, Len(l))) = Len(l) - s
         /\ SubSeq(l, s + 1, Len(l)) \in Seq(Entries)
<1> DEFINE m == SubSeq(l, s + 1, Len(l))
           f == [k \in 1..(Len(l) - s) |-> k + s]
<1>0. Len(l) \in Nat /\ DOMAIN l = 1..Len(l) /\ s \in Nat /\ s <= Len(l)
  BY ListIs
<1>1. /\ m \in Seq(Entries) /\ Len(m) = Len(l) - s
      /\ \A k \in 1..(Len(l) - s) : m[k] = l[k + s]
  <2>1. \A k \in (s + 1)..Len(l) : l[k] \in Entries
    BY <1>0, ListIs
  <2>2. s + 1 \in Int /\ Len(l) \in Int
    BY <1>0
  <2>3. /\ SubSeq(l, s + 1, Len(l)) \in Seq(Entries)
        /\ Len(SubSeq(l, s + 1, Len(l))) = IF s + 1 <= Len(l) THEN Len(l) - (s + 1) + 1 ELSE 0
        /\ \A k \in 1..(Len(l) - (s + 1) + 1) : SubSeq(l, s + 1, Len(l))[k] = l[(s + 1) + k - 1]
    BY <2>1, <2>2, SubSeqProperties
  <2>4. Len(l) - (s + 1) + 1 = Len(l) - s /\ \A k \in Int : (s + 1) + k - 1 = k + s
    BY <1>0
  <2>5. (IF s + 1 <= Len(l) THEN Len(l) - (s + 1) + 1 ELSE 0) = Len(l) - s
    <3>1. CASE s + 1 <= Len(l)
      BY <3>1, <1>0
    <3>2. CASE ~(s + 1 <= Len(l))
      <4> DEFINE n == Len(l)
      <4>1. n \in Nat /\ s \in Nat /\ s <= n /\ ~(s + 1 <= n)
        BY <3>2, <1>0
      <4> HIDE DEF n
      <4>2. n - s = 0
        BY <4>1
      <4> QED BY <3>2, <4>2 DEF n
    <3> QED BY <3>1, <3>2
  <2>6. \A k \in 1..(Len(l) - s) : m[k] = l[k + s]
    <3> SUFFICES ASSUME NEW k \in 1..(Len(l) - s) PROVE m[k] = l[k + s]
      OBVIOUS
    <3>0. k \in Int
      OBVIOUS
    <3>1. k \in 1..(Len(l) - (s + 1) + 1) /\ (s + 1) + k - 1 = k + s
      BY <2>4, <3>0
    <3>2. m[k] = l[(s + 1) + k - 1]
      BY <2>3, <3>1
    <3> QED BY <3>1, <3>2
  <2> QED BY <2>3, <2>5, <2>6
<1>2. DOMAIN m = 1..(Len(l) - s)
  BY <1>1, LenProperties
<1>3. \A k \in 1..(Len(l) - s) : f[k] = k + s /\ k + s \in DOMAIN l /\ k + s >= k + s
  BY <1>0
<1> HIDE DEF f, m
<1>4. \A j, k \in 1..(Len(l) - s) : j < k => f[j] < f[k]
  BY <1>0, <1>3
<1>5. ASSUME NEW k \in DOMAIN l, l[k].event # NullEvent PROVE \E j \in DOMAIN m : m[j] = l[k]
  <2>1. k > s
    BY <1>0, <1>5
  <2>2. k - s \in 1..(Len(l) - s) /\ (k - s) + s = k
    BY <2>1, <1>0
  <2> QED BY <2>2, <1>1, <1>2
<1>6. Thins(m, l, f, {}, s)
  BY <1>1, <1>2, <1>3, <1>4, <1>5 DEF Thins
<1> QED BY <1>1, <1>6 DEF m

\* The entries that removePostedEvents is about.
Gone(rcv, type) == {k \in DOMAIN list : IsFor(list[k], rcv, type)}

\* and so is the erasing loop of removePostedEvents.
LEMMA WithoutThins ==
  ASSUME list \in Seq(Entries), NEW rcv, NEW type
  PROVE  /\ \E f : Thins(Without(rcv, type), list, f, Gone(rcv, type), 0)
         /\ recursion > 0 => Len(Without(rcv, type)) = Len(list)
<1> DEFINE G == Gone(rcv, type)
           m == Without(rcv, type)
<1>0. /\ Len(list) \in Nat /\ DOMAIN list = 1..Len(list)
      /\ \A j \in DOMAIN list : list[j] \in Entries /\ NullEntry(list[j]) \in Entries
  BY ListIs, NullIs
<1>1. CASE recursion > 0
  <2>1. m = [k \in 1..Len(list) |-> IF k \in G THEN NullEntry(list[k]) ELSE list[k]]
    BY <1>0, <1>1 DEF Without, Gone
  <2> DEFINE f == [j \in DOMAIN list |-> j]
  <2>2. \A j \in DOMAIN list : f[j] = j /\ j >= j + 0
    BY <1>0
  <2> HIDE DEF f, G, m
  <2>3. m \in Seq(Entries) /\ DOMAIN m = DOMAIN list /\ Len(m) = Len(list)
    <3>1. \A k \in 1..Len(list) : (IF k \in G THEN NullEntry(list[k]) ELSE list[k]) \in Entries
      BY <1>0
    <3> QED BY <2>1, <3>1, <1>0, IsASeq, LenProperties
  <2>4. \A k \in DOMAIN list : m[k] = IF k \in G THEN NullEntry(list[k]) ELSE list[k]
    BY <2>1, <1>0
  <2>5. Thins(m, list, f, G, 0)
    BY <2>2, <2>3, <2>4 DEF Thins
  <2> QED BY <2>3, <2>5 DEF m, G
<1>2. CASE ~(recursion > 0)
  <2> DEFINE kept == DOMAIN list \ G
             f == [n \in 1..Cardinality(kept) |-> CHOOSE k \in kept : Rank(kept, k) = n]
  <2>1. kept = {k \in DOMAIN list : ~IsFor(list[k], rcv, type)}
    BY DEF Gone
  <2> HIDE DEF kept
  <2>2. m = [n \in 1..Cardinality(kept) |-> list[CHOOSE k \in kept : Rank(kept, k) = n]]
    BY <1>2, <2>1 DEF Without, Rank
  <2> HIDE DEF m, G
  <2>3. kept \in SUBSET (1..Len(list)) /\ \A k \in kept : k \in Int
    BY <1>0 DEF kept
  <2>4. /\ Cardinality(kept) \in Nat
        /\ \A k \in kept : Rank(kept, k) \in 1..Cardinality(kept) /\ Rank(kept, k) <= k
        /\ \A j, k \in kept : j < k => Rank(kept, j) < Rank(kept, k)
        /\ \A i \in 1..Cardinality(kept) : \E k \in kept : Rank(kept, k) = i
    BY <2>3, <1>0, Ranks
  <2>5. ASSUME NEW n \in 1..Cardinality(kept)
        PROVE  f[n] \in kept /\ Rank(kept, f[n]) = n /\ m[n] = list[f[n]] /\ f[n] >= n + 0
    <3>1. f[n] \in kept /\ Rank(kept, f[n]) = n
      BY <2>4
    <3>2. m[n] = list[f[n]]
      BY <2>2
    <3>3. n <= f[n] /\ f[n] \in Int
      BY <3>1, <2>4, <2>3
    <3> QED BY <3>1, <3>2, <3>3
  <2>6. ASSUME NEW k \in kept PROVE \E n \in 1..Cardinality(kept) : f[n] = k
    <3>1. PICK n \in 1..Cardinality(kept) : n = Rank(kept, k)
      BY <2>4
    <3>2. f[n] \in kept /\ Rank(kept, f[n]) = Rank(kept, k)
      BY <2>5, <3>1
    <3>3. f[n] < k \/ k < f[n] \/ f[n] = k
      BY <3>2, <2>3, <1>0
    <3>4. Rank(kept, k) \in Nat
      BY <2>4
    <3> QED BY <2>4, <3>2, <3>3, <3>4
  <2>7. m \in Seq(Entries) /\ DOMAIN m = 1..Cardinality(kept)
    <3>1. \A n \in 1..Cardinality(kept) : list[f[n]] \in Entries
      BY <2>5, <2>3, <1>0
    <3>2. m = [n \in 1..Cardinality(kept) |-> list[f[n]]]
      BY <2>2
    <3> HIDE DEF f
    <3> QED BY <3>1, <3>2, <2>4, IsASeq
  <2> HIDE DEF f
  <2>8. ASSUME NEW i \in DOMAIN m, NEW j \in DOMAIN m, i < j PROVE f[i] < f[j]
    <3>1. f[i] \in kept /\ f[j] \in kept /\ Rank(kept, f[i]) = i /\ Rank(kept, f[j]) = j
      BY <2>5, <2>7
    <3>2. f[i] < f[j] \/ f[j] < f[i] \/ f[i] = f[j]
      BY <3>1, <2>3, <1>0
    <3>3. i \in Nat /\ j \in Nat
      BY <2>7
    <3> QED BY <3>1, <3>2, <3>3, <2>4, <2>8
  <2>9. \A n \in DOMAIN m : f[n] \in DOMAIN list /\ f[n] \notin G /\ m[n] = list[f[n]] /\ f[n] >= n + 0
    BY <2>5, <2>7 DEF kept
  <2>10. \A k \in DOMAIN list \ G : \E j \in DOMAIN m : m[j] = list[k]
    <3> SUFFICES ASSUME NEW k \in kept PROVE \E j \in DOMAIN m : m[j] = list[k]
      BY DEF kept
    <3> QED BY <2>6, <2>5, <2>7
  <2>11. Thins(m, list, f, G, 0)
    BY <2>7, <2>8, <2>9, <2>10 DEF Thins
  <2> QED BY <2>11, <1>2 DEF m, G
<1> QED BY <1>1, <1>2

-----------------------------------------------------------------------------
(* The inductive invariant: the list.                                      *)

\* What the running call for everything has gone past is null.
Offsets ==
  /\ insertionOffset \in Nat /\ startOffset \in 0..Len(list) /\ startOffset <= insertionOffset
  /\ \A k \in 1..startOffset : list[k].event = NullEvent

Listed == Once(list) /\ owed = Live(list) /\ serial \in 0..MaxEvents /\ owed \subseteq 1..serial

Counts ==
  /\ postedEvents \in [Receivers -> Nat] /\ alive \subseteq Receivers
  /\ \A r \in Receivers : postedEvents[r] = Cardinality(LiveFor(list, r))
  /\ \A r \in Receivers \ alive : LiveFor(list, r) = {}

Order == Descends(list, insertionOffset) /\ InOrder(list)

ListInv == list \in Seq(Entries) /\ Offsets /\ Listed /\ Counts /\ Order

\* The events of an object can be counted.
LEMMA LiveFinite ==
  ASSUME NEW l \in Seq(Entries), NEW r
  PROVE  /\ IsFiniteSet(LiveFor(l, r)) /\ Cardinality(LiveFor(l, r)) \in Nat
         /\ LiveFor(l, r) \subseteq Live(l)
<1>1. LiveFor(l, r) \subseteq Live(l)
  BY DEF LiveFor, Live
<1>2. LiveFor(l, r) \subseteq 0..MaxEvents
  <2>1. \A k \in DOMAIN l : l[k].event \in 0..MaxEvents
    BY ListIs, EntryIs
  <2> QED BY <2>1 DEF LiveFor
<1>3. IsFiniteSet(0..MaxEvents)
  <2>1. 0 \in Int /\ MaxEvents \in Int
    BY PostEventListAssumption
  <2> QED BY <2>1, FS_Interval
<1> QED BY <1>1, <1>2, <1>3, FS_Subset, FS_CardinalityType

\* What is in the list is owed.
LEMMA EventsOwed ==
  ASSUME ListInv, NEW k \in DOMAIN list, list[k].event # NullEvent
  PROVE  list[k].event \in owed /\ list[k].event \in 1..serial
  BY DEF ListInv, Listed, Live

\* The entry that postEvent adds.
Posted(own, rcv, type, priority) ==
  [event |-> serial + 1, rcv |-> rcv, type |-> type, priority |-> priority,
   level |-> IF own /\ type = Deleting THEN loopLevel ELSE 0,
   by |-> IF own THEN Handling ELSE NullEvent]

\* postEvent keeps the invariant of the list, and adds nothing else.
LEMMA PostEventKeeps ==
  ASSUME ListInv, NEW own \in BOOLEAN, NEW rcv \in Receivers, NEW type \in Types,
         NEW priority \in Priorities, PostEvent(own, rcv, type, priority),
         loopLevel \in Nat, own => Handling \in 0..MaxEvents
  PROVE  /\ ListInv'
         /\ Len(list') = Len(list) + 1
         /\ \A k \in DOMAIN list' : list'[k] = Posted(own, rcv, type, priority)
                                    \/ \E j \in DOMAIN list : list'[k] = list[j]
<1> DEFINE e == Posted(own, rcv, type, priority)
<1>1. serial \in Nat /\ serial + 1 \in 1..MaxEvents /\ serial + 1 \in 0..MaxEvents
  BY PostEventListAssumption DEF ListInv, Listed, PostEvent
<1>2. e \in Entries
  BY <1>1, PostEventListAssumption DEF Posted, Entries, NullEvent
<1>3. e.event = serial + 1 /\ e.rcv = rcv /\ e.event # NullEvent
  BY <1>1 DEF Posted, NullEvent
<1> HIDE DEF e
<1>4. list' = AddEvent(list, e)
  BY DEF PostEvent, Posted, e
<1>5. PICK i : Inserted(list', list, i, e) /\ Fits(list, insertionOffset, i, e)
  BY <1>2, <1>4, AddedAt DEF ListInv, Offsets, Order
<1>6. /\ list \in Seq(Entries) /\ list' \in Seq(Entries) /\ i \in 1..(Len(list) + 1)
      /\ insertionOffset \in Nat /\ Len(list) \in Nat /\ Len(list') = Len(list) + 1
  BY <1>5, ListIs DEF Inserted, Fits, ListInv, Offsets
<1>7. \A x \in Live(list) : x \in Nat /\ x < serial + 1
  BY <1>1 DEF ListInv, Listed
<1>8. Offsets'
  <2>1. UNCHANGED <<insertionOffset, startOffset>>
    BY DEF PostEvent
  <2>2. ASSUME NEW k \in 1..startOffset PROVE list'[k].event = NullEvent
    <3>1. k < i /\ k \in 1..(Len(list) + 1)
      BY <1>5, <1>6 DEF ListInv, Offsets, Fits
    <3>2. list'[k] = list[k]
      BY <3>1, <1>5 DEF Inserted
    <3> QED BY <3>2 DEF ListInv, Offsets
  <2> QED BY <2>1, <2>2, <1>6 DEF ListInv, Offsets
<1>9. Listed'
  <2>1. Once(list')
    <3>1. e.event \notin Live(list)
      BY <1>3, <1>7, <1>1
    <3> QED BY <3>1, <1>2, <1>5, <1>6, InsertedOnce DEF ListInv, Listed
  <2>2. owed' = Live(list')
    <3>1. Live(list') = Live(list) \cup {serial + 1}
      BY <1>2, <1>3, <1>5, <1>6, InsertedLive
    <3> QED BY <3>1 DEF ListInv, Listed, PostEvent
  <2>3. serial' = serial + 1 /\ owed' = owed \cup {serial + 1}
    BY DEF PostEvent
  <2>4. owed' \subseteq 1..serial' /\ serial' \in 0..MaxEvents
    <3>1. \A x \in 1..serial : x \in 1..(serial + 1)
      BY <1>1
    <3> QED BY <2>3, <1>1, <3>1 DEF ListInv, Listed
  <2> QED BY <2>1, <2>2, <2>4 DEF Listed
<1>10. Counts'
  <2>1. \A r : LiveFor(list', r) = LiveFor(list, r) \cup (IF rcv = r THEN {serial + 1} ELSE {})
    BY <1>2, <1>3, <1>5, <1>6, InsertedLive
  <2>2. /\ postedEvents' = [postedEvents EXCEPT ![rcv] = @ + 1] /\ alive' = alive /\ rcv \in alive
        /\ postedEvents \in [Receivers -> Nat]
    BY DEF PostEvent, ListInv, Counts
  <2>3. ASSUME NEW r \in Receivers PROVE postedEvents'[r] = Cardinality(LiveFor(list', r))
    <3>1. serial + 1 \notin LiveFor(list, r) /\ IsFiniteSet(LiveFor(list, r))
      BY <1>1, <1>6, <1>7, LiveFinite
    <3>2. CASE r = rcv
      <4>1. Cardinality(LiveFor(list', r)) = Cardinality(LiveFor(list, r)) + 1
        BY <2>1, <3>1, <3>2, FS_AddElement
      <4> QED BY <4>1, <2>2, <3>2 DEF ListInv, Counts
    <3>3. CASE r # rcv
      <4>1. LiveFor(list', r) = LiveFor(list, r)
        BY <2>1, <3>3
      <4> QED BY <4>1, <2>2, <3>3 DEF ListInv, Counts
    <3> QED BY <3>2, <3>3
  <2>4. postedEvents' \in [Receivers -> Nat]
    BY <2>2
  <2>5. ASSUME NEW r \in Receivers \ alive PROVE LiveFor(list', r) = {}
    <3>1. rcv # r
      BY <2>2
    <3> QED BY <2>1, <3>1 DEF ListInv, Counts
  <2> QED BY <2>2, <2>3, <2>4, <2>5 DEF ListInv, Counts
<1>11. Order'
  <2>1. Descends(list', insertionOffset)
    BY <1>2, <1>5, <1>6, InsertedSorted DEF ListInv, Order
  <2>2. InOrder(list')
    BY <1>2, <1>3, <1>5, <1>6, <1>7, InsertedInOrder DEF ListInv, Order
  <2> QED BY <2>1, <2>2 DEF Order, PostEvent
<1>12. \A k \in DOMAIN list' : list'[k] = e \/ \E j \in DOMAIN list : list'[k] = list[j]
  <2>1. /\ list'[i] = e
        /\ \A k \in DOMAIN list' \ {i} :
             \E j \in DOMAIN list : list'[k] = list[j] /\ j = IF k < i THEN k ELSE k - 1
    BY <1>2, <1>5, <1>6, InsertedFrom
  <2> QED BY <2>1
<1> QED BY <1>6, <1>8, <1>9, <1>10, <1>11, <1>12 DEF ListInv, e

\* removePostedEvents, of a living object or of one that is being deleted.
LEMMA TakeOutKeeps ==
  ASSUME ListInv, NEW rcv \in Receivers \cup {NoReceiver}, NEW type \in Types \cup {AnyType},
         TakeOut(rcv, type), recursion = 0 => startOffset = 0, recursion \in Nat,
         UNCHANGED <<insertionOffset, startOffset, serial>>,
         \/ alive' = alive
         \/ alive' = alive \ {rcv} /\ rcv \in Receivers /\ type = AnyType
  PROVE  /\ ListInv'
         /\ owed' \subseteq owed
         /\ recursion > 0 => Len(list') = Len(list)
         /\ \A k \in DOMAIN list' : \E j \in DOMAIN list : list'[k] \in {list[j], NullEntry(list[j])}
<1>0. list \in Seq(Entries) /\ Once(list) /\ owed = Live(list) /\ Len(list) \in Nat
  BY ListIs DEF ListInv, Listed
<1>1. CASE rcv # NoReceiver /\ postedEvents[rcv] = 0
  <2>1. UNCHANGED <<list, postedEvents, owed>>
    BY <1>1 DEF TakeOut
  <2>2. LiveFor(list, rcv) = {}
    <3>1. rcv \in Receivers /\ Cardinality(LiveFor(list, rcv)) = 0
      BY <1>1 DEF ListInv, Counts
    <3> QED BY <3>1, <1>0, LiveFinite, FS_EmptySet
  <2>3. Counts'
    BY <2>1, <2>2 DEF ListInv, Counts
  <2>4. Offsets' /\ Listed' /\ Order'
    BY <2>1 DEF ListInv, Offsets, Listed, Order
  <2> QED BY <2>1, <2>3, <2>4 DEF ListInv
<1>2. CASE ~(rcv # NoReceiver /\ postedEvents[rcv] = 0)
  <2>1. /\ list' = Without(rcv, type)
        /\ postedEvents' = [r \in Receivers |->
              postedEvents[r] - IF rcv \in {NoReceiver, r} THEN Cardinality(Pending(r, type)) ELSE 0]
        /\ owed' = owed \ Pending(rcv, type)
    BY <1>2 DEF TakeOut
  <2>2. PICK f : Thins(list', list, f, Gone(rcv, type), 0)
    BY <2>1, <1>0, WithoutThins
  <2>3. EventsAt(list, Gone(rcv, type)) = Pending(rcv, type)
    BY DEF Gone, Pending, EventsAt
  <2>4. Gone(rcv, type) \subseteq DOMAIN list
    BY DEF Gone
  <2>5. /\ Live(list') = Live(list) \ Pending(rcv, type)
        /\ \A r : LiveFor(list', r) = LiveFor(list, r) \ Pending(rcv, type)
    <3>1. /\ Live(list') = Live(list) \ EventsAt(list, Gone(rcv, type))
          /\ \A r : LiveFor(list', r) = LiveFor(list, r) \ EventsAt(list, Gone(rcv, type))
      BY <1>0, <2>2, <2>4, ThinLive
    <3> QED BY <3>1, <2>3
  <2>6. list' \in Seq(Entries)
    BY <2>2 DEF Thins
  <2>7. recursion > 0 => Len(list') = Len(list)
    BY <2>1, <1>0, WithoutThins
  <2>8. \A k \in DOMAIN list' : \E j \in DOMAIN list : list'[k] \in {list[j], NullEntry(list[j])}
    BY <2>2 DEF Thins
  <2>9. Listed'
    <3>1. Once(list')
      BY <1>0, <2>2, ThinInOrder
    <3> QED BY <3>1, <2>1, <2>5 DEF ListInv, Listed
  <2>10. Order'
    <3>1. InOrder(list')
      BY <1>0, <2>2, ThinInOrder DEF ListInv, Order
    <3>2. insertionOffset + 0 = insertionOffset /\ insertionOffset \in Nat
      BY DEF ListInv, Offsets
    <3>3. Descends(list', insertionOffset)
      BY <1>0, <2>2, <3>2, ThinSorted DEF ListInv, Order
    <3> QED BY <3>1, <3>3 DEF Order
  <2>11. Offsets'
    <3>1. CASE recursion = 0
      <4>1. startOffset = 0 /\ Len(list') \in Nat
        BY <3>1, <2>6, ListIs
      <4> QED BY <4>1 DEF ListInv, Offsets
    <3>2. CASE recursion > 0
      <4>1. DOMAIN list = 1..Len(list) /\ DOMAIN list' = 1..Len(list) /\ Len(list') = Len(list)
        BY <3>2, <2>6, <2>7, <1>0, ListIs
      <4>2. \A k \in 1..startOffset : list'[k].event = NullEvent
        <5>1. \A k \in DOMAIN list :
                list'[k] = IF IsFor(list[k], rcv, type) THEN NullEntry(list[k]) ELSE list[k]
          BY <2>1, <3>2 DEF Without
        <5>2. \A k \in DOMAIN list : list[k] \in Entries /\ NullEntry(list[k]).event = NullEvent
          BY <1>0, ListIs, NullIs
        <5>3. \A k \in 1..startOffset : k \in DOMAIN list /\ list[k].event = NullEvent
          BY <4>1, <1>0 DEF ListInv, Offsets
        <5> QED BY <5>1, <5>2, <5>3
      <4> QED BY <4>1, <4>2 DEF ListInv, Offsets
    <3> QED BY <3>1, <3>2
  <2>12. ASSUME NEW r \in Receivers
         PROVE  /\ postedEvents'[r] = Cardinality(LiveFor(list', r))
                /\ Cardinality(LiveFor(list', r)) \in Nat
    <3>0. /\ postedEvents[r] = Cardinality(LiveFor(list, r)) /\ r # NoReceiver
          /\ postedEvents'[r] = postedEvents[r] - IF rcv \in {NoReceiver, r}
                                                   THEN Cardinality(Pending(r, type)) ELSE 0
      BY <2>1, PostEventListAssumption DEF ListInv, Counts
    <3>1. IsFiniteSet(LiveFor(list, r)) /\ Cardinality(LiveFor(list, r)) \in Nat
      BY <1>0, LiveFinite
    <3>2. /\ Cardinality(LiveFor(list', r)) =
               Cardinality(LiveFor(list, r)) - Cardinality(LiveFor(list, r) \cap Pending(rcv, type))
          /\ Cardinality(LiveFor(list', r)) \in Nat
      BY <3>1, <2>5, <2>6, FS_Difference, LiveFinite
    <3>3. CASE rcv \in {NoReceiver, r}
      <4>1. LiveFor(list, r) \cap Pending(rcv, type) = Pending(r, type)
        <5>1. ASSUME NEW x \in LiveFor(list, r), x \in Pending(rcv, type) PROVE x \in Pending(r, type)
          <6>1. PICK j \in DOMAIN list : x = list[j].event /\ x # NullEvent /\ list[j].rcv = r
            BY DEF LiveFor
          <6>2. PICK k \in DOMAIN list : x = list[k].event /\ IsFor(list[k], rcv, type)
            BY <5>1 DEF Pending
          <6>3. j = k
            BY <6>1, <6>2, <1>0 DEF Once
          <6> QED BY <6>1, <6>2, <6>3 DEF IsFor, Pending
        <5>2. ASSUME NEW x \in Pending(r, type) PROVE x \in LiveFor(list, r) /\ x \in Pending(rcv, type)
          <6>1. PICK k \in DOMAIN list : x = list[k].event /\ IsFor(list[k], r, type)
            BY DEF Pending
          <6>2. list[k].rcv = r
            BY <6>1, <3>0 DEF IsFor
          <6> QED BY <6>1, <6>2, <3>3 DEF IsFor, Pending, LiveFor
        <5> QED BY <5>1, <5>2
      <4> QED BY <4>1, <3>0, <3>2, <3>3
    <3>4. CASE rcv \notin {NoReceiver, r}
      <4>1. LiveFor(list, r) \cap Pending(rcv, type) = {}
        <5> SUFFICES ASSUME NEW x \in LiveFor(list, r), x \in Pending(rcv, type) PROVE FALSE
          OBVIOUS
        <5>1. PICK j \in DOMAIN list : x = list[j].event /\ x # NullEvent /\ list[j].rcv = r
          BY DEF LiveFor
        <5>2. PICK k \in DOMAIN list : x = list[k].event /\ IsFor(list[k], rcv, type)
          BY DEF Pending
        <5>3. j = k
          BY <5>1, <5>2, <1>0 DEF Once
        <5> QED BY <5>1, <5>2, <5>3, <3>4 DEF IsFor
      <4>2. Cardinality(LiveFor(list, r) \cap Pending(rcv, type)) = 0
        BY <4>1, FS_EmptySet
      <4> QED BY <4>2, <3>0, <3>1, <3>2, <3>4
    <3> QED BY <3>2, <3>3, <3>4
  <2>13. Counts'
    <3>1. postedEvents' \in [Receivers -> Nat]
      <4>1. \A r \in Receivers : postedEvents'[r] \in Nat
        BY <2>12
      <4>2. postedEvents' = [r \in Receivers |-> postedEvents'[r]]
        BY <2>1
      <4> QED BY <4>1, <4>2
    <3>2. ASSUME NEW r \in Receivers \ alive' PROVE LiveFor(list', r) = {}
      <4>1. CASE r \notin alive
        <5>1. LiveFor(list, r) = {}
          BY <4>1 DEF ListInv, Counts
        <5> QED BY <5>1, <2>5
      <4>2. CASE r \in alive
        <5>1. r = rcv /\ type = AnyType /\ r # NoReceiver
          BY <4>2, <3>2, PostEventListAssumption
        <5>2. LiveFor(list, r) \subseteq Pending(r, AnyType)
          BY DEF LiveFor, Pending, IsFor
        <5> QED BY <5>1, <5>2, <2>5
      <4> QED BY <4>1, <4>2
    <3>3. alive' \subseteq Receivers
      BY DEF ListInv, Counts
    <3> QED BY <3>1, <3>2, <3>3, <2>12 DEF Counts
  <2> QED BY <2>1, <2>6, <2>7, <2>8, <2>9, <2>10, <2>11, <2>13 DEF ListInv
<1> QED BY <1>1, <1>2

\* The place in the list of a call in its loop.
LEMMA AtPlace ==
  ASSUME ListInv, InRound, Top.at \in Nat
  PROVE  /\ At + 1 \in DOMAIN list /\ At + 1 \in Nat /\ Current = list[At + 1] /\ Current \in Entries
         /\ SendsAll => At = startOffset /\ At + 1 <= insertionOffset
<1>1. At \in Nat /\ (SendsAll => At = startOffset)
  BY DEF At, ListInv, Offsets
<1>2. At < Len(list) /\ At < insertionOffset /\ insertionOffset \in Nat
  BY DEF InRound, ListInv, Offsets
<1>3. Len(list) \in Nat /\ DOMAIN list = 1..Len(list) /\ \A k \in DOMAIN list : list[k] \in Entries
  BY ListIs DEF ListInv
<1>4. At + 1 \in DOMAIN list /\ At + 1 \in Nat /\ At + 1 <= insertionOffset
  BY <1>1, <1>2, <1>3
<1> QED BY <1>1, <1>3, <1>4 DEF Current

\* ++startOffset behind an entry that is null now.
LEMMA Passes ==
  ASSUME ListInv, SendsAll, list' \in Seq(Entries), Len(list') >= Len(list),
         startOffset + 1 \in DOMAIN list, startOffset + 1 <= insertionOffset,
         list'[startOffset + 1].event = NullEvent,
         \A k \in 1..startOffset : list'[k].event = NullEvent,
         startOffset' = startOffset + 1, insertionOffset' = insertionOffset
  PROVE  Offsets'
<1>1. /\ Len(list) \in Nat /\ DOMAIN list = 1..Len(list) /\ Len(list') \in Nat
      /\ startOffset \in Nat /\ insertionOffset \in Nat
  BY ListIs DEF ListInv, Offsets
<1>2. \A k \in 1..(startOffset + 1) : k \in 1..startOffset \/ k = startOffset + 1
  BY <1>1
<1>3. \A k \in 1..(startOffset + 1) : list'[k].event = NullEvent
  BY <1>2
<1>4. startOffset + 1 \in 0..Len(list')
  BY <1>1
<1> QED BY <1>1, <1>3, <1>4 DEF Offsets

\* Going past an entry that is not sent.
LEMMA SkipKeeps ==
  ASSUME ListInv, SkipEvent, Top.at \in Nat
  PROVE  ListInv'
<1>1. /\ InRound /\ ~IsFor(Current, Top.rcv, Top.type) /\ Advance
      /\ UNCHANGED <<list, insertionOffset, postedEvents, alive, serial, owed>>
  BY DEF SkipEvent, objectVars, ghostVars
<1>2. Offsets'
  <2>1. CASE SendsAll
    <3>1. /\ At = startOffset /\ startOffset + 1 \in DOMAIN list /\ Current = list[startOffset + 1]
          /\ startOffset + 1 <= insertionOffset
      BY <1>1, <2>1, AtPlace
    <3>2. list[startOffset + 1].event = NullEvent
      BY <1>1, <2>1, <3>1 DEF IsFor, SendsAll
    <3>3. startOffset' = startOffset + 1
      BY <1>1, <2>1 DEF Advance
    <3>4. /\ list' \in Seq(Entries) /\ Len(list') >= Len(list)
          /\ \A k \in 1..startOffset : list'[k].event = NullEvent
      BY <1>1, ListIs DEF ListInv, Offsets
    <3> QED BY <1>1, <2>1, <3>1, <3>2, <3>3, <3>4, Passes
  <2>2. CASE ~SendsAll
    BY <1>1, <2>2 DEF Advance, ListInv, Offsets
  <2> QED BY <2>1, <2>2
<1>3. Listed' /\ Counts' /\ Order'
  BY <1>1 DEF ListInv, Listed, Counts, Order
<1> QED BY <1>1, <1>2, <1>3 DEF ListInv

\* Putting a postponed delete back is inserting it into the list without it.
LEMMA PutBack ==
  ASSUME NEW l \in Seq(Entries), NEW k \in DOMAIN l, NEW a, NEW i, NEW from \in Nat,
         Inserted(a, l, i, l[k]), Fits(l, from, i, l[k]), k < i
  PROVE  Inserted(Nulled(a, k), Nulled(l, k), i, l[k]) /\ Fits(Nulled(l, k), from, i, l[k])
<1> DEFINE n == Nulled(l, k)
           b == Nulled(a, k)
<1>0. /\ Len(l) \in Nat /\ DOMAIN l = 1..Len(l) /\ Len(a) = Len(l) + 1 /\ a \in Seq(Entries)
      /\ DOMAIN a = 1..(Len(l) + 1) /\ i \in 1..(Len(l) + 1) /\ k \in Nat
      /\ NullEntry(l[k]).priority = l[k].priority
  BY ListIs, NullIs DEF Inserted, Fits
<1>1. k \in DOMAIN a /\ a[k] = l[k]
  BY <1>0 DEF Inserted
<1>2. /\ Len(n) = Len(l) /\ n[k] = NullEntry(l[k]) /\ \A j \in DOMAIN l \ {k} : n[j] = l[j]
      /\ n \in Seq(Entries)
  BY NulledThins
<1>3. /\ Len(b) = Len(a) /\ b[k] = NullEntry(l[k]) /\ \A j \in DOMAIN a \ {k} : b[j] = a[j]
      /\ b \in Seq(Entries)
  <2>1. /\ Nulled(a, k) \in Seq(Entries) /\ Len(Nulled(a, k)) = Len(a)
        /\ Nulled(a, k)[k] = NullEntry(a[k])
        /\ \A j \in DOMAIN a \ {k} : Nulled(a, k)[j] = a[j]
    BY <1>0, <1>1, NulledThins
  <2> QED BY <2>1, <1>1
<1> HIDE DEF n, b
<1>4. ASSUME NEW j \in 1..(Len(l) + 1)
      PROVE  b[j] = IF j < i THEN n[j] ELSE IF j = i THEN l[k] ELSE n[j - 1]
  <2>1. a[j] = IF j < i THEN l[j] ELSE IF j = i THEN l[k] ELSE l[j - 1]
    BY DEF Inserted
  <2>2. CASE j = k
    BY <2>2, <1>2, <1>3
  <2>3. CASE j # k /\ j < i
    <3>1. j \in DOMAIN l \ {k} /\ j \in DOMAIN a \ {k}
      BY <2>3, <1>0
    <3> QED BY <2>1, <2>3, <3>1, <1>2, <1>3
  <2>4. CASE j = i
    <3>1. j \in DOMAIN a \ {k} /\ ~(j < i)
      BY <2>4, <1>0
    <3> QED BY <2>1, <2>4, <3>1, <1>3
  <2>5. CASE j > i
    <3>1. j - 1 \in DOMAIN l \ {k} /\ j \in DOMAIN a \ {k} /\ ~(j < i) /\ j # i
      BY <2>5, <1>0
    <3> QED BY <2>1, <3>1, <1>2, <1>3
  <2> QED BY <2>2, <2>3, <2>4, <2>5, <1>0
<1>5. Inserted(b, n, i, l[k])
  BY <1>0, <1>2, <1>3, <1>4 DEF Inserted
<1>6. Fits(n, from, i, l[k])
  <2>1. DOMAIN n = DOMAIN l /\ \A j \in DOMAIN l : n[j].priority = l[j].priority
    BY <1>0, <1>2, ListIs
  <2> QED BY <2>1, <1>2 DEF Fits
<1> QED BY <1>5, <1>6 DEF n, b

\* Putting a delete back that has to wait.
LEMMA PostponeKeeps ==
  ASSUME ListInv, PostponeDelete, Top.at \in Nat
  PROVE  /\ ListInv' /\ Len(list') >= Len(list)
         /\ \A k \in DOMAIN list' : \E j \in DOMAIN list : list'[k] \in {list[j], NullEntry(list[j])}
<1> DEFINE k == At + 1
           e == Current
<1>1. /\ InRound /\ Advance /\ e.event # NullEvent /\ e.type = Deleting
      /\ UNCHANGED <<insertionOffset, postedEvents, alive, serial, owed>>
  BY DEF PostponeDelete, IsFor, MustWait, objectVars, ghostVars
<1>0. /\ list \in Seq(Entries) /\ Len(list) \in Nat /\ DOMAIN list = 1..Len(list)
      /\ insertionOffset \in Nat /\ startOffset \in Nat
  BY ListIs DEF ListInv, Offsets
<1>2. CASE ~SendsAll
  <2>1. list' = list /\ startOffset' = startOffset
    BY <1>1, <1>2 DEF PostponeDelete, Advance
  <2>2. Offsets' /\ Listed' /\ Counts' /\ Order'
    BY <1>1, <2>1 DEF ListInv, Offsets, Listed, Counts, Order
  <2> QED BY <1>0, <2>1, <2>2 DEF ListInv
<1>3. CASE SendsAll
  <2>1. /\ k \in DOMAIN list /\ k \in Nat /\ e = list[k] /\ e \in Entries /\ k = startOffset + 1
        /\ k <= insertionOffset
    BY <1>1, <1>3, AtPlace
  <2>2. list' = Nulled(AddEvent(list, e), k) /\ startOffset' = startOffset + 1
    BY <1>1, <1>3 DEF PostponeDelete, Advance
  <2> HIDE DEF k, e
  <2> DEFINE n == Nulled(list, k)
  <2>3. PICK i : Inserted(AddEvent(list, e), list, i, e) /\ Fits(list, insertionOffset, i, e)
    BY <1>0, <2>1, AddedAt DEF ListInv, Order
  <2>4. i \in 1..(Len(list) + 1) /\ k < i
    BY <2>1, <2>3, <1>0 DEF Fits
  <2>5. Inserted(list', n, i, e) /\ Fits(n, insertionOffset, i, e)
    BY <1>0, <2>1, <2>2, <2>3, <2>4, PutBack
  <2>6. PICK f : Thins(n, list, f, {k}, 0)
    BY <1>0, <2>1, NulledThins
  <2>7. /\ n \in Seq(Entries) /\ Len(n) = Len(list) /\ n[k] = NullEntry(list[k])
        /\ \A j \in DOMAIN list \ {k} : n[j] = list[j]
    BY <1>0, <2>1, <2>6, NulledThins DEF Thins
  <2> HIDE DEF n
  <2>8. /\ i \in 1..(Len(n) + 1) /\ list' \in Seq(Entries) /\ Len(list') = Len(list) + 1
    BY <2>4, <2>5, <2>7 DEF Inserted
  <2>9. Once(n) /\ InOrder(n) /\ Descends(n, insertionOffset)
    <3>1. insertionOffset + 0 = insertionOffset
      BY <1>0
    <3>2. Once(list) /\ InOrder(list) /\ Descends(list, insertionOffset)
      BY DEF ListInv, Listed, Order
    <3> QED BY <1>0, <2>6, <3>1, <3>2, ThinInOrder, ThinSorted
  <2>10. /\ Live(n) = Live(list) \ {e.event}
         /\ \A r : LiveFor(n, r) = LiveFor(list, r) \ {e.event}
    <3> DEFINE gone == {k}
    <3>1. gone \subseteq DOMAIN list /\ Once(list) /\ Thins(n, list, f, gone, 0)
      BY <2>1, <2>6 DEF ListInv, Listed
    <3>2. EventsAt(list, gone) = {e.event}
      BY <2>1 DEF EventsAt
    <3> HIDE DEF gone
    <3>3. /\ Live(n) = Live(list) \ EventsAt(list, gone)
          /\ \A r : LiveFor(n, r) = LiveFor(list, r) \ EventsAt(list, gone)
      BY <1>0, <3>1, ThinLive
    <3> QED BY <3>2, <3>3
  <2>11. e.event \in Live(list) /\ e.event # NullEvent /\ e.type = Deleting
    BY <2>1, <1>1 DEF Live, e
  <2>12. \A r : (e.rcv = r) <=> e.event \in LiveFor(list, r)
    <3>1. ASSUME NEW r, e.rcv = r PROVE e.event \in LiveFor(list, r)
      BY <2>1, <2>11, <3>1 DEF LiveFor
    <3>2. ASSUME NEW r, e.event \in LiveFor(list, r) PROVE e.rcv = r
      <4>1. PICK j \in DOMAIN list : list[j].event = e.event /\ list[j].rcv = r
        BY <3>2 DEF LiveFor
      <4>2. j = k
        BY <4>1, <2>1, <2>11 DEF ListInv, Listed, Once
      <4> QED BY <4>1, <4>2, <2>1
    <3> QED BY <3>1, <3>2
  <2>13. Live(list') = Live(list) /\ \A r : LiveFor(list', r) = LiveFor(list, r)
    <3>1. /\ Live(list') = Live(n) \cup {e.event}
          /\ \A r : LiveFor(list', r) = LiveFor(n, r) \cup (IF e.rcv = r THEN {e.event} ELSE {})
      BY <2>1, <2>5, <2>7, <2>8, <2>11, InsertedLive
    <3>2. Live(list') = Live(list)
      BY <3>1, <2>10, <2>11
    <3>3. ASSUME NEW r PROVE LiveFor(list', r) = LiveFor(list, r)
      BY <3>1, <2>10, <2>12
    <3> QED BY <3>2, <3>3
  <2>14. Listed' /\ Counts'
    <3>1. Once(list')
      <4>1. e.event \notin Live(n)
        BY <2>10
      <4> QED BY <4>1, <2>1, <2>5, <2>7, <2>8, <2>9, InsertedOnce
    <3> QED BY <3>1, <1>1, <2>13 DEF ListInv, Listed, Counts
  <2>15. Order'
    <3>1. Descends(list', insertionOffset)
      BY <1>0, <2>1, <2>5, <2>7, <2>9, InsertedSorted
    <3>2. InOrder(list')
      BY <1>0, <2>1, <2>5, <2>7, <2>9, <2>11, InsertedInOrder
    <3> QED BY <3>1, <3>2, <1>1 DEF Order
  <2>16. Offsets'
    <3>1. ASSUME NEW j \in 1..k PROVE list'[j].event = NullEvent
      <4>1. j \in DOMAIN list /\ j < i /\ j \in 1..(Len(n) + 1)
        BY <1>0, <2>1, <2>4, <2>7
      <4>2. list'[j] = n[j]
        BY <4>1, <2>5 DEF Inserted
      <4>3. CASE j = k
        BY <4>2, <4>3, <2>1, <2>7, NullIs
      <4>4. CASE j # k
        <5>1. j \in 1..startOffset
          BY <4>4, <2>1, <1>0
        <5> QED BY <4>1, <4>2, <4>4, <5>1, <2>7 DEF ListInv, Offsets
      <4> QED BY <4>3, <4>4
    <3>2. k \in 1..k /\ \A j \in 1..startOffset : j \in 1..k
      BY <2>1, <1>0
    <3>3. Len(list') >= Len(list)
      BY <2>8, <1>0
    <3> QED BY <1>1, <1>3, <2>1, <2>2, <2>8, <3>1, <3>2, <3>3, Passes
  <2>17. ASSUME NEW j \in DOMAIN list'
         PROVE  \E h \in DOMAIN list : list'[j] \in {list[h], NullEntry(list[h])}
    <3>1. /\ list'[i] = e
          /\ \A h \in DOMAIN list' \ {i} :
               \E g \in DOMAIN n : list'[h] = n[g] /\ g = IF h < i THEN h ELSE h - 1
      <4>1. n \in Seq(Entries) /\ e \in Entries /\ i \in 1..(Len(n) + 1) /\ Inserted(list', n, i, e)
        BY <2>1, <2>5, <2>7, <2>8
      <4> QED BY <4>1, InsertedFrom
    <3>2. \A g \in DOMAIN n : g \in DOMAIN list /\ n[g] \in {list[g], NullEntry(list[g])}
      BY <2>7, <1>0, ListIs
    <3> QED BY <3>1, <3>2, <2>1
  <2>18. Len(list') >= Len(list)
    BY <2>8, <1>0
  <2> QED BY <2>8, <2>14, <2>15, <2>16, <2>17, <2>18 DEF ListInv
<1> QED BY <1>2, <1>3

\* Taking an event out to send it.
LEMMA SendKeeps ==
  ASSUME ListInv, SendEvent, Top.at \in Nat
  PROVE  /\ ListInv' /\ Len(list') = Len(list)
         /\ owed' = owed \ {Current.event} /\ Current.event \in owed
         /\ \A k \in DOMAIN list' : \E j \in DOMAIN list : list'[k] \in {list[j], NullEntry(list[j])}
<1> DEFINE k == At + 1
           e == Current
<1>1. /\ InRound /\ e.event # NullEvent /\ owed' = owed \ {e.event}
      /\ list' = Nulled(list, k)
      /\ postedEvents' = [postedEvents EXCEPT ![e.rcv] = @ - 1]
      /\ startOffset' = IF SendsAll THEN startOffset + 1 ELSE startOffset
      /\ UNCHANGED <<insertionOffset, alive, serial>>
  BY DEF SendEvent, IsFor
<1>0. /\ list \in Seq(Entries) /\ Len(list) \in Nat /\ DOMAIN list = 1..Len(list)
      /\ insertionOffset \in Nat /\ startOffset \in Nat
  BY ListIs DEF ListInv, Offsets
<1>2. /\ k \in DOMAIN list /\ k \in Nat /\ e = list[k] /\ e \in Entries
      /\ SendsAll => k = startOffset + 1 /\ k <= insertionOffset
  BY <1>1, AtPlace
<1> HIDE DEF k, e
<1>3. PICK f : Thins(list', list, f, {k}, 0)
  BY <1>0, <1>1, <1>2, NulledThins
<1>4. /\ list' \in Seq(Entries) /\ Len(list') = Len(list) /\ list'[k] = NullEntry(list[k])
      /\ \A j \in DOMAIN list \ {k} : list'[j] = list[j]
  BY <1>0, <1>1, <1>2, <1>3, NulledThins DEF Thins
<1>5. /\ Live(list') = Live(list) \ {e.event}
      /\ \A r : LiveFor(list', r) = LiveFor(list, r) \ {e.event}
  <2> DEFINE gone == {k}
  <2>1. gone \subseteq DOMAIN list /\ Once(list) /\ Thins(list', list, f, gone, 0)
    BY <1>2, <1>3 DEF ListInv, Listed
  <2>2. EventsAt(list, gone) = {e.event}
    BY <1>2 DEF EventsAt
  <2> HIDE DEF gone
  <2>3. /\ Live(list') = Live(list) \ EventsAt(list, gone)
        /\ \A r : LiveFor(list', r) = LiveFor(list, r) \ EventsAt(list, gone)
    BY <1>0, <2>1, ThinLive
  <2> QED BY <2>2, <2>3
<1>6. Listed' /\ Order'
  <2>1. Once(list') /\ InOrder(list') /\ Descends(list', insertionOffset)
    <3>1. insertionOffset + 0 = insertionOffset
      BY <1>0
    <3>2. Once(list) /\ InOrder(list) /\ Descends(list, insertionOffset)
      BY DEF ListInv, Listed, Order
    <3> QED BY <1>0, <1>3, <3>1, <3>2, ThinInOrder, ThinSorted
  <2> QED BY <2>1, <1>1, <1>5 DEF ListInv, Listed, Order
<1>7. e.event \in owed
  BY <1>1, <1>2 DEF ListInv, Listed, Live, e
<1>8. Counts'
  <2>0. postedEvents \in [Receivers -> Nat]
    BY DEF ListInv, Counts
  <2>1. ASSUME NEW r \in Receivers
        PROVE  /\ postedEvents'[r] = Cardinality(LiveFor(list', r))
               /\ Cardinality(LiveFor(list', r)) \in Nat
    <3>0. /\ IsFiniteSet(LiveFor(list, r)) /\ Cardinality(LiveFor(list', r)) \in Nat
          /\ postedEvents[r] = Cardinality(LiveFor(list, r))
      BY <1>0, <1>4, LiveFinite DEF ListInv, Counts
    <3>1. Cardinality(LiveFor(list', r)) =
            IF e.event \in LiveFor(list, r) THEN Cardinality(LiveFor(list, r)) - 1
                                          ELSE Cardinality(LiveFor(list, r))
      BY <3>0, <1>5, FS_RemoveElement
    <3>2. CASE e.rcv = r
      <4>1. e.event \in LiveFor(list, r)
        BY <1>1, <1>2, <3>2 DEF LiveFor, e
      <4>2. postedEvents'[r] = postedEvents[r] - 1
        BY <1>1, <2>0, <3>2 DEF e
      <4> QED BY <4>1, <4>2, <3>0, <3>1
    <3>3. CASE e.rcv # r
      <4>1. e.event \notin LiveFor(list, r)
        <5> SUFFICES ASSUME e.event \in LiveFor(list, r) PROVE FALSE
          OBVIOUS
        <5>1. PICK j \in DOMAIN list : list[j].event = e.event /\ e.event # NullEvent /\ list[j].rcv = r
          BY DEF LiveFor
        <5>2. j = k
          BY <5>1, <1>2 DEF ListInv, Listed, Once
        <5> QED BY <5>1, <5>2, <1>2, <3>3
      <4>2. postedEvents'[r] = postedEvents[r]
        BY <1>1, <2>0, <3>3 DEF e
      <4> QED BY <4>1, <4>2, <3>0, <3>1
    <3> QED BY <3>0, <3>2, <3>3
  <2>2. postedEvents' \in [Receivers -> Nat]
    <3>1. DOMAIN postedEvents' = Receivers /\ postedEvents' = [r \in Receivers |-> postedEvents'[r]]
      BY <1>1, <2>0 DEF e
    <3>2. \A r \in Receivers : postedEvents'[r] \in Nat
      BY <2>1
    <3> QED BY <3>1, <3>2
  <2>3. \A r \in Receivers \ alive : LiveFor(list', r) = {}
    BY <1>5 DEF ListInv, Counts
  <2> QED BY <2>1, <2>2, <2>3, <1>1 DEF ListInv, Counts
<1>9. Offsets'
  <2>1. ASSUME NEW j \in 1..startOffset PROVE list'[j].event = NullEvent
    <3>1. j \in DOMAIN list /\ list[j].event = NullEvent
      BY <1>0 DEF ListInv, Offsets
    <3>2. j # k
      BY <1>1, <1>2, <3>1 DEF e
    <3> QED BY <3>1, <3>2, <1>4
  <2>2. list'[k].event = NullEvent
    BY <1>2, <1>4, NullIs
  <2>3. CASE SendsAll
    <3>1. Len(list') >= Len(list)
      BY <1>0, <1>4
    <3> QED BY <1>1, <1>2, <1>4, <2>1, <2>2, <2>3, <3>1, Passes
  <2>4. CASE ~SendsAll
    BY <1>0, <1>1, <1>4, <2>1, <2>4 DEF ListInv, Offsets
  <2> QED BY <2>3, <2>4
<1>10. \A j \in DOMAIN list' : \E h \in DOMAIN list : list'[j] \in {list[h], NullEntry(list[h])}
  <2>1. DOMAIN list' = DOMAIN list
    BY <1>0, <1>4, ListIs
  <2> QED BY <2>1, <1>2, <1>4
<1> QED BY <1>1, <1>4, <1>6, <1>7, <1>8, <1>9, <1>10 DEF ListInv, e

\* Erasing what a call for everything went past.
LEMMA SendDoneKeeps ==
  ASSUME ListInv, SendDone
  PROVE  /\ ListInv'
         /\ \A k \in DOMAIN list' : \E j \in DOMAIN list : list'[k] \in {list[j], NullEntry(list[j])}
         /\ SendsAll => insertionOffset' = insertionOffset - startOffset /\ startOffset' = 0
                        /\ Len(list') = Len(list) - startOffset
<1>0. /\ list \in Seq(Entries) /\ Len(list) \in Nat /\ DOMAIN list = 1..Len(list)
      /\ insertionOffset \in Nat /\ startOffset \in Nat /\ startOffset <= insertionOffset
      /\ startOffset \in 0..Len(list)
  BY ListIs DEF ListInv, Offsets
<1>1. UNCHANGED <<postedEvents, alive, serial, owed>>
  BY DEF SendDone, objectVars, ghostVars
<1>2. CASE ~SendsAll
  <2>1. UNCHANGED <<list, startOffset, insertionOffset>>
    BY <1>2 DEF SendDone
  <2>2. Offsets' /\ Listed' /\ Counts' /\ Order'
    BY <1>1, <2>1 DEF ListInv, Offsets, Listed, Counts, Order
  <2> QED BY <1>0, <1>2, <2>1, <2>2 DEF ListInv
<1>3. CASE SendsAll
  <2>1. /\ list' = SubSeq(list, startOffset + 1, Len(list)) /\ startOffset' = 0
        /\ insertionOffset' = insertionOffset - startOffset
    BY <1>3 DEF SendDone
  <2>2. \A k \in 1..startOffset : list[k].event = NullEvent
    BY DEF ListInv, Offsets
  <2>3. /\ \E f : Thins(list', list, f, {}, startOffset)
        /\ Len(list') = Len(list) - startOffset /\ list' \in Seq(Entries)
    BY <1>0, <2>1, <2>2, DroppedThins
  <2>4. PICK f : Thins(list', list, f, {}, startOffset)
    BY <2>3
  <2>5. Live(list') = Live(list) /\ \A r : LiveFor(list', r) = LiveFor(list, r)
    <3>1. {} \subseteq DOMAIN list /\ EventsAt(list, {}) = {} /\ Once(list)
      BY DEF EventsAt, ListInv, Listed
    <3>2. /\ Live(list') = Live(list) \ EventsAt(list, {})
          /\ \A r : LiveFor(list', r) = LiveFor(list, r) \ EventsAt(list, {})
      BY <1>0, <2>4, <3>1, ThinLive
    <3> QED BY <3>1, <3>2
  <2>6. Listed' /\ Counts'
    <3>1. Once(list')
      BY <1>0, <2>4, ThinInOrder DEF ListInv, Listed
    <3> QED BY <3>1, <1>1, <2>5 DEF ListInv, Listed, Counts
  <2>7. Order'
    <3>1. insertionOffset' \in Nat /\ insertionOffset' + startOffset = insertionOffset
      BY <1>0, <2>1
    <3>2. Descends(list', insertionOffset')
      BY <1>0, <2>4, <3>1, ThinSorted DEF ListInv, Order
    <3>3. InOrder(list')
      BY <1>0, <2>4, ThinInOrder DEF ListInv, Order
    <3> QED BY <3>2, <3>3 DEF Order
  <2>8. Offsets'
    <3>1. insertionOffset - startOffset \in Nat
      BY <1>0
    <3>2. Len(list') \in Nat
      BY <2>3, ListIs
    <3>3. 0 \in 0..Len(list') /\ 0 <= insertionOffset - startOffset /\ 1..0 = {}
      BY <3>1, <3>2
    <3> QED BY <2>1, <3>1, <3>3 DEF Offsets
  <2>9. \A k \in DOMAIN list' : \E j \in DOMAIN list : list'[k] \in {list[j], NullEntry(list[j])}
    BY <2>4 DEF Thins
  <2> QED BY <2>1, <2>3, <2>6, <2>7, <2>8, <2>9 DEF ListInv
<1> QED BY <1>2, <1>3

\* The beginning of a call moves the insertion point to the end.
LEMMA BeginKeeps ==
  ASSUME ListInv, BeginSend
  PROVE  ListInv'
<1>0. list \in Seq(Entries) /\ Len(list) \in Nat /\ DOMAIN list = 1..Len(list)
  BY ListIs DEF ListInv
<1>1. /\ UNCHANGED <<list, startOffset, postedEvents, alive, serial, owed>>
      /\ insertionOffset' \in {insertionOffset, Len(list)}
  BY DEF BeginSend, objectVars, ghostVars
<1>2. Offsets'
  BY <1>0, <1>1 DEF ListInv, Offsets
<1>3. Listed' /\ Counts'
  BY <1>1 DEF ListInv, Listed, Counts
<1>4. Order'
  <2>1. Descends(list, Len(list))
    BY <1>0 DEF Descends
  <2> QED BY <2>1, <1>1 DEF ListInv, Order
<1> QED BY <1>0, <1>1, <1>2, <1>3, <1>4 DEF ListInv

-----------------------------------------------------------------------------
(* The inductive invariant: the calls in progress.                         *)

\* A frame that is delivering an event, one that counts for loopLevel, and a call that moves
\* the list's own startOffset.
Delivers(f) == f.kind = "send" /\ f.entry.event # NullEvent
Raises(f) == f.kind = "exec" \/ Delivers(f)
Everything(f) == f.kind = "send" /\ f.begun /\ f.rcv = NoReceiver /\ f.type = AnyType

SendsTo(s, n) == {i \in 1..n : s[i].kind = "send"}
RaisingTo(s, n) == {i \in 1..n : Raises(s[i])}

StackInv ==
  /\ stack \in Seq(Frames)
  /\ recursion = Cardinality(SendsTo(stack, Len(stack)))
  /\ loopLevel = Cardinality(RaisingTo(stack, Len(stack)))
  /\ startOffset > 0 => \E k \in DOMAIN stack : Everything(stack[k])

\* Without calls for one object or type, the insertion point is in the list, and at its
\* beginning unless somebody is sending.
Whole ==
  "send" \notin Calls =>
    /\ \A k \in DOMAIN stack :
         stack[k].kind = "send" => stack[k].rcv = NoReceiver /\ stack[k].type = AnyType
    /\ insertionOffset <= Len(list)
    /\ insertionOffset > 0 => \E k \in DOMAIN stack : Everything(stack[k])

\* What is being delivered has left the list, and is delivered once.
Delivered ==
  /\ \A k \in DOMAIN stack :
       Delivers(stack[k]) => stack[k].begun /\ stack[k].entry.event \in (1..serial) \ owed
  /\ \A j, k \in DOMAIN stack :
       Delivers(stack[j]) /\ Delivers(stack[k]) /\ stack[j].entry.event = stack[k].entry.event
         => j = k

\* While the handler that asked for a deferred delete is running, the delete has a level, and
\* none above that handler's.
Asked ==
  \A k \in DOMAIN list :
    /\ list[k].by \in (0..serial) \ owed
    /\ list[k].event # NullEvent /\ list[k].type = Deleting =>
         \A j \in DOMAIN stack :
           Delivers(stack[j]) /\ stack[j].entry.event = list[k].by =>
             1 <= list[k].level /\ list[k].level <= Cardinality(RaisingTo(stack, j))

Flags == program \in Programs /\ canWait \in BOOLEAN /\ interrupt \in BOOLEAN /\ wake \in BOOLEAN

IInv ==
  /\ ListInv /\ StackInv /\ Flags /\ Whole
  /\ Delivered /\ Asked /\ DeferredDeleteWaits

-----------------------------------------------------------------------------
(* Frames and stacks.                                                      *)

SendFrames == [kind : {"send"}, rcv : Receivers \cup {NoReceiver}, type : Types \cup {AnyType},
               begun : BOOLEAN, at : Nat, entry : Entries]

\* The kinds of frames.
LEMMA FrameIs ==
  ASSUME NEW f \in Frames
  PROVE  /\ f.kind = "send" => f \in SendFrames
         /\ f.kind = "exec" => f \in [kind : {"exec"}, exit : BOOLEAN]
         /\ f.kind = "process" => f \in [kind : {"process"}, wait : BOOLEAN, sent : BOOLEAN]
         /\ f.kind \in {"send", "exec", "process"}
  BY DEF Frames, SendFrames

\* The fields of a frame of sendPostedEvents.
LEMMA SendFrameIs ==
  ASSUME NEW f \in SendFrames
  PROVE  /\ f \in Frames /\ f.kind = "send"
         /\ f.rcv \in Receivers \cup {NoReceiver} /\ f.type \in Types \cup {AnyType}
         /\ f.begun \in BOOLEAN /\ f.at \in Nat /\ f.entry \in Entries
  BY DEF Frames, SendFrames

\* Nothing is being delivered.
LEMMA NoEntryIs == NoEntry \in Entries /\ NoEntry.event = NullEvent
  BY PostEventListAssumption DEF NoEntry, Entries, NullEvent, AnyType

\* What sendPostedEvents does to its own frame.
LEMMA FrameChanges ==
  ASSUME NEW f \in SendFrames
  PROVE  /\ \A n \in Nat : /\ [f EXCEPT !.begun = TRUE, !.at = n] \in SendFrames
                           /\ [f EXCEPT !.at = @ + 1] \in SendFrames
                           /\ \A e \in Entries : [f EXCEPT !.entry = e, !.at = n] \in SendFrames
         /\ [f EXCEPT !.entry = NoEntry] \in SendFrames
<1>1. /\ f.rcv \in Receivers \cup {NoReceiver} /\ f.type \in Types \cup {AnyType}
      /\ f.begun \in BOOLEAN /\ f.at \in Nat /\ f.entry \in Entries /\ f.kind = "send"
      /\ f.at + 1 \in Nat
  BY DEF SendFrames
<1>2. ASSUME NEW n \in Nat
      PROVE  /\ [f EXCEPT !.begun = TRUE, !.at = n] \in SendFrames
             /\ [f EXCEPT !.at = @ + 1] \in SendFrames
  BY <1>1 DEF SendFrames
<1>3. ASSUME NEW n \in Nat, NEW e \in Entries
      PROVE  [f EXCEPT !.entry = e, !.at = n] \in SendFrames
  BY <1>1 DEF SendFrames
<1>4. [f EXCEPT !.entry = NoEntry] \in SendFrames
  BY <1>1, NoEntryIs DEF SendFrames
<1> QED BY <1>2, <1>3, <1>4

\* The frames that calls begin with.
LEMMA NewFrames ==
  /\ Exec \in Frames /\ \A wait \in BOOLEAN : Process(wait) \in Frames
  /\ \A rcv \in Receivers \cup {NoReceiver}, type \in Types \cup {AnyType} :
       Send(rcv, type) \in SendFrames
  BY NoEntryIs DEF Exec, Process, Send, Frames, SendFrames

\* Frames that differ at most in what the invariants do not speak about.
Like(f, g) ==
  /\ f.kind = g.kind
  /\ f.kind = "send" => f.rcv = g.rcv /\ f.type = g.type /\ f.begun = g.begun /\ f.entry = g.entry
Alike(s, t, n) == \A k \in 1..n : Like(s[k], t[k])

Kept(s, t) == Len(t) = Len(s) /\ Alike(s, t, Len(s))
Pushed(s, t, f) == Len(t) = Len(s) + 1 /\ Alike(s, t, Len(s)) /\ Like(t[Len(s) + 1], f)
Popped(s, t) == Len(s) > 0 /\ Len(t) = Len(s) - 1 /\ Alike(s, t, Len(s) - 1)
Topped(s, t, f) ==
  Len(s) > 0 /\ Len(t) = Len(s) /\ Alike(s, t, Len(s) - 1) /\ Like(t[Len(s)], f)

\* The stack, frame by frame.
LEMMA StackIs ==
  ASSUME stack \in Seq(Frames)
  PROVE  /\ Len(stack) \in Nat /\ DOMAIN stack = 1..Len(stack)
         /\ \A k \in DOMAIN stack : stack[k] \in Frames
         /\ stack # <<>> => Len(stack) > 0 /\ Len(stack) \in DOMAIN stack /\ Top \in Frames
         /\ TopIs("send") => Top \in SendFrames
<1>1. /\ Len(stack) \in Nat /\ DOMAIN stack = 1..Len(stack)
      /\ \A k \in DOMAIN stack : stack[k] \in Frames
  BY LenProperties
<1>2. stack # <<>> => Len(stack) > 0 /\ Len(stack) \in DOMAIN stack /\ Top \in Frames
  BY <1>1, EmptySeq DEF Top
<1>3. TopIs("send") => Top \in SendFrames
  BY <1>2, FrameIs DEF TopIs
<1> QED BY <1>1, <1>2, <1>3

\* The stack of a call,
LEMMA PushIs ==
  ASSUME stack \in Seq(Frames), NEW f \in Frames
  PROVE  Append(stack, f) \in Seq(Frames) /\ Pushed(stack, Append(stack, f), f)
<1>1. /\ Append(stack, f) \in Seq(Frames) /\ Len(Append(stack, f)) = Len(stack) + 1
      /\ \A k \in 1..Len(stack) : Append(stack, f)[k] = stack[k]
      /\ Append(stack, f)[Len(stack) + 1] = f
  BY AppendProperties
<1> QED BY <1>1 DEF Pushed, Alike, Like

\* of a return,
LEMMA PopIs ==
  ASSUME stack \in Seq(Frames), stack # <<>>
  PROVE  Pop \in Seq(Frames) /\ Popped(stack, Pop)
<1>1. Len(stack) \in Nat /\ Len(stack) > 0 /\ Len(stack) - 1 \in Int
      /\ \A k \in 1..(Len(stack) - 1) : stack[k] \in Frames
  BY StackIs
<1>2. /\ Pop \in Seq(Frames)
      /\ Len(Pop) = IF 1 <= Len(stack) - 1 THEN Len(stack) - 1 - 1 + 1 ELSE 0
      /\ \A k \in 1..(Len(stack) - 1 - 1 + 1) : Pop[k] = stack[1 + k - 1]
  BY <1>1, SubSeqProperties DEF Pop
<1>3. Len(Pop) = Len(stack) - 1
  <2> DEFINE n == Len(stack)
  <2>1. n \in Nat /\ n > 0 /\ Len(Pop) = IF 1 <= n - 1 THEN n - 1 - 1 + 1 ELSE 0
    BY <1>1, <1>2
  <2> HIDE DEF n
  <2>2. (IF 1 <= n - 1 THEN n - 1 - 1 + 1 ELSE 0) = n - 1
    BY <2>1
  <2> QED BY <2>1, <2>2 DEF n
<1>4. \A k \in 1..(Len(stack) - 1) : Pop[k] = stack[k]
  BY <1>1, <1>2
<1> QED BY <1>1, <1>2, <1>3, <1>4 DEF Popped, Alike, Like

\* and of a change of the innermost frame.
LEMMA SetTopIs ==
  ASSUME stack \in Seq(Frames), stack # <<>>, NEW f \in Frames
  PROVE  SetTop(f) \in Seq(Frames) /\ Topped(stack, SetTop(f), f)
<1>1. Len(stack) \in Nat /\ Len(stack) > 0 /\ Len(stack) \in 1..Len(stack)
  BY StackIs
<1>2. /\ SetTop(f) \in Seq(Frames) /\ Len(SetTop(f)) = Len(stack)
      /\ \A j \in 1..Len(stack) : SetTop(f)[j] = IF j = Len(stack) THEN f ELSE stack[j]
  BY <1>1, ExceptSeq DEF SetTop
<1>3. \A j \in 1..(Len(stack) - 1) : SetTop(f)[j] = stack[j]
  BY <1>1, <1>2
<1> QED BY <1>1, <1>2, <1>3 DEF Topped, Alike, Like

\* One frame more is one call or one level more, or none.
LEMMA OneMore ==
  ASSUME NEW s, NEW n \in Nat
  PROVE  /\ Cardinality(SendsTo(s, n)) \in Nat /\ Cardinality(RaisingTo(s, n)) \in Nat
         /\ Cardinality(SendsTo(s, n + 1)) =
              Cardinality(SendsTo(s, n)) + (IF s[n + 1].kind = "send" THEN 1 ELSE 0)
         /\ Cardinality(RaisingTo(s, n + 1)) =
              Cardinality(RaisingTo(s, n)) + (IF Raises(s[n + 1]) THEN 1 ELSE 0)
<1>1. IsFiniteSet(1..n)
  <2>1. 1 \in Int /\ n \in Int
    OBVIOUS
  <2> QED BY <2>1, FS_Interval
<1>2. IsFiniteSet(SendsTo(s, n)) /\ IsFiniteSet(RaisingTo(s, n))
  BY <1>1, FS_Subset DEF SendsTo, RaisingTo
<1>3. \A i : i \in 1..(n + 1) <=> i \in 1..n \/ i = n + 1
  OBVIOUS
<1>4. n + 1 \notin 1..n
  OBVIOUS
<1>5. SendsTo(s, n + 1) = SendsTo(s, n) \cup (IF s[n + 1].kind = "send" THEN {n + 1} ELSE {})
  BY <1>3 DEF SendsTo
<1>6. RaisingTo(s, n + 1) = RaisingTo(s, n) \cup (IF Raises(s[n + 1]) THEN {n + 1} ELSE {})
  BY <1>3 DEF RaisingTo
<1>7. n + 1 \notin SendsTo(s, n) /\ n + 1 \notin RaisingTo(s, n)
  BY <1>4 DEF SendsTo, RaisingTo
<1>8. Cardinality(SendsTo(s, n)) \in Nat /\ Cardinality(RaisingTo(s, n)) \in Nat
  BY <1>2, FS_CardinalityType
<1>9. Cardinality(SendsTo(s, n + 1)) =
        Cardinality(SendsTo(s, n)) + (IF s[n + 1].kind = "send" THEN 1 ELSE 0)
  <2>1. CASE s[n + 1].kind = "send"
    BY <2>1, <1>2, <1>5, <1>7, FS_AddElement
  <2>2. CASE s[n + 1].kind # "send"
    <3>1. SendsTo(s, n + 1) = SendsTo(s, n)
      BY <2>2, <1>5
    <3> QED BY <2>2, <3>1, <1>8
  <2> QED BY <2>1, <2>2
<1>10. Cardinality(RaisingTo(s, n + 1)) =
         Cardinality(RaisingTo(s, n)) + (IF Raises(s[n + 1]) THEN 1 ELSE 0)
  <2>1. CASE Raises(s[n + 1])
    BY <2>1, <1>2, <1>6, <1>7, FS_AddElement
  <2>2. CASE ~Raises(s[n + 1])
    <3>1. RaisingTo(s, n + 1) = RaisingTo(s, n)
      BY <2>2, <1>6
    <3> QED BY <2>2, <3>1, <1>8
  <2> QED BY <2>1, <2>2
<1> QED BY <1>8, <1>9, <1>10

\* Stacks that are alike count alike.
LEMMA AlikeSame ==
  ASSUME NEW s, NEW t, NEW n \in Int, Alike(s, t, n)
  PROVE  /\ SendsTo(t, n) = SendsTo(s, n)
         /\ \A j \in Int : j <= n => RaisingTo(t, j) = RaisingTo(s, j)
         /\ \A k \in 1..n : Delivers(t[k]) => Delivers(s[k]) /\ t[k].entry = s[k].entry
                                              /\ t[k].type = s[k].type /\ t[k].begun = s[k].begun
         /\ \A k \in 1..n : Everything(s[k]) => Everything(t[k])
<1>1. \A k \in 1..n : /\ s[k].kind = t[k].kind
                      /\ s[k].kind = "send" => /\ s[k].rcv = t[k].rcv /\ s[k].type = t[k].type
                                               /\ s[k].begun = t[k].begun /\ s[k].entry = t[k].entry
  BY DEF Alike, Like
<1>2. \A k \in 1..n : Raises(t[k]) <=> Raises(s[k])
  BY <1>1 DEF Raises, Delivers
<1>3. SendsTo(t, n) = SendsTo(s, n)
  BY <1>1 DEF SendsTo
<1>4. ASSUME NEW j \in Int, j <= n PROVE RaisingTo(t, j) = RaisingTo(s, j)
  <2>1. \A k \in 1..j : k \in 1..n
    BY <1>4
  <2> QED BY <1>2, <2>1 DEF RaisingTo
<1>5. \A k \in 1..n : Delivers(t[k]) => Delivers(s[k]) /\ t[k].entry = s[k].entry
                                        /\ t[k].type = s[k].type /\ t[k].begun = s[k].begun
  BY <1>1 DEF Delivers
<1>6. \A k \in 1..n : Everything(s[k]) => Everything(t[k])
  BY <1>1 DEF Everything
<1> QED BY <1>3, <1>4, <1>5, <1>6

\* What the steps do to the calls in progress.  Whoever moves startOffset on is in the loop of a
\* call for everything.
One(f, kind) == IF f.kind = kind THEN 1 ELSE 0
Raised(f) == IF Raises(f) THEN 1 ELSE 0

StackKept == Kept(stack, stack') /\ UNCHANGED <<recursion, loopLevel>>

Called(f) ==
  /\ f \in Frames /\ Pushed(stack, stack', f) /\ ~Delivers(f)
  /\ "send" \notin Calls /\ f.kind = "send" => f.rcv = NoReceiver /\ f.type = AnyType
  /\ recursion' = recursion + One(f, "send") /\ loopLevel' = loopLevel + One(f, "exec")
  /\ startOffset' = startOffset

Returned ==
  /\ stack # <<>> /\ Popped(stack, stack') /\ ~Delivers(Top)
  /\ recursion' = recursion - One(Top, "send") /\ loopLevel' = loopLevel - One(Top, "exec")
  /\ (startOffset' = startOffset /\ ~Everything(Top)) \/ startOffset' = 0

Changed(f) ==
  /\ TopIs("send") /\ f \in SendFrames /\ Topped(stack, stack', f)
  /\ f.rcv = Top.rcv /\ f.type = Top.type /\ (Top.begun => f.begun)
  /\ recursion' = recursion /\ loopLevel' = loopLevel - Raised(Top) + Raised(f)

StartMoves == startOffset' > startOffset => stack # <<>> /\ Everything(Top)

StackStep ==
  /\ stack' \in Seq(Frames) /\ StartMoves
  /\ \/ StackKept
     \/ \E f : Called(f)
     \/ Returned
     \/ \E f : Changed(f)

\* recursion and loopLevel go on counting the calls in progress.
LEMMA StackStepKeeps ==
  ASSUME StackInv, StackStep, startOffset \in Nat, startOffset' \in Nat
  PROVE  StackInv'
<1> DEFINE n == Len(stack)
           m == Len(stack')
<1>0. /\ stack \in Seq(Frames) /\ stack' \in Seq(Frames) /\ n \in Nat /\ m \in Nat
      /\ DOMAIN stack = 1..n /\ DOMAIN stack' = 1..m
  BY LenProperties DEF StackInv, StackStep
<1>1. stack # <<>> => n > 0 /\ n \in DOMAIN stack /\ Top = stack[n] /\ Top \in Frames
  BY <1>0, StackIs DEF Top
<1>2. /\ recursion = Cardinality(SendsTo(stack, n)) /\ loopLevel = Cardinality(RaisingTo(stack, n))
      /\ startOffset > 0 => \E k \in DOMAIN stack : Everything(stack[k])
  BY DEF StackInv
<1>3. \A f, g : Like(f, g) => Raises(f) = Raises(g) /\ One(f, "send") = One(g, "send")
                               /\ (Everything(f) <=> Everything(g))
  BY DEF Like, Raises, Delivers, One, Everything
<1>4. startOffset' > 0 => startOffset > 0 \/ (stack # <<>> /\ Everything(Top))
  BY DEF StackStep, StartMoves
<1>5. startOffset' > 0 => \E k \in DOMAIN stack : Everything(stack[k])
  BY <1>1, <1>2, <1>4
<1>6. CASE StackKept
  <2>1. m = n /\ Alike(stack, stack', n)
    BY <1>6 DEF StackKept, Kept
  <2>2. /\ SendsTo(stack', n) = SendsTo(stack, n) /\ RaisingTo(stack', n) = RaisingTo(stack, n)
        /\ \A k \in 1..n : Everything(stack[k]) => Everything(stack'[k])
    BY <1>0, <2>1, AlikeSame
  <2>3. UNCHANGED <<recursion, loopLevel>>
    BY <1>6 DEF StackKept
  <2> QED BY <1>0, <1>2, <1>5, <2>1, <2>2, <2>3 DEF StackInv
<1>7. ASSUME NEW f, Called(f) PROVE StackInv'
  <2>1. /\ m = n + 1 /\ Alike(stack, stack', n) /\ Like(stack'[n + 1], f) /\ ~Delivers(f)
        /\ recursion' = recursion + One(f, "send") /\ loopLevel' = loopLevel + One(f, "exec")
    BY <1>7 DEF Called, Pushed
  <2>2. /\ SendsTo(stack', n) = SendsTo(stack, n) /\ RaisingTo(stack', n) = RaisingTo(stack, n)
        /\ \A k \in 1..n : Everything(stack[k]) => Everything(stack'[k])
    BY <1>0, <2>1, AlikeSame
  <2>3. /\ Cardinality(SendsTo(stack', n + 1)) =
             Cardinality(SendsTo(stack', n)) + (IF stack'[n + 1].kind = "send" THEN 1 ELSE 0)
        /\ Cardinality(RaisingTo(stack', n + 1)) =
             Cardinality(RaisingTo(stack', n)) + (IF Raises(stack'[n + 1]) THEN 1 ELSE 0)
    BY <1>0, OneMore
  <2>4. recursion' = Cardinality(SendsTo(stack', n + 1))
    BY <1>2, <2>1, <2>2, <2>3 DEF Like, One
  <2>5. loopLevel' = Cardinality(RaisingTo(stack', n + 1))
    <3>1. Raises(stack'[n + 1]) <=> f.kind = "exec"
      BY <2>1 DEF Like, Raises, Delivers
    <3> QED BY <3>1, <1>2, <2>1, <2>2, <2>3 DEF One
  <2>6. \A k \in 1..n : k \in 1..m
    BY <1>0, <2>1
  <2> QED BY <1>0, <1>5, <2>1, <2>2, <2>4, <2>5, <2>6 DEF StackInv
<1>8. CASE Returned
  <2>1. /\ n > 0 /\ m = n - 1 /\ Alike(stack, stack', n - 1) /\ ~Delivers(stack[n]) /\ n - 1 \in Nat
        /\ recursion' = recursion - One(stack[n], "send")
        /\ loopLevel' = loopLevel - One(stack[n], "exec")
        /\ startOffset' = 0 \/ (startOffset' = startOffset /\ ~Everything(stack[n]))
    BY <1>0, <1>1, <1>8 DEF Returned, Popped
  <2>2. /\ SendsTo(stack', m) = SendsTo(stack, m) /\ RaisingTo(stack', m) = RaisingTo(stack, m)
        /\ \A k \in 1..m : Everything(stack[k]) => Everything(stack'[k])
    <3>1. m \in Int /\ m <= m /\ Alike(stack, stack', m)
      BY <1>0, <2>1
    <3> QED BY <3>1, AlikeSame
  <2>3. /\ Cardinality(SendsTo(stack, m + 1)) =
             Cardinality(SendsTo(stack, m)) + (IF stack[m + 1].kind = "send" THEN 1 ELSE 0)
        /\ Cardinality(RaisingTo(stack, m + 1)) =
             Cardinality(RaisingTo(stack, m)) + (IF Raises(stack[m + 1]) THEN 1 ELSE 0)
        /\ Cardinality(SendsTo(stack, m)) \in Nat /\ Cardinality(RaisingTo(stack, m)) \in Nat
    BY <1>0, OneMore
  <2>4. m + 1 = n
    BY <1>0, <2>1
  <2>5. recursion' = Cardinality(SendsTo(stack', m))
    BY <1>2, <2>1, <2>2, <2>3, <2>4 DEF One
  <2>6. loopLevel' = Cardinality(RaisingTo(stack', m))
    <3>1. Raises(stack[n]) <=> stack[n].kind = "exec"
      BY <2>1 DEF Raises
    <3> QED BY <3>1, <1>2, <2>1, <2>2, <2>3, <2>4 DEF One
  <2>7. startOffset' > 0 => \E k \in 1..m : Everything(stack'[k])
    <3> SUFFICES ASSUME startOffset' > 0 PROVE \E k \in 1..m : Everything(stack'[k])
      OBVIOUS
    <3>1. PICK k \in DOMAIN stack : Everything(stack[k])
      BY <1>5
    <3>2. k # n
      BY <2>1, <3>1
    <3>3. k \in 1..m
      BY <3>2, <1>0, <2>1
    <3> QED BY <3>1, <3>3, <2>2
  <2> QED BY <1>0, <2>5, <2>6, <2>7 DEF StackInv
<1>9. ASSUME NEW f, Changed(f) PROVE StackInv'
  <2>1. /\ n > 0 /\ m = n /\ Alike(stack, stack', n - 1) /\ n - 1 \in Nat /\ Like(stack'[n], f)
        /\ stack[n].kind = "send" /\ f.kind = "send" /\ f.rcv = stack[n].rcv /\ f.type = stack[n].type
        /\ stack[n].begun => f.begun
        /\ recursion' = recursion /\ loopLevel' = loopLevel - Raised(stack[n]) + Raised(f)
    BY <1>0, <1>1, <1>9 DEF Changed, Topped, SendFrames, TopIs
  <2> DEFINE b == n - 1
  <2>2. b \in Nat /\ b \in Int /\ b + 1 = n /\ Alike(stack, stack', b)
    BY <1>0, <2>1
  <2> HIDE DEF b
  <2>3. /\ SendsTo(stack', b) = SendsTo(stack, b) /\ RaisingTo(stack', b) = RaisingTo(stack, b)
        /\ \A k \in 1..b : Everything(stack[k]) => Everything(stack'[k])
    BY <2>2, AlikeSame
  <2>4. /\ Cardinality(SendsTo(stack, b + 1)) =
             Cardinality(SendsTo(stack, b)) + (IF stack[b + 1].kind = "send" THEN 1 ELSE 0)
        /\ Cardinality(RaisingTo(stack, b + 1)) =
             Cardinality(RaisingTo(stack, b)) + (IF Raises(stack[b + 1]) THEN 1 ELSE 0)
        /\ Cardinality(SendsTo(stack, b)) \in Nat /\ Cardinality(RaisingTo(stack, b)) \in Nat
    BY <2>2, OneMore
  <2>5. /\ Cardinality(SendsTo(stack', b + 1)) =
             Cardinality(SendsTo(stack', b)) + (IF stack'[b + 1].kind = "send" THEN 1 ELSE 0)
        /\ Cardinality(RaisingTo(stack', b + 1)) =
             Cardinality(RaisingTo(stack', b)) + (IF Raises(stack'[b + 1]) THEN 1 ELSE 0)
    BY <2>2, OneMore
  <2>6. recursion' = Cardinality(SendsTo(stack', n))
    <3>1. stack'[n].kind = "send"
      BY <2>1 DEF Like
    <3> QED BY <3>1, <1>2, <2>1, <2>2, <2>3, <2>4, <2>5
  <2>7. loopLevel' = Cardinality(RaisingTo(stack', n))
    <3>1. Raises(stack'[n]) <=> Raises(f)
      BY <2>1 DEF Like, Raises, Delivers
    <3> QED BY <3>1, <1>2, <2>1, <2>2, <2>3, <2>4, <2>5 DEF Raised
  <2>8. startOffset' > 0 => \E k \in 1..n : Everything(stack'[k])
    <3> SUFFICES ASSUME startOffset' > 0 PROVE \E k \in 1..n : Everything(stack'[k])
      OBVIOUS
    <3>1. PICK k \in DOMAIN stack : Everything(stack[k])
      BY <1>5
    <3>2. CASE k = n
      BY <3>1, <3>2, <1>0, <2>1 DEF Everything, Like
    <3>3. CASE k # n
      <4>1. k \in 1..b
        BY <3>3, <1>0, <2>2
      <4> QED BY <4>1, <3>1, <1>0, <2>3
    <3> QED BY <3>2, <3>3
  <2> QED BY <1>0, <2>1, <2>6, <2>7, <2>8 DEF StackInv
<1> QED BY <1>6, <1>7, <1>8, <1>9 DEF StackStep

\* Nothing more is being delivered after a step than before.
Calm ==
  \A k \in DOMAIN stack' : Delivers(stack'[k]) =>
    /\ k \in DOMAIN stack /\ Delivers(stack[k])
    /\ stack'[k].entry = stack[k].entry /\ stack'[k].type = stack[k].type
    /\ stack'[k].begun = stack[k].begun
    /\ RaisingTo(stack', k) = RaisingTo(stack, k)

\* Every step but SendEvent is such a step.
LEMMA CalmSteps ==
  ASSUME StackInv, StackStep,
         StackKept \/ (\E f : Called(f)) \/ Returned \/ \E f : Changed(f) /\ ~Delivers(f)
  PROVE  Calm
<1> DEFINE n == Len(stack)
           m == Len(stack')
<1>0. /\ stack \in Seq(Frames) /\ stack' \in Seq(Frames) /\ n \in Nat /\ m \in Nat
      /\ DOMAIN stack = 1..n /\ DOMAIN stack' = 1..m
  BY LenProperties DEF StackInv, StackStep
<1> SUFFICES ASSUME NEW k \in 1..m, Delivers(stack'[k])
             PROVE  /\ k \in DOMAIN stack /\ Delivers(stack[k])
                    /\ stack'[k].entry = stack[k].entry /\ stack'[k].type = stack[k].type
                    /\ stack'[k].begun = stack[k].begun
                    /\ RaisingTo(stack', k) = RaisingTo(stack, k)
  BY <1>0 DEF Calm
<1>1. ASSUME NEW b \in Int, Alike(stack, stack', b), b <= n, k <= b
      PROVE  /\ k \in DOMAIN stack /\ Delivers(stack[k])
             /\ stack'[k].entry = stack[k].entry /\ stack'[k].type = stack[k].type
             /\ stack'[k].begun = stack[k].begun
             /\ RaisingTo(stack', k) = RaisingTo(stack, k)
  <2>1. k \in 1..b /\ k \in 1..n /\ k \in Int
    BY <1>0, <1>1
  <2> QED BY <1>0, <1>1, <2>1, AlikeSame
<1>2. CASE StackKept
  <2>1. Alike(stack, stack', n) /\ m = n
    BY <1>2 DEF StackKept, Kept
  <2>2. n \in Int /\ n <= n /\ k <= n
    BY <1>0, <2>1
  <2> QED BY <2>1, <2>2, <1>1
<1>3. ASSUME NEW f, Called(f)
      PROVE  /\ k \in DOMAIN stack /\ Delivers(stack[k])
             /\ stack'[k].entry = stack[k].entry /\ stack'[k].type = stack[k].type
             /\ stack'[k].begun = stack[k].begun
             /\ RaisingTo(stack', k) = RaisingTo(stack, k)
  <2>1. Alike(stack, stack', n) /\ m = n + 1 /\ Like(stack'[n + 1], f) /\ ~Delivers(f)
    BY <1>3 DEF Called, Pushed
  <2>2. k # n + 1
    BY <2>1 DEF Like, Delivers
  <2>3. n \in Int /\ n <= n /\ k <= n
    BY <1>0, <2>1, <2>2
  <2> QED BY <2>1, <2>3, <1>1
<1>4. CASE Returned
  <2>1. Alike(stack, stack', n - 1) /\ m = n - 1
    BY <1>4 DEF Returned, Popped
  <2>2. n - 1 \in Int /\ n - 1 <= n /\ k <= n - 1
    BY <1>0, <2>1
  <2> QED BY <2>1, <2>2, <1>1
<1>5. ASSUME NEW f, Changed(f), ~Delivers(f)
      PROVE  /\ k \in DOMAIN stack /\ Delivers(stack[k])
             /\ stack'[k].entry = stack[k].entry /\ stack'[k].type = stack[k].type
             /\ stack'[k].begun = stack[k].begun
             /\ RaisingTo(stack', k) = RaisingTo(stack, k)
  <2>1. Alike(stack, stack', n - 1) /\ m = n /\ Like(stack'[n], f) /\ f.kind = "send"
    BY <1>5 DEF Changed, Topped, SendFrames
  <2>2. k # n
    BY <2>1, <1>5 DEF Like, Delivers
  <2> DEFINE b == n - 1
  <2>3. b \in Int /\ b <= n /\ k <= b
    <3>1. k \in 1..m /\ m \in Nat /\ m = n /\ k # n
      BY <1>0, <2>1, <2>2
    <3> HIDE DEF n, m
    <3> QED BY <3>1
  <2>4. Alike(stack, stack', b)
    BY <2>1
  <2> HIDE DEF b
  <2> QED BY <2>3, <2>4, <1>1
<1> QED BY <1>2, <1>3, <1>4, <1>5

\* The counters are numbers, and recursion is 0 when nobody sends.
LEMMA Levels ==
  ASSUME StackInv
  PROVE  /\ recursion \in Nat /\ loopLevel \in Nat
         /\ recursion = 0 => \A k \in DOMAIN stack : stack[k].kind # "send"
<1>1. /\ Len(stack) \in Nat /\ DOMAIN stack = 1..Len(stack)
      /\ recursion = Cardinality(SendsTo(stack, Len(stack)))
      /\ loopLevel = Cardinality(RaisingTo(stack, Len(stack)))
  BY StackIs DEF StackInv
<1>2. recursion \in Nat /\ loopLevel \in Nat
  BY <1>1, OneMore
<1>3. ASSUME recursion = 0 PROVE SendsTo(stack, Len(stack)) = {}
  <2>1. IsFiniteSet(1..Len(stack))
    <3>1. 1 \in Int /\ Len(stack) \in Int
      BY <1>1
    <3> QED BY <3>1, FS_Interval
  <2>2. IsFiniteSet(SendsTo(stack, Len(stack)))
    BY <2>1, FS_Subset DEF SendsTo
  <2> QED BY <2>2, <1>1, <1>3, FS_EmptySet
<1> QED BY <1>1, <1>2, <1>3 DEF SendsTo

\* The steps that call,
LEMMA CallsPush ==
  ASSUME StackInv, startOffset \in Nat,
         \/ \E rcv \in Receivers \cup {NoReceiver}, type \in Types \cup {AnyType} :
              CallSendPostedEvents(rcv, type)
         \/ CallExec \/ LoopProcessEvents \/ CallProcessEvents \/ ProcessSend
  PROVE  stack' \in Seq(Frames) /\ StartMoves /\ \E f : Called(f)
<1>0. stack \in Seq(Frames) /\ recursion \in Nat /\ loopLevel \in Nat
  BY Levels DEF StackInv
<1>1. ASSUME NEW rcv \in Receivers \cup {NoReceiver}, NEW type \in Types \cup {AnyType},
             CallSendPostedEvents(rcv, type)
      PROVE  stack' \in Seq(Frames) /\ StartMoves /\ Called(Send(rcv, type))
  <2>1. /\ "send" \in Calls /\ recursion' = recursion + 1 /\ loopLevel' = loopLevel
        /\ startOffset' = startOffset /\ stack' = Append(stack, Send(rcv, type))
    BY <1>1 DEF CallSendPostedEvents, Enter
  <2>2. Send(rcv, type) \in Frames /\ Send(rcv, type).kind = "send" /\ ~Delivers(Send(rcv, type))
    BY NewFrames, SendFrameIs, NoEntryIs DEF Send, Delivers
  <2>3. stack' \in Seq(Frames) /\ Pushed(stack, stack', Send(rcv, type))
    BY <1>0, <2>1, <2>2, PushIs
  <2> QED BY <1>0, <2>1, <2>2, <2>3 DEF Called, One, StartMoves
<1>2. CASE CallExec
  <2>1. /\ UNCHANGED <<recursion, startOffset>> /\ loopLevel' = loopLevel + 1
        /\ stack' = Append(stack, Exec)
    BY <1>2 DEF CallExec, listVars
  <2>2. Exec \in Frames /\ Exec.kind = "exec" /\ ~Delivers(Exec)
    BY NewFrames DEF Exec, Delivers
  <2>3. stack' \in Seq(Frames) /\ Pushed(stack, stack', Exec)
    BY <1>0, <2>1, <2>2, PushIs
  <2> QED BY <1>0, <2>1, <2>2, <2>3 DEF Called, One, StartMoves
<1>3. ASSUME NEW wait \in BOOLEAN, stack' = Append(stack, Process(wait)),
             UNCHANGED <<recursion, startOffset, loopLevel>>
      PROVE  stack' \in Seq(Frames) /\ StartMoves /\ Called(Process(wait))
  <2>2. Process(wait) \in Frames /\ Process(wait).kind = "process" /\ ~Delivers(Process(wait))
    BY NewFrames DEF Process, Delivers
  <2>3. stack' \in Seq(Frames) /\ Pushed(stack, stack', Process(wait))
    BY <1>0, <1>3, <2>2, PushIs
  <2> QED BY <1>0, <1>3, <2>2, <2>3 DEF Called, One, StartMoves
<1>4. CASE LoopProcessEvents
  BY <1>3, <1>4 DEF LoopProcessEvents, listVars
<1>5. CASE CallProcessEvents
  BY <1>3, <1>5 DEF CallProcessEvents, listVars
<1>6. CASE ProcessSend
  <2> DEFINE g == [Top EXCEPT !.sent = TRUE]
             f == Send(NoReceiver, AnyType)
             below == SetTop(g)
  <2>1. /\ recursion' = recursion + 1 /\ loopLevel' = loopLevel
        /\ startOffset' = startOffset /\ stack' = Append(below, f) /\ TopIs("process")
    BY <1>6 DEF ProcessSend, Enter
  <2>2. f \in Frames /\ f.kind = "send" /\ ~Delivers(f) /\ f.rcv = NoReceiver /\ f.type = AnyType
    BY NewFrames, SendFrameIs, NoEntryIs DEF Send, Delivers
  <2>3. stack # <<>> /\ Top.kind = "process"
        /\ Top \in [kind : {"process"}, wait : BOOLEAN, sent : BOOLEAN]
    BY <1>0, <2>1, StackIs, FrameIs DEF TopIs
  <2>4. g \in Frames /\ g.kind = "process"
    BY <2>3 DEF Frames
  <2>5. below \in Seq(Frames) /\ Topped(stack, below, g)
    BY <1>0, <2>3, <2>4, SetTopIs
  <2>6. Len(stack) \in Nat /\ Len(below) = Len(stack) /\ Top = stack[Len(stack)]
        /\ Alike(stack, below, Len(stack) - 1) /\ Like(below[Len(stack)], g)
    BY <1>0, <2>5, StackIs DEF Topped, Top
  <2> HIDE DEF g, f, below
  <2>7. Alike(stack, below, Len(stack))
    <3>1. \A k \in 1..Len(stack) : k = Len(stack) \/ k \in 1..(Len(stack) - 1)
      BY <2>6
    <3>2. Like(stack[Len(stack)], below[Len(stack)])
      BY <2>3, <2>4, <2>6 DEF Like
    <3> QED BY <3>1, <3>2, <2>6 DEF Alike
  <2>8. /\ Append(below, f) \in Seq(Frames) /\ Len(Append(below, f)) = Len(below) + 1
        /\ \A k \in 1..Len(below) : Append(below, f)[k] = below[k]
        /\ Append(below, f)[Len(below) + 1] = f
    BY <2>2, <2>5, AppendProperties
  <2>9. Pushed(stack, stack', f)
    BY <2>1, <2>6, <2>7, <2>8 DEF Pushed, Alike, Like
  <2> QED BY <1>0, <2>1, <2>2, <2>8, <2>9 DEF Called, One, StartMoves
<1> QED BY <1>1, <1>2, <1>4, <1>5, <1>6

\* the one that takes the mutex and returns or begins,
LEMMA BeginStep ==
  ASSUME StackInv, Delivered, startOffset \in Nat, BeginSend
  PROVE  /\ stack' \in Seq(Frames) /\ StartMoves
         /\ \/ Returned /\ UNCHANGED insertionOffset
            \/ insertionOffset' = Len(list) /\ \E f : Changed(f) /\ ~Delivers(f) /\ f.begun
<1>0. stack \in Seq(Frames) /\ recursion \in Nat /\ loopLevel \in Nat /\ DOMAIN stack = 1..Len(stack)
  BY Levels, StackIs DEF StackInv
<1>1. /\ stack # <<>> /\ Top.kind = "send" /\ Top \in SendFrames /\ TopIs("send")
      /\ Len(stack) \in DOMAIN stack /\ Top = stack[Len(stack)] /\ ~Top.begun
      /\ UNCHANGED <<startOffset, loopLevel>>
  BY <1>0, StackIs DEF BeginSend, TopIs, Top
<1>2. ~Delivers(Top) /\ ~Everything(Top) /\ Top.entry.event = NullEvent
  BY <1>1 DEF Delivered, Everything, Delivers
<1>3. CASE list = <<>> \/ (Top.rcv # NoReceiver /\ postedEvents[Top.rcv] = 0)
  <2>1. recursion' = recursion - 1 /\ stack' = Pop /\ UNCHANGED insertionOffset
    BY <1>3 DEF BeginSend
  <2>2. stack' \in Seq(Frames) /\ Popped(stack, stack')
    BY <2>1, <1>0, <1>1, PopIs
  <2> QED BY <1>0, <1>1, <1>2, <2>1, <2>2 DEF Returned, One, StartMoves
<1>4. CASE ~(list = <<>> \/ (Top.rcv # NoReceiver /\ postedEvents[Top.rcv] = 0))
  <2> DEFINE f == [Top EXCEPT !.begun = TRUE, !.at = startOffset]
  <2>1. recursion' = recursion /\ stack' = SetTop(f) /\ insertionOffset' = Len(list)
    BY <1>4 DEF BeginSend
  <2>2. f \in SendFrames
    BY <1>1, FrameChanges
  <2>3. f.begun /\ f.rcv = Top.rcv /\ f.type = Top.type /\ f.entry = Top.entry /\ f.kind = "send"
    BY <1>1 DEF SendFrames
  <2> HIDE DEF f
  <2>4. stack' \in Seq(Frames) /\ Topped(stack, stack', f)
    BY <2>1, <2>2, <1>0, <1>1, SetTopIs, SendFrameIs
  <2>5. ~Delivers(f)
    BY <2>3, <1>2 DEF Delivers
  <2>6. Raised(Top) = 0 /\ Raised(f) = 0
    BY <2>3, <2>5, <1>1, <1>2 DEF Raised, Raises
  <2> QED BY <1>0, <1>1, <2>1, <2>2, <2>3, <2>4, <2>5, <2>6 DEF Changed, StartMoves
<1> QED BY <1>3, <1>4

\* those that return,
LEMMA ReturnsPop ==
  ASSUME StackInv, startOffset \in Nat, SendDone \/ ExecReturn \/ ProcessReturn
  PROVE  stack' \in Seq(Frames) /\ StartMoves /\ Returned
<1>0. stack \in Seq(Frames) /\ recursion \in Nat /\ loopLevel \in Nat
  BY Levels DEF StackInv
<1>1. stack # <<>> /\ stack' = Pop
  BY DEF SendDone, ExecReturn, ProcessReturn, InLoop, TopIs
<1>2. stack' \in Seq(Frames) /\ Popped(stack, stack')
  BY <1>0, <1>1, PopIs
<1>3. CASE SendDone
  <2>1. /\ Top.kind = "send" /\ ~Delivers(Top) /\ recursion' = recursion - 1 /\ loopLevel' = loopLevel
        /\ startOffset' \in {startOffset, 0}
        /\ (startOffset' = startOffset /\ ~Everything(Top)) \/ startOffset' = 0
    BY <1>3 DEF SendDone, InLoop, TopIs, Delivers, Everything, SendsAll
  <2> QED BY <1>0, <1>1, <1>2, <2>1 DEF Returned, One, StartMoves
<1>4. CASE ExecReturn
  <2>1. /\ Top.kind = "exec" /\ recursion' = recursion /\ loopLevel' = loopLevel - 1
        /\ startOffset' = startOffset
    BY <1>4 DEF ExecReturn, TopIs, listVars
  <2> QED BY <1>0, <1>1, <1>2, <2>1 DEF Returned, One, StartMoves, Delivers, Everything
<1>5. CASE ProcessReturn
  <2>1. /\ Top.kind = "process" /\ UNCHANGED <<recursion, loopLevel, startOffset>>
    BY <1>5 DEF ProcessReturn, TopIs, listVars
  <2> QED BY <1>0, <1>1, <1>2, <2>1 DEF Returned, One, StartMoves, Delivers, Everything
<1> QED BY <1>3, <1>4, <1>5

\* QEventLoop::exit finds a loop.
LEMMA InnermostIs ==
  ASSUME StackInv, \E k \in DOMAIN stack : stack[k].kind = "exec"
  PROVE  Innermost \in DOMAIN stack /\ stack[Innermost].kind = "exec"
<1> DEFINE S == {k \in DOMAIN stack : stack[k].kind = "exec"}
<1>1. Len(stack) \in Nat /\ DOMAIN stack = 1..Len(stack)
  BY StackIs DEF StackInv
<1>2. S \in SUBSET (1..Len(stack)) /\ S # {}
  BY <1>1
<1>3. IsFiniteSet(S)
  <2>1. IsFiniteSet(1..Len(stack))
    <3>1. 1 \in Int /\ Len(stack) \in Int
      BY <1>1
    <3> QED BY <3>1, FS_Interval
  <2> QED BY <2>1, <1>2, FS_Subset
<1>4. \A k \in DOMAIN stack : stack[k].kind = "exec" <=> k \in S
  OBVIOUS
<1> HIDE DEF S
<1>5. /\ Cardinality(S) \in Nat
      /\ \A k \in S : Rank(S, k) \in 1..Cardinality(S)
      /\ \A j, k \in S : j < k => Rank(S, j) < Rank(S, k)
      /\ \A i \in 1..Cardinality(S) : \E k \in S : Rank(S, k) = i
  BY <1>1, <1>2, Ranks
<1>6. Cardinality(S) \in 1..Cardinality(S)
  <2>1. Cardinality(S) # 0
    BY <1>2, <1>3, FS_EmptySet
  <2> QED BY <2>1, <1>5
<1>7. PICK k \in S : Rank(S, k) = Cardinality(S)
  BY <1>5, <1>6
<1>8. \A j \in DOMAIN stack : j > k => j \notin S
  <2> SUFFICES ASSUME NEW j \in S, j > k, j \in DOMAIN stack PROVE FALSE
    OBVIOUS
  <2>1. Rank(S, k) < Rank(S, j) /\ Rank(S, j) \in 1..Cardinality(S)
    BY <1>5, <1>1, <1>2
  <2> QED BY <2>1, <1>7, <1>5
<1>9. /\ k \in DOMAIN stack /\ stack[k].kind = "exec"
      /\ \A j \in DOMAIN stack : j > k => stack[j].kind # "exec"
  BY <1>1, <1>2, <1>4, <1>8
<1> QED BY <1>9 DEF Innermost

\* those that leave the calls in progress as they are,
LEMMA OthersKeep ==
  ASSUME StackInv, startOffset \in Nat,
         \/ stack' = stack /\ UNCHANGED <<recursion, startOffset, loopLevel>>
         \/ SkipEvent \/ PostponeDelete \/ Exit
  PROVE  stack' \in Seq(Frames) /\ StartMoves /\ StackKept
<1>0. stack \in Seq(Frames) /\ Len(stack) \in Nat
  BY StackIs DEF StackInv
<1>1. CASE stack' = stack /\ UNCHANGED <<recursion, startOffset, loopLevel>>
  BY <1>0, <1>1 DEF StackKept, Kept, Alike, Like, StartMoves
<1>2. CASE SkipEvent \/ PostponeDelete
  <2>1. InLoop /\ Advance /\ UNCHANGED <<recursion, loopLevel>>
    BY <1>2 DEF SkipEvent, PostponeDelete, InRound
  <2>2. CASE SendsAll
    <3>1. stack' = stack /\ startOffset' = startOffset + 1 /\ Everything(Top) /\ stack # <<>>
      BY <2>1, <2>2 DEF Advance, Everything, SendsAll, InLoop, TopIs
    <3> QED BY <1>0, <2>1, <3>1 DEF StackKept, Kept, Alike, Like, StartMoves
  <2>3. CASE ~SendsAll
    <3> DEFINE f == [Top EXCEPT !.at = @ + 1]
    <3>1. stack' = SetTop(f) /\ startOffset' = startOffset /\ TopIs("send") /\ stack # <<>>
      BY <2>1, <2>3 DEF Advance, InLoop, TopIs
    <3>2. Top \in SendFrames /\ Top = stack[Len(stack)]
      BY <1>0, <3>1, StackIs DEF Top
    <3>3. f \in SendFrames /\ Like(f, Top)
      BY <3>2, FrameChanges DEF Like, SendFrames
    <3> HIDE DEF f
    <3>4. stack' \in Seq(Frames) /\ Topped(stack, stack', f)
      BY <1>0, <3>1, <3>3, SetTopIs, SendFrameIs
    <3>5. Alike(stack, stack', Len(stack))
      <4>1. \A k \in 1..Len(stack) : k = Len(stack) \/ k \in 1..(Len(stack) - 1)
        BY <1>0
      <4>2. Like(stack[Len(stack)], stack'[Len(stack)])
        BY <3>2, <3>3, <3>4 DEF Like, Topped
      <4> QED BY <4>1, <4>2, <3>4 DEF Alike, Topped
    <3>6. Kept(stack, stack')
      BY <3>4, <3>5 DEF Topped, Kept
    <3> QED BY <1>0, <2>1, <3>1, <3>4, <3>6 DEF StackKept, StartMoves
  <2> QED BY <2>2, <2>3
<1>3. CASE Exit
  <2> DEFINE i == Innermost
             f == [stack[i] EXCEPT !.exit = TRUE]
  <2>1. i \in DOMAIN stack /\ stack[i].kind = "exec"
    BY <1>3, InnermostIs DEF Exit
  <2>2. /\ stack' = [stack EXCEPT ![i] = f] /\ UNCHANGED <<recursion, startOffset, loopLevel>>
    BY <1>3 DEF Exit, listVars
  <2>3. stack[i] \in [kind : {"exec"}, exit : BOOLEAN]
    BY <2>1, <1>0, StackIs, FrameIs
  <2>4. f \in Frames /\ f.kind = "exec"
    BY <2>3 DEF Frames
  <2> HIDE DEF i, f
  <2>5. /\ stack' \in Seq(Frames) /\ Len(stack') = Len(stack)
        /\ \A j \in 1..Len(stack) : stack'[j] = IF j = i THEN f ELSE stack[j]
    <3>1. i \in 1..Len(stack)
      BY <2>1, <1>0, StackIs
    <3> QED BY <3>1, <1>0, <2>2, <2>4, ExceptSeq
  <2>6. Alike(stack, stack', Len(stack))
    BY <2>1, <2>4, <2>5 DEF Alike, Like
  <2> QED BY <1>0, <2>2, <2>5, <2>6 DEF StackKept, Kept, StartMoves
<1> QED BY <1>1, <1>2, <1>3

\* the one that calls a handler,
LEMMA SendStep ==
  ASSUME StackInv, startOffset \in Nat, SendEvent, Current \in Entries, At + 1 \in Nat
  PROVE  /\ stack' \in Seq(Frames) /\ StartMoves /\ ~Delivers(Top) /\ Top.begun
         /\ \E f : Changed(f) /\ Delivers(f) /\ f.begun /\ f.entry = Current
<1> DEFINE f == [Top EXCEPT !.entry = Current, !.at = At + 1]
<1>0. stack \in Seq(Frames) /\ recursion \in Nat /\ loopLevel \in Nat
  BY Levels DEF StackInv
<1>1. /\ stack # <<>> /\ TopIs("send") /\ Top.kind = "send" /\ ~Delivers(Top) /\ Top.begun
      /\ stack' = SetTop(f) /\ recursion' = recursion /\ loopLevel' = loopLevel + 1
      /\ startOffset' = IF SendsAll THEN startOffset + 1 ELSE startOffset
      /\ Current.event # NullEvent
  BY DEF SendEvent, InRound, InLoop, TopIs, Delivers, IsFor
<1>2. Top \in SendFrames
  BY <1>0, <1>1, StackIs
<1>3. f \in SendFrames
  BY <1>2, FrameChanges
<1>4. f.rcv = Top.rcv /\ f.type = Top.type /\ f.begun = Top.begun /\ f.entry = Current /\ f.kind = "send"
  BY <1>2 DEF SendFrames
<1> HIDE DEF f
<1>5. stack' \in Seq(Frames) /\ Topped(stack, stack', f)
  BY <1>0, <1>1, <1>3, SetTopIs, SendFrameIs
<1>6. Delivers(f) /\ Raised(Top) = 0 /\ Raised(f) = 1
  BY <1>1, <1>4 DEF Delivers, Raised, Raises
<1>7. SendsAll => Everything(Top)
  BY <1>1 DEF SendsAll, Everything
<1>8. Changed(f)
  BY <1>0, <1>1, <1>3, <1>4, <1>5, <1>6 DEF Changed
<1>9. StartMoves
  BY <1>1, <1>7 DEF StartMoves
<1> QED BY <1>1, <1>4, <1>5, <1>6, <1>8, <1>9

\* and the one that ends it.
LEMMA HandlerReturnStep ==
  ASSUME StackInv, startOffset \in Nat, HandlerReturn
  PROVE  /\ stack' \in Seq(Frames) /\ StartMoves
         /\ \E f : Changed(f) /\ ~Delivers(f)
<1> DEFINE f == [Top EXCEPT !.entry = NoEntry]
<1>0. stack \in Seq(Frames) /\ recursion \in Nat /\ loopLevel \in Nat
  BY Levels DEF StackInv
<1>1. /\ stack # <<>> /\ TopIs("send") /\ Top.kind = "send" /\ Delivers(Top)
      /\ stack' = SetTop(f) /\ recursion' = recursion /\ loopLevel' = loopLevel - 1
      /\ startOffset' = startOffset
  BY DEF HandlerReturn, TopIs, Delivers, listVars
<1>2. Top \in SendFrames
  BY <1>0, <1>1, StackIs
<1>3. f \in SendFrames
  BY <1>2, FrameChanges
<1>4. f.rcv = Top.rcv /\ f.type = Top.type /\ f.begun = Top.begun /\ f.entry = NoEntry /\ f.kind = "send"
  BY <1>2 DEF SendFrames
<1> HIDE DEF f
<1>5. stack' \in Seq(Frames) /\ Topped(stack, stack', f)
  BY <1>0, <1>1, <1>3, SetTopIs, SendFrameIs
<1>6. ~Delivers(f) /\ Raised(Top) = 1 /\ Raised(f) = 0
  BY <1>1, <1>4, NoEntryIs DEF Delivers, Raised, Raises
<1> QED BY <1>0, <1>1, <1>3, <1>4, <1>5, <1>6 DEF Changed, StartMoves

-----------------------------------------------------------------------------
(* What is being delivered and what was asked for.                         *)

\* What is no longer owed stays so.
Settled == \A e \in (0..serial) \ owed : e \in (0..serial') \ owed'

\* Nothing new is in the list.
Thinner == \A k \in DOMAIN list' : \E j \in DOMAIN list : list'[k] \in {list[j], NullEntry(list[j])}

\* A step that delivers nothing makes no delete too early; what it posts says who asked.
LEMMA CalmKeeps ==
  ASSUME StackInv, StackInv', Delivered, Asked, DeferredDeleteWaits, Calm, Settled,
         serial \in Nat, serial' \in Nat, 0 \notin owed,
         \A k \in DOMAIN list' :
           \/ \E j \in DOMAIN list : list'[k] \in {list[j], NullEntry(list[j])}
           \/ /\ list'[k].by \in (0..serial) \ owed
              /\ list'[k].type = Deleting =>
                   \A i \in DOMAIN stack :
                     Delivers(stack[i]) /\ stack[i].entry.event = list'[k].by =>
                       1 <= list'[k].level /\ list'[k].level <= Cardinality(RaisingTo(stack, i))
  PROVE  Delivered' /\ Asked' /\ DeferredDeleteWaits'
<1>0. /\ DOMAIN stack = 1..Len(stack) /\ DOMAIN stack' = 1..Len(stack')
      /\ Len(stack) \in Nat /\ Len(stack') \in Nat
  BY LenProperties DEF StackInv
<1>1. \A k \in DOMAIN stack' : Delivers(stack'[k]) =>
        /\ k \in DOMAIN stack /\ Delivers(stack[k]) /\ stack'[k].begun = stack[k].begun
        /\ stack'[k].entry = stack[k].entry /\ stack'[k].type = stack[k].type
        /\ RaisingTo(stack', k) = RaisingTo(stack, k)
  BY DEF Calm
<1>2. Delivered'
  <2>1. ASSUME NEW k \in DOMAIN stack', Delivers(stack'[k])
        PROVE  stack'[k].begun /\ stack'[k].entry.event \in (1..serial') \ owed'
    <3>1. stack[k].begun /\ stack[k].entry.event \in (1..serial) \ owed
      BY <1>1, <2>1 DEF Delivered
    <3>2. stack[k].entry.event \in (0..serial) \ owed /\ stack[k].entry.event # 0
      BY <3>1
    <3>3. stack[k].entry.event \in (0..serial') \ owed'
      BY <3>2 DEF Settled
    <3>4. stack[k].entry.event \in (1..serial') \ owed'
      BY <3>2, <3>3
    <3> QED BY <3>1, <3>4, <2>1, <1>1
  <2>2. ASSUME NEW j \in DOMAIN stack', NEW k \in DOMAIN stack', Delivers(stack'[j]),
               Delivers(stack'[k]), stack'[j].entry.event = stack'[k].entry.event
        PROVE  j = k
    BY <1>1, <2>2 DEF Delivered
  <2> QED BY <2>1, <2>2 DEF Delivered
<1>3. Asked'
  <2> SUFFICES ASSUME NEW k \in DOMAIN list'
               PROVE  /\ list'[k].by \in (0..serial') \ owed'
                      /\ list'[k].event # NullEvent /\ list'[k].type = Deleting =>
                           \A i \in DOMAIN stack' :
                             Delivers(stack'[i]) /\ stack'[i].entry.event = list'[k].by =>
                               /\ 1 <= list'[k].level
                               /\ list'[k].level <= Cardinality(RaisingTo(stack', i))
    BY DEF Asked
  <2>1. ASSUME NEW e, list'[k] = e, e.by \in (0..serial) \ owed,
               e.event # NullEvent /\ e.type = Deleting =>
                 \A i \in DOMAIN stack :
                   Delivers(stack[i]) /\ stack[i].entry.event = e.by =>
                     1 <= e.level /\ e.level <= Cardinality(RaisingTo(stack, i))
        PROVE  /\ list'[k].by \in (0..serial') \ owed'
               /\ list'[k].event # NullEvent /\ list'[k].type = Deleting =>
                    \A i \in DOMAIN stack' :
                      Delivers(stack'[i]) /\ stack'[i].entry.event = list'[k].by =>
                        1 <= list'[k].level /\ list'[k].level <= Cardinality(RaisingTo(stack', i))
    <3>1. e.by \in (0..serial') \ owed'
      BY <2>1 DEF Settled
    <3>2. ASSUME e.event # NullEvent, e.type = Deleting, NEW i \in DOMAIN stack',
                 Delivers(stack'[i]), stack'[i].entry.event = e.by
          PROVE  1 <= e.level /\ e.level <= Cardinality(RaisingTo(stack', i))
      <4>1. i \in DOMAIN stack /\ Delivers(stack[i]) /\ stack[i].entry.event = e.by
            /\ RaisingTo(stack', i) = RaisingTo(stack, i)
        BY <1>1, <3>2
      <4> QED BY <4>1, <3>2, <2>1
    <3> QED BY <3>1, <3>2, <2>1
  <2>2. CASE \E j \in DOMAIN list : list'[k] \in {list[j], NullEntry(list[j])}
    <3>1. PICK j \in DOMAIN list : list'[k] \in {list[j], NullEntry(list[j])}
      BY <2>2
    <3>2. CASE list'[k] = list[j]
      <4>1. list[j].by \in (0..serial) \ owed
        BY DEF Asked
      <4>2. list[j].event # NullEvent /\ list[j].type = Deleting =>
              \A i \in DOMAIN stack :
                Delivers(stack[i]) /\ stack[i].entry.event = list[j].by =>
                  1 <= list[j].level /\ list[j].level <= Cardinality(RaisingTo(stack, i))
        BY DEF Asked
      <4> QED BY <4>1, <4>2, <3>2, <2>1
    <3>3. CASE list'[k] = NullEntry(list[j])
      <4>1. list'[k].by = NullEvent /\ list'[k].event = NullEvent
        BY <3>3 DEF NullEntry, NoEntry
      <4>2. 0 \in (0..serial') \ owed'
        BY DEF Settled
      <4> QED BY <4>1, <4>2 DEF NullEvent
    <3> QED BY <3>1, <3>2, <3>3
  <2> QED BY <2>1, <2>2
<1>4. DeferredDeleteWaits'
  <2> SUFFICES ASSUME NEW k \in DOMAIN stack', Delivers(stack'[k]),
                      stack'[k].entry.type = Deleting, stack'[k].type = AnyType,
                      NEW j \in 1..(k - 1), Delivers(stack'[j])
               PROVE  stack'[j].entry.event # stack'[k].entry.by
    BY DEF DeferredDeleteWaits, Delivering, Delivers
  <2>1. j \in DOMAIN stack'
    BY <1>0
  <2>2. /\ k \in DOMAIN stack /\ Delivers(stack[k])
        /\ stack'[k].entry = stack[k].entry /\ stack'[k].type = stack[k].type
    BY <1>1
  <2>3. /\ Delivers(stack[j]) /\ stack'[j].entry = stack[j].entry
    BY <1>1, <2>1
  <2> QED BY <2>2, <2>3 DEF DeferredDeleteWaits, Delivering, Delivers
<1> QED BY <1>2, <1>3, <1>4

\* The delete that is sent now is none that a handler below waits for.
LEMMA SendEventKeeps ==
  ASSUME StackInv, StackInv', Delivered, Asked, DeferredDeleteWaits, SendEvent, Thinner,
         owed' = owed \ {Current.event}, Current.event \in owed, Current \in Entries,
         owed \subseteq 1..serial, serial' = serial, serial \in Nat,
         At + 1 \in DOMAIN list, At + 1 \in Nat, startOffset \in Nat
  PROVE  Delivered' /\ Asked' /\ DeferredDeleteWaits'
<1> DEFINE n == Len(stack)
<1>0. n \in Nat /\ DOMAIN stack = 1..n /\ stack \in Seq(Frames)
  BY StackIs DEF StackInv
<1>1. /\ stack # <<>> /\ Current.event # NullEvent /\ ~MustWait(Current, Top.type)
      /\ TopIs("send")
  BY DEF SendEvent, InRound, InLoop, TopIs, IsFor
<1>2. PICK f : Changed(f) /\ Delivers(f) /\ f.begun /\ f.entry = Current
  BY SendStep
<1>3. /\ n > 0 /\ n \in DOMAIN stack /\ Top = stack[n] /\ Len(stack') = n
      /\ DOMAIN stack' = 1..n
      /\ Alike(stack, stack', n - 1) /\ Like(stack'[n], f) /\ f.kind = "send" /\ f.type = Top.type
  <2>1. n > 0 /\ n \in DOMAIN stack /\ Top = stack[n]
    BY <1>0, <1>1, StackIs DEF Top
  <2>2. /\ Len(stack') = n /\ Alike(stack, stack', n - 1) /\ Like(stack'[n], f)
        /\ f.kind = "send" /\ f.type = Top.type
    BY <1>2 DEF Changed, Topped, SendFrames
  <2>3. DOMAIN stack' = 1..Len(stack')
    BY LenProperties DEF StackInv
  <2> QED BY <2>1, <2>2, <2>3
<1>4. /\ stack'[n].kind = "send" /\ stack'[n].entry = Current /\ stack'[n].type = Top.type
      /\ stack'[n].begun
  BY <1>2, <1>3 DEF Like
<1>5. ASSUME NEW k \in 1..n, k # n
      PROVE  /\ Delivers(stack'[k]) => /\ Delivers(stack[k]) /\ stack'[k].entry = stack[k].entry
                                       /\ stack'[k].type = stack[k].type
                                       /\ stack'[k].begun = stack[k].begun
             /\ RaisingTo(stack', k) = RaisingTo(stack, k)
  <2> DEFINE b == n - 1
  <2>1. b \in Int /\ k \in 1..b /\ k \in Int /\ k <= b
    <3> HIDE DEF n
    <3> QED BY <1>0, <1>5
  <2>2. Alike(stack, stack', b)
    BY <1>3
  <2> HIDE DEF b
  <2> QED BY <2>1, <2>2, AlikeSame
<1> HIDE DEF n
<1>6. ASSUME NEW k \in 1..n, Delivers(stack[k])
      PROVE  stack[k].begun /\ stack[k].entry.event \in (1..serial) \ owed
  BY <1>0, <1>6 DEF Delivered
<1>7. Current.event \in 1..serial /\ Current.event \notin owed'
  OBVIOUS
<1>8. Delivered'
  <2>1. ASSUME NEW k \in 1..n, Delivers(stack'[k])
        PROVE  stack'[k].begun /\ stack'[k].entry.event \in (1..serial') \ owed'
    <3>1. CASE k = n
      BY <3>1, <1>4, <1>7
    <3>2. CASE k # n
      BY <3>2, <2>1, <1>5, <1>6
    <3> QED BY <3>1, <3>2
  <2>2. ASSUME NEW j \in 1..n, NEW k \in 1..n, Delivers(stack'[j]),
               Delivers(stack'[k]), stack'[j].entry.event = stack'[k].entry.event
        PROVE  j = k
    <3>1. CASE j # n /\ k # n
      BY <3>1, <2>2, <1>0, <1>5 DEF Delivered
    <3>2. ASSUME j = n, k # n PROVE FALSE
      BY <3>2, <2>2, <1>4, <1>5, <1>6
    <3>3. ASSUME j # n, k = n PROVE FALSE
      BY <3>3, <2>2, <1>4, <1>5, <1>6
    <3> QED BY <3>1, <3>2, <3>3
  <2> QED BY <2>1, <2>2, <1>3 DEF Delivered
<1>9. Asked'
  <2> SUFFICES ASSUME NEW k \in DOMAIN list'
               PROVE  /\ list'[k].by \in (0..serial') \ owed'
                      /\ list'[k].event # NullEvent /\ list'[k].type = Deleting =>
                           \A i \in 1..n :
                             Delivers(stack'[i]) /\ stack'[i].entry.event = list'[k].by =>
                               /\ 1 <= list'[k].level
                               /\ list'[k].level <= Cardinality(RaisingTo(stack', i))
    BY <1>3 DEF Asked
  <2>1. PICK j \in DOMAIN list : list'[k] \in {list[j], NullEntry(list[j])}
    BY DEF Thinner
  <2>2. list[j].by \in (0..serial) \ owed
    BY DEF Asked
  <2>3. CASE list'[k] = list[j]
    <3>1. list'[k].by \in (0..serial') \ owed'
      BY <2>2, <2>3
    <3>2. ASSUME list[j].event # NullEvent, list[j].type = Deleting, NEW i \in 1..n,
                 Delivers(stack'[i]), stack'[i].entry.event = list[j].by
          PROVE  1 <= list[j].level /\ list[j].level <= Cardinality(RaisingTo(stack', i))
      <4>1. i # n
        BY <3>2, <2>2, <1>4
      <4>2. Delivers(stack[i]) /\ stack[i].entry.event = list[j].by
            /\ RaisingTo(stack', i) = RaisingTo(stack, i)
        BY <4>1, <3>2, <1>5
      <4> QED BY <4>2, <3>2, <1>0 DEF Asked
    <3> QED BY <2>3, <3>1, <3>2
  <2>4. CASE list'[k] = NullEntry(list[j])
    <3>1. list'[k].by = NullEvent /\ list'[k].event = NullEvent
      BY <2>4 DEF NullEntry, NoEntry
    <3>2. 0 \in (0..serial') \ owed'
      OBVIOUS
    <3> QED BY <3>1, <3>2 DEF NullEvent
  <2> QED BY <2>1, <2>3, <2>4
<1>10. DeferredDeleteWaits'
  <2> SUFFICES ASSUME NEW k \in 1..n, Delivers(stack'[k]),
                      stack'[k].entry.type = Deleting, stack'[k].type = AnyType,
                      NEW j \in 1..(k - 1), Delivers(stack'[j]),
                      stack'[j].entry.event = stack'[k].entry.by
               PROVE  FALSE
    BY <1>3 DEF DeferredDeleteWaits, Delivering, Delivers
  <2>1. j \in 1..n /\ j # n /\ j \in Nat
    BY <1>0
  <2>2. /\ Delivers(stack[j]) /\ stack[j].entry = stack'[j].entry
    BY <2>1, <1>5
  <2>3. CASE k # n
    <3>1. Delivers(stack[k]) /\ stack'[k].entry = stack[k].entry /\ stack'[k].type = stack[k].type
      BY <2>3, <1>5
    <3> QED BY <3>1, <2>2, <1>0 DEF DeferredDeleteWaits, Delivering, Delivers
  <2>4. CASE k = n
    <3>1. Current.type = Deleting /\ Top.type = AnyType /\ stack[j].entry.event = Current.by
      BY <2>2, <2>4, <1>4
    <3>2. 1 <= Current.level /\ Current.level <= Cardinality(RaisingTo(stack, j))
      BY <1>0, <1>1, <2>1, <2>2, <3>1 DEF Asked, Current
    <3>3. Cardinality(RaisingTo(stack, j)) \in Nat /\ loopLevel \in Nat
      BY <2>1, OneMore, Levels
    <3>4. Cardinality(RaisingTo(stack, j)) <= loopLevel
      <4>1. IsFiniteSet(1..n)
        <5>1. 1 \in Int /\ n \in Int
          BY <1>0
        <5> QED BY <5>1, FS_Interval
      <4>2. IsFiniteSet(RaisingTo(stack, n))
        BY <4>1, FS_Subset DEF RaisingTo
      <4>3. RaisingTo(stack, j) \subseteq RaisingTo(stack, n)
        <5>1. 1..j \subseteq 1..n
          BY <1>0, <2>1
        <5> QED BY <5>1 DEF RaisingTo
      <4>4. loopLevel = Cardinality(RaisingTo(stack, n))
        BY DEF StackInv, n
      <4> QED BY <4>2, <4>3, <4>4, FS_Subset
    <3>5. AllowDeferredDelete(Current, loopLevel, AnyType)
      BY <1>1, <3>1 DEF MustWait
    <3>6. Current.level > loopLevel \/ Current.level = 0
      BY <3>5 DEF AllowDeferredDelete, AnyType, Deleting
    <3>7. Current.level \in Nat
      BY DEF Entries
    <3> QED BY <3>2, <3>3, <3>4, <3>6, <3>7
  <2> QED BY <2>3, <2>4
<1> QED BY <1>8, <1>9, <1>10

-----------------------------------------------------------------------------
(* The insertion point, without calls for one object or type.              *)

PlainSends(s) ==
  \A k \in DOMAIN s : s[k].kind = "send" => s[k].rcv = NoReceiver /\ s[k].type = AnyType

\* No call for one object or type appears.
LEMMA PlainStaysSo ==
  ASSUME StackInv, StackStep, "send" \notin Calls, PlainSends(stack)
  PROVE  PlainSends(stack')
<1> DEFINE n == Len(stack)
<1>0. /\ n \in Nat /\ DOMAIN stack = 1..n /\ stack' \in Seq(Frames)
      /\ DOMAIN stack' = 1..Len(stack')
  BY LenProperties DEF StackInv, StackStep
<1>1. ASSUME NEW b \in Int, b <= n, Alike(stack, stack', b), NEW k \in 1..b, stack'[k].kind = "send"
      PROVE  stack'[k].rcv = NoReceiver /\ stack'[k].type = AnyType
  <2>1. k \in 1..n
    BY <1>0, <1>1
  <2> QED BY <2>1, <1>0, <1>1 DEF Alike, Like, PlainSends
<1>2. CASE StackKept
  <2>1. Len(stack') = n /\ Alike(stack, stack', n)
    BY <1>2 DEF StackKept, Kept
  <2>2. n \in Int /\ n <= n
    BY <1>0
  <2> QED BY <1>0, <1>1, <2>1, <2>2 DEF PlainSends
<1>3. ASSUME NEW f, Called(f) PROVE PlainSends(stack')
  <2>1. /\ Len(stack') = n + 1 /\ Alike(stack, stack', n) /\ Like(stack'[n + 1], f)
        /\ f.kind = "send" => f.rcv = NoReceiver /\ f.type = AnyType
    BY <1>3 DEF Called, Pushed
  <2>2. n \in Int /\ n <= n /\ \A k \in 1..(n + 1) : k \in 1..n \/ k = n + 1
    BY <1>0
  <2>3. stack'[n + 1].kind = "send" => stack'[n + 1].rcv = NoReceiver /\ stack'[n + 1].type = AnyType
    BY <2>1 DEF Like
  <2> QED BY <1>0, <1>1, <2>1, <2>2, <2>3 DEF PlainSends
<1>4. CASE Returned
  <2> DEFINE b == n - 1
  <2>1. Len(stack') = b /\ Alike(stack, stack', b)
    BY <1>4 DEF Returned, Popped
  <2>2. b \in Int /\ b <= n
    BY <1>0
  <2> HIDE DEF b
  <2> QED BY <1>0, <1>1, <2>1, <2>2 DEF PlainSends
<1>5. ASSUME NEW f, Changed(f) PROVE PlainSends(stack')
  <2> DEFINE b == n - 1
  <2>1. /\ Len(stack') = n /\ Alike(stack, stack', b) /\ Like(stack'[n], f) /\ stack # <<>>
        /\ Top.kind = "send" /\ f.kind = "send" /\ f.rcv = Top.rcv /\ f.type = Top.type
    BY <1>5 DEF Changed, Topped, SendFrames, TopIs
  <2>2. b \in Int /\ b <= n /\ \A k \in 1..n : k \in 1..b \/ k = n
    <3> HIDE DEF n
    <3> QED BY <1>0
  <2>3. n \in DOMAIN stack /\ Top = stack[n]
    BY <2>1, <1>0, StackIs DEF Top, StackInv
  <2>4. stack'[n].rcv = NoReceiver /\ stack'[n].type = AnyType
    BY <2>1, <2>3 DEF Like, PlainSends
  <2> HIDE DEF b
  <2> QED BY <1>0, <1>1, <2>1, <2>2, <2>4 DEF PlainSends
<1> QED BY <1>2, <1>3, <1>4, <1>5 DEF StackStep

\* A call for everything stays until it returns.
LEMMA EverythingStays ==
  ASSUME StackInv, StackStep, \E k \in DOMAIN stack : Everything(stack[k]),
         StackKept \/ (\E f : Called(f)) \/ (Returned /\ ~Everything(Top)) \/ \E f : Changed(f)
  PROVE  \E k \in DOMAIN stack' : Everything(stack'[k])
<1> DEFINE n == Len(stack)
<1>0. /\ n \in Nat /\ DOMAIN stack = 1..n /\ stack' \in Seq(Frames)
      /\ DOMAIN stack' = 1..Len(stack')
  BY LenProperties DEF StackInv, StackStep
<1>1. PICK k \in 1..n : Everything(stack[k])
  BY <1>0
<1>2. ASSUME NEW b \in Int, b <= Len(stack'), Alike(stack, stack', b), k <= b, Len(stack') \in Nat
      PROVE  \E i \in DOMAIN stack' : Everything(stack'[i])
  <2>1. k \in 1..b /\ k \in 1..Len(stack')
    BY <1>0, <1>2
  <2> QED BY <2>1, <1>0, <1>1, <1>2, AlikeSame
<1>3. Len(stack') \in Nat
  BY LenProperties DEF StackStep
<1>4. CASE StackKept
  <2>1. Len(stack') = n /\ Alike(stack, stack', n)
    BY <1>4 DEF StackKept, Kept
  <2>2. n \in Int /\ n <= n /\ k <= n
    BY <1>0
  <2> QED BY <1>2, <1>3, <2>1, <2>2
<1>5. ASSUME NEW f, Called(f) PROVE \E i \in DOMAIN stack' : Everything(stack'[i])
  <2>1. Len(stack') = n + 1 /\ Alike(stack, stack', n)
    BY <1>5 DEF Called, Pushed
  <2>2. n \in Int /\ n <= Len(stack') /\ k <= n
    BY <1>0, <2>1
  <2> QED BY <1>2, <1>3, <2>1, <2>2
<1>6. CASE Returned /\ ~Everything(Top)
  <2> DEFINE b == n - 1
  <2>1. Len(stack') = b /\ Alike(stack, stack', b)
    BY <1>6 DEF Returned, Popped
  <2>2. k # n
    BY <1>1, <1>6 DEF Top
  <2>3. b \in Int /\ k <= b
    <3> HIDE DEF n
    <3> QED BY <1>0, <2>2
  <2> HIDE DEF b
  <2>4. b <= Len(stack')
    BY <2>1, <2>3
  <2> QED BY <1>2, <1>3, <2>1, <2>3, <2>4
<1>7. ASSUME NEW f, Changed(f) PROVE \E i \in DOMAIN stack' : Everything(stack'[i])
  <2> DEFINE b == n - 1
  <2>1. /\ Len(stack') = n /\ Alike(stack, stack', b) /\ Like(stack'[n], f) /\ f.kind = "send"
        /\ f.rcv = Top.rcv /\ f.type = Top.type /\ (Top.begun => f.begun)
    BY <1>7 DEF Changed, Topped, SendFrames
  <2>2. CASE k = n
    BY <2>1, <2>2, <1>0, <1>1 DEF Everything, Like, Top
  <2>3. CASE k # n
    <3>1. b \in Int /\ k <= b /\ b <= Len(stack')
      <4>1. Len(stack') = n
        BY <2>1
      <4> HIDE DEF n
      <4> QED BY <1>0, <4>1, <2>3
    <3> HIDE DEF b
    <3> QED BY <3>1, <2>1, <1>2, <1>3
  <2> QED BY <2>2, <2>3
<1> QED BY <1>4, <1>5, <1>6, <1>7

\* A step that keeps the insertion point, and does not take away what is in front of it.
LEMMA WholeStays ==
  ASSUME ListInv, StackInv, StackStep, Whole, program' = program, insertionOffset' = insertionOffset,
         StackKept \/ (\E f : Called(f)) \/ (Returned /\ ~Everything(Top)) \/ \E f : Changed(f),
         list' \in Seq(Entries),
         Len(list') >= Len(list) \/ ("send" \notin Calls => insertionOffset = 0)
  PROVE  Whole'
<1> SUFFICES ASSUME "send" \notin Calls
             PROVE  /\ PlainSends(stack')
                    /\ insertionOffset' <= Len(list')
                    /\ insertionOffset' > 0 => \E k \in DOMAIN stack' : Everything(stack'[k])
  BY DEF Whole, Calls, PlainSends
<1>1. /\ PlainSends(stack) /\ insertionOffset <= Len(list)
      /\ insertionOffset > 0 => \E k \in DOMAIN stack : Everything(stack[k])
  BY DEF Whole, PlainSends
<1>2. PlainSends(stack')
  BY <1>1, PlainStaysSo
<1>3. insertionOffset' <= Len(list')
  <2>1. Len(list) \in Nat /\ Len(list') \in Nat /\ insertionOffset \in Nat
    BY LenProperties DEF ListInv, Offsets
  <2> QED BY <2>1, <1>1
<1>4. insertionOffset' > 0 => \E k \in DOMAIN stack' : Everything(stack'[k])
  BY <1>1, EverythingStays
<1> QED BY <1>2, <1>3, <1>4

\* When nobody sends, both offsets are at the beginning.
LEMMA NobodySends ==
  ASSUME ListInv, StackInv, recursion = 0
  PROVE  startOffset = 0 /\ (Whole /\ "send" \notin Calls => insertionOffset = 0)
<1>1. startOffset \in Nat /\ insertionOffset \in Nat
  BY LenProperties DEF ListInv, Offsets
<1>2. \A k \in DOMAIN stack : ~Everything(stack[k])
  BY Levels DEF Everything
<1>3. startOffset = 0
  BY <1>1, <1>2 DEF StackInv
<1>4. ASSUME Whole, "send" \notin Calls PROVE insertionOffset = 0
  BY <1>1, <1>2, <1>4 DEF Whole
<1> QED BY <1>3, <1>4

-----------------------------------------------------------------------------
(* Every step keeps the invariant.                                         *)

\* Steps that leave the list and the counters alone.
LEMMA ListUntouched ==
  ASSUME ListInv,
         UNCHANGED <<list, insertionOffset, startOffset, owed, serial, postedEvents, alive>>
  PROVE  ListInv' /\ Thinner /\ Settled
<1>1. ListInv'
  BY DEF ListInv, Offsets, Listed, Counts, Order
<1>2. Thinner
  BY DEF Thinner
<1>3. Settled
  BY DEF Settled
<1> QED BY <1>1, <1>2, <1>3

\* Steps that deliver nothing.
LEMMA CalmStepKeeps ==
  ASSUME IInv, ListInv', StackStep, Settled,
         StackKept \/ (\E f : Called(f)) \/ Returned \/ \E f : Changed(f) /\ ~Delivers(f),
         \A k \in DOMAIN list' :
           \/ \E j \in DOMAIN list : list'[k] \in {list[j], NullEntry(list[j])}
           \/ /\ list'[k].by \in (0..serial) \ owed
              /\ list'[k].type = Deleting =>
                   \A i \in DOMAIN stack :
                     Delivers(stack[i]) /\ stack[i].entry.event = list'[k].by =>
                       1 <= list'[k].level /\ list'[k].level <= Cardinality(RaisingTo(stack, i))
  PROVE  StackInv' /\ Delivered' /\ Asked' /\ DeferredDeleteWaits'
<1>1. startOffset \in Nat /\ startOffset' \in Nat /\ serial \in Nat /\ serial' \in Nat
  <2>1. serial \in Nat /\ serial' \in Nat
    BY PostEventListAssumption DEF IInv, ListInv, Listed
  <2>2. startOffset \in Nat
    BY LenProperties DEF IInv, ListInv, Offsets
  <2>3. startOffset' \in Nat
    BY LenProperties DEF ListInv, Offsets
  <2> QED BY <2>1, <2>2, <2>3
<1>2. StackInv'
  BY <1>1, StackStepKeeps DEF IInv
<1>3. 0 \notin owed
  BY <1>1 DEF IInv, ListInv, Listed
<1>4. Calm
  BY CalmSteps DEF IInv
<1> QED BY <1>1, <1>2, <1>3, <1>4, CalmKeeps DEF IInv

\* The numbers of the invariant.
LEMMA Offset ==
  ASSUME IInv
  PROVE  startOffset \in Nat /\ insertionOffset \in Nat /\ serial \in Nat
         /\ Len(list) \in Nat /\ list \in Seq(Entries)
<1>1. list \in Seq(Entries) /\ Len(list) \in Nat
  BY LenProperties DEF IInv, ListInv
<1> QED BY <1>1, PostEventListAssumption DEF IInv, ListInv, Offsets, Listed

\* postEvent: an event that a handler posts knows that handler and its level.
LEMMA PostEventStep ==
  ASSUME IInv, program' = program, NEW own \in BOOLEAN, NEW rcv \in Receivers,
         NEW type \in Types, NEW priority \in Priorities, PostEvent(own, rcv, type, priority)
  PROVE  IInv'
<1>0. /\ stack' = stack /\ serial' = serial + 1 /\ owed' = owed \cup {serial + 1}
      /\ UNCHANGED <<recursion, startOffset, insertionOffset, loopLevel, alive, interrupt>>
      /\ canWait' = FALSE /\ wake' = TRUE /\ (own => InUserCode)
  BY DEF PostEvent
<1>1. loopLevel \in Nat
  BY Levels DEF IInv
<1>2. own => Handling \in (0..serial) \ owed
  <2>1. CASE stack = <<>>
    <3>1. 0 \in (0..serial) \ owed
      BY Offset DEF IInv, ListInv, Listed
    <3> QED BY <2>1, <3>1 DEF Handling, NullEvent
  <2>2. CASE stack # <<>>
    <3>1. own => Delivers(Top)
      BY <1>0, <2>2 DEF InUserCode, Delivering, Delivers, Top
    <3>2. Len(stack) \in DOMAIN stack /\ Top = stack[Len(stack)]
      BY <2>2, StackIs DEF IInv, StackInv, Top
    <3>3. own => Top.entry.event \in (1..serial) \ owed
      BY <3>1, <3>2 DEF IInv, Delivered
    <3> QED BY <3>3, <2>2 DEF Handling
  <2> QED BY <2>1, <2>2
<1>3. serial \in 0..MaxEvents /\ MaxEvents \in Nat /\ owed \subseteq 1..serial
  BY PostEventListAssumption DEF IInv, ListInv, Listed
<1>4. own => Handling \in 0..MaxEvents
  BY <1>2, <1>3
<1>5. /\ ListInv' /\ Len(list') = Len(list) + 1
      /\ \A k \in DOMAIN list' : list'[k] = Posted(own, rcv, type, priority)
                                 \/ \E j \in DOMAIN list : list'[k] = list[j]
  BY <1>1, <1>4, PostEventKeeps DEF IInv
<1>6. stack' \in Seq(Frames) /\ StartMoves /\ StackKept
  BY <1>0, Offset, OthersKeep DEF IInv
<1>7. StackStep
  BY <1>6 DEF StackStep
<1>8. Settled
  BY <1>0, <1>3 DEF Settled
<1> DEFINE new == Posted(own, rcv, type, priority)
<1>9. /\ new.by \in (0..serial) \ owed
      /\ new.type = Deleting =>
           \A i \in DOMAIN stack :
             Delivers(stack[i]) /\ stack[i].entry.event = new.by =>
               1 <= new.level /\ new.level <= Cardinality(RaisingTo(stack, i))
  <2>1. /\ new.by = IF own THEN Handling ELSE NullEvent
        /\ new.type = type
        /\ new.level = IF own /\ type = Deleting THEN loopLevel ELSE 0
    BY DEF Posted
  <2>2. new.by \in (0..serial) \ owed
    <3>1. 0 \in (0..serial) \ owed
      BY <1>3
    <3> QED BY <3>1, <2>1, <1>2 DEF NullEvent
  <2>3. ASSUME new.type = Deleting, NEW i \in DOMAIN stack, Delivers(stack[i]),
               stack[i].entry.event = new.by
        PROVE  1 <= new.level /\ new.level <= Cardinality(RaisingTo(stack, i))
    <3>1. own /\ stack # <<>> /\ new.by = Top.entry.event
      BY <2>1, <2>3 DEF Delivers, Handling
    <3>2. /\ Len(stack) \in Nat /\ Len(stack) > 0 /\ Len(stack) \in DOMAIN stack
          /\ Top = stack[Len(stack)] /\ Delivers(Top)
      BY <3>1, <1>0, StackIs DEF IInv, StackInv, Top, InUserCode, Delivering, Delivers
    <3>3. i = Len(stack)
      BY <2>3, <3>1, <3>2 DEF IInv, Delivered
    <3>4. new.level = loopLevel /\ loopLevel = Cardinality(RaisingTo(stack, i))
      BY <2>1, <2>3, <3>1, <3>3 DEF IInv, StackInv
    <3>5. loopLevel >= 1
      <4> DEFINE b == Len(stack) - 1
      <4>1. b \in Nat /\ b + 1 = Len(stack)
        BY <3>2
      <4> HIDE DEF b
      <4>2. /\ Cardinality(RaisingTo(stack, b)) \in Nat
            /\ Cardinality(RaisingTo(stack, b + 1)) =
                 Cardinality(RaisingTo(stack, b)) + (IF Raises(stack[b + 1]) THEN 1 ELSE 0)
        BY <4>1, OneMore
      <4>3. Raises(stack[b + 1])
        BY <4>1, <3>2 DEF Raises
      <4> QED BY <4>1, <4>2, <4>3, <3>3, <3>4
    <3> QED BY <3>4, <3>5, <1>1
  <2> QED BY <2>2, <2>3
<1> HIDE DEF new
<1>10. StackInv' /\ Delivered' /\ Asked' /\ DeferredDeleteWaits'
  <2>1. ASSUME NEW k \in DOMAIN list'
        PROVE  \/ \E j \in DOMAIN list : list'[k] \in {list[j], NullEntry(list[j])}
               \/ /\ list'[k].by \in (0..serial) \ owed
                  /\ list'[k].type = Deleting =>
                       \A i \in DOMAIN stack :
                         Delivers(stack[i]) /\ stack[i].entry.event = list'[k].by =>
                           1 <= list'[k].level /\ list'[k].level <= Cardinality(RaisingTo(stack, i))
    <3>1. CASE list'[k] = new
      BY <3>1, <1>9
    <3>2. CASE \E j \in DOMAIN list : list'[k] = list[j]
      BY <3>2
    <3> QED BY <3>1, <3>2, <1>5 DEF new
  <2> QED BY <2>1, <1>5, <1>6, <1>7, <1>8, CalmStepKeeps
<1>11. Whole'
  <2>1. list' \in Seq(Entries) /\ Len(list') >= Len(list)
    BY <1>5, Offset DEF ListInv
  <2> QED BY <2>1, <1>0, <1>6, <1>7, WholeStays DEF IInv
<1>12. Flags'
  BY <1>0 DEF IInv, Flags
<1> QED BY <1>5, <1>10, <1>11, <1>12 DEF IInv

\* removePostedEvents and ~QObject.
LEMMA TakeOutStep ==
  ASSUME IInv, program' = program, NEW rcv \in Receivers \cup {NoReceiver},
         NEW type \in Types \cup {AnyType}, TakeOut(rcv, type),
         UNCHANGED <<recursion, startOffset, insertionOffset, canWait, loopLevel, wakeVars,
                     stack, serial>>,
         \/ alive' = alive
         \/ alive' = alive \ {rcv} /\ rcv \in Receivers /\ type = AnyType
  PROVE  IInv'
<1>1. recursion \in Nat /\ (recursion = 0 => startOffset = 0)
  BY Levels, NobodySends DEF IInv
<1>2. /\ ListInv' /\ owed' \subseteq owed
      /\ recursion > 0 => Len(list') = Len(list)
      /\ \A k \in DOMAIN list' : \E j \in DOMAIN list : list'[k] \in {list[j], NullEntry(list[j])}
  BY <1>1, TakeOutKeeps DEF IInv
<1>3. stack' \in Seq(Frames) /\ StartMoves /\ StackKept
  BY Offset, OthersKeep DEF IInv
<1>4. StackStep
  BY <1>3 DEF StackStep
<1>5. Settled
  BY <1>2 DEF Settled
<1>6. StackInv' /\ Delivered' /\ Asked' /\ DeferredDeleteWaits'
  BY <1>2, <1>3, <1>4, <1>5, CalmStepKeeps
<1>7. Whole'
  <2>1. list' \in Seq(Entries) /\ Len(list) \in Nat
    BY <1>2, Offset DEF ListInv
  <2>2. Len(list') >= Len(list) \/ ("send" \notin Calls => insertionOffset = 0)
    <3>1. CASE recursion > 0
      BY <3>1, <1>2, <2>1
    <3>2. CASE recursion = 0
      BY <3>2, NobodySends DEF IInv
    <3> QED BY <3>1, <3>2, <1>1
  <2> QED BY <2>1, <2>2, <1>3, <1>4, WholeStays DEF IInv
<1>8. Flags'
  BY DEF IInv, Flags, wakeVars
<1> QED BY <1>2, <1>6, <1>7, <1>8 DEF IInv

\* removePostedEvents, as a call of its own.
LEMMA RemoveStep ==
  ASSUME IInv, program' = program, NEW rcv \in Receivers \cup {NoReceiver},
         NEW type \in Types \cup {AnyType}, RemovePostedEvents(rcv, type)
  PROVE  IInv'
<1>1. /\ TakeOut(rcv, type) /\ alive' = alive
      /\ UNCHANGED <<recursion, startOffset, insertionOffset, canWait, loopLevel, wakeVars,
                     stack, serial>>
  BY DEF RemovePostedEvents
<1> QED BY <1>1, TakeOutStep

\* ~QObject, which removes what is posted to the object.
LEMMA DeleteStep ==
  ASSUME IInv, program' = program, NEW rcv \in Receivers, DeleteObject(rcv)
  PROVE  IInv'
<1>1. /\ TakeOut(rcv, AnyType) /\ alive' = alive \ {rcv}
      /\ UNCHANGED <<recursion, startOffset, insertionOffset, canWait, loopLevel, wakeVars,
                     stack, serial>>
  BY DEF DeleteObject
<1> QED BY <1>1, TakeOutStep

\* Steps that leave the list alone and deliver nothing.
LEMMA QuietStep ==
  ASSUME IInv, program' = program, stack' \in Seq(Frames), StartMoves,
         StackKept \/ (\E f : Called(f)) \/ (Returned /\ ~Everything(Top))
           \/ \E f : Changed(f) /\ ~Delivers(f),
         UNCHANGED <<list, insertionOffset, startOffset, owed, serial, postedEvents, alive>>,
         Flags'
  PROVE  IInv'
<1>1. ListInv' /\ Thinner /\ Settled
  BY ListUntouched DEF IInv
<1>2. StackStep
  BY DEF StackStep
<1>3. StackInv' /\ Delivered' /\ Asked' /\ DeferredDeleteWaits'
  BY <1>1, <1>2, CalmStepKeeps DEF Thinner
<1>4. Whole'
  <2>1. list' \in Seq(Entries) /\ Len(list') >= Len(list)
    BY Offset
  <2>2. StackKept \/ (\E f : Called(f)) \/ (Returned /\ ~Everything(Top)) \/ \E f : Changed(f)
    OBVIOUS
  <2> QED BY <2>1, <2>2, <1>2, WholeStays DEF IInv
<1> QED BY <1>1, <1>3, <1>4 DEF IInv

\* Calls of sendPostedEvents, exec and processEvents.
LEMMA CallStep ==
  ASSUME IInv, program' = program,
         \/ \E rcv \in Receivers \cup {NoReceiver}, type \in Types \cup {AnyType} :
              CallSendPostedEvents(rcv, type)
         \/ CallExec \/ LoopProcessEvents \/ CallProcessEvents \/ ProcessSend
  PROVE  IInv'
<1>1. stack' \in Seq(Frames) /\ StartMoves /\ \E f : Called(f)
  BY Offset, CallsPush DEF IInv
<1>2. UNCHANGED <<list, insertionOffset, startOffset, owed, serial, postedEvents, alive>>
  <2>1. ASSUME NEW rcv, NEW type, CallSendPostedEvents(rcv, type)
        PROVE  UNCHANGED <<list, insertionOffset, startOffset, owed, serial, postedEvents, alive>>
    BY <2>1 DEF CallSendPostedEvents, objectVars, ghostVars
  <2> QED BY <2>1 DEF CallExec, LoopProcessEvents, CallProcessEvents, ProcessSend, listVars,
               objectVars, ghostVars
<1>3. Flags'
  <2>1. ASSUME NEW rcv, NEW type, CallSendPostedEvents(rcv, type)
        PROVE  Flags'
    BY <2>1 DEF CallSendPostedEvents, wakeVars, IInv, Flags
  <2>2. CASE CallExec
    BY <2>2 DEF CallExec, listVars, wakeVars, IInv, Flags
  <2>3. CASE LoopProcessEvents \/ CallProcessEvents
    BY <2>3 DEF LoopProcessEvents, CallProcessEvents, listVars, IInv, Flags
  <2>4. CASE ProcessSend
    BY <2>4 DEF ProcessSend, wakeVars, IInv, Flags
  <2> QED BY <2>1, <2>2, <2>3, <2>4
<1> QED BY <1>1, <1>2, <1>3, QuietStep

\* The ends of exec and processEvents.
LEMMA ReturnStep ==
  ASSUME IInv, program' = program, ExecReturn \/ ProcessReturn
  PROVE  IInv'
<1>1. stack' \in Seq(Frames) /\ StartMoves /\ Returned
  BY Offset, ReturnsPop DEF IInv
<1>2. ~Everything(Top)
  BY DEF ExecReturn, ProcessReturn, TopIs, Everything
<1>3. UNCHANGED <<list, insertionOffset, startOffset, owed, serial, postedEvents, alive>>
  BY DEF ExecReturn, ProcessReturn, listVars, objectVars, ghostVars
<1>4. Flags'
  BY DEF ExecReturn, ProcessReturn, listVars, wakeVars, IInv, Flags
<1> QED BY <1>1, <1>2, <1>3, <1>4, QuietStep

\* QEventLoop::exit.
LEMMA ExitStep ==
  ASSUME IInv, program' = program, Exit
  PROVE  IInv'
<1>1. stack' \in Seq(Frames) /\ StartMoves /\ StackKept
  BY Offset, OthersKeep DEF IInv
<1>2. UNCHANGED <<list, insertionOffset, startOffset, owed, serial, postedEvents, alive>>
  BY DEF Exit, listVars, objectVars, ghostVars
<1>3. Flags'
  BY DEF Exit, listVars, IInv, Flags
<1> QED BY <1>1, <1>2, <1>3, QuietStep

\* The end of a handler.
LEMMA HandlerReturnKeeps ==
  ASSUME IInv, program' = program, HandlerReturn
  PROVE  IInv'
<1>1. stack' \in Seq(Frames) /\ StartMoves /\ \E f : Changed(f) /\ ~Delivers(f)
  BY Offset, HandlerReturnStep DEF IInv
<1>2. UNCHANGED <<list, insertionOffset, startOffset, owed, serial, postedEvents, alive>>
  BY DEF HandlerReturn, listVars, objectVars, ghostVars
<1>3. Flags'
  BY DEF HandlerReturn, listVars, wakeVars, IInv, Flags
<1> QED BY <1>1, <1>2, <1>3, QuietStep

\* sendPostedEvents up to its loop.
LEMMA BeginSendKeeps ==
  ASSUME IInv, program' = program, BeginSend
  PROVE  IInv'
<1>1. /\ stack' \in Seq(Frames) /\ StartMoves
      /\ \/ Returned /\ UNCHANGED insertionOffset
         \/ insertionOffset' = Len(list) /\ \E f : Changed(f) /\ ~Delivers(f) /\ f.begun
  BY Offset, BeginStep DEF IInv
<1>2. UNCHANGED <<list, startOffset, owed, serial, postedEvents, alive, wakeVars>>
  BY DEF BeginSend, objectVars, ghostVars
<1>3. ListInv'
  BY BeginKeeps DEF IInv
<1>4. StackStep
  BY <1>1 DEF StackStep
<1>5. Settled /\ Thinner
  BY <1>2 DEF Settled, Thinner
<1>6. StackInv' /\ Delivered' /\ Asked' /\ DeferredDeleteWaits'
  <2>1. StackKept \/ (\E f : Called(f)) \/ Returned \/ \E f : Changed(f) /\ ~Delivers(f)
    BY <1>1
  <2> QED BY <2>1, <1>3, <1>4, <1>5, CalmStepKeeps DEF Thinner
<1>7. Whole'
  <2>1. CASE Returned /\ UNCHANGED insertionOffset
    <3>1. ~Everything(Top)
      BY DEF BeginSend, Everything
    <3>2. list' \in Seq(Entries) /\ Len(list') >= Len(list)
      BY <1>2, Offset
    <3> QED BY <2>1, <3>1, <3>2, <1>4, WholeStays DEF IInv
  <2>2. ASSUME insertionOffset' = Len(list), NEW f, Changed(f), f.begun PROVE Whole'
    <3> SUFFICES ASSUME "send" \notin Calls
                 PROVE  /\ PlainSends(stack')
                        /\ insertionOffset' <= Len(list')
                        /\ \E k \in DOMAIN stack' : Everything(stack'[k])
      BY DEF Whole, Calls, PlainSends
    <3>1. PlainSends(stack')
      BY <1>4, PlainStaysSo DEF IInv, Whole, PlainSends
    <3>2. insertionOffset' <= Len(list')
      BY <2>2, <1>2, Offset
    <3>3. /\ Len(stack') = Len(stack) /\ Like(stack'[Len(stack)], f) /\ f.kind = "send"
          /\ Len(stack) > 0
      BY <2>2 DEF Changed, Topped, SendFrames
    <3>4. Len(stack) \in DOMAIN stack'
      BY <3>3, <1>1, LenProperties
    <3>5. Everything(stack'[Len(stack)])
      BY <3>1, <3>3, <3>4, <2>2 DEF Everything, Like, PlainSends
    <3> QED BY <3>1, <3>2, <3>4, <3>5
  <2> QED BY <2>1, <2>2, <1>1
<1>8. Flags'
  BY <1>2 DEF BeginSend, wakeVars, IInv, Flags
<1> QED BY <1>3, <1>6, <1>7, <1>8 DEF IInv

\* A call in its loop has a place.
LEMMA TopAt ==
  ASSUME StackInv, TopIs("send")
  PROVE  Top.at \in Nat
<1>1. Top \in SendFrames
  BY StackIs DEF StackInv
<1> QED BY <1>1, SendFrameIs

\* A round that sends nothing.
LEMMA SkipStep ==
  ASSUME IInv, program' = program, SkipEvent
  PROVE  IInv'
<1>1. stack' \in Seq(Frames) /\ StartMoves /\ StackKept
  BY Offset, OthersKeep DEF IInv
<1>2. /\ UNCHANGED <<list, insertionOffset, owed, serial, wakeVars>>
      /\ canWait' = (canWait /\ Current.event = NullEvent) /\ TopIs("send")
  BY DEF SkipEvent, ghostVars, InRound, InLoop
<1>3. ListInv'
  BY <1>2, TopAt, SkipKeeps DEF IInv
<1>4. StackStep
  BY <1>1 DEF StackStep
<1>5. Settled /\ Thinner
  BY <1>2 DEF Settled, Thinner
<1>6. StackInv' /\ Delivered' /\ Asked' /\ DeferredDeleteWaits'
  BY <1>1, <1>3, <1>4, <1>5, CalmStepKeeps DEF Thinner
<1>7. Whole'
  <2>1. list' \in Seq(Entries) /\ Len(list') >= Len(list)
    BY <1>2, Offset
  <2> QED BY <2>1, <1>1, <1>2, <1>4, WholeStays DEF IInv
<1>8. Flags'
  BY <1>2 DEF wakeVars, IInv, Flags
<1> QED BY <1>3, <1>6, <1>7, <1>8 DEF IInv

\* A round that puts a delete back.
LEMMA PostponeStep ==
  ASSUME IInv, program' = program, PostponeDelete
  PROVE  IInv'
<1>1. stack' \in Seq(Frames) /\ StartMoves /\ StackKept
  BY Offset, OthersKeep DEF IInv
<1>2. UNCHANGED <<insertionOffset, canWait, owed, serial, wakeVars>> /\ TopIs("send")
  BY DEF PostponeDelete, ghostVars, InRound, InLoop
<1>3. /\ ListInv' /\ Len(list') >= Len(list)
      /\ \A k \in DOMAIN list' : \E j \in DOMAIN list : list'[k] \in {list[j], NullEntry(list[j])}
  BY <1>2, TopAt, PostponeKeeps DEF IInv
<1>4. StackStep
  BY <1>1 DEF StackStep
<1>5. Settled
  BY <1>2 DEF Settled
<1>6. StackInv' /\ Delivered' /\ Asked' /\ DeferredDeleteWaits'
  BY <1>1, <1>3, <1>4, <1>5, CalmStepKeeps
<1>7. Whole'
  <2>1. list' \in Seq(Entries)
    BY <1>3 DEF ListInv
  <2> QED BY <2>1, <1>1, <1>2, <1>3, <1>4, WholeStays DEF IInv
<1>8. Flags'
  BY <1>2 DEF wakeVars, IInv, Flags
<1> QED BY <1>3, <1>6, <1>7, <1>8 DEF IInv

\* A round that sends its event.
LEMMA SendEventStep ==
  ASSUME IInv, program' = program, SendEvent
  PROVE  IInv'
<1>1. InRound /\ TopIs("send") /\ UNCHANGED <<insertionOffset, canWait, wakeVars, serial>>
  BY DEF SendEvent, InRound, InLoop
<1>2. Top.at \in Nat
  BY <1>1, TopAt DEF IInv
<1>3. At + 1 \in DOMAIN list /\ At + 1 \in Nat /\ Current \in Entries
  BY <1>1, <1>2, AtPlace DEF IInv
<1>4. /\ ListInv' /\ Len(list') = Len(list)
      /\ owed' = owed \ {Current.event} /\ Current.event \in owed /\ Thinner
  BY <1>2, SendKeeps DEF IInv, Thinner
<1>5. /\ stack' \in Seq(Frames) /\ StartMoves /\ \E f : Changed(f)
  BY <1>3, Offset, SendStep DEF IInv
<1>6. StackStep
  BY <1>5 DEF StackStep
<1>7. StackInv'
  <2>1. startOffset' \in Nat
    BY <1>4, LenProperties DEF ListInv, Offsets
  <2> QED BY <2>1, <1>6, Offset, StackStepKeeps DEF IInv
<1>8. Delivered' /\ Asked' /\ DeferredDeleteWaits'
  <2>1. owed \subseteq 1..serial
    BY DEF IInv, ListInv, Listed
  <2> QED BY <2>1, <1>1, <1>3, <1>4, <1>7, Offset, SendEventKeeps DEF IInv
<1>9. Whole'
  <2>1. list' \in Seq(Entries) /\ Len(list') >= Len(list)
    BY <1>4, Offset DEF ListInv
  <2> QED BY <2>1, <1>1, <1>5, <1>6, WholeStays DEF IInv
<1>10. Flags'
  BY <1>1 DEF wakeVars, IInv, Flags
<1> QED BY <1>4, <1>7, <1>8, <1>9, <1>10 DEF IInv

\* The end of sendPostedEvents.
LEMMA SendDoneStep ==
  ASSUME IInv, program' = program, SendDone
  PROVE  IInv'
<1>1. stack' \in Seq(Frames) /\ StartMoves /\ Returned
  BY Offset, ReturnsPop DEF IInv
<1>2. UNCHANGED <<canWait, owed, serial, interrupt>> /\ InLoop /\ ~InRound
      /\ wake' = (wake \/ (recursion = 1 /\ ~canWait))
  BY DEF SendDone, ghostVars
<1>3. /\ ListInv'
      /\ \A k \in DOMAIN list' : \E j \in DOMAIN list : list'[k] \in {list[j], NullEntry(list[j])}
      /\ SendsAll => insertionOffset' = insertionOffset - startOffset
  BY SendDoneKeeps DEF IInv
<1>4. StackStep
  BY <1>1 DEF StackStep
<1>5. Settled
  BY <1>2 DEF Settled
<1>6. StackInv' /\ Delivered' /\ Asked' /\ DeferredDeleteWaits'
  BY <1>1, <1>3, <1>4, <1>5, CalmStepKeeps
<1>7. Whole'
  <2>1. CASE ~SendsAll
    <3>1. UNCHANGED <<list, insertionOffset>> /\ ~Everything(Top)
      BY <2>1 DEF SendDone, Everything, SendsAll
    <3>2. list' \in Seq(Entries) /\ Len(list') >= Len(list)
      BY <3>1, Offset
    <3> QED BY <3>1, <3>2, <1>1, <1>4, WholeStays DEF IInv
  <2>2. CASE SendsAll
    <3> SUFFICES ASSUME "send" \notin Calls
                 PROVE  /\ PlainSends(stack')
                        /\ insertionOffset' = 0 /\ insertionOffset' <= Len(list')
      BY DEF Whole, Calls, PlainSends
    <3>1. PlainSends(stack')
      BY <1>4, PlainStaysSo DEF IInv, Whole, PlainSends
    <3>2. insertionOffset <= Len(list) /\ startOffset <= insertionOffset
      BY DEF IInv, Whole, ListInv, Offsets
    <3>3. ~(startOffset < Len(list)) \/ ~(startOffset < insertionOffset)
      BY <1>2, <2>2 DEF InRound, At
    <3>4. insertionOffset' = 0
      BY <3>2, <3>3, <1>3, <2>2, Offset
    <3>5. Len(list') \in Nat
      BY <1>3, LenProperties DEF ListInv
    <3> QED BY <3>1, <3>4, <3>5
  <2> QED BY <2>1, <2>2
<1>8. Flags'
  BY <1>2 DEF IInv, Flags
<1> QED BY <1>3, <1>6, <1>7, <1>8 DEF IInv

\* The invariant holds before the first event.
LEMMA InitKeeps == Init => IInv
<1> SUFFICES ASSUME Init PROVE IInv
  OBVIOUS
<1>1. /\ list = <<>> /\ recursion = 0 /\ startOffset = 0 /\ insertionOffset = 0 /\ loopLevel = 0
      /\ postedEvents = [r \in Receivers |-> 0] /\ alive = Receivers /\ stack = <<>>
      /\ serial = 0 /\ owed = {}
  BY DEF Init
<1>2. list \in Seq(Entries) /\ Len(list) = 0 /\ DOMAIN list = {} /\ 1..0 = {}
  BY <1>1
<1>3. stack \in Seq(Frames) /\ Len(stack) = 0 /\ DOMAIN stack = {}
  BY <1>1
<1>4. Offsets
  BY <1>1, <1>2 DEF Offsets
<1>5. Listed
  BY <1>1, <1>2, PostEventListAssumption DEF Listed, Once, Live
<1>6. Counts
  <2>1. \A r : LiveFor(list, r) = {}
    BY <1>2 DEF LiveFor
  <2>2. Cardinality({}) = 0
    BY FS_EmptySet
  <2> QED BY <1>1, <2>1, <2>2 DEF Counts
<1>7. Order
  BY <1>2 DEF Order, Descends, InOrder
<1>8. StackInv
  <2>1. SendsTo(stack, 0) = {} /\ RaisingTo(stack, 0) = {}
    BY <1>2 DEF SendsTo, RaisingTo
  <2>2. Cardinality({}) = 0
    BY FS_EmptySet
  <2>3. recursion = Cardinality(SendsTo(stack, Len(stack)))
    BY <1>1, <1>3, <2>1, <2>2
  <2>4. loopLevel = Cardinality(RaisingTo(stack, Len(stack)))
    BY <1>1, <1>3, <2>1, <2>2
  <2>5. ~(startOffset > 0)
    BY <1>1
  <2> QED BY <1>3, <2>3, <2>4, <2>5 DEF StackInv
<1>9. Whole /\ Delivered /\ Asked /\ DeferredDeleteWaits
  BY <1>1, <1>2, <1>3 DEF Whole, Delivered, Asked, DeferredDeleteWaits
<1>10. Flags
  BY DEF Init, Flags
<1> QED BY <1>2, <1>4, <1>5, <1>6, <1>7, <1>8, <1>9, <1>10 DEF IInv, ListInv

\* Every step of the specification keeps it.
LEMMA NextKeeps == IInv /\ [Next]_vars => IInv'
<1> SUFFICES ASSUME IInv, [Next]_vars PROVE IInv'
  OBVIOUS
<1>1. CASE UNCHANGED vars
  <2>1. UNCHANGED <<program, list, recursion, startOffset, insertionOffset, canWait, loopLevel,
                    postedEvents, alive, interrupt, wake, stack, serial, owed>>
    BY <1>1 DEF vars, listVars, objectVars, wakeVars, ghostVars
  <2>2. stack' \in Seq(Frames) /\ StartMoves /\ StackKept
    BY <2>1, Offset, OthersKeep DEF IInv
  <2>3. Flags'
    BY <2>1 DEF IInv, Flags
  <2> QED BY <2>1, <2>2, <2>3, QuietStep
<1>2. CASE Next
  <2>0. program' = program /\ Step
    BY <1>2 DEF Next
  <2>1. ASSUME NEW own \in BOOLEAN, NEW rcv \in Receivers, NEW type \in Types,
               NEW priority \in Priorities, PostEvent(own, rcv, type, priority)
        PROVE  IInv'
    BY <2>0, <2>1, PostEventStep
  <2>2. ASSUME NEW rcv \in Receivers, NEW type \in Types \cup {AnyType},
               RemovePostedEvents(rcv, type)
        PROVE  IInv'
    BY <2>0, <2>2, RemoveStep
  <2>3. ASSUME NEW type \in Types, RemovePostedEvents(NoReceiver, type) PROVE IInv'
    BY <2>0, <2>3, RemoveStep
  <2>4. ASSUME NEW rcv \in Receivers, DeleteObject(rcv) PROVE IInv'
    BY <2>0, <2>4, DeleteStep
  <2>5. ASSUME NEW rcv \in Receivers, CallSendPostedEvents(rcv, AnyType) PROVE IInv'
    BY <2>0, <2>5, CallStep
  <2>6. ASSUME NEW type \in Types \cup {AnyType}, CallSendPostedEvents(NoReceiver, type)
        PROVE  IInv'
    BY <2>0, <2>6, CallStep
  <2>7. CASE BeginSend
    BY <2>0, <2>7, BeginSendKeeps
  <2>8. CASE SkipEvent
    BY <2>0, <2>8, SkipStep
  <2>9. CASE PostponeDelete
    BY <2>0, <2>9, PostponeStep
  <2>10. CASE SendEvent
    BY <2>0, <2>10, SendEventStep
  <2>11. CASE HandlerReturn
    BY <2>0, <2>11, HandlerReturnKeeps
  <2>12. CASE SendDone
    BY <2>0, <2>12, SendDoneStep
  <2>13. CASE CallExec \/ LoopProcessEvents \/ CallProcessEvents \/ ProcessSend
    BY <2>0, <2>13, CallStep
  <2>14. CASE ExecReturn \/ ProcessReturn
    BY <2>0, <2>14, ReturnStep
  <2>15. CASE Exit
    BY <2>0, <2>15, ExitStep
  <2> QED BY <2>0, <2>1, <2>2, <2>3, <2>4, <2>5, <2>6, <2>7, <2>8, <2>9, <2>10, <2>11, <2>12,
             <2>13, <2>14, <2>15 DEF Step
<1> QED BY <1>1, <1>2

-----------------------------------------------------------------------------
(* Going to sleep.                                                         *)

\* Where handlers only run loops, the calls in progress are those: exec() calls processEvents,
\* and that sendPostedEvents for everything.
Stands(s, k) ==
  /\ s[k].kind = "process" => k > 1 /\ s[k - 1].kind = "exec"
  /\ s[k].kind = "send" => /\ k > 1 /\ s[k - 1].kind = "process"
                           /\ s[k].rcv = NoReceiver /\ s[k].type = AnyType
Steady(s) == \A k \in DOMAIN s : Stands(s, k)

\* The innermost loop has not been told to exit without the dispatcher.
Exits ==
  \A k \in DOMAIN stack :
    /\ stack[k].kind = "exec" /\ stack[k].exit
    /\ \A j \in DOMAIN stack : j > k => stack[j].kind # "exec"
    => interrupt

\* What of a list can be sent at a level is in front of the insertion point of the call that
\* sends, ...
Waits(entry, level) == entry.type = Deleting /\ ~AllowDeferredDelete(entry, level, AnyType)
Reached(l, from, level) ==
  \A k \in DOMAIN l : l[k].event # NullEvent => k <= from \/ Waits(l[k], level)

\* ... and after it nothing, unless the thread is going to be woken up.
Served ==
  ~interrupt /\ ~wake =>
    /\ TopIs("send") /\ Top.begun => Reached(list, insertionOffset, loopLevel - Raised(Top))
    /\ TopIs("process") /\ Top.sent => Reached(list, 0, loopLevel)

OnlyLoops == Calls \cap {"send", "processEvents"} = {}
Asleep == Steady(stack) /\ Exits /\ Served

\* Frames of a steady stack stay so, and the one that a call adds stands on what calls it.
LEMMA SteadyStays ==
  ASSUME StackInv, StackStep, Steady(stack),
         \A f : Called(f) => Stands(stack', Len(stack'))
  PROVE  Steady(stack')
<1> DEFINE n == Len(stack)
           m == Len(stack')
<1>0. n \in Nat /\ m \in Nat /\ DOMAIN stack = 1..n /\ DOMAIN stack' = 1..m
  BY LenProperties DEF StackInv, StackStep
<1>1. ASSUME NEW b \in Int, b <= n, Alike(stack, stack', b), NEW k \in 1..b
      PROVE  Stands(stack', k)
  <2>1. k \in 1..n /\ (k > 1 => k - 1 \in 1..b)
    BY <1>0, <1>1
  <2>2. Stands(stack, k) /\ Like(stack[k], stack'[k]) /\ (k > 1 => Like(stack[k - 1], stack'[k - 1]))
    BY <1>0, <1>1, <2>1 DEF Steady, Alike
  <2> QED BY <2>2 DEF Stands, Like
<1>2. CASE StackKept
  <2>1. m = n /\ Alike(stack, stack', n) /\ n \in Int /\ n <= n
    BY <1>0, <1>2 DEF StackKept, Kept
  <2> QED BY <2>1, <1>0, <1>1 DEF Steady
<1>3. ASSUME NEW f, Called(f) PROVE Steady(stack')
  <2>1. m = n + 1 /\ Alike(stack, stack', n) /\ n \in Int /\ n <= n /\ Stands(stack', m)
    BY <1>0, <1>3 DEF Called, Pushed
  <2>2. \A k \in 1..m : k \in 1..n \/ k = m
    BY <1>0, <2>1
  <2> QED BY <2>1, <2>2, <1>0, <1>1 DEF Steady
<1>4. CASE Returned
  <2> DEFINE b == n - 1
  <2>1. m = b /\ Alike(stack, stack', b)
    BY <1>4 DEF Returned, Popped
  <2>2. b \in Int /\ b <= n
    BY <1>0
  <2> HIDE DEF b
  <2> QED BY <2>1, <2>2, <1>0, <1>1 DEF Steady
<1>5. ASSUME NEW f, Changed(f) PROVE Steady(stack')
  <2> DEFINE b == n - 1
  <2>1. /\ m = n /\ Alike(stack, stack', b) /\ Like(stack'[n], f) /\ stack # <<>>
        /\ Top.kind = "send" /\ f.kind = "send" /\ f.rcv = Top.rcv /\ f.type = Top.type
    BY <1>5 DEF Changed, Topped, SendFrames, TopIs
  <2>2. n \in DOMAIN stack /\ Top = stack[n]
    BY <2>1, StackIs DEF Top, StackInv
  <2>3. b \in Int /\ b <= n /\ \A k \in 1..m : k \in 1..b \/ k = n
    <3> HIDE DEF n
    <3> QED BY <1>0, <2>1
  <2>4. Stands(stack, n) /\ n > 1 /\ b \in 1..b
    <3>1. Stands(stack, n) /\ n > 1
      BY <2>1, <2>2 DEF Steady, Stands
    <3> HIDE DEF n
    <3> QED BY <3>1, <1>0
  <2>5. Like(stack[b], stack'[b])
    BY <2>1, <2>4 DEF Alike
  <2>6. Stands(stack', n)
    BY <2>1, <2>2, <2>4, <2>5 DEF Stands, Like
  <2> HIDE DEF b
  <2> QED BY <2>1, <2>3, <2>6, <1>0, <1>1 DEF Steady
<1> QED BY <1>2, <1>3, <1>4, <1>5 DEF StackStep

LEMMA NotCalled ==
  ASSUME Len(stack') # Len(stack) + 1
  PROVE  \A f : ~Called(f)
  BY DEF Called, Pushed

\* The stack of a call, of a return and of a change of the innermost frame, exactly.
LEMMA Stacks ==
  ASSUME StackInv
  PROVE  /\ Len(stack) \in Nat /\ DOMAIN stack = 1..Len(stack)
         /\ \A f \in Frames : /\ DOMAIN Append(stack, f) = 1..(Len(stack) + 1)
                              /\ \A k \in 1..Len(stack) : Append(stack, f)[k] = stack[k]
                              /\ Append(stack, f)[Len(stack) + 1] = f
                              /\ Len(Append(stack, f)) = Len(stack) + 1
         /\ stack # <<>> => /\ DOMAIN Pop = 1..(Len(stack) - 1) /\ Len(Pop) = Len(stack) - 1
                            /\ \A k \in 1..(Len(stack) - 1) : Pop[k] = stack[k]
         /\ stack # <<>> => \A f \in Frames :
              /\ SetTop(f) \in Seq(Frames) /\ Len(SetTop(f)) = Len(stack)
              /\ DOMAIN SetTop(f) = DOMAIN stack
              /\ \A k \in DOMAIN stack : SetTop(f)[k] = IF k = Len(stack) THEN f ELSE stack[k]
<1> DEFINE n == Len(stack)
<1>0. n \in Nat /\ DOMAIN stack = 1..n /\ stack \in Seq(Frames) /\ (stack # <<>> => n \in 1..n)
  BY StackIs DEF StackInv
<1>1. ASSUME NEW f \in Frames
      PROVE  /\ DOMAIN Append(stack, f) = 1..(n + 1) /\ Len(Append(stack, f)) = n + 1
             /\ \A k \in 1..n : Append(stack, f)[k] = stack[k]
             /\ Append(stack, f)[n + 1] = f
  <2>1. /\ Append(stack, f) \in Seq(Frames) /\ Len(Append(stack, f)) = n + 1
        /\ \A k \in 1..n : Append(stack, f)[k] = stack[k]
        /\ Append(stack, f)[n + 1] = f
    BY <1>0, AppendProperties
  <2> QED BY <2>1, LenProperties
<1>2. ASSUME stack # <<>>
      PROVE  /\ DOMAIN Pop = 1..(n - 1) /\ Len(Pop) = n - 1
             /\ \A k \in 1..(n - 1) : Pop[k] = stack[k]
  <2>1. Pop \in Seq(Frames) /\ Len(Pop) = n - 1
    BY <1>0, <1>2, PopIs DEF Popped
  <2>2. n > 0 /\ \A k \in 1..(n - 1) : stack[k] \in Frames
    BY <1>0, <1>2, StackIs
  <2>3. \A k \in 1..(n - 1 - 1 + 1) : Pop[k] = stack[1 + k - 1]
    BY <1>0, <2>2, SubSeqProperties DEF Pop
  <2>4. \A k \in 1..(n - 1) : Pop[k] = stack[k]
    BY <1>0, <2>3
  <2> QED BY <2>1, <2>4, LenProperties
<1>3. ASSUME stack # <<>>, NEW f \in Frames
      PROVE  /\ SetTop(f) \in Seq(Frames) /\ Len(SetTop(f)) = n /\ DOMAIN SetTop(f) = DOMAIN stack
             /\ \A k \in DOMAIN stack : SetTop(f)[k] = IF k = n THEN f ELSE stack[k]
  BY <1>0, <1>3, ExceptSeq, LenProperties DEF SetTop
<1> QED BY <1>0, <1>1, <1>2, <1>3

\* Loops that stay as they were ask for nothing new.
LEMMA ExitsStay ==
  ASSUME Exits, interrupt' = interrupt,
         \A k : k \in DOMAIN stack' /\ stack'[k].kind = "exec" =>
                  k \in DOMAIN stack /\ stack[k].kind = "exec" /\ stack[k].exit = stack'[k].exit,
         \A k : k \in DOMAIN stack /\ stack[k].kind = "exec" =>
                  k \in DOMAIN stack' /\ stack'[k].kind = "exec"
  PROVE  Exits'
  BY DEF Exits

\* They stay when another call than a loop returns.
LEMMA PopStays ==
  ASSUME StackInv, stack # <<>>, stack' = Pop, Top.kind # "exec", Exits, interrupt' = interrupt
  PROVE  Exits'
<1> DEFINE n == Len(stack)
<1>1. /\ n \in Nat /\ DOMAIN stack = 1..n /\ DOMAIN stack' = 1..(n - 1)
      /\ \A k \in 1..(n - 1) : stack'[k] = stack[k]
  BY Stacks
<1>2. Top = stack[n]
  BY DEF Top
<1> HIDE DEF n
<1>3. (\A k \in 1..n : k \in 1..(n - 1) \/ k = n) /\ \A k \in 1..(n - 1) : k \in 1..n
  BY <1>1
<1>4. \A k : k \in DOMAIN stack' /\ stack'[k].kind = "exec" =>
               k \in DOMAIN stack /\ stack[k].kind = "exec" /\ stack[k].exit = stack'[k].exit
  BY <1>1, <1>3
<1>5. \A k : k \in DOMAIN stack /\ stack[k].kind = "exec" =>
               k \in DOMAIN stack' /\ stack'[k].kind = "exec"
  BY <1>1, <1>2, <1>3
<1> QED BY <1>4, <1>5, ExitsStay

\* Taking events out, and putting in one that waits, leaves nothing behind the insertion point
\* that could be sent.
LEMMA ThinnedReached ==
  ASSUME NEW l \in Seq(Entries), NEW m, NEW f, NEW gone, NEW shift \in Nat,
         Thins(m, l, f, gone, shift), NEW from \in Nat, NEW to \in Nat, to >= from - shift,
         NEW level, Reached(l, from, level)
  PROVE  Reached(m, to, level)
<1> SUFFICES ASSUME NEW k \in DOMAIN m, m[k].event # NullEvent
             PROVE  k <= to \/ Waits(m[k], level)
  BY DEF Reached
<1>1. /\ f[k] \in DOMAIN l /\ f[k] >= k + shift
      /\ m[k] = l[f[k]] \/ m[k] = NullEntry(l[f[k]])
  BY DEF Thins
<1>2. /\ m \in Seq(Entries) /\ DOMAIN l = 1..Len(l) /\ Len(l) \in Nat
      /\ l[f[k]] \in Entries
  BY <1>1, ListIs DEF Thins
<1>3. k \in Nat /\ f[k] \in Nat
  BY <1>1, <1>2, LenProperties
<1>4. m[k] = l[f[k]]
  BY <1>1, <1>2, NullIs
<1>5. f[k] <= from \/ Waits(m[k], level)
  BY <1>1, <1>4 DEF Reached
<1> QED BY <1>1, <1>3, <1>5

LEMMA AddedReached ==
  ASSUME NEW l \in Seq(Entries), NEW e \in Entries, NEW m, NEW i, Inserted(m, l, i, e),
         i \in 1..(Len(l) + 1), NEW from \in Nat, from < i, NEW level, Waits(e, level),
         Reached(l, from, level)
  PROVE  Reached(m, from, level)
<1> SUFFICES ASSUME NEW k \in DOMAIN m, m[k].event # NullEvent
             PROVE  k <= from \/ Waits(m[k], level)
  BY DEF Reached
<1>1. /\ DOMAIN m = 1..(Len(l) + 1) /\ m[i] = e /\ Len(l) \in Nat
      /\ k # i => \E j \in DOMAIN l : m[k] = l[j] /\ j = IF k < i THEN k ELSE k - 1
  BY InsertedFrom, ListIs
<1>2. CASE k = i
  BY <1>1, <1>2
<1>3. CASE k # i
  <2>1. PICK j \in DOMAIN l : m[k] = l[j] /\ j = IF k < i THEN k ELSE k - 1
    BY <1>1, <1>3
  <2>2. j <= from \/ Waits(m[k], level)
    BY <2>1 DEF Reached
  <2>3. j <= from => k <= from
    BY <2>1, <1>1, <1>3
  <2> QED BY <2>2, <2>3
<1> QED BY <1>2, <1>3

\* A call that sends is one for everything, made by processEvents.
LEMMA SendsEverything ==
  ASSUME StackInv, Steady(stack), TopIs("send")
  PROVE  /\ SendsAll /\ Top.rcv = NoReceiver /\ Top.type = AnyType /\ At = startOffset
         /\ Len(stack) > 1 /\ stack[Len(stack) - 1].kind = "process"
<1>1. Len(stack) \in DOMAIN stack /\ Top = stack[Len(stack)] /\ Top.kind = "send"
  BY StackIs DEF StackInv, TopIs, Top
<1>2. Stands(stack, Len(stack))
  BY <1>1 DEF Steady
<1> QED BY <1>1, <1>2 DEF Stands, SendsAll, At

\* postEvent and exit() wake the thread up.
LEMMA PostSleeps ==
  ASSUME Asleep, NEW own \in BOOLEAN, NEW rcv \in Receivers, NEW type \in Types,
         NEW priority \in Priorities, PostEvent(own, rcv, type, priority)
  PROVE  Asleep'
<1>1. stack' = stack /\ interrupt' = interrupt /\ wake'
  BY DEF PostEvent
<1>2. Steady(stack') /\ Exits' /\ Served'
  BY <1>1 DEF Asleep, Exits, Served
<1> QED BY <1>2 DEF Asleep

LEMMA ExitSleeps ==
  ASSUME IInv, Asleep, Exit
  PROVE  Asleep'
<1>1. stack' \in Seq(Frames) /\ StartMoves /\ StackKept /\ interrupt'
  BY Offset, OthersKeep DEF Exit, IInv
<1>2. \A f : ~Called(f)
  BY <1>1, StackIs, NotCalled DEF IInv, StackInv, StackKept, Kept
<1>3. Steady(stack')
  BY <1>1, <1>2, SteadyStays DEF StackStep, IInv, Asleep
<1> QED BY <1>1, <1>3 DEF Asleep, Exits, Served

\* removePostedEvents takes entries out.
LEMMA TakeOutSleeps ==
  ASSUME IInv, Asleep, NEW rcv, NEW type, TakeOut(rcv, type),
         UNCHANGED <<insertionOffset, loopLevel, wakeVars, stack>>
  PROVE  Asleep'
<1>1. stack' = stack /\ interrupt' = interrupt /\ wake' = wake /\ Top' = Top
      /\ insertionOffset' = insertionOffset /\ loopLevel' = loopLevel
  BY DEF wakeVars, Top
<1>2. list \in Seq(Entries) /\ insertionOffset \in Nat
  BY DEF IInv, ListInv, Offsets
<1>3. ASSUME NEW from \in Nat, NEW level, Reached(list, from, level)
      PROVE  Reached(list', from, level)
  <2>1. CASE list' = list
    BY <2>1, <1>3
  <2>2. CASE list' = Without(rcv, type)
    <3>1. PICK f : Thins(list', list, f, Gone(rcv, type), 0)
      BY <2>2, <1>2, WithoutThins
    <3> QED BY <3>1, <1>2, <1>3, ThinnedReached
  <2> QED BY <2>1, <2>2 DEF TakeOut
<1>4. Served'
  BY <1>1, <1>2, <1>3 DEF Asleep, Served, TopIs
<1>5. Steady(stack') /\ Exits'
  BY <1>1 DEF Asleep, Exits
<1> QED BY <1>4, <1>5 DEF Asleep

\* A call of sendPostedEvents that begins has the whole list in front of its insertion point.
LEMMA BeginSleeps ==
  ASSUME IInv, OnlyLoops, Asleep, BeginSend
  PROVE  Asleep'
<1> DEFINE n == Len(stack)
<1>1. StackInv /\ Steady(stack) /\ TopIs("send") /\ n \in DOMAIN stack /\ stack # <<>>
      /\ Top \in SendFrames /\ Top = stack[n] /\ n \in Nat /\ DOMAIN stack = 1..n
  BY StackIs DEF IInv, StackInv, Asleep, BeginSend, TopIs, Top
<1>2. SendsAll /\ Top.rcv = NoReceiver /\ n > 1 /\ stack[n - 1].kind = "process"
  BY <1>1, SendsEverything
<1>3. /\ stack' \in Seq(Frames) /\ StartMoves
      /\ (Returned \/ \E f : Changed(f)) /\ UNCHANGED <<list, loopLevel, interrupt, wake>>
  BY Offset, BeginStep DEF IInv, BeginSend, wakeVars
<1>4. \A f : ~Called(f)
  <2>1. Returned => Len(stack') = n - 1
    BY DEF Returned, Popped
  <2>2. ASSUME NEW f, Changed(f) PROVE Len(stack') = n
    BY <2>2 DEF Changed, Topped
  <2>3. Len(stack') # n + 1
    <3> HIDE DEF n
    <3> QED BY <2>1, <2>2, <1>1, <1>3
  <2> QED BY <2>3, NotCalled
<1>5. Steady(stack')
  BY <1>1, <1>3, <1>4, SteadyStays DEF StackStep
<1>6. CASE list = <<>>
  <2>1. stack' = Pop
    BY <1>6 DEF BeginSend
  <2>2. /\ DOMAIN stack' = 1..(n - 1) /\ Len(stack') = n - 1
        /\ \A k \in 1..(n - 1) : stack'[k] = stack[k]
    BY <1>1, <2>1, Stacks
  <2>3. Top' = stack[n - 1] /\ Top'.kind = "process"
    <3>1. n - 1 \in 1..(n - 1)
      BY <1>1, <1>2
    <3> QED BY <3>1, <1>2, <2>2 DEF Top
  <2>4. Exits'
    BY <1>1, <1>3, <2>1, PopStays DEF Asleep, TopIs
  <2>5. Reached(list', 0, loopLevel')
    BY <1>3, <1>6 DEF Reached
  <2> QED BY <1>5, <2>3, <2>4, <2>5 DEF Asleep, Served, TopIs
<1>7. CASE list # <<>>
  <2> DEFINE f == [Top EXCEPT !.begun = TRUE, !.at = startOffset]
  <2>1. insertionOffset' = Len(list) /\ stack' = SetTop(f)
    BY <1>7, <1>2 DEF BeginSend
  <2>2. f \in SendFrames /\ f \in Frames /\ f.kind = "send"
    BY <1>1, Offset, FrameChanges, SendFrameIs
  <2> HIDE DEF f
  <2>3. /\ Len(stack') = n /\ DOMAIN stack' = DOMAIN stack
        /\ \A k \in DOMAIN stack : stack'[k] = IF k = n THEN f ELSE stack[k]
    BY <1>1, <2>1, <2>2, Stacks
  <2>4. Top' = f
    BY <1>1, <2>3 DEF Top
  <2>5. Exits'
    BY <1>1, <1>3, <2>2, <2>3, ExitsStay DEF Asleep, TopIs
  <2>6. \A level : Reached(list', insertionOffset', level)
    <3>1. DOMAIN list = 1..Len(list) /\ Len(list) \in Nat
      BY Offset, ListIs
    <3> QED BY <3>1, <1>3, <2>1 DEF Reached
  <2> QED BY <1>5, <2>2, <2>4, <2>5, <2>6 DEF Asleep, Served, TopIs
<1> QED BY <1>6, <1>7

\* The rounds that send nothing: a delete that waits is put behind the insertion point.
LEMMA RoundSleeps ==
  ASSUME IInv, OnlyLoops, Asleep, SkipEvent \/ PostponeDelete
  PROVE  Asleep'
<1>1. StackInv /\ Steady(stack) /\ TopIs("send") /\ InRound /\ Advance /\ Top.begun
      /\ Top.entry.event = NullEvent /\ Top.kind = "send"
  BY DEF IInv, Asleep, SkipEvent, PostponeDelete, InRound, InLoop, TopIs
<1>2. SendsAll /\ Top.rcv = NoReceiver /\ Top.type = AnyType /\ At = startOffset
  BY <1>1, SendsEverything
<1>3. stack' = stack /\ Top' = Top
  BY <1>1, <1>2 DEF Advance, Top
<1>4. UNCHANGED <<loopLevel, interrupt, wake, insertionOffset>>
  BY DEF SkipEvent, PostponeDelete, wakeVars
<1>5. Raised(Top) = 0 /\ loopLevel \in Nat /\ loopLevel - 0 = loopLevel
  BY <1>1, Levels DEF Raised, Raises, Delivers
<1>6. ASSUME Reached(list, insertionOffset, loopLevel)
      PROVE  Reached(list', insertionOffset, loopLevel)
  <2>1. CASE SkipEvent
    BY <2>1, <1>6 DEF SkipEvent
  <2>2. CASE PostponeDelete
    <3> DEFINE a == AddEvent(list, Current)
    <3>1. /\ list \in Seq(Entries) /\ insertionOffset \in Nat /\ Len(list) \in Nat
          /\ insertionOffset <= Len(list) /\ Descends(list, insertionOffset) /\ ListInv
      BY Offset DEF IInv, Whole, OnlyLoops, ListInv, Order
    <3>2. At + 1 \in DOMAIN list /\ Current \in Entries /\ At + 1 \in Nat
      BY <1>1, <3>1, TopAt, AtPlace
    <3>3. PICK i : Inserted(a, list, i, Current) /\ Fits(list, insertionOffset, i, Current)
      BY <3>1, <3>2, AddedAt
    <3>4. i \in 1..(Len(list) + 1) /\ insertionOffset < i
      BY <3>1, <3>3 DEF Fits
    <3>5. Waits(Current, loopLevel)
      BY <2>2, <1>2 DEF PostponeDelete, MustWait, Waits
    <3>6. Reached(a, insertionOffset, loopLevel)
      <4> HIDE DEF a
      <4> QED BY <1>6, <3>1, <3>2, <3>3, <3>4, <3>5, AddedReached
    <3>7. a \in Seq(Entries) /\ At + 1 \in DOMAIN a
      <4>1. a \in Seq(Entries) /\ Len(a) = Len(list) + 1
        BY <3>3 DEF Inserted
      <4> HIDE DEF a
      <4> QED BY <4>1, <3>1, <3>2, ListIs
    <3>8. list' = Nulled(a, At + 1)
      BY <2>2, <1>2 DEF PostponeDelete
    <3> HIDE DEF a
    <3>9. PICK f : Thins(list', a, f, {At + 1}, 0)
      BY <3>7, <3>8, NulledThins
    <3> QED BY <3>1, <3>6, <3>7, <3>9, ThinnedReached
  <2> QED BY <2>1, <2>2
<1>7. Served'
  BY <1>1, <1>3, <1>4, <1>5, <1>6 DEF Asleep, Served, TopIs
<1> QED BY <1>3, <1>4, <1>7 DEF Asleep, Exits

\* A handler is called one level up, and returns to where it was called.
LEMMA HandlerSleeps ==
  ASSUME IInv, OnlyLoops, Asleep, SendEvent \/ HandlerReturn
  PROVE  Asleep'
<1> DEFINE n == Len(stack)
<1>1. StackInv /\ Steady(stack) /\ TopIs("send") /\ Top \in SendFrames /\ Top.kind = "send"
      /\ stack # <<>> /\ n \in DOMAIN stack /\ Top = stack[n] /\ stack \in Seq(Frames)
  BY StackIs DEF IInv, StackInv, Asleep, SendEvent, HandlerReturn, InRound, InLoop, TopIs, Top
<1>2. SendsAll /\ At = startOffset /\ Top.at \in Nat
  BY <1>1, SendsEverything, TopAt
<1>3. list \in Seq(Entries) /\ insertionOffset \in Nat /\ loopLevel \in Nat /\ ListInv
  BY Offset, Levels DEF IInv
<1>4. PICK f \in SendFrames :
        /\ stack' = SetTop(f) /\ f.begun = Top.begun
        /\ loopLevel' = loopLevel - Raised(Top) + Raised(f)
  <2>1. CASE SendEvent
    <3> DEFINE f == [Top EXCEPT !.entry = Current, !.at = At + 1]
    <3>1. At + 1 \in Nat /\ Current \in Entries
      BY <2>1, <1>1, <1>2, <1>3, AtPlace DEF SendEvent
    <3>2. f \in SendFrames
      BY <1>1, <3>1, FrameChanges
    <3>3. f.begun = Top.begun /\ f.kind = "send" /\ f.entry = Current
      BY <1>1 DEF SendFrames
    <3>4. Raised(Top) = 0 /\ Raised(f) = 1
      BY <2>1, <1>1, <3>3 DEF SendEvent, InRound, InLoop, IsFor, Raised, Raises, Delivers
    <3>5. stack' = SetTop(f) /\ loopLevel' = loopLevel + 1
      BY <2>1 DEF SendEvent
    <3> HIDE DEF f
    <3> QED BY <1>3, <3>2, <3>3, <3>4, <3>5
  <2>2. CASE HandlerReturn
    <3> DEFINE f == [Top EXCEPT !.entry = NoEntry]
    <3>1. f \in SendFrames
      BY <1>1, FrameChanges
    <3>2. f.begun = Top.begun /\ f.kind = "send" /\ f.entry = NoEntry
      BY <1>1 DEF SendFrames
    <3>3. Raised(Top) = 1 /\ Raised(f) = 0
      BY <2>2, <1>1, <3>2, NoEntryIs DEF HandlerReturn, Raised, Raises, Delivers
    <3>4. stack' = SetTop(f) /\ loopLevel' = loopLevel - 1
      BY <2>2 DEF HandlerReturn
    <3> HIDE DEF f
    <3> QED BY <1>3, <3>1, <3>2, <3>3, <3>4
  <2> QED BY <2>1, <2>2
<1>5. f \in Frames /\ f.kind = "send"
  BY <1>4, SendFrameIs
<1>6. /\ Len(stack') = n /\ DOMAIN stack' = DOMAIN stack
      /\ \A k \in DOMAIN stack : stack'[k] = IF k = n THEN f ELSE stack[k]
  BY <1>1, <1>4, <1>5, Stacks
<1>7. Top' = f
  BY <1>1, <1>6 DEF Top
<1>8. UNCHANGED <<interrupt, wake, insertionOffset>>
  BY DEF SendEvent, HandlerReturn, wakeVars, listVars
<1>9. Exits'
  BY <1>1, <1>5, <1>6, <1>8, ExitsStay DEF Asleep
<1>10. Steady(stack')
  <2>1. (\E g : Changed(g)) /\ stack' \in Seq(Frames) /\ StartMoves
    <3>1. CASE SendEvent
      <4>1. At + 1 \in Nat /\ Current \in Entries
        BY <3>1, <1>1, <1>2, <1>3, AtPlace DEF SendEvent
      <4> QED BY <3>1, <4>1, <1>1, Offset, SendStep
    <3>2. CASE HandlerReturn
      BY <3>2, <1>1, Offset, HandlerReturnStep
    <3> QED BY <3>1, <3>2
  <2>2. \A g : ~Called(g)
    <3>1. n \in Nat /\ Len(stack') = n
      BY <1>1, <1>6, StackIs
    <3>2. Len(stack') # n + 1
      <4> HIDE DEF n
      <4> QED BY <3>1
    <3> QED BY <3>2, NotCalled
  <2> QED BY <2>1, <2>2, <1>1, SteadyStays DEF StackStep
<1>11. ASSUME NEW level, Reached(list, insertionOffset, level)
       PROVE  Reached(list', insertionOffset, level)
  <2>1. CASE SendEvent
    <3>1. At + 1 \in DOMAIN list /\ list' = Nulled(list, At + 1)
      BY <2>1, <1>1, <1>2, <1>3, AtPlace DEF SendEvent
    <3>2. PICK g : Thins(list', list, g, {At + 1}, 0)
      BY <1>3, <3>1, NulledThins
    <3> QED BY <3>2, <1>3, <1>11, ThinnedReached
  <2>2. CASE HandlerReturn
    BY <2>2, <1>11 DEF HandlerReturn, listVars
  <2> QED BY <2>1, <2>2
<1>12. loopLevel' - Raised(f) = loopLevel - Raised(Top)
  <2>1. Raised(f) \in {0, 1} /\ Raised(Top) \in {0, 1}
    BY DEF Raised
  <2> QED BY <2>1, <1>3, <1>4
<1>13. Served'
  BY <1>1, <1>4, <1>5, <1>7, <1>8, <1>11, <1>12 DEF Asleep, Served, TopIs
<1> QED BY <1>9, <1>10, <1>13 DEF Asleep

\* The end of sendPostedEvents: everything in front of the insertion point was gone past.
LEMMA DoneSleeps ==
  ASSUME IInv, OnlyLoops, Asleep, SendDone
  PROVE  Asleep'
<1> DEFINE n == Len(stack)
<1>1. /\ StackInv /\ Steady(stack) /\ TopIs("send") /\ Top.kind = "send" /\ stack # <<>>
      /\ Top.begun /\ Top.entry.event = NullEvent /\ stack' = Pop /\ n \in Nat
  BY StackIs DEF IInv, StackInv, Asleep, SendDone, InLoop, TopIs
<1>2. SendsAll /\ At = startOffset /\ n > 1 /\ stack[n - 1].kind = "process"
  BY <1>1, SendsEverything
<1>3. /\ interrupt' = interrupt /\ loopLevel' = loopLevel /\ (wake => wake')
      /\ list' = SubSeq(list, startOffset + 1, Len(list))
      /\ startOffset >= Len(list) \/ startOffset >= insertionOffset
  <2>1. ~(startOffset < Len(list) /\ startOffset < insertionOffset)
    BY <1>1, <1>2 DEF SendDone, InRound
  <2>2. startOffset >= Len(list) \/ startOffset >= insertionOffset
    BY <2>1, Offset
  <2> QED BY <2>2, <1>2 DEF SendDone
<1>4. stack' \in Seq(Frames) /\ StartMoves /\ Returned
  BY Offset, ReturnsPop DEF IInv
<1>5. /\ Len(stack') = n - 1 /\ \A k \in 1..(n - 1) : stack'[k] = stack[k]
  BY <1>1, Stacks
<1>6. Top' = stack[n - 1]
  <2>1. n - 1 \in 1..(n - 1)
    BY <1>1, <1>2
  <2> QED BY <2>1, <1>5 DEF Top
<1>7. Steady(stack')
  <2>1. Len(stack') # n + 1
    <3> HIDE DEF n
    <3> QED BY <1>1, <1>5
  <2> QED BY <2>1, <1>1, <1>4, NotCalled, SteadyStays DEF StackStep
<1>8. Exits'
  BY <1>1, <1>3, PopStays DEF Asleep
<1>9. ASSUME ~interrupt, ~wake PROVE Reached(list', 0, loopLevel)
  <2>1. Raised(Top) = 0 /\ loopLevel - 0 = loopLevel
    BY <1>1, Levels DEF Raised, Raises, Delivers
  <2>2. Reached(list, insertionOffset, loopLevel)
    BY <1>1, <1>9, <2>1 DEF Asleep, Served
  <2>3. /\ startOffset \in 0..Len(list) /\ startOffset \in Nat /\ insertionOffset \in Nat
        /\ list \in Seq(Entries) /\ Len(list) \in Nat
        /\ \A k \in 1..startOffset : list[k].event = NullEvent
    BY Offset DEF IInv, ListInv, Offsets
  <2>4. PICK f : Thins(list', list, f, {}, startOffset)
    BY <1>3, <2>3, DroppedThins
  <2>5. CASE startOffset >= insertionOffset
    <3>1. 0 >= insertionOffset - startOffset
      BY <2>3, <2>5
    <3> QED BY <3>1, <2>2, <2>3, <2>4, ThinnedReached
  <2>6. CASE startOffset >= Len(list)
    <3>1. Reached(list, 0, loopLevel)
      BY <2>3, <2>6, ListIs DEF Reached
    <3>2. 0 >= 0 - startOffset
      BY <2>3
    <3> QED BY <3>1, <3>2, <2>3, <2>4, ThinnedReached
  <2> QED BY <2>5, <2>6, <1>3
<1>10. Served'
  BY <1>2, <1>3, <1>6, <1>9 DEF Served, TopIs
<1> QED BY <1>7, <1>8, <1>10 DEF Asleep

\* The ends of loops and of processEvents: a loop has been told to exit with the dispatcher.
LEMMA ReturnSleeps ==
  ASSUME IInv, OnlyLoops, Asleep, ExecReturn \/ ProcessReturn
  PROVE  Asleep'
<1> DEFINE n == Len(stack)
<1>1. /\ StackInv /\ Steady(stack) /\ stack # <<>> /\ stack' = Pop /\ interrupt' = interrupt
      /\ n \in Nat /\ n \in DOMAIN stack /\ Top = stack[n] /\ DOMAIN stack = 1..n
  BY StackIs DEF IInv, StackInv, Asleep, ExecReturn, ProcessReturn, TopIs, wakeVars, Top
<1>2. stack' \in Seq(Frames) /\ StartMoves /\ Returned
  BY Offset, ReturnsPop DEF IInv
<1>3. Len(stack') = n - 1 /\ \A k \in 1..(n - 1) : stack'[k] = stack[k]
  BY <1>1, Stacks
<1>4. Steady(stack')
  <2>1. Len(stack') # n + 1
    <3> HIDE DEF n
    <3> QED BY <1>1, <1>3
  <2> QED BY <2>1, <1>1, <1>2, NotCalled, SteadyStays DEF StackStep
<1>5. CASE ExecReturn
  <2>1. interrupt
    <3>1. Top.kind = "exec" /\ Top.exit
      BY <1>5 DEF ExecReturn, TopIs
    <3>2. \A j \in DOMAIN stack : ~(j > n)
      BY <1>1
    <3> HIDE DEF n
    <3> QED BY <3>1, <3>2, <1>1 DEF Asleep, Exits
  <2> QED BY <2>1, <1>1, <1>4 DEF Asleep, Exits, Served
<1>6. CASE ProcessReturn
  <2>1. Top.kind = "process"
    BY <1>6 DEF ProcessReturn, TopIs
  <2>2. Exits'
    BY <2>1, <1>1, PopStays DEF Asleep
  <2>3. n > 1 /\ stack[n - 1].kind = "exec"
    BY <2>1, <1>1 DEF Steady, Stands
  <2>4. Top' = stack[n - 1]
    <3>1. n - 1 \in 1..(n - 1)
      BY <1>1, <2>3
    <3> QED BY <3>1, <1>3 DEF Top
  <2> QED BY <2>2, <2>3, <2>4, <1>4 DEF Asleep, Served, TopIs
<1> QED BY <1>5, <1>6

\* The calls: a loop clears the dispatcher's flag when it has not been told to exit.
LEMMA CallSleeps ==
  ASSUME IInv, OnlyLoops, Asleep, CallExec \/ LoopProcessEvents \/ ProcessSend
  PROVE  Asleep'
<1> DEFINE n == Len(stack)
<1>1. /\ StackInv /\ Steady(stack) /\ n \in Nat /\ DOMAIN stack = 1..n
      /\ stack # <<>> => n \in DOMAIN stack /\ Top \in Frames /\ Top = stack[n]
      /\ stack \in Seq(Frames)
  BY StackIs DEF IInv, StackInv, Asleep, Top
<1>2. stack' \in Seq(Frames) /\ StartMoves /\ \E f : Called(f)
  BY Offset, CallsPush DEF IInv
<1>3. ASSUME Stands(stack', Len(stack')) PROVE Steady(stack')
  BY <1>1, <1>2, <1>3, SteadyStays DEF StackStep
<1>4. ASSUME NEW f \in Frames, stack' = Append(stack, f)
      PROVE  /\ DOMAIN stack' = 1..(n + 1) /\ Len(stack') = n + 1 /\ stack'[n + 1] = f /\ Top' = f
             /\ \A k \in 1..n : stack'[k] = stack[k]
             /\ \A k \in 1..(n + 1) : k \in 1..n \/ k = n + 1
             /\ (n + 1) - 1 = n /\ (stack # <<>> => n + 1 > 1)
  <2>1. /\ DOMAIN stack' = 1..(n + 1) /\ Len(stack') = n + 1 /\ stack'[n + 1] = f
        /\ \A k \in 1..n : stack'[k] = stack[k]
    BY <1>1, <1>4, Stacks
  <2>2. Top' = f
    BY <2>1 DEF Top
  <2>3. stack # <<>> => n \in 1..n
    BY <1>1
  <2> HIDE DEF n
  <2>4. /\ \A k \in 1..(n + 1) : k \in 1..n \/ k = n + 1
        /\ (n + 1) - 1 = n /\ (stack # <<>> => n + 1 > 1)
    BY <2>3, <1>1
  <2> QED BY <2>1, <2>2, <2>4
<1>5. CASE CallExec
  <2>1. stack' = Append(stack, Exec) /\ Exec \in Frames /\ Exec.kind = "exec" /\ ~Exec.exit
        /\ UNCHANGED <<interrupt, wake>>
    BY <1>5, NewFrames DEF CallExec, Exec, wakeVars
  <2>2. Steady(stack')
    BY <2>1, <1>3, <1>4 DEF Stands
  <2>3. Exits'
    <3> SUFFICES ASSUME NEW k \in DOMAIN stack', stack'[k].kind = "exec", stack'[k].exit,
                        \A j \in DOMAIN stack' : j > k => stack'[j].kind # "exec"
                 PROVE  FALSE
      BY DEF Exits
    <3>1. k # n + 1 /\ k \in 1..n /\ n + 1 \in DOMAIN stack'
      BY <2>1, <1>1, <1>4
    <3>2. n + 1 > k
      BY <3>1, <1>1
    <3> QED BY <3>1, <3>2, <2>1, <1>4
  <2> QED BY <2>1, <2>2, <2>3, <1>4 DEF Asleep, Served, TopIs
<1>6. CASE LoopProcessEvents
  <2> DEFINE f == Process(TRUE)
  <2>1. /\ stack' = Append(stack, f) /\ f \in Frames /\ f.kind = "process" /\ ~f.sent
        /\ stack # <<>> /\ Top.kind = "exec" /\ ~Top.exit
    BY <1>6, NewFrames DEF LoopProcessEvents, Process, TopIs
  <2> HIDE DEF f
  <2>2. Steady(stack')
    BY <2>1, <1>1, <1>3, <1>4 DEF Stands
  <2>3. Exits'
    <3> SUFFICES ASSUME NEW k \in DOMAIN stack', stack'[k].kind = "exec", stack'[k].exit,
                        \A j \in DOMAIN stack' : j > k => stack'[j].kind # "exec"
                 PROVE  FALSE
      BY DEF Exits
    <3>1. k \in 1..n /\ n \in 1..n /\ n \in DOMAIN stack' /\ stack'[n] = stack[n]
      BY <2>1, <1>1, <1>4
    <3>2. k # n
      BY <3>1, <2>1, <1>1
    <3>3. n > k
      BY <3>1, <3>2
    <3> QED BY <3>1, <3>3, <2>1, <1>1
  <2> QED BY <2>1, <2>2, <2>3, <1>4 DEF Asleep, Served, TopIs
<1>7. CASE ProcessSend
  <2> DEFINE g == [Top EXCEPT !.sent = TRUE]
             f == Send(NoReceiver, AnyType)
             s == SetTop(g)
  <2>1. /\ stack' = Append(s, f) /\ stack # <<>> /\ Top.kind = "process"
        /\ UNCHANGED <<interrupt, wake>>
    BY <1>7 DEF ProcessSend, Enter, TopIs, wakeVars
  <2>2. f \in Frames /\ f.kind = "send" /\ ~f.begun /\ f.rcv = NoReceiver /\ f.type = AnyType
    BY NewFrames, SendFrameIs DEF Send
  <2>3. g \in Frames /\ g.kind = "process"
    <3>1. Top \in [kind : {"process"}, wait : BOOLEAN, sent : BOOLEAN]
      BY <2>1, <1>1, FrameIs
    <3> QED BY <3>1 DEF Frames
  <2> HIDE DEF f, g
  <2>4. /\ s \in Seq(Frames) /\ Len(s) = n
        /\ \A k \in DOMAIN stack : s[k] = IF k = n THEN g ELSE stack[k]
    BY <2>1, <2>3, <1>1, Stacks
  <2> HIDE DEF s
  <2>5. /\ DOMAIN stack' = 1..(n + 1) /\ Len(stack') = n + 1 /\ stack'[n + 1] = f
        /\ \A k \in 1..n : stack'[k] = s[k]
    <3>1. /\ Append(s, f) \in Seq(Frames) /\ Len(Append(s, f)) = Len(s) + 1
          /\ \A k \in 1..Len(s) : Append(s, f)[k] = s[k]
          /\ Append(s, f)[Len(s) + 1] = f
      BY <2>2, <2>4, AppendProperties
    <3> QED BY <3>1, <2>1, <2>4, LenProperties
  <2>6. /\ \A k \in 1..(n + 1) : k \in 1..n \/ k = n + 1
        /\ \A k \in 1..n : k \in 1..(n + 1)
        /\ (n + 1) - 1 = n /\ n + 1 > 1 /\ n \in 1..n
    BY <2>1, <1>1
  <2>7. Top' = f
    BY <2>5 DEF Top
  <2>8. Steady(stack')
    <3>1. stack'[n].kind = "process"
      BY <2>3, <2>4, <2>5, <2>6, <1>1
    <3> QED BY <3>1, <2>2, <2>5, <2>6, <1>3 DEF Stands
  <2>9. Exits'
    <3>1. \A k : k \in DOMAIN stack' /\ stack'[k].kind = "exec" =>
                   k \in DOMAIN stack /\ stack[k].kind = "exec" /\ stack[k].exit = stack'[k].exit
      BY <2>2, <2>3, <2>4, <2>5, <2>6, <1>1
    <3>2. \A k : k \in DOMAIN stack /\ stack[k].kind = "exec" =>
                   k \in DOMAIN stack' /\ stack'[k].kind = "exec"
      BY <2>1, <2>4, <2>5, <2>6, <1>1
    <3> QED BY <3>1, <3>2, <2>1, ExitsStay DEF Asleep
  <2> QED BY <2>2, <2>7, <2>8, <2>9 DEF Asleep, Served, TopIs
<1> QED BY <1>5, <1>6, <1>7

\* Every step of handlers that only run loops keeps the thread from sleeping too early.
LEMMA StepSleeps ==
  ASSUME IInv, OnlyLoops, Asleep, [Next]_vars
  PROVE  Asleep'
<1>0. "send" \notin Calls /\ "processEvents" \notin Calls
  BY DEF OnlyLoops
<1>1. CASE UNCHANGED vars
  <2>1. UNCHANGED <<list, insertionOffset, loopLevel, interrupt, wake, stack>>
    BY <1>1 DEF vars, listVars, wakeVars
  <2> QED BY <2>1 DEF Asleep, Exits, Served, TopIs, Top
<1>2. CASE Next
  <2>0. Step
    BY <1>2 DEF Next
  <2>1. ASSUME NEW own \in BOOLEAN, NEW rcv \in Receivers, NEW type \in Types,
               NEW priority \in Priorities, PostEvent(own, rcv, type, priority)
        PROVE  Asleep'
    BY <2>1, PostSleeps
  <2>2. ASSUME NEW rcv, NEW type, RemovePostedEvents(rcv, type) PROVE Asleep'
    <3>1. TakeOut(rcv, type) /\ UNCHANGED <<insertionOffset, loopLevel, wakeVars, stack>>
      BY <2>2 DEF RemovePostedEvents
    <3> QED BY <3>1, TakeOutSleeps
  <2>3. ASSUME NEW rcv \in Receivers, DeleteObject(rcv) PROVE Asleep'
    <3>1. TakeOut(rcv, AnyType) /\ UNCHANGED <<insertionOffset, loopLevel, wakeVars, stack>>
      BY <2>3 DEF DeleteObject
    <3> QED BY <3>1, TakeOutSleeps
  <2>4. ASSUME NEW rcv, NEW type, CallSendPostedEvents(rcv, type) PROVE Asleep'
    BY <2>4, <1>0 DEF CallSendPostedEvents
  <2>5. CASE CallProcessEvents
    BY <2>5, <1>0 DEF CallProcessEvents
  <2>6. CASE BeginSend
    BY <2>6, BeginSleeps
  <2>7. CASE SkipEvent \/ PostponeDelete
    BY <2>7, RoundSleeps
  <2>8. CASE SendEvent \/ HandlerReturn
    BY <2>8, HandlerSleeps
  <2>9. CASE SendDone
    BY <2>9, DoneSleeps
  <2>10. CASE CallExec \/ LoopProcessEvents \/ ProcessSend
    BY <2>10, CallSleeps
  <2>11. CASE ExecReturn \/ ProcessReturn
    BY <2>11, ReturnSleeps
  <2>12. CASE Exit
    BY <2>12, ExitSleeps
  <2> QED BY <2>0, <2>1, <2>2, <2>3, <2>4, <2>5, <2>6, <2>7, <2>8, <2>9, <2>10, <2>11, <2>12
          DEF Step
<1> QED BY <1>1, <1>2

-----------------------------------------------------------------------------
(* The theorems.                                                           *)

\* Under any interleaving of handlers, nested calls and other threads: the list and its offsets
\* (QPostEventList of qthread_p.h), the counters of the objects and the calls in progress agree.
THEOREM Invariance == Spec => []IInv
<1>1. Init => IInv
  BY InitKeeps
<1>2. IInv /\ [Next]_vars => IInv'
  BY NextKeeps
<1> QED BY <1>1, <1>2, PTL DEF Spec

\* Every variable has its type, and startOffset stays in the list, as the assertions of
\* sendPostedEvents demand (qcoreapplication.cpp:974 and 1008).
THEOREM TypeCorrect == Spec => []TypeOK
<1>1. IInv => TypeOK
  <2> SUFFICES ASSUME IInv PROVE TypeOK
    OBVIOUS
  <2>1. recursion \in Nat /\ loopLevel \in Nat
    BY Levels DEF IInv
  <2>2. serial \in 0..MaxEvents /\ owed \subseteq 1..MaxEvents
    <3>1. serial \in 0..MaxEvents /\ owed \subseteq 1..serial /\ MaxEvents \in Nat
      BY PostEventListAssumption DEF IInv, ListInv, Listed
    <3>2. \A e \in 1..serial : e \in 1..MaxEvents
      BY <3>1
    <3> QED BY <3>1, <3>2
  <2>3. startOffset \in 0..Len(list) /\ insertionOffset \in Nat /\ list \in Seq(Entries)
    BY DEF IInv, ListInv, Offsets
  <2>4. postedEvents \in [Receivers -> Nat] /\ alive \subseteq Receivers
    BY DEF IInv, ListInv, Counts
  <2>5. stack \in Seq(Frames) /\ Flags
    BY DEF IInv, StackInv
  <2> QED BY <2>1, <2>2, <2>3, <2>4, <2>5 DEF TypeOK, Flags
<1> QED BY <1>1, Invariance, PTL

\* postEvent, removePostedEvents and sendPostedEvents keep what nobody sent or removed in the
\* list exactly once, however handlers nest them: the null entries of a running call are
\* erased without an event behind them.
THEOREM EventsAreKept == Spec => []NothingLostOrDoubled
<1>1. IInv => NothingLostOrDoubled
  BY DEF IInv, ListInv, Listed, Once, Live, NothingLostOrDoubled
<1> QED BY <1>1, Invariance, PTL

\* QObjectPrivate::postedEvents is the number of an object's events in the list, and the list
\* has none for an object that ~QObject has finished with.
THEOREM CountersAreRight == Spec => []NoEventToDeleted
<1>1. ASSUME ListInv, NEW r
      PROVE  /\ Cardinality(Events(r)) = Cardinality(LiveFor(list, r))
             /\ LiveFor(list, r) = {} => Events(r) = {}
  <2> DEFINE P == Events(r)
             S == LiveFor(list, r)
             f == [k \in P |-> list[k].event]
  <2>1. Once(list) /\ DOMAIN list = 1..Len(list) /\ Len(list) \in Nat
    BY <1>1, LenProperties DEF ListInv, Listed
  <2>2. IsFiniteSet(P)
    <3>1. IsFiniteSet(1..Len(list))
      <4>1. 1 \in Int /\ Len(list) \in Int
        BY <2>1
      <4> QED BY <4>1, FS_Interval
    <3>2. P \subseteq 1..Len(list)
      BY <2>1 DEF Events
    <3> QED BY <3>1, <3>2, FS_Subset
  <2>3. \A k \in P : list[k].event \in S
    BY DEF Events, LiveFor
  <2>4. \A j, k \in P : list[j].event = list[k].event => j = k
    BY <2>1 DEF Events, Once
  <2>5. \A e \in S : \E k \in P : list[k].event = e
    BY DEF Events, LiveFor
  <2>6. S = {} => P = {}
    BY <2>3
  <2> HIDE DEF P, S
  <2>7. f \in Bijection(P, S)
    BY <2>3, <2>4, <2>5 DEF Bijection, Injection, Surjection, IsInjective
  <2>8. Cardinality(S) = Cardinality(P)
    BY <2>2, <2>7, FS_Bijection DEF ExistsBijection
  <2> QED BY <2>6, <2>8 DEF P, S
<1>2. IInv => NoEventToDeleted
  BY <1>1 DEF IInv, ListInv, Counts, NoEventToDeleted
<1> QED BY <1>2, Invariance, PTL

\* Events of one priority stay in the order in which they were posted (qthread_p.h:98).
THEOREM PostingOrderIsKept == Spec => []EqualPriorityInOrder
<1>1. IInv => EqualPriorityInOrder
  BY DEF IInv, ListInv, Order, InOrder, EqualPriorityInOrder
<1> QED BY <1>1, Invariance, PTL

\* Between two calls of sendPostedEvents the list is sorted by priority (qthread_p.h:73), when
\* no handler sends the events of one object or type: the part qUpperBound searches is sorted
\* always, and then it is the whole list.
THEOREM ListIsSorted == Spec => []PriorityOrder
<1>1. IInv => PriorityOrder
  <2> SUFFICES ASSUME IInv, "send" \notin Calls, recursion = 0,
                      NEW j \in DOMAIN list, NEW k \in DOMAIN list, j < k
               PROVE  list[j].priority >= list[k].priority
    BY DEF PriorityOrder, Sorted
  <2>1. insertionOffset = 0
    BY NobodySends DEF IInv
  <2>2. j > 0
    BY LenProperties DEF IInv, ListInv
  <2> QED BY <2>1, <2>2 DEF IInv, ListInv, Order, Descends
<1> QED BY <1>1, Invariance, PTL

\* No call for all types of events deletes an object while the handler that asked for the
\* deferred delete is still running (qcoreapplication.cpp:955), at any depth of nested loops.
THEOREM DeletesWait == Spec => []DeferredDeleteWaits
<1>1. IInv => DeferredDeleteWaits
  BY DEF IInv
<1> QED BY <1>1, Invariance, PTL

\* A thread whose handlers only run loops does not go to sleep in processEvents while its list
\* has an event it could send: what gets behind the insertion point of sendPostedEvents was
\* posted, which wakes the thread up, or is a delete that waits for an outer loop; and an inner
\* loop returns only after exit(), which keeps the outer processEvents from sleeping too.
THEOREM SleepsWhenAllIsSent == Spec => []SleepsWithNothingToSend
<1>1. Init => (OnlyLoops => Asleep)
  <2> SUFFICES ASSUME Init PROVE Asleep
    OBVIOUS
  <2>1. stack = <<>> /\ DOMAIN stack = {}
    BY DEF Init
  <2> QED BY <2>1 DEF Asleep, Steady, Exits, Served, TopIs
<1>2. IInv /\ (OnlyLoops => Asleep) /\ [Next]_vars => (OnlyLoops => Asleep)'
  <2> SUFFICES ASSUME IInv, OnlyLoops => Asleep, [Next]_vars, OnlyLoops' PROVE Asleep'
    OBVIOUS
  <2>1. program' = program
    BY DEF Next, vars
  <2>2. OnlyLoops
    BY <2>1 DEF OnlyLoops, Calls
  <2> QED BY <2>2, StepSleeps
<1>3. IInv /\ (OnlyLoops => Asleep) => SleepsWithNothingToSend
  <2> SUFFICES ASSUME OnlyLoops, Asleep, Sleeps,
                      NEW k \in DOMAIN list, list[k].event # NullEvent, IInv
               PROVE  MustWait(list[k], AnyType)
    BY DEF SleepsWithNothingToSend, NothingToSend, OnlyLoops
  <2>1. Reached(list, 0, loopLevel)
    BY DEF Asleep, Served, Sleeps
  <2>2. k \in Nat /\ k > 0
    BY LenProperties DEF IInv, ListInv
  <2>3. Waits(list[k], loopLevel)
    BY <2>1, <2>2 DEF Reached
  <2> QED BY <2>3 DEF Waits, MustWait
<1> QED BY <1>1, <1>2, <1>3, Invariance, PTL DEF Spec

=============================================================================
