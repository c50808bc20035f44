----------------------------- MODULE MCSignalSlot -----------------------------
(* Instances of SignalSlot: where the objects live and which mutex each has. *)
EXTENDS SignalSlot

CONSTANTS a, b, x, t1, t2

\* One thread; two objects with a mutex each.
OneHome == [o \in Objects |-> t1]
OneOrder == [o \in Objects |-> IF o = a THEN 1 ELSE 2]

\* a (and b) live in t1, x in t2; the mutex of x comes first, that of a last.
TwoHomes == [o \in Objects |-> IF o = x THEN t2 ELSE t1]
TwoOrder == [o \in Objects |-> IF o = x THEN 2 ELSE IF o = a THEN 3 ELSE 1]

\* The types of the connections of each object: x has blocking ones, a only receives.
OnlyAuto == [o \in Objects |-> {"auto"}]
OnlyBlocking == [o \in Objects |-> {"blocking"}]
TwoSenders == [o \in Objects |-> IF o = x THEN {"blocking"} ELSE IF o = b THEN {"auto"} ELSE {}]
=============================================================================
