------------------------------- MODULE Sublists -------------------------------
(***************************************************************************)
(* Lists that lose some of their elements.  Written by places rather than   *)
(* with SelectSeq, which the provers of TLAPS know nothing about.           *)
(***************************************************************************)
EXTENDS Integers, Sequences, FiniteSets

\* The elements of seq that are in S, in their order.
Sublist(seq, S) ==
  LET kept == {i \in DOMAIN seq : seq[i] \in S}
      upTo(i) == {j \in kept : j <= i}
  IN  [n \in 1..Cardinality(kept) |-> seq[CHOOSE i \in kept : Cardinality(upTo(i)) = n]]
===============================================================================
