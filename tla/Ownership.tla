------------------------------ MODULE Ownership ------------------------------
(***************************************************************************)
(* What QSharedPointer promises of the objects it owns: an owner takes      *)
(* part in an object only while somebody owns it, an object that is owned   *)
(* is not deleted, and one that nobody owns any more is deleted.  How that  *)
(* is counted is left to SharedPointer.                                     *)
(***************************************************************************)

CONSTANTS
  Objects,  \* what is owned
  Owners,   \* who may own it: the pointers, and the threads in the middle of a call
  Nothing   \* what an owner of nothing owns

VARIABLES
  owns,  \* owns[a]: the object a owns, or Nothing
  life   \* life[o]: "unborn", "alive" or "deleted"

vars == <<owns, life>>

Owned(o) == \E a \in Owners : owns[a] = o

Init ==
  /\ life \in [Objects -> {"unborn", "alive"}]
  /\ owns \in [Owners -> Objects \cup {Nothing}]
  /\ \A o \in Objects : Owned(o) <=> life[o] = "alive"

Make(a, o) ==
  /\ owns[a] = Nothing /\ life[o] = "unborn"
  /\ owns' = [owns EXCEPT ![a] = o]
  /\ life' = [life EXCEPT ![o] = "alive"]

\* a takes part in an object that b still owns.
Take(a, b) ==
  /\ owns[a] = Nothing /\ owns[b] # Nothing
  /\ owns' = [owns EXCEPT ![a] = owns[b]]
  /\ UNCHANGED life

Exchange(a, b) ==
  /\ owns' = [owns EXCEPT ![a] = owns[b], ![b] = owns[a]]
  /\ UNCHANGED life

Drop(a) ==
  /\ owns' = [owns EXCEPT ![a] = Nothing]
  /\ UNCHANGED life

Delete(o) ==
  /\ life[o] = "alive" /\ ~Owned(o)
  /\ life' = [life EXCEPT ![o] = "deleted"]
  /\ UNCHANGED owns

Next ==
  \/ \E a \in Owners : \/ \E o \in Objects : Make(a, o)
                       \/ \E b \in Owners : Take(a, b) \/ Exchange(a, b)
                       \/ Drop(a)
  \/ \E o \in Objects : Delete(o)

Spec == Init /\ [][Next]_vars /\ \A o \in Objects : WF_vars(Delete(o))

=============================================================================
