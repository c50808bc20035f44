---------------------------- MODULE MCEventLoop ----------------------------
(* Instances of EventLoop for TLC. *)
EXTENDS EventLoop, TLC

\* The other threads run the same code and no property singles one out.
Symmetry == Permutations(Clients)
=============================================================================
