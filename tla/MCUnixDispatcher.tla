--------------------------- MODULE MCUnixDispatcher ---------------------------
EXTENDS UnixDispatcher, TLC

CONSTANTS n1, n2, o1, o2

\* Two notifiers of different types, and the later one has the higher descriptor.
MCFd == n1 :> 1 @@ n2 :> 2
MCType == n1 :> 0 @@ n2 :> 1
MCIntervals == {0, 1}
=============================================================================
