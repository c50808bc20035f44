--------------------------- MODULE MCPostEventList ---------------------------
EXTENDS PostEventList

\* Handlers that run event loops, remove events and delete objects ...
Loops == [calls |-> {"exec", "remove", "delete"}, frames |-> 6]

\* ... or send events themselves.
Senders == [calls |-> {"send", "processEvents"}, frames |-> 4]

LoopsOrSenders == {Loops, Senders}

\* Programs for which Sorted and NothingToSend fail.
OnlySend == {[calls |-> {"send"}, frames |-> 1]}
OnlyProcessEvents == {[calls |-> {"processEvents"}, frames |-> 6]}

\* The receivers are interchangeable.
Symmetry == Permutations(Receivers)
=============================================================================
