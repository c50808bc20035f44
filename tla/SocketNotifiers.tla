--------------------------- MODULE SocketNotifiers ---------------------------
(***************************************************************************)
(* The socket notifiers of one thread (QSocketNotifier, and QSockNotType    *)
(* and the register functions of qeventdispatcher_unix.cpp).                *)
(* UnixDispatcher selects and activates them.                               *)
(***************************************************************************)
EXTENDS Integers, Sequences, SequencesExt, FiniteSetsExt, Sublists

CONSTANTS
  Notifiers,
  Fd,     \* Fd[n]: the file descriptor of notifier n
  Type    \* Type[n]: 0 (read), 1 (write) or 2 (exception)

\* The doc of QSocketNotifier: not two of the same type on the same socket.
ASSUME NotifiersAssumption ==
  /\ IsFiniteSet(Notifiers)
  /\ Fd \in [Notifiers -> Nat] /\ Type \in [Notifiers -> 0..2]
  /\ \A m, n \in Notifiers : Fd[m] = Fd[n] /\ Type[m] = Type[n] => m = n

VARIABLES
  lists,     \* lists[y]: sn_vec[y].list, the enabled notifiers of type y
  pending,   \* sn_pending_list
  queued,    \* the notifiers whose bit in pending_fds is set
  watched,   \* the notifiers whose bit in enabled_fds is set
  highest,   \* sn_highest
  ready,     \* the notifiers that have something to tell
  closed     \* the file descriptors that the program has closed under a notifier

notifierVars == <<lists, pending, queued, watched, highest>>

Enabled(n) == n \in ToSet(lists[Type[n]])

NotifiersInit ==
  /\ lists = [y \in 0..2 |-> <<>>]
  /\ pending = <<>> /\ queued = {} /\ watched = {} /\ highest = -1
  /\ ready = {} /\ closed = {}

\* registerSocketNotifier: the list falls from high to low descriptors.
RegisterNotifier(n) ==
  LET l == lists[Type[n]]
      at == Min({Len(l) + 1} \cup {i \in DOMAIN l : Fd[l[i]] < Fd[n]})
  IN  /\ ~Enabled(n)
      /\ lists' = [lists EXCEPT ![Type[n]] = InsertAt(l, at, n)]
      /\ watched' = watched \cup {n}
      /\ highest' = Max({highest, Fd[n]})
      /\ UNCHANGED <<pending, queued>>

\* Mutant of HighestOf: only the lists that lost a notifier are looked at.
HighestOfTypes(vec, ns) == Max({-1} \cup {Fd[vec[Type[n]][1]] : n \in {m \in ns : vec[Type[m]] # <<>>}})

\* The new sn_highest when the notifiers ns, one of them the highest, have left: each list is
\* sorted, so its first notifier counts.
HighestOf(vec, ns) == Max({-1} \cup {Fd[vec[y][1]] : y \in {x \in 0..2 : vec[x] # <<>>}})

NotPending(ns) == Sublist(pending, Notifiers \ ns)

\* unregisterSocketNotifier, for each of the notifiers ns.
Unregister(ns) ==
  LET vec == [y \in 0..2 |-> Sublist(lists[y], Notifiers \ ns)] IN
  /\ lists' = vec
  /\ pending' = NotPending(ns)
  /\ queued' = queued \ ns
  /\ watched' = watched \ ns
  /\ highest' = IF \E n \in ns : Fd[n] = highest THEN HighestOf(vec, ns) ELSE highest

UnregisterNotifier(n) == Enabled(n) /\ Unregister({n})

\* select() fails with EBADF: the notifiers of closed descriptors are disabled.
Bad == {n \in Notifiers : Enabled(n) /\ Fd[n] \in closed}
DisableBad == Unregister(Bad)

\* What select() reports: descriptors up to the highest are looked at.
Selected == {n \in watched \cap ready : Fd[n] <= highest}

\* setSocketNotifierPending, for each notifier that select() reported, by type and descriptor.
SetPending ==
  LET all == lists[0] \o lists[1] \o lists[2] IN
  /\ pending' = pending \o Sublist(all, Selected \ queued)
  /\ queued' = queued \cup Selected
  /\ UNCHANGED <<lists, watched, highest>>

\* Mutant of TakePending: the bit of the notifier stays set.
TakePendingOnly ==
  /\ pending # <<>>
  /\ pending' = Tail(pending)
  /\ UNCHANGED <<queued, lists, watched, highest>>

\* activateSocketNotifiers takes the first pending notifier ...
TakePending ==
  /\ pending # <<>>
  /\ pending' = Tail(pending)
  /\ queued' = queued \ {Head(pending)}
  /\ UNCHANGED <<lists, watched, highest>>

\* ... and activates it if its bit is still set.
Activates == Head(pending) \in queued
=============================================================================
