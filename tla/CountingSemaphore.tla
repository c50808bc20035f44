-------------------------- MODULE CountingSemaphore --------------------------
(***************************************************************************)
(* What QSemaphore promises: resources are handed out and given back in    *)
(* single steps, and as long as there are enough for somebody, somebody    *)
(* gets some.  Semaphore implements it.                                    *)
(***************************************************************************)
EXTENDS Integers

CONSTANTS Threads, Initial, Amounts, Timeouts

Forever == -1
NoWait == -2

VARIABLES
  avail,   \* the resources that are available
  state,   \* state[t]: where thread t is in its call
  need,    \* need[t]: how many resources its call is about
  timeout  \* timeout[t]: how long it waits for them: Forever, NoWait or so many milliseconds

vars == <<avail, state, need, timeout>>

Init ==
  /\ avail = Initial
  /\ state = [t \in Threads |-> "idle"]
  /\ need = [t \in Threads |-> 0]
  /\ timeout = [t \in Threads |-> Forever]

Move(t, from, to) == state[t] = from /\ state' = [state EXCEPT ![t] = to]

Ask(t, n, time) ==
  /\ Move(t, "idle", "asking")
  /\ need' = [need EXCEPT ![t] = n]
  /\ timeout' = [timeout EXCEPT ![t] = time]
  /\ UNCHANGED avail

Grant(t) ==
  /\ Move(t, "asking", "granted")
  /\ need[t] <= avail /\ avail' = avail - need[t]
  /\ UNCHANGED <<need, timeout>>

\* acquire is never refused, tryAcquire without a timeout only if there is too little.
Refuse(t) ==
  /\ Move(t, "asking", "refused")
  /\ timeout[t] # Forever /\ (timeout[t] = NoWait => need[t] > avail)
  /\ UNCHANGED <<avail, need, timeout>>

Offer(t, n) ==
  /\ Move(t, "idle", "offering")
  /\ need' = [need EXCEPT ![t] = n]
  /\ UNCHANGED <<avail, timeout>>

Give(t) ==
  /\ Move(t, "offering", "given")
  /\ avail' = avail + need[t]
  /\ UNCHANGED <<need, timeout>>

Return(t) ==
  /\ state[t] \in {"granted", "refused", "given"}
  /\ state' = [state EXCEPT ![t] = "idle"]
  /\ need' = [need EXCEPT ![t] = 0]
  /\ timeout' = [timeout EXCEPT ![t] = Forever]
  /\ UNCHANGED avail

Next == \E t \in Threads :
  \/ \E n \in Amounts : Offer(t, n) \/ \E time \in Timeouts : Ask(t, n, time)
  \/ Grant(t) \/ Refuse(t) \/ Give(t) \/ Return(t)

Spec ==
  /\ Init /\ [][Next]_vars
  /\ WF_vars(\E t \in Threads : Grant(t))
  /\ \A t \in Threads : WF_vars(Give(t)) /\ WF_vars(Return(t))
=============================================================================
