-------------------------- MODULE EventLoopProofs --------------------------
(***************************************************************************)
(* Theorems about EventLoop, for any number of threads, posts, exits and   *)
(* nested loops.  The inductive invariant is TypeOK together with          *)
(*   OneWakeUpToken   where the wake-up token is,                          *)
(*   Control          what the loop thread's control state says of loops,  *)
(*   NothingLeft      what canWait says of the list of posted events,      *)
(*   WakeUpOnTheWay   who wakes the thread up once it has decided to sleep,*)
(*   Telling          how far QThread::exit has come with the loops.       *)
(***************************************************************************)
EXTENDS EventLoop, SequenceTheorems, TLAPS

\* The loop thread is inside a QEventLoop::exec.
OutsideLoops == {"start", "create", "exec", "enter", "execEnd", "returned"}

Control ==
  /\ lpc \notin OutsideLoops => loops # <<>>
  /\ lpc \in OutsideLoops \ {"enter"} => loops = <<>>
  /\ lpc = "enter" => (site = "thread" <=> loops = <<>>)
  /\ lpc = "handler" => site # "thread"
  /\ \A k \in 1..Len(loops) : loops[k].from = "thread" <=> k = 1
  /\ lpc \notin {"handler", "sent"} => cpc[Loop] = "idle"
  /\ lpc \notin {"start", "create"} => dispatcher

NothingLeft ==
  /\ quota <= Len(queue)
  /\ canWait => Len(queue) <= quota
  /\ lpc \in {"sent", "ask"} => quota = 0

GoingToSleep == lpc \in {"askInterrupt", "testInterrupt", "select"} /\ mayBlock
WakeUpOnTheWay == GoingToSleep /\ queue # <<>> => WakerComing \/ pipe = 1

Telling ==
  /\ \A t \in Threads : cpc[t] = "nextLoop" => mutex = t
  /\ quitNow => \A k \in 1..Len(loops) :
                  (mutex = NoThread \/ k <= target[mutex]) => loops[k].exit

\* With one loop at a time, an exit that comes after the loop's last look at its
\* flag leaves a byte in the pipe until select() is reached.
BeforeSelect ==
  \/ lpc \in {"begin", "send", "sending", "sent", "ask", "askInterrupt", "testInterrupt",
             "select"}
  \/ lpc = "handler" /\ site = "send"
Shallow == Len(loops) <= 1 /\ (lpc = "enter" => loops = <<>>)
ExitSignalled == BeforeSelect /\ Innermost.exit => ExitComing \/ pipe = 1

-----------------------------------------------------------------------------
\* What the sequence operators of the actions preserve.
LEMMA AppendType ==
  ASSUME NEW S, NEW s \in Seq(S), NEW e \in S
  PROVE  /\ Append(s, e) \in Seq(S)
         /\ Len(Append(s, e)) = Len(s) + 1 /\ Append(s, e) # <<>>
         /\ \A k \in 1..Len(s) : Append(s, e)[k] = s[k]
         /\ Append(s, e)[Len(s) + 1] = e
  OBVIOUS

LEMMA EmptyIffNoLen ==
  ASSUME NEW S, NEW s \in Seq(S)
  PROVE  s = <<>> <=> Len(s) = 0
  BY EmptySeq

LEMMA FrontArithmetic ==
  ASSUME NEW n \in Nat, n >= 1
  PROVE  /\ 1 \in Int /\ n - 1 \in Int /\ n \in 1..n /\ 1..(n - 1) \subseteq 1..n
         /\ (IF 1 <= n - 1 THEN n - 1 - 1 + 1 ELSE 0) = n - 1
         /\ 1..(n - 1 - 1 + 1) = 1..(n - 1)
         /\ \A k \in 1..(n - 1) : 1 + k - 1 = k
  OBVIOUS

LEMMA FrontType ==
  ASSUME NEW S, NEW s \in Seq(S), s # <<>>,
         NEW front, front = SubSeq(s, 1, Len(s) - 1)
  PROVE  /\ Len(s) \in 1..Len(s) /\ s[Len(s)] \in S
         /\ front \in Seq(S) /\ Len(front) = Len(s) - 1
         /\ front = <<>> <=> Len(s) = 1
         /\ \A k \in 1..Len(front) : front[k] = s[k]
<1> DEFINE n == Len(s)
<1>1. n \in Nat /\ n >= 1 /\ \A k \in 1..n : s[k] \in S
  BY EmptySeq
<1> HIDE DEF n
<1>2. /\ front \in Seq(S)
      /\ Len(front) = IF 1 <= n - 1 THEN n - 1 - 1 + 1 ELSE 0
      /\ \A k \in 1..(n - 1 - 1 + 1) : front[k] = s[1 + k - 1]
  <2>1. 1 \in Int /\ n - 1 \in Int /\ \A k \in 1..(n - 1) : s[k] \in S
    BY <1>1, FrontArithmetic
  <2>2. front = SubSeq(s, 1, n - 1)
    BY DEF n
  <2> QED BY <2>1, <2>2, SubSeqProperties
<1>3. Len(front) = n - 1 /\ \A k \in 1..(n - 1) : front[k] = s[k]
  BY <1>1, <1>2, FrontArithmetic, Zenon
<1>4. front = <<>> <=> n = 1
  <2>1. front = <<>> <=> Len(front) = 0
    BY <1>2, EmptyIffNoLen, Zenon
  <2>2. n - 1 = 0 <=> n = 1
    BY <1>1
  <2> QED BY <1>3, <2>1, <2>2, Zenon
<1>5. n \in 1..n /\ s[n] \in S
  BY <1>1, FrontArithmetic, Zenon
<1> QED BY <1>2, <1>3, <1>4, <1>5, Zenon DEF n

LEMMA ToldType ==
  ASSUME TypeOK, NEW k \in 1..Len(loops), NEW c \in Codes \cup {NoCode}
  PROVE  Told(k, c) \in Seq(LoopRecord)
<1>1. loops \in Seq(LoopRecord) /\ loops[k] \in LoopRecord
  BY DEF TypeOK
<1>2. [loops[k] EXCEPT !.exit = TRUE, !.code = c] \in LoopRecord
  BY <1>1 DEF LoopRecord
<1> QED BY <1>1, <1>2, ExceptSeq DEF Told

LEMMA TypeInit == Init => TypeOK
<1> SUFFICES ASSUME Init PROVE TypeOK
  OBVIOUS
<1>1. queue \in Seq(Events) /\ loops \in Seq(LoopRecord)
  BY DEF Init
<1>2. quota \in Nat /\ canWait \in BOOLEAN /\ dispatcher \in BOOLEAN /\ quitNow \in BOOLEAN /\ exited \in BOOLEAN
  BY DEF Init
<1>3. listMutex \in {NoThread, Loop} /\ mutex \in Threads \cup {NoThread} /\ returnCode \in Codes \cup {NoCode} /\ result \in Codes \cup {NoCode}
  BY DEF Init
<1>4. wakeUps \in {0, 1} /\ pipe \in {0, 1} /\ interrupt \in BOOLEAN /\ mayBlock \in BOOLEAN /\ execs \in Nat
  BY DEF Init
<1>5. lpc \in LoopPoints /\ site \in Sites
  BY DEF Init, LoopPoints, Sites
<1>6. cpc \in [Threads -> ClientPoints] /\ target \in [Threads -> Nat] /\ posts \in [Threads -> Nat] /\ exits \in [Threads -> Nat]
  BY DEF Init, ClientPoints
<1> QED BY <1>1, <1>2, <1>3, <1>4, <1>5, <1>6 DEF TypeOK

LEMMA TypeStep == TypeOK /\ OneWakeUpToken /\ Control /\ [Next]_vars => TypeOK'
<1> SUFFICES ASSUME TypeOK, OneWakeUpToken, Control, [Next]_vars PROVE TypeOK'
  OBVIOUS
<1> USE EventLoopAssumption
<1>1. CASE ThreadStart
  BY <1>1 DEF TypeOK, LoopPoints, ThreadStart, queueVars, wakeVars, clientVars
<1>2. CASE CreateEventDispatcher
  BY <1>2
     DEF TypeOK, LoopPoints, CreateEventDispatcher, queueVars, exitVars, wakeVars,
         clientVars
<1>3. CASE ThreadExec
  <2>1. exited' \in BOOLEAN /\ quitNow' \in BOOLEAN
    BY <1>3 DEF TypeOK, ThreadExec
  <2>2. result' \in Codes \cup {NoCode}
    BY <1>3 DEF TypeOK, ThreadExec
  <2>3. lpc' \in LoopPoints /\ site' \in Sites /\ execs' \in Nat
    BY <1>3 DEF TypeOK, ThreadExec, LoopPoints, Sites
  <2> QED BY <1>3, <2>1, <2>2, <2>3 DEF TypeOK, ThreadExec, queueVars, wakeVars, clientVars
<1>4. CASE EnterLoop
  <2>1. loops' \in Seq(LoopRecord)
    <3>1. [exit |-> FALSE, code |-> NoCode, from |-> site] \in LoopRecord
      BY DEF TypeOK, LoopRecord
    <3>2. Append(loops, [exit |-> FALSE, code |-> NoCode, from |-> site]) \in Seq(LoopRecord)
      BY <3>1, AppendType DEF TypeOK
    <3> QED BY <1>4, <3>2 DEF EnterLoop
  <2>2. lpc' \in LoopPoints /\ result' \in Codes \cup {NoCode}
    BY <1>4 DEF TypeOK, EnterLoop, LoopPoints, AfterLoop
  <2> QED BY <1>4, <2>1, <2>2 DEF TypeOK, EnterLoop, queueVars, wakeVars, clientVars
<1>5. CASE TestExit
  BY <1>5 DEF TypeOK, LoopPoints, TestExit, queueVars, exitVars, wakeVars, clientVars
<1>6. CASE LeaveLoop
  <2>1. loops # <<>>
    BY <1>6 DEF Control, LeaveLoop, OutsideLoops
  <2>2. Innermost \in LoopRecord /\ loops' \in Seq(LoopRecord)
    BY <1>6, <2>1, FrontType DEF TypeOK, Innermost, LeaveLoop
  <2>3. site' \in Sites /\ lpc' \in LoopPoints /\ result' \in Codes \cup {NoCode}
    BY <1>6, <2>2 DEF TypeOK, LeaveLoop, LoopRecord, LoopPoints, AfterLoop
  <2> QED BY <1>6, <2>2, <2>3 DEF TypeOK, LeaveLoop, queueVars, wakeVars, clientVars
<1>7. CASE ThreadExecEnd
  BY <1>7 DEF TypeOK, LoopPoints, ThreadExecEnd, queueVars, wakeVars, clientVars
<1>8. CASE ClearInterrupt
  <2>1. interrupt' \in BOOLEAN
    BY <1>8 DEF ClearInterrupt
  <2> QED BY <1>8, <2>1
             DEF TypeOK, LoopPoints, ClearInterrupt, queueVars, exitVars, clientVars
<1>9. CASE SendPostedEvents
  BY <1>9 DEF TypeOK, LoopPoints, SendPostedEvents, exitVars, wakeVars, clientVars
<1>10. CASE SendEvent
  BY <1>10 DEF TypeOK, LoopPoints, Sites, SendEvent, exitVars, wakeVars, clientVars
<1>11. CASE SendLoopDone
  <2>1. cpc' \in [Threads -> ClientPoints]
    BY <1>11 DEF TypeOK, SendLoopDone, Goto, ClientPoints
  <2> QED BY <1>11, <2>1 DEF TypeOK, LoopPoints, SendLoopDone, exitVars, wakeVars
<1>12. CASE EraseSent
  BY <1>12 DEF TypeOK, LoopPoints, EraseSent, exitVars, wakeVars, clientVars
<1>13. CASE HandlerReturn
  BY <1>13 DEF TypeOK, LoopPoints, HandlerReturn, queueVars, exitVars, wakeVars, clientVars
<1>14. CASE AskCanWait
  BY <1>14 DEF TypeOK, LoopPoints, AskCanWait, queueVars, exitVars, wakeVars, clientVars
<1>15. CASE AskInterrupt
  BY <1>15 DEF TypeOK, LoopPoints, AskInterrupt, queueVars, exitVars, wakeVars, clientVars
<1>16. CASE TestInterrupt
  BY <1>16 DEF TypeOK, LoopPoints, TestInterrupt, queueVars, exitVars, wakeVars, clientVars
<1>17. CASE SelectPipe
  BY <1>17 DEF TypeOK, LoopPoints, SelectPipe, queueVars, exitVars, wakeVars, clientVars
<1>18. CASE SelectOther
  BY <1>18 DEF TypeOK, LoopPoints, SelectOther, queueVars, exitVars, wakeVars, clientVars
<1>19. CASE ReadPipe
  BY <1>19 DEF TypeOK, LoopPoints, ReadPipe, queueVars, exitVars, clientVars
<1>20. CASE ResetWakeUps
  BY <1>20 DEF TypeOK, LoopPoints, ResetWakeUps, queueVars, exitVars, clientVars
<1>21. CASE ActivateDone
  BY <1>21 DEF TypeOK, LoopPoints, ActivateDone, queueVars, exitVars, wakeVars, clientVars
<1>22. CASE LoopExit
  <2>1. loops' \in Seq(LoopRecord)
    <3>1. Len(loops) \in 1..Len(loops)
      BY <1>22, FrontType DEF LoopExit
    <3> QED BY <1>22, <3>1, ToldType DEF LoopExit
  <2>2. cpc' \in [Threads -> ClientPoints] /\ exits' \in [Threads -> Nat]
    BY <1>22 DEF TypeOK, LoopExit, Goto, Threads, ClientPoints
  <2> QED BY <1>22, <2>1, <2>2 DEF TypeOK, LoopExit, queueVars, wakeVars, loopVars
<1>23. CASE CallNestedLoop
  BY <1>23 DEF TypeOK, LoopPoints, CallNestedLoop, queueVars, exitVars, wakeVars, clientVars
<1>24. CASE ActivateHandler
  BY <1>24
     DEF TypeOK, LoopPoints, Sites, ActivateHandler, queueVars, exitVars, wakeVars,
         clientVars
<1>25. CASE ExecAgain
  BY <1>25 DEF TypeOK, LoopPoints, ExecAgain, queueVars, exitVars, wakeVars, clientVars
<1>26. ASSUME NEW t \in Threads, PostEvent(t) PROVE TypeOK'
  <2>1. queue' \in Seq(Events)
    <3>1. <<t, posts[t] + 1>> \in Events
      BY DEF TypeOK, Events
    <3> QED BY <1>26, <3>1, AppendType DEF PostEvent, TypeOK
  <2>2. cpc' \in [Threads -> ClientPoints]
    <3>1. cpc \in [Threads -> ClientPoints] /\ "posted" \in ClientPoints
      BY DEF TypeOK, ClientPoints
    <3> QED BY <1>26, <3>1 DEF PostEvent, Goto
  <2>3. posts' \in [Threads -> Nat]
    <3>1. posts \in [Threads -> Nat] /\ posts[t] + 1 \in Nat
      BY DEF TypeOK
    <3> QED BY <1>26, <3>1 DEF PostEvent
  <2>4. canWait' = FALSE /\ UNCHANGED <<quota, listMutex, exitVars, wakeVars, loopVars, target, exits>>
    BY <1>26 DEF PostEvent
  <2>5. UNCHANGED <<quota, listMutex, target, exits>> /\ UNCHANGED <<exitVars, wakeVars, loopVars>>
    BY <2>4
  <2> QED BY <2>1, <2>2, <2>3, <2>4, <2>5, Zenon DEF TypeOK, exitVars, wakeVars, loopVars
<1>27. ASSUME NEW t \in Threads, ThreadExit(t) PROVE TypeOK'
  BY <1>27 DEF TypeOK, ClientPoints, ThreadExit, queueVars, wakeVars, loopVars, Goto
<1>28. ASSUME NEW t \in Threads, TestDispatcher(t) PROVE TypeOK'
  BY <1>28
     DEF TypeOK, ClientPoints, TestDispatcher, queueVars, exitVars, wakeVars, loopVars, Goto
<1>29. ASSUME NEW t \in Threads, TestAndSetWakeUps(t) PROVE TypeOK'
  <2>1. cpc' \in [Threads -> ClientPoints]
    BY <1>29 DEF TypeOK, TestAndSetWakeUps, Goto, AfterWakeUp, ClientPoints
  <2>2. wakeUps' \in {0, 1}
    BY <1>29 DEF TypeOK, TestAndSetWakeUps
  <2> QED BY <1>29, <2>1, <2>2 DEF TypeOK, TestAndSetWakeUps, queueVars, exitVars, loopVars
<1>30. ASSUME NEW t \in Threads, WritePipe(t) PROVE TypeOK'
  <2>1. pipe' \in {0, 1}
    BY <1>30 DEF WritePipe, OneWakeUpToken, Writer
  <2>2. cpc' \in [Threads -> ClientPoints]
    BY <1>30 DEF TypeOK, WritePipe, Goto, AfterWakeUp, ClientPoints
  <2> QED BY <1>30, <2>1, <2>2 DEF TypeOK, WritePipe, queueVars, exitVars, loopVars
<1>31. ASSUME NEW t \in Threads, ExitNextLoop(t) PROVE TypeOK'
  <2>1. loops' \in Seq(LoopRecord)
    <3>1. target[t] + 1 \in 1..Len(loops)
      BY <1>31 DEF ExitNextLoop, TypeOK
    <3>2. returnCode \in Codes \cup {NoCode}
      BY DEF TypeOK
    <3> QED BY <1>31, <3>1, <3>2, ToldType DEF ExitNextLoop
  <2>2. cpc' \in [Threads -> ClientPoints] /\ target' \in [Threads -> Nat]
    BY <1>31 DEF TypeOK, ExitNextLoop, Goto, ClientPoints
  <2> QED BY <1>31, <2>1, <2>2 DEF TypeOK, ExitNextLoop, queueVars, wakeVars, loopVars
<1>32. ASSUME NEW t \in Threads, Interrupt(t) PROVE TypeOK'
  BY <1>32 DEF TypeOK, ClientPoints, Interrupt, queueVars, exitVars, loopVars, Goto
<1>33. ASSUME NEW t \in Threads, ThreadExitDone(t) PROVE TypeOK'
  BY <1>33 DEF TypeOK, ClientPoints, ThreadExitDone, queueVars, wakeVars, loopVars, Goto
<1>34. CASE UNCHANGED vars
  BY <1>34 DEF TypeOK, vars, queueVars, exitVars, wakeVars, loopVars, clientVars
<1> QED
  BY <1>1, <1>2, <1>3, <1>4, <1>5, <1>6, <1>7, <1>8, <1>9, <1>10, <1>11, <1>12, <1>13,
     <1>14, <1>15, <1>16, <1>17, <1>18, <1>19, <1>20, <1>21, <1>22, <1>23, <1>24, <1>25,
     <1>26, <1>27, <1>28, <1>29, <1>30, <1>31, <1>32, <1>33, <1>34
     DEF Next, LoopThread, Application, Client

LEMMA TokenStep == TypeOK /\ Control /\ OneWakeUpToken /\ [Next]_vars => OneWakeUpToken'
<1> SUFFICES ASSUME TypeOK, Control, OneWakeUpToken, [Next]_vars PROVE OneWakeUpToken'
  OBVIOUS
<1> USE EventLoopAssumption
<1>1. CASE ThreadStart
  BY <1>1 DEF OneWakeUpToken, Writer, ThreadStart, wakeVars, clientVars
<1>2. CASE CreateEventDispatcher
  BY <1>2 DEF OneWakeUpToken, Writer, CreateEventDispatcher, wakeVars, clientVars
<1>3. CASE ThreadExec
  BY <1>3 DEF OneWakeUpToken, Writer, ThreadExec, wakeVars, clientVars
<1>4. CASE EnterLoop
  BY <1>4 DEF OneWakeUpToken, Writer, EnterLoop, wakeVars, clientVars, AfterLoop
<1>5. CASE TestExit
  BY <1>5 DEF OneWakeUpToken, Writer, TestExit, wakeVars, clientVars
<1>6. CASE LeaveLoop
  BY <1>6 DEF OneWakeUpToken, Writer, LeaveLoop, wakeVars, clientVars, AfterLoop
<1>7. CASE ThreadExecEnd
  BY <1>7 DEF OneWakeUpToken, Writer, ThreadExecEnd, wakeVars, clientVars
<1>8. CASE ClearInterrupt
  BY <1>8 DEF OneWakeUpToken, Writer, ClearInterrupt, clientVars
<1>9. CASE SendPostedEvents
  BY <1>9 DEF OneWakeUpToken, Writer, SendPostedEvents, wakeVars, clientVars
<1>10. CASE SendEvent
  BY <1>10 DEF OneWakeUpToken, Writer, SendEvent, wakeVars, clientVars
<1>11. CASE SendLoopDone
  <2>1. cpc[Loop] = "idle" /\ lpc # "reset" /\ lpc' = "sent"
    BY <1>11 DEF Control, SendLoopDone
  <2>2. \A t \in Threads : cpc'[t] = "write" <=> cpc[t] = "write"
    BY <1>11, <2>1 DEF TypeOK, SendLoopDone, Goto
  <2> QED BY <1>11, <2>1, <2>2 DEF OneWakeUpToken, Writer, SendLoopDone, wakeVars
<1>12. CASE EraseSent
  BY <1>12 DEF OneWakeUpToken, Writer, EraseSent, wakeVars, clientVars
<1>13. CASE HandlerReturn
  BY <1>13 DEF OneWakeUpToken, Writer, HandlerReturn, wakeVars, clientVars
<1>14. CASE AskCanWait
  BY <1>14 DEF OneWakeUpToken, Writer, AskCanWait, wakeVars, clientVars
<1>15. CASE AskInterrupt
  BY <1>15 DEF OneWakeUpToken, Writer, AskInterrupt, wakeVars, clientVars
<1>16. CASE TestInterrupt
  BY <1>16 DEF OneWakeUpToken, Writer, TestInterrupt, wakeVars, clientVars
<1>17. CASE SelectPipe
  BY <1>17 DEF TypeOK, OneWakeUpToken, Writer, SelectPipe, wakeVars, clientVars
<1>18. CASE SelectOther
  BY <1>18 DEF OneWakeUpToken, Writer, SelectOther, wakeVars, clientVars
<1>19. CASE ReadPipe
  BY <1>19 DEF OneWakeUpToken, Writer, ReadPipe, clientVars
<1>20. CASE ResetWakeUps
  BY <1>20 DEF OneWakeUpToken, Writer, ResetWakeUps, clientVars
<1>21. CASE ActivateDone
  BY <1>21 DEF OneWakeUpToken, Writer, ActivateDone, wakeVars, clientVars
<1>22. CASE LoopExit
  BY <1>22 DEF OneWakeUpToken, Writer, LoopExit, wakeVars, loopVars, Goto, RunsUserCode
<1>23. CASE CallNestedLoop
  BY <1>23 DEF OneWakeUpToken, Writer, CallNestedLoop, wakeVars, clientVars, RunsUserCode
<1>24. CASE ActivateHandler
  BY <1>24 DEF OneWakeUpToken, Writer, ActivateHandler, wakeVars, clientVars
<1>25. CASE ExecAgain
  BY <1>25 DEF OneWakeUpToken, Writer, ExecAgain, wakeVars, clientVars
<1>26. ASSUME NEW t \in Threads, PostEvent(t) PROVE OneWakeUpToken'
  BY <1>26 DEF OneWakeUpToken, Writer, PostEvent, wakeVars, loopVars, Goto, RunsUserCode
<1>27. ASSUME NEW t \in Threads, ThreadExit(t) PROVE OneWakeUpToken'
  BY <1>27 DEF OneWakeUpToken, Writer, ThreadExit, wakeVars, loopVars, Goto, RunsUserCode
<1>28. ASSUME NEW t \in Threads, TestDispatcher(t) PROVE OneWakeUpToken'
  BY <1>28 DEF OneWakeUpToken, Writer, TestDispatcher, wakeVars, loopVars, Goto
<1>29. ASSUME NEW t \in Threads, TestAndSetWakeUps(t) PROVE OneWakeUpToken'
  <2>1. CASE wakeUps = 0
    <3>1. ~Writer /\ pipe = 0 /\ lpc # "reset"
      BY <2>1 DEF OneWakeUpToken, TypeOK
    <3>2. \A u \in Threads : cpc'[u] = "write" <=> u = t
      BY <1>29, <2>1, <3>1 DEF TypeOK, TestAndSetWakeUps, Goto, Writer
    <3>3. wakeUps' = 1 /\ pipe' = 0 /\ lpc' = lpc
      BY <1>29, <2>1, <3>1 DEF TestAndSetWakeUps, loopVars
    <3> QED BY <3>1, <3>2, <3>3 DEF OneWakeUpToken, Writer
  <2>2. CASE wakeUps # 0
    <3>1. \A u \in Threads : cpc'[u] = "write" <=> cpc[u] = "write"
      BY <1>29, <2>2 DEF TypeOK, TestAndSetWakeUps, Goto, AfterWakeUp
    <3>2. wakeUps' = wakeUps /\ pipe' = pipe /\ lpc' = lpc
      BY <1>29, <2>2 DEF TestAndSetWakeUps, loopVars
    <3> QED BY <3>1, <3>2 DEF OneWakeUpToken, Writer
  <2> QED BY <2>1, <2>2
<1>30. ASSUME NEW t \in Threads, WritePipe(t) PROVE OneWakeUpToken'
  BY <1>30 DEF TypeOK, OneWakeUpToken, Writer, WritePipe, loopVars, Goto, AfterWakeUp
<1>31. ASSUME NEW t \in Threads, ExitNextLoop(t) PROVE OneWakeUpToken'
  BY <1>31 DEF OneWakeUpToken, Writer, ExitNextLoop, wakeVars, loopVars, Goto
<1>32. ASSUME NEW t \in Threads, Interrupt(t) PROVE OneWakeUpToken'
  BY <1>32 DEF OneWakeUpToken, Writer, Interrupt, loopVars, Goto
<1>33. ASSUME NEW t \in Threads, ThreadExitDone(t) PROVE OneWakeUpToken'
  BY <1>33 DEF OneWakeUpToken, Writer, ThreadExitDone, wakeVars, loopVars, Goto
<1>34. CASE UNCHANGED vars
  BY <1>34 DEF OneWakeUpToken, Writer, vars, wakeVars, loopVars, clientVars
<1> QED
  BY <1>1, <1>2, <1>3, <1>4, <1>5, <1>6, <1>7, <1>8, <1>9, <1>10, <1>11, <1>12, <1>13,
     <1>14, <1>15, <1>16, <1>17, <1>18, <1>19, <1>20, <1>21, <1>22, <1>23, <1>24, <1>25,
     <1>26, <1>27, <1>28, <1>29, <1>30, <1>31, <1>32, <1>33, <1>34
     DEF Next, LoopThread, Application, Client

LEMMA ControlStep == TypeOK /\ Control /\ [Next]_vars => Control'
<1> SUFFICES ASSUME TypeOK, Control, [Next]_vars PROVE Control'
  OBVIOUS
<1> USE EventLoopAssumption
<1>1. CASE ThreadStart
  BY <1>1 DEF Control, OutsideLoops, ThreadStart, clientVars
<1>2. CASE CreateEventDispatcher
  BY <1>2 DEF Control, OutsideLoops, CreateEventDispatcher, exitVars, clientVars
<1>3. CASE ThreadExec
  BY <1>3 DEF Control, OutsideLoops, ThreadExec, clientVars
<1>4. CASE EnterLoop
  <2>1. CASE quitNow
    BY <1>4, <2>1 DEF Control, OutsideLoops, EnterLoop, clientVars, AfterLoop
  <2>2. CASE ~quitNow
    <3> DEFINE new == [exit |-> FALSE, code |-> NoCode, from |-> site]
    <3>1. loops' = Append(loops, new) /\ lpc' = "while" /\ lpc = "enter"
      BY <1>4, <2>2 DEF EnterLoop
    <3>2. /\ Len(loops') = Len(loops) + 1 /\ loops' # <<>>
          /\ \A k \in 1..Len(loops) : loops'[k] = loops[k]
          /\ loops'[Len(loops) + 1] = new
      <4>1. new \in LoopRecord /\ loops \in Seq(LoopRecord)
        BY DEF TypeOK, LoopRecord
      <4> QED BY <3>1, <4>1, AppendType
    <3>3. Len(loops) = 0 <=> site = "thread"
      BY <3>1 DEF Control
    <3>4. \A k \in 1..Len(loops') : loops'[k].from = "thread" <=> k = 1
      <4> SUFFICES ASSUME NEW k \in 1..Len(loops') PROVE loops'[k].from = "thread" <=> k = 1
        OBVIOUS
      <4>1. CASE k \in 1..Len(loops)
        BY <3>2, <4>1 DEF Control
      <4>2. CASE k = Len(loops) + 1
        BY <3>2, <3>3, <4>2
      <4>3. Len(loops) \in Nat /\ Len(loops') = Len(loops) + 1
        BY <3>2
      <4> QED BY <4>1, <4>2, <4>3
    <3>5. cpc' = cpc /\ dispatcher' = dispatcher
      BY <1>4 DEF EnterLoop, clientVars
    <3> QED BY <3>1, <3>2, <3>4, <3>5 DEF Control, OutsideLoops
  <2> QED BY <2>1, <2>2
<1>5. CASE TestExit
  BY <1>5 DEF Control, OutsideLoops, TestExit, exitVars, clientVars
<1>6. CASE LeaveLoop
  <2>1. loops # <<>> /\ lpc = "leave" /\ cpc[Loop] = "idle" /\ dispatcher
    BY <1>6 DEF Control, LeaveLoop, OutsideLoops
  <2> DEFINE n == Len(loops)
  <2>2. n \in 1..n /\ (loops[n].from = "thread" <=> n = 1)
    BY <2>1, FrontType DEF Control, TypeOK
  <2>3. /\ Len(loops') = n - 1 /\ (loops' = <<>> <=> n = 1)
        /\ \A k \in 1..Len(loops') : loops'[k] = loops[k]
    <3>1. loops \in Seq(LoopRecord) /\ loops' = SubSeq(loops, 1, Len(loops) - 1)
      BY <1>6 DEF TypeOK, LeaveLoop
    <3>2. /\ Len(loops') = Len(loops) - 1 /\ (loops' = <<>> <=> Len(loops) = 1)
          /\ \A k \in 1..Len(loops') : loops'[k] = loops[k]
      <4> DEFINE front == loops'
      <4>1. front = SubSeq(loops, 1, Len(loops) - 1) /\ loops # <<>>
        BY <2>1, <3>1
      <4> HIDE DEF front
      <4>2. /\ Len(front) = Len(loops) - 1 /\ (front = <<>> <=> Len(loops) = 1)
            /\ \A k \in 1..Len(front) : front[k] = loops[k]
        BY <3>1, <4>1, FrontType
      <4> QED BY <4>2 DEF front
    <3> QED BY <3>2
  <2>4. /\ cpc' = cpc /\ dispatcher' = dispatcher /\ site' = loops[n].from
        /\ lpc' = IF n = 1 THEN "execEnd" ELSE "handler"
    BY <1>6, <2>2 DEF LeaveLoop, AfterLoop, Innermost, clientVars
  <2> QED BY <2>1, <2>2, <2>3, <2>4 DEF Control, OutsideLoops
<1>7. CASE ThreadExecEnd
  BY <1>7 DEF Control, OutsideLoops, ThreadExecEnd, clientVars
<1>8. CASE ClearInterrupt
  BY <1>8 DEF Control, OutsideLoops, ClearInterrupt, exitVars, clientVars
<1>9. CASE SendPostedEvents
  BY <1>9 DEF Control, OutsideLoops, SendPostedEvents, exitVars, clientVars
<1>10. CASE SendEvent
  BY <1>10 DEF Control, OutsideLoops, SendEvent, exitVars
<1>11. CASE SendLoopDone
  BY <1>11 DEF Control, OutsideLoops, SendLoopDone, exitVars
<1>12. CASE EraseSent
  BY <1>12 DEF Control, OutsideLoops, EraseSent, exitVars, clientVars
<1>13. CASE HandlerReturn
  BY <1>13 DEF Control, OutsideLoops, HandlerReturn, exitVars, clientVars
<1>14. CASE AskCanWait
  BY <1>14 DEF Control, OutsideLoops, AskCanWait, exitVars, clientVars
<1>15. CASE AskInterrupt
  BY <1>15 DEF Control, OutsideLoops, AskInterrupt, exitVars, clientVars
<1>16. CASE TestInterrupt
  BY <1>16 DEF Control, OutsideLoops, TestInterrupt, exitVars, clientVars
<1>17. CASE SelectPipe
  BY <1>17 DEF Control, OutsideLoops, SelectPipe, exitVars, clientVars
<1>18. CASE SelectOther
  BY <1>18 DEF Control, OutsideLoops, SelectOther, exitVars, clientVars
<1>19. CASE ReadPipe
  BY <1>19 DEF Control, OutsideLoops, ReadPipe, exitVars, clientVars
<1>20. CASE ResetWakeUps
  BY <1>20 DEF Control, OutsideLoops, ResetWakeUps, exitVars, clientVars
<1>21. CASE ActivateDone
  BY <1>21 DEF Control, OutsideLoops, ActivateDone, exitVars, clientVars
<1>22. CASE LoopExit
  BY <1>22 DEF Control, LoopExit, loopVars, RunsUserCode, Told
<1>23. CASE CallNestedLoop
  BY <1>23 DEF Control, OutsideLoops, CallNestedLoop, exitVars, clientVars, RunsUserCode
<1>24. CASE ActivateHandler
  BY <1>24 DEF Control, OutsideLoops, ActivateHandler, exitVars
<1>25. CASE ExecAgain
  BY <1>25 DEF Control, OutsideLoops, ExecAgain, exitVars, clientVars
<1>26. ASSUME NEW t \in Threads, PostEvent(t) PROVE Control'
  BY <1>26 DEF Control, PostEvent, exitVars, loopVars, Goto, RunsUserCode
<1>27. ASSUME NEW t \in Threads, ThreadExit(t) PROVE Control'
  BY <1>27 DEF Control, ThreadExit, loopVars, Goto, RunsUserCode
<1>28. ASSUME NEW t \in Threads, TestDispatcher(t) PROVE Control'
  BY <1>28 DEF Control, TestDispatcher, exitVars, loopVars, Goto
<1>29. ASSUME NEW t \in Threads, TestAndSetWakeUps(t) PROVE Control'
  <2>1. cpc'[Loop] = "idle" \/ lpc \in {"handler", "sent"}
    BY <1>29 DEF TypeOK, Control, TestAndSetWakeUps, Goto, Threads
  <2> QED BY <1>29, <2>1 DEF Control, TestAndSetWakeUps, exitVars, loopVars
<1>30. ASSUME NEW t \in Threads, WritePipe(t) PROVE Control'
  BY <1>30 DEF Control, WritePipe, exitVars, loopVars, Goto
<1>31. ASSUME NEW t \in Threads, ExitNextLoop(t) PROVE Control'
  BY <1>31 DEF Control, ExitNextLoop, loopVars, Goto, Told
<1>32. ASSUME NEW t \in Threads, Interrupt(t) PROVE Control'
  BY <1>32 DEF Control, Interrupt, exitVars, loopVars, Goto
<1>33. ASSUME NEW t \in Threads, ThreadExitDone(t) PROVE Control'
  BY <1>33 DEF Control, ThreadExitDone, loopVars, Goto
<1>34. CASE UNCHANGED vars
  BY <1>34 DEF Control, vars, exitVars, loopVars, clientVars
<1> QED
  BY <1>1, <1>2, <1>3, <1>4, <1>5, <1>6, <1>7, <1>8, <1>9, <1>10, <1>11, <1>12, <1>13,
     <1>14, <1>15, <1>16, <1>17, <1>18, <1>19, <1>20, <1>21, <1>22, <1>23, <1>24, <1>25,
     <1>26, <1>27, <1>28, <1>29, <1>30, <1>31, <1>32, <1>33, <1>34
     DEF Next, LoopThread, Application, Client

LEMMA NothingLeftStep == TypeOK /\ NothingLeft /\ [Next]_vars => NothingLeft'
<1> SUFFICES ASSUME TypeOK, NothingLeft, [Next]_vars PROVE NothingLeft'
  OBVIOUS
<1> USE EventLoopAssumption
<1>1. CASE ThreadStart
  BY <1>1 DEF NothingLeft, ThreadStart, queueVars
<1>2. CASE CreateEventDispatcher
  BY <1>2 DEF NothingLeft, CreateEventDispatcher, queueVars
<1>3. CASE ThreadExec
  BY <1>3 DEF NothingLeft, ThreadExec, queueVars
<1>4. CASE EnterLoop
  BY <1>4 DEF NothingLeft, EnterLoop, queueVars, AfterLoop
<1>5. CASE TestExit
  BY <1>5 DEF NothingLeft, TestExit, queueVars
<1>6. CASE LeaveLoop
  BY <1>6 DEF NothingLeft, LeaveLoop, queueVars, AfterLoop
<1>7. CASE ThreadExecEnd
  BY <1>7 DEF NothingLeft, ThreadExecEnd, queueVars
<1>8. CASE ClearInterrupt
  BY <1>8 DEF NothingLeft, ClearInterrupt, queueVars
<1>9. CASE SendPostedEvents
  BY <1>9 DEF NothingLeft, SendPostedEvents
<1>10. CASE SendEvent
  BY <1>10 DEF TypeOK, NothingLeft, SendEvent
<1>11. CASE SendLoopDone
  BY <1>11 DEF TypeOK, NothingLeft, SendLoopDone
<1>12. CASE EraseSent
  BY <1>12 DEF NothingLeft, EraseSent
<1>13. CASE HandlerReturn
  BY <1>13 DEF NothingLeft, HandlerReturn, queueVars
<1>14. CASE AskCanWait
  BY <1>14 DEF NothingLeft, AskCanWait, queueVars
<1>15. CASE AskInterrupt
  BY <1>15 DEF NothingLeft, AskInterrupt, queueVars
<1>16. CASE TestInterrupt
  BY <1>16 DEF NothingLeft, TestInterrupt, queueVars
<1>17. CASE SelectPipe
  BY <1>17 DEF NothingLeft, SelectPipe, queueVars
<1>18. CASE SelectOther
  BY <1>18 DEF NothingLeft, SelectOther, queueVars
<1>19. CASE ReadPipe
  BY <1>19 DEF NothingLeft, ReadPipe, queueVars
<1>20. CASE ResetWakeUps
  BY <1>20 DEF NothingLeft, ResetWakeUps, queueVars
<1>21. CASE ActivateDone
  BY <1>21 DEF NothingLeft, ActivateDone, queueVars
<1>22. CASE LoopExit
  BY <1>22 DEF NothingLeft, LoopExit, queueVars, loopVars
<1>23. CASE CallNestedLoop
  BY <1>23 DEF NothingLeft, CallNestedLoop, queueVars
<1>24. CASE ActivateHandler
  BY <1>24 DEF NothingLeft, ActivateHandler, queueVars
<1>25. CASE ExecAgain
  BY <1>25 DEF NothingLeft, ExecAgain, queueVars
<1>26. ASSUME NEW t \in Threads, PostEvent(t) PROVE NothingLeft'
  BY <1>26 DEF TypeOK, NothingLeft, PostEvent, loopVars
<1>27. ASSUME NEW t \in Threads, ThreadExit(t) PROVE NothingLeft'
  BY <1>27 DEF NothingLeft, ThreadExit, queueVars, loopVars
<1>28. ASSUME NEW t \in Threads, TestDispatcher(t) PROVE NothingLeft'
  BY <1>28 DEF NothingLeft, TestDispatcher, queueVars, loopVars
<1>29. ASSUME NEW t \in Threads, TestAndSetWakeUps(t) PROVE NothingLeft'
  BY <1>29 DEF NothingLeft, TestAndSetWakeUps, queueVars, loopVars
<1>30. ASSUME NEW t \in Threads, WritePipe(t) PROVE NothingLeft'
  BY <1>30 DEF NothingLeft, WritePipe, queueVars, loopVars
<1>31. ASSUME NEW t \in Threads, ExitNextLoop(t) PROVE NothingLeft'
  BY <1>31 DEF NothingLeft, ExitNextLoop, queueVars, loopVars
<1>32. ASSUME NEW t \in Threads, Interrupt(t) PROVE NothingLeft'
  BY <1>32 DEF NothingLeft, Interrupt, queueVars, loopVars
<1>33. ASSUME NEW t \in Threads, ThreadExitDone(t) PROVE NothingLeft'
  BY <1>33 DEF NothingLeft, ThreadExitDone, queueVars, loopVars
<1>34. CASE UNCHANGED vars
  BY <1>34 DEF NothingLeft, vars, queueVars, loopVars
<1> QED
  BY <1>1, <1>2, <1>3, <1>4, <1>5, <1>6, <1>7, <1>8, <1>9, <1>10, <1>11, <1>12, <1>13,
     <1>14, <1>15, <1>16, <1>17, <1>18, <1>19, <1>20, <1>21, <1>22, <1>23, <1>24, <1>25,
     <1>26, <1>27, <1>28, <1>29, <1>30, <1>31, <1>32, <1>33, <1>34
     DEF Next, LoopThread, Application, Client

LEMMA WakeUpStep == TypeOK /\ Control /\ OneWakeUpToken /\ NothingLeft /\ WakeUpOnTheWay /\ [Next]_vars => WakeUpOnTheWay'
<1> SUFFICES ASSUME TypeOK, Control, OneWakeUpToken, NothingLeft, WakeUpOnTheWay, [Next]_vars PROVE WakeUpOnTheWay'
  OBVIOUS
<1> USE EventLoopAssumption
<1>1. CASE ThreadStart
  BY <1>1 DEF WakeUpOnTheWay, GoingToSleep, ThreadStart
<1>2. CASE CreateEventDispatcher
  BY <1>2 DEF WakeUpOnTheWay, GoingToSleep, CreateEventDispatcher
<1>3. CASE ThreadExec
  BY <1>3 DEF WakeUpOnTheWay, GoingToSleep, ThreadExec
<1>4. CASE EnterLoop
  BY <1>4 DEF WakeUpOnTheWay, GoingToSleep, EnterLoop, AfterLoop
<1>5. CASE TestExit
  BY <1>5 DEF WakeUpOnTheWay, GoingToSleep, TestExit
<1>6. CASE LeaveLoop
  BY <1>6 DEF WakeUpOnTheWay, GoingToSleep, LeaveLoop, AfterLoop
<1>7. CASE ThreadExecEnd
  BY <1>7 DEF WakeUpOnTheWay, GoingToSleep, ThreadExecEnd
<1>8. CASE ClearInterrupt
  BY <1>8 DEF WakeUpOnTheWay, GoingToSleep, ClearInterrupt
<1>9. CASE SendPostedEvents
  BY <1>9 DEF WakeUpOnTheWay, GoingToSleep, SendPostedEvents
<1>10. CASE SendEvent
  BY <1>10 DEF WakeUpOnTheWay, GoingToSleep, SendEvent
<1>11. CASE SendLoopDone
  BY <1>11 DEF WakeUpOnTheWay, GoingToSleep, SendLoopDone
<1>12. CASE EraseSent
  BY <1>12 DEF WakeUpOnTheWay, GoingToSleep, EraseSent
<1>13. CASE HandlerReturn
  BY <1>13 DEF WakeUpOnTheWay, GoingToSleep, HandlerReturn
<1>14. CASE AskCanWait
  BY <1>14 DEF NothingLeft, WakeUpOnTheWay, GoingToSleep, AskCanWait, queueVars
<1>15. CASE AskInterrupt
  BY <1>15
     DEF WakeUpOnTheWay, GoingToSleep, WakerComing, AskInterrupt, queueVars, wakeVars,
         clientVars
<1>16. CASE TestInterrupt
  BY <1>16
     DEF WakeUpOnTheWay, GoingToSleep, WakerComing, TestInterrupt, queueVars, wakeVars,
         clientVars
<1>17. CASE SelectPipe
  BY <1>17 DEF WakeUpOnTheWay, GoingToSleep, SelectPipe
<1>18. CASE SelectOther
  BY <1>18 DEF WakeUpOnTheWay, GoingToSleep, SelectOther
<1>19. CASE ReadPipe
  BY <1>19 DEF WakeUpOnTheWay, GoingToSleep, ReadPipe
<1>20. CASE ResetWakeUps
  BY <1>20 DEF WakeUpOnTheWay, GoingToSleep, ResetWakeUps
<1>21. CASE ActivateDone
  BY <1>21 DEF WakeUpOnTheWay, GoingToSleep, ActivateDone
<1>22. CASE LoopExit
  BY <1>22 DEF WakeUpOnTheWay, GoingToSleep, LoopExit, loopVars, RunsUserCode
<1>23. CASE CallNestedLoop
  BY <1>23 DEF WakeUpOnTheWay, GoingToSleep, CallNestedLoop
<1>24. CASE ActivateHandler
  BY <1>24 DEF WakeUpOnTheWay, GoingToSleep, ActivateHandler
<1>25. CASE ExecAgain
  BY <1>25 DEF WakeUpOnTheWay, GoingToSleep, ExecAgain
<1>26. ASSUME NEW t \in Threads, PostEvent(t) PROVE WakeUpOnTheWay'
  BY <1>26 DEF TypeOK, WakeUpOnTheWay, WakerComing, PostEvent, Goto
<1>27. ASSUME NEW t \in Threads, ThreadExit(t) PROVE WakeUpOnTheWay'
  BY <1>27
     DEF WakeUpOnTheWay, GoingToSleep, WakerComing, ThreadExit, queueVars, wakeVars,
         loopVars, Goto, RunsUserCode
<1>28. ASSUME NEW t \in Threads, TestDispatcher(t) PROVE WakeUpOnTheWay'
  BY <1>28
     DEF Control, WakeUpOnTheWay, GoingToSleep, WakerComing, TestDispatcher, loopVars, Goto
<1>29. ASSUME NEW t \in Threads, TestAndSetWakeUps(t) PROVE WakeUpOnTheWay'
  <2> SUFFICES ASSUME GoingToSleep', queue' # <<>> PROVE WakerComing' \/ pipe' = 1
    BY DEF WakeUpOnTheWay
  <2>1. CASE wakeUps = 0
    <3>1. cpc'[t] = "write"
      BY <1>29, <2>1 DEF TypeOK, TestAndSetWakeUps, Goto
    <3> QED BY <3>1 DEF WakerComing
  <2>2. CASE wakeUps # 0
    <3>1. pipe' = pipe /\ lpc' = lpc /\ lpc # "reset" /\ wakeUps = 1
      BY <1>29, <2>2 DEF TypeOK, TestAndSetWakeUps, loopVars, GoingToSleep
    <3>2. CASE pipe = 1
      BY <3>1, <3>2
    <3>3. ASSUME NEW u \in Threads, cpc[u] = "write" PROVE WakerComing'
      <4>1. cpc'[u] = "write"
        BY <1>29, <3>3 DEF TypeOK, TestAndSetWakeUps, Goto
      <4> QED BY <4>1 DEF WakerComing
    <3> QED BY <3>1, <3>2, <3>3 DEF OneWakeUpToken, Writer
  <2> QED BY <2>1, <2>2
<1>30. ASSUME NEW t \in Threads, WritePipe(t) PROVE WakeUpOnTheWay'
  <2>1. pipe' = 1
    BY <1>30 DEF WritePipe, OneWakeUpToken, Writer
  <2> QED BY <2>1 DEF WakeUpOnTheWay
<1>31. ASSUME NEW t \in Threads, ExitNextLoop(t) PROVE WakeUpOnTheWay'
  BY <1>31
     DEF WakeUpOnTheWay, GoingToSleep, WakerComing, ExitNextLoop, queueVars, wakeVars,
         loopVars, Goto
<1>32. ASSUME NEW t \in Threads, Interrupt(t) PROVE WakeUpOnTheWay'
  BY <1>32
     DEF WakeUpOnTheWay, GoingToSleep, WakerComing, Interrupt, queueVars, loopVars, Goto
<1>33. ASSUME NEW t \in Threads, ThreadExitDone(t) PROVE WakeUpOnTheWay'
  BY <1>33
     DEF WakeUpOnTheWay, GoingToSleep, WakerComing, ThreadExitDone, queueVars, wakeVars,
         loopVars, Goto
<1>34. CASE UNCHANGED vars
  BY <1>34
     DEF WakeUpOnTheWay, GoingToSleep, WakerComing, vars, queueVars, wakeVars, loopVars,
         clientVars
<1> QED
  BY <1>1, <1>2, <1>3, <1>4, <1>5, <1>6, <1>7, <1>8, <1>9, <1>10, <1>11, <1>12, <1>13,
     <1>14, <1>15, <1>16, <1>17, <1>18, <1>19, <1>20, <1>21, <1>22, <1>23, <1>24, <1>25,
     <1>26, <1>27, <1>28, <1>29, <1>30, <1>31, <1>32, <1>33, <1>34
     DEF Next, LoopThread, Application, Client

LEMMA TellingStep == TypeOK /\ Control /\ Telling /\ [Next]_vars => Telling'
<1> SUFFICES ASSUME TypeOK, Control, Telling, [Next]_vars PROVE Telling'
  OBVIOUS
<1> USE EventLoopAssumption
<1>1. CASE ThreadStart
  BY <1>1 DEF Control, OutsideLoops, Telling, ThreadStart, clientVars
<1>2. CASE CreateEventDispatcher
  BY <1>2 DEF Telling, CreateEventDispatcher, exitVars, clientVars
<1>3. CASE ThreadExec
  BY <1>3 DEF Telling, ThreadExec, clientVars
<1>4. CASE EnterLoop
  BY <1>4 DEF Telling, EnterLoop, clientVars
<1>5. CASE TestExit
  BY <1>5 DEF Telling, TestExit, exitVars, clientVars
<1>6. CASE LeaveLoop
  BY <1>6 DEF Telling, LeaveLoop, clientVars
<1>7. CASE ThreadExecEnd
  BY <1>7 DEF Telling, ThreadExecEnd, clientVars
<1>8. CASE ClearInterrupt
  BY <1>8 DEF Telling, ClearInterrupt, exitVars, clientVars
<1>9. CASE SendPostedEvents
  BY <1>9 DEF Telling, SendPostedEvents, exitVars, clientVars
<1>10. CASE SendEvent
  BY <1>10 DEF Telling, SendEvent, exitVars, clientVars
<1>11. CASE SendLoopDone
  BY <1>11 DEF TypeOK, Telling, SendLoopDone, exitVars, Goto
<1>12. CASE EraseSent
  BY <1>12 DEF Telling, EraseSent, exitVars, clientVars
<1>13. CASE HandlerReturn
  BY <1>13 DEF Telling, HandlerReturn, exitVars, clientVars
<1>14. CASE AskCanWait
  BY <1>14 DEF Telling, AskCanWait, exitVars, clientVars
<1>15. CASE AskInterrupt
  BY <1>15 DEF Telling, AskInterrupt, exitVars, clientVars
<1>16. CASE TestInterrupt
  BY <1>16 DEF Telling, TestInterrupt, exitVars, clientVars
<1>17. CASE SelectPipe
  BY <1>17 DEF Telling, SelectPipe, exitVars, clientVars
<1>18. CASE SelectOther
  BY <1>18 DEF Telling, SelectOther, exitVars, clientVars
<1>19. CASE ReadPipe
  BY <1>19 DEF Telling, ReadPipe, exitVars, clientVars
<1>20. CASE ResetWakeUps
  BY <1>20 DEF Telling, ResetWakeUps, exitVars, clientVars
<1>21. CASE ActivateDone
  BY <1>21 DEF Telling, ActivateDone, exitVars, clientVars
<1>22. CASE LoopExit
  BY <1>22 DEF Telling, LoopExit, Goto, Told
<1>23. CASE CallNestedLoop
  BY <1>23 DEF Telling, CallNestedLoop, exitVars, clientVars
<1>24. CASE ActivateHandler
  BY <1>24 DEF Telling, ActivateHandler, exitVars, clientVars
<1>25. CASE ExecAgain
  BY <1>25 DEF Telling, ExecAgain, exitVars, clientVars
<1>26. ASSUME NEW t \in Threads, PostEvent(t) PROVE Telling'
  BY <1>26 DEF Telling, PostEvent, exitVars, Goto
<1>27. ASSUME NEW t \in Threads, ThreadExit(t) PROVE Telling'
  BY <1>27 DEF TypeOK, Telling, ThreadExit, Goto
<1>28. ASSUME NEW t \in Threads, TestDispatcher(t) PROVE Telling'
  BY <1>28 DEF Telling, TestDispatcher, exitVars, Goto
<1>29. ASSUME NEW t \in Threads, TestAndSetWakeUps(t) PROVE Telling'
  BY <1>29 DEF TypeOK, Telling, TestAndSetWakeUps, exitVars, Goto, AfterWakeUp
<1>30. ASSUME NEW t \in Threads, WritePipe(t) PROVE Telling'
  BY <1>30 DEF Telling, WritePipe, exitVars, Goto, AfterWakeUp
<1>31. ASSUME NEW t \in Threads, ExitNextLoop(t) PROVE Telling'
  <2>1. /\ cpc[t] = "nextLoop" /\ mutex = t /\ target[t] \in Nat
        /\ loops \in Seq(LoopRecord) /\ target' = [target EXCEPT ![t] = @ + 1]
    BY <1>31 DEF TypeOK, Telling, ExitNextLoop
  <2>2. \A u \in Threads : cpc'[u] = "nextLoop" => mutex' = u
    BY <1>31 DEF TypeOK, Telling, ExitNextLoop, Goto
  <2>3. ASSUME quitNow', NEW k \in 1..Len(loops'), mutex' = NoThread \/ k <= target'[mutex']
        PROVE  loops'[k].exit
    <3>1. /\ quitNow /\ mutex' = t /\ loops' = Told(target[t] + 1, returnCode)
          /\ Len(loops') = Len(loops) /\ t # NoThread /\ target'[t] = target[t] + 1
      BY <1>31, <2>1, <2>3 DEF ExitNextLoop, Told, Threads, TypeOK
    <3>2. k \in 1..Len(loops) /\ k <= target[t] + 1
      BY <2>1, <2>3, <3>1
    <3>3. CASE k = target[t] + 1
      BY <2>1, <3>1, <3>2, <3>3 DEF Told
    <3>4. CASE k # target[t] + 1
      <4>1. k <= target[t]
        BY <2>1, <3>2, <3>4
      <4>2. loops[k].exit
        BY <2>1, <3>1, <3>2, <4>1 DEF Telling
      <4> QED BY <2>1, <3>1, <3>2, <3>4, <4>2 DEF Told
    <3> QED BY <3>3, <3>4
  <2> QED BY <2>2, <2>3 DEF Telling
<1>32. ASSUME NEW t \in Threads, Interrupt(t) PROVE Telling'
  BY <1>32 DEF Telling, Interrupt, exitVars, Goto
<1>33. ASSUME NEW t \in Threads, ThreadExitDone(t) PROVE Telling'
  BY <1>33 DEF TypeOK, Telling, ThreadExitDone, Goto
<1>34. CASE UNCHANGED vars
  BY <1>34 DEF Telling, vars, exitVars, clientVars
<1> QED
  BY <1>1, <1>2, <1>3, <1>4, <1>5, <1>6, <1>7, <1>8, <1>9, <1>10, <1>11, <1>12, <1>13,
     <1>14, <1>15, <1>16, <1>17, <1>18, <1>19, <1>20, <1>21, <1>22, <1>23, <1>24, <1>25,
     <1>26, <1>27, <1>28, <1>29, <1>30, <1>31, <1>32, <1>33, <1>34
     DEF Next, LoopThread, Application, Client

LEMMA ShallowStep == MaxDepth = 1 /\ TypeOK /\ Control /\ Shallow /\ [Next]_vars => Shallow'
<1> SUFFICES ASSUME MaxDepth = 1, TypeOK, Control, Shallow, [Next]_vars PROVE Shallow'
  OBVIOUS
<1> USE EventLoopAssumption
<1>1. CASE ThreadStart
  BY <1>1 DEF Shallow, ThreadStart
<1>2. CASE CreateEventDispatcher
  BY <1>2 DEF Shallow, CreateEventDispatcher, exitVars
<1>3. CASE ThreadExec
  BY <1>3 DEF Control, OutsideLoops, Shallow, ThreadExec
<1>4. CASE EnterLoop
  <2>1. lpc = "enter" /\ loops = <<>> /\ Len(loops) = 0
    BY <1>4 DEF Shallow, EnterLoop
  <2>2. CASE quitNow
    BY <1>4, <2>1, <2>2 DEF Shallow, EnterLoop
  <2>3. CASE ~quitNow
    <3>1. loops' = <<[exit |-> FALSE, code |-> NoCode, from |-> site]>> /\ lpc' = "while"
      BY <1>4, <2>1, <2>3 DEF EnterLoop
    <3> QED BY <3>1 DEF Shallow
  <2> QED BY <2>2, <2>3
<1>5. CASE TestExit
  BY <1>5 DEF Shallow, TestExit, exitVars
<1>6. CASE LeaveLoop
  BY <1>6 DEF Shallow, LeaveLoop
<1>7. CASE ThreadExecEnd
  BY <1>7 DEF Shallow, ThreadExecEnd
<1>8. CASE ClearInterrupt
  BY <1>8 DEF Shallow, ClearInterrupt, exitVars
<1>9. CASE SendPostedEvents
  BY <1>9 DEF Shallow, SendPostedEvents, exitVars
<1>10. CASE SendEvent
  BY <1>10 DEF Shallow, SendEvent, exitVars
<1>11. CASE SendLoopDone
  BY <1>11 DEF Shallow, SendLoopDone, exitVars
<1>12. CASE EraseSent
  BY <1>12 DEF Shallow, EraseSent, exitVars
<1>13. CASE HandlerReturn
  BY <1>13 DEF Shallow, HandlerReturn, exitVars
<1>14. CASE AskCanWait
  BY <1>14 DEF Shallow, AskCanWait, exitVars
<1>15. CASE AskInterrupt
  BY <1>15 DEF Shallow, AskInterrupt, exitVars
<1>16. CASE TestInterrupt
  BY <1>16 DEF Shallow, TestInterrupt, exitVars
<1>17. CASE SelectPipe
  BY <1>17 DEF Shallow, SelectPipe, exitVars
<1>18. CASE SelectOther
  BY <1>18 DEF Shallow, SelectOther, exitVars
<1>19. CASE ReadPipe
  BY <1>19 DEF Shallow, ReadPipe, exitVars
<1>20. CASE ResetWakeUps
  BY <1>20 DEF Shallow, ResetWakeUps, exitVars
<1>21. CASE ActivateDone
  BY <1>21 DEF Shallow, ActivateDone, exitVars
<1>22. CASE LoopExit
  BY <1>22 DEF Shallow, LoopExit, loopVars, Told
<1>23. CASE CallNestedLoop
  BY <1>23 DEF Shallow, CallNestedLoop, exitVars
<1>24. CASE ActivateHandler
  BY <1>24 DEF Shallow, ActivateHandler, exitVars
<1>25. CASE ExecAgain
  BY <1>25 DEF Shallow, ExecAgain, exitVars
<1>26. ASSUME NEW t \in Threads, PostEvent(t) PROVE Shallow'
  BY <1>26 DEF Shallow, PostEvent, exitVars, loopVars
<1>27. ASSUME NEW t \in Threads, ThreadExit(t) PROVE Shallow'
  BY <1>27 DEF Shallow, ThreadExit, loopVars
<1>28. ASSUME NEW t \in Threads, TestDispatcher(t) PROVE Shallow'
  BY <1>28 DEF Shallow, TestDispatcher, exitVars, loopVars
<1>29. ASSUME NEW t \in Threads, TestAndSetWakeUps(t) PROVE Shallow'
  BY <1>29 DEF Shallow, TestAndSetWakeUps, exitVars, loopVars
<1>30. ASSUME NEW t \in Threads, WritePipe(t) PROVE Shallow'
  BY <1>30 DEF Shallow, WritePipe, exitVars, loopVars
<1>31. ASSUME NEW t \in Threads, ExitNextLoop(t) PROVE Shallow'
  BY <1>31 DEF Shallow, ExitNextLoop, loopVars, Told
<1>32. ASSUME NEW t \in Threads, Interrupt(t) PROVE Shallow'
  BY <1>32 DEF Shallow, Interrupt, exitVars, loopVars
<1>33. ASSUME NEW t \in Threads, ThreadExitDone(t) PROVE Shallow'
  BY <1>33 DEF Shallow, ThreadExitDone, loopVars
<1>34. CASE UNCHANGED vars
  BY <1>34 DEF Shallow, vars, exitVars, loopVars
<1> QED
  BY <1>1, <1>2, <1>3, <1>4, <1>5, <1>6, <1>7, <1>8, <1>9, <1>10, <1>11, <1>12, <1>13,
     <1>14, <1>15, <1>16, <1>17, <1>18, <1>19, <1>20, <1>21, <1>22, <1>23, <1>24, <1>25,
     <1>26, <1>27, <1>28, <1>29, <1>30, <1>31, <1>32, <1>33, <1>34
     DEF Next, LoopThread, Application, Client

LEMMA ExitStep == TypeOK /\ Control /\ OneWakeUpToken /\ Shallow /\ ExitSignalled /\ [Next]_vars => ExitSignalled'
<1> SUFFICES ASSUME TypeOK, Control, OneWakeUpToken, Shallow, ExitSignalled, [Next]_vars PROVE ExitSignalled'
  OBVIOUS
<1> USE EventLoopAssumption
<1>1. CASE ThreadStart
  BY <1>1 DEF ExitSignalled, BeforeSelect, ThreadStart
<1>2. CASE CreateEventDispatcher
  BY <1>2 DEF ExitSignalled, BeforeSelect, CreateEventDispatcher
<1>3. CASE ThreadExec
  BY <1>3 DEF ExitSignalled, BeforeSelect, ThreadExec
<1>4. CASE EnterLoop
  BY <1>4 DEF Control, Shallow, ExitSignalled, BeforeSelect, EnterLoop, AfterLoop
<1>5. CASE TestExit
  BY <1>5 DEF ExitSignalled, BeforeSelect, TestExit, exitVars, Innermost
<1>6. CASE LeaveLoop
  BY <1>6
     DEF Control, OutsideLoops, Shallow, ExitSignalled, BeforeSelect, LeaveLoop, AfterLoop,
         Innermost
<1>7. CASE ThreadExecEnd
  BY <1>7 DEF ExitSignalled, BeforeSelect, ThreadExecEnd
<1>8. CASE ClearInterrupt
  BY <1>8
     DEF ExitSignalled, BeforeSelect, ExitComing, Innermost, ClearInterrupt, exitVars,
         clientVars
<1>9. CASE SendPostedEvents
  BY <1>9
     DEF ExitSignalled, BeforeSelect, ExitComing, Innermost, SendPostedEvents, exitVars,
         wakeVars, clientVars
<1>10. CASE SendEvent
  BY <1>10
     DEF ExitSignalled, BeforeSelect, ExitComing, Innermost, SendEvent, exitVars, wakeVars,
         clientVars
<1>11. CASE SendLoopDone
  BY <1>11
     DEF TypeOK, ExitSignalled, BeforeSelect, ExitComing, Innermost, SendLoopDone,
         exitVars, wakeVars, Goto
<1>12. CASE EraseSent
  BY <1>12
     DEF ExitSignalled, BeforeSelect, ExitComing, Innermost, EraseSent, exitVars, wakeVars,
         clientVars
<1>13. CASE HandlerReturn
  BY <1>13
     DEF ExitSignalled, BeforeSelect, ExitComing, Innermost, HandlerReturn, exitVars,
         wakeVars, clientVars
<1>14. CASE AskCanWait
  BY <1>14
     DEF ExitSignalled, BeforeSelect, ExitComing, Innermost, AskCanWait, exitVars,
         wakeVars, clientVars
<1>15. CASE AskInterrupt
  BY <1>15
     DEF ExitSignalled, BeforeSelect, ExitComing, Innermost, AskInterrupt, exitVars,
         wakeVars, clientVars
<1>16. CASE TestInterrupt
  BY <1>16
     DEF ExitSignalled, BeforeSelect, ExitComing, Innermost, TestInterrupt, exitVars,
         wakeVars, clientVars
<1>17. CASE SelectPipe
  BY <1>17 DEF ExitSignalled, BeforeSelect, SelectPipe
<1>18. CASE SelectOther
  BY <1>18 DEF ExitSignalled, BeforeSelect, SelectOther
<1>19. CASE ReadPipe
  BY <1>19 DEF ExitSignalled, BeforeSelect, ReadPipe
<1>20. CASE ResetWakeUps
  BY <1>20 DEF ExitSignalled, BeforeSelect, ResetWakeUps
<1>21. CASE ActivateDone
  BY <1>21 DEF ExitSignalled, BeforeSelect, ActivateDone
<1>22. CASE LoopExit
  <2>1. cpc'[Loop] = "interrupt" /\ Loop \in Threads
    BY <1>22 DEF TypeOK, LoopExit, Goto, Threads
  <2> QED BY <2>1 DEF ExitSignalled, ExitComing
<1>23. CASE CallNestedLoop
  BY <1>23 DEF ExitSignalled, BeforeSelect, CallNestedLoop
<1>24. CASE ActivateHandler
  BY <1>24 DEF ExitSignalled, BeforeSelect, ActivateHandler
<1>25. CASE ExecAgain
  BY <1>25 DEF ExitSignalled, BeforeSelect, ExecAgain
<1>26. ASSUME NEW t \in Threads, PostEvent(t) PROVE ExitSignalled'
  BY <1>26
     DEF ExitSignalled, BeforeSelect, ExitComing, Innermost, PostEvent, exitVars, wakeVars,
         loopVars, Goto, RunsUserCode
<1>27. ASSUME NEW t \in Threads, ThreadExit(t) PROVE ExitSignalled'
  BY <1>27
     DEF ExitSignalled, BeforeSelect, ExitComing, Innermost, ThreadExit, wakeVars,
         loopVars, Goto, RunsUserCode
<1>28. ASSUME NEW t \in Threads, TestDispatcher(t) PROVE ExitSignalled'
  BY <1>28
     DEF ExitSignalled, BeforeSelect, ExitComing, Innermost, TestDispatcher, exitVars,
         wakeVars, loopVars, Goto
<1>29. ASSUME NEW t \in Threads, TestAndSetWakeUps(t) PROVE ExitSignalled'
  <2> SUFFICES ASSUME BeforeSelect', Innermost'.exit PROVE ExitComing' \/ pipe' = 1
    BY DEF ExitSignalled
  <2>1. CASE wakeUps = 0
    <3>1. cpc'[t] = "write"
      BY <1>29, <2>1 DEF TypeOK, TestAndSetWakeUps, Goto
    <3> QED BY <3>1 DEF ExitComing
  <2>2. CASE wakeUps # 0
    <3>1. pipe' = pipe /\ lpc' = lpc /\ lpc # "reset" /\ wakeUps = 1
      BY <1>29, <2>2 DEF TypeOK, TestAndSetWakeUps, loopVars, BeforeSelect
    <3>2. CASE pipe = 1
      BY <3>1, <3>2
    <3>3. ASSUME NEW u \in Threads, cpc[u] = "write" PROVE ExitComing'
      <4>1. cpc'[u] = "write"
        BY <1>29, <3>3 DEF TypeOK, TestAndSetWakeUps, Goto
      <4> QED BY <4>1 DEF ExitComing
    <3> QED BY <3>1, <3>2, <3>3 DEF OneWakeUpToken, Writer
  <2> QED BY <2>1, <2>2
<1>30. ASSUME NEW t \in Threads, WritePipe(t) PROVE ExitSignalled'
  <2>1. pipe' = 1
    BY <1>30 DEF WritePipe, OneWakeUpToken, Writer
  <2> QED BY <2>1 DEF ExitSignalled
<1>31. ASSUME NEW t \in Threads, ExitNextLoop(t) PROVE ExitSignalled'
  BY <1>31 DEF TypeOK, ExitSignalled, ExitComing, ExitNextLoop, Goto
<1>32. ASSUME NEW t \in Threads, Interrupt(t) PROVE ExitSignalled'
  BY <1>32 DEF ExitSignalled, ExitComing, Interrupt, Goto
<1>33. ASSUME NEW t \in Threads, ThreadExitDone(t) PROVE ExitSignalled'
  BY <1>33
     DEF ExitSignalled, BeforeSelect, ExitComing, Innermost, ThreadExitDone, wakeVars,
         loopVars, Goto
<1>34. CASE UNCHANGED vars
  BY <1>34
     DEF ExitSignalled, BeforeSelect, ExitComing, Innermost, vars, exitVars, wakeVars,
         loopVars, clientVars
<1> QED
  BY <1>1, <1>2, <1>3, <1>4, <1>5, <1>6, <1>7, <1>8, <1>9, <1>10, <1>11, <1>12, <1>13,
     <1>14, <1>15, <1>16, <1>17, <1>18, <1>19, <1>20, <1>21, <1>22, <1>23, <1>24, <1>25,
     <1>26, <1>27, <1>28, <1>29, <1>30, <1>31, <1>32, <1>33, <1>34
     DEF Next, LoopThread, Application, Client

-----------------------------------------------------------------------------
IInv == TypeOK /\ OneWakeUpToken /\ Control /\ NothingLeft /\ WakeUpOnTheWay /\ Telling

LEMMA InitIInv == Init => IInv
<1> SUFFICES ASSUME Init PROVE IInv
  OBVIOUS
<1>1. TypeOK
  BY TypeInit
<1>2. OneWakeUpToken
  BY DEF Init, OneWakeUpToken, Writer
<1>3. Control
  BY EventLoopAssumption DEF Init, Control, OutsideLoops, Threads
<1>4. NothingLeft
  BY DEF Init, NothingLeft
<1>5. WakeUpOnTheWay
  BY DEF Init, WakeUpOnTheWay
<1>6. Telling
  BY DEF Init, Telling
<1> QED BY <1>1, <1>2, <1>3, <1>4, <1>5, <1>6 DEF IInv

LEMMA StepIInv == IInv /\ [Next]_vars => IInv'
  BY TypeStep, TokenStep, ControlStep, NothingLeftStep, WakeUpStep, TellingStep DEF IInv

\* Every run of the event loop keeps the inductive invariant.
THEOREM Invariance == Spec => []IInv
  BY InitIInv, StepIInv, PTL DEF Spec

\* The variables of QThreadData, QThreadPrivate and the dispatcher keep their types,
\* the pipe and wakeUps their two values among them.
THEOREM TypeCorrect == Spec => []TypeOK
<1>1. IInv => TypeOK
  BY DEF IInv
<1> QED BY <1>1, Invariance, PTL

\* processThreadWakeUp's swap never fails and the pipe never holds two bytes.
THEOREM WakeUpTokenSafe == Spec => []OneWakeUpToken
<1>1. IInv => OneWakeUpToken
  BY DEF IInv
<1> QED BY <1>1, Invariance, PTL

\* postEvent and processEvents never leave the thread asleep on a posted event.
THEOREM NoWakeUpIsLost == Spec => []NoLostWakeup
<1>1. IInv => NoLostWakeup
  BY DEF IInv, WakeUpOnTheWay, GoingToSleep, NoLostWakeup, Asleep
<1> QED BY <1>1, Invariance, PTL

\* QThread::exit reaches every loop of the thread, nested ones and new ones too.
THEOREM ExitTellsAllLoops == Spec => []AllLoopsTold
<1>1. IInv => AllLoopsTold
  BY DEF IInv, Telling, AllLoopsTold
<1> QED BY <1>1, Invariance, PTL

\* Without nested loops, QThread::exit never leaves the thread asleep.
THEOREM NoExitIsLost == ASSUME MaxDepth = 1 PROVE Spec => []NoLostExit
<1>1. Init => Shallow /\ ExitSignalled
  BY DEF Init, Shallow, ExitSignalled, BeforeSelect
<1>2. IInv /\ Shallow /\ ExitSignalled /\ [Next]_vars => Shallow' /\ ExitSignalled'
  BY ShallowStep, ExitStep DEF IInv
<1>3. ExitSignalled => NoLostExit
  BY DEF ExitSignalled, BeforeSelect, NoLostExit, Asleep
<1> QED BY <1>1, <1>2, <1>3, Invariance, PTL DEF Spec

=============================================================================
