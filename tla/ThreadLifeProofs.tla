-------------------------- MODULE ThreadLifeProofs --------------------------
(***************************************************************************)
(* Theorems about ThreadLife, for any number of controllers, OS threads,   *)
(* terminations and posts.  The inductive invariant is TypeOK together     *)
(* with                                                                    *)
(*   Numbered   the OS threads that were created are 1..runs,              *)
(*   OneRun     running and threadId are those of the thread there is,     *)
(*   Users      who may be in a call of the QThread,                       *)
(*   DataOutlivesUsers  itself.                                            *)
(***************************************************************************)
EXTENDS ThreadLife, FiniteSetTheorems, TLAPS

\* The OS threads are created in the order of their numbers.
Numbered == \A r \in Runs : os[r] # "none" <=> r <= runs

\* While it says it runs the QThread is there and has a number, which nobody else uses;
\* a thread that is not running has left neither a dispatcher nor an OS thread behind.
OneRun ==
  /\ running => exists /\ threadId # NoRun
  /\ \A r \in Runs : Executing(r) => running /\ threadId = r
  /\ dispatcher # NoRun => running /\ dispatcher = threadId
  /\ \A r \in Runs : os[r] \in {"created", "deleting"} => dispatcher = NoRun

\* Nobody uses a QThread that is destroyed, or is about to be destroyed by another controller.
Users ==
  /\ \A c \in Controllers : cpc[c] # "idle" => exists
  /\ \A c, e \in Controllers : cpc[c] = "destroying" /\ e # c => cpc[e] = "idle"

IInv == TypeOK /\ Numbered /\ OneRun /\ Users /\ DataOutlivesUsers

\* The OS threads that have a reference to the data.
Referring == {r \in Runs : os[r] \notin {"none", "created", "gone"}}

-----------------------------------------------------------------------------
\* The cases of Next.
LEMMA NextCases ==
  ASSUME [Next]_vars
  PROVE  \/ UNCHANGED vars
         \/ \E r \in Runs :
              \/ Begin(r) \/ EnterRun(r) \/ RunReturns(r) \/ RunCancelled(r) \/ FinishBegins(r)
              \/ TakeDispatcher(r) \/ FinishEnds(r) \/ FinishCancelled(r) \/ DropData(r)
         \/ \E c \in Controllers :
              \/ Start(c) \/ StartWoken(c) \/ Wait(c, "waiting") \/ Wait(c, "timedWaiting")
              \/ WaitWoken(c) \/ WaitTimeout(c) \/ WakeForNothing(c) \/ Terminate(c)
              \/ Destroy(c) \/ DestroyWoken(c)
              \/ PostEvent(c) \/ TestDispatcher(c) \/ WakeUp(c)
  BY DEF Next, OsThread, Library, Application, InCall

\* Steps that leave the OS threads, the flags and the reference count alone.
Quiet == UNCHANGED <<running, threadId, dispatcher, exists, ref, os, runs>>

LEMMA QuietSteps ==
  ASSUME NEW c \in Controllers,
         \/ Wait(c, "waiting") \/ Wait(c, "timedWaiting") \/ WaitWoken(c) \/ WaitTimeout(c)
         \/ WakeForNothing(c) \/ Terminate(c) \/ PostEvent(c) \/ TestDispatcher(c) \/ WakeUp(c)
  PROVE  Quiet
  BY DEF Quiet, Wait, WaitWoken, WaitTimeout, WakeForNothing, Terminate, PostEvent,
         TestDispatcher, WakeUp, flagVars, osVars

\* What a start() does that has an effect, or none.
LEMMA LaunchCases ==
  ASSUME Launch
  PROVE  \/ UNCHANGED <<running, threadId, os, runs>>
         \/ ~running /\ ~running' /\ threadId' = NoRun /\ UNCHANGED <<os, runs>>
         \/ /\ ~running /\ running' /\ runs < MaxRuns
            /\ runs' = runs + 1 /\ threadId' = runs + 1
            /\ os' = [os EXCEPT ![runs + 1] = "created"]
  BY DEF Launch, flagVars, Step

\* The reference count is within its bounds when it counts who refers.
LEMMA Counted ==
  ASSUME NEW S \in SUBSET Runs, NEW e, NEW n, n = Cardinality(S) + (IF e THEN 1 ELSE 0)
  PROVE  n \in 0..(MaxRuns + 1)
<1>1. IsFiniteSet(Runs) /\ Cardinality(Runs) = MaxRuns
  BY FS_Interval, ThreadLifeAssumption DEF Runs
<1>2. Cardinality(S) \in Nat /\ Cardinality(S) <= MaxRuns
  BY <1>1, FS_Subset, FS_CardinalityType
<1> QED BY <1>2, ThreadLifeAssumption

LEMMA InitIInv == Init => IInv
<1> SUFFICES ASSUME Init PROVE IInv
  OBVIOUS
<1>1. TypeOK
  <2>1. /\ ref \in 0..(MaxRuns + 1) /\ runs \in 0..MaxRuns
        /\ terminates \in 0..MaxTerminates /\ posts \in 0..MaxPosts
    BY ThreadLifeAssumption DEF Init
  <2> QED BY <2>1 DEF Init, TypeOK, OsPoints, CallPoints
<1>2. Numbered /\ OneRun /\ Users
  BY ThreadLifeAssumption DEF Init, Numbered, OneRun, Users, Executing, Runs, NoRun
<1>3. DataOutlivesUsers
  <2>1. Referring = {}
    BY DEF Init, Referring
  <2> QED BY <2>1, FS_EmptySet DEF Init, DataOutlivesUsers, Referring
<1> QED BY <1>1, <1>2, <1>3 DEF IInv

LEMMA NumberedStep == TypeOK /\ Numbered /\ [Next]_vars => Numbered'
<1> SUFFICES ASSUME TypeOK, Numbered, [Next]_vars PROVE Numbered'
  OBVIOUS
<1> USE ThreadLifeAssumption DEF TypeOK, Numbered, Runs
<1>1. CASE UNCHANGED vars
  BY <1>1 DEF vars, osVars
<1>2. ASSUME NEW r \in Runs,
             \/ Begin(r) \/ EnterRun(r) \/ RunReturns(r) \/ RunCancelled(r) \/ FinishBegins(r)
             \/ TakeDispatcher(r) \/ FinishEnds(r) \/ FinishCancelled(r) \/ DropData(r)
      PROVE Numbered'
  BY <1>2 DEF Begin, EnterRun, RunReturns, RunCancelled, FinishBegins, TakeDispatcher,
     FinishEnds, FinishCancelled, DropData, Step
<1>3. ASSUME Launch PROVE Numbered'
  BY <1>3, LaunchCases
<1>4. ASSUME NEW c \in Controllers, Start(c) \/ StartWoken(c) PROVE Numbered'
  BY <1>3, <1>4 DEF Start, StartWoken
<1>5. ASSUME NEW c \in Controllers, Destroy(c) \/ DestroyWoken(c) PROVE Numbered'
  BY <1>5 DEF Destroy, DestroyWoken
<1>6. ASSUME Quiet PROVE Numbered'
  BY <1>6 DEF Quiet
<1> QED BY <1>1, <1>2, <1>4, <1>5, <1>6, NextCases, QuietSteps

LEMMA UsersStep == TypeOK /\ Users /\ [Next]_vars => Users'
<1> SUFFICES ASSUME TypeOK, Users, [Next]_vars PROVE Users'
  OBVIOUS
<1> USE DEF TypeOK, Users
<1>1. CASE UNCHANGED vars
  BY <1>1 DEF vars, osVars, callVars
<1>2. ASSUME NEW r \in Runs,
             \/ Begin(r) \/ EnterRun(r) \/ RunReturns(r) \/ RunCancelled(r) \/ FinishBegins(r)
             \/ TakeDispatcher(r) \/ FinishEnds(r) \/ FinishCancelled(r) \/ DropData(r)
      PROVE Users'
  BY <1>2 DEF Begin, EnterRun, RunReturns, RunCancelled, FinishBegins, TakeDispatcher,
     FinishEnds, FinishCancelled, DropData, callVars
<1>3. ASSUME NEW c \in Controllers, Start(c) \/ StartWoken(c) PROVE Users'
  BY <1>3 DEF Start, StartWoken, MayCall, Goto
<1>4. ASSUME NEW c \in Controllers,
             Wait(c, "waiting") \/ Wait(c, "timedWaiting") \/ WaitWoken(c) \/ WaitTimeout(c)
      PROVE Users'
  BY <1>4 DEF Wait, WaitWoken, WaitTimeout, MayCall, Goto, osVars
<1>5. ASSUME NEW c \in Controllers, WakeForNothing(c) \/ Terminate(c) PROVE Users'
  BY <1>5 DEF WakeForNothing, Terminate, osVars, callVars
<1>6. ASSUME NEW c \in Controllers, Destroy(c) PROVE Users'
  BY <1>6 DEF Destroy, MayCall, Goto, Gone
<1>7. ASSUME NEW c \in Controllers, DestroyWoken(c) PROVE Users'
  BY <1>7 DEF DestroyWoken, Goto, Gone
<1>8. ASSUME NEW c \in Controllers, PostEvent(c) \/ TestDispatcher(c) \/ WakeUp(c) PROVE Users'
  BY <1>8 DEF PostEvent, TestDispatcher, WakeUp, MayCall, Goto, osVars
<1> QED BY <1>1, <1>2, <1>3, <1>4, <1>5, <1>6, <1>7, <1>8, NextCases

LEMMA OneRunStep == TypeOK /\ Numbered /\ Users /\ OneRun /\ [Next]_vars => OneRun'
<1> SUFFICES ASSUME TypeOK, Numbered, Users, OneRun, [Next]_vars PROVE OneRun'
  OBVIOUS
<1> USE ThreadLifeAssumption DEF OneRun, Executing
<1>1. CASE UNCHANGED vars
  BY <1>1 DEF vars, osVars, flagVars
<1>2. ASSUME NEW r \in Runs, Begin(r) PROVE OneRun'
  BY <1>2 DEF Begin, Step, TypeOK, flagVars
<1>3. ASSUME NEW r \in Runs,
             EnterRun(r) \/ RunReturns(r) \/ RunCancelled(r) \/ FinishBegins(r) PROVE OneRun'
  BY <1>3 DEF EnterRun, RunReturns, RunCancelled, FinishBegins, Step, TypeOK, flagVars
<1>4. ASSUME NEW r \in Runs, TakeDispatcher(r) PROVE OneRun'
  BY <1>4 DEF TakeDispatcher, Step, TypeOK
<1>5. ASSUME NEW r \in Runs, FinishEnds(r) PROVE OneRun'
  BY <1>5 DEF FinishEnds, Step, TypeOK
<1>6. ASSUME NEW r \in Runs, FinishCancelled(r) \/ DropData(r) PROVE OneRun'
  BY <1>6 DEF FinishCancelled, DropData, Step, TypeOK, flagVars
<1>7. ASSUME Launch, exists', UNCHANGED dispatcher PROVE OneRun'
  <2>1. CASE UNCHANGED <<running, threadId, os, runs>>
    BY <1>7, <2>1
  <2>2. CASE ~running /\ ~running' /\ threadId' = NoRun /\ UNCHANGED <<os, runs>>
    BY <1>7, <2>2
  <2>3. CASE /\ ~running /\ running' /\ runs < MaxRuns
             /\ runs' = runs + 1 /\ threadId' = runs + 1
             /\ os' = [os EXCEPT ![runs + 1] = "created"]
    BY <1>7, <2>3 DEF TypeOK, NoRun
  <2> QED BY <1>7, <2>1, <2>2, <2>3, LaunchCases
<1>8. ASSUME NEW c \in Controllers, Start(c) PROVE OneRun'
  <2>1. CASE isInFinish
    BY <1>8, <2>1 DEF Start, flagVars
  <2>2. CASE ~isInFinish
    BY <1>7, <1>8, <2>2 DEF Start, MayCall
  <2> QED BY <2>1, <2>2
<1>9. ASSUME NEW c \in Controllers, StartWoken(c) PROVE OneRun'
  BY <1>7, <1>9 DEF StartWoken, Users
<1>10. ASSUME NEW c \in Controllers, Destroy(c) \/ DestroyWoken(c) PROVE OneRun'
  BY <1>10 DEF Destroy, DestroyWoken, StillWaits, MustJoin, Gone, flagVars
<1>11. ASSUME Quiet PROVE OneRun'
  BY <1>11 DEF Quiet
<1> QED BY <1>1, <1>2, <1>3, <1>4, <1>5, <1>6, <1>8, <1>9, <1>10, <1>11, NextCases, QuietSteps

\* A step that takes a thread in or out of those that refer to the data counts it.
LEMMA CountStep == TypeOK /\ Numbered /\ Users /\ DataOutlivesUsers /\ [Next]_vars => DataOutlivesUsers'
<1> SUFFICES ASSUME TypeOK, Numbered, Users, DataOutlivesUsers, [Next]_vars PROVE DataOutlivesUsers'
  OBVIOUS
<1> DEFINE one(e) == IF e THEN 1 ELSE 0
<1>0. /\ ref = Cardinality(Referring) + one(exists)
      /\ DataOutlivesUsers' <=> ref' = Cardinality(Referring') + one(exists')
  BY DEF DataOutlivesUsers, Referring
<1>1. IsFiniteSet(Referring) /\ Cardinality(Referring) \in Nat
  <2>1. IsFiniteSet(Runs)
    BY FS_Interval, ThreadLifeAssumption DEF Runs
  <2>2. Referring \subseteq Runs
    BY DEF Referring
  <2> QED BY <2>1, <2>2, FS_Subset, FS_CardinalityType
<1>2. ASSUME Referring' = Referring, UNCHANGED <<ref, exists>> PROVE DataOutlivesUsers'
  BY <1>0, <1>2
<1>3. CASE UNCHANGED vars
  BY <1>2, <1>3 DEF vars, osVars, Referring
<1>4. ASSUME NEW r \in Runs, Begin(r) PROVE DataOutlivesUsers'
  <2>1. r \notin Referring /\ Referring' = Referring \cup {r}
    BY <1>4 DEF Begin, Step, Referring, TypeOK
  <2>2. Cardinality(Referring') = Cardinality(Referring) + 1
    BY <1>1, <2>1, FS_AddElement
  <2> QED BY <1>0, <1>1, <1>4, <2>2 DEF Begin
<1>5. ASSUME NEW r \in Runs,
             \/ EnterRun(r) \/ RunReturns(r) \/ RunCancelled(r) \/ FinishBegins(r)
             \/ TakeDispatcher(r) \/ FinishEnds(r) \/ FinishCancelled(r)
      PROVE DataOutlivesUsers'
  <2>1. Referring' = Referring
    BY <1>5 DEF EnterRun, RunReturns, RunCancelled, FinishBegins, TakeDispatcher, FinishEnds,
       FinishCancelled, Step, Referring, TypeOK
  <2> QED BY <1>2, <1>5, <2>1 DEF EnterRun, RunReturns, RunCancelled, FinishBegins,
             TakeDispatcher, FinishEnds, FinishCancelled
<1>6. ASSUME NEW r \in Runs, DropData(r) PROVE DataOutlivesUsers'
  <2>1. r \in Referring /\ Referring' = Referring \ {r}
    BY <1>6 DEF DropData, Step, Referring, TypeOK
  <2>2. Cardinality(Referring') = Cardinality(Referring) - 1
    BY <1>1, <2>1, FS_RemoveElement
  <2> QED BY <1>0, <1>1, <1>6, <2>2 DEF DropData
<1>7. ASSUME Launch PROVE Referring' = Referring
  BY <1>7, LaunchCases, ThreadLifeAssumption DEF Referring, Numbered, Runs, TypeOK
<1>8. ASSUME NEW c \in Controllers, Start(c) \/ StartWoken(c) PROVE DataOutlivesUsers'
  <2>1. Referring' = Referring
    BY <1>7, <1>8 DEF Start, StartWoken, Referring
  <2> QED BY <1>2, <1>8, <2>1 DEF Start, StartWoken
<1>9. ASSUME NEW c \in Controllers, Destroy(c) \/ DestroyWoken(c) PROVE DataOutlivesUsers'
  <2>1. Referring' = Referring
    BY <1>9 DEF Destroy, DestroyWoken, Referring
  <2>2. \/ UNCHANGED <<ref, exists>>
        \/ exists /\ exists' = FALSE /\ ref' = ref - 1
    BY <1>9 DEF Destroy, DestroyWoken, MayCall, Gone, Users
  <2> QED BY <1>0, <1>1, <2>1, <2>2
<1>10. ASSUME Quiet PROVE DataOutlivesUsers'
  BY <1>2, <1>10 DEF Quiet, Referring
<1> QED BY <1>3, <1>4, <1>5, <1>6, <1>8, <1>9, <1>10, NextCases, QuietSteps

LEMMA TypeStep == TypeOK /\ DataOutlivesUsers' /\ [Next]_vars => TypeOK'
<1> SUFFICES ASSUME TypeOK, DataOutlivesUsers', [Next]_vars PROVE TypeOK'
  OBVIOUS
<1>1. ref' \in 0..(MaxRuns + 1)
  <2>1. Referring' \subseteq Runs
    BY DEF Referring
  <2> QED BY <2>1, Counted DEF DataOutlivesUsers, Referring
<1> USE <1>1, ThreadLifeAssumption DEF TypeOK, OsPoints, CallPoints
<1>2. CASE UNCHANGED vars
  BY <1>2 DEF vars, flagVars, osVars, callVars, countVars
<1>3. ASSUME NEW r \in Runs, \/ Begin(r) \/ EnterRun(r) \/ RunReturns(r) \/ RunCancelled(r)
      PROVE TypeOK'
  BY <1>3 DEF Begin, EnterRun, RunReturns, RunCancelled, Step, flagVars, callVars, countVars
<1>4. ASSUME NEW r \in Runs, FinishBegins(r) \/ TakeDispatcher(r) \/ FinishEnds(r) PROVE TypeOK'
  BY <1>4 DEF FinishBegins, TakeDispatcher, FinishEnds, Step, callVars, countVars
<1>5. ASSUME NEW r \in Runs, FinishCancelled(r) \/ DropData(r) PROVE TypeOK'
  BY <1>5 DEF FinishCancelled, DropData, Step, flagVars, callVars, countVars
<1>6. ASSUME Launch
      PROVE  /\ running' \in BOOLEAN /\ finished' \in BOOLEAN /\ terminated' \in BOOLEAN
             /\ isInFinish' \in BOOLEAN /\ threadId' \in Runs \cup {NoRun}
             /\ os' \in [Runs -> OsPoints] /\ runs' \in 0..MaxRuns
  <2>1. CASE running
    BY <1>6, <2>1 DEF Launch, flagVars
  <2>2. CASE ~running
    <3>1. /\ finished' = FALSE /\ terminated' = FALSE /\ isInFinish' = isInFinish
          /\ \/ /\ runs < MaxRuns /\ running' = TRUE /\ threadId' = runs + 1
                /\ runs' = runs + 1 /\ os' = [os EXCEPT ![runs + 1] = "created"]
             \/ running' = FALSE /\ threadId' = NoRun /\ os' = os /\ runs' = runs
      BY <1>6, <2>2 DEF Launch, Step
    <3>2. runs < MaxRuns => runs + 1 \in Runs /\ runs + 1 \in 0..MaxRuns
      BY DEF Runs
    <3> QED BY <3>1, <3>2
  <2> QED BY <2>1, <2>2
<1>7. ASSUME NEW c \in Controllers, Start(c) PROVE TypeOK'
  <2>1. CASE isInFinish
    BY <1>7, <2>1 DEF Start, Goto, flagVars, countVars
  <2>2. CASE ~isInFinish
    BY <1>6, <1>7, <2>2 DEF Start, countVars
  <2> QED BY <2>1, <2>2
<1>8. ASSUME NEW c \in Controllers, StartWoken(c) PROVE TypeOK'
  BY <1>6, <1>8 DEF StartWoken, Goto, countVars
<1>9. ASSUME NEW c \in Controllers, Wait(c, "waiting") \/ Wait(c, "timedWaiting") PROVE TypeOK'
  <2>1. runs \in Runs \cup {NoRun}
    BY DEF Runs, NoRun
  <2>2. PICK point \in {"waiting", "timedWaiting"} : Wait(c, point)
    BY <1>9
  <2>3. cpc' \in [Controllers -> CallPoints]
    <3>1. point \in CallPoints
      BY DEF CallPoints
    <3> QED BY <2>2, <3>1 DEF Wait, Goto
  <2>4. notified' \subseteq Controllers /\ since' \in [Controllers -> Runs \cup {NoRun}]
    BY <2>1, <2>2 DEF Wait
  <2>5. UNCHANGED <<flagVars, osVars, held, countVars>>
    BY <2>2 DEF Wait
  <2> QED BY <2>3, <2>4, <2>5 DEF flagVars, osVars, countVars
<1>10. ASSUME NEW c \in Controllers, WaitWoken(c) \/ WaitTimeout(c) \/ WakeForNothing(c)
       PROVE TypeOK'
  BY <1>10 DEF WaitWoken, WaitTimeout, WakeForNothing, Goto, flagVars, osVars, countVars
<1>11. ASSUME NEW c \in Controllers, Terminate(c) PROVE TypeOK'
  BY <1>11 DEF Terminate, callVars
<1>12. ASSUME NEW c \in Controllers, Destroy(c) \/ DestroyWoken(c) PROVE TypeOK'
  BY <1>12 DEF Destroy, DestroyWoken, Gone, Goto, flagVars, countVars
<1>13. ASSUME NEW c \in Controllers, PostEvent(c) \/ TestDispatcher(c) \/ WakeUp(c) PROVE TypeOK'
  BY <1>13 DEF PostEvent, TestDispatcher, WakeUp, Goto, flagVars, osVars, countVars
<1> QED BY <1>2, <1>3, <1>4, <1>5, <1>7, <1>8, <1>9, <1>10, <1>11, <1>12, <1>13, NextCases

-----------------------------------------------------------------------------
LEMMA InvariantStep == IInv /\ [Next]_vars => IInv'
<1> SUFFICES ASSUME IInv, [Next]_vars PROVE IInv'
  OBVIOUS
<1>1. Numbered' /\ OneRun' /\ Users' /\ DataOutlivesUsers'
  BY NumberedStep, OneRunStep, UsersStep, CountStep DEF IInv
<1> QED BY <1>1, TypeStep DEF IInv

\* Every behaviour of the thread keeps the inductive invariant.
THEOREM Invariance == Spec => []IInv
<1> QED BY InitIInv, InvariantStep, PTL DEF Spec

\* However start, finish, terminate and wait overlap: QThreadData's reference count stays between
\* zero and one for the QThread and one for each run, and threadId and the dispatcher belong to a
\* run or to none.
THEOREM TypeCorrect == Spec => []TypeOK
<1>1. IInv => TypeOK
  BY DEF IInv
<1> QED BY <1>1, Invariance, PTL

\* However start, finish, terminate and the destructor overlap, a QThread has one OS thread.
THEOREM OneThreadOnly == Spec => []OneThread
<1>1. IInv => OneThread
  BY DEF IInv, OneRun, OneThread
<1> QED BY <1>1, Invariance, PTL

\* QThreadData is counted by the QThread and the OS threads that use it.
THEOREM DataIsCounted == Spec => []DataOutlivesUsers
<1>1. IInv => DataOutlivesUsers
  BY DEF IInv
<1> QED BY <1>1, Invariance, PTL

\* A wait that returns true finds no OS thread in run() or finish().
THEOREM WaitIsOver == Spec => WaitMeansFinished
<1> DEFINE Over ==
      \A c \in Controllers : WaitWoken(c) /\ cpc'[c] = "idle" => \A r \in Runs : ~Executing(r)
<1>1. IInv /\ [Next]_vars => [Over]_vars
  <2> SUFFICES ASSUME IInv, NEW c \in Controllers, WaitWoken(c), cpc'[c] = "idle"
               PROVE  \A r \in Runs : ~Executing(r)
    BY DEF Over
  <2>1. ~running
    BY DEF IInv, TypeOK, WaitWoken, Goto, StillWaits
  <2> QED BY <2>1 DEF IInv, OneRun
<1> QED BY <1>1, Invariance, PTL DEF Spec, WaitMeansFinished
=============================================================================
