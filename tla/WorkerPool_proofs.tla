--------------------------- MODULE WorkerPool_proofs ---------------------------
(***************************************************************************)
(* Proofs about WorkerPool for every number of tasks, every -l value and   *)
(* every outcome of pthread_create.                                        *)
(***************************************************************************)
EXTENDS WorkerPool, FiniteSetTheorems, TLAPS

AllReleased == \A t \in Tasks : tid[t] = "zero"
NotifiedTasks == {t \in Tasks : Notified(t)}

\* A thread that runs can be joined, and whoever can be joined keeps its
\* Task and everything the threads share in existence.
JoinableInv ==
  /\ \A t \in Tasks : Running(t) => tid[t] = "live"
  /\ \A t \in Tasks : tid[t] # "zero" => /\ obj[t] = "built"
                                         /\ alive = {"config", "files", "pool"}

\* Until main has waited, nothing was cleared and no Task from index i on
\* was touched; sem is zero until the last task is bound.
SetupInv ==
  /\ mpc = "begin" => alive = {"config", "files"}
  /\ mpc \in {"create", "bind", "start", "wait"} => alive = {"config", "files", "pool"}
  /\ mpc \in {"begin", "create", "bind", "start", "wait"} => clearing = "none"
  /\ mpc = "begin" => \A t \in Tasks : tid[t] = "zero" /\ wpc[t] = "none"
  /\ mpc = "create" => \A t \in Tasks : t >= i => tid[t] = "zero" /\ wpc[t] = "none"
  /\ mpc = "bind" => \A t \in Tasks : t > i => tid[t] = "zero" /\ wpc[t] = "none"
  /\ mpc \in {"begin", "create", "bind"} => \A t \in Tasks : sem[t] = 0

\* The release loop has joined the tasks below i, and what comes after it
\* has none left to join; main's own clear() still has all it needs.
TeardownInv ==
  /\ mpc = "release" => \A t \in Tasks : t < i => tid[t] = "zero"
  /\ mpc \in {"return", "exit", "delete", "unmap", "exited"} => AllReleased
  /\ clearing = "dtor" => AllReleased
  /\ mpc \in {"stop", "release"} /\ clearing = "main" => "files" \in alive
  /\ mpc = "return" => "files" \in alive
  /\ mpc \in {"return", "exit"} /\ "pool" \in alive => clearing # "none"

CountInv == poolSem = Cardinality(NotifiedTasks)

IInv == /\ TypeOK
        /\ JoinableInv
        /\ SetupInv
        /\ TeardownInv
        /\ NoPassDuringSetup
        /\ CountInv
        /\ JobComplete
-------------------------------------------------------------------------------

LEMMA TasksFinite == IsFiniteSet(Tasks) /\ Cardinality(Tasks) = N
BY NAssumption, FS_Interval DEF Tasks

(* Init establishes the typing of every variable.                          *)
LEMMA TypeOKInit == Init => TypeOK
BY NAssumption, SecLivesAssumption
   DEF Init, TypeOK, MainPC, WorkerPC, Tasks

(* Every step of main and of a thread preserves the typing.                *)
LEMMA TypeOKStep == TypeOK /\ [Next]_vars => TypeOK'
<1> SUFFICES ASSUME TypeOK, [Next]_vars PROVE TypeOK'
  OBVIOUS
<1> USE NAssumption DEF TypeOK, MainPC, WorkerPC, Tasks
<1>1. CASE Collect
  <2>1. mpc' \in {"return", "create"} /\ i' = 1 /\ alive' \subseteq {"config", "files", "pool"}
    BY <1>1 DEF Collect, Goto
  <2> QED BY <1>1, <2>1 DEF Collect, taskVars
<1>2. CASE CreateTask
  BY <1>2, CreateAssumption DEF CreateTask, Loop, TaskCtor, TaskInit
<1>3. CASE BindTask
  BY <1>3 DEF BindTask, taskVars
<1>4. CASE StartTask
  BY <1>4 DEF StartTask, Loop, TaskStart, Again
<1>5. CASE Tick
  BY <1>5 DEF Tick, taskVars
<1>6. CASE WaitJobDone
  BY <1>6 DEF WaitJobDone, Goto, taskVars
<1>7. CASE ClearStop
  BY <1>7 DEF ClearStop, Loop, TaskStop, Again
<1>8. CASE ClearRelease
  BY <1>8 DEF ClearRelease, Loop, TaskRelease, Again
<1>9. CASE Return
  BY <1>9 DEF Return, Goto, taskVars
<1>10. CASE PoolDtor
  BY <1>10 DEF PoolDtor, Goto, taskVars
<1>11. CASE DeleteTask
  BY <1>11 DEF DeleteTask, Loop, TaskDtor, TaskRelease, Again
<1>12. CASE ConfigDtor
  BY <1>12 DEF ConfigDtor, Goto, taskVars
<1>13. CASE LoopEnd
  BY <1>13 DEF LoopEnd, Goto, After, taskVars
<1>14. ASSUME NEW t \in Tasks, Worker(t) PROVE TypeOK'
  <2>1. CASE SemWait(t)
    BY <2>1 DEF SemWait, mainVars
  <2>2. CASE LeaveLoop(t)
    BY <2>2 DEF LeaveLoop, mainVars, taskVars
  <2>3. CASE Notify(t)
    BY <2>3 DEF Notify, mainVars, taskVars
  <2>4. CASE ThreadEnd(t)
    BY <2>4 DEF ThreadEnd, mainVars, taskVars
  <2> QED BY <1>14, <2>1, <2>2, <2>3, <2>4 DEF Worker
<1>15. CASE UNCHANGED vars
  BY <1>15 DEF vars, mainVars, taskVars
<1>16. QED
  BY <1>1, <1>2, <1>3, <1>4, <1>5, <1>6, <1>7, <1>8, <1>9, <1>10, <1>11,
     <1>12, <1>13, <1>14, <1>15 DEF Next, Main, Waiting, Over

(* The typing of the pool's state holds in every reachable state.          *)
THEOREM TypeCorrect == Spec => []TypeOK
BY TypeOKInit, TypeOKStep, PTL DEF Spec
-------------------------------------------------------------------------------

LEMMA IInvInit == Init => IInv
<1> SUFFICES ASSUME Init PROVE IInv
  OBVIOUS
<1>1. TypeOK
  BY TypeOKInit
<1>2. CountInv
  <2>1. NotifiedTasks = {}
    BY DEF Init, NotifiedTasks, Notified
  <2> QED
    BY <2>1, FS_EmptySet DEF CountInv, Init
<1>3. JoinableInv /\ SetupInv /\ TeardownInv
  BY DEF Init, JoinableInv, Running, SetupInv, TeardownInv, AllReleased
<1>4. NoPassDuringSetup /\ JobComplete
  BY DEF Init, NoPassDuringSetup, JobComplete
<1> QED
  BY <1>1, <1>2, <1>3, <1>4 DEF IInv

(* A step that posts no notification keeps the count.                      *)
LEMMA CountKept ==
  ASSUME CountInv, poolSem' = poolSem,
         \A t \in Tasks : Notified(t)' <=> Notified(t)
  PROVE  CountInv'
<1>1. NotifiedTasks' = NotifiedTasks
  BY DEF NotifiedTasks, Notified
<1> QED
  BY <1>1 DEF CountInv

(* When the pool's semaphore has counted N notifications, every task gave one. *)
LEMMA AllCounted ==
  ASSUME CountInv, IsStop
  PROVE  \A t \in Tasks : Notified(t)
<1>1. NotifiedTasks \subseteq Tasks
  BY DEF NotifiedTasks
<1>2. NotifiedTasks = Tasks
  BY <1>1, TasksFinite, FS_Subset DEF CountInv, IsStop
<1> QED
  BY <1>2 DEF NotifiedTasks

(* Notify adds one to the count and its task to those that have notified.  *)
LEMMA CountNotify ==
  ASSUME TypeOK, CountInv, NEW t \in Tasks, Notify(t)
  PROVE  CountInv'
<1>1. t \notin NotifiedTasks
  BY DEF NotifiedTasks, Notified, Notify
<1>2. NotifiedTasks' = NotifiedTasks \cup {t}
  BY DEF NotifiedTasks, Notified, Notify, TypeOK, mainVars, taskVars
<1>3. IsFiniteSet(NotifiedTasks)
  BY TasksFinite, FS_Subset DEF NotifiedTasks
<1>4. Cardinality(NotifiedTasks') = Cardinality(NotifiedTasks) + 1
  BY <1>1, <1>2, <1>3, FS_AddElement
<1> QED
  BY <1>4 DEF CountInv, Notify

LEMMA IInvStep == IInv /\ [Next]_vars => IInv'
<1> SUFFICES ASSUME IInv, [Next]_vars PROVE IInv'
  OBVIOUS
<1>0. TypeOK /\ TypeOK'
  BY TypeOKStep DEF IInv
<1> USE NAssumption, <1>0
<1> DEFINE Rest == JoinableInv /\ SetupInv /\ TeardownInv /\ NoPassDuringSetup /\ JobComplete
<1>1. CASE Collect
  <2>1. CountInv'
    BY <1>1, CountKept DEF Collect, IInv, Notified
  <2>2. Rest'
    BY <1>1 DEF Collect, Goto, IInv, TypeOK, JoinableInv, Running, SetupInv, TeardownInv, NoPassDuringSetup, JobComplete, AllReleased, Notified, taskVars
  <2> QED BY <2>1, <2>2 DEF IInv
<1>2. CASE CreateTask
  <2> USE <1>2 DEF CreateTask, Loop, TaskCtor, TaskInit, IInv, TypeOK
  <2>1. CountInv'
    BY CountKept DEF SetupInv, Notified
  <2>2. JoinableInv'
    BY DEF JoinableInv, SetupInv, Running
  <2>3. SetupInv'
    BY DEF SetupInv, Tasks
  <2>4. TeardownInv'
    BY DEF TeardownInv, SetupInv
  <2>5. NoPassDuringSetup'
    BY DEF NoPassDuringSetup
  <2>6. JobComplete'
    BY DEF JobComplete, SetupInv
  <2> QED BY <2>1, <2>2, <2>3, <2>4, <2>5, <2>6
<1>3. CASE BindTask
  <2> USE <1>3 DEF BindTask, IInv, TypeOK, taskVars
  <2>1. CountInv'
    BY CountKept DEF Notified
  <2>2. Rest'
    BY DEF Tasks, JoinableInv, Running, SetupInv, TeardownInv, NoPassDuringSetup, JobComplete, Notified
  <2> QED BY <2>1, <2>2
<1>4. CASE StartTask
  <2> USE <1>4 DEF StartTask, Loop, TaskStart, Again, IInv, TypeOK
  <2>1. CountInv'
    BY CountKept DEF Notified
  <2>2. Rest'
    BY DEF JoinableInv, Running, SetupInv, TeardownInv, NoPassDuringSetup, JobComplete, Notified
  <2> QED BY <2>1, <2>2
<1>5. CASE Tick
  <2> USE <1>5 DEF Tick, IInv, TypeOK, taskVars
  <2>1. CountInv'
    BY CountKept DEF Notified
  <2>2. Rest'
    BY DEF JoinableInv, Running, SetupInv, TeardownInv, NoPassDuringSetup, JobComplete, Notified
  <2> QED BY <2>1, <2>2
<1>6. CASE WaitJobDone
  <2> USE <1>6 DEF WaitJobDone, Goto, IInv, TypeOK, taskVars
  <2>1. CountInv'
    BY CountKept DEF Notified
  <2>2. JoinableInv' /\ SetupInv' /\ TeardownInv' /\ NoPassDuringSetup'
    BY DEF JoinableInv, Running, SetupInv, TeardownInv, NoPassDuringSetup
  <2>3. JobComplete'
    BY AllCounted DEF JobComplete, WaitOver, Notified
  <2> QED BY <2>1, <2>2, <2>3
<1>7. CASE ClearStop
  <2> USE <1>7 DEF ClearStop, Loop, TaskStop, Again, IInv, TypeOK
  <2>1. CountInv'
    BY CountKept DEF Notified
  <2>2. JoinableInv'
    BY DEF JoinableInv, Running
  <2>3. SetupInv' /\ NoPassDuringSetup' /\ JobComplete'
    BY DEF SetupInv, NoPassDuringSetup, JobComplete, Notified
  <2>4. TeardownInv'
    BY DEF TeardownInv, AllReleased
  <2> QED BY <2>1, <2>2, <2>3, <2>4
<1>8. CASE ClearRelease
  <2> USE <1>8 DEF ClearRelease, Loop, TaskRelease, Again, IInv, TypeOK
  <2>1. CountInv'
    BY CountKept DEF Notified
  <2>2. JoinableInv'
    BY DEF JoinableInv, Running
  <2>3. SetupInv' /\ NoPassDuringSetup' /\ JobComplete'
    BY DEF SetupInv, NoPassDuringSetup, JobComplete, Notified
  <2>4. TeardownInv'
    BY DEF TeardownInv, AllReleased, Tasks
  <2> QED BY <2>1, <2>2, <2>3, <2>4
<1>9. CASE Return
  <2> USE <1>9 DEF Return, Goto, IInv, TypeOK, taskVars
  <2>1. CountInv'
    BY CountKept DEF Notified
  <2>2. Rest'
    BY DEF JoinableInv, Running, SetupInv, TeardownInv, AllReleased, NoPassDuringSetup, JobComplete, Notified
  <2> QED BY <2>1, <2>2
<1>10. CASE PoolDtor
  <2> USE <1>10 DEF PoolDtor, Goto, IInv, TypeOK, taskVars
  <2>1. CountInv'
    BY CountKept DEF Notified
  <2>2. Rest'
    BY DEF JoinableInv, Running, SetupInv, TeardownInv, AllReleased, NoPassDuringSetup, JobComplete, Notified
  <2> QED BY <2>1, <2>2
<1>11. CASE DeleteTask
  <2> USE <1>11 DEF DeleteTask, Loop, TaskDtor, TaskRelease, Again, IInv, TypeOK
  <2>1. CountInv'
    BY CountKept DEF Notified
  <2>2. JoinableInv'
    BY DEF JoinableInv, Running, TeardownInv, AllReleased
  <2>3. SetupInv' /\ NoPassDuringSetup' /\ JobComplete'
    BY DEF SetupInv, NoPassDuringSetup, JobComplete, Notified
  <2>4. TeardownInv'
    BY DEF TeardownInv, AllReleased
  <2> QED BY <2>1, <2>2, <2>3, <2>4
<1>12. CASE ConfigDtor
  <2> USE <1>12 DEF ConfigDtor, Goto, IInv, TypeOK, taskVars
  <2>1. CountInv'
    BY CountKept DEF Notified
  <2>2. Rest'
    BY DEF JoinableInv, Running, SetupInv, TeardownInv, AllReleased, NoPassDuringSetup, JobComplete, Notified
  <2> QED BY <2>1, <2>2
<1>13. CASE LoopEnd
  <2> USE <1>13 DEF LoopEnd, Goto, IInv, TypeOK, taskVars
  <2>1. CountInv'
    BY CountKept DEF Notified
  <2>2. SetupInv'
    BY DEF After, SetupInv
  <2>3. JoinableInv' /\ NoPassDuringSetup' /\ JobComplete'
    BY DEF After, JoinableInv, Running, TeardownInv, AllReleased, NoPassDuringSetup, JobComplete, Notified
  <2>4. TeardownInv'
    BY DEF After, TeardownInv, SetupInv, AllReleased, Tasks
  <2> QED BY <2>1, <2>2, <2>3, <2>4
<1>14. ASSUME NEW t \in Tasks, Worker(t) PROVE IInv'
  <2> USE DEF IInv, TypeOK
  <2>1. CASE SemWait(t)
    <3> USE <2>1 DEF SemWait, mainVars
    <3>1. CountInv'
      BY CountKept DEF Notified
    <3>2. Rest'
      BY DEF JoinableInv, Running, SetupInv, TeardownInv, AllReleased, NoPassDuringSetup, JobComplete, Notified
    <3> QED BY <3>1, <3>2
  <2>2. CASE LeaveLoop(t)
    <3> USE <2>2 DEF LeaveLoop, mainVars, taskVars
    <3>1. CountInv'
      BY CountKept DEF Notified
    <3>2. Rest'
      BY DEF JoinableInv, Running, SetupInv, TeardownInv, AllReleased, NoPassDuringSetup, JobComplete, Notified
    <3> QED BY <3>1, <3>2
  <2>3. CASE Notify(t)
    <3>1. CountInv'
      BY <2>3, CountNotify
    <3>2. Rest'
      BY <2>3 DEF Notify, mainVars, taskVars, JoinableInv, Running, SetupInv, TeardownInv, AllReleased, NoPassDuringSetup, JobComplete, Notified
    <3> QED BY <3>1, <3>2
  <2>4. CASE ThreadEnd(t)
    <3> USE <2>4 DEF ThreadEnd, mainVars, taskVars
    <3>1. CountInv'
      BY CountKept DEF Notified
    <3>2. Rest'
      BY DEF JoinableInv, Running, SetupInv, TeardownInv, AllReleased, NoPassDuringSetup, JobComplete, Notified
    <3> QED BY <3>1, <3>2
  <2> QED BY <1>14, <2>1, <2>2, <2>3, <2>4 DEF Worker
<1>15. CASE UNCHANGED vars
  <2> USE <1>15 DEF vars, mainVars, taskVars, IInv
  <2>1. CountInv'
    BY CountKept DEF Notified
  <2>2. Rest'
    BY DEF JoinableInv, Running, SetupInv, TeardownInv, AllReleased, NoPassDuringSetup, JobComplete, Notified
  <2> QED BY <2>1, <2>2
<1>16. QED
  BY <1>1, <1>2, <1>3, <1>4, <1>5, <1>6, <1>7, <1>8, <1>9, <1>10, <1>11,
     <1>12, <1>13, <1>14, <1>15 DEF Next, Main, Waiting, Over

LEMMA IInvAlways == Spec => []IInv
BY IInvInit, IInvStep, PTL DEF Spec
-------------------------------------------------------------------------------

(* Whatever pthread_create does and however many tasks there are, a thread *)
(* that has not ended finds its Task, Config, the file list and the pool.  *)
THEOREM SafeSharing == Spec => []NoUseAfterDestroy
<1>1. IInv => NoUseAfterDestroy
  BY DEF IInv, JoinableInv, NoUseAfterDestroy
<1> QED
  BY <1>1, IInvAlways, PTL

(* In one-loop mode main never clears before every task has notified.      *)
THEOREM OneLoopComplete == Spec => []JobComplete
<1>1. IInv => JobComplete
  BY DEF IInv
<1> QED
  BY <1>1, IInvAlways, PTL

(* No thread passes its start semaphore while main still sets tasks up.    *)
THEOREM StartBarrier == Spec => []NoPassDuringSetup
<1>1. IInv => NoPassDuringSetup
  BY DEF IInv
<1> QED
  BY <1>1, IInvAlways, PTL
-------------------------------------------------------------------------------
(***************************************************************************)
(* The pool implements ForkJoin.                                           *)
(***************************************************************************)
RunningTasks == {t \in Tasks : Running(t)}
EndedTasks == {t \in Tasks : wpc[t] = "ended"}

(* A step that starts or ends no thread and keeps the file list stutters.  *)
LEMMA StutterStep ==
  ASSUME \A t \in Tasks : /\ Running(t)' <=> Running(t)
                          /\ wpc'[t] = "ended" <=> wpc[t] = "ended",
         "files" \in alive' <=> "files" \in alive
  PROVE  UNCHANGED FJ!vars
<1>1. RunningTasks' = RunningTasks /\ EndedTasks' = EndedTasks
  BY DEF RunningTasks, EndedTasks, Running
<1>2. ("files" \notin alive)' = ("files" \notin alive)
  OBVIOUS
<1> QED
  BY <1>1, <1>2 DEF FJ!vars, RunningTasks, EndedTasks

LEMMA RefinementInit == Init => FJ!Init
BY DEF Init, FJ!Init, Running

LEMMA RefinementStep == IInv /\ [Next]_vars => [FJ!Next]_(FJ!vars)
<1> SUFFICES ASSUME IInv, [Next]_vars PROVE [FJ!Next]_(FJ!vars)
  OBVIOUS
<1> USE DEF IInv, TypeOK, taskVars, mainVars
<1>1. CASE Collect
  BY <1>1, StutterStep DEF Collect, SetupInv, Running
<1>2. CASE CreateTask
  <2>1. PICK outcome \in CreateOutcomes :
           /\ tid' = [tid EXCEPT ![i] = outcome]
           /\ wpc' = [wpc EXCEPT ![i] = IF outcome = "live" THEN "blocked" ELSE @]
    BY <1>2 DEF CreateTask, TaskInit
  <2>2. i \in Tasks /\ wpc[i] = "none" /\ "files" \in alive /\ alive' = alive
    BY <1>2, NAssumption DEF CreateTask, Loop, SetupInv, Tasks
  <2>3. CASE outcome = "live"
    <3>1. /\ i \notin RunningTasks \cup EndedTasks
          /\ RunningTasks' = RunningTasks \cup {i}
          /\ EndedTasks' = EndedTasks
      BY <2>1, <2>2, <2>3 DEF RunningTasks, EndedTasks, Running
    <3>2. FJ!Fork(i)
      BY <2>2, <3>1 DEF FJ!Fork, RunningTasks, EndedTasks
    <3> QED BY <2>2, <3>2 DEF FJ!Next
  <2>4. CASE outcome # "live"
    BY <2>1, <2>2, <2>4, StutterStep DEF Running
  <2> QED BY <2>3, <2>4
<1>3. CASE BindTask
  BY <1>3, StutterStep DEF BindTask, Running
<1>4. CASE StartTask
  BY <1>4, StutterStep DEF StartTask, Running
<1>5. CASE Tick
  BY <1>5, StutterStep DEF Tick, Running
<1>6. CASE WaitJobDone
  BY <1>6, StutterStep DEF WaitJobDone, Running
<1>7. CASE ClearStop
  BY <1>7, StutterStep DEF ClearStop, Running
<1>8. CASE ClearRelease
  BY <1>8, StutterStep DEF ClearRelease, Running
<1>9. CASE Return
  <2>1. "files" \in alive /\ "files" \notin alive' /\ wpc' = wpc
    BY <1>9 DEF Return, TeardownInv
  <2>2. RunningTasks = {} /\ RunningTasks' = RunningTasks /\ EndedTasks' = EndedTasks
    BY <1>9, <2>1 DEF Return, TeardownInv, AllReleased, JoinableInv,
                      RunningTasks, EndedTasks, Running
  <2>3. FJ!Release
    BY <2>1, <2>2 DEF FJ!Release, RunningTasks, EndedTasks
  <2> QED BY <2>3 DEF FJ!Next
<1>10. CASE PoolDtor
  BY <1>10, StutterStep DEF PoolDtor, Running
<1>11. CASE DeleteTask
  BY <1>11, StutterStep DEF DeleteTask, Running
<1>12. CASE ConfigDtor
  BY <1>12, StutterStep DEF ConfigDtor, Running
<1>13. CASE LoopEnd
  BY <1>13, StutterStep DEF LoopEnd, Running
<1>14. ASSUME NEW t \in Tasks, Worker(t) PROVE [FJ!Next]_(FJ!vars)
  <2>1. CASE SemWait(t)
    BY <2>1, StutterStep DEF SemWait, Running
  <2>2. CASE LeaveLoop(t)
    BY <2>2, StutterStep DEF LeaveLoop, Running
  <2>3. CASE Notify(t)
    BY <2>3, StutterStep DEF Notify, Running
  <2>4. CASE ThreadEnd(t)
    <3>1. /\ t \in RunningTasks
          /\ RunningTasks' = RunningTasks \ {t}
          /\ EndedTasks' = EndedTasks \cup {t}
      BY <2>4 DEF ThreadEnd, RunningTasks, EndedTasks, Running
    <3>2. FJ!Finish(t)
      BY <2>4, <3>1 DEF ThreadEnd, FJ!Finish, RunningTasks, EndedTasks
    <3> QED BY <3>2 DEF FJ!Next
  <2> QED BY <1>14, <2>1, <2>2, <2>3, <2>4 DEF Worker
<1>15. CASE UNCHANGED vars
  BY <1>15, StutterStep DEF vars, Running
<1>16. QED
  BY <1>1, <1>2, <1>3, <1>4, <1>5, <1>6, <1>7, <1>8, <1>9, <1>10, <1>11,
     <1>12, <1>13, <1>14, <1>15 DEF Next, Main, Waiting, Over

(* The pool is a fork-join region for every number of tasks: the shared    *)
(* resources are released once, when every forked thread has finished.     *)
THEOREM ImplementsForkJoin == Spec => ForkJoinSpec
BY RefinementInit, RefinementStep, IInvAlways, PTL DEF Spec, ForkJoinSpec, FJ!Spec
===============================================================================
