------------------------------ MODULE WorkerPool ------------------------------
(***************************************************************************)
(* The life of ff_test: main() creates one Task, with its own thread, per  *)
(* entry of Config::m_vecCore, starts them, waits as the -l option says,   *)
(* clears the pool and returns; static destructors then clear it again and *)
(* delete the tasks.  One action per step of main() and of Task::svc that  *)
(* another thread can observe.                                             *)
(*                                                                         *)
(* A loop of main() over the task list is a program counter value and the  *)
(* index i; the element actions are Loop(...) and every loop ends with     *)
(* LoopEnd.                                                                *)
(***************************************************************************)
EXTENDS Integers, FiniteSets

CONSTANTS N,              \* number of entries of Config::m_vecCore
          SecLives,       \* values of the -l option, Config::m_seclive
          CreateOutcomes  \* what pthread_create may leave behind

(* "live": a thread runs.  pthread_create reports failure with a positive  *)
(* number, and Task::init only tests for a negative one, so a failed call  *)
(* leaves m_tid as the constructor set it ("zero") or as the handle of a   *)
(* thread that never ran ("stale").                                        *)
ASSUME NAssumption == N \in Nat
ASSUME SecLivesAssumption == SecLives \subseteq Int
ASSUME CreateAssumption == CreateOutcomes \subseteq {"live", "zero", "stale"}

Tasks == 1..N

VARIABLES mpc,       \* where main(), or exit() after it, is
          i,         \* the element the current loop of main() is at
          clearing,  \* who called TaskPool::clear: "none" yet, "main", "dtor"
          seclive,   \* Config::m_seclive
          secs,      \* main's countdown, wait_job_done's local seclive
          alive,     \* which of Config, input_file_list and TaskPool exist
          obj,       \* the Task objects: "none", "built" or "deleted"
          tid,       \* Task::m_tid
          bExit,     \* Task::m_bExit
          sem,       \* Task::m_sem
          poolSem,   \* TaskPool::m_sem
          wpc        \* where each task's thread is in Task::svc

mainVars == <<mpc, i, clearing, secs, alive, obj>>
taskVars == <<tid, bExit, sem>>
vars == <<mainVars, seclive, taskVars, poolSem, wpc>>

MainPC == {"begin", "create", "bind", "start", "wait", "stop", "release",
           "return", "exit", "delete", "unmap", "exited", "crashed"}
WorkerPC == {"none", "blocked", "loop", "notify", "returning", "ended"}

TypeOK == /\ mpc \in MainPC
          /\ i \in 1..(N + 1)
          /\ mpc = "bind" => i \in Tasks
          /\ clearing \in {"none", "main", "dtor"}
          /\ seclive \in Int
          /\ secs \in Int
          /\ alive \subseteq {"config", "files", "pool"}
          /\ obj \in [Tasks -> {"none", "built", "deleted"}]
          /\ tid \in [Tasks -> {"live", "zero", "stale"}]
          /\ bExit \in [Tasks -> BOOLEAN]
          /\ sem \in [Tasks -> Nat]
          /\ poolSem \in Nat
          /\ wpc \in [Tasks -> WorkerPC]

(***************************************************************************)
(* Task.                                                                   *)
(***************************************************************************)

\* Mutant: the start semaphore is created at one.
TaskCtorSemOne(t) == /\ obj' = [obj EXCEPT ![t] = "built"]
                     /\ bExit' = [bExit EXCEPT ![t] = FALSE]
                     /\ sem' = [sem EXCEPT ![t] = 1]

\* The constructor: no thread yet, not told to exit, semaphore at zero.
TaskCtor(t) == /\ obj' = [obj EXCEPT ![t] = "built"]
               /\ bExit' = [bExit EXCEPT ![t] = FALSE]
               /\ sem' = [sem EXCEPT ![t] = 0]

\* Task::init up to pthread_create; what follows it is BindTask.
TaskInit(t) == \E outcome \in CreateOutcomes :
                 /\ tid' = [tid EXCEPT ![t] = outcome]
                 /\ wpc' = [wpc EXCEPT ![t] =
                              IF outcome = "live" THEN "blocked" ELSE @]

TaskStart(t) == sem' = [sem EXCEPT ![t] = IF tid[t] # "zero" THEN @ + 1 ELSE @]

TaskStop(t) == bExit' = [bExit EXCEPT ![t] = TRUE]

\* Mutant: the thread is not joined.
TaskReleaseNoJoin(t) == /\ bExit' = [bExit EXCEPT ![t] = TRUE]
                        /\ tid' = [tid EXCEPT ![t] = "zero"]

\* pthread_join returns when the thread has ended; on a handle that never
\* named a thread it fails at once.
TaskRelease(t) == /\ tid[t] = "live" => wpc[t] = "ended"
                  /\ bExit' = [bExit EXCEPT ![t] = TRUE]
                  /\ tid' = [tid EXCEPT ![t] = "zero"]

\* The destructor releases once more before it destroys the semaphore.
TaskDtor(t) == /\ TaskRelease(t)
               /\ obj' = [obj EXCEPT ![t] = "deleted"]

(***************************************************************************)
(* TaskPool and main().                                                    *)
(***************************************************************************)

Goto(next) == mpc' = next /\ i' = 1

\* Mutant: the loop runs once too often.
LoopOnePastEnd(here) == mpc = here /\ i <= N + 1

\* One iteration of a loop over the tasks, and the same loop's next test.
Loop(here) == mpc = here /\ i <= N
Again == i' = i + 1 /\ UNCHANGED mpc

\* Where main goes when the loop it is in has run out of tasks.  Only main's
\* own clear() returns to main; the pool destructor's goes on to the deletes.
After(here) == CASE here = "create" -> "start"
                 [] here = "start" -> "wait"
                 [] here = "stop" -> "release"
                 [] here = "release" /\ clearing = "main" -> "return"
                 [] here = "release" /\ clearing # "main" -> "delete"
                 [] here = "delete" -> "unmap"

LoopEnd == /\ mpc \in {"create", "start", "stop", "release", "delete"}
           /\ i = N + 1
           /\ Goto(After(mpc))
           /\ alive' = IF mpc = "delete" THEN alive \ {"pool"} ELSE alive
           /\ UNCHANGED <<clearing, secs, obj, seclive, taskVars, poolSem, wpc>>

\* Options are parsed and the input files collected; without input, main
\* returns before the pool is constructed.
Collect == /\ mpc = "begin"
           /\ \/ Goto("return") /\ UNCHANGED alive
              \/ Goto("create") /\ alive' = alive \cup {"pool"}
           /\ UNCHANGED <<clearing, secs, obj, seclive, taskVars, poolSem, wpc>>

\* TaskPool::init, one task.  set_affinity only records the core here, since
\* the new task has no thread.
CreateTask == /\ Loop("create")
              /\ TaskCtor(i)
              /\ TaskInit(i)
              /\ mpc' = "bind"
              /\ UNCHANGED <<i, clearing, secs, alive, seclive, poolSem>>

\* util_cpu_bind on what pthread_create left, then push_back.  Binding a
\* handle that names no thread fails or kills the process.
BindTask == /\ mpc = "bind"
            /\ \/ mpc' = "create" /\ i' = i + 1
               \/ tid[i] # "live" /\ mpc' = "crashed" /\ UNCHANGED i
            /\ UNCHANGED <<clearing, secs, alive, obj, seclive, taskVars,
                           poolSem, wpc>>

StartTask == /\ Loop("start")
             /\ TaskStart(i)
             /\ Again
             /\ UNCHANGED <<clearing, secs, alive, obj, seclive, tid, bExit,
                            poolSem, wpc>>

\* Mutant: one notification too few is enough.
IsStopOneShort == poolSem + 1 >= N

IsStop == poolSem = N

\* wait_job_done: forever, until every task has notified, or secs seconds.
\* A second that passes without a decision is a step that changes nothing.
WaitOver == \/ seclive = 0 /\ IsStop
            \/ seclive > 0 /\ secs = 0

Tick == /\ mpc = "wait"
        /\ seclive > 0 /\ secs > 0
        /\ secs' = secs - 1
        /\ UNCHANGED <<mpc, i, clearing, alive, obj, seclive, taskVars,
                       poolSem, wpc>>

\* Mutant: main returns without clearing the pool.
WaitJobDoneNoClear == /\ mpc = "wait"
                      /\ WaitOver
                      /\ Goto("return")
                      /\ clearing' = "main"
                      /\ UNCHANGED <<secs, alive, obj, seclive, taskVars,
                                     poolSem, wpc>>

WaitJobDone == /\ mpc = "wait"
               /\ WaitOver
               /\ Goto("stop")
               /\ clearing' = "main"
               /\ UNCHANGED <<secs, alive, obj, seclive, taskVars, poolSem, wpc>>

\* TaskPool::clear, first loop: tell every task to exit.
ClearStop == /\ Loop("stop")
             /\ TaskStop(i)
             /\ Again
             /\ UNCHANGED <<clearing, secs, alive, obj, seclive, tid, sem,
                            poolSem, wpc>>

\* TaskPool::clear, second loop: join every task's thread.
ClearRelease == /\ Loop("release")
                /\ TaskRelease(i)
                /\ \/ Again
                   \/ tid[i] = "stale" /\ mpc' = "crashed" /\ UNCHANGED i
                /\ UNCHANGED <<clearing, secs, alive, obj, seclive, sem,
                               poolSem, wpc>>

\* main returns and its input_file_list goes with its frame.
Return == /\ mpc = "return"
          /\ Goto("exit")
          /\ alive' = alive \ {"files"}
          /\ UNCHANGED <<clearing, secs, obj, seclive, taskVars, poolSem, wpc>>

\* exit() runs static destructors in reverse order of construction: the
\* pool's, if it was constructed, starts with clear().
PoolDtor == /\ mpc = "exit"
            /\ IF "pool" \in alive
               THEN Goto("stop") /\ clearing' = "dtor"
               ELSE Goto("unmap") /\ UNCHANGED clearing
            /\ UNCHANGED <<secs, alive, obj, seclive, taskVars, poolSem, wpc>>

DeleteTask == /\ Loop("delete")
              /\ TaskDtor(i)
              /\ Again
              /\ UNCHANGED <<clearing, secs, alive, seclive, sem, poolSem, wpc>>

\* Config's destructor is the last.
ConfigDtor == /\ mpc = "unmap"
              /\ Goto("exited")
              /\ alive' = alive \ {"config"}
              /\ UNCHANGED <<clearing, secs, obj, seclive, taskVars, poolSem, wpc>>

Main == \/ Collect \/ CreateTask \/ BindTask \/ StartTask
        \/ Tick \/ WaitJobDone \/ ClearStop \/ ClearRelease
        \/ Return \/ PoolDtor \/ DeleteTask \/ ConfigDtor \/ LoopEnd

(***************************************************************************)
(* Task::svc, the thread of task t.                                        *)
(***************************************************************************)

SemWait(t) == /\ wpc[t] = "blocked"
              /\ sem[t] > 0
              /\ sem' = [sem EXCEPT ![t] = @ - 1]
              /\ wpc' = [wpc EXCEPT ![t] = "loop"]
              /\ UNCHANGED <<mainVars, seclive, tid, bExit, poolSem>>

\* Mutant: the loop does not look at m_bExit.
LeaveLoopIgnoringExit(t) == /\ wpc[t] = "loop"
                            /\ seclive = 0
                            /\ wpc' = [wpc EXCEPT ![t] = "notify"]
                            /\ UNCHANGED <<mainVars, seclive, taskVars, poolSem>>

\* The loop ends when the task was told to exit or, with -l 0, after one
\* pass; otherwise it spins, which changes nothing.
LeaveLoop(t) == /\ wpc[t] = "loop"
                /\ bExit[t] \/ seclive = 0
                /\ wpc' = [wpc EXCEPT ![t] = "notify"]
                /\ UNCHANGED <<mainVars, seclive, taskVars, poolSem>>

Notify(t) == /\ wpc[t] = "notify"
             /\ poolSem' = poolSem + 1
             /\ wpc' = [wpc EXCEPT ![t] = "returning"]
             /\ UNCHANGED <<mainVars, seclive, taskVars>>

ThreadEnd(t) == /\ wpc[t] = "returning"
                /\ wpc' = [wpc EXCEPT ![t] = "ended"]
                /\ UNCHANGED <<mainVars, seclive, taskVars, poolSem>>

Worker(t) == SemWait(t) \/ LeaveLoop(t) \/ Notify(t) \/ ThreadEnd(t)

(***************************************************************************)
(* The process.                                                            *)
(***************************************************************************)

Init == /\ mpc = "begin" /\ i = 1 /\ clearing = "none"
        /\ seclive \in SecLives /\ secs = seclive
        /\ alive = {"config", "files"}
        /\ obj = [t \in Tasks |-> "none"]
        /\ tid = [t \in Tasks |-> "zero"]
        /\ bExit = [t \in Tasks |-> FALSE]
        /\ sem = [t \in Tasks |-> 0]
        /\ poolSem = 0
        /\ wpc = [t \in Tasks |-> "none"]

\* The process is over, or main waits and every thread that exists has
\* nothing left to do but to wait, spin or sleep with it.
Waiting == /\ mpc = "wait" /\ ~WaitOver
           /\ UNCHANGED vars

Over == mpc \in {"exited", "crashed"} /\ UNCHANGED vars

Next == Main \/ (\E t \in Tasks : mpc # "crashed" /\ Worker(t)) \/ Waiting \/ Over

(* Main and each thread keep running: the scheduler starves none of them,  *)
(* and the build (-O0) reads m_bExit anew in every pass of the loop.       *)
Fairness == WF_vars(Main) /\ \A t \in Tasks : WF_vars(Worker(t))

Spec == Init /\ [][Next]_vars
FairSpec == Spec /\ Fairness

(***************************************************************************)
(* Properties.                                                             *)
(***************************************************************************)

Running(t) == wpc[t] \notin {"none", "ended"}
Notified(t) == wpc[t] \in {"returning", "ended"}

\* A thread that has not ended still finds everything Task::svc touches: its
\* Task, the Config, the list of files in main's frame, and the pool whose
\* semaphore it posts.
NoUseAfterDestroy ==
  \A t \in Tasks : Running(t) => /\ obj[t] = "built"
                                 /\ alive = {"config", "files", "pool"}

\* With -l 0, main never gets past wait_job_done before every configured
\* task has done its pass and said so: a task whose thread could not be
\* created is never counted as done.
JobComplete == seclive = 0 /\ clearing # "none" => \A t \in Tasks : Notified(t)

\* No thread gets out of its sem_wait before every task is created and
\* bound: no pass overlaps the set-up, and main pins only threads that wait
\* for their start, never the handle of one that has come and gone.
NoPassDuringSetup ==
  mpc \in {"create", "bind"} => \A t \in Tasks : wpc[t] \in {"none", "blocked"}

\* With a bounded -l the process ends, unless a task's thread could not be
\* created: then main may crash in the join of a thread that never was, or,
\* with -l 0, poll is_stop() for ever after every other task has notified and
\* ended - and nothing else can happen, in particular no thread spins on.
Terminates ==
  seclive >= 0 =>
    \/ <>(mpc = "exited")
    \/ <>[](/\ \E t \in Tasks : wpc[t] = "none"
             /\ \/ mpc = "crashed"
                \/ /\ mpc = "wait" /\ seclive = 0
                   /\ \A u \in Tasks : wpc[u] \in {"none", "ended"})

\* The pool is a fork-join region: the shared resources, of which the list
\* of files is the first to go, are released once, when no thread runs.
FJ == INSTANCE ForkJoin WITH Workers <- Tasks,
                             running <- {t \in Tasks : Running(t)},
                             finished <- {t \in Tasks : wpc[t] = "ended"},
                             released <- "files" \notin alive
ForkJoinSpec == FJ!Spec
===============================================================================
