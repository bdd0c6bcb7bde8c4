--------------------------------- MODULE CoTest ---------------------------------
(***************************************************************************)
(* The test program of libaco: main() creates CoNum coroutines, the k-th   *)
(* of which yields k times, and resumes them in turn, removing each one it *)
(* finds stopped, until the factory is empty.                              *)
(*                                                                         *)
(* The routine's local counter ct is a word of the shared stack and its    *)
(* place in the code is the register, so that its progress is only as good *)
(* as what libaco saves and restores.                                      *)
(***************************************************************************)
EXTENDS Integers, Sequences, Functions

CONSTANTS CoNum,  \* CO_NUM
          Frame,  \* words of co_fp0's frame: ct and the buffer
          Handles, Main, NULL, Limit, Slack, SaveSizes  \* as in Aco

Keys == 0..(CoNum - 1)
Words == Keys
Regs == 0..2

\* The routine's places: entered, at the test of its loop, back from yield.
Entry == 0
LoopTest == 1
AfterYield == 2

\* The frame is smaller than a stack, and main_co is no key.
ASSUME SizesAssumption == CoNum \in Nat \ {0} /\ Frame \in 1..Limit
ASSUME MainAssumption == Main \notin Keys /\ NULL \notin Keys
ASSUME HandlesAssumption == Main \notin Handles /\ NULL \notin Handles \cup {Main}
ASSUME SizeAssumption == Limit \in Nat \ {0} /\ Slack \in Nat \ {0}
ASSUME SaveSizesAssumption == SaveSizes \subseteq Nat \ {0}

VARIABLES pc,       \* where main() is
          i,        \* its i
          calling,  \* the running routine is in its call of yield
          crs, stop, phase,
          alloc, isEnd, reg, saved, saveSz, mem, owner, running, cpu, fault

F == INSTANCE CoroutineFactory

driverVars == <<pc, i>>
factoryVars == <<crs, stop, phase>>
acoVars == <<alloc, isEnd, reg, saved, saveSz, mem, owner, running, cpu, fault>>
vars == <<driverVars, calling, factoryVars, acoVars>>

TypeOK == /\ F!TypeOK
          /\ pc \in {"create", "visit", "resumed", "leave", "done"}
          /\ i \in Keys
          /\ calling \in BOOLEAN

(***************************************************************************)
(* main().                                                                 *)
(***************************************************************************)

NextI == i' = (i + 1) % CoNum

Create == /\ pc = "create"
          /\ F!cr_create(i)
          /\ NextI
          /\ pc' = IF i = CoNum - 1 THEN "visit" ELSE pc
          /\ UNCHANGED calling

Gone == DOMAIN crs = {}

\* cr_get and is_stop decide whether this turn resumes anyone.
Resumable == i \in DOMAIN crs /\ crs[i] \notin stop

Resume == /\ pc = "visit" /\ ~Gone
          /\ Resumable
          /\ F!cr_resume(i)
          /\ pc' = "resumed"
          /\ UNCHANGED <<i, calling>>

Skip == /\ pc = "visit" /\ ~Gone
        /\ ~Resumable
        /\ NextI
        /\ UNCHANGED <<pc, calling, factoryVars, acoVars>>

\* Mutant: a stopped coroutine stays in the factory.
ResumedNoRemove == /\ pc = "resumed"
                   /\ running = Main
                   /\ UNCHANGED <<factoryVars, acoVars>>
                   /\ NextI
                   /\ pc' = "visit"
                   /\ UNCHANGED calling

\* Mutant: main passes over the next coroutine.
ResumedSkipNext == /\ pc = "resumed"
                   /\ running = Main
                   /\ IF crs[i] \in stop
                      THEN F!cr_remove(i)
                      ELSE UNCHANGED <<factoryVars, acoVars>>
                   /\ i' = (i + 2) % CoNum
                   /\ pc' = "visit"
                   /\ UNCHANGED calling

\* Back in main, which removes the coroutine if it has stopped.
Resumed == /\ pc = "resumed"
           /\ running = Main
           /\ IF crs[i] \in stop
              THEN F!cr_remove(i)
              ELSE UNCHANGED <<factoryVars, acoVars>>
           /\ NextI
           /\ pc' = "visit"
           /\ UNCHANGED calling

Leave == /\ pc = "visit" /\ Gone
         /\ F!DtorBegin
         /\ pc' = "leave"
         /\ UNCHANGED <<i, calling>>

\* The map is empty: there is none left to delete.
FactoryDtor == /\ pc = "leave"
               /\ F!DtorStack \/ F!DtorEnd
               /\ pc' = IF phase' = "gone" THEN "done" ELSE pc
               /\ UNCHANGED <<i, calling>>

(***************************************************************************)
(* co_fp0, in the coroutine that runs.                                     *)
(***************************************************************************)

MyKey == CHOOSE k \in DOMAIN crs : crs[k] = running
ctAt == cpu.sp - Frame + 1
ct == mem[ctAt]

InRoutine(place) == running # Main /\ cpu.val = place /\ ~calling

\* The frame, with ct initialised from the argument; what is in the buffer,
\* nobody reads.
EnterRoutine == /\ InRoutine(Entry)
                /\ mem' = [k \in DOMAIN mem |->
                              IF k \in (cpu.sp + 1)..(cpu.sp + Frame)
                              THEN MyKey ELSE mem[k]]
                /\ cpu' = [sp |-> cpu.sp + Frame, val |-> LoopTest]
                /\ UNCHANGED <<alloc, isEnd, reg, saved, saveSz, owner, running,
                               fault, driverVars, calling, factoryVars>>

CallYield == /\ InRoutine(LoopTest)
             /\ ct > 0
             /\ calling' = TRUE
             /\ cpu' = [cpu EXCEPT !.val = AfterYield]
             /\ UNCHANGED <<alloc, isEnd, reg, saved, saveSz, mem, owner, running,
                            fault, driverVars, factoryVars>>

Yield == /\ calling
         /\ F!cr_yield(MyKey)
         /\ calling' = FALSE
         /\ UNCHANGED driverVars

CountDown == /\ InRoutine(AfterYield)
             /\ mem' = [mem EXCEPT ![ctAt] = @ - 1]
             /\ cpu' = [cpu EXCEPT !.val = LoopTest]
             /\ UNCHANGED <<alloc, isEnd, reg, saved, saveSz, owner, running,
                            fault, driverVars, calling, factoryVars>>

ReturnFromRoutine == /\ InRoutine(LoopTest)
                     /\ ct = 0
                     /\ F!routine_proxy
                     /\ UNCHANGED <<driverVars, calling>>

(***************************************************************************)
(* The program: one thread, so that exactly one action is possible, except *)
(* for the addresses that malloc picks.                                    *)
(***************************************************************************)

Init == /\ pc = "create" /\ i = 0 /\ calling = FALSE
        /\ F!Init

Step == /\ fault = "none"
        /\ \/ Create \/ Resume \/ Skip \/ Resumed \/ Leave \/ FactoryDtor
           \/ EnterRoutine \/ CallYield \/ Yield \/ CountDown
           \/ ReturnFromRoutine

Over == (fault # "none" \/ pc = "done") /\ UNCHANGED vars

Next == Step \/ Over

Spec == Init /\ [][Next]_vars
FairSpec == Spec /\ WF_vars(Step)

(***************************************************************************)
(* Properties.                                                             *)
(***************************************************************************)

\* No call of main trips an assertion of libaco: whoever is resumed is
\* neither ended nor destroyed.
NeverAborts == fault = "none"

\* Every coroutine runs to its end and is removed, and main returns.
Finishes == <>(pc = "done")

\* How often a coroutine that has run has come back from yield so far.
Turns(k) == k - F!Co!StackOf(crs[k])[1]

\* Turns are fair: between two visits, of two coroutines that still run, the
\* one main visits first in a round is ahead by the turn it has just had or
\* by none.
Started(k) == k \in DOMAIN crs /\ F!Co!Context(crs[k]).sp > 0
InTurn == pc = "visit" => \A j, k \in Keys :
            Started(j) /\ Started(k) /\ j < k =>
              Turns(j) - Turns(k) = IF j < i /\ i <= k THEN 1 ELSE 0
===============================================================================
