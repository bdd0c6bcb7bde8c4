----------------------------- MODULE CoTest_proofs -----------------------------
(***************************************************************************)
(* Theorems about CoTest for any number of coroutines, any frame that fits *)
(* the stack and any addresses.  What the factory and libaco contribute is *)
(* taken from CoroutineFactory_proofs, instantiated for the program's      *)
(* variables; the argument is about what each coroutine sees of its own    *)
(* stack.                                                                  *)
(***************************************************************************)
EXTENDS CoTest, TLAPS

CP == INSTANCE CoroutineFactory_proofs

(* The coroutine under a key and what it sees, as libaco's clients do.     *)
Living(k) == k \in DOMAIN crs /\ ~isEnd[crs[k]]
Stk(k) == CP!AP!Stacks[crs[k]]
Val(k) == CP!AP!Values[crs[k]]

(* Where co_fp0 is, in each coroutine, and what its counter holds there.   *)
NotEntered(k) == Stk(k) = <<>> /\ Val(k) = Entry
Frames == [1..Frame -> Words]
AtTest(k) == Stk(k) \in Frames /\ Stk(k)[1] \in 0..k /\ Val(k) = LoopTest
BackFromYield(k) == Stk(k) \in Frames /\ Stk(k)[1] \in 1..k /\ Val(k) = AfterYield

RoutineInv == \A k \in DOMAIN crs : Living(k) =>
                \/ NotEntered(k) \/ BackFromYield(k)
                \/ AtTest(k) /\ running = crs[k]

(* Where main is.                                                          *)
MainInv ==
  /\ i \in Keys /\ calling \in BOOLEAN
  /\ pc \in {"create", "visit", "resumed", "leave", "done"}
  /\ pc # "resumed" => running = Main
  /\ pc = "resumed" => i \in DOMAIN crs /\ running \in {Main, crs[i]}
  /\ pc = "create" => \A k \in Keys : k \in DOMAIN crs <=> k < i
  /\ pc = "create" => \A k \in DOMAIN crs : Stk(k) = <<>>
  /\ pc \in {"leave", "done"} => DOMAIN crs = {}
  /\ pc \notin {"leave", "done"} => phase = "live"
  /\ calling => running # Main /\ cpu.val = AfterYield

(* Only the coroutine that main has just resumed may have ended.           *)
EndedInv == \A k \in DOMAIN crs :
              isEnd[crs[k]] => pc = "resumed" /\ k = i /\ running = Main

(* How many turns a coroutine has had, counted from its first; main's      *)
(* round has served the keys below Bound.                                  *)
T(k) == IF Stk(k) = <<>> THEN -1 ELSE k - Stk(k)[1]
Served == pc = "resumed" /\ (running = Main \/ Val(i) = LoopTest \/ calling)
Bound == IF Served THEN i + 1 ELSE i
Lead(j, k) == IF j < Bound /\ Bound <= k THEN 1 ELSE 0
TurnInv == \A j, k \in Keys : Living(j) /\ Living(k) /\ j < k => T(j) - T(k) = Lead(j, k)

IInv == /\ CP!IInv /\ fault = "none"
        /\ RoutineInv /\ MainInv /\ EndedInv /\ TurnInv
-------------------------------------------------------------------------------
(***************************************************************************)
(* What libaco shows of the coroutine that runs.                           *)
(***************************************************************************)

LEMMA ConstantFacts ==
  /\ 0 \in Words /\ 0 \in Regs
  /\ Main \notin Keys /\ NULL \notin Keys
  /\ Frame \in Nat \ {0} /\ Limit \in Nat /\ Slack \in Nat /\ CoNum \in Nat
BY SizesAssumption, SizeAssumption, MainAssumption DEF Words, Keys, Regs

LEMMA RunningShows ==
  ASSUME CP!AP!IInv, running # Main
  PROVE  /\ running \in Handles /\ running \in alloc /\ ~isEnd[running]
         /\ owner = running
         /\ CP!AP!Stacks[running] = [n \in 1..cpu.sp |-> mem[n]]
         /\ CP!AP!Values[running] = cpu.val
         /\ cpu.sp \in 0..(Limit + Slack)
         /\ cpu = [sp |-> cpu.sp, val |-> cpu.val]
         /\ mem \in [1..(Limit + Slack) -> Words]
<1>1. running \in Handles /\ CP!AP!Live(running) /\ owner = running
  BY CP!AP!RunningIsLive, HandlesAssumption, ConstantFacts, SizeAssumption,
     SaveSizesAssumption
<1>2. /\ CP!AP!Stacks[running] = [n \in 1..cpu.sp |-> mem[n]]
      /\ CP!AP!Values[running] = cpu.val
  BY CP!AP!RunningStack, HandlesAssumption, ConstantFacts, SizeAssumption,
     SaveSizesAssumption
<1>3. cpu \in CP!AP!Contexts /\ mem \in [1..(Limit + Slack) -> Words]
  BY DEF CP!AP!IInv, CP!AP!TypeOK
<1> QED BY <1>1, <1>2, <1>3 DEF CP!AP!Live, CP!AP!Contexts, CP!AP!Depths

\* What the routine does to its frame and registers.
LEMMA RoutineWorks ==
  ASSUME CP!AP!IInv, running # Main,
         mem' \in [1..(Limit + Slack) -> Words], cpu' \in CP!AP!Contexts,
         UNCHANGED <<alloc, isEnd, reg, saved, saveSz, owner, running, fault>>
  PROVE  /\ CP!AP!IInv'
         /\ CP!AP!Stacks'[running] = [n \in 1..cpu'.sp |-> mem'[n]]
         /\ CP!AP!Values'[running] = cpu'.val
         /\ \A h \in Handles \ {running} : /\ CP!AP!Stacks'[h] = CP!AP!Stacks[h]
                                           /\ CP!AP!Values'[h] = CP!AP!Values[h]
<1>1. CP!AP!IInv'
  BY DEF CP!AP!IInv, CP!AP!TypeOK, CP!AP!OwnerCurrent, CP!AP!SuspendedComplete,
         CP!AP!SavedFits, CP!AP!Live
<1>2. running \in Handles /\ running \in alloc /\ ~isEnd[running] /\ owner = running
  BY RunningShows
<1>3. /\ CP!AP!Stacks'[running] = [n \in 1..cpu'.sp |-> mem'[n]]
      /\ CP!AP!Values'[running] = cpu'.val
  BY <1>2 DEF CP!AP!Stacks, CP!AP!StackOf, CP!AP!Context, CP!AP!Values, CP!AP!Live
<1>4. ASSUME NEW h \in Handles \ {running}
      PROVE  /\ CP!AP!Stacks'[h] = CP!AP!Stacks[h] /\ CP!AP!Values'[h] = CP!AP!Values[h]
  BY <1>2, HandlesAssumption
     DEF CP!AP!Stacks, CP!AP!StackOf, CP!AP!Context, CP!AP!Values, CP!AP!Live
<1> QED BY <1>1, <1>3, <1>4
-------------------------------------------------------------------------------
(***************************************************************************)
(* The program's factory is the one the theorems are about.                *)
(***************************************************************************)

LEMMA InitIsFactorys == F!Init => CP!Init
BY DEF F!Init, CP!Init, F!Co!Init, CP!Co!Init, F!Co!Fresh, CP!Co!Fresh

LEMMA CreateIsFactorys == ASSUME NEW k, F!cr_create(k) PROVE CP!cr_create(k)
<1>1. /\ k \in Keys \ DOMAIN crs /\ UNCHANGED phase
      /\ \E h \in Handles, sz \in SaveSizes :
           F!Co!aco_create(h, sz) /\ crs' = F!Inserted(k, h) /\ stop' = stop \ {h}
  BY DEF F!cr_create
<1>2. \A h, sz : F!Co!aco_create(h, sz) => CP!Co!aco_create(h, sz)
  BY DEF F!Co!aco_create, CP!Co!aco_create, F!Co!Fresh, CP!Co!Fresh
<1>3. \A h : F!Inserted(k, h) = CP!Inserted(k, h)
  BY DEF F!Inserted, CP!Inserted
<1> QED BY <1>1, <1>2, <1>3 DEF CP!cr_create

LEMMA ResumeIsFactorys ==
  ASSUME NEW k, F!cr_resume(k)
  PROVE  /\ k \in DOMAIN crs /\ CP!Co!aco_resume(crs[k]) /\ UNCHANGED <<crs, stop, phase>>
         /\ CP!cr_resume(k)
<1>1. k \in DOMAIN crs /\ F!Co!aco_resume(crs[k]) /\ UNCHANGED <<crs, stop, phase>>
  BY DEF F!cr_resume, F!factoryVars
<1>2. CP!Co!aco_resume(crs[k])
  BY <1>1 DEF F!Co!aco_resume, CP!Co!aco_resume, F!Co!ResumeFault, CP!Co!ResumeFault,
     F!Co!Displaces, CP!Co!Displaces, F!Co!SpInRange, CP!Co!SpInRange, F!Co!Abort,
     CP!Co!Abort, F!Co!SaveOwner, CP!Co!SaveOwner, F!Co!GrownTo, CP!Co!GrownTo,
     F!Co!InUse, CP!Co!InUse, F!Co!Restore, CP!Co!Restore, F!Co!acosw, CP!Co!acosw,
     F!Co!coVars, CP!Co!coVars
<1> QED BY <1>1, <1>2 DEF CP!cr_resume, CP!factoryVars

LEMMA YieldIsFactorys ==
  ASSUME NEW k, F!cr_yield(k)
  PROVE  CP!Co!aco_yield /\ UNCHANGED <<crs, stop, phase>>
<1>1. F!Co!aco_yield /\ UNCHANGED <<crs, stop, phase>>
  BY DEF F!cr_yield, F!factoryVars
<1> QED BY <1>1 DEF F!Co!aco_yield, CP!Co!aco_yield, F!Co!acosw, CP!Co!acosw,
                    F!Co!coVars, CP!Co!coVars

LEMMA RemoveIsFactorys == ASSUME NEW k, F!cr_remove(k) PROVE CP!cr_remove(k)
BY DEF F!cr_remove, CP!cr_remove, F!Co!aco_destroy, CP!Co!aco_destroy,
       F!Restrict, CP!Restrict

LEMMA ProxyIsFactorys == F!routine_proxy => CP!routine_proxy
<1> SUFFICES ASSUME F!routine_proxy PROVE CP!routine_proxy
  OBVIOUS
<1>1. F!Co!aco_exit => CP!Co!aco_exit
  BY DEF F!Co!aco_exit, CP!Co!aco_exit, F!Co!acosw, CP!Co!acosw, F!Co!coVars,
         CP!Co!coVars, F!Co!Abort, CP!Co!Abort
<1> QED BY <1>1 DEF F!routine_proxy, CP!routine_proxy

LEMMA DtorIsFactorys ==
  F!DtorBegin \/ F!DtorStack \/ F!DtorEnd => CP!DtorBegin \/ CP!DtorStack \/ CP!DtorEnd
BY DEF F!DtorBegin, F!DtorStack, F!DtorEnd, CP!DtorBegin, CP!DtorStack, CP!DtorEnd,
       F!acoVars, CP!acoVars
-------------------------------------------------------------------------------
(***************************************************************************)
(* What each call of main, and each stretch of co_fp0, changes of what the *)
(* coroutines see.                                                         *)
(***************************************************************************)

(* The coroutine under x, before and after, sees the same.                 *)
Kept(x) == /\ x \in DOMAIN crs /\ x \in DOMAIN crs' /\ crs'[x] = crs[x]
           /\ isEnd'[crs[x]] = isEnd[crs[x]]
           /\ CP!AP!Stacks'[crs[x]] = CP!AP!Stacks[crs[x]]
           /\ CP!AP!Values'[crs[x]] = CP!AP!Values[crs[x]]

LEMMA KeptSame ==
  ASSUME NEW x \in Keys, Kept(x)
  PROVE  /\ Living(x)' = Living(x) /\ Stk(x)' = Stk(x) /\ Val(x)' = Val(x)
         /\ T(x)' = T(x)
<1>1. Living(x)' = Living(x) /\ Stk(x)' = Stk(x) /\ Val(x)' = Val(x)
  BY DEF Kept, Living, Stk, Val
<1> QED BY <1>1 DEF T

LEMMA KeptState ==
  ASSUME NEW x \in Keys, Kept(x), RoutineInv, running' = running \/ running # crs[x]
  PROVE  x \in DOMAIN crs' /\ (Living(x)' =>
           \/ NotEntered(x)' \/ BackFromYield(x)'
           \/ AtTest(x)' /\ running' = crs'[x])
<1>1. Living(x)' = Living(x) /\ Stk(x)' = Stk(x) /\ Val(x)' = Val(x)
  BY KeptSame
<1>2. x \in DOMAIN crs /\ x \in DOMAIN crs' /\ crs'[x] = crs[x]
  BY DEF Kept
<1> QED BY <1>1, <1>2 DEF RoutineInv, NotEntered, BackFromYield, AtTest

LEMMA MapShows ==
  ASSUME CP!IInv
  PROVE  /\ DOMAIN crs \subseteq Keys
         /\ \A x \in DOMAIN crs : crs[x] \in Handles
         /\ \A x, y \in DOMAIN crs : crs[x] = crs[y] => x = y
         /\ phase = "live" => \A x \in DOMAIN crs : crs[x] \in alloc
         /\ \A h \in alloc : \E x \in DOMAIN crs : crs[x] = h
         /\ \A h \in alloc : h \in stop <=> isEnd[h]
         /\ alloc \subseteq Handles /\ isEnd \in [Handles -> BOOLEAN]
         /\ running \in Handles \cup {Main}
<1>1. \A x \in DOMAIN crs : crs[x] \in CP!Range(crs)
  BY DEF CP!Range
<1>2. \A h \in CP!Range(crs) : \E x \in DOMAIN crs : crs[x] = h
  BY DEF CP!Range
<1> QED BY <1>1, <1>2 DEF CP!IInv, CP!MapInv, CP!IsInjective, CP!StopIsEnded,
                          CP!AP!IInv, CP!AP!TypeOK

LEMMA CreateEffect ==
  ASSUME CP!IInv, phase = "live", NEW k \in Keys, F!cr_create(k)
  PROVE  /\ CP!IInv' /\ k \notin DOMAIN crs /\ DOMAIN crs' = DOMAIN crs \cup {k}
         /\ Living(k)' /\ Stk(k)' = <<>> /\ Val(k)' = Entry
         /\ \A x \in DOMAIN crs : Kept(x)
         /\ UNCHANGED <<running, cpu, fault, phase>>
<1>1. CP!cr_create(k)
  BY CreateIsFactorys
<1>2. CP!IInv'
  BY <1>1, CP!CreateStep, HandlesAssumption, ConstantFacts, SizeAssumption,
     SaveSizesAssumption
<1>3. PICK h \in Handles, sz \in SaveSizes : /\ CP!Co!aco_create(h, sz)
                                             /\ crs' = CP!Inserted(k, h)
  BY <1>1 DEF CP!cr_create
<1>4. CP!AP!PS!Create(h)
  BY <1>3, CP!CoCreate, HandlesAssumption, ConstantFacts, SizeAssumption,
     SaveSizesAssumption DEF CP!IInv
<1>5. CP!AP!Stacks' = CP!AP!Stacks /\ CP!AP!Values' = CP!AP!Values
  BY <1>4 DEF CP!AP!PS!Create
<1>6. /\ h \notin alloc /\ isEnd' = [isEnd EXCEPT ![h] = FALSE]
      /\ UNCHANGED <<running, cpu, fault>>
  BY <1>3 DEF CP!Co!aco_create
<1>7. /\ k \notin DOMAIN crs /\ DOMAIN crs' = DOMAIN crs \cup {k} /\ crs'[k] = h
      /\ \A x \in DOMAIN crs : crs'[x] = crs[x]
      /\ phase' = phase
  BY <1>1, <1>3 DEF CP!cr_create, CP!Inserted
<1>8. CP!AP!Stacks[h] = <<>> /\ CP!AP!Values[h] = 0
  BY <1>6, HandlesAssumption DEF CP!AP!Stacks, CP!AP!Values, CP!AP!Live
<1>9. \A x \in DOMAIN crs : crs[x] # h /\ crs[x] \in Handles
  BY <1>6, MapShows
<1>10. isEnd \in [Handles -> BOOLEAN]
  BY MapShows
<1>11. Living(k)' /\ Stk(k)' = <<>> /\ Val(k)' = Entry
  BY <1>5, <1>6, <1>7, <1>8, <1>10 DEF Living, Stk, Val, Entry
<1>12. \A x \in DOMAIN crs : Kept(x)
  BY <1>5, <1>6, <1>7, <1>9, <1>10 DEF Kept
<1> QED BY <1>2, <1>6, <1>7, <1>11, <1>12

LEMMA ResumeEffect ==
  ASSUME IInv, phase = "live", NEW k \in Keys, Living(k), F!cr_resume(k)
  PROVE  /\ CP!IInv' /\ running' = crs[k] /\ fault' = "none"
         /\ \A x \in DOMAIN crs : Kept(x)
         /\ UNCHANGED <<crs, stop, phase>>
<1>1. CP!Co!aco_resume(crs[k]) /\ UNCHANGED <<crs, stop, phase>>
  BY ResumeIsFactorys
<1>2. k \in DOMAIN crs /\ ~isEnd[crs[k]] /\ crs[k] \in Handles /\ crs[k] \in alloc
  BY MapShows DEF Living, IInv
<1>3. CP!AP!TypeOK /\ CP!AP!OwnerCurrent /\ CP!AP!IInv
  BY DEF IInv, CP!IInv, CP!AP!IInv
<1>4. running = Main
  BY <1>1 DEF CP!Co!aco_resume
<1>5. ASSUME owner # NULL PROVE reg[owner].sp <= Limit
  <2>1. owner \in Handles /\ owner \in alloc /\ ~isEnd[owner] /\ owner # Main
    BY <1>3, <1>5, HandlesAssumption DEF CP!AP!TypeOK, CP!AP!OwnerCurrent, CP!AP!Live
  <2>2. PICK x \in DOMAIN crs : crs[x] = owner
    BY <2>1, MapShows DEF IInv
  <2>3. Stk(x) = [n \in 1..reg[owner].sp |-> mem[n]]
    BY <1>4, <2>1, <2>2 DEF Stk, CP!AP!Stacks, CP!AP!StackOf, CP!AP!Context, CP!AP!Live
  <2>4. Stk(x) = <<>> \/ Stk(x) \in Frames
    BY <2>1, <2>2 DEF IInv, RoutineInv, Living, NotEntered, AtTest, BackFromYield
  <2>5. reg[owner].sp \in Nat
    BY <1>3, <2>1, ConstantFacts DEF CP!AP!TypeOK, CP!AP!Contexts, CP!AP!Depths
  <2>6. DOMAIN Stk(x) = 1..reg[owner].sp
    BY <2>3
  <2>7. DOMAIN Stk(x) = {} \/ DOMAIN Stk(x) = 1..Frame
    BY <2>4 DEF Frames
  <2> QED BY <2>5, <2>6, <2>7, ConstantFacts, SizesAssumption
<1>6. CP!Co!ResumeFault(crs[k]) = "none"
  <2>1. ~(CP!Co!Displaces(crs[k]) /\ ~CP!Co!SpInRange(owner))
    BY <1>5 DEF CP!Co!Displaces, CP!Co!SpInRange
  <2>2. ~(Len(saved[crs[k]]) > Limit)
    <3>1. Len(saved[crs[k]]) \in 0..Limit
      BY <1>2, <1>3, CP!AP!ContentsAreSequences, ConstantFacts, HandlesAssumption,
         SizeAssumption, SaveSizesAssumption DEF CP!AP!TypeOK
    <3> QED BY <3>1, ConstantFacts
  <2> QED BY <1>2, <2>1, <2>2 DEF CP!Co!ResumeFault
<1>7. fault' = "none" /\ running' = crs[k]
  BY <1>1, <1>6 DEF CP!Co!aco_resume, CP!Co!acosw, IInv
<1>8. /\ CP!AP!IInv' /\ UNCHANGED <<alloc, isEnd>>
      /\ CP!AP!PS!Resume(crs[k]) \/ CP!AP!PS!Fail
  BY <1>1, <1>2, <1>3, CP!CoResume, ConstantFacts, HandlesAssumption, SizeAssumption,
     SaveSizesAssumption DEF IInv
<1>9. CP!AP!Stacks' = CP!AP!Stacks /\ CP!AP!Values' = CP!AP!Values
  BY <1>8 DEF CP!AP!PS!Resume, CP!AP!PS!Fail
<1>10. CP!IInv'
  BY <1>1, <1>8, CP!KeepingStep, ConstantFacts, HandlesAssumption, SizeAssumption,
     SaveSizesAssumption DEF IInv, CP!factoryVars
<1>11. \A x \in DOMAIN crs : Kept(x)
  BY <1>1, <1>8, <1>9 DEF Kept
<1> QED BY <1>1, <1>7, <1>10, <1>11

LEMMA RemoveEffect ==
  ASSUME IInv, phase = "live", NEW k \in Keys, F!cr_remove(k)
  PROVE  /\ CP!IInv' /\ k \in DOMAIN crs /\ DOMAIN crs' = DOMAIN crs \ {k}
         /\ \A x \in DOMAIN crs \ {k} : Kept(x)
         /\ UNCHANGED <<running, cpu, fault, phase>>
<1>1. CP!cr_remove(k)
  BY RemoveIsFactorys
<1>2. CP!IInv'
  BY <1>1, CP!RemoveStep, HandlesAssumption, ConstantFacts, SizeAssumption,
     SaveSizesAssumption DEF IInv
<1>3. /\ k \in DOMAIN crs /\ CP!Co!aco_destroy(crs[k]) /\ phase' = phase
      /\ DOMAIN crs' = DOMAIN crs \ {k}
      /\ \A x \in DOMAIN crs \ {k} : crs'[x] = crs[x]
  BY <1>1 DEF CP!cr_remove, CP!Restrict
<1>4. crs[k] \in Handles
  BY <1>3, MapShows DEF IInv
<1>5. CP!AP!PS!Destroy(crs[k])
  BY <1>3, <1>4, CP!CoDestroy, HandlesAssumption, ConstantFacts, SizeAssumption,
     SaveSizesAssumption DEF IInv, CP!IInv
<1>6. UNCHANGED <<isEnd, running, cpu, fault>>
  BY <1>3 DEF CP!Co!aco_destroy
<1>7. ASSUME NEW x \in DOMAIN crs \ {k} PROVE Kept(x)
  <2>1. crs[x] # crs[k] /\ crs[x] \in Handles
    BY <1>3, MapShows DEF IInv
  <2>2. /\ CP!AP!Stacks'[crs[x]] = CP!AP!Stacks[crs[x]]
        /\ CP!AP!Values'[crs[x]] = CP!AP!Values[crs[x]]
    BY <1>5, <2>1 DEF CP!AP!PS!Destroy, CP!AP!Stacks, CP!AP!Values
  <2> QED BY <1>3, <1>6, <2>2 DEF Kept
<1> QED BY <1>2, <1>3, <1>6, <1>7

\* Which key runs, and what its coroutine sees.
LEMMA RoutineShows ==
  ASSUME IInv, running # Main
  PROVE  /\ pc = "resumed" /\ phase = "live"
         /\ i \in Keys /\ i \in DOMAIN crs /\ crs[i] = running /\ MyKey = i
         /\ Living(i) /\ Val(i) = cpu.val
         /\ Stk(i) = [n \in 1..cpu.sp |-> mem[n]]
         /\ NotEntered(i) \/ BackFromYield(i) \/ AtTest(i)
         /\ IF Stk(i) = <<>> THEN cpu.sp = 0 ELSE cpu.sp = Frame
<1>1. pc = "resumed" /\ phase = "live" /\ i \in Keys /\ i \in DOMAIN crs /\ crs[i] = running
  BY DEF IInv, MainInv
<1>2. \A x \in DOMAIN crs : crs[x] = running => x = i
  BY <1>1, MapShows DEF IInv
<1>3. MyKey = i
  BY <1>1, <1>2 DEF MyKey
<1>4. /\ ~isEnd[running] /\ CP!AP!Stacks[running] = [n \in 1..cpu.sp |-> mem[n]]
      /\ CP!AP!Values[running] = cpu.val /\ cpu.sp \in 0..(Limit + Slack)
  BY RunningShows DEF IInv, CP!IInv
<1>5. Living(i) /\ Val(i) = cpu.val /\ Stk(i) = [n \in 1..cpu.sp |-> mem[n]]
  BY <1>1, <1>4 DEF Living, Val, Stk
<1>6. NotEntered(i) \/ BackFromYield(i) \/ AtTest(i)
  BY <1>1, <1>5 DEF IInv, RoutineInv
<1>7. DOMAIN Stk(i) = 1..cpu.sp
  BY <1>5
<1>8. cpu.sp \in Nat
  BY <1>4, ConstantFacts
<1>9. CASE Stk(i) = <<>>
  <2>1. DOMAIN Stk(i) = {}
    BY <1>9
  <2> QED BY <1>1, <1>3, <1>5, <1>6, <1>7, <1>8, <1>9, <2>1
<1>10. CASE Stk(i) # <<>>
  <2>1. Stk(i) \in Frames
    BY <1>6, <1>10 DEF NotEntered, BackFromYield, AtTest
  <2>2. DOMAIN Stk(i) = 1..Frame
    BY <2>1 DEF Frames
  <2>3. cpu.sp = Frame
    BY <1>7, <1>8, <2>2, ConstantFacts
  <2> QED BY <1>1, <1>3, <1>5, <1>6, <1>10, <2>3
<1> QED BY <1>9, <1>10

LEMMA RoutineEffect ==
  ASSUME IInv, running # Main,
         mem' \in [1..(Limit + Slack) -> Words], cpu' \in CP!AP!Contexts,
         UNCHANGED <<alloc, isEnd, reg, saved, saveSz, owner, running, fault>>,
         UNCHANGED <<crs, stop, phase, pc, i>>
  PROVE  /\ CP!IInv' /\ Living(i)'
         /\ Stk(i)' = [n \in 1..cpu'.sp |-> mem'[n]] /\ Val(i)' = cpu'.val
         /\ \A x \in DOMAIN crs \ {i} : Kept(x)
<1>1. i \in DOMAIN crs /\ crs[i] = running /\ phase = "live" /\ Living(i)
  BY RoutineShows
<1>2. CP!AP!IInv
  BY DEF IInv, CP!IInv
<1>3. /\ CP!AP!IInv'
      /\ CP!AP!Stacks'[running] = [n \in 1..cpu'.sp |-> mem'[n]]
      /\ CP!AP!Values'[running] = cpu'.val
      /\ \A h \in Handles \ {running} : /\ CP!AP!Stacks'[h] = CP!AP!Stacks[h]
                                        /\ CP!AP!Values'[h] = CP!AP!Values[h]
  BY <1>2, RoutineWorks
<1>4. CP!IInv'
  BY <1>1, <1>3, CP!KeepingStep, ConstantFacts, HandlesAssumption, SizeAssumption,
     SaveSizesAssumption DEF IInv, CP!factoryVars
<1>5. Living(i)' /\ Stk(i)' = [n \in 1..cpu'.sp |-> mem'[n]] /\ Val(i)' = cpu'.val
  BY <1>1, <1>3 DEF Living, Stk, Val
<1>6. ASSUME NEW x \in DOMAIN crs \ {i} PROVE Kept(x)
  <2>1. crs[x] \in Handles \ {running}
    BY <1>1, MapShows DEF IInv
  <2> QED BY <1>3, <2>1 DEF Kept
<1> QED BY <1>4, <1>5, <1>6

LEMMA EnterEffect ==
  ASSUME IInv, EnterRoutine
  PROVE  /\ NotEntered(i) /\ CP!IInv'
         /\ Living(i)' /\ AtTest(i)' /\ Stk(i)'[1] = i
         /\ \A x \in DOMAIN crs \ {i} : Kept(x)
<1>1. /\ running # Main /\ cpu.val = Entry /\ ~calling
      /\ mem' = [k \in DOMAIN mem |-> IF k \in (cpu.sp + 1)..(cpu.sp + Frame)
                                      THEN MyKey ELSE mem[k]]
      /\ cpu' = [sp |-> cpu.sp + Frame, val |-> LoopTest]
      /\ UNCHANGED <<alloc, isEnd, reg, saved, saveSz, owner, running, fault>>
      /\ UNCHANGED <<crs, stop, phase, pc, i>>
  BY DEF EnterRoutine, InRoutine, driverVars, factoryVars
<1>2. NotEntered(i) /\ cpu.sp = 0 /\ MyKey = i /\ i \in Keys
  <2>1. ~BackFromYield(i) /\ ~AtTest(i)
    BY <1>1, RoutineShows DEF BackFromYield, AtTest, Entry, LoopTest, AfterYield
  <2> QED BY <1>1, <2>1, RoutineShows DEF NotEntered
<1>3. mem \in [1..(Limit + Slack) -> Words]
  BY <1>1, RunningShows DEF IInv, CP!IInv
<1>4. cpu'.sp = Frame /\ cpu'.val = LoopTest /\ cpu' = [sp |-> Frame, val |-> LoopTest]
  BY <1>1, <1>2, ConstantFacts
<1>5. Frame \in 0..(Limit + Slack) /\ 1..Frame \subseteq 1..(Limit + Slack)
  BY SizesAssumption, ConstantFacts
<1>6. mem' = [k \in 1..(Limit + Slack) |-> IF k \in 1..Frame THEN i ELSE mem[k]]
  BY <1>1, <1>2, <1>3, ConstantFacts
<1>7. mem' \in [1..(Limit + Slack) -> Words]
  BY <1>2, <1>3, <1>6 DEF Words
<1>8. cpu' \in CP!AP!Contexts
  BY <1>4, <1>5 DEF CP!AP!Contexts, CP!AP!Depths, Regs, LoopTest
<1>9. /\ CP!IInv' /\ Living(i)'
      /\ Stk(i)' = [n \in 1..cpu'.sp |-> mem'[n]] /\ Val(i)' = cpu'.val
      /\ \A x \in DOMAIN crs \ {i} : Kept(x)
  BY <1>1, <1>7, <1>8, RoutineEffect
<1>10. Stk(i)' = [n \in 1..Frame |-> i]
  BY <1>4, <1>5, <1>6, <1>9
<1>11. Stk(i)' \in Frames /\ Stk(i)'[1] = i
  BY <1>2, <1>10, ConstantFacts DEF Frames, Words
<1>12. AtTest(i)'
  BY <1>1, <1>2, <1>4, <1>9, <1>11 DEF AtTest, Frames, Words, Keys
<1> QED BY <1>2, <1>9, <1>11, <1>12

\* The counter is the first word of the frame.
LEMMA CounterShows ==
  ASSUME IInv, running # Main, ~NotEntered(i)
  PROVE  /\ cpu.sp = Frame /\ ctAt = 1 /\ ct = Stk(i)[1]
         /\ Stk(i) = [n \in 1..Frame |-> mem[n]] /\ Stk(i) \in Frames
<1>1. Stk(i) \in Frames
  BY RoutineShows DEF BackFromYield, AtTest
<1>2. Stk(i) # <<>>
  <2>1. DOMAIN Stk(i) = 1..Frame
    BY <1>1 DEF Frames
  <2>2. 1 \in DOMAIN Stk(i)
    BY <2>1, ConstantFacts
  <2> QED BY <2>2
<1>3. cpu.sp = Frame /\ Stk(i) = [n \in 1..Frame |-> mem[n]]
  BY <1>2, RoutineShows
<1>4. ctAt = 1
  BY <1>3, ConstantFacts DEF ctAt
<1> QED BY <1>1, <1>3, <1>4, ConstantFacts DEF ct

LEMMA CallYieldEffect ==
  ASSUME IInv, CallYield
  PROVE  /\ AtTest(i) /\ CP!IInv'
         /\ Living(i)' /\ BackFromYield(i)' /\ Stk(i)' = Stk(i)
         /\ \A x \in DOMAIN crs \ {i} : Kept(x)
<1>1. /\ running # Main /\ cpu.val = LoopTest /\ ~calling /\ ct > 0
      /\ cpu' = [cpu EXCEPT !.val = AfterYield] /\ mem' = mem
      /\ UNCHANGED <<alloc, isEnd, reg, saved, saveSz, owner, running, fault>>
      /\ UNCHANGED <<crs, stop, phase, pc, i>>
  BY DEF CallYield, InRoutine, driverVars, factoryVars
<1>2. AtTest(i) /\ ~NotEntered(i) /\ i \in Keys
  <2>1. ~BackFromYield(i) /\ ~NotEntered(i)
    BY <1>1, RoutineShows DEF BackFromYield, NotEntered, Entry, LoopTest, AfterYield
  <2> QED BY <1>1, <2>1, RoutineShows
<1>3. /\ cpu.sp \in 0..(Limit + Slack) /\ cpu = [sp |-> cpu.sp, val |-> cpu.val]
      /\ mem \in [1..(Limit + Slack) -> Words]
  BY <1>1, RunningShows DEF IInv, CP!IInv
<1>4. cpu' = [sp |-> cpu.sp, val |-> AfterYield]
  BY <1>1, <1>3
<1>5. cpu' \in CP!AP!Contexts /\ cpu'.sp = cpu.sp /\ cpu'.val = AfterYield
  BY <1>3, <1>4 DEF CP!AP!Contexts, CP!AP!Depths, Regs, AfterYield
<1>6. /\ CP!IInv' /\ Living(i)'
      /\ Stk(i)' = [n \in 1..cpu'.sp |-> mem'[n]] /\ Val(i)' = cpu'.val
      /\ \A x \in DOMAIN crs \ {i} : Kept(x)
  BY <1>1, <1>3, <1>5, RoutineEffect
<1>7. Stk(i)' = Stk(i)
  BY <1>1, <1>5, <1>6, RoutineShows
<1>8. Stk(i)[1] \in 1..i
  BY <1>1, <1>2, CounterShows DEF AtTest, Keys
<1>9. BackFromYield(i)'
  BY <1>1, <1>2, <1>5, <1>6, <1>7, <1>8 DEF BackFromYield, AtTest, Frames
<1> QED BY <1>2, <1>6, <1>7, <1>9

LEMMA CountDownEffect ==
  ASSUME IInv, CountDown
  PROVE  /\ BackFromYield(i) /\ CP!IInv'
         /\ Living(i)' /\ AtTest(i)' /\ Stk(i)'[1] = Stk(i)[1] - 1
         /\ \A x \in DOMAIN crs \ {i} : Kept(x)
<1>1. /\ running # Main /\ cpu.val = AfterYield /\ ~calling
      /\ cpu' = [cpu EXCEPT !.val = LoopTest] /\ mem' = [mem EXCEPT ![ctAt] = @ - 1]
      /\ UNCHANGED <<alloc, isEnd, reg, saved, saveSz, owner, running, fault>>
      /\ UNCHANGED <<crs, stop, phase, pc, i>>
  BY DEF CountDown, InRoutine, driverVars, factoryVars
<1>2. BackFromYield(i) /\ ~NotEntered(i) /\ i \in Keys
  <2>1. ~AtTest(i) /\ ~NotEntered(i)
    BY <1>1, RoutineShows DEF AtTest, NotEntered, Entry, LoopTest, AfterYield
  <2> QED BY <1>1, <2>1, RoutineShows
<1>3. /\ cpu.sp = Frame /\ ctAt = 1 /\ Stk(i) = [n \in 1..Frame |-> mem[n]]
      /\ Stk(i) \in Frames
  BY <1>1, <1>2, CounterShows
<1>4. /\ cpu.sp \in 0..(Limit + Slack) /\ cpu = [sp |-> cpu.sp, val |-> cpu.val]
      /\ mem \in [1..(Limit + Slack) -> Words]
  BY <1>1, RunningShows DEF IInv, CP!IInv
<1>5. 1 \in 1..Frame /\ 1..Frame \subseteq 1..(Limit + Slack)
  BY SizesAssumption, ConstantFacts
<1>6. Stk(i)[1] = mem[1] /\ mem[1] \in 1..i
  BY <1>2, <1>3, <1>5 DEF BackFromYield
<1>7. mem[1] - 1 \in 0..i /\ mem[1] - 1 \in Words
  BY <1>2, <1>6, ConstantFacts DEF Words, Keys
<1>8. mem' = [mem EXCEPT ![1] = mem[1] - 1]
  BY <1>1, <1>3
<1>9. mem' \in [1..(Limit + Slack) -> Words] /\ mem'[1] = mem[1] - 1
  BY <1>4, <1>5, <1>7, <1>8
<1>10. cpu' = [sp |-> cpu.sp, val |-> LoopTest]
  BY <1>1, <1>4
<1>11. cpu' \in CP!AP!Contexts /\ cpu'.sp = Frame /\ cpu'.val = LoopTest
  BY <1>3, <1>4, <1>10 DEF CP!AP!Contexts, CP!AP!Depths, Regs, LoopTest
<1>12. /\ CP!IInv' /\ Living(i)'
       /\ Stk(i)' = [n \in 1..cpu'.sp |-> mem'[n]] /\ Val(i)' = cpu'.val
       /\ \A x \in DOMAIN crs \ {i} : Kept(x)
  BY <1>1, <1>9, <1>11, RoutineEffect
<1>13. Stk(i)' \in Frames /\ Stk(i)'[1] = mem[1] - 1
  BY <1>5, <1>9, <1>11, <1>12 DEF Frames
<1>14. AtTest(i)'
  BY <1>1, <1>7, <1>11, <1>12, <1>13 DEF AtTest, Frames, Words, Keys
<1> QED BY <1>2, <1>6, <1>12, <1>13, <1>14

LEMMA YieldEffect ==
  ASSUME IInv, Yield
  PROVE  /\ CP!IInv' /\ running' = Main /\ running # Main /\ fault' = "none"
         /\ \A x \in DOMAIN crs : Kept(x)
         /\ UNCHANGED <<crs, phase>>
<1>1. running # Main /\ calling
  BY DEF Yield, IInv, MainInv
<1>2. CP!Co!aco_yield /\ UNCHANGED <<crs, stop, phase>>
  BY YieldIsFactorys DEF Yield
<1>3. CP!AP!IInv' /\ CP!AP!PS!Yield /\ UNCHANGED <<alloc, isEnd>>
  BY <1>2, CP!CoYield, HandlesAssumption, ConstantFacts, SizeAssumption,
     SaveSizesAssumption DEF IInv, CP!IInv
<1>4. CP!IInv'
  BY <1>1, <1>2, <1>3, RoutineShows, CP!KeepingStep, HandlesAssumption, ConstantFacts,
     SizeAssumption, SaveSizesAssumption DEF IInv, CP!factoryVars
<1>5. running' = Main /\ fault' = fault
  BY <1>2 DEF CP!Co!aco_yield, CP!Co!acosw
<1>6. \A x \in DOMAIN crs : Kept(x)
  BY <1>2, <1>3 DEF CP!AP!PS!Yield, Kept
<1> QED BY <1>1, <1>2, <1>4, <1>5, <1>6 DEF IInv

LEMMA ReturnEffect ==
  ASSUME IInv, ReturnFromRoutine
  PROVE  /\ CP!IInv' /\ running' = Main /\ running # Main /\ fault' = "none"
         /\ AtTest(i) /\ isEnd'[crs[i]]
         /\ \A x \in DOMAIN crs \ {i} : Kept(x)
         /\ UNCHANGED <<crs, phase>>
<1>1. running # Main /\ cpu.val = LoopTest /\ CP!routine_proxy
  BY ProxyIsFactorys DEF ReturnFromRoutine, InRoutine
<1>2. i \in DOMAIN crs /\ crs[i] = running /\ phase = "live" /\ AtTest(i)
  BY <1>1, RoutineShows DEF BackFromYield, NotEntered, Entry, LoopTest, AfterYield
<1>3. CP!IInv'
  BY <1>1, <1>2, CP!ProxyStep, HandlesAssumption, ConstantFacts, SizeAssumption,
     SaveSizesAssumption DEF IInv
<1>4. CP!Co!aco_exit /\ UNCHANGED <<crs, phase>>
  BY <1>1 DEF CP!routine_proxy
<1>5. CP!AP!PS!Exit /\ isEnd' = [isEnd EXCEPT ![running] = TRUE]
  BY <1>4, CP!CoExit, HandlesAssumption, ConstantFacts, SizeAssumption,
     SaveSizesAssumption DEF IInv, CP!IInv
<1>6. owner = running
  BY <1>1, RunningShows DEF IInv, CP!IInv
<1>7. running' = Main /\ fault' = fault
  BY <1>4, <1>6 DEF CP!Co!aco_exit, CP!Co!acosw
<1>8. isEnd \in [Handles -> BOOLEAN] /\ \A x \in DOMAIN crs : crs[x] \in Handles
  BY MapShows DEF IInv
<1>9. isEnd'[crs[i]]
  BY <1>2, <1>5, <1>8
<1>10. ASSUME NEW x \in DOMAIN crs \ {i} PROVE Kept(x)
  <2>1. crs[x] # running /\ crs[x] \in Handles
    BY <1>2, MapShows DEF IInv
  <2>2. /\ CP!AP!Stacks'[crs[x]] = CP!AP!Stacks[crs[x]]
        /\ CP!AP!Values'[crs[x]] = CP!AP!Values[crs[x]]
    BY <1>5, <2>1 DEF CP!AP!PS!Exit, CP!AP!Stacks, CP!AP!Values
  <2> QED BY <1>4, <1>5, <1>8, <2>1, <2>2 DEF Kept
<1> QED BY <1>1, <1>2, <1>3, <1>4, <1>7, <1>9, <1>10 DEF IInv
-------------------------------------------------------------------------------
(***************************************************************************)
(* Turns.                                                                  *)
(***************************************************************************)

LEMMA NextKey ==
  ASSUME NEW k \in Keys
  PROVE  /\ (k + 1) % CoNum = IF k = CoNum - 1 THEN 0 ELSE k + 1
         /\ (k + 1) % CoNum \in Keys
<1>1. k \in 0..(CoNum - 1) /\ CoNum \in Nat \ {0}
  BY SizesAssumption DEF Keys
<1>2. CASE k = CoNum - 1
  <2>1. k + 1 = CoNum
    BY <1>1, <1>2
  <2>2. (k + 1) % CoNum = 0
    BY <1>1, <2>1
  <2> QED BY <1>1, <1>2, <2>2 DEF Keys
<1>3. CASE k # CoNum - 1
  <2>1. k + 1 \in 0..(CoNum - 1)
    BY <1>1, <1>3
  <2>2. (k + 1) % CoNum = k + 1
    BY <1>1, <2>1
  <2> QED BY <1>3, <2>1, <2>2 DEF Keys
<1> QED BY <1>2, <1>3

LEMMA TurnsAreInts ==
  ASSUME IInv, NEW k \in Keys, Living(k)
  PROVE  T(k) \in Int /\ Stk(k) \in {<<>>} \cup Frames
<1>1. Stk(k) = <<>> \/ (Stk(k) \in Frames /\ Stk(k)[1] \in 0..k)
  BY DEF IInv, RoutineInv, Living, NotEntered, BackFromYield, AtTest, Keys
<1> QED BY <1>1 DEF T, Keys

\* The living ones are as they were.
Same == \A x \in Keys : Living(x)' => Living(x) /\ T(x)' = T(x)

LEMMA NoTurn ==
  ASSUME IInv, Same, Bound' = Bound
  PROVE  TurnInv'
BY DEF IInv, TurnInv, Same, Lead

\* The coroutine at main's index has its turn.
LEMMA OneTurn ==
  ASSUME IInv, Bound = i, Bound' = i + 1, Living(i), i \in Keys, i' = i,
         T(i)' = T(i) + 1,
         \A x \in Keys \ {i} : Living(x)' => Living(x) /\ T(x)' = T(x)
  PROVE  TurnInv'
<1> SUFFICES ASSUME NEW j \in Keys, NEW k \in Keys, Living(j)', Living(k)', j < k
             PROVE  T(j)' - T(k)' = Lead(j, k)'
  BY DEF TurnInv
<1>0. ASSUME NEW x \in Keys, Living(x)'
      PROVE  Living(x) /\ T(x)' = IF x = i THEN T(x) + 1 ELSE T(x)
  <2>1. CASE x = i
    BY <2>1
  <2>2. CASE x # i
    BY <1>0, <2>2
  <2> QED BY <2>1, <2>2
<1>1. /\ Living(j) /\ T(j) \in Int /\ T(j)' = IF j = i THEN T(j) + 1 ELSE T(j)
      /\ Living(k) /\ T(k) \in Int /\ T(k)' = IF k = i THEN T(k) + 1 ELSE T(k)
  BY <1>0, TurnsAreInts
<1>2. T(j) - T(k) = Lead(j, k)
  BY <1>1 DEF IInv, TurnInv
<1>3. Lead(j, k) = IF j < i /\ i <= k THEN 1 ELSE 0
  BY DEF Lead
<1>4. Lead(j, k)' = IF j < i + 1 /\ i + 1 <= k THEN 1 ELSE 0
  BY DEF Lead
<1>5. i \in Int /\ j \in Int /\ k \in Int
  BY DEF Keys
<1>6. CASE j = i
  BY <1>1, <1>2, <1>3, <1>4, <1>5, <1>6
<1>7. CASE k = i
  BY <1>1, <1>2, <1>3, <1>4, <1>5, <1>7
<1>8. CASE j # i /\ k # i
  BY <1>1, <1>2, <1>3, <1>4, <1>5, <1>8
<1> QED BY <1>6, <1>7, <1>8

\* Main goes on to the next key, round the end, when there is nobody at its
\* index who has not been served.
LEMMA NextTurn ==
  ASSUME IInv, Same, i \in Keys, i' = (i + 1) % CoNum, Bound' = i',
         Bound = i + 1 \/ (Bound = i /\ ~Living(i))
  PROVE  TurnInv'
<1> SUFFICES ASSUME NEW j \in Keys, NEW k \in Keys, Living(j)', Living(k)', j < k
             PROVE  T(j)' - T(k)' = Lead(j, k)'
  BY DEF TurnInv
<1>1. /\ Living(j) /\ T(j)' = T(j) /\ T(j) \in Int
      /\ Living(k) /\ T(k)' = T(k) /\ T(k) \in Int
  BY TurnsAreInts DEF Same
<1>2. T(j) - T(k) = Lead(j, k)
  BY <1>1 DEF IInv, TurnInv
<1>3. i \in 0..(CoNum - 1) /\ j \in 0..(CoNum - 1) /\ k \in 0..(CoNum - 1) /\ CoNum \in Nat
  BY ConstantFacts DEF Keys
<1>4. i' = IF i = CoNum - 1 THEN 0 ELSE i + 1
  BY NextKey
<1>5. Lead(j, k) = IF j < i + 1 /\ i + 1 <= k THEN 1 ELSE 0
  <2>1. CASE Bound = i + 1
    BY <2>1 DEF Lead
  <2>2. CASE Bound = i /\ ~Living(i)
    <3>1. j # i /\ k # i
      BY <1>1, <2>2
    <3> QED BY <1>3, <2>2, <3>1 DEF Lead
  <2> QED BY <2>1, <2>2
<1>6. Lead(j, k)' = IF j < i' /\ i' <= k THEN 1 ELSE 0
  BY DEF Lead
<1>7. Lead(j, k)' = Lead(j, k)
  BY <1>3, <1>4, <1>5, <1>6
<1> QED BY <1>1, <1>2, <1>7
-------------------------------------------------------------------------------
(***************************************************************************)
(* The invariant.                                                          *)
(***************************************************************************)

LEMMA IInvInit == Init => IInv
<1> SUFFICES ASSUME Init PROVE IInv
  OBVIOUS
<1>1. CP!IInv
  BY InitIsFactorys, CP!IInvInit, HandlesAssumption, ConstantFacts, SizeAssumption,
     SaveSizesAssumption DEF Init
<1>2. /\ pc = "create" /\ i = 0 /\ calling = FALSE /\ crs = <<>> /\ fault = "none"
      /\ phase = "live" /\ running = Main
  BY DEF Init, F!Init, F!Co!Init
<1>3. DOMAIN crs = {} /\ i \in Keys /\ \A k \in Keys : k \notin DOMAIN crs /\ ~(k < i)
  BY <1>2, SizesAssumption DEF Keys
<1>4. MainInv
  BY <1>2, <1>3 DEF MainInv
<1>5. RoutineInv /\ EndedInv /\ TurnInv
  BY <1>3 DEF RoutineInv, EndedInv, TurnInv, Living
<1> QED BY <1>1, <1>2, <1>4, <1>5 DEF IInv

LEMMA CreateStep == ASSUME IInv, Create PROVE IInv'
<1>1. /\ pc = "create" /\ F!cr_create(i) /\ i' = (i + 1) % CoNum /\ calling' = calling
      /\ pc' = IF i = CoNum - 1 THEN "visit" ELSE pc
  BY DEF Create, NextI
<1>2. /\ i \in Keys /\ phase = "live" /\ running = Main /\ ~calling
      /\ \A k \in Keys : k \in DOMAIN crs <=> k < i
      /\ \A k \in DOMAIN crs : Stk(k) = <<>>
  BY <1>1, MainAssumption DEF IInv, MainInv
<1>3. ASSUME NEW k \in Keys, k = i
      PROVE  /\ CP!IInv' /\ k \notin DOMAIN crs /\ DOMAIN crs' = DOMAIN crs \cup {k}
             /\ Living(k)' /\ Stk(k)' = <<>> /\ Val(k)' = Entry
             /\ \A x \in DOMAIN crs : Kept(x)
             /\ UNCHANGED <<running, cpu, fault, phase>>
  BY <1>1, <1>2, <1>3, CreateEffect DEF IInv
<1>4. /\ CP!IInv' /\ DOMAIN crs' = DOMAIN crs \cup {i}
      /\ \A x \in DOMAIN crs : Kept(x)
      /\ UNCHANGED <<running, cpu, fault, phase>>
  BY <1>2, <1>3
<1>5. DOMAIN crs \subseteq Keys
  BY MapShows DEF IInv
<1>6. ASSUME NEW k \in DOMAIN crs' PROVE Stk(k)' = <<>> /\ ~isEnd'[crs'[k]]
  <2>1. CASE k = i
    BY <1>2, <1>3, <2>1 DEF Living
  <2>2. CASE k \in DOMAIN crs
    <3>1. Kept(k) /\ ~isEnd[crs[k]] /\ Stk(k) = <<>>
      BY <1>1, <1>2, <1>4, <2>2 DEF IInv, EndedInv
    <3> QED BY <1>5, <2>2, <3>1, KeptSame DEF Kept
  <2> QED BY <1>4, <2>1, <2>2
<1>7. RoutineInv'
  <2> SUFFICES ASSUME NEW k \in DOMAIN crs'
               PROVE  Living(k)' => \/ NotEntered(k)' \/ BackFromYield(k)'
                                    \/ AtTest(k)' /\ running' = crs'[k]
    BY DEF RoutineInv
  <2>1. CASE k = i
    BY <1>2, <1>3, <2>1 DEF NotEntered
  <2>2. CASE k \in DOMAIN crs
    BY <1>4, <1>5, <2>2, KeptState DEF IInv
  <2> QED BY <1>4, <2>1, <2>2
<1>8. i' = (IF i = CoNum - 1 THEN 0 ELSE i + 1) /\ i' \in Keys
  BY <1>1, <1>2, NextKey
<1>9. pc' = "create" => \A k \in Keys : k \in DOMAIN crs' <=> k < i'
  <2>1. i \in 0..(CoNum - 1) /\ CoNum \in Nat
    BY <1>2, ConstantFacts DEF Keys
  <2> SUFFICES ASSUME pc' = "create", NEW k \in Keys
               PROVE  k \in DOMAIN crs' <=> k < i'
    OBVIOUS
  <2>2. i' = i + 1 /\ k \in Int
    BY <1>1, <1>8 DEF Keys
  <2>3. k \in DOMAIN crs' <=> k < i \/ k = i
    BY <1>2, <1>4
  <2> QED BY <2>1, <2>2, <2>3
<1>10. MainInv'
  <2>1. i' \in Keys /\ calling' \in BOOLEAN
    BY <1>1, <1>2, <1>8 DEF IInv, MainInv
  <2>2. pc' \in {"create", "visit"}
    BY <1>1
  <2>3. running' = Main /\ phase' = "live" /\ ~calling'
    BY <1>1, <1>2, <1>4
  <2>4. \A k \in DOMAIN crs' : Stk(k)' = <<>>
    BY <1>6
  <2> QED BY <1>9, <2>1, <2>2, <2>3, <2>4 DEF MainInv
<1>11. EndedInv'
  BY <1>6 DEF EndedInv
<1>12. TurnInv'
  <2> SUFFICES ASSUME NEW j \in Keys, NEW k \in Keys, Living(j)', Living(k)', j < k
               PROVE  T(j)' - T(k)' = Lead(j, k)'
    BY DEF TurnInv
  <2>1. j \in DOMAIN crs' /\ k \in DOMAIN crs'
    BY DEF Living
  <2>2. T(j)' = -1 /\ T(k)' = -1
    BY <1>6, <2>1 DEF T
  <2>3. /\ i \in 0..(CoNum - 1) /\ j \in 0..(CoNum - 1) /\ k \in 0..(CoNum - 1)
        /\ CoNum \in Nat
    BY <1>2, ConstantFacts DEF Keys
  <2>4. Bound' = i'
    BY <1>1 DEF Bound, Served
  <2>5. Lead(j, k)' = IF j < i' /\ i' <= k THEN 1 ELSE 0
    BY <2>4 DEF Lead
  <2>6. k <= i
    BY <1>2, <1>4, <2>1, <2>3
  <2>7. ~(j < i' /\ i' <= k)
    BY <1>8, <2>3, <2>6
  <2> QED BY <2>2, <2>5, <2>7
<1> QED BY <1>4, <1>7, <1>10, <1>11, <1>12 DEF IInv

\* A step after which all that exists looks as before, and whose running
\* routine is where it was.
LEMMA AllKept ==
  ASSUME IInv, crs' = crs, \A x \in DOMAIN crs : Kept(x),
         running' = running \/ \A x \in DOMAIN crs : Living(x) => running # crs[x] \/ ~AtTest(x)
  PROVE  RoutineInv' /\ Same
<1>1. DOMAIN crs \subseteq Keys
  BY MapShows DEF IInv
<1>2. ASSUME NEW x \in DOMAIN crs'
      PROVE  Living(x)' => \/ NotEntered(x)' \/ BackFromYield(x)'
                           \/ AtTest(x)' /\ running' = crs'[x]
  <2>1. x \in Keys /\ Kept(x) /\ x \in DOMAIN crs
    BY <1>1
  <2>2. Living(x)' = Living(x) /\ Stk(x)' = Stk(x) /\ Val(x)' = Val(x)
    BY <2>1, KeptSame
  <2> QED BY <2>1, <2>2 DEF IInv, RoutineInv, NotEntered, BackFromYield, AtTest
<1>3. ASSUME NEW x \in Keys, Living(x)' PROVE Living(x) /\ T(x)' = T(x)
  <2>1. x \in DOMAIN crs
    BY <1>3 DEF Living
  <2> QED BY <1>3, <2>1, KeptSame
<1> QED BY <1>2, <1>3 DEF RoutineInv, Same

LEMMA Visiting ==
  ASSUME i' \in Keys, pc' = "visit", calling' = FALSE, running' = Main, phase' = "live"
  PROVE  MainInv'
BY DEF MainInv

LEMMA InResumed ==
  ASSUME i' \in Keys, pc' = "resumed", calling' \in BOOLEAN, phase' = "live",
         i' \in DOMAIN crs', running' \in {Main, crs'[i']},
         calling' => running' # Main /\ cpu'.val = AfterYield
  PROVE  MainInv'
BY DEF MainInv

LEMMA NotCalling == ASSUME IInv, running = Main PROVE calling = FALSE
BY DEF IInv, MainInv

LEMMA ResumeStep == ASSUME IInv, Resume PROVE IInv'
<1>1. /\ pc = "visit" /\ i \in DOMAIN crs /\ F!cr_resume(i)
      /\ pc' = "resumed" /\ i' = i /\ calling' = calling
  BY DEF Resume, Resumable
<1>2. /\ i \in Keys /\ phase = "live" /\ running = Main /\ ~calling
  BY <1>1 DEF IInv, MainInv
<1>3. Living(i)
  BY <1>1 DEF IInv, EndedInv, Living
<1>4. /\ CP!IInv' /\ running' = crs[i] /\ fault' = "none"
      /\ \A x \in DOMAIN crs : Kept(x)
      /\ UNCHANGED <<crs, stop, phase>>
  BY <1>1, <1>2, <1>3, ResumeEffect
<1>5. ASSUME NEW x \in DOMAIN crs, Living(x) PROVE ~AtTest(x)
  <2>1. running # crs[x]
    BY <1>2, MapShows, HandlesAssumption DEF IInv
  <2> QED BY <1>5, <2>1 DEF IInv, RoutineInv, AtTest, NotEntered, BackFromYield, Entry,
                            LoopTest, AfterYield
<1>6. RoutineInv' /\ Same
  BY <1>4, <1>5, AllKept
<1>7. running' # Main /\ running' \in Handles
  BY <1>1, <1>4, MapShows, HandlesAssumption DEF IInv
<1>8. MainInv'
  BY <1>1, <1>2, <1>4, InResumed, NotCalling
<1>9. EndedInv'
  BY <1>1, <1>4 DEF IInv, EndedInv, Kept
<1>10. Bound' = Bound
  <2>1. Val(i) # LoopTest
    BY <1>1, <1>2, <1>3, <1>5, MapShows DEF IInv, RoutineInv, AtTest, NotEntered, BackFromYield, Entry,
       LoopTest, AfterYield
  <2>2. Val(i)' = Val(i)
    BY <1>1, <1>2, <1>4, KeptSame DEF Kept, Val
  <2> QED BY <1>1, <1>2, <1>7, <2>1, <2>2 DEF Bound, Served
<1>11. TurnInv'
  BY <1>6, <1>10, NoTurn
<1> QED BY <1>4, <1>6, <1>8, <1>9, <1>11 DEF IInv

LEMMA SkipStep == ASSUME IInv, Skip PROVE IInv'
<1>1. /\ pc = "visit" /\ ~(i \in DOMAIN crs /\ crs[i] \notin stop)
      /\ i' = (i + 1) % CoNum /\ UNCHANGED <<pc, calling, factoryVars, acoVars>>
  BY DEF Skip, Resumable, NextI
<1>2. i \in Keys /\ phase = "live" /\ running = Main /\ ~calling
  BY <1>1 DEF IInv, MainInv
<1>3. ~Living(i)
  BY <1>1, <1>2, MapShows DEF IInv, Living
<1>4. CP!IInv'
  <2>1. CP!AP!IInv'
    BY <1>1, CP!CoStutter, HandlesAssumption, ConstantFacts, SizeAssumption,
       SaveSizesAssumption DEF IInv, CP!IInv, acoVars, CP!acoVars
  <2> QED BY <1>1, <1>2, <2>1, CP!KeepingStep, HandlesAssumption, ConstantFacts,
             SizeAssumption, SaveSizesAssumption
          DEF IInv, factoryVars, acoVars, CP!factoryVars
<1>5. \A x \in DOMAIN crs : Kept(x)
  BY <1>1 DEF Kept, factoryVars, acoVars, CP!AP!Stacks, CP!AP!StackOf, CP!AP!Context,
         CP!AP!Live, CP!AP!Values
<1>6. UNCHANGED <<crs, phase, running, fault, isEnd>>
  BY <1>1 DEF factoryVars, acoVars
<1>7. RoutineInv' /\ Same
  BY <1>5, <1>6, AllKept
<1>8. i' \in Keys
  BY <1>1, <1>2, NextKey
<1>9. MainInv'
  BY <1>1, <1>2, <1>6, <1>8, Visiting, NotCalling
<1>10. EndedInv'
  BY <1>1, <1>6 DEF IInv, EndedInv
<1>11. Bound = i /\ Bound' = i'
  BY <1>1 DEF Bound, Served
<1>12. TurnInv'
  BY <1>1, <1>2, <1>3, <1>7, <1>11, NextTurn
<1> QED BY <1>4, <1>6, <1>7, <1>9, <1>10, <1>12 DEF IInv

LEMMA ResumedStep == ASSUME IInv, Resumed PROVE IInv'
<1>1. /\ pc = "resumed" /\ running = Main /\ pc' = "visit"
      /\ i' = (i + 1) % CoNum /\ calling' = calling
      /\ IF crs[i] \in stop THEN F!cr_remove(i) ELSE UNCHANGED <<factoryVars, acoVars>>
  BY DEF Resumed, NextI
<1>2. i \in Keys /\ i \in DOMAIN crs /\ phase = "live" /\ ~calling
  BY <1>1 DEF IInv, MainInv
<1>3. /\ CP!IInv' /\ UNCHANGED <<running, phase, fault>>
      /\ DOMAIN crs' \subseteq DOMAIN crs /\ \A x \in DOMAIN crs' : Kept(x)
      /\ i \in DOMAIN crs' => ~isEnd[crs[i]]
  <2>1. CASE crs[i] \in stop
    BY <1>1, <1>2, <2>1, RemoveEffect
  <2>2. CASE crs[i] \notin stop
    <3>1. UNCHANGED <<factoryVars, acoVars>>
      BY <1>1, <2>2
    <3>2. CP!IInv'
      <4>1. CP!AP!IInv'
        BY <3>1, CP!CoStutter, HandlesAssumption, ConstantFacts, SizeAssumption,
           SaveSizesAssumption DEF IInv, CP!IInv, acoVars, CP!acoVars
      <4> QED BY <1>2, <3>1, <4>1, CP!KeepingStep, HandlesAssumption, ConstantFacts,
                 SizeAssumption, SaveSizesAssumption
              DEF IInv, factoryVars, acoVars, CP!factoryVars
    <3>3. \A x \in DOMAIN crs : Kept(x)
      BY <3>1 DEF Kept, factoryVars, acoVars, CP!AP!Stacks, CP!AP!StackOf, CP!AP!Context,
             CP!AP!Live, CP!AP!Values
    <3>4. UNCHANGED <<crs, running, phase, fault>>
      BY <3>1 DEF factoryVars, acoVars
    <3>5. ~isEnd[crs[i]]
      BY <1>2, <2>2, MapShows DEF IInv
    <3> QED BY <3>2, <3>3, <3>4, <3>5
  <2> QED BY <2>1, <2>2
<1>4. DOMAIN crs \subseteq Keys
  BY MapShows DEF IInv
<1>5. RoutineInv'
  <2> SUFFICES ASSUME NEW x \in DOMAIN crs'
               PROVE  Living(x)' => \/ NotEntered(x)' \/ BackFromYield(x)'
                                    \/ AtTest(x)' /\ running' = crs'[x]
    BY DEF RoutineInv
  <2> QED BY <1>3, <1>4, KeptState DEF IInv
<1>6. Same
  <2> SUFFICES ASSUME NEW x \in Keys, Living(x)' PROVE Living(x) /\ T(x)' = T(x)
    BY DEF Same
  <2>1. x \in DOMAIN crs'
    BY DEF Living
  <2> QED BY <1>3, <2>1, KeptSame
<1>7. i' \in Keys
  BY <1>1, <1>2, NextKey
<1>8. MainInv'
  BY <1>1, <1>2, <1>3, <1>7, Visiting, NotCalling
<1>9. EndedInv'
  <2> SUFFICES ASSUME NEW x \in DOMAIN crs' PROVE ~isEnd'[crs'[x]]
    BY DEF EndedInv
  <2>1. Kept(x) /\ x \in DOMAIN crs
    BY <1>3
  <2>2. ~isEnd[crs[x]]
    BY <1>3, <2>1 DEF IInv, EndedInv
  <2> QED BY <2>1, <2>2 DEF Kept
<1>10. Bound = i + 1 /\ Bound' = i'
  BY <1>1 DEF Bound, Served
<1>11. TurnInv'
  BY <1>1, <1>2, <1>6, <1>10, NextTurn
<1> QED BY <1>3, <1>5, <1>8, <1>9, <1>11 DEF IInv

\* A step of the routine, seen from the others.
LEMMA RoutineMoves ==
  ASSUME IInv, running # Main, UNCHANGED <<crs, running, i>>,
         AtTest(i)' \/ BackFromYield(i)', Living(i)',
         \A x \in DOMAIN crs \ {i} : Kept(x)
  PROVE  /\ RoutineInv'
         /\ \A x \in Keys \ {i} : Living(x)' => Living(x) /\ T(x)' = T(x)
         /\ \A x \in DOMAIN crs' : ~isEnd'[crs'[x]]
<1>1. i \in DOMAIN crs /\ crs[i] = running /\ DOMAIN crs \subseteq Keys
  BY RoutineShows, MapShows DEF IInv
<1>2. ASSUME NEW x \in DOMAIN crs'
      PROVE  Living(x)' => \/ NotEntered(x)' \/ BackFromYield(x)'
                           \/ AtTest(x)' /\ running' = crs'[x]
  <2>1. CASE x = i
    BY <1>1, <2>1
  <2>2. CASE x # i
    BY <1>1, <2>2, KeptState DEF IInv
  <2> QED BY <2>1, <2>2
<1>3. ASSUME NEW x \in Keys \ {i}, Living(x)' PROVE Living(x) /\ T(x)' = T(x)
  <2>1. x \in DOMAIN crs
    BY <1>3 DEF Living
  <2> QED BY <1>3, <2>1, KeptSame
<1>4. ASSUME NEW x \in DOMAIN crs' PROVE ~isEnd'[crs'[x]]
  <2>1. CASE x = i
    BY <2>1 DEF Living
  <2>2. CASE x # i
    <3>1. ~isEnd[crs[x]] /\ Kept(x)
      BY <2>2 DEF IInv, EndedInv
    <3> QED BY <3>1 DEF Kept
  <2> QED BY <2>1, <2>2
<1> QED BY <1>2, <1>3, <1>4 DEF RoutineInv

LEMMA EnterStep == ASSUME IInv, EnterRoutine PROVE IInv'
<1>1. /\ running # Main /\ cpu.val = Entry /\ calling = FALSE
      /\ UNCHANGED <<running, fault, crs, stop, phase, pc, i, calling>>
  BY DEF EnterRoutine, InRoutine, driverVars, factoryVars, IInv, MainInv
<1>2. /\ NotEntered(i) /\ CP!IInv'
      /\ Living(i)' /\ AtTest(i)' /\ Stk(i)'[1] = i
      /\ \A x \in DOMAIN crs \ {i} : Kept(x)
  BY EnterEffect
<1>3. pc = "resumed" /\ phase = "live" /\ i \in Keys /\ i \in DOMAIN crs /\ crs[i] = running
      /\ Living(i)
  BY <1>1, RoutineShows
<1>4. /\ RoutineInv' /\ \A x \in Keys \ {i} : Living(x)' => Living(x) /\ T(x)' = T(x)
      /\ \A x \in DOMAIN crs' : ~isEnd'[crs'[x]]
  BY <1>1, <1>2, RoutineMoves
<1>5. MainInv'
  BY <1>1, <1>3, InResumed
<1>6. EndedInv'
  BY <1>4 DEF EndedInv
<1>7. T(i) = -1 /\ T(i)' = 0
  <2>1. T(i) = -1
    BY <1>2 DEF NotEntered, T
  <2>2. Stk(i)' # <<>>
    <3>1. DOMAIN Stk(i)' = 1..Frame
      BY <1>2 DEF AtTest, Frames
    <3> QED BY <3>1, ConstantFacts
  <2>3. T(i)' = i - i
    BY <1>1, <1>2, <2>2 DEF T
  <2> QED BY <1>3, <2>1, <2>3 DEF Keys
<1>8. Bound = i /\ Bound' = i + 1
  <2>1. Val(i) = Entry /\ Val(i)' = LoopTest
    BY <1>2 DEF NotEntered, AtTest
  <2> QED BY <1>1, <1>3, <2>1 DEF Bound, Served, Entry, LoopTest
<1>9. TurnInv'
  BY <1>1, <1>3, <1>4, <1>7, <1>8, OneTurn
<1> QED BY <1>1, <1>2, <1>4, <1>5, <1>6, <1>9 DEF IInv

LEMMA CountDownStep == ASSUME IInv, CountDown PROVE IInv'
<1>1. /\ running # Main /\ cpu.val = AfterYield /\ calling = FALSE
      /\ UNCHANGED <<running, fault, crs, stop, phase, pc, i, calling>>
  BY DEF CountDown, InRoutine, driverVars, factoryVars, IInv, MainInv
<1>2. /\ BackFromYield(i) /\ CP!IInv'
      /\ Living(i)' /\ AtTest(i)' /\ Stk(i)'[1] = Stk(i)[1] - 1
      /\ \A x \in DOMAIN crs \ {i} : Kept(x)
  BY CountDownEffect
<1>3. pc = "resumed" /\ phase = "live" /\ i \in Keys /\ i \in DOMAIN crs /\ crs[i] = running
      /\ Living(i)
  BY <1>1, RoutineShows
<1>4. /\ RoutineInv' /\ \A x \in Keys \ {i} : Living(x)' => Living(x) /\ T(x)' = T(x)
      /\ \A x \in DOMAIN crs' : ~isEnd'[crs'[x]]
  BY <1>1, <1>2, RoutineMoves
<1>5. MainInv'
  BY <1>1, <1>3, InResumed
<1>6. EndedInv'
  BY <1>4 DEF EndedInv
<1>7. T(i)' = T(i) + 1
  <2>1. Stk(i) # <<>> /\ Stk(i)' # <<>>
    <3>1. DOMAIN Stk(i) = 1..Frame /\ DOMAIN Stk(i)' = 1..Frame
      BY <1>2 DEF AtTest, BackFromYield, Frames
    <3> QED BY <3>1, ConstantFacts
  <2>2. T(i) = i - Stk(i)[1] /\ T(i)' = i - (Stk(i)[1] - 1)
    BY <1>1, <1>2, <2>1 DEF T
  <2>3. Stk(i)[1] \in Int /\ i \in Int
    BY <1>2, <1>3 DEF BackFromYield, Keys
  <2> QED BY <2>2, <2>3
<1>8. Bound = i /\ Bound' = i + 1
  <2>1. Val(i) = AfterYield /\ Val(i)' = LoopTest
    BY <1>2 DEF BackFromYield, AtTest
  <2> QED BY <1>1, <1>3, <2>1 DEF Bound, Served, AfterYield, LoopTest
<1>9. TurnInv'
  BY <1>1, <1>3, <1>4, <1>7, <1>8, OneTurn
<1> QED BY <1>1, <1>2, <1>4, <1>5, <1>6, <1>9 DEF IInv

LEMMA CallYieldStep == ASSUME IInv, CallYield PROVE IInv'
<1>1. /\ running # Main /\ cpu' = [cpu EXCEPT !.val = AfterYield] /\ calling' = TRUE
      /\ UNCHANGED <<running, fault, crs, stop, phase, pc, i>>
  BY DEF CallYield, InRoutine, driverVars, factoryVars
<1>2. /\ AtTest(i) /\ CP!IInv'
      /\ Living(i)' /\ BackFromYield(i)' /\ Stk(i)' = Stk(i)
      /\ \A x \in DOMAIN crs \ {i} : Kept(x)
  BY CallYieldEffect
<1>3. pc = "resumed" /\ phase = "live" /\ i \in Keys /\ i \in DOMAIN crs /\ crs[i] = running
      /\ Living(i)
  BY <1>1, RoutineShows
<1>4. /\ RoutineInv' /\ \A x \in Keys \ {i} : Living(x)' => Living(x) /\ T(x)' = T(x)
      /\ \A x \in DOMAIN crs' : ~isEnd'[crs'[x]]
  BY <1>1, <1>2, RoutineMoves
<1>5. MainInv'
  <2>1. cpu = [sp |-> cpu.sp, val |-> cpu.val]
    BY <1>1, RunningShows DEF IInv, CP!IInv
  <2>2. cpu'.val = AfterYield
    BY <1>1, <2>1
  <2> QED BY <1>1, <1>3, <2>2, InResumed
<1>6. EndedInv'
  BY <1>4 DEF EndedInv
<1>7. Same
  <2>1. T(i)' = T(i)
    BY <1>1, <1>2 DEF T
  <2> SUFFICES ASSUME NEW x \in Keys, Living(x)' PROVE Living(x) /\ T(x)' = T(x)
    BY DEF Same
  <2>2. CASE x = i
    BY <1>1, <1>3, <2>1, <2>2
  <2>3. CASE x # i
    BY <1>4, <2>3
  <2> QED BY <2>2, <2>3
<1>8. Bound' = Bound
  <2>1. Val(i) = LoopTest
    BY <1>2 DEF AtTest
  <2> QED BY <1>1, <1>3, <2>1 DEF Bound, Served
<1>9. TurnInv'
  BY <1>7, <1>8, NoTurn
<1> QED BY <1>1, <1>2, <1>4, <1>5, <1>6, <1>9 DEF IInv

LEMMA YieldStep == ASSUME IInv, Yield PROVE IInv'
<1>1. /\ CP!IInv' /\ running' = Main /\ running # Main /\ fault' = "none"
      /\ \A x \in DOMAIN crs : Kept(x)
      /\ UNCHANGED <<crs, phase>>
  BY YieldEffect
<1>2. calling /\ calling' = FALSE /\ UNCHANGED <<pc, i>>
  BY DEF Yield, driverVars
<1>3. /\ pc = "resumed" /\ phase = "live" /\ i \in Keys /\ i \in DOMAIN crs
      /\ crs[i] = running /\ Val(i) = cpu.val
  BY <1>1, RoutineShows
<1>4. Val(i) = AfterYield
  BY <1>2, <1>3 DEF IInv, MainInv
<1>5. ASSUME NEW x \in DOMAIN crs, Living(x) PROVE running # crs[x] \/ ~AtTest(x)
  <2>1. CASE x = i
    BY <1>4, <2>1 DEF AtTest, AfterYield, LoopTest
  <2>2. CASE x # i
    BY <1>3, <2>2, MapShows DEF IInv
  <2> QED BY <2>1, <2>2
<1>6. RoutineInv' /\ Same
  BY <1>1, <1>5, AllKept
<1>7. MainInv'
  BY <1>1, <1>2, <1>3, InResumed
<1>8. EndedInv'
  BY <1>1 DEF IInv, EndedInv, Kept
<1>9. Bound' = Bound
  BY <1>1, <1>2, <1>3 DEF Bound, Served
<1>10. TurnInv'
  BY <1>6, <1>9, NoTurn
<1> QED BY <1>1, <1>6, <1>7, <1>8, <1>10 DEF IInv

LEMMA ReturnStep == ASSUME IInv, ReturnFromRoutine PROVE IInv'
<1>1. /\ CP!IInv' /\ running' = Main /\ running # Main /\ fault' = "none"
      /\ AtTest(i) /\ isEnd'[crs[i]]
      /\ \A x \in DOMAIN crs \ {i} : Kept(x)
      /\ UNCHANGED <<crs, phase>>
  BY ReturnEffect
<1>2. calling = FALSE /\ calling' = FALSE /\ UNCHANGED <<pc, i>>
  BY DEF ReturnFromRoutine, InRoutine, driverVars, IInv, MainInv
<1>3. /\ pc = "resumed" /\ phase = "live" /\ i \in Keys /\ i \in DOMAIN crs
      /\ DOMAIN crs \subseteq Keys
  BY <1>1, RoutineShows, MapShows DEF IInv
<1>4. RoutineInv'
  <2> SUFFICES ASSUME NEW x \in DOMAIN crs', Living(x)'
               PROVE  NotEntered(x)' \/ BackFromYield(x)' \/ (AtTest(x)' /\ running' = crs'[x])
    BY DEF RoutineInv
  <2>1. x # i
    BY <1>1 DEF Living
  <2>2. Kept(x) /\ x \in Keys /\ crs[x] # crs[i]
    BY <1>1, <1>3, <2>1, MapShows DEF IInv
  <2>3. running = crs[i]
    BY <1>1, RoutineShows
  <2>4. running # crs[x]
    BY <2>2, <2>3
  <2> QED BY <2>2, <2>4, KeptState DEF IInv
<1>5. Same
  <2> SUFFICES ASSUME NEW x \in Keys, Living(x)' PROVE Living(x) /\ T(x)' = T(x)
    BY DEF Same
  <2>1. x # i /\ x \in DOMAIN crs
    BY <1>1 DEF Living
  <2> QED BY <1>1, <2>1, KeptSame
<1>6. MainInv'
  BY <1>1, <1>2, <1>3, InResumed
<1>7. EndedInv'
  <2> SUFFICES ASSUME NEW x \in DOMAIN crs', x # i PROVE ~isEnd'[crs'[x]]
    BY <1>1, <1>2, <1>3 DEF EndedInv
  <2>1. ~isEnd[crs[x]] /\ Kept(x)
    BY <1>1 DEF IInv, EndedInv
  <2> QED BY <2>1 DEF Kept
<1>8. Bound' = Bound
  <2>1. Val(i) = LoopTest
    BY <1>1 DEF AtTest
  <2> QED BY <1>1, <1>2, <1>3, <2>1 DEF Bound, Served
<1>9. TurnInv'
  BY <1>5, <1>8, NoTurn
<1> QED BY <1>1, <1>4, <1>6, <1>7, <1>9 DEF IInv

\* An empty factory is left to be destroyed.
LEMMA NobodyLeft ==
  ASSUME DOMAIN crs' = {}, i' \in Keys, pc' \in {"leave", "done"}, calling' = FALSE,
         running' = Main
  PROVE  RoutineInv' /\ MainInv' /\ EndedInv' /\ TurnInv'
BY DEF RoutineInv, MainInv, EndedInv, TurnInv, Living

LEMMA LeaveStep == ASSUME IInv, Leave \/ FactoryDtor PROVE IInv'
<1>1. /\ F!DtorBegin \/ F!DtorStack \/ F!DtorEnd
      /\ pc # "resumed" /\ pc' \in {"leave", "done"} /\ UNCHANGED <<i, calling>>
      /\ DOMAIN crs = {}
  BY DEF Leave, FactoryDtor, Gone, IInv, MainInv
<1>2. CP!IInv'
  BY <1>1, DtorIsFactorys, CP!DtorStep, HandlesAssumption, ConstantFacts, SizeAssumption,
     SaveSizesAssumption DEF IInv
<1>3. UNCHANGED <<running, fault>> /\ DOMAIN crs' = {}
  BY <1>1 DEF F!DtorBegin, F!DtorStack, F!DtorEnd, F!acoVars
<1>4. running = Main /\ calling = FALSE /\ i \in Keys
  BY <1>1 DEF IInv, MainInv
<1> QED BY <1>1, <1>2, <1>3, <1>4, NobodyLeft DEF IInv

LEMMA StutterStep == ASSUME IInv, UNCHANGED vars PROVE IInv'
<1>1. CP!IInv'
  <2>1. CP!AP!IInv'
    BY CP!CoStutter, HandlesAssumption, ConstantFacts, SizeAssumption, SaveSizesAssumption
       DEF IInv, CP!IInv, vars, acoVars, CP!acoVars
  <2> QED BY <2>1 DEF IInv, CP!IInv, CP!MapInv, CP!PhaseInv, CP!StopIsEnded, CP!Range,
                      CP!IsInjective, vars, acoVars, factoryVars
<1>2. UNCHANGED <<pc, i, calling, crs, phase, running, cpu, fault, isEnd>>
  BY DEF vars, driverVars, factoryVars, acoVars
<1>3. CP!AP!Stacks' = CP!AP!Stacks /\ CP!AP!Values' = CP!AP!Values
  BY DEF vars, acoVars, CP!AP!Stacks, CP!AP!StackOf, CP!AP!Context, CP!AP!Live,
         CP!AP!Values
<1>4. \A x \in DOMAIN crs : Kept(x)
  BY <1>2, <1>3 DEF Kept
<1>5. RoutineInv' /\ Same
  BY <1>2, <1>4, AllKept
<1>6. MainInv' /\ EndedInv'
  BY <1>2, <1>3 DEF IInv, MainInv, EndedInv, Stk
<1>7. Bound' = Bound
  BY <1>2, <1>3 DEF Bound, Served, Val
<1>8. TurnInv'
  BY <1>5, <1>7, NoTurn
<1> QED BY <1>1, <1>2, <1>5, <1>6, <1>8 DEF IInv

LEMMA IInvStep == IInv /\ [Next]_vars => IInv'
<1> SUFFICES ASSUME IInv, [Next]_vars PROVE IInv'
  OBVIOUS
<1>1. CASE UNCHANGED vars
  BY <1>1, StutterStep
<1>2. CASE Step
  <2>1. CASE Create
    BY <2>1, CreateStep
  <2>2. CASE Resume
    BY <2>2, ResumeStep
  <2>3. CASE Skip
    BY <2>3, SkipStep
  <2>4. CASE Resumed
    BY <2>4, ResumedStep
  <2>5. CASE Leave \/ FactoryDtor
    BY <2>5, LeaveStep
  <2>6. CASE EnterRoutine
    BY <2>6, EnterStep
  <2>7. CASE CallYield
    BY <2>7, CallYieldStep
  <2>8. CASE Yield
    BY <2>8, YieldStep
  <2>9. CASE CountDown
    BY <2>9, CountDownStep
  <2>10. CASE ReturnFromRoutine
    BY <2>10, ReturnStep
  <2> QED BY <1>2, <2>1, <2>2, <2>3, <2>4, <2>5, <2>6, <2>7, <2>8, <2>9, <2>10 DEF Step
<1> QED BY <1>1, <1>2 DEF Next, Over

LEMMA IInvAlways == Spec => []IInv
BY IInvInit, IInvStep, PTL DEF Spec
-------------------------------------------------------------------------------
(***************************************************************************)
(* Theorems.                                                               *)
(***************************************************************************)

\* The program's state, the factory's and libaco's included, keeps its type.
THEOREM TypeCorrect == Spec => []TypeOK
<1>1. IInv => TypeOK
  <2> SUFFICES ASSUME IInv PROVE TypeOK
    OBVIOUS
  <2>1. F!Co!TypeOK
    BY DEF IInv, CP!IInv, CP!AP!IInv, CP!AP!TypeOK, F!Co!TypeOK, CP!AP!Contexts,
           F!Co!Contexts, CP!AP!Depths, F!Co!Depths, CP!AP!Contents, F!Co!Contents,
           CP!AP!Faults, F!Co!Faults
  <2>2. /\ DOMAIN crs \subseteq Keys /\ F!Range(crs) \subseteq Handles
        /\ stop \subseteq Handles /\ phase \in F!Phases
    BY DEF IInv, CP!IInv, CP!MapInv, CP!PhaseInv, CP!Range, F!Range, CP!Phases, F!Phases
  <2> QED BY <2>1, <2>2 DEF IInv, MainInv, TypeOK, F!TypeOK
<1> QED BY <1>1, IInvAlways, PTL

\* For any number of coroutines, any frame that fits the stack and any
\* addresses, main never makes libaco's assertions fail.
THEOREM RunsWithoutAbort == Spec => []NeverAborts
<1>1. IInv => NeverAborts
  BY DEF IInv, NeverAborts
<1> QED BY <1>1, IInvAlways, PTL

LEMMA StartedShows ==
  ASSUME IInv, pc = "visit", NEW k \in Keys, Started(k)
  PROVE  Living(k) /\ Turns(k) = T(k)
<1>1. /\ k \in DOMAIN crs /\ F!Co!Context(crs[k]).sp > 0 /\ running = Main
      /\ phase = "live"
  BY DEF Started, IInv, MainInv
<1>2. Living(k)
  BY <1>1 DEF IInv, EndedInv, Living
<1>3. crs[k] \in Handles /\ crs[k] \in alloc /\ crs[k] # running
  BY <1>1, MapShows, HandlesAssumption DEF IInv
<1>4. Stk(k) = F!Co!StackOf(crs[k])
  BY <1>2, <1>3 DEF Living, Stk, CP!AP!Stacks, CP!AP!Live, CP!AP!StackOf, F!Co!StackOf,
                    CP!AP!Context, F!Co!Context
<1>5. reg[crs[k]].sp > 0
  BY <1>1, <1>3 DEF F!Co!Context
<1>6. Stk(k) # <<>>
  <2>1. CASE owner = crs[k]
    <3>1. Stk(k) = [n \in 1..reg[crs[k]].sp |-> mem[n]]
      BY <1>3, <1>4, <2>1 DEF F!Co!StackOf, F!Co!Context
    <3>2. reg[crs[k]].sp \in Nat
      BY <1>3, ConstantFacts DEF IInv, CP!IInv, CP!AP!IInv, CP!AP!TypeOK, CP!AP!Contexts,
                                 CP!AP!Depths
    <3>3. 1 \in DOMAIN Stk(k)
      BY <1>5, <3>1, <3>2
    <3> QED BY <3>3
  <2>2. CASE owner # crs[k]
    <3>1. Stk(k) = saved[crs[k]]
      BY <1>4, <2>2 DEF F!Co!StackOf
    <3>2. Len(saved[crs[k]]) = reg[crs[k]].sp
      BY <1>2, <1>3, <2>2 DEF Living, CP!AP!Live, IInv, CP!IInv, CP!AP!IInv,
                              CP!AP!SuspendedComplete
    <3> QED BY <1>5, <3>1, <3>2
  <2> QED BY <2>1, <2>2
<1> QED BY <1>2, <1>4, <1>6 DEF Turns, T

\* For any number of coroutines, main's round gives everyone who is still
\* running exactly one turn.
THEOREM TurnsAreFair == Spec => []InTurn
<1>1. IInv => InTurn
  <2> SUFFICES ASSUME IInv, pc = "visit", NEW j \in Keys, NEW k \in Keys,
                      Started(j), Started(k), j < k
               PROVE  Turns(j) - Turns(k) = IF j < i /\ i <= k THEN 1 ELSE 0
    BY DEF InTurn
  <2>1. /\ Living(j) /\ Turns(j) = T(j)
        /\ Living(k) /\ Turns(k) = T(k)
    BY StartedShows
  <2>2. T(j) - T(k) = Lead(j, k)
    BY <2>1 DEF IInv, TurnInv
  <2>3. Bound = i
    BY DEF Bound, Served
  <2> QED BY <2>1, <2>2, <2>3 DEF Lead
<1> QED BY <1>1, IInvAlways, PTL
===============================================================================
