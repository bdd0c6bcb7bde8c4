------------------------------ MODULE Aco_proofs ------------------------------
(***************************************************************************)
(* Proofs about Aco for any number of coroutines, any size of the shared   *)
(* stack and any size of the save buffers.                                 *)
(***************************************************************************)
EXTENDS Aco, TLAPS

IInv == /\ TypeOK
        /\ OwnerCurrent
        /\ SuspendedComplete
        /\ SavedFits
-------------------------------------------------------------------------------
(***************************************************************************)
(* What is copied between the stack and the save buffers.                  *)
(***************************************************************************)

LEMMA FunctionIsSequence ==
  ASSUME NEW S, NEW n \in Nat, NEW f \in [1..n -> S]
  PROVE  f \in Seq(S) /\ Len(f) = n /\ DOMAIN f = 1..n
OBVIOUS

(* The content of a save buffer is a sequence of words no longer than Limit. *)
LEMMA ContentsAreSequences ==
  ASSUME NEW s \in Contents
  PROVE  /\ s \in Seq(Words)
         /\ Len(s) \in 0..Limit
         /\ DOMAIN s = 1..Len(s)
         /\ \A k \in 1..Len(s) : s[k] \in Words
<1>1. PICK n \in 0..Limit : s \in [1..n -> Words]
  BY DEF Contents
<1>2. n \in Nat
  BY SizeAssumption
<1>3. s \in Seq(Words) /\ Len(s) = n /\ DOMAIN s = 1..n
  BY <1>1, <1>2, FunctionIsSequence
<1> QED
  BY <1>1, <1>3

LEMMA EmptyContents == <<>> \in Contents /\ Len(<<>>) = 0
<1>1. <<>> \in [1..0 -> Words]
  OBVIOUS
<1>2. 0 \in 0..Limit
  BY SizeAssumption
<1> QED
  BY <1>1, <1>2 DEF Contents

(* An owner whose stack pointer is in range is saved whole.                *)
LEMMA InUseContents ==
  ASSUME TypeOK, NEW h \in Handles, SpInRange(h)
  PROVE  InUse(h) \in Contents /\ Len(InUse(h)) = reg[h].sp
<1> DEFINE n == reg[h].sp
<1>1. n \in 0..Limit /\ n \in Nat
  BY SizeAssumption DEF TypeOK, Contexts, Depths, SpInRange
<1>2. \A k \in 1..n : mem[k] \in Words
  BY <1>1, SizeAssumption DEF TypeOK
<1>3. InUse(h) \in [1..n -> Words]
  BY <1>2 DEF InUse
<1>4. Len(InUse(h)) = n
  BY <1>1, <1>3, FunctionIsSequence
<1>5. InUse(h) \in Contents
  BY <1>1, <1>3 DEF Contents
<1> QED
  BY <1>4, <1>5

(* A save buffer that has grown is large enough.                           *)
LEMMA GrownIsEnough ==
  ASSUME NEW sz \in Nat, NEW need \in Nat, NEW n \in GrownTo(sz, need)
  PROVE  n \in Nat /\ n >= need
BY DEF GrownTo

(* What Restore leaves on the stack are words again.                       *)
LEMMA RestoreType ==
  ASSUME TypeOK, NEW h \in Handles, Restore(h)
  PROVE  mem' \in [1..(Limit + Slack) -> Words]
<1>1. saved[h] \in Contents
  BY DEF TypeOK
<1>2. \A k \in DOMAIN saved[h] : saved[h][k] \in Words
  BY <1>1, ContentsAreSequences
<1> QED
  BY <1>2 DEF Restore, TypeOK

(* The effect of saving the displaced owner.                               *)
LEMMA SaveOwnerEffect ==
  ASSUME TypeOK, owner \in Handles, SpInRange(owner), SaveOwner
  PROVE  /\ saved' \in [Handles -> Contents]
         /\ saveSz' \in [Handles -> Nat]
         /\ Len(saved'[owner]) = reg[owner].sp
         /\ Len(saved'[owner]) <= saveSz'[owner]
         /\ \A h \in Handles \ {owner} : /\ saved'[h] = saved[h]
                                         /\ saveSz'[h] = saveSz[h]
<1>1. InUse(owner) \in Contents /\ Len(InUse(owner)) = reg[owner].sp
  BY InUseContents
<1>2. reg[owner].sp \in Nat /\ saveSz[owner] \in Nat
  BY SizeAssumption DEF TypeOK, Contexts, Depths
<1>3. PICK n \in GrownTo(saveSz[owner], reg[owner].sp) :
        saveSz' = [saveSz EXCEPT ![owner] = n]
  BY DEF SaveOwner
<1>4. n \in Nat /\ n >= reg[owner].sp
  BY <1>2, GrownIsEnough
<1>5. saved' = [saved EXCEPT ![owner] = InUse(owner)]
  BY DEF SaveOwner
<1> QED
  BY <1>1, <1>3, <1>4, <1>5 DEF TypeOK
-------------------------------------------------------------------------------

LEMMA IInvInit == Init => IInv
<1> SUFFICES ASSUME Init PROVE IInv
  OBVIOUS
<1>1. Fresh \in Contexts
  BY WordsAssumption, SizeAssumption DEF Fresh, Contexts, Depths
<1>2. TypeOK
  BY <1>1, EmptyContents, WordsAssumption DEF Init, TypeOK, Faults
<1>3. OwnerCurrent /\ SuspendedComplete /\ SavedFits
  BY DEF Init, OwnerCurrent, SuspendedComplete, SavedFits
<1> QED
  BY <1>2, <1>3 DEF IInv

(* An assertion that fails changes nothing but fault.                      *)
LEMMA AbortKeeps ==
  ASSUME IInv, NEW why \in Faults, Abort(why)
  PROVE  IInv'
BY DEF IInv, Abort, coVars, TypeOK, OwnerCurrent, SuspendedComplete, SavedFits, Live

LEMMA CreateStep ==
  ASSUME IInv, NEW h \in Handles, NEW sz \in SaveSizes, aco_create(h, sz)
  PROVE  IInv'
<1> USE DEF IInv, aco_create
<1>1. Fresh \in Contexts /\ Fresh.sp = 0
  BY WordsAssumption, SizeAssumption DEF Fresh, Contexts, Depths
<1>2. TypeOK'
  BY <1>1, EmptyContents, SaveSizesAssumption DEF TypeOK
<1>3. OwnerCurrent'
  BY DEF OwnerCurrent, Live, TypeOK
<1>4. SuspendedComplete'
  <2> SUFFICES ASSUME NEW g \in alloc', Live(g)', owner' # g
               PROVE  Len(saved'[g]) = reg'[g].sp
    BY DEF SuspendedComplete
  <2>1. CASE g = h
    BY <2>1, <1>1, EmptyContents DEF TypeOK
  <2>2. CASE g # h
    <3>1. g \in alloc /\ Live(g) /\ owner # g
      BY <2>2 DEF Live, TypeOK
    <3>2. saved'[g] = saved[g] /\ reg'[g] = reg[g]
      BY <2>2, <3>1 DEF TypeOK
    <3> QED BY <3>1, <3>2 DEF SuspendedComplete
  <2> QED BY <2>1, <2>2
<1>5. SavedFits'
  <2> SUFFICES ASSUME NEW g \in alloc' PROVE Len(saved'[g]) <= saveSz'[g]
    BY DEF SavedFits
  <2>1. CASE g = h
    BY <2>1, EmptyContents, SaveSizesAssumption DEF TypeOK
  <2>2. CASE g # h
    BY <2>2 DEF SavedFits, TypeOK
  <2> QED BY <2>1, <2>2
<1> QED
  BY <1>2, <1>3, <1>4, <1>5

(* aco_resume that switches to h.                                          *)
LEMMA ResumeStep ==
  ASSUME IInv, NEW h \in Handles, aco_resume(h), ResumeFault(h) = "none"
  PROVE  IInv'
<1> USE HandlesAssumption DEF IInv
<1>1. /\ running = Main /\ h \in alloc /\ ~isEnd[h]
      /\ Displaces(h) => SpInRange(owner)
      /\ IF Displaces(h) THEN SaveOwner ELSE UNCHANGED <<saved, saveSz>>
      /\ IF owner # h THEN Restore(h) ELSE UNCHANGED mem
      /\ owner' = h /\ running' = h
      /\ reg' = [reg EXCEPT ![Main] = cpu] /\ cpu' = reg[h]
      /\ UNCHANGED <<alloc, isEnd, fault>>
  BY DEF aco_resume, ResumeFault, acosw
<1>2. Displaces(h) => owner \in Handles
  BY DEF Displaces, TypeOK
<1>3. /\ saved' \in [Handles -> Contents]
      /\ saveSz' \in [Handles -> Nat]
  BY <1>1, <1>2, SaveOwnerEffect DEF TypeOK
<1>4. mem' \in [1..(Limit + Slack) -> Words]
  BY <1>1, RestoreType DEF TypeOK
<1>5. TypeOK'
  BY <1>1, <1>3, <1>4 DEF TypeOK
<1>6. OwnerCurrent'
  BY <1>1 DEF OwnerCurrent, Live
<1>7. \A g \in Handles \ {owner} : saved'[g] = saved[g] /\ saveSz'[g] = saveSz[g]
  BY <1>1, <1>2, SaveOwnerEffect DEF TypeOK
<1>8. \A g \in Handles : reg'[g] = reg[g]
  BY <1>1 DEF TypeOK
<1>9. SuspendedComplete'
  <2> SUFFICES ASSUME NEW g \in alloc, Live(g), g # h
               PROVE  Len(saved'[g]) = reg'[g].sp
    BY <1>1 DEF SuspendedComplete, Live
  <2>0. g \in Handles
    BY DEF TypeOK
  <2>1. CASE g = owner
    <3>1. Displaces(h)
      BY <2>0, <2>1 DEF Displaces
    <3> QED BY <1>1, <1>2, <1>8, <2>0, <2>1, <3>1, SaveOwnerEffect
  <2>2. CASE g # owner
    BY <1>7, <1>8, <2>0, <2>2 DEF SuspendedComplete
  <2> QED BY <2>1, <2>2
<1>10. SavedFits'
  <2> SUFFICES ASSUME NEW g \in alloc PROVE Len(saved'[g]) <= saveSz'[g]
    BY <1>1 DEF SavedFits
  <2>0. g \in Handles
    BY DEF TypeOK
  <2>1. CASE g = owner /\ Displaces(h)
    BY <1>1, <1>2, <2>1, SaveOwnerEffect
  <2>2. CASE ~(g = owner /\ Displaces(h))
    BY <1>1, <1>7, <2>0, <2>2 DEF SavedFits
  <2> QED BY <2>1, <2>2
<1> QED
  BY <1>5, <1>6, <1>9, <1>10

(* A switch back to main.                                                  *)
LEMMA YieldStep ==
  ASSUME IInv, aco_yield
  PROVE  IInv'
<1> USE HandlesAssumption DEF IInv, aco_yield, acosw, coVars
<1>1. TypeOK'
  BY DEF TypeOK
<1>2. OwnerCurrent' /\ SavedFits'
  BY DEF OwnerCurrent, Live, SavedFits
<1>3. \A g \in Handles \ {owner} : reg'[g] = reg[g]
  BY DEF TypeOK, OwnerCurrent
<1>4. SuspendedComplete'
  BY <1>3 DEF SuspendedComplete, Live, TypeOK
<1> QED
  BY <1>1, <1>2, <1>4

LEMMA ExitStep ==
  ASSUME IInv, aco_exit
  PROVE  IInv'
<1> USE HandlesAssumption DEF IInv
<1>1. owner = running /\ running # Main /\ running \in Handles
  BY DEF OwnerCurrent, aco_exit, TypeOK
<1>2. /\ isEnd' = [isEnd EXCEPT ![running] = TRUE]
      /\ owner' = NULL /\ running' = Main
      /\ reg' = [reg EXCEPT ![running] = cpu] /\ cpu' = reg[Main]
      /\ UNCHANGED <<alloc, saved, saveSz, mem, fault>>
  BY <1>1 DEF aco_exit, acosw
<1>3. TypeOK'
  BY <1>1, <1>2 DEF TypeOK
<1>4. OwnerCurrent' /\ SavedFits'
  BY <1>2 DEF OwnerCurrent, SavedFits
<1>5. SuspendedComplete'
  BY <1>1, <1>2 DEF SuspendedComplete, Live, TypeOK
<1> QED
  BY <1>3, <1>4, <1>5

LEMMA DestroyStep ==
  ASSUME IInv, NEW h \in Handles, aco_destroy(h)
  PROVE  IInv'
<1> USE DEF IInv, aco_destroy
<1>1. TypeOK'
  BY DEF TypeOK
<1>2. OwnerCurrent' /\ SavedFits'
  BY DEF OwnerCurrent, Live, SavedFits
<1>3. SuspendedComplete'
  BY DEF SuspendedComplete, Live
<1> QED
  BY <1>1, <1>2, <1>3

(* What a coroutine does between its calls.                                *)
LEMMA WorkStep ==
  ASSUME IInv, Work
  PROVE  IInv'
<1> USE DEF IInv
<1>0. cpu \in Contexts /\ cpu.sp \in 0..(Limit + Slack)
  BY DEF TypeOK, Contexts, Depths
<1>1. CASE Pop
  <2>1. cpu.sp - 1 \in Depths
    BY <1>0, <1>1, SizeAssumption DEF Pop, Depths
  <2>2. cpu' \in Contexts
    BY <1>0, <1>1, <2>1 DEF Pop, Contexts
  <2>3. UNCHANGED <<alloc, isEnd, saved, saveSz, reg, mem, owner, running, fault>>
    BY <1>1 DEF Pop, coVars
  <2> QED
    BY <2>2, <2>3 DEF TypeOK, OwnerCurrent, SuspendedComplete, SavedFits, Live
<1>2. ASSUME NEW w \in Words, Push(w) PROVE IInv'
  <2>1. CASE Abort("guardPage")
    BY <2>1, AbortKeeps DEF Faults
  <2>2. CASE /\ cpu.sp < Limit + Slack
             /\ mem' = [mem EXCEPT ![cpu.sp + 1] = w]
             /\ cpu' = [cpu EXCEPT !.sp = @ + 1]
             /\ UNCHANGED <<coVars, reg, owner, running, fault>>
    <3>1. TypeOK'
      <4>1. cpu.sp + 1 \in Depths
        BY <1>0, <2>2, SizeAssumption DEF Depths
      <4>2. cpu' \in Contexts
        BY <1>0, <2>2, <4>1 DEF Contexts
      <4>3. mem' \in [1..(Limit + Slack) -> Words]
        BY <2>2 DEF TypeOK
      <4> QED BY <2>2, <4>2, <4>3 DEF coVars, TypeOK
    <3>2. OwnerCurrent' /\ SuspendedComplete' /\ SavedFits'
      BY <2>2 DEF coVars, OwnerCurrent, SuspendedComplete, SavedFits, Live
    <3> QED BY <3>1, <3>2
  <2> QED BY <1>2, <2>1, <2>2 DEF Push
<1>3. ASSUME NEW r \in Regs, SetReg(r) PROVE IInv'
  BY <1>3 DEF SetReg, coVars, TypeOK, Contexts, OwnerCurrent, SuspendedComplete, SavedFits, Live
<1> QED
  BY <1>1, <1>2, <1>3 DEF Work

LEMMA IInvStep == IInv /\ [Next]_vars => IInv'
<1> SUFFICES ASSUME IInv, [Next]_vars PROVE IInv'
  OBVIOUS
<1>1. CASE aco_yield
  BY <1>1, YieldStep
<1>2. CASE aco_exit
  BY <1>2, ExitStep
<1>3. CASE ReturnFromEntry
  BY <1>3, AbortKeeps DEF ReturnFromEntry, Faults
<1>4. CASE Work
  BY <1>4, WorkStep
<1>5. ASSUME NEW h \in Handles, aco_resume(h) PROVE IInv'
  <2>1. CASE ResumeFault(h) = "none"
    BY <1>5, <2>1, ResumeStep
  <2>2. CASE ResumeFault(h) # "none"
    <3>1. ResumeFault(h) \in Faults
      BY DEF ResumeFault, Faults
    <3> QED BY <1>5, <2>2, <3>1, AbortKeeps DEF aco_resume
  <2> QED BY <2>1, <2>2
<1>6. ASSUME NEW h \in Handles, aco_destroy(h) PROVE IInv'
  BY <1>6, DestroyStep
<1>7. ASSUME NEW h \in Handles, NEW sz \in SaveSizes, aco_create(h, sz) PROVE IInv'
  BY <1>7, CreateStep
<1>8. CASE UNCHANGED vars
  BY <1>8 DEF vars, coVars, IInv, TypeOK, OwnerCurrent, SuspendedComplete, SavedFits, Live
<1> QED
  BY <1>1, <1>2, <1>3, <1>4, <1>5, <1>6, <1>7, <1>8 DEF Next, Aborted

LEMMA IInvAlways == Spec => []IInv
BY IInvInit, IInvStep, PTL DEF Spec

(* Every part of libaco's state keeps its type; the shared stack is never  *)
(* written outside its words.                                              *)
THEOREM TypeCorrect == Spec => []TypeOK
<1>1. IInv => TypeOK
  BY DEF IInv
<1> QED
  BY <1>1, IInvAlways, PTL

(* The owner of the shared stack is the running coroutine, or a suspended  *)
(* one that exists and has not ended, however addresses are reused.        *)
THEOREM OwnerNeverStale == Spec => []OwnerCurrent
<1>1. IInv => OwnerCurrent
  BY DEF IInv
<1> QED
  BY <1>1, IInvAlways, PTL

(* Whoever lost the shared stack has every word its stack pointer counts.  *)
THEOREM NothingLost == Spec => []SuspendedComplete
<1>1. IInv => SuspendedComplete
  BY DEF IInv
<1> QED
  BY <1>1, IInvAlways, PTL

(* No copy to a save buffer runs past its end.                             *)
THEOREM NoSaveOverflow == Spec => []SavedFits
<1>1. IInv => SavedFits
  BY DEF IInv
<1> QED
  BY <1>1, IInvAlways, PTL
-------------------------------------------------------------------------------
(***************************************************************************)
(* The shared stack implements private ones.                               *)
(***************************************************************************)

(* Who runs is Main or a live coroutine.                                   *)
LEMMA RunningIsLive ==
  ASSUME IInv, running # Main
  PROVE  running \in Handles /\ Live(running) /\ owner = running
BY HandlesAssumption DEF IInv, TypeOK, OwnerCurrent

(* Whoever runs sees its own words on top of the shared stack.             *)
LEMMA RunningStack ==
  ASSUME IInv, running # Main
  PROVE  /\ Stacks[running] = [k \in 1..cpu.sp |-> mem[k]]
         /\ Values[running] = cpu.val
BY RunningIsLive DEF Stacks, StackOf, Context, Values

(* Pushing a word on the shared stack appends it to the running one's.     *)
LEMMA PushAppends ==
  ASSUME NEW m \in Nat, NEW n \in Nat, n < m, NEW S, NEW w \in S,
         NEW f \in [1..m -> S]
  PROVE  [k \in 1..(n + 1) |-> [f EXCEPT ![n + 1] = w][k]]
           = Append([k \in 1..n |-> f[k]], w)
<1> DEFINE s == [k \in 1..n |-> f[k]]
           t == [k \in 1..(n + 1) |-> [f EXCEPT ![n + 1] = w][k]]
<1>1. s \in Seq(S) /\ Len(s) = n
  <2>1. s \in [1..n -> S]
    OBVIOUS
  <2> QED BY <2>1, FunctionIsSequence
<1>2. /\ DOMAIN Append(s, w) = 1..(n + 1)
      /\ \A k \in 1..(n + 1) : Append(s, w)[k] = IF k = n + 1 THEN w ELSE s[k]
  BY <1>1
<1>3. \A k \in 1..(n + 1) : t[k] = IF k = n + 1 THEN w ELSE s[k]
  OBVIOUS
<1> QED
  BY <1>2, <1>3

(* Popping one drops the last word.                                        *)
LEMMA PopDropsLast ==
  ASSUME NEW m \in Nat, NEW n \in 1..m, NEW S, NEW f \in [1..m -> S]
  PROVE  LET s == [k \in 1..n |-> f[k]]
         IN  /\ s # <<>>
             /\ SubSeq(s, 1, Len(s) - 1) = [k \in 1..(n - 1) |-> f[k]]
<1> DEFINE s == [k \in 1..n |-> f[k]]
<1>1. s \in Seq(S) /\ Len(s) = n
  <2>1. s \in [1..n -> S]
    OBVIOUS
  <2> QED BY <2>1, FunctionIsSequence
<1>2. s # <<>>
  BY <1>1
<1>3. /\ DOMAIN SubSeq(s, 1, n - 1) = 1..(n - 1)
      /\ \A k \in 1..(n - 1) : SubSeq(s, 1, n - 1)[k] = s[k]
  BY <1>1
<1>4. SubSeq(s, 1, n - 1) = [k \in 1..(n - 1) |-> f[k]]
  BY <1>3
<1> QED
  BY <1>1, <1>2, <1>4

(* A coroutine that owns no stack has its words in its save buffer and may *)
(* be moved to the shared stack and back.                                  *)
LEMMA RestoredIsSaved ==
  ASSUME IInv, NEW h \in Handles, Live(h), owner # h
  PROVE  [k \in 1..reg[h].sp |->
            IF k \in DOMAIN saved[h] THEN saved[h][k] ELSE mem[k]] = saved[h]
<1>1. saved[h] \in Contents /\ h \in alloc
  BY DEF IInv, TypeOK, Live
<1>2. Len(saved[h]) = reg[h].sp
  BY <1>1 DEF IInv, SuspendedComplete
<1>3. PICK n \in 0..Limit : saved[h] \in [1..n -> Words]
  BY <1>1 DEF Contents
<1>4. n = reg[h].sp
  BY <1>2, <1>3, SizeAssumption, FunctionIsSequence
<1> QED
  BY <1>3, <1>4

(* Two states that show the same coroutines map to the same private state. *)
LEMMA AbortMaps ==
  ASSUME NEW why, Abort(why)
  PROVE  UNCHANGED <<running, Statuses, Stacks, Values>>
BY DEF Abort, coVars, Statuses, Status, Stacks, StackOf, Live, Context, Values

LEMMA InitMaps == Init => PS!Init
<1> SUFFICES ASSUME Init PROVE PS!Init
  OBVIOUS
<1>1. Statuses = [h \in Handles |-> "free"] /\ Stacks = [h \in Handles |-> <<>>]
  BY DEF Init, Statuses, Status, Stacks, Live
<1>2. Values = [c \in Handles \cup {Main} |-> 0]
  BY DEF Init, Values, Live, Context, Fresh
<1> QED
  BY <1>1, <1>2 DEF Init, PS!Init, Reason

LEMMA CreateMaps ==
  ASSUME IInv, NEW h \in Handles, NEW sz \in SaveSizes, aco_create(h, sz)
  PROVE  PS!Create(h)
<1> USE DEF aco_create
<1>1. owner # h /\ running # h
  BY HandlesAssumption DEF IInv, OwnerCurrent, Live
<1>2. /\ Statuses[h] = "free"
      /\ Statuses' = [Statuses EXCEPT ![h] = "live"]
  BY DEF Statuses, Status, IInv, TypeOK
<1>3. Stacks' = Stacks
  <2>1. \A g \in Handles : Stacks'[g] = Stacks[g]
    BY <1>1 DEF Stacks, StackOf, Live, Context, IInv, TypeOK
  <2> QED BY <2>1 DEF Stacks
<1>4. Values' = Values
  <2>1. \A c \in Handles \cup {Main} : Values'[c] = Values[c]
    BY <1>1, HandlesAssumption DEF Values, Live, Context, Fresh, IInv, TypeOK
  <2> QED BY <2>1 DEF Values
<1> QED
  BY <1>2, <1>3, <1>4 DEF PS!Create, Reason

LEMMA DestroyMaps ==
  ASSUME IInv, NEW h \in Handles, aco_destroy(h)
  PROVE  PS!Destroy(h)
<1> USE DEF aco_destroy
<1>1. Statuses[h] # "free" /\ running # h
  BY DEF Statuses, Status
<1>2. Statuses' = [Statuses EXCEPT ![h] = "free"]
  BY DEF Statuses, Status
<1>3. Stacks' = [Stacks EXCEPT ![h] = <<>>]
  <2>1. \A g \in Handles : Stacks'[g] = IF g = h THEN <<>> ELSE Stacks[g]
    BY HandlesAssumption DEF Stacks, StackOf, Live, Context
  <2> QED BY <2>1 DEF Stacks
<1>4. Values' = [Values EXCEPT ![h] = 0]
  <2>1. \A c \in Handles \cup {Main} : Values'[c] = IF c = h THEN 0 ELSE Values[c]
    BY HandlesAssumption DEF Values, Live, Context
  <2> QED BY <2>1 DEF Values
<1> QED
  BY <1>1, <1>2, <1>3, <1>4 DEF PS!Destroy, Reason

LEMMA ResumeMaps ==
  ASSUME IInv, NEW h \in Handles, aco_resume(h), ResumeFault(h) = "none"
  PROVE  PS!Resume(h)
<1>1. /\ running = Main /\ h \in alloc /\ Live(h)
      /\ IF Displaces(h) THEN SaveOwner ELSE UNCHANGED <<saved, saveSz>>
      /\ IF owner # h THEN Restore(h) ELSE UNCHANGED mem
      /\ owner' = h /\ reg' = [reg EXCEPT ![Main] = cpu] /\ cpu' = reg[h]
      /\ running' = h /\ UNCHANGED <<alloc, isEnd, fault>>
  BY DEF aco_resume, ResumeFault, acosw, Live
<1>2. \A g \in Handles : reg'[g] = reg[g] /\ Live(g)' = Live(g) /\ g # Main
  BY <1>1, HandlesAssumption DEF IInv, TypeOK, Live
<1>3. Statuses' = Statuses /\ Statuses[h] = "live"
  BY <1>1 DEF Statuses, Status, Live
<1>4. ASSUME NEW g \in Handles PROVE Stacks'[g] = Stacks[g]
  <2>1. CASE ~Live(g)
    BY <1>2, <2>1 DEF Stacks
  <2>2. CASE Live(g) /\ g = h /\ owner = h
    BY <1>1, <1>2, <2>2 DEF Stacks, StackOf, Context
  <2>3. CASE Live(g) /\ g = h /\ owner # h
    <3>1. Stacks'[h] = [k \in 1..reg[h].sp |-> mem'[k]]
      BY <1>1, <1>2, <2>3 DEF Stacks, StackOf, Context
    <3>2. Stacks'[h] = [k \in 1..reg[h].sp |->
                         IF k \in DOMAIN saved[h] THEN saved[h][k] ELSE mem[k]]
      <4>1. reg[h].sp \in Depths
        BY DEF IInv, TypeOK, Contexts
      <4>2. 1..reg[h].sp \subseteq DOMAIN mem
        BY <4>1, SizeAssumption DEF IInv, TypeOK, Depths
      <4> QED BY <1>1, <2>3, <3>1, <4>2 DEF Restore
    <3>3. Stacks[h] = saved[h]
      BY <1>1, <2>3 DEF Stacks, StackOf
    <3> QED BY <2>3, <3>2, <3>3, RestoredIsSaved
  <2>4. CASE Live(g) /\ g # h /\ g = owner
    <3>1. saved' = [saved EXCEPT ![g] = InUse(g)]
      BY <1>1, <2>4, HandlesAssumption DEF Displaces, SaveOwner
    <3>2. saved'[g] = InUse(g)
      BY <3>1 DEF IInv, TypeOK
    <3> QED BY <1>1, <1>2, <2>4, <3>2 DEF Stacks, StackOf, Context, InUse
  <2>5. CASE Live(g) /\ g # h /\ g # owner
    <3>1. saved'[g] = saved[g]
      BY <1>1, <2>5 DEF SaveOwner, IInv, TypeOK
    <3> QED BY <1>1, <1>2, <2>5, <3>1 DEF Stacks, StackOf
  <2> QED BY <2>1, <2>2, <2>3, <2>4, <2>5
<1>5. ASSUME NEW c \in Handles \cup {Main} PROVE Values'[c] = Values[c]
  <2>1. CASE c = Main
    BY <1>1, <1>2, <2>1, HandlesAssumption DEF Values, Context, IInv, TypeOK
  <2>2. CASE c \in Handles
    BY <1>1, <1>2, <2>2 DEF Values, Context
  <2> QED BY <2>1, <2>2
<1>6. Stacks' = Stacks /\ Values' = Values
  BY <1>4, <1>5 DEF Stacks, Values
<1> QED
  BY <1>1, <1>3, <1>6 DEF PS!Resume, Reason

LEMMA YieldMaps ==
  ASSUME IInv, aco_yield
  PROVE  PS!Yield
<1>1. /\ running \in Handles /\ owner = running /\ running' = Main
      /\ running # Main
      /\ reg' = [reg EXCEPT ![running] = cpu] /\ cpu' = reg[Main]
      /\ UNCHANGED <<coVars, mem, owner, fault>>
  BY RunningIsLive DEF aco_yield, acosw
<1>2. Statuses' = Statuses
  BY <1>1 DEF Statuses, Status, coVars
<1>3. ASSUME NEW c \in Handles \cup {Main} PROVE Context(c)' = Context(c)
  <2>1. CASE c = Main
    BY <1>1, <2>1 DEF Context
  <2>2. CASE c = running
    BY <1>1, <2>2 DEF Context, IInv, TypeOK
  <2>3. CASE c \notin {Main, running}
    BY <1>1, <2>3 DEF Context, IInv, TypeOK
  <2> QED BY <2>1, <2>2, <2>3
<1>4. Stacks' = Stacks
  <2>1. ASSUME NEW g \in Handles PROVE StackOf(g)' = StackOf(g)
    <3>1. CASE g = owner
      BY <1>1, <3>1 DEF StackOf, Context, coVars, IInv, TypeOK
    <3>2. CASE g # owner
      BY <1>1, <3>2 DEF StackOf, coVars
    <3> QED BY <3>1, <3>2
  <2>2. \A g \in Handles : Live(g)' = Live(g)
    BY <1>1 DEF Live, coVars
  <2> QED BY <2>1, <2>2 DEF Stacks
<1>5. Values' = Values
  BY <1>1, <1>3 DEF Values, Live, coVars
<1> QED
  BY <1>1, <1>2, <1>4, <1>5 DEF PS!Yield, Reason

LEMMA ExitMaps ==
  ASSUME IInv, aco_exit
  PROVE  PS!Exit
<1>1. /\ running \in Handles /\ Live(running) /\ owner = running
      /\ running # Main /\ running' = Main
      /\ isEnd' = [isEnd EXCEPT ![running] = TRUE]
      /\ owner' = NULL
      /\ reg' = [reg EXCEPT ![running] = cpu] /\ cpu' = reg[Main]
      /\ UNCHANGED <<alloc, saved, saveSz, mem, fault>>
  BY RunningIsLive DEF aco_exit, acosw
<1>2. Statuses' = [Statuses EXCEPT ![running] = "ended"]
  BY <1>1 DEF Statuses, Status, IInv, TypeOK, Live
<1>3. Stacks' = [Stacks EXCEPT ![running] = <<>>]
  <2>1. \A g \in Handles :
          Stacks'[g] = IF g = running THEN <<>> ELSE Stacks[g]
    BY <1>1, HandlesAssumption DEF Stacks, StackOf, Live, IInv, TypeOK
  <2> QED BY <2>1 DEF Stacks
<1>4. Values' = [Values EXCEPT ![running] = 0]
  <2>1. ASSUME NEW c \in Handles \cup {Main}
        PROVE  Values'[c] = IF c = running THEN 0 ELSE Values[c]
    <3>1. CASE c = Main
      BY <1>1, <3>1 DEF Values, Context, IInv, TypeOK
    <3>2. CASE c \in Handles
      BY <1>1, <3>2, HandlesAssumption DEF Values, Context, Live, IInv, TypeOK
    <3> QED BY <3>1, <3>2
  <2> QED BY <2>1 DEF Values
<1> QED
  BY <1>1, <1>2, <1>3, <1>4 DEF PS!Exit, Reason

LEMMA PushMaps ==
  ASSUME IInv, NEW w \in Words, Push(w), ~Abort("guardPage")
  PROVE  PS!Work
<1>1. /\ running # Main /\ cpu.sp < Limit + Slack
      /\ mem' = [mem EXCEPT ![cpu.sp + 1] = w]
      /\ cpu' = [cpu EXCEPT !.sp = @ + 1]
      /\ UNCHANGED <<coVars, reg, owner, running, fault>>
  BY DEF Push
<1>2. running \in Handles /\ Live(running) /\ owner = running
  BY <1>1, RunningIsLive
<1>3. cpu \in Contexts /\ cpu.sp \in Nat /\ Limit + Slack \in Nat
  BY SizeAssumption DEF IInv, TypeOK, Contexts, Depths
<1>4. cpu'.sp = cpu.sp + 1 /\ cpu'.val = cpu.val
  BY <1>1, <1>3 DEF Contexts
<1>5. Statuses' = Statuses /\ Values' = Values
  BY <1>1, <1>2, <1>4 DEF Statuses, Status, Values, Context, Live, coVars
<1>6. Stacks' = [Stacks EXCEPT ![running] = Append(@, w)]
  <2>1. Stacks[running] = [k \in 1..cpu.sp |-> mem[k]]
    BY <1>1, RunningStack
  <2>2. Stacks'[running] = [k \in 1..(cpu.sp + 1) |-> mem'[k]]
    BY <1>1, <1>2, <1>4 DEF Stacks, StackOf, Context, Live, coVars
  <2>3. [k \in 1..(cpu.sp + 1) |-> [mem EXCEPT ![cpu.sp + 1] = w][k]]
          = Append([k \in 1..cpu.sp |-> mem[k]], w)
    BY <1>1, <1>3, PushAppends DEF IInv, TypeOK
  <2>4. Stacks'[running] = Append(Stacks[running], w)
    BY <1>1, <2>1, <2>2, <2>3
  <2>5. \A g \in Handles \ {running} : Stacks'[g] = Stacks[g]
    BY <1>1, <1>2 DEF Stacks, StackOf, Live, coVars
  <2> QED BY <1>2, <2>4, <2>5 DEF Stacks
<1> QED
  BY <1>1, <1>5, <1>6 DEF PS!Work, Reason

LEMMA PopMaps ==
  ASSUME IInv, Pop
  PROVE  PS!Work
<1>1. /\ running # Main /\ cpu.sp > 0
      /\ cpu' = [cpu EXCEPT !.sp = @ - 1]
      /\ UNCHANGED <<coVars, reg, mem, owner, running, fault>>
  BY DEF Pop
<1>2. running \in Handles /\ Live(running) /\ owner = running
  BY <1>1, RunningIsLive
<1>3. cpu \in Contexts /\ cpu.sp \in 1..(Limit + Slack) /\ Limit + Slack \in Nat
  BY <1>1, SizeAssumption DEF IInv, TypeOK, Contexts, Depths
<1>4. cpu'.sp = cpu.sp - 1 /\ cpu'.val = cpu.val
  BY <1>1, <1>3 DEF Contexts
<1>5. Statuses' = Statuses /\ Values' = Values
  BY <1>1, <1>2, <1>4 DEF Statuses, Status, Values, Context, Live, coVars
<1>6. /\ Stacks[running] # <<>>
      /\ Stacks' = [Stacks EXCEPT ![running] = SubSeq(@, 1, Len(@) - 1)]
  <2>1. Stacks[running] = [k \in 1..cpu.sp |-> mem[k]]
    BY <1>1, RunningStack
  <2>2. Stacks'[running] = [k \in 1..(cpu.sp - 1) |-> mem[k]]
    BY <1>1, <1>2, <1>4 DEF Stacks, StackOf, Context, Live, coVars
  <2>3. /\ Stacks[running] # <<>>
        /\ Stacks'[running] = SubSeq(Stacks[running], 1, Len(Stacks[running]) - 1)
    BY <1>3, <2>1, <2>2, PopDropsLast DEF IInv, TypeOK
  <2>4. \A g \in Handles \ {running} : Stacks'[g] = Stacks[g]
    BY <1>1, <1>2 DEF Stacks, StackOf, Live, coVars
  <2> QED BY <1>2, <2>3, <2>4 DEF Stacks
<1> QED
  BY <1>1, <1>5, <1>6 DEF PS!Work, Reason

LEMMA SetRegMaps ==
  ASSUME IInv, NEW r \in Regs, SetReg(r)
  PROVE  PS!Work
<1>1. /\ cpu' = [cpu EXCEPT !.val = r]
      /\ UNCHANGED <<coVars, reg, mem, owner, running, fault>>
  BY DEF SetReg
<1>2. running = Main \/ (running \in Handles /\ Live(running))
  BY RunningIsLive
<1>3. cpu'.sp = cpu.sp /\ cpu'.val = r
  BY <1>1 DEF IInv, TypeOK, Contexts
<1>4. Statuses' = Statuses /\ Stacks' = Stacks
  BY <1>1, <1>3 DEF Statuses, Status, Stacks, StackOf, Context, Live, coVars
<1>5. Values' = [Values EXCEPT ![running] = r]
  <2>1. \A c \in Handles \cup {Main} :
          Values'[c] = IF c = running THEN r ELSE Values[c]
    BY <1>1, <1>2, <1>3 DEF Values, Context, Live, coVars
  <2> QED BY <1>2, <2>1 DEF Values
<1> QED
  BY <1>1, <1>4, <1>5 DEF PS!Work, Reason

(* Whatever aborts the process is a reason PrivateStacks names: the        *)
(* assertions on valid_sz and on the owner in aco_exit never fail.         *)
LEMMA ResumeAbortMaps ==
  ASSUME IInv, fault = "none", NEW h \in Handles, aco_resume(h),
         ResumeFault(h) # "none"
  PROVE  PS!Fail
<1>1. /\ running = Main /\ h \in alloc /\ Abort(ResumeFault(h))
  BY DEF aco_resume
<1>2. UNCHANGED <<running, Statuses, Stacks, Values>> /\ fault' = ResumeFault(h)
  BY <1>1, AbortMaps DEF Abort
<1>3. Len(saved[h]) <= Limit
  <2>1. saved[h] \in Contents
    BY DEF IInv, TypeOK
  <2> QED BY <2>1, ContentsAreSequences, SizeAssumption
<1>4. CASE isEnd[h]
  <2>1. Statuses[h] = "ended"
    BY <1>1, <1>4 DEF Statuses, Status
  <2>2. Reason' = "ended"
    BY <1>2, <1>4 DEF ResumeFault, Reason
  <2> QED BY <1>1, <1>2, <2>1, <2>2 DEF PS!Fail
<1>5. CASE ~isEnd[h]
  <2>1. Displaces(h) /\ ~SpInRange(owner) /\ ResumeFault(h) = "spRange"
    BY <1>3, <1>5, SizeAssumption DEF ResumeFault
  <2>2. owner \in Handles /\ Live(owner) /\ reg[owner].sp \in Nat
    BY <2>1, SizeAssumption
       DEF Displaces, IInv, TypeOK, OwnerCurrent, Contexts, Depths
  <2>3. Stacks[owner] = [k \in 1..reg[owner].sp |-> mem[k]] /\ owner # Main
    BY <1>1, <2>2, HandlesAssumption DEF Stacks, StackOf, Context
  <2>4. Len(Stacks[owner]) > Limit
    <3>1. DOMAIN Stacks[owner] = 1..reg[owner].sp
      BY <2>3
    <3>2. reg[owner].sp > Limit
      BY <2>1, <2>2, SizeAssumption DEF SpInRange
    <3> QED BY <2>2, <2>3, <3>2
  <2>5. Reason' = "overflow"
    BY <1>2, <2>1 DEF Reason
  <2> QED BY <1>1, <1>2, <2>2, <2>4, <2>5 DEF PS!Fail
<1> QED
  BY <1>4, <1>5

LEMMA GuardPageMaps ==
  ASSUME IInv, NEW w \in Words, Push(w), Abort("guardPage")
  PROVE  PS!Fail
<1>1. UNCHANGED <<running, Statuses, Stacks, Values>> /\ fault' = "guardPage"
  BY AbortMaps DEF Abort
<1>2. running # Main /\ cpu.sp = Limit + Slack
  <2>1. cpu' = cpu /\ cpu.sp \in Int
    BY SizeAssumption DEF Abort, IInv, TypeOK, Contexts, Depths
  <2>2. cpu' # [cpu EXCEPT !.sp = @ + 1]
    BY <2>1 DEF IInv, TypeOK, Contexts
  <2> QED BY <2>2 DEF Push
<1>3. Len(Stacks[running]) = Limit + Slack
  <2>1. Stacks[running] = [k \in 1..(Limit + Slack) |-> mem[k]]
    BY <1>2, RunningStack
  <2>2. Stacks[running] \in [1..(Limit + Slack) -> Words]
    BY <2>1 DEF IInv, TypeOK
  <2> QED BY <2>2, SizeAssumption, FunctionIsSequence
<1>4. running \in Handles
  BY <1>2, RunningIsLive
<1>5. Reason' = "overflow"
  BY <1>1 DEF Reason
<1> QED
  BY <1>1, <1>3, <1>4, <1>5, SizeAssumption DEF PS!Fail

LEMMA ProtectorMaps ==
  ASSUME IInv, ReturnFromEntry
  PROVE  PS!Fail
<1>1. running # Main /\ cpu.sp = 0 /\ Abort("protector")
  BY DEF ReturnFromEntry
<1>2. UNCHANGED <<running, Statuses, Stacks, Values>> /\ fault' = "protector"
  BY <1>1, AbortMaps DEF Abort
<1>3. Stacks[running] = <<>>
  BY <1>1, RunningStack
<1>4. Reason' = "returned"
  BY <1>2 DEF Reason
<1> QED
  BY <1>1, <1>2, <1>3, <1>4 DEF PS!Fail

LEMMA RefinementStep == IInv /\ [Next]_vars => [PS!Next]_(PS!vars)
<1> SUFFICES ASSUME IInv, [Next]_vars PROVE [PS!Next]_(PS!vars)
  OBVIOUS
<1>0. CASE UNCHANGED vars
  BY <1>0 DEF vars, coVars, PS!vars, Statuses, Status, Stacks, StackOf, Values,
              Live, Context, Reason
<1> SUFFICES ASSUME Next, fault = "none" PROVE PS!Next
  BY <1>0 DEF Next, Aborted
<1>1. Reason = "none"
  BY DEF Reason
<1>2. CASE aco_yield
  BY <1>1, <1>2, YieldMaps DEF PS!Next
<1>3. CASE aco_exit
  BY <1>1, <1>3, ExitMaps DEF PS!Next
<1>4. CASE ReturnFromEntry
  BY <1>1, <1>4, ProtectorMaps DEF PS!Next
<1>5. CASE Work
  <2>1. CASE Pop
    BY <1>1, <2>1, PopMaps DEF PS!Next
  <2>2. ASSUME NEW w \in Words, Push(w) PROVE PS!Next
    <3>1. CASE Abort("guardPage")
      BY <1>1, <2>2, <3>1, GuardPageMaps DEF PS!Next
    <3>2. CASE ~Abort("guardPage")
      BY <1>1, <2>2, <3>2, PushMaps DEF PS!Next
    <3> QED BY <3>1, <3>2
  <2>3. ASSUME NEW r \in Regs, SetReg(r) PROVE PS!Next
    BY <1>1, <2>3, SetRegMaps DEF PS!Next
  <2> QED BY <1>5, <2>1, <2>2, <2>3 DEF Work
<1>6. ASSUME NEW h \in Handles, aco_resume(h) PROVE PS!Next
  <2>1. CASE ResumeFault(h) = "none"
    BY <1>1, <1>6, <2>1, ResumeMaps DEF PS!Next
  <2>2. CASE ResumeFault(h) # "none"
    BY <1>1, <1>6, <2>2, ResumeAbortMaps DEF PS!Next
  <2> QED BY <2>1, <2>2
<1>7. ASSUME NEW h \in Handles, aco_destroy(h) PROVE PS!Next
  BY <1>1, <1>7, DestroyMaps DEF PS!Next
<1>8. ASSUME NEW h \in Handles, NEW sz \in SaveSizes, aco_create(h, sz) PROVE PS!Next
  BY <1>1, <1>8, CreateMaps DEF PS!Next
<1> QED
  BY <1>2, <1>3, <1>4, <1>5, <1>6, <1>7, <1>8 DEF Next, Aborted

(* Every coroutine has its stack and its registers to itself, whatever the *)
(* others do, and the process aborts only when one outgrows its stack,     *)
(* returns from its entry function, or is resumed after its end.           *)
THEOREM ImplementsPrivateStacks == Spec => PrivateStacksSpec
BY InitMaps, RefinementStep, IInvAlways, PTL DEF Spec, PrivateStacksSpec, PS!Spec
===============================================================================
