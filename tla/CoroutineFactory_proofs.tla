------------------------ MODULE CoroutineFactory_proofs ------------------------
(***************************************************************************)
(* Theorems about CoroutineFactory for any number of keys and addresses.   *)
(* What libaco contributes is taken from Aco_proofs, instantiated for the  *)
(* factory's variables.                                                    *)
(***************************************************************************)
EXTENDS CoroutineFactory, TLAPS

AP == INSTANCE Aco_proofs

(* The map leads to every coroutine, each by one key.                      *)
MapInv == /\ DOMAIN crs \subseteq Keys
          /\ Range(crs) \subseteq Handles
          /\ IsInjective(crs)
          /\ alloc \subseteq Range(crs)
          /\ phase = "live" => Range(crs) = alloc

(* Only main_co destroys the factory.                                      *)
PhaseInv == /\ phase \in Phases
            /\ phase # "live" => running = Main
            /\ phase \in {"noStack", "gone"} => alloc = {}

IInv == AP!IInv /\ MapInv /\ PhaseInv /\ stop \subseteq Handles /\ StopIsEnded
-------------------------------------------------------------------------------
(***************************************************************************)
(* Aco's lemmas, for the factory's calls of libaco.                        *)
(***************************************************************************)

LEMMA CoInit == ASSUME Co!Init PROVE AP!IInv /\ AP!PS!Init
<1>1. AP!Init
  BY DEF Co!Init, AP!Init, Co!Fresh, AP!Fresh
<1> QED BY <1>1, AP!IInvInit, AP!InitMaps, HandlesAssumption, WordsAssumption,
           SizeAssumption, SaveSizesAssumption

LEMMA CoCreate ==
  ASSUME AP!IInv, NEW h \in Handles, NEW sz \in SaveSizes, Co!aco_create(h, sz)
  PROVE  AP!IInv' /\ AP!PS!Create(h)
<1>1. AP!aco_create(h, sz)
  BY DEF Co!aco_create, AP!aco_create, Co!Fresh, AP!Fresh
<1> QED BY <1>1, AP!CreateStep, AP!CreateMaps, HandlesAssumption, WordsAssumption,
           SizeAssumption, SaveSizesAssumption

LEMMA CoResume ==
  ASSUME AP!IInv, fault = "none", NEW h \in Handles, Co!aco_resume(h)
  PROVE  /\ AP!IInv' /\ (AP!PS!Resume(h) \/ AP!PS!Fail)
         /\ UNCHANGED <<alloc, isEnd>>
<1>1. AP!aco_resume(h) /\ AP!ResumeFault(h) = Co!ResumeFault(h)
  BY DEF Co!aco_resume, AP!aco_resume, Co!ResumeFault, AP!ResumeFault, Co!Displaces,
         AP!Displaces, Co!SpInRange, AP!SpInRange, Co!Abort, AP!Abort, Co!SaveOwner,
         AP!SaveOwner, Co!GrownTo, AP!GrownTo, Co!InUse, AP!InUse, Co!Restore,
         AP!Restore, Co!acosw, AP!acosw, Co!coVars, AP!coVars
<1>2. UNCHANGED <<alloc, isEnd>>
  BY DEF Co!aco_resume, Co!Abort, Co!coVars
<1>3. CASE AP!ResumeFault(h) = "none"
  BY <1>1, <1>2, <1>3, AP!ResumeStep, AP!ResumeMaps, HandlesAssumption, WordsAssumption,
     SizeAssumption, SaveSizesAssumption
<1>4. CASE AP!ResumeFault(h) # "none"
  <2>1. AP!ResumeFault(h) \in AP!Faults /\ AP!Abort(AP!ResumeFault(h))
    BY <1>1, <1>4 DEF AP!ResumeFault, AP!Faults, AP!aco_resume
  <2>2. AP!IInv'
    BY <2>1, AP!AbortKeeps, HandlesAssumption, WordsAssumption, SizeAssumption,
       SaveSizesAssumption
  <2>3. AP!PS!Fail
    BY <1>1, <1>4, AP!ResumeAbortMaps, HandlesAssumption, WordsAssumption,
       SizeAssumption, SaveSizesAssumption
  <2> QED BY <1>2, <2>2, <2>3
<1> QED BY <1>3, <1>4

LEMMA CoYield ==
  ASSUME AP!IInv, Co!aco_yield
  PROVE  AP!IInv' /\ AP!PS!Yield /\ UNCHANGED <<alloc, isEnd>>
<1>1. AP!aco_yield /\ UNCHANGED <<alloc, isEnd>>
  BY DEF Co!aco_yield, AP!aco_yield, Co!acosw, AP!acosw, Co!coVars, AP!coVars
<1> QED BY <1>1, AP!YieldStep, AP!YieldMaps, HandlesAssumption, WordsAssumption,
           SizeAssumption, SaveSizesAssumption

LEMMA CoExit ==
  ASSUME AP!IInv, Co!aco_exit
  PROVE  /\ AP!IInv' /\ AP!PS!Exit
         /\ running \in alloc /\ alloc' = alloc
         /\ isEnd' = [isEnd EXCEPT ![running] = TRUE]
<1>1. AP!aco_exit /\ running # Main
  BY DEF Co!aco_exit, AP!aco_exit, Co!acosw, AP!acosw, Co!coVars, AP!coVars,
         Co!Abort, AP!Abort
<1>2. running \in alloc /\ owner = running
  BY <1>1, AP!RunningIsLive, HandlesAssumption, WordsAssumption, SizeAssumption,
     SaveSizesAssumption DEF AP!Live
<1>3. alloc' = alloc /\ isEnd' = [isEnd EXCEPT ![running] = TRUE]
  BY <1>2 DEF Co!aco_exit, Co!acosw
<1> QED BY <1>1, <1>2, <1>3, AP!ExitStep, AP!ExitMaps, HandlesAssumption,
           WordsAssumption, SizeAssumption, SaveSizesAssumption

LEMMA CoDestroy ==
  ASSUME AP!IInv, NEW h \in Handles, Co!aco_destroy(h)
  PROVE  /\ AP!IInv' /\ AP!PS!Destroy(h)
         /\ h \in alloc /\ h # running /\ alloc' = alloc \ {h} /\ isEnd' = isEnd
<1>1. AP!aco_destroy(h)
  BY DEF Co!aco_destroy, AP!aco_destroy
<1> QED BY <1>1, AP!DestroyStep, AP!DestroyMaps, HandlesAssumption, WordsAssumption,
           SizeAssumption, SaveSizesAssumption DEF Co!aco_destroy

LEMMA CoWork ==
  ASSUME AP!IInv, Co!Work
  PROVE  /\ AP!IInv' /\ (AP!PS!Work \/ AP!PS!Fail)
         /\ UNCHANGED <<alloc, isEnd, running>>
<1>1. AP!Work /\ UNCHANGED <<alloc, isEnd, running>>
  BY DEF Co!Work, AP!Work, Co!Push, AP!Push, Co!Pop, AP!Pop, Co!SetReg, AP!SetReg,
         Co!Abort, AP!Abort, Co!coVars, AP!coVars
<1>2. AP!IInv'
  BY <1>1, AP!WorkStep, HandlesAssumption, WordsAssumption, SizeAssumption,
     SaveSizesAssumption
<1>3. AP!PS!Work \/ AP!PS!Fail
  <2>1. CASE AP!Pop
    BY <2>1, AP!PopMaps, HandlesAssumption, WordsAssumption, SizeAssumption,
       SaveSizesAssumption
  <2>2. ASSUME NEW w \in Words, AP!Push(w) PROVE AP!PS!Work \/ AP!PS!Fail
    BY <2>2, AP!PushMaps, AP!GuardPageMaps, HandlesAssumption, WordsAssumption,
       SizeAssumption, SaveSizesAssumption
  <2>3. ASSUME NEW r \in Regs, AP!SetReg(r) PROVE AP!PS!Work \/ AP!PS!Fail
    BY <2>3, AP!SetRegMaps, HandlesAssumption, WordsAssumption, SizeAssumption,
       SaveSizesAssumption
  <2> QED BY <1>1, <2>1, <2>2, <2>3 DEF AP!Work
<1> QED BY <1>1, <1>2, <1>3

LEMMA CoStutter ==
  ASSUME AP!IInv, UNCHANGED acoVars
  PROVE  AP!IInv'
BY DEF acoVars, AP!IInv, AP!TypeOK, AP!OwnerCurrent, AP!SuspendedComplete,
       AP!SavedFits, AP!Live
-------------------------------------------------------------------------------
(***************************************************************************)
(* The map.                                                                *)
(***************************************************************************)

LEMMA InRange == ASSUME NEW f, NEW x \in DOMAIN f PROVE f[x] \in Range(f)
BY DEF Range

LEMMA RangeHas == ASSUME NEW f, NEW y \in Range(f) PROVE \E x \in DOMAIN f : f[x] = y
BY DEF Range

LEMMA InsertedFacts ==
  ASSUME NEW k, k \notin DOMAIN crs, NEW h, h \notin Range(crs), crs' = Inserted(k, h)
  PROVE  /\ DOMAIN crs' = DOMAIN crs \cup {k} /\ crs'[k] = h
         /\ \A x \in DOMAIN crs : x # k /\ crs'[x] = crs[x]
         /\ Range(crs') = Range(crs) \cup {h}
         /\ IsInjective(crs) => IsInjective(crs')
<1>1. /\ DOMAIN crs' = DOMAIN crs \cup {k} /\ crs'[k] = h
      /\ \A x \in DOMAIN crs : x # k /\ crs'[x] = crs[x]
  BY DEF Inserted
<1>2. Range(crs') = Range(crs) \cup {h}
  BY <1>1 DEF Range
<1>3. ASSUME IsInjective(crs), NEW a \in DOMAIN crs', NEW b \in DOMAIN crs',
             crs'[a] = crs'[b]
      PROVE  a = b
  <2>1. \A x \in DOMAIN crs : crs[x] # h
    BY InRange
  <2> QED BY <1>1, <1>3, <2>1 DEF IsInjective
<1> QED BY <1>1, <1>2, <1>3 DEF IsInjective

LEMMA RemovedFacts ==
  ASSUME NEW k \in DOMAIN crs, IsInjective(crs),
         crs' = Restrict(crs, DOMAIN crs \ {k})
  PROVE  /\ DOMAIN crs' = DOMAIN crs \ {k}
         /\ \A x \in DOMAIN crs' : crs'[x] = crs[x]
         /\ Range(crs') = Range(crs) \ {crs[k]}
         /\ IsInjective(crs')
<1>1. DOMAIN crs' = DOMAIN crs \ {k} /\ \A x \in DOMAIN crs' : crs'[x] = crs[x]
  BY DEF Restrict
<1>2. ASSUME NEW y \in Range(crs') PROVE y \in Range(crs) \ {crs[k]}
  <2>1. PICK x \in DOMAIN crs' : crs'[x] = y
    BY RangeHas
  <2> QED BY <1>1, <2>1, InRange DEF IsInjective
<1>3. ASSUME NEW y \in Range(crs), y # crs[k] PROVE y \in Range(crs')
  <2>1. PICK x \in DOMAIN crs : crs[x] = y
    BY RangeHas
  <2>2. x \in DOMAIN crs' /\ crs'[x] = y
    BY <1>1, <1>3, <2>1
  <2> QED BY <2>2, InRange
<1>4. IsInjective(crs')
  BY <1>1 DEF IsInjective
<1> QED BY <1>1, <1>2, <1>3, <1>4
-------------------------------------------------------------------------------
(***************************************************************************)
(* The invariant.                                                          *)
(***************************************************************************)

LEMMA IInvInit == Init => IInv
<1> SUFFICES ASSUME Init PROVE IInv
  OBVIOUS
<1>1. AP!IInv
  BY CoInit DEF Init
<1>2. crs = <<>> /\ stop = {} /\ phase = "live" /\ alloc = {} /\ running = Main
  BY DEF Init, Co!Init
<1>3. Range(crs) = {} /\ DOMAIN crs = {}
  BY <1>2 DEF Range
<1>4. MapInv /\ PhaseInv
  BY <1>2, <1>3 DEF MapInv, PhaseInv, IsInjective, Phases
<1> QED BY <1>1, <1>2, <1>4 DEF IInv, StopIsEnded

LEMMA CreateStep ==
  ASSUME IInv, phase = "live", NEW k \in Keys, cr_create(k)
  PROVE  IInv'
<1>1. PICK h \in Handles, sz \in SaveSizes : /\ Co!aco_create(h, sz)
                                             /\ crs' = Inserted(k, h)
                                             /\ stop' = stop \ {h}
  BY DEF cr_create
<1>2. k \notin DOMAIN crs /\ phase' = phase
  BY DEF cr_create
<1>3. AP!IInv'
  BY <1>1, CoCreate DEF IInv
<1>4. /\ h \notin alloc /\ alloc' = alloc \cup {h}
      /\ isEnd' = [isEnd EXCEPT ![h] = FALSE] /\ running' = running
  BY <1>1 DEF Co!aco_create
<1>5. h \notin Range(crs)
  BY <1>4 DEF IInv, MapInv
<1>6. MapInv'
  <2>1. /\ DOMAIN crs' = DOMAIN crs \cup {k} /\ Range(crs') = Range(crs) \cup {h}
        /\ IsInjective(crs) => IsInjective(crs')
    BY <1>1, <1>2, <1>5, InsertedFacts
  <2> QED BY <1>2, <1>4, <2>1 DEF IInv, MapInv
<1>7. PhaseInv'
  BY <1>2, <1>4 DEF IInv, PhaseInv
<1>8. stop' \subseteq Handles /\ StopIsEnded'
  BY <1>1, <1>4 DEF IInv, StopIsEnded, AP!IInv, AP!TypeOK
<1> QED BY <1>3, <1>6, <1>7, <1>8 DEF IInv

LEMMA RemoveStep ==
  ASSUME IInv, phase = "live", NEW k \in Keys, cr_remove(k)
  PROVE  IInv'
<1>1. /\ k \in DOMAIN crs /\ Co!aco_destroy(crs[k]) /\ UNCHANGED <<stop, phase>>
      /\ crs' = Restrict(crs, DOMAIN crs \ {k})
  BY DEF cr_remove
<1>2. crs[k] \in Handles
  BY <1>1, InRange DEF IInv, MapInv
<1>3. AP!IInv' /\ alloc' = alloc \ {crs[k]} /\ isEnd' = isEnd
  BY <1>1, <1>2, CoDestroy DEF IInv
<1>4. MapInv'
  BY <1>1, <1>3, RemovedFacts DEF IInv, MapInv
<1>5. PhaseInv'
  BY <1>1, <1>3 DEF IInv, PhaseInv
<1> QED BY <1>1, <1>3, <1>4, <1>5 DEF IInv, StopIsEnded

LEMMA ProxyStep ==
  ASSUME IInv, phase = "live", routine_proxy
  PROVE  IInv'
<1>1. /\ Co!aco_exit /\ stop' = stop \cup {running} /\ UNCHANGED <<crs, phase>>
  BY DEF routine_proxy
<1>2. /\ AP!IInv' /\ running \in alloc /\ alloc' = alloc
      /\ isEnd' = [isEnd EXCEPT ![running] = TRUE]
  BY <1>1, CoExit DEF IInv
<1>3. alloc \subseteq Handles /\ isEnd \in [Handles -> BOOLEAN]
  BY DEF IInv, AP!IInv, AP!TypeOK
<1>4. stop' \subseteq Handles /\ StopIsEnded'
  BY <1>1, <1>2, <1>3 DEF IInv, StopIsEnded
<1> QED BY <1>1, <1>2, <1>4 DEF IInv, MapInv, PhaseInv

\* Steps that neither create nor destroy, by a live factory.
LEMMA KeepingStep ==
  ASSUME IInv, phase = "live", AP!IInv', UNCHANGED <<factoryVars, alloc, isEnd>>
  PROVE  IInv'
BY DEF IInv, MapInv, PhaseInv, StopIsEnded, factoryVars

LEMMA DtorStep ==
  ASSUME IInv, DtorBegin \/ DtorStack \/ DtorEnd
  PROVE  IInv'
<1>1. AP!IInv' /\ UNCHANGED acoVars
  BY CoStutter DEF IInv, DtorBegin, DtorStack, DtorEnd
<1>2. CASE DtorBegin
  BY <1>1, <1>2 DEF DtorBegin, IInv, MapInv, PhaseInv, StopIsEnded, acoVars, Phases
<1>3. CASE DtorStack
  <2>1. alloc = {}
    BY <1>3, RangeHas DEF DtorStack, IInv, MapInv
  <2> QED BY <1>1, <1>3, <2>1
          DEF DtorStack, IInv, MapInv, PhaseInv, StopIsEnded, acoVars, Phases
<1>4. CASE DtorEnd
  <2>1. alloc = {} /\ crs' = <<>>
    BY <1>4 DEF DtorEnd, IInv, PhaseInv
  <2>2. DOMAIN crs' = {} /\ Range(crs') = {} /\ IsInjective(crs')
    BY <2>1 DEF Range, IsInjective
  <2> QED BY <1>1, <1>4, <2>1, <2>2
          DEF DtorEnd, IInv, MapInv, PhaseInv, StopIsEnded, acoVars, Phases
<1> QED BY <1>2, <1>3, <1>4

LEMMA DtorDeleteStep ==
  ASSUME IInv, NEW k \in Keys, DtorDelete(k)
  PROVE  IInv'
<1>1. /\ k \in DOMAIN crs /\ Co!aco_destroy(crs[k]) /\ phase = "deleting"
      /\ UNCHANGED <<crs, stop, phase>>
  BY DEF DtorDelete, factoryVars
<1>2. crs[k] \in Handles
  BY <1>1, InRange DEF IInv, MapInv
<1>3. /\ AP!IInv' /\ alloc' = alloc \ {crs[k]} /\ isEnd' = isEnd /\ running' = running
  BY <1>1, <1>2, CoDestroy DEF IInv, Co!aco_destroy
<1> QED BY <1>1, <1>3 DEF IInv, MapInv, PhaseInv, StopIsEnded

LEMMA IInvStep == IInv /\ [Next]_vars => IInv'
<1> SUFFICES ASSUME IInv, [Next]_vars
             PROVE  IInv'
  OBVIOUS
<1>1. CASE UNCHANGED vars
  BY <1>1, CoStutter
     DEF vars, acoVars, factoryVars, IInv, MapInv, PhaseInv, StopIsEnded
<1>2. CASE fault = "none" /\ phase = "live" /\ routine_proxy
  BY <1>2, ProxyStep
<1>3. CASE fault = "none" /\ phase = "live" /\ RoutineBody
  BY <1>3, CoWork, KeepingStep DEF RoutineBody, IInv
<1>4. ASSUME fault = "none", phase = "live", NEW k \in Keys, cr_create(k)
      PROVE  IInv'
  BY <1>4, CreateStep
<1>5. ASSUME fault = "none", phase = "live", NEW k \in Keys, cr_resume(k)
      PROVE  IInv'
  <2>1. crs[k] \in Handles
    BY <1>5, InRange DEF cr_resume, IInv, MapInv
  <2> QED BY <1>5, <2>1, CoResume, KeepingStep DEF cr_resume, IInv
<1>6. ASSUME fault = "none", phase = "live", NEW k \in Keys, cr_yield(k)
      PROVE  IInv'
  BY <1>6, CoYield, KeepingStep DEF cr_yield, IInv
<1>7. ASSUME fault = "none", phase = "live", NEW k \in Keys, cr_remove(k)
      PROVE  IInv'
  BY <1>7, RemoveStep
<1>8. CASE DtorBegin \/ DtorStack \/ DtorEnd
  BY <1>8, DtorStep
<1>9. ASSUME NEW k \in Keys, DtorDelete(k)
      PROVE  IInv'
  BY <1>9, DtorDeleteStep
<1> QED BY <1>1, <1>2, <1>3, <1>4, <1>5, <1>6, <1>7, <1>8, <1>9 DEF Next, Over

LEMMA IInvAlways == Spec => []IInv
BY IInvInit, IInvStep, PTL DEF Spec
-------------------------------------------------------------------------------
(***************************************************************************)
(* Theorems.                                                               *)
(***************************************************************************)

\* The factory's state, libaco's included, keeps its type for any number of
\* keys.
THEOREM TypeCorrect == Spec => []TypeOK
<1>1. IInv => TypeOK
  BY DEF IInv, MapInv, PhaseInv, TypeOK, AP!IInv, AP!TypeOK, Co!TypeOK, AP!Contexts,
         Co!Contexts, AP!Depths, Co!Depths, AP!Contents, Co!Contents, AP!Faults, Co!Faults
<1> QED BY <1>1, IInvAlways, PTL

\* For any number of keys and addresses, a live factory leads to every
\* coroutine, by one key.
THEOREM EveryCoroutineOwned == Spec => []MapOwnsAll
<1>1. IInv => MapOwnsAll
  BY DEF IInv, MapInv, MapOwnsAll
<1> QED BY <1>1, IInvAlways, PTL

\* For any number of addresses, however often they are reused, is_stop()
\* agrees with libaco.
THEOREM StopAgrees == Spec => []StopIsEnded
<1>1. IInv => StopIsEnded
  BY DEF IInv
<1> QED BY <1>1, IInvAlways, PTL

\* For any number of coroutines left in any state, the destructor frees the
\* shared stack after them.
THEOREM StackGoesLast == Spec => []StackOutlivesUsers
<1>1. IInv => StackOutlivesUsers
  BY DEF IInv, PhaseInv, StackOutlivesUsers
<1> QED BY <1>1, IInvAlways, PTL
-------------------------------------------------------------------------------
(***************************************************************************)
(* Refinement: what a key sees is what libaco's clients see of the         *)
(* coroutine the map has under it.                                         *)
(***************************************************************************)

(* F by key: its value at the key's coroutine, or d for a key without one. *)
Lift(K, m, F, d) == [k \in K |-> IF k \in DOMAIN m THEN F[m[k]] ELSE d]

LEMMA ExceptIs ==
  ASSUME NEW K, NEW k \in K, NEW v, NEW L, NEW M,
         L = [x \in K |-> L[x]], M = [x \in K |-> M[x]],
         \A x \in K : M[x] = IF x = k THEN v ELSE L[x]
  PROVE  M = [L EXCEPT ![k] = v]
OBVIOUS

(* The map with main_co, which has no key, as itself.                      *)
WithMain(m) == [c \in DOMAIN m \cup {Main} |-> IF c = Main THEN Main ELSE m[c]]

LEMMA WithMainFacts ==
  ASSUME NEW m, DOMAIN m \subseteq Keys, Range(m) \subseteq Handles, IsInjective(m)
  PROVE  /\ DOMAIN WithMain(m) = DOMAIN m \cup {Main} /\ WithMain(m)[Main] = Main
         /\ \A k \in DOMAIN m : k # Main /\ WithMain(m)[k] = m[k]
         /\ Range(WithMain(m)) \subseteq Handles \cup {Main}
         /\ IsInjective(WithMain(m))
<1>1. /\ DOMAIN WithMain(m) = DOMAIN m \cup {Main} /\ WithMain(m)[Main] = Main
      /\ \A k \in DOMAIN m : k # Main /\ WithMain(m)[k] = m[k]
  BY FactoryAssumption DEF WithMain
<1>2. \A k \in DOMAIN m : m[k] \in Handles /\ m[k] # Main
  BY InRange, HandlesAssumption
<1>3. Range(WithMain(m)) \subseteq Handles \cup {Main}
  BY <1>1, <1>2, RangeHas
<1>4. IsInjective(WithMain(m))
  BY <1>1, <1>2 DEF IsInjective
<1> QED BY <1>1, <1>3, <1>4

ViewInv ==
  /\ KeyStatuses = Lift(Keys, crs, AP!Statuses, "free")
  /\ KeyStacks = Lift(Keys, crs, AP!Stacks, <<>>)
  /\ KeyValues = Lift(Keys \cup {Main}, WithMain(crs), AP!Values, 0)
  /\ running = Main => KeyRunning = Main
  /\ running # Main => /\ KeyRunning \in DOMAIN crs /\ KeyRunning # Main
                       /\ crs[KeyRunning] = running
  /\ \A h \in Handles \ alloc :
       AP!Statuses[h] = "free" /\ AP!Stacks[h] = <<>> /\ AP!Values[h] = 0
  /\ DOMAIN AP!Statuses = Handles /\ DOMAIN AP!Stacks = Handles
  /\ DOMAIN AP!Values = Handles \cup {Main}

LEMMA ViewIs == IInv => ViewInv
<1> SUFFICES ASSUME IInv PROVE ViewInv
  OBVIOUS
<1>1. \A k \in DOMAIN crs : k \in Keys /\ crs[k] \in Handles /\ k # Main /\ crs[k] # Main
  BY InRange, FactoryAssumption, HandlesAssumption DEF IInv, MapInv
<1>2. NULL \notin alloc
  BY HandlesAssumption DEF IInv, AP!IInv, AP!TypeOK
<1>3. /\ \A k \in DOMAIN crs : KeyStatus(k) = AP!Status(crs[k])
      /\ \A k \in Keys \ DOMAIN crs : KeyStatus(k) = "free"
  BY <1>2 DEF KeyStatus, At, Co!Status, AP!Status
<1>4. \A h \in Handles : AP!Status(h) = "live" <=> AP!Live(h)
  BY DEF AP!Status, AP!Live
<1>5. KeyStatuses = Lift(Keys, crs, AP!Statuses, "free")
  BY <1>1, <1>3 DEF KeyStatuses, Lift, AP!Statuses
<1>6. KeyStacks = Lift(Keys, crs, AP!Stacks, <<>>)
  <2>1. \A h \in Handles : Co!StackOf(h) = AP!StackOf(h)
    BY DEF Co!StackOf, AP!StackOf, Co!Context, AP!Context
  <2>2. \A k \in Keys : KeyStacks[k] = Lift(Keys, crs, AP!Stacks, <<>>)[k]
    BY <1>1, <1>3, <1>4, <2>1 DEF KeyStacks, Lift, AP!Stacks
  <2> QED BY <2>2 DEF KeyStacks, Lift
<1>7. KeyValues = Lift(Keys \cup {Main}, WithMain(crs), AP!Values, 0)
  <2>1. \A c \in Handles \cup {Main} : Co!Context(c) = AP!Context(c)
    BY DEF Co!Context, AP!Context
  <2>2. ASSUME NEW c \in Keys \cup {Main}
        PROVE  KeyValues[c] = Lift(Keys \cup {Main}, WithMain(crs), AP!Values, 0)[c]
    <3>1. CASE c = Main
      BY <2>1, <3>1 DEF KeyValues, Lift, WithMain, AP!Values
    <3>2. CASE c # Main /\ c \in DOMAIN crs
      BY <1>1, <1>3, <1>4, <2>1, <3>2 DEF KeyValues, Lift, WithMain, AP!Values
    <3>3. CASE c # Main /\ c \notin DOMAIN crs
      BY <1>3, <3>3 DEF KeyValues, Lift, WithMain
    <3> QED BY <3>1, <3>2, <3>3
  <2> QED BY <2>2 DEF KeyValues, Lift
<1>8. running # Main => /\ KeyRunning \in DOMAIN crs /\ KeyRunning # Main
                        /\ crs[KeyRunning] = running
  <2> SUFFICES ASSUME running # Main
               PROVE  KeyRunning \in DOMAIN crs /\ crs[KeyRunning] = running
    BY <1>1
  <2>1. running \in Range(crs)
    BY AP!RunningIsLive, HandlesAssumption, WordsAssumption, SizeAssumption,
       SaveSizesAssumption DEF AP!Live, IInv, MapInv
  <2>2. \E k \in DOMAIN crs : crs[k] = running
    BY <2>1, RangeHas
  <2> QED BY <2>2 DEF KeyRunning, KeyOf
<1>9. \A h \in Handles \ alloc :
        AP!Statuses[h] = "free" /\ AP!Stacks[h] = <<>> /\ AP!Values[h] = 0
  BY HandlesAssumption DEF AP!Statuses, AP!Status, AP!Stacks, AP!Values, AP!Live
<1>10. /\ DOMAIN AP!Statuses = Handles /\ DOMAIN AP!Stacks = Handles
       /\ DOMAIN AP!Values = Handles \cup {Main}
  BY DEF AP!Statuses, AP!Stacks, AP!Values
<1> QED BY <1>5, <1>6, <1>7, <1>8, <1>9, <1>10 DEF ViewInv, KeyRunning

LEMMA ViewAfter == IInv' => ViewInv'
BY ViewIs, PTL

LEMMA SameReason == AP!Reason = Co!Reason
BY DEF AP!Reason, Co!Reason

LEMMA SameReasonAfter == AP!Reason' = Co!Reason'
BY DEF AP!Reason, Co!Reason

\* Whoever runs keeps its key when its entry stays.
LEMMA RunningKeepsKey ==
  ASSUME IInv, IInv', running' = running,
         \A k \in DOMAIN crs : crs[k] = running => k \in DOMAIN crs' /\ crs'[k] = crs[k]
  PROVE  KeyRunning' = KeyRunning
<1>1. ViewInv /\ ViewInv'
  BY ViewIs, ViewAfter
<1>2. CASE running = Main
  BY <1>1, <1>2 DEF ViewInv
<1>3. CASE running # Main
  <2>1. /\ KeyRunning \in DOMAIN crs' /\ crs'[KeyRunning] = running
        /\ KeyRunning' \in DOMAIN crs' /\ crs'[KeyRunning'] = running
    BY <1>1, <1>3 DEF ViewInv
  <2> QED BY <2>1 DEF IInv, MapInv, IsInjective
<1> QED BY <1>2, <1>3

LEMMA MapFacts ==
  ASSUME IInv
  PROVE  /\ DOMAIN crs \subseteq Keys /\ Range(crs) \subseteq Handles /\ IsInjective(crs)
         /\ DOMAIN WithMain(crs) = DOMAIN crs \cup {Main} /\ WithMain(crs)[Main] = Main
         /\ \A k \in DOMAIN crs : k # Main /\ WithMain(crs)[k] = crs[k]
         /\ Range(WithMain(crs)) \subseteq Handles \cup {Main}
         /\ IsInjective(WithMain(crs))
BY WithMainFacts DEF IInv, MapInv

\* What a key sees changes as its coroutine does, while the map stays.
LEMMA LiftedChange ==
  ASSUME IInv, IInv', crs' = crs, NEW k \in DOMAIN crs, NEW v
  PROVE  /\ AP!Statuses' = [AP!Statuses EXCEPT ![crs[k]] = v]
              => KeyStatuses' = [KeyStatuses EXCEPT ![k] = v]
         /\ AP!Stacks' = [AP!Stacks EXCEPT ![crs[k]] = v]
              => KeyStacks' = [KeyStacks EXCEPT ![k] = v]
         /\ AP!Values' = [AP!Values EXCEPT ![crs[k]] = v]
              => KeyValues' = [KeyValues EXCEPT ![k] = v]
<1> DEFINE m == WithMain(crs)
<1>1. ViewInv /\ ViewInv'
  BY ViewIs, ViewAfter
<1>2. m' = m
  BY DEF WithMain
<1>3. k \in Keys /\ k \in DOMAIN crs /\ k \in DOMAIN m /\ m[k] = crs[k]
  BY MapFacts
<1>4. \A x \in DOMAIN crs : /\ crs[x] \in DOMAIN AP!Statuses /\ crs[x] \in DOMAIN AP!Stacks
                            /\ crs[x] = crs[k] => x = k
  BY <1>1, MapFacts, InRange DEF ViewInv, IsInjective
<1>5. \A x \in DOMAIN m : m[x] \in DOMAIN AP!Values /\ (m[x] = crs[k] => x = k)
  BY <1>1, <1>3, MapFacts, InRange DEF ViewInv, IsInjective
<1>6. ASSUME AP!Statuses' = [AP!Statuses EXCEPT ![crs[k]] = v]
      PROVE  KeyStatuses' = [KeyStatuses EXCEPT ![k] = v]
  <2>1. /\ KeyStatuses = [x \in Keys |-> IF x \in DOMAIN crs THEN AP!Statuses[crs[x]] ELSE "free"]
        /\ KeyStatuses' = [x \in Keys |-> IF x \in DOMAIN crs THEN AP!Statuses'[crs[x]] ELSE "free"]
    BY <1>1, <1>2 DEF ViewInv, Lift
  <2>2. ASSUME NEW x \in Keys
        PROVE  KeyStatuses'[x] = IF x = k THEN v ELSE KeyStatuses[x]
    <3>1. CASE x \in DOMAIN crs
      <4>1. crs[x] \in DOMAIN AP!Statuses /\ (crs[x] = crs[k] => x = k)
        BY <1>4, <3>1
      <4>2. AP!Statuses'[crs[x]] = IF x = k THEN v ELSE AP!Statuses[crs[x]]
        BY <1>6, <1>3, <4>1
      <4> QED BY <2>1, <3>1, <4>2
    <3>2. CASE x \notin DOMAIN crs
      BY <1>3, <2>1, <3>2
    <3> QED BY <3>1, <3>2
  <2> QED BY <1>3, <2>1, <2>2, ExceptIs
<1>7. ASSUME AP!Stacks' = [AP!Stacks EXCEPT ![crs[k]] = v]
      PROVE  KeyStacks' = [KeyStacks EXCEPT ![k] = v]
  <2>1. /\ KeyStacks = [x \in Keys |-> IF x \in DOMAIN crs THEN AP!Stacks[crs[x]] ELSE <<>>]
        /\ KeyStacks' = [x \in Keys |-> IF x \in DOMAIN crs THEN AP!Stacks'[crs[x]] ELSE <<>>]
    BY <1>1, <1>2 DEF ViewInv, Lift
  <2>2. ASSUME NEW x \in Keys
        PROVE  KeyStacks'[x] = IF x = k THEN v ELSE KeyStacks[x]
    <3>1. CASE x \in DOMAIN crs
      <4>1. crs[x] \in DOMAIN AP!Stacks /\ (crs[x] = crs[k] => x = k)
        BY <1>4, <3>1
      <4>2. AP!Stacks'[crs[x]] = IF x = k THEN v ELSE AP!Stacks[crs[x]]
        BY <1>7, <1>3, <4>1
      <4> QED BY <2>1, <3>1, <4>2
    <3>2. CASE x \notin DOMAIN crs
      BY <1>3, <2>1, <3>2
    <3> QED BY <3>1, <3>2
  <2> QED BY <1>3, <2>1, <2>2, ExceptIs
<1>8. ASSUME AP!Values' = [AP!Values EXCEPT ![crs[k]] = v]
      PROVE  KeyValues' = [KeyValues EXCEPT ![k] = v]
  <2>1. /\ KeyValues = [x \in Keys \cup {Main} |-> IF x \in DOMAIN m THEN AP!Values[m[x]] ELSE 0]
        /\ KeyValues' = [x \in Keys \cup {Main} |-> IF x \in DOMAIN m THEN AP!Values'[m[x]] ELSE 0]
    BY <1>1, <1>2 DEF ViewInv, Lift
  <2>2. ASSUME NEW x \in Keys \cup {Main}
        PROVE  KeyValues'[x] = IF x = k THEN v ELSE KeyValues[x]
    <3>1. CASE x \in DOMAIN m
      <4>1. m[x] \in DOMAIN AP!Values /\ (m[x] = crs[k] => x = k)
        BY <1>5, <3>1
      <4>2. AP!Values'[m[x]] = IF x = k THEN v ELSE AP!Values[m[x]]
        BY <1>8, <1>3, <4>1
      <4> QED BY <2>1, <3>1, <4>2
    <3>2. CASE x \notin DOMAIN m
      BY <1>3, <2>1, <3>2
    <3> QED BY <3>1, <3>2
  <2> QED BY <1>3, <2>1, <2>2, ExceptIs
<1> QED BY <1>6, <1>7, <1>8

LEMMA LiftedMainValue ==
  ASSUME IInv, IInv', crs' = crs, NEW v,
         AP!Values' = [AP!Values EXCEPT ![Main] = v]
  PROVE  KeyValues' = [KeyValues EXCEPT ![Main] = v]
<1> DEFINE m == WithMain(crs)
<1>1. ViewInv /\ ViewInv'
  BY ViewIs, ViewAfter
<1>2. m' = m
  BY DEF WithMain
<1>3. Main \in DOMAIN m /\ m[Main] = Main
  BY MapFacts
<1>4. \A x \in DOMAIN m : m[x] \in DOMAIN AP!Values /\ (m[x] = Main => x = Main)
  BY <1>1, <1>3, MapFacts, InRange DEF ViewInv, IsInjective
<1>5. /\ KeyValues = [x \in Keys \cup {Main} |-> IF x \in DOMAIN m THEN AP!Values[m[x]] ELSE 0]
      /\ KeyValues' = [x \in Keys \cup {Main} |-> IF x \in DOMAIN m THEN AP!Values'[m[x]] ELSE 0]
  BY <1>1, <1>2 DEF ViewInv, Lift
<1>6. ASSUME NEW x \in Keys \cup {Main}
      PROVE  KeyValues'[x] = IF x = Main THEN v ELSE KeyValues[x]
  <2>1. CASE x \in DOMAIN m
    <3>1. AP!Values'[m[x]] = IF x = Main THEN v ELSE AP!Values[m[x]]
      BY <1>3, <1>4, <2>1
    <3> QED BY <1>5, <2>1, <3>1
  <2>2. CASE x \notin DOMAIN m
    BY <1>3, <1>5, <2>2
  <2> QED BY <2>1, <2>2
<1> QED BY <1>5, <1>6, ExceptIs

LEMMA LiftedSame ==
  ASSUME IInv, IInv', crs' = crs
  PROVE  /\ AP!Statuses' = AP!Statuses => KeyStatuses' = KeyStatuses
         /\ AP!Stacks' = AP!Stacks => KeyStacks' = KeyStacks
         /\ AP!Values' = AP!Values => KeyValues' = KeyValues
<1>1. ViewInv /\ ViewInv'
  BY ViewIs, ViewAfter
<1>2. WithMain(crs)' = WithMain(crs)
  BY DEF WithMain
<1> QED BY <1>1, <1>2 DEF ViewInv

\* What a key sees of its coroutine.
LEMMA KeyLooks ==
  ASSUME IInv, NEW k \in DOMAIN crs
  PROVE  /\ k \in Keys /\ crs[k] \in Handles
         /\ KeyStatuses[k] = AP!Statuses[crs[k]] /\ KeyStacks[k] = AP!Stacks[crs[k]]
         /\ KeyValues[k] = AP!Values[crs[k]]
<1>1. ViewInv
  BY ViewIs
<1>2. k \in Keys /\ crs[k] \in Handles
  BY MapFacts, InRange
<1> QED BY <1>1, <1>2, MapFacts DEF ViewInv, Lift

LEMMA InitMaps == Init => ByKey!Init
<1> SUFFICES ASSUME Init PROVE ByKey!Init
  OBVIOUS
<1>1. IInv /\ ViewInv /\ crs = <<>> /\ running = Main
  BY IInvInit, ViewIs DEF Init, Co!Init
<1>2. KeyStatuses = [k \in Keys |-> "free"] /\ KeyStacks = [k \in Keys |-> <<>>]
  BY <1>1 DEF ViewInv, Lift
<1>3. AP!Values[Main] = 0 /\ Co!Reason = "none"
  BY CoInit DEF Init, AP!PS!Init, Co!Init, Co!Reason
<1>4. KeyValues = [c \in Keys \cup {Main} |-> 0]
  BY <1>1, <1>3, FactoryAssumption DEF ViewInv, Lift, WithMain
<1> QED BY <1>1, <1>2, <1>3, <1>4 DEF ByKey!Init, ViewInv

\* With the map unchanged, main_co resumes a key's coroutine.
LEMMA ResumeMaps ==
  ASSUME IInv, IInv', crs' = crs, NEW k \in DOMAIN crs, AP!PS!Resume(crs[k])
  PROVE  ByKey!Resume(k)
<1>1. /\ running = Main /\ AP!Statuses[crs[k]] = "live" /\ running' = crs[k]
      /\ AP!Statuses' = AP!Statuses /\ AP!Stacks' = AP!Stacks /\ AP!Values' = AP!Values
      /\ Co!Reason' = Co!Reason
  BY SameReason, SameReasonAfter DEF AP!PS!Resume
<1>2. KeyRunning = Main /\ KeyStatuses[k] = "live"
  BY <1>1, ViewIs, KeyLooks DEF ViewInv
<1>3. KeyRunning' = k
  <2>1. running' # Main
    BY <1>1, KeyLooks, HandlesAssumption
  <2>2. KeyRunning' \in DOMAIN crs /\ crs[KeyRunning'] = crs[k]
    BY <1>1, <2>1, ViewAfter DEF ViewInv
  <2> QED BY <2>2, MapFacts DEF IsInjective
<1>4. KeyStatuses' = KeyStatuses /\ KeyStacks' = KeyStacks /\ KeyValues' = KeyValues
  BY <1>1, LiftedSame
<1> QED BY <1>1, <1>2, <1>3, <1>4 DEF ByKey!Resume

LEMMA YieldMaps ==
  ASSUME IInv, IInv', crs' = crs, AP!PS!Yield
  PROVE  ByKey!Yield
<1>1. /\ running # Main /\ running' = Main /\ Co!Reason' = Co!Reason
      /\ AP!Statuses' = AP!Statuses /\ AP!Stacks' = AP!Stacks /\ AP!Values' = AP!Values
  BY SameReason, SameReasonAfter DEF AP!PS!Yield
<1>2. KeyRunning # Main /\ KeyRunning' = Main
  BY <1>1, ViewIs, ViewAfter DEF ViewInv
<1>3. KeyStatuses' = KeyStatuses /\ KeyStacks' = KeyStacks /\ KeyValues' = KeyValues
  BY <1>1, LiftedSame
<1> QED BY <1>1, <1>2, <1>3 DEF ByKey!Yield

LEMMA ExitMaps ==
  ASSUME IInv, IInv', crs' = crs, AP!PS!Exit
  PROVE  ByKey!Exit
<1>1. /\ running # Main /\ running' = Main /\ Co!Reason' = Co!Reason
      /\ AP!Statuses' = [AP!Statuses EXCEPT ![running] = "ended"]
      /\ AP!Stacks' = [AP!Stacks EXCEPT ![running] = <<>>]
      /\ AP!Values' = [AP!Values EXCEPT ![running] = 0]
  BY SameReason, SameReasonAfter DEF AP!PS!Exit
<1>2. /\ KeyRunning # Main /\ KeyRunning \in DOMAIN crs /\ crs[KeyRunning] = running
      /\ KeyRunning' = Main
  BY <1>1, ViewIs, ViewAfter DEF ViewInv
<1>3. /\ KeyStatuses' = [KeyStatuses EXCEPT ![KeyRunning] = "ended"]
      /\ KeyStacks' = [KeyStacks EXCEPT ![KeyRunning] = <<>>]
      /\ KeyValues' = [KeyValues EXCEPT ![KeyRunning] = 0]
  BY <1>1, <1>2, LiftedChange
<1> QED BY <1>1, <1>2, <1>3 DEF ByKey!Exit

LEMMA WorkMaps ==
  ASSUME IInv, IInv', crs' = crs, AP!PS!Work
  PROVE  ByKey!Work
<1>1. AP!Statuses' = AP!Statuses /\ running' = running /\ Co!Reason' = Co!Reason
  BY SameReason, SameReasonAfter DEF AP!PS!Work
<1>2. KeyRunning' = KeyRunning /\ KeyStatuses' = KeyStatuses
  BY <1>1, RunningKeepsKey, LiftedSame
<1>3. running # Main => /\ KeyRunning # Main /\ KeyRunning \in DOMAIN crs
                        /\ crs[KeyRunning] = running
  BY ViewIs DEF ViewInv
<1>4. ASSUME running # Main, AP!Values' = AP!Values, NEW w \in Words,
             AP!Stacks' = [AP!Stacks EXCEPT ![running] = Append(@, w)]
      PROVE  ByKey!Work
  <2>1. KeyStacks[KeyRunning] = AP!Stacks[running]
    BY <1>3, <1>4, KeyLooks
  <2>2. AP!Stacks' = [AP!Stacks EXCEPT ![crs[KeyRunning]] = Append(AP!Stacks[running], w)]
    BY <1>3, <1>4
  <2>3. KeyStacks' = [KeyStacks EXCEPT ![KeyRunning] = Append(AP!Stacks[running], w)]
    BY <1>3, <1>4, <2>2, LiftedChange
  <2>4. KeyStacks' = [KeyStacks EXCEPT ![KeyRunning] = Append(@, w)]
    BY <2>1, <2>3
  <2>5. KeyValues' = KeyValues
    BY <1>4, LiftedSame
  <2> QED BY <1>1, <1>2, <1>3, <1>4, <2>4, <2>5 DEF ByKey!Work
<1>5. ASSUME running # Main, AP!Values' = AP!Values, AP!Stacks[running] # <<>>,
             AP!Stacks' = [AP!Stacks EXCEPT ![running] = SubSeq(@, 1, Len(@) - 1)]
      PROVE  ByKey!Work
  <2> DEFINE s == AP!Stacks[running]
             t == SubSeq(s, 1, Len(s) - 1)
  <2>1. KeyStacks[KeyRunning] = s
    BY <1>3, <1>5, KeyLooks
  <2>2. AP!Stacks' = [AP!Stacks EXCEPT ![crs[KeyRunning]] = t]
    BY <1>3, <1>5
  <2>3. KeyStacks' = [KeyStacks EXCEPT ![KeyRunning] = t]
    <3> HIDE DEF t
    <3> QED BY <1>3, <1>5, <2>2, LiftedChange
  <2>4. KeyStacks' = [KeyStacks EXCEPT ![KeyRunning] = SubSeq(@, 1, Len(@) - 1)]
    BY <2>1, <2>3
  <2>5. KeyValues' = KeyValues
    BY <1>5, LiftedSame
  <2> QED BY <1>1, <1>2, <1>3, <1>5, <2>1, <2>4, <2>5 DEF ByKey!Work
<1>6. ASSUME AP!Stacks' = AP!Stacks, NEW r \in Regs,
             AP!Values' = [AP!Values EXCEPT ![running] = r]
      PROVE  ByKey!Work
  <2>1. KeyValues' = [KeyValues EXCEPT ![KeyRunning] = r]
    <3>1. CASE running = Main
      BY <1>6, <3>1, LiftedMainValue, ViewIs DEF ViewInv
    <3>2. CASE running # Main
      BY <1>3, <1>6, <3>2, LiftedChange
    <3> QED BY <3>1, <3>2
  <2>2. KeyStacks' = KeyStacks
    BY <1>6, LiftedSame
  <2> QED BY <1>1, <1>2, <2>1, <2>2 DEF ByKey!Work
<1> QED BY <1>4, <1>5, <1>6 DEF AP!PS!Work

LEMMA FailMaps ==
  ASSUME IInv, IInv', crs' = crs, phase = "live", AP!PS!Fail
  PROVE  ByKey!Fail
<1>1. /\ AP!Statuses' = AP!Statuses /\ AP!Stacks' = AP!Stacks /\ AP!Values' = AP!Values
      /\ running' = running
  BY DEF AP!PS!Fail
<1>2. UNCHANGED <<KeyStatuses, KeyRunning, KeyStacks, KeyValues>>
  BY <1>1, LiftedSame, RunningKeepsKey
<1>3. ASSUME NEW h \in alloc
      PROVE  \E k \in Keys : KeyStacks[k] = AP!Stacks[h] /\ KeyStatuses[k] = AP!Statuses[h]
  <2>1. PICK k \in DOMAIN crs : crs[k] = h
    BY RangeHas DEF IInv, MapInv
  <2> QED BY <2>1, KeyLooks
<1>4. ASSUME NEW h \in Handles, Len(AP!Stacks[h]) > Limit
      PROVE  \E k \in Keys : Len(KeyStacks[k]) > Limit
  <2>1. h \in alloc
    BY <1>4, ViewIs, SizeAssumption DEF ViewInv
  <2> QED BY <1>3, <1>4, <2>1
<1>5. ASSUME NEW h \in Handles, AP!Statuses[h] = "ended"
      PROVE  \E k \in Keys : KeyStatuses[k] = "ended"
  <2>1. h \in alloc
    BY <1>5, ViewIs DEF ViewInv
  <2> QED BY <1>3, <1>5, <2>1
<1>6. running = Main => KeyRunning = Main
  BY ViewIs DEF ViewInv
<1>7. ASSUME running # Main, AP!Stacks[running] = <<>>
      PROVE  KeyRunning # Main /\ KeyStacks[KeyRunning] = <<>>
  BY <1>7, ViewIs, KeyLooks DEF ViewInv
<1> QED BY <1>2, <1>4, <1>5, <1>6, <1>7, SameReason, SameReasonAfter
        DEF AP!PS!Fail, ByKey!Fail

\* What every key sees, key by key.
KeyView ==
  /\ \A x \in DOMAIN crs : /\ KeyStatuses[x] = AP!Statuses[crs[x]]
                           /\ KeyStacks[x] = AP!Stacks[crs[x]]
                           /\ KeyValues[x] = AP!Values[crs[x]]
  /\ \A x \in Keys \ DOMAIN crs :
       KeyStatuses[x] = "free" /\ KeyStacks[x] = <<>> /\ KeyValues[x] = 0
  /\ KeyValues[Main] = AP!Values[Main]
  /\ KeyStatuses = [x \in Keys |-> KeyStatuses[x]]
  /\ KeyStacks = [x \in Keys |-> KeyStacks[x]]
  /\ KeyValues = [x \in Keys \cup {Main} |-> KeyValues[x]]

LEMMA KeyViewIs == IInv => KeyView
<1> SUFFICES ASSUME IInv PROVE KeyView
  OBVIOUS
<1>1. ViewInv
  BY ViewIs
<1>2. \A x \in Keys \ DOMAIN crs :
        KeyStatuses[x] = "free" /\ KeyStacks[x] = <<>> /\ KeyValues[x] = 0
  BY <1>1, MapFacts, FactoryAssumption DEF ViewInv, Lift
<1>3. KeyValues[Main] = AP!Values[Main]
  BY <1>1, MapFacts DEF ViewInv, Lift
<1>4. /\ KeyStatuses = [x \in Keys |-> KeyStatuses[x]]
      /\ KeyStacks = [x \in Keys |-> KeyStacks[x]]
      /\ KeyValues = [x \in Keys \cup {Main} |-> KeyValues[x]]
  BY DEF KeyStatuses, KeyStacks, KeyValues
<1> QED BY <1>2, <1>3, <1>4, KeyLooks DEF KeyView

LEMMA KeyViewAfter == IInv' => KeyView'
BY KeyViewIs, PTL

LEMMA CreateMaps ==
  ASSUME IInv, IInv', NEW k \in Keys, cr_create(k)
  PROVE  ByKey!Create(k)
<1>1. PICK h \in Handles, sz \in SaveSizes : /\ Co!aco_create(h, sz)
                                             /\ crs' = Inserted(k, h)
  BY DEF cr_create
<1>2. /\ AP!Statuses[h] = "free" /\ AP!Statuses' = [AP!Statuses EXCEPT ![h] = "live"]
      /\ AP!Stacks' = AP!Stacks /\ AP!Values' = AP!Values
      /\ running' = running /\ Co!Reason' = Co!Reason
  BY <1>1, CoCreate, SameReason, SameReasonAfter DEF AP!PS!Create, IInv
<1>3. h \notin alloc /\ k \notin DOMAIN crs /\ k # Main
  BY <1>1, FactoryAssumption DEF Co!aco_create, cr_create
<1>4. /\ AP!Stacks[h] = <<>> /\ AP!Values[h] = 0
      /\ DOMAIN AP!Statuses = Handles
  BY <1>3, ViewIs DEF ViewInv
<1>5. /\ DOMAIN crs' = DOMAIN crs \cup {k} /\ crs'[k] = h
      /\ \A x \in DOMAIN crs : x # k /\ crs'[x] = crs[x]
  BY <1>1, <1>3 DEF Inserted
<1>6. \A x \in DOMAIN crs : crs[x] # h
  BY <1>3, <1>5, InRange, <1>1 DEF IInv, MapInv, IsInjective
<1>7. KeyView /\ KeyView'
  BY KeyViewIs, KeyViewAfter
<1>8. \A x \in Keys : KeyStatuses'[x] = IF x = k THEN "live" ELSE KeyStatuses[x]
  <2> SUFFICES ASSUME NEW x \in Keys
               PROVE  KeyStatuses'[x] = IF x = k THEN "live" ELSE KeyStatuses[x]
    OBVIOUS
  <2>1. CASE x = k
    BY <1>2, <1>4, <1>5, <1>7, <2>1 DEF KeyView
  <2>2. CASE x \in DOMAIN crs
    <3>1. AP!Statuses'[crs[x]] = AP!Statuses[crs[x]]
      BY <1>2, <1>4, <1>6, <2>2, KeyLooks
    <3>2. x # k /\ x \in DOMAIN crs' /\ crs'[x] = crs[x]
      BY <1>5, <2>2
    <3>3. KeyStatuses'[x] = AP!Statuses'[crs'[x]]
      BY <1>7, <3>2 DEF KeyView
    <3> QED BY <1>7, <2>2, <3>1, <3>2, <3>3 DEF KeyView
  <2>3. CASE x # k /\ x \notin DOMAIN crs
    BY <1>5, <1>7, <2>3 DEF KeyView
  <2> QED BY <2>1, <2>2, <2>3
<1>9. KeyStatuses' = [KeyStatuses EXCEPT ![k] = "live"]
  BY <1>7, <1>8, ExceptIs DEF KeyView
<1>10. \A x \in Keys : KeyStacks'[x] = KeyStacks[x] /\ KeyValues'[x] = KeyValues[x]
  <2> SUFFICES ASSUME NEW x \in Keys
               PROVE  KeyStacks'[x] = KeyStacks[x] /\ KeyValues'[x] = KeyValues[x]
    OBVIOUS
  <2>1. CASE x = k
    BY <1>2, <1>3, <1>4, <1>5, <1>7, <2>1 DEF KeyView
  <2>2. CASE x \in DOMAIN crs
    <3>1. x \in DOMAIN crs' /\ crs'[x] = crs[x]
      BY <1>5, <2>2
    <3>2. KeyStacks'[x] = AP!Stacks'[crs'[x]] /\ KeyValues'[x] = AP!Values'[crs'[x]]
      BY <1>7, <3>1 DEF KeyView
    <3> QED BY <1>2, <1>7, <2>2, <3>1, <3>2 DEF KeyView
  <2>3. CASE x # k /\ x \notin DOMAIN crs
    BY <1>5, <1>7, <2>3 DEF KeyView
  <2> QED BY <2>1, <2>2, <2>3
<1>11. KeyStacks' = KeyStacks
  BY <1>7, <1>10 DEF KeyView
<1>12. KeyValues' = KeyValues
  BY <1>2, <1>7, <1>10 DEF KeyView
<1>13. KeyRunning' = KeyRunning
  BY <1>2, <1>5, RunningKeepsKey
<1>14. KeyStatuses[k] = "free"
  BY <1>3, <1>7 DEF KeyView
<1> QED BY <1>2, <1>9, <1>11, <1>12, <1>13, <1>14 DEF ByKey!Create

\* A key whose coroutine is destroyed, whether or not the entry goes too.
LEMMA DestroyedMaps ==
  ASSUME IInv, IInv', NEW k \in DOMAIN crs, AP!PS!Destroy(crs[k]),
         crs' = crs \/ crs' = Restrict(crs, DOMAIN crs \ {k})
  PROVE  ByKey!Destroy(k)
<1> DEFINE h == crs[k]
<1>1. /\ AP!Statuses[h] # "free" /\ running # h
      /\ AP!Statuses' = [AP!Statuses EXCEPT ![h] = "free"]
      /\ AP!Stacks' = [AP!Stacks EXCEPT ![h] = <<>>]
      /\ AP!Values' = [AP!Values EXCEPT ![h] = 0]
      /\ running' = running /\ Co!Reason' = Co!Reason
  BY SameReason, SameReasonAfter DEF AP!PS!Destroy
<1>2. /\ DOMAIN AP!Statuses = Handles /\ DOMAIN AP!Stacks = Handles
      /\ DOMAIN AP!Values = Handles \cup {Main}
  BY ViewIs DEF ViewInv
<1>3. h \in Handles /\ k \in Keys /\ h # Main /\ k # Main
  BY KeyLooks, HandlesAssumption, FactoryAssumption
<1>4. \A x \in DOMAIN crs \ {k} : /\ crs[x] # h /\ x \in DOMAIN crs' /\ crs'[x] = crs[x]
                                  /\ crs[x] \in Handles
  BY MapFacts, InRange DEF IsInjective, Restrict
<1>5. k \in DOMAIN crs' => crs'[k] = h
  BY DEF Restrict
<1>6. DOMAIN crs' \subseteq DOMAIN crs
  BY DEF Restrict
<1>7. KeyView /\ KeyView'
  BY KeyViewIs, KeyViewAfter
<1> HIDE DEF h
<1>8. ASSUME NEW x \in Keys
      PROVE  /\ KeyStatuses'[x] = IF x = k THEN "free" ELSE KeyStatuses[x]
             /\ KeyStacks'[x] = IF x = k THEN <<>> ELSE KeyStacks[x]
             /\ KeyValues'[x] = IF x = k THEN 0 ELSE KeyValues[x]
  <2>1. CASE x = k /\ k \in DOMAIN crs'
    BY <1>1, <1>2, <1>3, <1>5, <1>7, <2>1 DEF KeyView
  <2>2. CASE x = k /\ k \notin DOMAIN crs'
    BY <1>7, <2>2 DEF KeyView
  <2>3. CASE x # k /\ x \in DOMAIN crs
    <3>1. /\ AP!Statuses'[crs[x]] = AP!Statuses[crs[x]]
          /\ AP!Stacks'[crs[x]] = AP!Stacks[crs[x]]
          /\ AP!Values'[crs[x]] = AP!Values[crs[x]]
      BY <1>1, <1>2, <1>4, <2>3
    <3>2. x \in DOMAIN crs' /\ crs'[x] = crs[x]
      BY <1>4, <2>3
    <3> QED BY <1>7, <2>3, <3>1, <3>2 DEF KeyView
  <2>4. CASE x # k /\ x \notin DOMAIN crs
    BY <1>6, <1>7, <2>4 DEF KeyView
  <2> QED BY <2>1, <2>2, <2>3, <2>4
<1>9. KeyValues'[Main] = KeyValues[Main]
  BY <1>1, <1>2, <1>3, <1>7 DEF KeyView
<1>10. KeyStatuses' = [KeyStatuses EXCEPT ![k] = "free"]
  BY <1>3, <1>7, <1>8, ExceptIs DEF KeyView
<1>11. KeyStacks' = [KeyStacks EXCEPT ![k] = <<>>]
  BY <1>3, <1>7, <1>8, ExceptIs DEF KeyView
<1>12. KeyValues' = [KeyValues EXCEPT ![k] = 0]
  <2>1. \A x \in Keys \cup {Main} : KeyValues'[x] = IF x = k THEN 0 ELSE KeyValues[x]
    BY <1>3, <1>8, <1>9
  <2> QED BY <1>3, <1>7, <2>1, ExceptIs DEF KeyView
<1>13. KeyRunning' = KeyRunning
  BY <1>1, <1>4, RunningKeepsKey DEF h
<1>14. KeyStatuses[k] # "free"
  BY <1>1, <1>7 DEF KeyView, h
<1>15. KeyRunning # k
  BY <1>1, <1>3, ViewIs DEF ViewInv, h
<1> QED BY <1>1, <1>10, <1>11, <1>12, <1>13, <1>14, <1>15 DEF ByKey!Destroy

\* With no coroutine left, an entry more or less does not show.
LEMMA DtorMaps ==
  ASSUME IInv, IInv', DtorBegin \/ DtorStack \/ DtorEnd
  PROVE  UNCHANGED <<KeyStatuses, KeyRunning, KeyStacks, KeyValues, Co!Reason>>
<1>1. /\ AP!Statuses' = AP!Statuses /\ AP!Stacks' = AP!Stacks /\ AP!Values' = AP!Values
      /\ running' = running /\ Co!Reason' = Co!Reason /\ alloc' = alloc
  BY DEF DtorBegin, DtorStack, DtorEnd, acoVars, AP!Statuses, AP!Status, AP!Stacks,
         AP!StackOf, AP!Live, AP!Context, AP!Values, Co!Reason
<1>2. CASE crs' = crs
  BY <1>1, <1>2, LiftedSame, RunningKeepsKey
<1>3. CASE DtorEnd
  <2>1. running = Main /\ alloc = {} /\ DOMAIN crs' = {}
    BY <1>3 DEF IInv, PhaseInv, DtorEnd
  <2>2. KeyRunning' = KeyRunning
    BY <1>1, <2>1 DEF KeyRunning
  <2>3. KeyView /\ KeyView'
    BY KeyViewIs, KeyViewAfter
  <2>4. \A h \in Handles : /\ AP!Statuses[h] = "free" /\ AP!Stacks[h] = <<>>
                           /\ AP!Values[h] = 0
    BY <2>1, ViewIs DEF ViewInv
  <2>5. \A x \in Keys : /\ KeyStatuses[x] = "free" /\ KeyStacks[x] = <<>>
                        /\ KeyValues[x] = 0
    BY <2>3, <2>4, KeyLooks DEF KeyView
  <2>6. \A x \in Keys : /\ KeyStatuses'[x] = "free" /\ KeyStacks'[x] = <<>>
                        /\ KeyValues'[x] = 0
    BY <2>1, <2>3 DEF KeyView
  <2>7. KeyStatuses' = KeyStatuses /\ KeyStacks' = KeyStacks
    BY <2>3, <2>5, <2>6 DEF KeyView
  <2>8. KeyValues' = KeyValues
    BY <1>1, <2>3, <2>5, <2>6 DEF KeyView
  <2> QED BY <1>1, <2>2, <2>7, <2>8
<1> QED BY <1>2, <1>3 DEF DtorBegin, DtorStack

LEMMA RefinementStep == IInv /\ IInv' /\ [Next]_vars => [ByKey!Next]_ByKey!vars
<1> SUFFICES ASSUME IInv, IInv', [Next]_vars
             PROVE  [ByKey!Next]_ByKey!vars
  OBVIOUS
<1>1. CASE UNCHANGED vars
  <2>1. /\ AP!Statuses' = AP!Statuses /\ AP!Stacks' = AP!Stacks
        /\ AP!Values' = AP!Values /\ Co!Reason' = Co!Reason
    BY <1>1 DEF vars, acoVars, AP!Statuses, AP!Status, AP!Stacks, AP!StackOf, AP!Live,
                AP!Context, AP!Values, Co!Reason
  <2>2. crs' = crs /\ running' = running
    BY <1>1 DEF vars, factoryVars, acoVars
  <2> QED BY <2>1, <2>2, LiftedSame, RunningKeepsKey DEF ByKey!vars
<1>2. CASE DtorBegin \/ DtorStack \/ DtorEnd
  BY <1>2, DtorMaps DEF ByKey!vars
<1>3. ASSUME fault = "none" PROVE Co!Reason = "none"
  BY <1>3 DEF Co!Reason
<1>4. CASE fault = "none" /\ phase = "live" /\ routine_proxy
  BY <1>3, <1>4, CoExit, ExitMaps DEF routine_proxy, IInv, ByKey!Next
<1>5. CASE fault = "none" /\ phase = "live" /\ RoutineBody
  BY <1>3, <1>5, CoWork, WorkMaps, FailMaps
     DEF RoutineBody, factoryVars, IInv, ByKey!Next
<1>6. ASSUME fault = "none", NEW k \in Keys, cr_create(k)
      PROVE  ByKey!Next
  BY <1>3, <1>6, CreateMaps DEF ByKey!Next
<1>7. ASSUME fault = "none", phase = "live", NEW k \in Keys, cr_resume(k)
      PROVE  ByKey!Next
  <2>1. k \in DOMAIN crs /\ crs' = crs /\ Co!aco_resume(crs[k]) /\ crs[k] \in Handles
    BY <1>7, KeyLooks DEF cr_resume, factoryVars
  <2>2. AP!PS!Resume(crs[k]) \/ AP!PS!Fail
    BY <1>7, <2>1, CoResume DEF IInv
  <2> QED BY <1>3, <1>7, <2>1, <2>2, ResumeMaps, FailMaps DEF ByKey!Next
<1>8. ASSUME fault = "none", NEW k \in Keys, cr_yield(k)
      PROVE  ByKey!Next
  BY <1>3, <1>8, CoYield, YieldMaps DEF cr_yield, factoryVars, IInv, ByKey!Next
<1>9. ASSUME fault = "none", NEW k \in Keys, cr_remove(k) \/ DtorDelete(k)
      PROVE  ByKey!Next
  <2>1. /\ k \in DOMAIN crs /\ Co!aco_destroy(crs[k]) /\ crs[k] \in Handles
        /\ crs' = crs \/ crs' = Restrict(crs, DOMAIN crs \ {k})
    BY <1>9, KeyLooks DEF cr_remove, DtorDelete, factoryVars
  <2>2. AP!PS!Destroy(crs[k])
    BY <2>1, CoDestroy DEF IInv
  <2> QED BY <1>3, <1>9, <2>1, <2>2, DestroyedMaps DEF ByKey!Next
<1> QED BY <1>1, <1>2, <1>4, <1>5, <1>6, <1>7, <1>8, <1>9 DEF Next, Over

\* For any number of keys, coroutines and addresses, a client of the factory
\* sees private stacks and registers under its keys, and the process aborts for
\* no other reasons than the three of PrivateStacks.
THEOREM ImplementsKeyedStacks == Spec => KeyedStacksSpec
<1>1. Init => ByKey!Init
  BY InitMaps
<1>2. IInv /\ IInv' /\ [Next]_vars => [ByKey!Next]_ByKey!vars
  BY RefinementStep
<1> QED BY <1>1, <1>2, IInvAlways, PTL DEF Spec, KeyedStacksSpec, ByKey!Spec
===============================================================================
