--------------------------- MODULE CoroutineFactory ---------------------------
(***************************************************************************)
(* Coroutine and CoroutineFactory: libaco's coroutines under keys.  The    *)
(* factory owns the shared stack, main_co and, through a map, one          *)
(* Coroutine object per key; every object owns one aco_t, so the aco_t's   *)
(* address also stands for the object.                                     *)
(***************************************************************************)
EXTENDS Integers, Sequences, Functions

CONSTANTS Keys,  \* keys of the map
          Handles, Main, NULL, Words, Regs, Limit, Slack, SaveSizes  \* as in Aco

ASSUME FactoryAssumption == Main \notin Keys /\ NULL \notin Keys
ASSUME HandlesAssumption == Main \notin Handles /\ NULL \notin Handles \cup {Main}
ASSUME WordsAssumption == 0 \in Words /\ 0 \in Regs
ASSUME SizeAssumption == Limit \in Nat \ {0} /\ Slack \in Nat \ {0}
ASSUME SaveSizesAssumption == SaveSizes \subseteq Nat \ {0}

VARIABLES crs,     \* the map: key to Coroutine
          stop,    \* the Coroutines whose m_is_stop is set
          phase,   \* "live", and the stages of the destructor
          alloc, isEnd, reg, saved, saveSz, mem, owner, running, cpu, fault

Co == INSTANCE Aco

factoryVars == <<crs, stop, phase>>
acoVars == <<alloc, isEnd, reg, saved, saveSz, mem, owner, running, cpu, fault>>
vars == <<factoryVars, acoVars>>

Phases == {"live", "deleting", "noStack", "gone"}

TypeOK == /\ Co!TypeOK
          /\ DOMAIN crs \subseteq Keys
          /\ Range(crs) \subseteq Handles
          /\ stop \subseteq Handles
          /\ phase \in Phases

(***************************************************************************)
(* Operations on a live factory.  main_co resumes; creating and removing   *)
(* other coroutines is open to a running coroutine as well.  A call with a *)
(* key that is not in the map (or already in it, for cr_create) returns    *)
(* false and changes nothing.                                              *)
(***************************************************************************)

\* The map with h under the new key k.
Inserted(k, h) == [x \in DOMAIN crs \cup {k} |-> IF x = k THEN h ELSE crs[x]]

\* Mutant: with the key in use, the new Coroutine is not deleted again.
cr_createLeaking(k) == /\ k \in Keys
                       /\ \E h \in Handles, sz \in SaveSizes :
                            /\ Co!aco_create(h, sz)
                            /\ crs' = IF k \in DOMAIN crs THEN crs ELSE Inserted(k, h)
                            /\ stop' = stop \ {h}
                       /\ UNCHANGED phase

\* Mutant: m_is_stop is left as the memory had it.
cr_createStopUnset(k) == /\ k \in Keys \ DOMAIN crs
                         /\ \E h \in Handles, sz \in SaveSizes :
                              /\ Co!aco_create(h, sz)
                              /\ crs' = Inserted(k, h)
                         /\ UNCHANGED <<stop, phase>>

\* A new Coroutine object, not stopped, and its aco_t, under a new key.
cr_create(k) == /\ k \in Keys \ DOMAIN crs
                /\ \E h \in Handles, sz \in SaveSizes :
                     /\ Co!aco_create(h, sz)
                     /\ crs' = Inserted(k, h)
                     /\ stop' = stop \ {h}
                /\ UNCHANGED phase

\* Also Coroutine::resume on the object that cr_get returned.
cr_resume(k) == /\ k \in DOMAIN crs
                /\ Co!aco_resume(crs[k])
                /\ UNCHANGED factoryVars

\* Coroutine::yield is static and yields whoever runs, so cr_yield does the
\* same for any key of the map.
cr_yield(k) == /\ k \in DOMAIN crs
               /\ Co!aco_yield
               /\ UNCHANGED factoryVars

\* Mutant: the entry stays, with a null pointer.
cr_removeNulling(k) == /\ k \in DOMAIN crs
                       /\ Co!aco_destroy(crs[k])
                       /\ crs' = [crs EXCEPT ![k] = NULL]
                       /\ UNCHANGED <<stop, phase>>

\* delete of the Coroutine object and its entry.
cr_remove(k) == /\ k \in DOMAIN crs
                /\ Co!aco_destroy(crs[k])
                /\ crs' = Restrict(crs, DOMAIN crs \ {k})
                /\ UNCHANGED <<stop, phase>>

\* Mutant: m_is_stop is not set at the end.
routine_proxyNoStop == /\ Co!aco_exit
                       /\ UNCHANGED <<crs, stop, phase>>

\* What routine_proxy does after the routine has returned.
routine_proxy == /\ stop' = stop \cup {running}
                 /\ Co!aco_exit
                 /\ UNCHANGED <<crs, phase>>

RoutineBody == Co!Work /\ UNCHANGED factoryVars

(***************************************************************************)
(* The destructor, run by main_co: delete every Coroutine, then the shared *)
(* stack, then main_co and the map.                                        *)
(***************************************************************************)

DtorBegin == /\ phase = "live"
             /\ running = Main
             /\ phase' = "deleting"
             /\ UNCHANGED <<crs, stop, acoVars>>

DtorDelete(k) == /\ phase = "deleting"
                 /\ k \in DOMAIN crs
                 /\ Co!aco_destroy(crs[k])
                 /\ UNCHANGED factoryVars

\* Mutant: the shared stack goes first.
DtorStackFirst == /\ phase = "deleting"
                  /\ phase' = "noStack"
                  /\ UNCHANGED <<crs, stop, acoVars>>

DtorStack == /\ phase = "deleting"
             /\ \A k \in DOMAIN crs : crs[k] \notin alloc
             /\ phase' = "noStack"
             /\ UNCHANGED <<crs, stop, acoVars>>

DtorEnd == /\ phase = "noStack"
           /\ phase' = "gone"
           /\ crs' = <<>>
           /\ UNCHANGED <<stop, acoVars>>

Init == /\ crs = <<>>
        /\ stop = {}
        /\ phase = "live"
        /\ Co!Init

Over == (fault # "none" \/ phase = "gone") /\ UNCHANGED vars

Next == \/ /\ fault = "none" /\ phase = "live"
           /\ \/ routine_proxy \/ RoutineBody
              \/ \E k \in Keys : \/ cr_create(k) \/ cr_resume(k)
                                 \/ cr_yield(k) \/ cr_remove(k)
        \/ /\ fault = "none"
           /\ \/ DtorBegin \/ DtorStack \/ DtorEnd
              \/ \E k \in Keys : DtorDelete(k)
        \/ Over

Spec == Init /\ [][Next]_vars

(***************************************************************************)
(* Properties.                                                             *)
(***************************************************************************)

\* The map holds every coroutine exactly once: none is leaked, none is
\* reached by two keys, no key of a live factory dangles.
MapOwnsAll ==
  phase = "live" => Range(crs) = alloc /\ IsInjective(crs)

\* is_stop() says of every coroutine whether libaco would refuse to resume
\* it, also when its address was used before.
StopIsEnded == \A h \in alloc : h \in stop <=> isEnd[h]

\* aco_destroy writes to the shared stack's descriptor: none is left to be
\* destroyed when that goes, or when main_co does.
StackOutlivesUsers == phase \in {"noStack", "gone"} => alloc = {}

\* Whoever names coroutines by key sees private stacks: which address a key
\* has, and whose it was before, does not show.
At(k) == IF k \in DOMAIN crs THEN crs[k] ELSE NULL
KeyOf(h) == CHOOSE k \in DOMAIN crs : crs[k] = h
KeyStatus(k) == IF At(k) \in alloc THEN Co!Status(crs[k]) ELSE "free"

KeyStatuses == [k \in Keys |-> KeyStatus(k)]
KeyRunning == IF running = Main THEN Main ELSE KeyOf(running)
KeyStacks == [k \in Keys |-> IF KeyStatus(k) = "live" THEN Co!StackOf(crs[k]) ELSE <<>>]
KeyValues == [c \in Keys \cup {Main} |->
                IF c = Main THEN Co!Context(Main).val
                ELSE IF KeyStatus(c) = "live" THEN Co!Context(crs[c]).val ELSE 0]

ByKey == INSTANCE PrivateStacks WITH
           Handles <- Keys, status <- KeyStatuses, running <- KeyRunning,
           stack <- KeyStacks, val <- KeyValues, failed <- Co!Reason
KeyedStacksSpec == ByKey!Spec
===============================================================================
