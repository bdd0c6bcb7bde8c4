---------------------------------- MODULE Aco ----------------------------------
(***************************************************************************)
(* libaco: coroutines that take turns on one shared stack.  The stack      *)
(* belongs to the coroutine that ran last, its owner; before another one   *)
(* runs, aco_resume copies the owner's part of it to the owner's private   *)
(* save buffer and copies the other one's back.                            *)
(*                                                                         *)
(* Stacks are counted in words down from align_retptr: mem[1] is the word  *)
(* below it, and a stack pointer is the number of words in use.  A handle  *)
(* is the address of an aco_t, which malloc may give out again.            *)
(***************************************************************************)
EXTENDS Integers, Sequences

CONSTANTS Handles,    \* addresses of coroutines
          Main,       \* main_co
          NULL,       \* the null aco_t pointer
          Words,      \* what a stack word may hold
          Regs,       \* what the registers but the stack pointer may hold
          Limit,      \* words that aco_resume agrees to copy (align_limit)
          Slack,      \* words below those, above the guard page
          SaveSizes   \* values of aco_create's save_stack_sz

ASSUME HandlesAssumption == Main \notin Handles /\ NULL \notin Handles \cup {Main}
ASSUME WordsAssumption == 0 \in Words /\ 0 \in Regs
ASSUME SizeAssumption == Limit \in Nat \ {0} /\ Slack \in Nat \ {0}
ASSUME SaveSizesAssumption == SaveSizes \subseteq Nat \ {0}

VARIABLES alloc,    \* the coroutines that exist
          isEnd,    \* is_end
          reg,      \* reg[]: stack pointer and the other saved registers
          saved,    \* the valid_sz words of save_stack.ptr
          saveSz,   \* save_stack.sz
          mem,      \* the shared stack
          owner,    \* share_stack->owner
          running,  \* who executes the thread; aco_gtls_co once one has run
          cpu,      \* the registers of the running one
          fault     \* which assertion or trap stopped the process, or "none"

coVars == <<alloc, isEnd, saved, saveSz>>
vars == <<coVars, reg, mem, owner, running, cpu, fault>>

Depths == 0..(Limit + Slack)
Contexts == [sp : Depths, val : Regs]
Contents == UNION {[1..n -> Words] : n \in 0..Limit}
Faults == {"none", "ended", "spRange", "validSz", "exitOwner", "guardPage",
           "protector"}

TypeOK == /\ alloc \subseteq Handles
          /\ isEnd \in [Handles -> BOOLEAN]
          /\ reg \in [Handles \cup {Main} -> Contexts]
          /\ saved \in [Handles -> Contents]
          /\ saveSz \in [Handles -> Nat]
          /\ mem \in [1..(Limit + Slack) -> Words]
          /\ owner \in Handles \cup {NULL}
          /\ running \in Handles \cup {Main}
          /\ cpu \in Contexts
          /\ fault \in Faults

\* A new thread of control: nothing on its stack, registers cleared.
Fresh == [sp |-> 0, val |-> 0]

Abort(why) == fault' = why /\ UNCHANGED <<coVars, reg, mem, owner, running, cpu>>

(***************************************************************************)
(* Operations.                                                             *)
(***************************************************************************)

\* Mutant: the memory of a new coroutine is not cleared.
aco_createUncleared(h, sz) == /\ h \in Handles \ alloc
                              /\ alloc' = alloc \cup {h}
                              /\ isEnd' = [isEnd EXCEPT ![h] = FALSE]
                              /\ reg' = [reg EXCEPT ![h] = Fresh]
                              /\ saveSz' = [saveSz EXCEPT ![h] = sz]
                              /\ UNCHANGED <<saved, mem, owner, running, cpu, fault>>

aco_create(h, sz) == /\ h \in Handles \ alloc
                     /\ alloc' = alloc \cup {h}
                     /\ isEnd' = [isEnd EXCEPT ![h] = FALSE]
                     /\ reg' = [reg EXCEPT ![h] = Fresh]
                     /\ saved' = [saved EXCEPT ![h] = <<>>]
                     /\ saveSz' = [saveSz EXCEPT ![h] = sz]
                     /\ UNCHANGED <<mem, owner, running, cpu, fault>>

\* Mutant: the floating-point environment of to is not loaded.
acoswSharedFpu(from, to) == /\ reg' = [reg EXCEPT ![from] = cpu]
                            /\ cpu' = [cpu EXCEPT !.sp = reg[to].sp]
                            /\ running' = to

\* acosw: from's registers are stored and to's loaded.
acosw(from, to) == /\ reg' = [reg EXCEPT ![from] = cpu]
                   /\ cpu' = reg[to]
                   /\ running' = to

\* Mutant: a stack one word too large is still copied to the old buffer.
GrownLate(sz, need) == {IF need <= sz + 1 THEN sz ELSE 2 * need}

\* The save buffer doubles until the stack fits: the one size from sz up,
\* by doubling, that is enough while its half was not.
GrownTo(sz, need) == {n \in sz..(sz + 2 * need) :
                        /\ n >= need
                        /\ n = sz \/ n < 2 * need
                        /\ \E k \in 0..need : n = sz * 2^k}

\* Mutant: the word the stack pointer is at is not saved.
InUseOneShort(h) == [k \in 1..(reg[h].sp - 1) |-> mem[k]]

InUse(h) == [k \in 1..reg[h].sp |-> mem[k]]

\* The owner's words go to its save buffer, which grows if it must.
SaveOwner == /\ saved' = [saved EXCEPT ![owner] = InUse(owner)]
             /\ \E n \in GrownTo(saveSz[owner], reg[owner].sp) :
                  saveSz' = [saveSz EXCEPT ![owner] = n]

\* Mutant: the words come back one word off their place.
RestoreShifted(h) == mem' = [k \in DOMAIN mem |->
                               IF k + 1 \in DOMAIN saved[h] THEN saved[h][k + 1]
                               ELSE mem[k]]

\* h's words come back to where they were.
Restore(h) == mem' = [k \in DOMAIN mem |->
                        IF k \in DOMAIN saved[h] THEN saved[h][k] ELSE mem[k]]

SpInRange(h) == reg[h].sp <= Limit

Displaces(h) == owner \notin {h, NULL}

\* The assertion of aco_resume(h) that fails, or "none".
ResumeFault(h) ==
  IF isEnd[h] THEN "ended"
  ELSE IF Displaces(h) /\ ~SpInRange(owner) THEN "spRange"
  ELSE IF owner # h /\ Len(saved[h]) > Limit THEN "validSz"
  ELSE "none"

\* The caller must be main_co.
aco_resume(h) ==
  /\ running = Main
  /\ h \in alloc
  /\ \/ /\ ResumeFault(h) # "none"
        /\ Abort(ResumeFault(h))
     \/ /\ ResumeFault(h) = "none"
        /\ IF Displaces(h) THEN SaveOwner ELSE UNCHANGED <<saved, saveSz>>
        /\ IF owner # h THEN Restore(h) ELSE UNCHANGED mem
        /\ owner' = h
        /\ acosw(Main, h)
        /\ UNCHANGED <<alloc, isEnd, fault>>

\* The caller must be a non-main coroutine.
aco_yield == /\ running # Main
             /\ acosw(running, Main)
             /\ UNCHANGED <<coVars, mem, owner, fault>>

aco_exit == /\ running # Main
            /\ IF owner # running
               THEN Abort("exitOwner")
               ELSE /\ isEnd' = [isEnd EXCEPT ![running] = TRUE]
                    /\ owner' = NULL
                    /\ acosw(running, Main)
                    /\ UNCHANGED <<alloc, saved, saveSz, mem, fault>>

\* Mutant: the shared stack still names the destroyed coroutine.
aco_destroyKeepOwner(h) == /\ h \in alloc \ {running}
                           /\ alloc' = alloc \ {h}
                           /\ UNCHANGED <<isEnd, saved, saveSz, reg, mem, owner,
                                          running, cpu, fault>>

\* Anyone but the coroutine itself may destroy it.
aco_destroy(h) == /\ h \in alloc \ {running}
                  /\ alloc' = alloc \ {h}
                  /\ owner' = IF owner = h THEN NULL ELSE owner
                  /\ UNCHANGED <<isEnd, saved, saveSz, reg, mem, running, cpu, fault>>

(***************************************************************************)
(* What the code between the calls does to the stack and the registers.    *)
(***************************************************************************)

\* Mutant: there is no guard page.
PushNoGuardPage(w) == /\ running # Main
                      /\ mem' = [mem EXCEPT ![cpu.sp + 1] = w]
                      /\ cpu' = [cpu EXCEPT !.sp = @ + 1]
                      /\ UNCHANGED <<coVars, reg, owner, running, fault>>

\* A word too many hits the guard page.
Push(w) == /\ running # Main
           /\ \/ /\ cpu.sp < Limit + Slack
                 /\ mem' = [mem EXCEPT ![cpu.sp + 1] = w]
                 /\ cpu' = [cpu EXCEPT !.sp = @ + 1]
                 /\ UNCHANGED <<coVars, reg, owner, running, fault>>
              \/ /\ cpu.sp = Limit + Slack
                 /\ Abort("guardPage")

Pop == /\ running # Main
       /\ cpu.sp > 0
       /\ cpu' = [cpu EXCEPT !.sp = @ - 1]
       /\ UNCHANGED <<coVars, reg, mem, owner, running, fault>>

SetReg(r) == /\ cpu' = [cpu EXCEPT !.val = r]
             /\ UNCHANGED <<coVars, reg, mem, owner, running, fault>>

\* An entry function that returns runs into the word at align_retptr, the
\* address of aco_funcp_protector_asm, instead of calling aco_exit.
ReturnFromEntry == /\ running # Main
                   /\ cpu.sp = 0
                   /\ Abort("protector")

(***************************************************************************)
(* The thread.                                                             *)
(***************************************************************************)

Init == /\ alloc = {}
        /\ isEnd = [h \in Handles |-> FALSE]
        /\ reg = [c \in Handles \cup {Main} |-> Fresh]
        /\ saved = [h \in Handles |-> <<>>]
        /\ saveSz = [h \in Handles |-> 0]
        /\ mem = [k \in 1..(Limit + Slack) |-> 0]
        /\ owner = NULL
        /\ running = Main
        /\ cpu = Fresh
        /\ fault = "none"

Work == Pop \/ (\E w \in Words : Push(w)) \/ (\E r \in Regs : SetReg(r))

Aborted == fault # "none" /\ UNCHANGED vars

Next == \/ /\ fault = "none"
           /\ \/ aco_yield \/ aco_exit \/ ReturnFromEntry \/ Work
              \/ \E h \in Handles : \/ aco_resume(h) \/ aco_destroy(h)
                                    \/ \E sz \in SaveSizes : aco_create(h, sz)
        \/ Aborted

Spec == Init /\ [][Next]_vars

(***************************************************************************)
(* Properties.                                                             *)
(***************************************************************************)

Live(h) == h \in alloc /\ ~isEnd[h]

\* The running coroutine owns the shared stack, and the owner is never one
\* that has ended or was freed: aco_resume follows the owner's pointer, and
\* a new coroutine at the same address must not pass for it.
OwnerCurrent == /\ running # Main => owner = running
                /\ owner # NULL => Live(owner)

\* A save buffer has room for what was copied to it, whatever size it was
\* created with.
SavedFits == \A h \in alloc : Len(saved[h]) <= saveSz[h]

\* Whoever lost the shared stack has all the words its stack pointer counts
\* in its save buffer.
SuspendedComplete ==
  \A h \in alloc : Live(h) /\ owner # h => Len(saved[h]) = reg[h].sp

\* Each coroutine has its stack and registers to itself, and the process
\* only aborts for the reasons PrivateStacks names.
Context(c) == IF running = c THEN cpu ELSE reg[c]
StackOf(h) == IF owner = h THEN [k \in 1..Context(h).sp |-> mem[k]] ELSE saved[h]
Status(h) == IF h \notin alloc THEN "free"
             ELSE IF isEnd[h] THEN "ended" ELSE "live"
Reason == IF fault \in {"spRange", "guardPage"} THEN "overflow"
          ELSE IF fault = "protector" THEN "returned" ELSE fault

Statuses == [h \in Handles |-> Status(h)]
Stacks == [h \in Handles |-> IF Live(h) THEN StackOf(h) ELSE <<>>]
Values == [c \in Handles \cup {Main} |->
             IF c = Main \/ Live(c) THEN Context(c).val ELSE 0]

PS == INSTANCE PrivateStacks WITH status <- Statuses, stack <- Stacks,
                                  val <- Values, failed <- Reason
PrivateStacksSpec == PS!Spec
===============================================================================
