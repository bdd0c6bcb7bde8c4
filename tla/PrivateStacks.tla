----------------------------- MODULE PrivateStacks -----------------------------
(***************************************************************************)
(* What coroutines promise, as if each had a stack and registers of its    *)
(* own: only the running one changes them, whatever the others do.         *)
(***************************************************************************)
EXTENDS Integers, Sequences

CONSTANTS Handles,  \* identities of coroutines
          Main,     \* the thread's own context, which resumes the others
          Words,    \* what a stack word may hold
          Regs,     \* what the registers may hold
          Limit     \* words a stack is meant to hold

VARIABLES status,   \* "free", "live" or "ended"
          running,  \* who executes the thread
          stack,    \* the stack of each coroutine
          val,      \* the registers of each coroutine and of Main
          failed    \* why the process was aborted, or "none"

vars == <<status, running, stack, val, failed>>

Init == /\ status = [h \in Handles |-> "free"]
        /\ running = Main
        /\ stack = [h \in Handles |-> <<>>]
        /\ val = [c \in Handles \cup {Main} |-> 0]
        /\ failed = "none"

Create(h) == /\ status[h] = "free"
             /\ status' = [status EXCEPT ![h] = "live"]
             /\ UNCHANGED <<running, stack, val, failed>>

\* The end of a coroutine's existence, by anyone but itself.
Destroy(h) == /\ status[h] # "free"
              /\ running # h
              /\ status' = [status EXCEPT ![h] = "free"]
              /\ stack' = [stack EXCEPT ![h] = <<>>]
              /\ val' = [val EXCEPT ![h] = 0]
              /\ UNCHANGED <<running, failed>>

Resume(h) == /\ running = Main
             /\ status[h] = "live"
             /\ running' = h
             /\ UNCHANGED <<status, stack, val, failed>>

Yield == /\ running # Main
         /\ running' = Main
         /\ UNCHANGED <<status, stack, val, failed>>

Exit == /\ running # Main
        /\ status' = [status EXCEPT ![running] = "ended"]
        /\ stack' = [stack EXCEPT ![running] = <<>>]
        /\ val' = [val EXCEPT ![running] = 0]
        /\ running' = Main
        /\ UNCHANGED failed

\* The running coroutine works on its own stack, and whoever runs on its
\* registers.
Work == \/ /\ running # Main
           /\ \/ \E w \in Words : stack' = [stack EXCEPT ![running] = Append(@, w)]
              \/ /\ stack[running] # <<>>
                 /\ stack' = [stack EXCEPT ![running] = SubSeq(@, 1, Len(@) - 1)]
           /\ UNCHANGED <<status, running, val, failed>>
        \/ /\ \E r \in Regs : val' = [val EXCEPT ![running] = r]
           /\ UNCHANGED <<status, running, stack, failed>>

\* The only three reasons to abort: somebody outgrew the limit, an ended
\* coroutine is resumed, or one returns from its entry function.
Fail == /\ \/ /\ \E h \in Handles : Len(stack[h]) > Limit
              /\ failed' = "overflow"
           \/ /\ running = Main
              /\ \E h \in Handles : status[h] = "ended"
              /\ failed' = "ended"
           \/ /\ running # Main
              /\ stack[running] = <<>>
              /\ failed' = "returned"
        /\ UNCHANGED <<status, running, stack, val>>

Next == /\ failed = "none"
        /\ \/ Yield \/ Exit \/ Work \/ Fail
           \/ \E h \in Handles : Create(h) \/ Destroy(h) \/ Resume(h)

Spec == Init /\ [][Next]_vars
===============================================================================
