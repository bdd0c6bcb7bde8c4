------------------------------ MODULE CpuBinding ------------------------------
(***************************************************************************)
(* TaskPool::init: a Task for each entry of Config::m_vecCore, whose       *)
(* thread is pinned to that core through an 8-bit mask.                    *)
(*                                                                         *)
(* Every thread is created; what a failure of pthread_create leads to is   *)
(* WorkerPool's subject.                                                   *)
(***************************************************************************)
EXTENDS Integers, Sequences

CONSTANTS Cpus       \* the cores the process may use; main runs on any of them

VARIABLES m_vecCore, \* Config::m_vecCore
          ppc,       \* what TaskPool::init does next
          m_core_id, \* Task::m_core_id of the tasks so far
          affinity   \* the cores each task's thread may run on, {} before it exists

Byte == 0..255

TypeOK == /\ m_vecCore \in Seq(Int)
          /\ ppc \in {"new", "affinity", "create", "bind", "done"}
          /\ m_core_id \in Seq(Byte)
          /\ affinity \in Seq(SUBSET Cpus)
          /\ Len(affinity) = Len(m_core_id) /\ Len(m_core_id) <= Len(m_vecCore)

(***************************************************************************)
(* util_cpu_bind and its argument.                                         *)
(***************************************************************************)

\* The values 1 << id may have, cut to the byte of the parameter.  From 32 on
\* the shift is undefined: processors take the count modulo 32 or shift
\* everything out.
Masks(id) == IF id < 8 THEN {2^id}
             ELSE IF id < 32 THEN {0}
             ELSE {0} \cup {2^k : k \in {id % 32} \cap 0..7}

CpuSet(mask) == {c \in 0..7 : (mask \div 2^c) % 2 = 1}

\* The system refuses a set without a core the process may use, and otherwise
\* drops the others.
SetAffinity(set, old) == IF set \cap Cpus = {} THEN old ELSE set \cap Cpus

(***************************************************************************)
(* TaskPool::init.                                                         *)
(***************************************************************************)

Last(s) == s[Len(s)]

\* The constructor names core 1 before set_affinity names the configured one.
NewTask == /\ ppc = "new" /\ Len(m_core_id) < Len(m_vecCore)
           /\ m_core_id' = Append(m_core_id, 1)
           /\ affinity' = Append(affinity, {})
           /\ ppc' = "affinity"
           /\ UNCHANGED m_vecCore

\* Mutant: the parameter is an int.
SetCoreWide == /\ ppc = "affinity"
               /\ LET n == Len(m_core_id)
                  IN  m_core_id' = [m_core_id EXCEPT ![n] = m_vecCore[n]]
               /\ ppc' = "create"
               /\ UNCHANGED <<m_vecCore, affinity>>

\* Task::set_affinity on a task without a thread: the parameter is a byte.
SetCore == /\ ppc = "affinity"
           /\ LET n == Len(m_core_id)
              IN  m_core_id' = [m_core_id EXCEPT ![n] = m_vecCore[n] % 256]
           /\ ppc' = "create"
           /\ UNCHANGED <<m_vecCore, affinity>>

\* A new thread runs where main does.
CreateThread == /\ ppc = "create"
                /\ affinity' = [affinity EXCEPT ![Len(affinity)] = Cpus]
                /\ ppc' = "bind"
                /\ UNCHANGED <<m_vecCore, m_core_id>>

\* What util_cpu_bind returns is not looked at.
Bind == /\ ppc = "bind"
        /\ \E mask \in Masks(Last(m_core_id)) :
             affinity' = [affinity EXCEPT ![Len(affinity)] = SetAffinity(CpuSet(mask), @)]
        /\ ppc' = "new"
        /\ UNCHANGED <<m_vecCore, m_core_id>>

AllCreated == /\ ppc = "new" /\ Len(m_core_id) = Len(m_vecCore)
              /\ ppc' = "done"
              /\ UNCHANGED <<m_vecCore, m_core_id, affinity>>

Init == ppc = "new" /\ m_core_id = <<>> /\ affinity = <<>>

Next == NewTask \/ SetCore \/ CreateThread \/ Bind \/ AllCreated
===============================================================================
