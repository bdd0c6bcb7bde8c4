--------------------------------- MODULE JutMem ---------------------------------
(***************************************************************************)
(* The memory functions FFmpeg is built to call, under the policy that is  *)
(* compiled in (4): each block has a header with its size, and each call   *)
(* adjusts the account of the Decoder that is current in the calling       *)
(* thread.  The account and the header are 32-bit numbers, counted here    *)
(* modulo Modulus.                                                         *)
(*                                                                         *)
(* A thread has one Decoder, current from some moment on; the thread also  *)
(* stands for its Decoder.                                                 *)
(***************************************************************************)
EXTENDS Integers, Functions

CONSTANTS Threads, BlockAddresses,
          Requests,  \* sizes asked for, some of them too big for a header
          Modulus,   \* 2^32
          Nobody     \* no account

ASSUME RequestsAssumption == Requests \subseteq Nat
ASSUME ModulusAssumption == Modulus \in Nat \ {0}
ASSUME NobodyAssumption == Nobody \notin Threads

VARIABLES tls_ctx,     \* the threads that have a current Decoder
          m_mem_used,  \* the account
          memused_max, \* its highest value, as far as it was noticed
          blocks,      \* size of each allocated block
          counted,     \* history: the account each block is part of
          strayed      \* history: the accounts some call has put wrong

memVars == <<tls_ctx, m_mem_used, memused_max, blocks, counted, strayed>>

UInt32 == 0..(Modulus - 1)

MemTypeOK == /\ tls_ctx \subseteq Threads
             /\ m_mem_used \in [Threads -> UInt32]
             /\ memused_max \in [Threads -> UInt32]
             /\ DOMAIN blocks \subseteq BlockAddresses
             /\ Range(blocks) \subseteq Requests
             /\ counted \in [DOMAIN blocks -> Threads \cup {Nobody}]
             /\ strayed \subseteq Threads

Account(t) == IF t \in tls_ctx THEN t ELSE Nobody
HeaderSize(a) == blocks[a] % Modulus

Added(t, n) == (m_mem_used[t] + n) % Modulus

\* The account after a call that takes n bytes in and out - as far as the
\* calling thread has one.
Adjust(t, n) ==
  m_mem_used' = IF t \in tls_ctx THEN [m_mem_used EXCEPT ![t] = Added(t, n)]
                ELSE m_mem_used

Put(a, n, account) ==
  /\ blocks' = [b \in DOMAIN blocks \cup {a} |-> IF b = a THEN n ELSE blocks[b]]
  /\ counted' = [b \in DOMAIN blocks \cup {a} |-> IF b = a THEN account ELSE counted[b]]

\* A block that leaves, or has its size changed, in another account than the
\* one it is part of puts both wrong.
Strays(t, a) == IF counted[a] = Account(t) THEN {}
                ELSE {counted[a], Account(t)} \ {Nobody}

\* What decode_routine does with its Decoder.  It is under #if 0: as the program
\* is compiled no thread has an account.
SetCtx(t) == /\ t \notin tls_ctx
             /\ tls_ctx' = tls_ctx \cup {t}
             /\ UNCHANGED <<m_mem_used, memused_max, blocks, counted, strayed>>

\* A memalign that fails changes nothing.
jut_malloc(t, n) ==
  /\ \E a \in BlockAddresses \ DOMAIN blocks : Put(a, n, Account(t))
  /\ Adjust(t, n)
  /\ memused_max' = IF t \in tls_ctx /\ m_mem_used'[t] > memused_max[t]
                    THEN [memused_max EXCEPT ![t] = m_mem_used'[t]]
                    ELSE memused_max
  /\ UNCHANGED <<tls_ctx, strayed>>

\* jut_realloc(NULL, n); nothing happens if n is zero or realloc fails.  Unlike
\* jut_malloc, it does not notice a new maximum.
jut_reallocNull(t, n) ==
  /\ n # 0
  /\ \E a \in BlockAddresses \ DOMAIN blocks : Put(a, n, Account(t))
  /\ Adjust(t, n)
  /\ UNCHANGED <<tls_ctx, memused_max, strayed>>

\* Mutant: the old size stays in the account.
jut_reallocAdding(t, a, n) ==
  /\ a \in DOMAIN blocks
  /\ Put(a, n, Account(t))
  /\ Adjust(t, n)
  /\ strayed' = strayed \cup Strays(t, a)
  /\ UNCHANGED <<tls_ctx, memused_max>>

\* A block that realloc moves is at a new address; that it keeps its own is
\* the same to the account.
jut_realloc(t, a, n) ==
  /\ a \in DOMAIN blocks
  /\ Put(a, n, Account(t))
  /\ Adjust(t, n - HeaderSize(a))
  /\ strayed' = strayed \cup Strays(t, a)
  /\ UNCHANGED <<tls_ctx, memused_max>>

\* realloc fails after the old size was taken off: the block lives on and is
\* part of no account.
jut_reallocFails(t, a) ==
  /\ a \in DOMAIN blocks
  /\ counted' = [counted EXCEPT ![a] = IF t \in tls_ctx THEN Nobody ELSE @]
  /\ Adjust(t, 0 - HeaderSize(a))
  /\ strayed' = strayed \cup (IF t \in tls_ctx THEN Strays(t, a) ELSE {})
  /\ UNCHANGED <<tls_ctx, memused_max, blocks>>

jut_free(t, a) ==
  /\ a \in DOMAIN blocks
  /\ blocks' = Restrict(blocks, DOMAIN blocks \ {a})
  /\ counted' = Restrict(counted, DOMAIN blocks \ {a})
  /\ Adjust(t, 0 - HeaderSize(a))
  /\ strayed' = strayed \cup Strays(t, a)
  /\ UNCHANGED <<tls_ctx, memused_max>>

MemInit == /\ tls_ctx = {}
           /\ m_mem_used = [t \in Threads |-> 0]
           /\ memused_max = [t \in Threads |-> 0]
           /\ blocks = <<>> /\ counted = <<>>
           /\ strayed = {}

MemNext == \E t \in Threads :
             \/ SetCtx(t)
             \/ \E n \in Requests : jut_malloc(t, n) \/ jut_reallocNull(t, n)
             \/ \E a \in BlockAddresses : \/ jut_reallocFails(t, a) \/ jut_free(t, a)
                                          \/ \E n \in Requests : jut_realloc(t, a, n)

MemSpec == MemInit /\ [][MemNext]_memVars

(***************************************************************************)
(* Property.                                                               *)
(***************************************************************************)

\* An account is the sum of its blocks' true sizes, in 32 bits, through any
\* calls and failures, until a block changes or leaves in another account
\* than the one it is part of.
AccountExact ==
  \A t \in Threads \ strayed :
    m_mem_used[t] =
      SumFunctionOnSet(blocks, {a \in DOMAIN blocks : counted[a] = t}) % Modulus
===============================================================================
