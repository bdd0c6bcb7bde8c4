------------------------------- MODULE ShareStack -------------------------------
(***************************************************************************)
(* The memory of libaco's shared stack, in bytes: how a requested size     *)
(* becomes a mapping with a guard page, where the protector word and the   *)
(* limit of aco_resume lie in it, and how aco_resume copies a part of it.  *)
(* Aco models what the copies are for.                                     *)
(*                                                                         *)
(* size_t arithmetic is modulo Modulus.  A stack is given back with        *)
(* aco_share_stack_destroy; one exists at a time.                          *)
(***************************************************************************)
EXTENDS Integers

CONSTANTS Modulus,   \* 2^64
          Page,      \* the page size, a power of two
          Bases,     \* what mmap and malloc may return
          Requests,  \* sizes given to aco_share_stack_new2
          Depths     \* how far stack pointers are from align_retptr or align_limit

ASSUME PageAssumption == Page \in Nat /\ Page >= 16 /\ Page % 16 = 0
ASSUME ModulusAssumption == /\ Modulus \in Nat /\ Modulus % Page = 0
                            /\ Modulus > 2 * Page
ASSUME BasesAssumption == Bases \subseteq 0..(Modulus - 1) /\ \A b \in Bases : b % 16 = 0
ASSUME RequestsAssumption == Requests \subseteq 0..(Modulus - 1)
ASSUME DepthsAssumption == Depths \subseteq Nat

VARIABLES request,  \* the size asked for last
          stack,    \* the aco_share_stack_t: a set of at most one
          mapped,   \* what mmap and malloc have given out: <<address, size>>
          copied,   \* the last copy: its size, the bytes written at either end
          fault     \* the assertion that aborted the process, or "none"

vars == <<request, stack, mapped, copied, fault>>

SizeT == 0..(Modulus - 1)
ShareStacks == [guard : BOOLEAN, real_ptr : SizeT, real_sz : SizeT, ptr : SizeT,
                sz : SizeT, align_highptr : SizeT, align_retptr : SizeT,
                align_limit : SizeT]

TypeOK == /\ request \in Requests \cup {0}
          /\ stack \subseteq ShareStacks
          /\ \A s, t \in stack : s = t
          /\ \A m \in mapped : m[1] \in Bases /\ m[2] \in SizeT
          /\ copied \in [size : SizeT, head : SizeT, tail : SizeT]
          /\ fault \in {"none", "overflow", "noMemory"}

(***************************************************************************)
(* Sizes.                                                                  *)
(***************************************************************************)

AtLeastMin(sz) == IF sz = 0 THEN 2 * 1024 * 1024
                  ELSE IF sz < 4096 THEN 4096 ELSE sz

\* sz & ~(Page - 1), for a power of two
PageFloor(sz) == sz - (sz % Page)

\* Mutant: a size that is no multiple of the page is not rounded up.
MappedSizeShort(sz) == IF sz <= Page THEN 2 * Page
                       ELSE (PageFloor(sz) + Page) % Modulus

\* The whole mapping: the size rounded up to pages, and the guard page.
MappedSize(sz) == IF sz <= Page THEN 2 * Page
                  ELSE (PageFloor(sz) + (IF sz % Page # 0 THEN 2 * Page ELSE Page)) % Modulus

\* The assertions on the way: no addition wraps, and the result is the
\* number of pages wanted.
SizeAsserts(sz) ==
  sz > Page =>
    LET extra == IF sz % Page # 0 THEN 2 ELSE 1
    IN  /\ MappedSize(sz) >= PageFloor(sz)
        /\ MappedSize(sz) \div Page = (sz \div Page) + extra
        /\ MappedSize(sz) \div Page > 1 /\ MappedSize(sz) % Page = 0

\* Mutant: the limit forgets that align_highptr is 16 bytes below the end.
LimitWide(sz) == sz - 16

Limit(sz) == sz - 16 - 16

Aligned(addr) == addr - (addr % 16)

Descriptor(guard, base, len, ptr, sz) ==
  [guard |-> guard, real_ptr |-> base, real_sz |-> len, ptr |-> ptr, sz |-> sz,
   align_highptr |-> Aligned(sz - 16 + ptr),
   align_retptr |-> Aligned(sz - 16 + ptr) - 8,
   align_limit |-> Limit(sz)]

\* mmap and malloc return memory that ends before the address space does,
\* mmap whole pages.
NewStack(guard, base, len) ==
  /\ base + len < Modulus
  /\ guard => base % Page = 0
  /\ mapped' = mapped \cup {<<base, len>>}
  /\ stack' = {IF guard THEN Descriptor(TRUE, base, len, base + Page, len - Page)
                        ELSE Descriptor(FALSE, 0, 0, base, len)}

aco_share_stack_new2(sz, guard) ==
  /\ stack = {}
  /\ request' = sz
  /\ LET len == IF guard THEN MappedSize(AtLeastMin(sz)) ELSE AtLeastMin(sz)
     IN  IF guard /\ ~SizeAsserts(AtLeastMin(sz))
         THEN fault' = "overflow" /\ UNCHANGED <<stack, mapped>>
         ELSE \/ fault' = "noMemory" /\ UNCHANGED <<stack, mapped>>
              \/ \E base \in Bases : NewStack(guard, base, len) /\ UNCHANGED fault
  /\ UNCHANGED copied

NothingCopied == [size |-> 0, head |-> 0, tail |-> 0]

\* Mutant: the guard page stays mapped.
aco_share_stack_destroyUsable(s) ==
  /\ stack = {s}
  /\ stack' = {} /\ copied' = NothingCopied
  /\ mapped' = mapped \ {<<s.ptr, s.sz>>}
  /\ UNCHANGED <<request, fault>>

\* The coroutines are gone by then, and their save buffers.
aco_share_stack_destroy(s) ==
  /\ stack = {s}
  /\ stack' = {} /\ copied' = NothingCopied
  /\ mapped' = mapped \ {IF s.guard THEN <<s.real_ptr, s.real_sz>> ELSE <<s.ptr, s.sz>>}
  /\ UNCHANGED <<request, fault>>

(***************************************************************************)
(* Copies.                                                                 *)
(***************************************************************************)

\* Mutant: one 16-byte step more is taken to be inlined.
test_okWide(dst, src, sz) ==
  /\ dst % 16 = 0 /\ src % 16 = 0
  /\ sz % 16 = 8 /\ sz \div 16 <= 9

test_ok(dst, src, sz) ==
  /\ dst % 16 = 0 /\ src % 16 = 0
  /\ sz % 16 = 8 /\ sz \div 16 <= 8

\* As many 16-byte words as the switch has a case for, then the last 8 bytes.
inline_memcpy(sz) ==
  [size |-> sz, head |-> IF sz \div 16 <= 8 THEN 16 * (sz \div 16) ELSE 0, tail |-> 8]

memcpy(sz) == [size |-> sz, head |-> sz, tail |-> 0]

optimized_memcpy(dst, src, sz) ==
  copied' = IF test_ok(dst, src, sz) THEN inline_memcpy(sz) ELSE memcpy(sz)

\* What aco_resume asserts of the stack pointer of the owner it displaces,
\* and of the size of what it is about to restore.
SpInRange(s, sp) == s.align_retptr >= sp /\ s.align_highptr - s.align_limit <= sp

\* Mutant: the word at align_retptr is left out twice.
RestorableLess(s, sz) == sz <= s.align_limit - 16

Restorable(s, sz) == sz <= s.align_limit - 8

\* The owner's part goes to its save buffer, which malloc aligned.
Save(s, sp) == /\ stack = {s} /\ SpInRange(s, sp) /\ sp # s.align_retptr
               /\ optimized_memcpy(0, sp, s.align_retptr - sp)
               /\ UNCHANGED <<request, stack, mapped, fault>>

\* What was saved last comes back.
RestoreSaved(s) == /\ stack = {s} /\ copied.size # 0 /\ Restorable(s, copied.size)
                   /\ optimized_memcpy(s.align_retptr - copied.size, 0, copied.size)
                   /\ UNCHANGED <<request, stack, mapped, fault>>

StackPointers(s) ==
  {s.align_retptr - d : d \in Depths} \cup {s.align_retptr - s.align_limit + d : d \in Depths}

Init == /\ request = 0 /\ stack = {} /\ mapped = {}
        /\ copied = NothingCopied /\ fault = "none"

Over == fault # "none" /\ UNCHANGED vars

Next == \/ /\ fault = "none"
           /\ \/ \E sz \in Requests, guard \in BOOLEAN : aco_share_stack_new2(sz, guard)
              \/ \E s \in stack : \/ aco_share_stack_destroy(s) \/ RestoreSaved(s)
                                  \/ \E sp \in StackPointers(s) : Save(s, sp)
        \/ Over

Spec == Init /\ [][Next]_vars

(***************************************************************************)
(* Properties.                                                             *)
(***************************************************************************)

\* A stack is as large as asked, its protector word is in it, and every
\* stack pointer aco_resume accepts is, above the guard page.
StackInside ==
  \A s \in stack : /\ s.sz >= request
                   /\ s.align_retptr + 8 <= s.ptr + s.sz
                   /\ s.align_highptr - s.align_limit > s.ptr

\* The two assertions of aco_resume agree: what the first lets it save, the
\* second lets it restore.
SavedIsRestorable ==
  \A s \in stack : \A sp \in StackPointers(s) :
    SpInRange(s, sp) => Restorable(s, s.align_retptr - sp)

\* With a guard page, two words lie between what aco_resume accepts and the
\* page, however the request was rounded: Aco's Slack.
SlackIsTwoWords ==
  \A s \in stack : s.guard => /\ s.align_retptr % 16 = 8 /\ s.align_limit % 16 = 0
                              /\ s.align_retptr - (s.align_limit - 8) = s.ptr + 16

\* The size assertions only abort a request that leaves no room for a page
\* of rounding and the guard page.
AbortsOnlyOnOverflow ==
  fault = "overflow" => AtLeastMin(request) + 2 * Page > Modulus

\* Every copy writes each of its bytes once and no others, inlined or not.
CopyExact == copied.head + copied.tail = copied.size

\* Nothing stays mapped behind a stack that was destroyed.
AllUnmapped == stack = {} => mapped = {}
===============================================================================
