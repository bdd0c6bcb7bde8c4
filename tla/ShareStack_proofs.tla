--------------------------- MODULE ShareStack_proofs ---------------------------
(***************************************************************************)
(* Theorems about ShareStack, for every page size, every width of size_t,  *)
(* every request and every address mmap or malloc may return.              *)
(***************************************************************************)
EXTENDS ShareStack, TLAPS

(***************************************************************************)
(* Arithmetic.                                                             *)
(***************************************************************************)

LEMMA PageNat == Page \in Nat /\ Page > 0 /\ Modulus \in Nat /\ Modulus > 0
BY PageAssumption, ModulusAssumption

\* Rounding down to 16 bytes takes less than 16 off.
LEMMA AlignedFacts ==
  ASSUME NEW n \in Int
  PROVE  /\ Aligned(n) \in Int /\ Aligned(n) <= n /\ Aligned(n) > n - 16
         /\ Aligned(n) % 16 = 0
         /\ n % 16 = 0 => Aligned(n) = n
BY DEF Aligned

\* Rounding down to pages takes less than a page off.
LEMMA PageFloorFacts ==
  ASSUME NEW n \in Nat
  PROVE  /\ n % Page \in 0..(Page - 1) /\ n \div Page \in Nat
         /\ PageFloor(n) \in Nat /\ PageFloor(n) <= n /\ PageFloor(n) > n - Page
         /\ PageFloor(n) = Page * (n \div Page)
<1>1. n % Page \in 0..(Page - 1) /\ n \div Page \in Nat
  BY PageNat
<1>2. n = Page * (n \div Page) + (n % Page)
  BY PageNat
<1>3. n % Page <= n
  BY <1>1, <1>2, PageNat
<1> QED BY <1>1, <1>2, <1>3, PageNat DEF PageFloor

\* A multiple of the page is a multiple of 16.
LEMMA PagesAligned ==
  ASSUME NEW n \in Nat, n % Page = 0
  PROVE  n % 16 = 0
<1>1. n = Page * (n \div Page) /\ n \div Page \in Nat
  BY PageNat
<1>2. Page = 16 * (Page \div 16) /\ Page \div 16 \in Nat
  BY PageAssumption
<1> DEFINE k == (Page \div 16) * (n \div Page)
<1>3. k \in Nat
  BY <1>1, <1>2
<1>4. n = 16 * k
  BY <1>1, <1>2
<1> HIDE DEF k
<1> QED BY <1>3, <1>4

LEMMA MinFacts ==
  ASSUME NEW sz \in Nat
  PROVE  AtLeastMin(sz) \in Nat /\ AtLeastMin(sz) >= 4096 /\ AtLeastMin(sz) >= sz
BY DEF AtLeastMin

\* Where the assertions hold, the mapping is the request rounded up to
\* pages and one page more.
LEMMA MappedFacts ==
  ASSUME NEW n \in Nat, SizeAsserts(n)
  PROVE  /\ MappedSize(n) \in Nat /\ MappedSize(n) >= n + Page
         /\ MappedSize(n) % Page = 0
<1>1. CASE n <= Page
  <2>1. (2 * Page) % Page = 0
    BY PageNat
  <2> QED BY <1>1, <2>1, PageNat DEF MappedSize
<1>2. CASE n > Page
  <2> DEFINE L == MappedSize(n)
             extra == IF n % Page # 0 THEN 2 ELSE 1
  <2>1. L \in Nat
    BY <1>2, PageFloorFacts, PageNat DEF MappedSize
  <2>2. L \div Page = (n \div Page) + extra /\ L % Page = 0
    BY <1>2 DEF SizeAsserts
  <2>3. L = Page * (L \div Page) + (L % Page)
    BY <2>1, PageNat
  <2>4. L = Page * ((n \div Page) + extra)
    BY <2>2, <2>3, <2>1, PageNat
  <2>5. L = Page * (n \div Page) + Page * extra
    BY <2>4, PageFloorFacts, PageNat
  <2>6. L = PageFloor(n) + Page * extra
    BY <2>5, PageFloorFacts
  <2>7. n % Page = 0 => PageFloor(n) = n
    BY DEF PageFloor
  <2>8. PageFloor(n) \in Nat /\ PageFloor(n) > n - Page /\ PageFloor(n) <= n
    BY PageFloorFacts
  <2>9. L >= n + Page
    <3>1. CASE n % Page = 0
      BY <2>6, <2>7, <3>1, PageNat
    <3>2. CASE n % Page # 0
      <4>1. L = PageFloor(n) + Page * 2
        BY <2>6, <3>2
      <4>2. L = PageFloor(n) + Page + Page
        BY <4>1, PageNat, <2>8
      <4> HIDE DEF L
      <4> QED BY <2>8, <4>2, PageNat
    <3> QED BY <3>1, <3>2
  <2> QED BY <2>1, <2>2, <2>9
<1> QED BY <1>1, <1>2, PageNat

\* The assertions hold for every request with room for a page of rounding
\* and the guard page.
LEMMA AssertsHold ==
  ASSUME NEW n \in Nat, n + 2 * Page <= Modulus
  PROVE  SizeAsserts(n)
<1> SUFFICES ASSUME n > Page
             PROVE  SizeAsserts(n)
  BY DEF SizeAsserts
<1> DEFINE extra == IF n % Page # 0 THEN 2 ELSE 1
           p == n \div Page
<1>1. p \in Nat /\ PageFloor(n) = Page * p /\ PageFloor(n) \in Nat
      /\ PageFloor(n) <= n /\ PageFloor(n) > n - Page
  BY PageFloorFacts
<1>2. n % Page # 0 => PageFloor(n) < n
  BY PageFloorFacts, PageNat DEF PageFloor
<1>3. PageFloor(n) + Page * extra < Modulus
  BY <1>1, <1>2, PageNat
<1>4. MappedSize(n) = PageFloor(n) + Page * extra
  <2>1. MappedSize(n) = (PageFloor(n) + Page * extra) % Modulus
    BY PageNat DEF MappedSize
  <2> QED BY <2>1, <1>1, <1>3, PageNat
<1>5. MappedSize(n) = Page * (p + extra) /\ p + extra \in Nat
  BY <1>1, <1>4, PageNat
<1>6. MappedSize(n) \div Page = p + extra /\ MappedSize(n) % Page = 0
  BY <1>5, PageNat
<1>7. p >= 1
  BY <1>1, PageNat
<1> QED BY <1>1, <1>4, <1>6, <1>7, PageNat DEF SizeAsserts

(***************************************************************************)
(* The invariant: what new2 makes of a request.                            *)
(***************************************************************************)

(* The area of a stack, as large as asked.                                 *)
AreaInv(s, asked) ==
  /\ s.ptr \in Nat /\ s.sz \in Nat /\ s.real_ptr \in SizeT /\ s.real_sz \in SizeT
  /\ s.sz >= 4096 /\ s.sz >= asked /\ s.ptr + s.sz < Modulus

(* Behind a guard page it consists of whole 16-byte words.                 *)
WordsInv(s) == s.ptr % 16 = 0 /\ s.sz % 16 = 0
GuardInv(s) == s.guard \in BOOLEAN /\ (s.guard => WordsInv(s))

(* The addresses computed from it.                                         *)
LayoutInv(s) ==
  s = [guard |-> s.guard, real_ptr |-> s.real_ptr, real_sz |-> s.real_sz,
       ptr |-> s.ptr, sz |-> s.sz,
       align_highptr |-> Aligned(s.sz - 16 + s.ptr),
       align_retptr |-> Aligned(s.sz - 16 + s.ptr) - 8,
       align_limit |-> Limit(s.sz)]

(* What is mapped is what the descriptor says.                             *)
Mapping(s) == IF s.guard THEN <<s.real_ptr, s.real_sz>> ELSE <<s.ptr, s.sz>>

StackInv == /\ stack = {} => mapped = {}
            /\ \A s \in stack : /\ stack = {s} /\ mapped = {Mapping(s)}
                                /\ AreaInv(s, request) /\ GuardInv(s) /\ LayoutInv(s)

BasicInv == /\ request \in Requests \cup {0}
            /\ \A m \in mapped : m[1] \in Bases /\ m[2] \in SizeT
            /\ copied \in [size : SizeT, head : SizeT, tail : SizeT]
            /\ fault \in {"none", "overflow", "noMemory"}

IInv == BasicInv /\ StackInv /\ CopyExact /\ AbortsOnlyOnOverflow

LEMMA RequestNat == request \in Requests \cup {0} => request \in Nat
BY RequestsAssumption, PageNat

\* The addresses of a stack, as numbers.
LEMMA LayoutFacts ==
  ASSUME NEW s, NEW asked, AreaInv(s, asked), LayoutInv(s)
  PROVE  LET top == s.sz - 16 + s.ptr
         IN  /\ top \in Nat /\ Aligned(top) \in Nat
             /\ Aligned(top) <= top /\ Aligned(top) > top - 16 /\ Aligned(top) % 16 = 0
             /\ s.align_highptr = Aligned(top) /\ s.align_retptr = Aligned(top) - 8
             /\ s.align_limit = s.sz - 32
             /\ s.align_retptr \in Nat /\ s.align_limit \in Nat
<1> DEFINE top == s.sz - 16 + s.ptr
<1>1. top \in Nat
  BY DEF AreaInv
<1>2. /\ Aligned(top) \in Int /\ Aligned(top) <= top /\ Aligned(top) > top - 16
      /\ Aligned(top) % 16 = 0
  BY <1>1, AlignedFacts
<1>4. /\ s.align_highptr = Aligned(top) /\ s.align_retptr = Aligned(top) - 8
      /\ s.align_limit = s.sz - 32
  BY DEF LayoutInv, Limit, AreaInv
<1> HIDE DEF top
<1>5. Aligned(top) \in Nat /\ Aligned(top) >= 8 /\ s.sz - 32 \in Nat
  <2>1. top >= 4080
    BY DEF AreaInv, top
  <2> QED BY <2>1, <1>1, <1>2 DEF AreaInv
<1> QED BY <1>1, <1>2, <1>4, <1>5 DEF top

\* The stack pointers that are tried lie near the ends of the stack.
LEMMA StackPointersAreInts ==
  ASSUME NEW s, NEW asked, AreaInv(s, asked), LayoutInv(s), NEW sp \in StackPointers(s)
  PROVE  sp \in Int
<1>1. s.align_retptr \in Nat /\ s.align_limit \in Nat
  BY LayoutFacts
<1>2. PICK d \in Depths : \/ sp = s.align_retptr - d
                          \/ sp = s.align_retptr - s.align_limit + d
  BY DEF StackPointers
<1>3. d \in Nat
  BY DepthsAssumption
<1> QED BY <1>1, <1>2, <1>3

LEMMA InitIInv == Init => IInv
BY PageNat DEF Init, IInv, BasicInv, StackInv, CopyExact, AbortsOnlyOnOverflow,
               NothingCopied, SizeT

\* What mmap or malloc gave becomes a stack.
LEMMA NewStackStep ==
  ASSUME IInv, NEW sz \in Requests, NEW guard \in BOOLEAN, NEW base \in Bases,
         NEW len \in Nat, stack = {}, request' = sz,
         guard => /\ len >= AtLeastMin(sz) + Page /\ len % Page = 0,
         ~guard => len = AtLeastMin(sz),
         NewStack(guard, base, len)
  PROVE  StackInv' /\ \A m \in mapped' : m[1] \in Bases /\ m[2] \in SizeT
<1>1. /\ sz \in Nat /\ base \in Nat /\ base % 16 = 0
      /\ base + len < Modulus /\ len \in SizeT /\ base \in SizeT
  BY RequestsAssumption, BasesAssumption, PageNat DEF NewStack, SizeT
<1>2. AtLeastMin(sz) \in Nat /\ AtLeastMin(sz) >= 4096 /\ AtLeastMin(sz) >= sz
  BY <1>1, MinFacts
<1>3. mapped' = {<<base, len>>}
  BY DEF NewStack, IInv, StackInv
<1>4. CASE guard
  <2> DEFINE s == Descriptor(TRUE, base, len, base + Page, len - Page)
  <2>1. stack' = {s}
    BY <1>4 DEF NewStack
  <2>2. Page % 16 = 0
    BY PageAssumption
  <2>3. len % 16 = 0
    BY <1>4, PagesAligned
  <2>4. AreaInv(s, sz) /\ WordsInv(s)
    <3>1. /\ s.ptr = base + Page /\ s.sz = len - Page
          /\ s.real_ptr = base /\ s.real_sz = len
      BY DEF Descriptor
    <3>2. len - Page >= 4096 /\ len - Page >= sz
      BY <1>1, <1>2, <1>4, PageNat
    <3>3. (base + Page) % 16 = 0 /\ (len - Page) % 16 = 0
      BY <1>1, <2>2, <2>3, PageNat
    <3> HIDE DEF s
    <3>4. /\ s.ptr \in Nat /\ s.sz \in Nat /\ s.ptr + s.sz < Modulus
          /\ s.sz >= 4096 /\ s.sz >= sz /\ s.ptr % 16 = 0 /\ s.sz % 16 = 0
      BY <1>1, <3>1, <3>2, <3>3, PageNat
    <3>5. s.real_ptr \in SizeT /\ s.real_sz \in SizeT
      BY <1>1, <3>1
    <3> QED BY <3>4, <3>5 DEF AreaInv, WordsInv
  <2>5. LayoutInv(s)
    BY DEF LayoutInv, Descriptor
  <2>6. Mapping(s) = <<base, len>>
    BY DEF Mapping, Descriptor
  <2>7. GuardInv(s)
    BY <2>4, Zenon DEF GuardInv, Descriptor
  <2> HIDE DEF s
  <2> QED BY <1>1, <1>3, <2>1, <2>4, <2>5, <2>6, <2>7 DEF StackInv
<1>5. CASE ~guard
  <2> DEFINE s == Descriptor(FALSE, 0, 0, base, len)
  <2>1. stack' = {s}
    BY <1>5 DEF NewStack
  <2>2. AreaInv(s, sz)
    <3>1. /\ s.ptr = base /\ s.sz = len
          /\ s.real_ptr = 0 /\ s.real_sz = 0
      BY DEF Descriptor
    <3> HIDE DEF s
    <3>2. /\ s.ptr \in Nat /\ s.sz \in Nat /\ s.ptr + s.sz < Modulus
          /\ s.sz >= 4096 /\ s.sz >= sz
          /\ s.real_ptr \in SizeT /\ s.real_sz \in SizeT
      BY <1>1, <1>2, <1>5, <3>1, PageNat DEF SizeT
    <3> QED BY <3>2 DEF AreaInv
  <2>3. LayoutInv(s)
    BY DEF LayoutInv, Descriptor
  <2>4. Mapping(s) = <<base, len>>
    BY DEF Mapping, Descriptor
  <2>5. GuardInv(s)
    BY Zenon DEF GuardInv, Descriptor
  <2> HIDE DEF s
  <2> QED BY <1>1, <1>3, <2>1, <2>2, <2>3, <2>4, <2>5 DEF StackInv
<1> QED BY <1>4, <1>5

LEMMA New2Step ==
  ASSUME IInv, NEW sz \in Requests, NEW guard \in BOOLEAN, fault = "none",
         aco_share_stack_new2(sz, guard)
  PROVE  IInv'
<1> DEFINE n == AtLeastMin(sz)
           len == IF guard THEN MappedSize(n) ELSE n
<1>1. sz \in Nat /\ stack = {} /\ request' = sz /\ copied' = copied
  BY RequestsAssumption, PageNat DEF aco_share_stack_new2
<1>2. n \in Nat /\ n >= 4096
  BY <1>1, MinFacts
<1> HIDE DEF n
<1>3. CASE guard /\ ~SizeAsserts(n)
  <2>1. fault' = "overflow" /\ UNCHANGED <<stack, mapped>>
    BY <1>3 DEF aco_share_stack_new2, n
  <2>2. n + 2 * Page > Modulus
    BY <1>2, <1>3, AssertsHold, PageNat
  <2> QED BY <1>1, <2>1, <2>2
          DEF IInv, BasicInv, StackInv, CopyExact, AbortsOnlyOnOverflow, n
<1>4. CASE ~(guard /\ ~SizeAsserts(n))
  <2>1. CASE fault' = "noMemory" /\ UNCHANGED <<stack, mapped>>
    BY <1>1, <2>1 DEF IInv, BasicInv, StackInv, CopyExact, AbortsOnlyOnOverflow
  <2>2. CASE \E base \in Bases : NewStack(guard, base, len) /\ UNCHANGED fault
    <3>1. PICK base \in Bases : NewStack(guard, base, len) /\ UNCHANGED fault
      BY <2>2
    <3>2. /\ len \in Nat /\ (guard => len >= n + Page /\ len % Page = 0)
          /\ (~guard => len = n)
      BY <1>2, <1>4, MappedFacts
    <3> HIDE DEF len
    <3>3. StackInv' /\ \A m \in mapped' : m[1] \in Bases /\ m[2] \in SizeT
      BY <1>1, <3>1, <3>2, NewStackStep DEF n
    <3> QED BY <1>1, <3>1, <3>3 DEF IInv, BasicInv, CopyExact, AbortsOnlyOnOverflow
  <2> QED BY <1>4, <2>1, <2>2 DEF aco_share_stack_new2, n
<1> QED BY <1>3, <1>4

\* A copy of a size below Modulus writes that many bytes.
LEMMA CopyStep ==
  ASSUME NEW dst, NEW src, NEW sz \in SizeT, optimized_memcpy(dst, src, sz)
  PROVE  /\ (copied \in [size : SizeT, head : SizeT, tail : SizeT])'
         /\ CopyExact'
<1>1. sz \in Nat /\ sz < Modulus /\ 0 \in SizeT
  BY PageNat DEF SizeT
<1>2. CASE test_ok(dst, src, sz)
  <2>1. copied' = [size |-> sz, head |-> 16 * (sz \div 16), tail |-> 8]
    BY <1>2 DEF optimized_memcpy, inline_memcpy, test_ok
  <2>2. sz = 16 * (sz \div 16) + 8 /\ sz \div 16 \in Nat
    BY <1>1, <1>2 DEF test_ok
  <2>3. 16 * (sz \div 16) \in SizeT /\ 8 \in SizeT
    BY <1>1, <2>2, PageNat DEF SizeT
  <2> QED BY <2>1, <2>2, <2>3 DEF CopyExact
<1>3. CASE ~test_ok(dst, src, sz)
  <2>1. copied' = [size |-> sz, head |-> sz, tail |-> 0]
    BY <1>3 DEF optimized_memcpy, memcpy
  <2> QED BY <1>1, <2>1 DEF CopyExact
<1> QED BY <1>2, <1>3

LEMMA IInvStep == IInv /\ [Next]_vars => IInv'
<1> SUFFICES ASSUME IInv, [Next]_vars
             PROVE  IInv'
  OBVIOUS
<1>1. CASE UNCHANGED vars
  BY <1>1 DEF IInv, BasicInv, StackInv, CopyExact, AbortsOnlyOnOverflow, vars,
              AreaInv, LayoutInv
<1>2. ASSUME fault = "none", NEW sz \in Requests, NEW guard \in BOOLEAN,
             aco_share_stack_new2(sz, guard)
      PROVE  IInv'
  BY <1>2, New2Step
<1>3. ASSUME NEW s \in stack, aco_share_stack_destroy(s)
      PROVE  IInv'
  <2>1. mapped = {Mapping(s)}
    BY DEF IInv, StackInv
  <2>2. mapped' = {} /\ stack' = {}
    BY <1>3, <2>1 DEF aco_share_stack_destroy, Mapping
  <2> QED BY <1>3, <2>2, PageNat
          DEF IInv, BasicInv, StackInv, CopyExact, AbortsOnlyOnOverflow,
              aco_share_stack_destroy, NothingCopied, SizeT
<1>4. ASSUME NEW s \in stack, RestoreSaved(s)
      PROVE  IInv'
  <2>1. copied.size \in SizeT
    BY DEF IInv, BasicInv
  <2>2. /\ (copied \in [size : SizeT, head : SizeT, tail : SizeT])'
        /\ CopyExact'
    BY <1>4, <2>1, CopyStep DEF RestoreSaved
  <2> QED BY <1>4, <2>2
          DEF RestoreSaved, IInv, BasicInv, StackInv, AbortsOnlyOnOverflow,
              AreaInv, LayoutInv
<1>5. ASSUME NEW s \in stack, NEW sp \in StackPointers(s), Save(s, sp)
      PROVE  IInv'
  <2>1. AreaInv(s, request) /\ LayoutInv(s)
    BY DEF IInv, StackInv
  <2>2. sp \in Int
    BY <2>1, StackPointersAreInts
  <2>3. s.align_retptr - sp \in SizeT
    <3>1. /\ s.align_retptr \in Nat /\ s.align_limit \in Nat /\ s.align_highptr \in Nat
          /\ s.align_retptr = s.align_highptr - 8 /\ s.align_limit = s.sz - 32
          /\ s.ptr \in Nat /\ s.sz \in Nat /\ s.ptr + s.sz < Modulus
      BY <2>1, LayoutFacts DEF AreaInv
    <3>2. s.align_retptr - sp >= 0 /\ s.align_retptr - sp <= s.align_limit - 8
      BY <1>5, <2>2, <3>1 DEF Save, SpInRange
    <3>3. s.align_limit < Modulus
      BY <3>1, PageNat
    <3> QED BY <2>2, <3>1, <3>2, <3>3, PageNat DEF SizeT
  <2>4. /\ (copied \in [size : SizeT, head : SizeT, tail : SizeT])'
        /\ CopyExact'
    BY <1>5, <2>3, CopyStep DEF Save
  <2> QED BY <1>5, <2>4
          DEF Save, IInv, BasicInv, StackInv, AbortsOnlyOnOverflow,
              AreaInv, LayoutInv
<1> QED BY <1>1, <1>2, <1>3, <1>4, <1>5 DEF Next, Over

LEMMA Invariance == Spec => []IInv
BY InitIInv, IInvStep, PTL DEF Spec

(***************************************************************************)
(* Theorems.                                                               *)
(***************************************************************************)

\* Every address and size aco_share_stack_new2 computes fits a size_t, for
\* every page size and request.
THEOREM TypeCorrect == Spec => []TypeOK
<1>1. IInv => TypeOK
  <2> SUFFICES ASSUME IInv PROVE TypeOK
    OBVIOUS
  <2>1. ASSUME NEW s \in stack PROVE s \in ShareStacks
    <3>1. AreaInv(s, request) /\ LayoutInv(s)
      BY DEF IInv, StackInv
    <3>2. /\ s.ptr \in SizeT /\ s.sz \in SizeT /\ s.align_highptr \in SizeT
          /\ s.align_retptr \in SizeT /\ s.align_limit \in SizeT
      BY <3>1, LayoutFacts, PageNat DEF AreaInv, SizeT
    <3>3. s = [guard |-> s.guard, real_ptr |-> s.real_ptr, real_sz |-> s.real_sz,
               ptr |-> s.ptr, sz |-> s.sz, align_highptr |-> s.align_highptr,
               align_retptr |-> s.align_retptr, align_limit |-> s.align_limit]
      BY <3>1 DEF LayoutInv
    <3>4. s.guard \in BOOLEAN
      BY Zenon DEF IInv, StackInv, GuardInv
    <3>5. s.real_ptr \in SizeT /\ s.real_sz \in SizeT
      BY <3>1 DEF AreaInv
    <3>6. [guard |-> s.guard, real_ptr |-> s.real_ptr, real_sz |-> s.real_sz,
           ptr |-> s.ptr, sz |-> s.sz, align_highptr |-> s.align_highptr,
           align_retptr |-> s.align_retptr, align_limit |-> s.align_limit] \in ShareStacks
      BY <3>2, <3>4, <3>5, Zenon DEF ShareStacks
    <3> QED BY <3>3, <3>6, Zenon
  <2> QED BY <2>1 DEF TypeOK, IInv, BasicInv, StackInv
<1> QED BY <1>1, Invariance, PTL

\* For every page size and request, the area is as large as asked and holds
\* its protector word and every stack pointer aco_resume accepts.
THEOREM NothingOutside == Spec => []StackInside
<1>1. IInv => StackInside
  <2> SUFFICES ASSUME IInv, NEW s \in stack
               PROVE  /\ s.sz >= request
                      /\ s.align_retptr + 8 <= s.ptr + s.sz
                      /\ s.align_highptr - s.align_limit > s.ptr
    BY DEF StackInside
  <2>1. AreaInv(s, request) /\ LayoutInv(s)
    BY DEF IInv, StackInv
  <2> QED BY <2>1, LayoutFacts DEF AreaInv
<1> QED BY <1>1, Invariance, PTL

\* For every stack and stack pointer, what aco_resume saves it can restore:
\* its second assertion never fails after the first held.
THEOREM SavesAreRestorable == Spec => []SavedIsRestorable
<1>1. IInv => SavedIsRestorable
  <2> SUFFICES ASSUME IInv, NEW s \in stack, NEW sp \in StackPointers(s), SpInRange(s, sp)
               PROVE  Restorable(s, s.align_retptr - sp)
    BY DEF SavedIsRestorable
  <2>1. AreaInv(s, request) /\ LayoutInv(s)
    BY DEF IInv, StackInv
  <2>2. sp \in Int
    BY <2>1, StackPointersAreInts
  <2> QED BY <2>1, <2>2, LayoutFacts DEF SpInRange, Restorable
<1> QED BY <1>1, Invariance, PTL

\* For every page size and request, two words lie between the deepest stack
\* pointer aco_resume accepts and the guard page.
THEOREM TwoWordsOfSlack == Spec => []SlackIsTwoWords
<1>1. IInv => SlackIsTwoWords
  <2> SUFFICES ASSUME IInv, NEW s \in stack, s.guard
               PROVE  /\ s.align_retptr % 16 = 8 /\ s.align_limit % 16 = 0
                      /\ s.align_retptr - (s.align_limit - 8) = s.ptr + 16
    BY DEF SlackIsTwoWords
  <2>1. AreaInv(s, request) /\ LayoutInv(s) /\ WordsInv(s)
    BY Zenon DEF IInv, StackInv, GuardInv
  <2> DEFINE top == s.sz - 16 + s.ptr
  <2>2. s.sz % 16 = 0 /\ s.ptr % 16 = 0 /\ s.sz \in Nat /\ s.ptr \in Nat
    BY <2>1 DEF AreaInv, WordsInv
  <2>3. Aligned(top) = top
    BY <2>2, AlignedFacts
  <2>4. s.align_retptr = s.sz - 24 + s.ptr /\ s.align_limit = s.sz - 32
    BY <2>1, <2>2, <2>3, LayoutFacts
  <2>5. (s.sz - 24 + s.ptr) % 16 = 8 /\ (s.sz - 32) % 16 = 0
    BY <2>2
  <2> QED BY <2>2, <2>4, <2>5
<1> QED BY <1>1, Invariance, PTL

\* The size assertions abort no request that leaves room for two pages.
THEOREM AbortsAreOverflows == Spec => []AbortsOnlyOnOverflow
BY Invariance, PTL DEF IInv

\* Every copy, of any size, writes its bytes once and no others.
THEOREM CopiesAreExact == Spec => []CopyExact
BY Invariance, PTL DEF IInv

\* No mapping outlives its stack, guard page or not.
THEOREM NoMappingLeft == Spec => []AllUnmapped
<1>1. IInv => AllUnmapped
  BY DEF IInv, StackInv, AllUnmapped
<1> QED BY <1>1, Invariance, PTL
===============================================================================
