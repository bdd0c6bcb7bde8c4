------------------------------ MODULE Memory_proofs ------------------------------
(***************************************************************************)
(* Theorems about the two memory functions Decoder and ff_mem give to      *)
(* FFmpeg: FramePool, for any number of frames, addresses, formats and     *)
(* planes, and JutMem, for any heap, sizes, threads and width of numbers.  *)
(***************************************************************************)
EXTENDS FramePool, JutMem, FiniteSetTheorems, WellFoundedInduction, TLAPS

(***************************************************************************)
(* FramePool.                                                              *)
(***************************************************************************)

(* A pool that was filled remembers the sizes of its own format.           *)
PoolInv == format # NoFormat => format \in Formats /\ size = PlaneSizes[format]

(* While the callback runs: the sizes are those of the frame it fills, the *)
(* planes it has so far are the first ones, and nobody else has them yet.  *)
FillInv ==
  \A f \in current :
    /\ format = frame[f]
    /\ i > 0 => Len(buf[f]) = i - 1
    /\ \A k \in DOMAIN buf[f] : heap[buf[f][k]] = size[k]
    /\ \A g \in Frames \ {f} : Range(buf[f]) \cap Range(buf[g]) = {}

(* s are all planes of a frame of some format, or it has none.             *)
Fits(s, wanted, h) ==
  \/ s = <<>>
  \/ /\ Len(s) = Len(PlaneSizes[wanted])
     /\ \A k \in DOMAIN s : s[k] \in DOMAIN h /\ h[s[k]] = PlaneSizes[wanted][k]

IInv == TypeOK /\ PoolInv /\ FillInv /\ PlanesFit /\ NoPlaneFreedEarly
-------------------------------------------------------------------------------
(***************************************************************************)
(* Sequences.                                                              *)
(***************************************************************************)

LEMMA InRange == ASSUME NEW s, NEW k \in DOMAIN s PROVE s[k] \in Range(s)
BY DEF Range

LEMMA EmptyRange == ASSUME NEW S PROVE Range(<<>>) = {} /\ <<>> \in Seq(S) /\ IsInjective(<<>>)
BY DEF Range, IsInjective

LEMMA AppendFacts ==
  ASSUME NEW S, NEW s \in Seq(S), NEW x \in S
  PROVE  /\ Append(s, x) \in Seq(S) /\ Len(Append(s, x)) = Len(s) + 1
         /\ \A k \in DOMAIN s : k \in DOMAIN Append(s, x) /\ Append(s, x)[k] = s[k]
         /\ \A k \in DOMAIN Append(s, x) : k \in DOMAIN s \/ k = Len(s) + 1
         /\ Append(s, x)[Len(s) + 1] = x
         /\ Range(Append(s, x)) = Range(s) \cup {x}
         /\ x \notin Range(s) /\ IsInjective(s) => IsInjective(Append(s, x))
<1>1. /\ Append(s, x) \in Seq(S) /\ Len(Append(s, x)) = Len(s) + 1
      /\ DOMAIN Append(s, x) = 1..(Len(s) + 1) /\ DOMAIN s = 1..Len(s) /\ Len(s) \in Nat
      /\ \A k \in 1..Len(s) : Append(s, x)[k] = s[k]
      /\ Append(s, x)[Len(s) + 1] = x
  OBVIOUS
<1>2. /\ \A k \in DOMAIN s : k \in DOMAIN Append(s, x) /\ Append(s, x)[k] = s[k]
      /\ \A k \in DOMAIN Append(s, x) : k \in DOMAIN s \/ k = Len(s) + 1
      /\ Len(s) + 1 \in DOMAIN Append(s, x)
  BY <1>1
<1>3. Range(Append(s, x)) = Range(s) \cup {x}
  BY <1>1, <1>2, Zenon DEF Range
<1>4. ASSUME x \notin Range(s), IsInjective(s)
      PROVE  IsInjective(Append(s, x))
  <2>1. \A k \in 1..Len(s) : s[k] # x
    BY <1>1, <1>4, InRange
  <2> SUFFICES ASSUME NEW k \in 1..(Len(s) + 1), NEW l \in 1..(Len(s) + 1),
                      Append(s, x)[k] = Append(s, x)[l]
               PROVE  k = l
    BY <1>1, Zenon DEF IsInjective
  <2>2. CASE k \in 1..Len(s) /\ l \in 1..Len(s)
    BY <1>1, <1>4, <2>2, Zenon DEF IsInjective
  <2>3. CASE k = Len(s) + 1 \/ l = Len(s) + 1
    BY <1>1, <2>1, <2>3
  <2> QED BY <1>1, <2>2, <2>3
<1> QED BY <1>1, <1>2, <1>3, <1>4

LEMMA FrontFacts ==
  ASSUME NEW S, NEW s \in Seq(S), s # <<>>
  PROVE  LET t == SubSeq(s, 1, Len(s) - 1)
         IN  /\ s[Len(s)] \in S /\ s[Len(s)] \in Range(s)
             /\ t \in Seq(S)
             /\ \A k \in DOMAIN t : k \in DOMAIN s /\ t[k] = s[k]
             /\ IsInjective(s) => /\ IsInjective(t)
                                  /\ Range(t) = Range(s) \ {s[Len(s)]}
<1> DEFINE t == SubSeq(s, 1, Len(s) - 1)
<1>1. /\ Len(s) \in Nat /\ Len(s) > 0 /\ DOMAIN s = 1..Len(s)
      /\ \A k \in 1..Len(s) : s[k] \in S
  OBVIOUS
<1>2. /\ t \in Seq(S) /\ DOMAIN t = 1..(Len(s) - 1)
      /\ \A k \in 1..(Len(s) - 1) : t[k] = s[k]
  BY <1>1
<1> HIDE DEF t
<1>3. /\ Len(s) \in DOMAIN s
      /\ \A k \in DOMAIN t : k \in DOMAIN s /\ t[k] = s[k] /\ k # Len(s)
      /\ \A k \in DOMAIN s : k # Len(s) => k \in DOMAIN t
  BY <1>1, <1>2
<1>4. ASSUME IsInjective(s)
      PROVE  IsInjective(t) /\ Range(t) = Range(s) \ {s[Len(s)]}
  <2>1. IsInjective(t)
    BY <1>3, <1>4 DEF IsInjective
  <2>2. ASSUME NEW x \in Range(t) PROVE x \in Range(s) \ {s[Len(s)]}
    <3>1. PICK k \in DOMAIN t : x = t[k]
      BY <2>2, Zenon DEF Range
    <3>2. x \in Range(s) /\ s[k] # s[Len(s)]
      BY <1>3, <1>4, <3>1, InRange DEF IsInjective
    <3> QED BY <1>3, <3>1, <3>2
  <2>3. ASSUME NEW x \in Range(s), x # s[Len(s)] PROVE x \in Range(t)
    <3>1. PICK k \in DOMAIN s : x = s[k]
      BY <2>3, Zenon DEF Range
    <3>2. k \in DOMAIN t /\ t[k] = x
      BY <1>3, <2>3, <3>1
    <3> QED BY <3>2, InRange
  <2> QED BY <2>1, <2>2, <2>3
<1> QED BY <1>1, <1>2, <1>3, <1>4, Zenon DEF Range, t
-------------------------------------------------------------------------------
(***************************************************************************)
(* The invariant.                                                          *)
(***************************************************************************)

LEMMA FitsAll == PlanesFit <=> \A f \in Frames \ current : Fits(buf[f], frame[f], heap)
BY DEF PlanesFit, Fits

LEMMA FitsAllAfter ==
  PlanesFit' <=> \A f \in Frames \ current' : Fits(buf'[f], frame'[f], heap')
BY DEF PlanesFit, Fits

\* What happens to other planes does not matter to a frame.
LEMMA FitsKept ==
  ASSUME NEW s, NEW wanted, NEW h, NEW k, Fits(s, wanted, h),
         \A b \in Range(s) : b \in DOMAIN h => b \in DOMAIN k /\ k[b] = h[b]
  PROVE  Fits(s, wanted, k)
<1>1. \A n \in DOMAIN s : s[n] \in Range(s)
  BY InRange
<1> QED BY <1>1 DEF Fits

LEMMA SizesKnown ==
  ASSUME NEW wanted \in Formats
  PROVE  PlaneSizes[wanted] \in Sizes
BY FormatsAssumption DEF Sizes

LEMMA InitIInv == Init => IInv
<1> SUFFICES ASSUME Init PROVE IInv
  OBVIOUS
<1>1. size \in Sizes
  <2>1. <<>> \in Sizes
    BY DEF Sizes
  <2>2. Range(PlaneSizes) \subseteq Sizes
    BY SizesKnown, FormatsAssumption DEF Range
  <2> QED BY <2>1, <2>2 DEF Init
<1>2. TypeOK
  BY <1>1, EmptyRange DEF Init, TypeOK, Range, Sizes
<1>3. PoolInv /\ FillInv
  BY DEF Init, PoolInv, FillInv
<1>4. PlanesFit /\ NoPlaneFreedEarly
  BY EmptyRange DEF Init, PlanesFit, NoPlaneFreedEarly
<1> QED BY <1>2, <1>3, <1>4 DEF IInv

LEMMA UpdateStep ==
  ASSUME IInv, NEW f \in Frames, NEW wanted \in Formats, update_frame_pool(f, wanted)
  PROVE  IInv'
<1> USE DEF update_frame_pool, EnterLoop, PoolMatches
<1>1. /\ current = {} /\ buf[f] = <<>> /\ frame' = [frame EXCEPT ![f] = wanted]
      /\ buf' = buf /\ heap' = heap
  OBVIOUS
<1>2. /\ current' = {f} => i' = 1 /\ format' = wanted /\ size' = PlaneSizes[wanted]
      /\ current' # {f} => current' = {} /\ i' = i /\ format' = format /\ size' = size
      /\ format' # NoFormat => format' \in Formats /\ size' = PlaneSizes[format']
      /\ size' \in Sizes
  BY <1>1, SizesKnown, FormatsAssumption DEF IInv, PoolInv, TypeOK
<1>3. frame' \in [Frames -> Formats] /\ frame'[f] = wanted
      /\ \A g \in Frames \ {f} : frame'[g] = frame[g]
  BY <1>1 DEF IInv, TypeOK
<1>4. TypeOK'
  <2>1. (i \in 0..(Len(size) + 1))'
    BY <1>2 DEF IInv, TypeOK, Sizes
  <2> QED BY <1>1, <1>2, <1>3, <2>1 DEF IInv, TypeOK
<1>5. PoolInv'
  BY <1>2 DEF PoolInv
<1>6. FillInv'
  <2>0. current' = {} \/ current' = {f}
    BY <1>2
  <2>1. Len(buf'[f]) = 0 /\ DOMAIN buf'[f] = {} /\ Range(buf'[f]) = {}
    BY <1>1, EmptyRange
  <2>2. CASE current' = {f}
    <3>1. /\ format' = frame'[f]
          /\ i' > 0 => Len(buf'[f]) = i' - 1
          /\ \A k \in DOMAIN buf'[f] : heap'[buf'[f][k]] = size'[k]
          /\ \A g \in Frames \ {f} : Range(buf'[f]) \cap Range(buf'[g]) = {}
      BY <1>2, <1>3, <2>1, <2>2
    <3> QED BY <2>2, <3>1, Zenon DEF FillInv
  <2>3. CASE current' = {}
    BY <2>3 DEF FillInv
  <2> QED BY <2>0, <2>2, <2>3
<1>7. PlanesFit' /\ NoPlaneFreedEarly'
  <2>1. \A g \in Frames : Fits(buf'[g], frame'[g], heap')
    BY <1>1, <1>3, FitsAll DEF IInv, Fits
  <2> QED BY <1>1, <2>1, FitsAllAfter DEF IInv, NoPlaneFreedEarly
<1> QED BY <1>4, <1>5, <1>6, <1>7 DEF IInv

LEMMA AllocStep ==
  ASSUME IInv, NEW f \in Frames, AllocPlane(f)
  PROVE  IInv'
<1>1. PICK a \in Addresses \ DOMAIN heap :
        heap' = Allocated(a, size[i]) /\ buf' = [buf EXCEPT ![f] = Append(@, a)]
  BY DEF AllocPlane
<1>2. /\ current = {f} /\ current' = {f} /\ i \in 1..Len(size) /\ i' = i + 1
      /\ format' = format /\ size' = size /\ frame' = frame
  BY DEF AllocPlane
<1>3. /\ buf[f] \in Seq(Addresses) /\ Len(size) \in Nat /\ size[i] \in Nat \ {0}
      /\ Range(buf[f]) \subseteq DOMAIN heap /\ IsInjective(buf[f])
      /\ buf'[f] = Append(buf[f], a) /\ \A g \in Frames \ {f} : buf'[g] = buf[g]
      /\ DOMAIN buf = Frames
  BY <1>1, <1>2 DEF IInv, TypeOK, NoPlaneFreedEarly, Sizes
<1>4. /\ DOMAIN heap' = DOMAIN heap \cup {a} /\ heap'[a] = size[i]
      /\ \A b \in DOMAIN heap : heap'[b] = heap[b]
  BY <1>1 DEF Allocated
<1>5. Len(buf[f]) = i - 1 /\ a \notin Range(buf[f])
  BY <1>2, <1>3 DEF IInv, FillInv
<1> DEFINE s == Append(buf[f], a)
<1>6. /\ s \in Seq(Addresses) /\ Len(s) = i
      /\ \A k \in DOMAIN buf[f] : k \in DOMAIN s /\ s[k] = buf[f][k]
      /\ \A k \in DOMAIN s : k \in DOMAIN buf[f] \/ k = i
      /\ s[i] = a /\ Range(s) = Range(buf[f]) \cup {a} /\ IsInjective(s)
  <2>1. Len(buf[f]) + 1 = i
    BY <1>2, <1>5
  <2> QED BY <1>3, <1>5, <2>1, AppendFacts
<1> HIDE DEF s
<1>7. buf'[f] = s
  BY <1>3 DEF s
<1>8. TypeOK'
  <2>1. buf' \in [Frames -> Seq(Addresses)]
    BY <1>1, <1>6 DEF IInv, TypeOK, s
  <2>2. DOMAIN heap' \subseteq Addresses /\ Range(heap') \subseteq Nat \ {0}
    BY <1>3, <1>4 DEF IInv, TypeOK, Range
  <2>3. i' \in 0..(Len(size') + 1)
    BY <1>2, <1>3
  <2> QED BY <1>2, <2>1, <2>2, <2>3 DEF IInv, TypeOK
<1>9. PoolInv'
  BY <1>2 DEF IInv, PoolInv
<1>10. FillInv'
  <2>1. \A k \in DOMAIN s : heap'[s[k]] = size[k]
    <3>1. \A k \in DOMAIN buf[f] : heap[buf[f][k]] = size[k] /\ buf[f][k] \in DOMAIN heap
      BY <1>2, <1>3, InRange DEF IInv, FillInv
    <3> QED BY <1>4, <1>6, <3>1
  <2>2. \A g \in Frames \ {f} : Range(s) \cap Range(buf[g]) = {}
    <3>1. \A g \in Frames \ {f} : Range(buf[g]) \subseteq DOMAIN heap
                               /\ Range(buf[f]) \cap Range(buf[g]) = {}
      BY <1>2 DEF IInv, FillInv, NoPlaneFreedEarly
    <3> QED BY <1>6, <3>1
  <2>3. i' > 0 => Len(s) = i' - 1
    BY <1>2, <1>6
  <2>4. format = frame[f]
    BY <1>2 DEF IInv, FillInv
  <2> QED BY <1>2, <1>3, <1>7, <2>1, <2>2, <2>3, <2>4, Zenon DEF FillInv
<1>11. PlanesFit'
  <2>1. \A g \in Frames \ {f} : Fits(buf[g], frame[g], heap')
    BY <1>2, <1>4, FitsAll, FitsKept DEF IInv
  <2> QED BY <1>2, <1>3, <2>1, FitsAllAfter
<1>12. NoPlaneFreedEarly'
  BY <1>3, <1>4, <1>6, <1>7, Zenon DEF IInv, NoPlaneFreedEarly
<1> QED BY <1>8, <1>9, <1>10, <1>11, <1>12 DEF IInv

LEMMA NoMemoryStep ==
  ASSUME IInv, NEW f \in Frames, NoMemory(f)
  PROVE  IInv'
<1> USE DEF NoMemory
<1>1. TypeOK'
  BY DEF IInv, TypeOK, Sizes
<1>2. PoolInv' /\ FillInv' /\ PlanesFit' /\ NoPlaneFreedEarly'
  BY DEF IInv, PoolInv, FillInv, PlanesFit, NoPlaneFreedEarly
<1> QED BY <1>1, <1>2 DEF IInv

LEMMA NoBufferStep ==
  ASSUME IInv, NEW f \in Frames, NoBuffer(f)
  PROVE  IInv'
<1>1. PICK a \in Addresses \ DOMAIN heap : heap' = Allocated(a, size[i])
  BY DEF NoBuffer
<1>2. /\ current = {f} /\ current' = current /\ i \in 1..Len(size) /\ i' = 0
      /\ format' = format /\ size' = size /\ frame' = frame /\ buf' = buf
  BY DEF NoBuffer
<1>3. size[i] \in Nat \ {0} /\ Len(size) \in Nat
  BY <1>2 DEF IInv, TypeOK, Sizes
<1>4. /\ DOMAIN heap' = DOMAIN heap \cup {a} /\ heap'[a] = size[i]
      /\ \A b \in DOMAIN heap : heap'[b] = heap[b]
  BY <1>1 DEF Allocated
<1>5. TypeOK'
  <2>1. DOMAIN heap' \subseteq Addresses /\ Range(heap') \subseteq Nat \ {0}
    BY <1>3, <1>4, Zenon DEF IInv, TypeOK, Range
  <2>2. i' \in 0..(Len(size') + 1)
    BY <1>2, <1>3
  <2> QED BY <1>2, <2>1, <2>2 DEF IInv, TypeOK
<1>6. PoolInv'
  BY <1>2 DEF IInv, PoolInv
<1>7. FillInv'
  <2>1. \A k \in DOMAIN buf[f] : heap'[buf[f][k]] = size[k]
    BY <1>2, <1>4, Zenon DEF IInv, FillInv, NoPlaneFreedEarly, Range
  <2>2. ~(i' > 0)
    BY <1>2
  <2> QED BY <1>2, <2>1, <2>2 DEF IInv, FillInv
<1>8. PlanesFit' /\ NoPlaneFreedEarly'
  <2>1. \A g \in Frames \ {f} : Fits(buf[g], frame[g], heap')
    BY <1>2, <1>4, FitsAll, FitsKept DEF IInv
  <2> QED BY <1>2, <1>4, <2>1, FitsAllAfter DEF IInv, NoPlaneFreedEarly
<1> QED BY <1>5, <1>6, <1>7, <1>8 DEF IInv

LEMMA UndoStep ==
  ASSUME IInv, NEW f \in Frames, UndoPlane(f)
  PROVE  IInv'
<1> DEFINE s == buf[f]
           t == SubSeq(s, 1, Len(s) - 1)
           last == s[Len(s)]
<1>1. /\ current = {f} /\ current' = current /\ i = 0 /\ i' = 0 /\ s # <<>>
      /\ format' = format /\ size' = size /\ frame' = frame
      /\ heap' = Freed({last}) /\ buf' = [buf EXCEPT ![f] = t]
  BY DEF UndoPlane
<1>2. s \in Seq(Addresses) /\ IsInjective(s) /\ Range(s) \subseteq DOMAIN heap
  BY DEF IInv, TypeOK, NoPlaneFreedEarly
<1>3. /\ last \in Range(s) /\ t \in Seq(Addresses)
      /\ \A k \in DOMAIN t : k \in DOMAIN s /\ t[k] = s[k]
      /\ IsInjective(t) /\ Range(t) = Range(s) \ {last}
  BY <1>1, <1>2, FrontFacts
<1>4. /\ DOMAIN heap' = DOMAIN heap \ {last}
      /\ \A b \in DOMAIN heap' : heap'[b] = heap[b]
  BY <1>1 DEF Freed, Restrict
<1>5. buf'[f] = t /\ \A g \in Frames \ {f} : buf'[g] = buf[g]
  BY <1>1 DEF IInv, TypeOK
<1>6. \A g \in Frames \ {f} : Range(s) \cap Range(buf[g]) = {}
  BY <1>1 DEF IInv, FillInv
<1>7. TypeOK'
  <2>1. buf' \in [Frames -> Seq(Addresses)]
    BY <1>1, <1>3 DEF IInv, TypeOK
  <2> HIDE DEF t, last
  <2>2. DOMAIN heap' \subseteq Addresses /\ Range(heap') \subseteq Nat \ {0}
    BY <1>4, Zenon DEF IInv, TypeOK, Range
  <2> QED BY <1>1, <2>1, <2>2 DEF IInv, TypeOK
<1> HIDE DEF t, last, s
<1>8. PoolInv'
  BY <1>1 DEF IInv, PoolInv
<1>9. NoPlaneFreedEarly'
  BY <1>2, <1>3, <1>4, <1>5, <1>6, Zenon DEF IInv, NoPlaneFreedEarly, s
<1>10. FillInv'
  <2>1. \A k \in DOMAIN t : heap'[t[k]] = size[k]
    <3> SUFFICES ASSUME NEW k \in DOMAIN t PROVE heap'[t[k]] = size[k]
      OBVIOUS
    <3>1. k \in DOMAIN s /\ t[k] = s[k] /\ t[k] \in Range(t)
      BY <1>3, Zenon DEF Range
    <3>2. t[k] \in DOMAIN heap'
      BY <1>2, <1>3, <1>4, <3>1, Zenon
    <3> QED BY <1>1, <1>4, <3>1, <3>2, Zenon DEF IInv, FillInv, s
  <2>2. ~(i' > 0)
    BY <1>1
  <2>3. \A g \in Frames \ {f} : Range(t) \cap Range(buf[g]) = {}
    BY <1>3, <1>6, Zenon
  <2>4. format = frame[f]
    BY <1>1 DEF IInv, FillInv
  <2> QED BY <1>1, <1>5, <2>1, <2>2, <2>3, <2>4 DEF FillInv
<1>11. PlanesFit'
  <2>1. \A g \in Frames \ {f} : last \notin Range(buf[g])
    BY <1>3, <1>6
  <2>2. \A g \in Frames \ {f} : Fits(buf[g], frame[g], heap')
    BY <1>1, <1>4, <2>1, FitsAll, FitsKept DEF IInv
  <2> QED BY <1>1, <1>5, <2>2, FitsAllAfter
<1> QED BY <1>7, <1>8, <1>9, <1>10, <1>11 DEF IInv

LEMMA GetFrameStep ==
  ASSUME IInv, NEW f \in Frames, lavc_GetFrame(f)
  PROVE  IInv'
<1>1. /\ current = {f} /\ current' = {} /\ UNCHANGED <<format, size, frame, buf, heap, i>>
      /\ i = Len(size) + 1 \/ (i = 0 /\ buf[f] = <<>>)
  BY DEF lavc_GetFrame
<1>2. TypeOK' /\ PoolInv' /\ FillInv' /\ NoPlaneFreedEarly'
  BY <1>1 DEF IInv, TypeOK, PoolInv, FillInv, NoPlaneFreedEarly
<1>3. \/ buf[f] = <<>>
      \/ /\ Len(buf[f]) = Len(PlaneSizes[frame[f]])
         /\ \A k \in DOMAIN buf[f] : /\ buf[f][k] \in DOMAIN heap
                                     /\ heap[buf[f][k]] = PlaneSizes[frame[f]][k]
  <2> SUFFICES ASSUME i = Len(size) + 1
               PROVE  /\ Len(buf[f]) = Len(PlaneSizes[frame[f]])
                      /\ \A k \in DOMAIN buf[f] :
                           /\ buf[f][k] \in DOMAIN heap
                           /\ heap[buf[f][k]] = PlaneSizes[frame[f]][k]
    BY <1>1
  <2>1. Len(size) \in Nat /\ frame[f] \in Formats
    BY DEF IInv, TypeOK, Sizes
  <2>2. size = PlaneSizes[frame[f]]
    BY <1>1, <2>1, FormatsAssumption DEF IInv, FillInv, PoolInv
  <2>3. Len(buf[f]) = Len(size)
    BY <1>1, <2>1 DEF IInv, FillInv
  <2>4. \A k \in DOMAIN buf[f] : buf[f][k] \in DOMAIN heap /\ heap[buf[f][k]] = size[k]
    BY <1>1, Zenon DEF IInv, FillInv, NoPlaneFreedEarly, Range
  <2> QED BY <2>2, <2>3, <2>4
<1>4. PlanesFit'
  <2>1. Fits(buf[f], frame[f], heap)
    BY <1>3 DEF Fits
  <2> QED BY <1>1, <2>1, FitsAll, FitsAllAfter DEF IInv
<1> QED BY <1>2, <1>4 DEF IInv

LEMMA RefStep ==
  ASSUME IInv, NEW f \in Frames, NEW g \in Frames, Ref(f, g)
  PROVE  IInv'
<1>1. /\ current = {} /\ current' = {} /\ UNCHANGED <<format, size, heap, i>>
      /\ buf' = [buf EXCEPT ![g] = buf[f]] /\ frame' = [frame EXCEPT ![g] = frame[f]]
  BY DEF Ref
<1>2. /\ buf'[g] = buf[f] /\ frame'[g] = frame[f]
      /\ \A x \in Frames \ {g} : buf'[x] = buf[x] /\ frame'[x] = frame[x]
  BY <1>1 DEF IInv, TypeOK
<1>3. TypeOK' /\ PoolInv' /\ FillInv'
  BY <1>1 DEF IInv, TypeOK, PoolInv, FillInv
<1>4. PlanesFit' /\ NoPlaneFreedEarly'
  <2>1. \A x \in Frames : Fits(buf'[x], frame'[x], heap)
    BY <1>1, <1>2, FitsAll DEF IInv
  <2>2. \A x \in Frames : Range(buf'[x]) \subseteq DOMAIN heap /\ IsInjective(buf'[x])
    BY <1>2 DEF IInv, NoPlaneFreedEarly
  <2> QED BY <1>1, <2>1, <2>2, FitsAllAfter DEF NoPlaneFreedEarly
<1> QED BY <1>3, <1>4 DEF IInv

LEMMA UnrefStep ==
  ASSUME IInv, NEW f \in Frames, Unref(f)
  PROVE  IInv'
<1>1. /\ current = {} /\ current' = {} /\ UNCHANGED <<format, size, frame, i>>
      /\ heap' = Freed(OnlyOf(f)) /\ buf' = [buf EXCEPT ![f] = <<>>]
  BY DEF Unref, lavc_ReleaseFrame
<1>2. buf'[f] = <<>> /\ \A x \in Frames \ {f} : buf'[x] = buf[x]
  BY <1>1 DEF IInv, TypeOK
<1>3. /\ DOMAIN heap' = DOMAIN heap \ OnlyOf(f)
      /\ \A b \in DOMAIN heap' : heap'[b] = heap[b]
  BY <1>1 DEF Freed, Restrict
<1>4. \A x \in Frames \ {f} : Range(buf[x]) \cap OnlyOf(f) = {}
  BY DEF OnlyOf
<1>5. TypeOK'
  <2>1. buf' \in [Frames -> Seq(Addresses)]
    BY <1>1, EmptyRange DEF IInv, TypeOK
  <2>2. DOMAIN heap' \subseteq Addresses /\ Range(heap') \subseteq Nat \ {0}
    BY <1>3, Zenon DEF IInv, TypeOK, Range
  <2> QED BY <1>1, <2>1, <2>2 DEF IInv, TypeOK
<1>6. PoolInv' /\ FillInv'
  BY <1>1 DEF IInv, PoolInv, FillInv
<1>7. NoPlaneFreedEarly'
  BY <1>2, <1>3, <1>4, EmptyRange, Zenon DEF IInv, NoPlaneFreedEarly
<1>8. PlanesFit'
  <2>1. \A x \in Frames \ {f} : Fits(buf[x], frame[x], heap')
    BY <1>1, <1>3, <1>4, FitsAll, FitsKept DEF IInv
  <2>2. Fits(buf'[f], frame'[f], heap')
    BY <1>2 DEF Fits
  <2> QED BY <1>1, <1>2, <2>1, <2>2, FitsAllAfter
<1> QED BY <1>5, <1>6, <1>7, <1>8 DEF IInv

LEMMA IInvStep == IInv /\ [Next]_vars => IInv'
<1> SUFFICES ASSUME IInv, [Next]_vars
             PROVE  IInv'
  OBVIOUS
<1>1. CASE UNCHANGED vars
  BY <1>1 DEF vars, IInv, TypeOK, PoolInv, FillInv, PlanesFit, NoPlaneFreedEarly
<1>2. CASE Reopen
  BY <1>2 DEF Reopen, IInv, TypeOK, PoolInv, FillInv, PlanesFit, NoPlaneFreedEarly
<1>3. ASSUME NEW f \in Frames,
             \/ AllocPlane(f) \/ NoMemory(f) \/ NoBuffer(f) \/ UndoPlane(f)
             \/ lavc_GetFrame(f) \/ Unref(f)
      PROVE  IInv'
  BY <1>3, AllocStep, NoMemoryStep, NoBufferStep, UndoStep, GetFrameStep, UnrefStep
<1>4. ASSUME NEW f \in Frames, NEW wanted \in Formats, update_frame_pool(f, wanted)
      PROVE  IInv'
  BY <1>4, UpdateStep
<1>5. ASSUME NEW f \in Frames, NEW g \in Frames, Ref(f, g)
      PROVE  IInv'
  BY <1>5, RefStep
<1> QED BY <1>1, <1>2, <1>3, <1>4, <1>5 DEF Next

LEMMA Invariance == Spec => []IInv
BY InitIInv, IInvStep, PTL DEF Spec
-------------------------------------------------------------------------------
(***************************************************************************)
(* Theorems.                                                               *)
(***************************************************************************)

\* The pool's state keeps its type for any formats and any failures.
THEOREM TypeCorrect == Spec => []TypeOK
BY Invariance, PTL DEF IInv

\* For any number of planes and any sequence of formats, a frame has the
\* planes of its own format or none.
THEOREM FramesComplete == Spec => []PlanesFit
BY Invariance, PTL DEF IInv

\* For any number of frames and references, no plane is freed while a frame
\* refers to it.
THEOREM NoEarlyFree == Spec => []NoPlaneFreedEarly
BY Invariance, PTL DEF IInv

\* For any number of frames and planes, memory is lost only when a plane gets
\* no buffer, and then that plane.
THEOREM OnlyOnePlaneLost == Spec => LosesOnePlane
<1> DEFINE Fails == /\ \E f \in Frames : NoBuffer(f)
                    /\ \E a \in Addresses \ Lost : Lost' = Lost \cup {a}
<1>1. IInv /\ [Next]_vars => (Lost' # Lost => Fails) \/ UNCHANGED vars
  <2> SUFFICES ASSUME IInv, Next, Lost' # Lost
               PROVE  Fails
    OBVIOUS
  <2> USE DEF Lost
  <2>0. DOMAIN buf = Frames /\ \A f \in Frames : Range(buf[f]) \subseteq DOMAIN heap
    BY DEF IInv, TypeOK, NoPlaneFreedEarly
  <2>1. ASSUME NEW f \in Frames, AllocPlane(f) PROVE Lost' = Lost
    <3>1. PICK a \in Addresses \ DOMAIN heap :
            heap' = Allocated(a, size[i]) /\ buf' = [buf EXCEPT ![f] = Append(@, a)]
      BY <2>1 DEF AllocPlane
    <3>2. /\ DOMAIN heap' = DOMAIN heap \cup {a} /\ buf'[f] = Append(buf[f], a)
          /\ \A g \in Frames \ {f} : buf'[g] = buf[g]
      BY <2>0, <3>1 DEF Allocated
    <3>3. Range(buf'[f]) = Range(buf[f]) \cup {a}
      BY <3>2, AppendFacts DEF IInv, TypeOK
    <3> QED BY <2>0, <3>2, <3>3
  <2>2. ASSUME NEW f \in Frames, UndoPlane(f) PROVE Lost' = Lost
    <3> DEFINE last == buf[f][Len(buf[f])]
               t == SubSeq(buf[f], 1, Len(buf[f]) - 1)
    <3>1. /\ buf[f] \in Seq(Addresses) /\ IsInjective(buf[f]) /\ buf[f] # <<>>
          /\ current = {f}
      BY <2>2 DEF IInv, TypeOK, NoPlaneFreedEarly, UndoPlane
    <3>2. DOMAIN heap' = DOMAIN heap \ {last} /\ buf'[f] = t
          /\ \A g \in Frames \ {f} : buf'[g] = buf[g]
      BY <2>0, <2>2 DEF UndoPlane, Freed, Restrict
    <3>3. Range(t) = Range(buf[f]) \ {last} /\ last \in Range(buf[f])
      BY <3>1, FrontFacts
    <3>4. \A g \in Frames \ {f} : last \notin Range(buf[g])
      BY <3>1, <3>3 DEF IInv, FillInv
    <3> HIDE DEF last, t
    <3> QED BY <3>2, <3>3, <3>4
  <2>3. ASSUME NEW f \in Frames, NoBuffer(f) PROVE Fails
    <3>1. PICK a \in Addresses \ DOMAIN heap : heap' = Allocated(a, size[i])
      BY <2>3 DEF NoBuffer
    <3>2. DOMAIN heap' = DOMAIN heap \cup {a} /\ buf' = buf
      BY <2>3, <3>1 DEF NoBuffer, Allocated
    <3>3. a \notin Lost /\ Lost' = Lost \cup {a}
      BY <2>0, <3>2
    <3> QED BY <2>3, <3>3
  <2>4. ASSUME NEW f \in Frames, Unref(f) PROVE Lost' = Lost
    <3>1. DOMAIN heap' = DOMAIN heap \ OnlyOf(f) /\ buf'[f] = <<>>
          /\ \A g \in Frames \ {f} : buf'[g] = buf[g]
      BY <2>0, <2>4 DEF Unref, lavc_ReleaseFrame, Freed, Restrict
    <3>2. Range(buf'[f]) = {}
      BY <3>1, EmptyRange
    <3> QED BY <2>0, <3>1, <3>2 DEF OnlyOf
  <2>5. ASSUME NEW f \in Frames, NEW g \in Frames, Ref(f, g) PROVE Lost' = Lost
    <3>1. /\ heap' = heap /\ buf[g] = <<>> /\ buf'[g] = buf[f]
          /\ \A x \in Frames \ {g} : buf'[x] = buf[x]
      BY <2>0, <2>5 DEF Ref
    <3>2. Range(buf[g]) = {}
      BY <3>1, EmptyRange
    <3> QED BY <2>0, <3>1, <3>2
  <2>6. ASSUME UNCHANGED <<buf, heap>> PROVE Lost' = Lost
    BY <2>6
  <2> QED BY <2>1, <2>2, <2>3, <2>4, <2>5, <2>6
          DEF Next, Reopen, NoMemory, lavc_GetFrame, update_frame_pool
<1> QED BY <1>1, Invariance, PTL DEF Spec, LosesOnePlane
-------------------------------------------------------------------------------
(***************************************************************************)
(* Sums.  SumFunctionOnSet is a CHOOSE of a recursive function, which has  *)
(* to be shown to exist and to be unique before anything is known of the   *)
(* sum.                                                                    *)
(***************************************************************************)

\* Induction, over a set instead of an operator.
LEMMA NatSetInduction ==
  ASSUME NEW A \in SUBSET Nat, 0 \in A, \A n \in A : n + 1 \in A
  PROVE  A = Nat
<1> DEFINE R == OpToRel(<, Nat)
           T == Nat \ A
<1>1. \A x, y \in Nat : x < y => <<x, y>> \in R
  BY DEF OpToRel
<1>2. SUFFICES ASSUME T # {} PROVE FALSE
  OBVIOUS
<1>3. IsWellFoundedOn(R, Nat)
  BY NatLessThanWellFounded
<1> HIDE DEF R
<1>4. PICK x \in T : \A y \in T : ~ (<<y, x>> \in R)
  BY <1>2, <1>3, WFMin, T \subseteq Nat
<1>5. x - 1 \in T /\ x - 1 < x
  OBVIOUS
<1>6. <<x - 1, x>> \in R
  BY <1>1, <1>5
<1> QED BY <1>4, <1>5, <1>6

Pick(s) == CHOOSE x \in s : TRUE

(* g adds up f over the sets of D in the order of MapThenFoldSet.          *)
Adds(g, f, D) ==
  g = [s \in D |-> IF s = {} THEN 0 ELSE f[Pick(s)] + g[s \ {Pick(s)}]]

LEMMA SumChooses ==
  ASSUME NEW f, NEW S
  PROVE  SumFunctionOnSet(f, S) = (CHOOSE g : Adds(g, f, SUBSET S))[S]
BY Zenon DEF SumFunctionOnSet, FoldFunctionOnSet, MapThenFoldSet, Adds, Pick

LEMMA PickFacts ==
  ASSUME NEW s, s # {}, IsFiniteSet(s)
  PROVE  /\ Pick(s) \in s /\ IsFiniteSet(s \ {Pick(s)})
         /\ Cardinality(s) \in Nat \ {0}
         /\ Cardinality(s \ {Pick(s)}) = Cardinality(s) - 1
<1>1. Pick(s) \in s
  BY DEF Pick
<1> QED BY <1>1, FS_RemoveElement, FS_EmptySet, FS_CardinalityType

Small(S, n) == {s \in SUBSET S : Cardinality(s) <= n}

\* The recursion of MapThenFoldSet has a solution: one for the subsets of at
\* most n elements gives one for those of at most n + 1.
LEMMA SumExists ==
  ASSUME NEW f, NEW S, IsFiniteSet(S)
  PROVE  \E g : Adds(g, f, SUBSET S)
<1> DEFINE A == {n \in Nat : \E g : Adds(g, f, Small(S, n))}
<1>1. \A s \in SUBSET S : IsFiniteSet(s) /\ Cardinality(s) \in Nat
  BY FS_Subset, FS_CardinalityType
<1>2. \A s \in SUBSET S : s # {} => /\ Pick(s) \in s /\ s \ {Pick(s)} \in SUBSET S
                                    /\ Cardinality(s \ {Pick(s)}) = Cardinality(s) - 1
  BY <1>1, PickFacts
<1>3. 0 \in A
  <2> DEFINE g == [s \in Small(S, 0) |-> 0]
  <2>1. \A s \in Small(S, 0) : s = {}
    BY <1>1, FS_EmptySet DEF Small
  <2>2. Adds(g, f, Small(S, 0))
    BY <2>1 DEF Adds
  <2> QED BY <2>2
<1>4. ASSUME NEW n \in A PROVE n + 1 \in A
  <2>1. PICK g : Adds(g, f, Small(S, n))
    OBVIOUS
  <2> DEFINE h == [s \in Small(S, n + 1) |->
                     IF s = {} THEN 0 ELSE f[Pick(s)] + g[s \ {Pick(s)}]]
  <2>2. \A s \in Small(S, n + 1) : s # {} => s \ {Pick(s)} \in Small(S, n)
    BY <1>1, <1>2 DEF Small
  <2>3. Small(S, n) \subseteq Small(S, n + 1)
    BY <1>1 DEF Small
  <2>4. \A s \in Small(S, n) : h[s] = g[s]
    BY <2>1, <2>3 DEF Adds
  <2>5. h = [s \in Small(S, n + 1) |->
               IF s = {} THEN 0 ELSE f[Pick(s)] + h[s \ {Pick(s)}]]
    BY <2>2, <2>4
  <2>6. Adds(h, f, Small(S, n + 1))
    BY <2>5 DEF Adds
  <2> QED BY <2>6
<1>5. Cardinality(S) \in A
  <2> HIDE DEF A
  <2>1. A = Nat
    <3>1. A \in SUBSET Nat
      BY DEF A
    <3> QED BY <1>3, <1>4, <3>1, NatSetInduction
  <2> QED BY <1>1, <2>1
<1>6. Small(S, Cardinality(S)) = SUBSET S
  BY FS_Subset DEF Small
<1> QED BY <1>5, <1>6

\* Two solutions agree wherever both are defined: they make the same picks.
LEMMA SumUnique ==
  ASSUME NEW f, NEW S, IsFiniteSet(S), NEW T \in SUBSET S,
         NEW g, NEW h, Adds(g, f, SUBSET S), Adds(h, f, SUBSET T)
  PROVE  g[T] = h[T]
<1> DEFINE A == {n \in Nat : \A s \in Small(T, n) : g[s] = h[s]}
<1>1. \A s \in SUBSET T : IsFiniteSet(s) /\ Cardinality(s) \in Nat
  BY FS_Subset, FS_CardinalityType
<1>2. \A s \in SUBSET T : s # {} => /\ Pick(s) \in s /\ s \ {Pick(s)} \in SUBSET T
                                    /\ Cardinality(s \ {Pick(s)}) = Cardinality(s) - 1
  BY <1>1, PickFacts
<1>3. \A s \in SUBSET T : g[s] = IF s = {} THEN 0 ELSE f[Pick(s)] + g[s \ {Pick(s)}]
  BY DEF Adds
<1>4. \A s \in SUBSET T : h[s] = IF s = {} THEN 0 ELSE f[Pick(s)] + h[s \ {Pick(s)}]
  BY DEF Adds
<1>5. 0 \in A
  <2>1. \A s \in Small(T, 0) : s = {}
    BY <1>1, FS_EmptySet DEF Small
  <2> QED BY <1>3, <1>4, <2>1
<1>6. ASSUME NEW n \in A PROVE n + 1 \in A
  <2>1. \A s \in Small(T, n + 1) : s # {} => s \ {Pick(s)} \in Small(T, n)
    BY <1>1, <1>2 DEF Small
  <2>2. \A s \in Small(T, n + 1) : s \in SUBSET T
    BY DEF Small
  <2>3. ASSUME NEW s \in Small(T, n + 1) PROVE g[s] = h[s]
    <3>1. CASE s = {}
      BY <1>3, <1>4, <2>2, <3>1
    <3>2. CASE s # {}
      <4>1. g[s \ {Pick(s)}] = h[s \ {Pick(s)}]
        BY <2>1, <3>2
      <4> QED BY <1>3, <1>4, <2>2, <3>2, <4>1
    <3> QED BY <3>1, <3>2
  <2> QED BY <2>3
<1>7. A = Nat
  <2> HIDE DEF A
  <2>1. A \in SUBSET Nat
    BY DEF A
  <2> QED BY <1>5, <1>6, <2>1, NatSetInduction
<1> QED BY <1>1, <1>7 DEF Small

LEMMA SumEmpty == ASSUME NEW f PROVE SumFunctionOnSet(f, {}) = 0
<1> DEFINE g == CHOOSE g : Adds(g, f, SUBSET {})
<1>1. Adds(g, f, SUBSET {})
  BY SumExists, FS_EmptySet
<1>2. g[{}] = 0
  <2> HIDE DEF g
  <2> QED BY <1>1 DEF Adds
<1> QED BY <1>2, SumChooses

LEMMA SumSolves ==
  ASSUME NEW f, NEW S, IsFiniteSet(S)
  PROVE  \E g : Adds(g, f, SUBSET S) /\ SumFunctionOnSet(f, S) = g[S]
BY SumExists, SumChooses

\* The equation of the sum.
LEMMA SumPick ==
  ASSUME NEW f, NEW S, IsFiniteSet(S), S # {}
  PROVE  SumFunctionOnSet(f, S) = f[Pick(S)] + SumFunctionOnSet(f, S \ {Pick(S)})
<1>1. S \ {Pick(S)} \in SUBSET S /\ IsFiniteSet(S \ {Pick(S)})
  BY PickFacts
<1>2. PICK g : Adds(g, f, SUBSET S) /\ SumFunctionOnSet(f, S) = g[S]
  BY SumSolves
<1>3. PICK h : /\ Adds(h, f, SUBSET (S \ {Pick(S)}))
               /\ SumFunctionOnSet(f, S \ {Pick(S)}) = h[S \ {Pick(S)}]
  BY <1>1, SumSolves
<1>4. g[S \ {Pick(S)}] = h[S \ {Pick(S)}]
  BY <1>1, <1>2, <1>3, SumUnique
<1>5. g[S] = f[Pick(S)] + g[S \ {Pick(S)}]
  BY <1>2 DEF Adds
<1> QED BY <1>2, <1>3, <1>4, <1>5

LEMMA ThreeSums ==
  ASSUME NEW a, NEW b \in Int, NEW c \in Int, NEW d \in Int, NEW u, NEW v,
         a = b + u, u = c + d, v = b + d
  PROVE  a = c + v
OBVIOUS

\* Any element may be taken first.
LEMMA SumRemove ==
  ASSUME NEW f, NEW S, IsFiniteSet(S), NEW x \in S, \A y \in S : f[y] \in Int
  PROVE  /\ SumFunctionOnSet(f, S) \in Int
         /\ SumFunctionOnSet(f, S) = f[x] + SumFunctionOnSet(f, S \ {x})
<1> DEFINE Good(T) == /\ SumFunctionOnSet(f, T) \in Int
                      /\ \A y \in T : SumFunctionOnSet(f, T) =
                                       f[y] + SumFunctionOnSet(f, T \ {y})
           A == {n \in Nat : \A T \in Small(S, n) : Good(T)}
<1>1. \A T \in SUBSET S : IsFiniteSet(T) /\ Cardinality(T) \in Nat
  BY FS_Subset, FS_CardinalityType
<1>2. \A T \in SUBSET S : \A y \in T : /\ T \ {y} \in SUBSET S
                                      /\ Cardinality(T \ {y}) = Cardinality(T) - 1
  BY <1>1, FS_RemoveElement
<1>3. 0 \in A
  <2>1. \A T \in Small(S, 0) : T = {}
    BY <1>1, FS_EmptySet DEF Small
  <2>2. Good({})
    BY SumEmpty
  <2> HIDE DEF Good
  <2> QED BY <2>1, <2>2
<1>4. ASSUME NEW n \in A, NEW T \in Small(S, n + 1) PROVE Good(T)
  <2>1. T \in SUBSET S /\ \A y \in T : T \ {y} \in Small(S, n)
    BY <1>1, <1>2 DEF Small
  <2>2. \A y \in T : Good(T \ {y})
    <3> HIDE DEF Good
    <3> QED BY <2>1
  <2>3. CASE T = {}
    BY <2>3, SumEmpty
  <2>4. CASE T # {}
    <3> DEFINE p == Pick(T)
    <3>1. p \in T
      BY <2>4 DEF Pick
    <3>2. SumFunctionOnSet(f, T) = f[p] + SumFunctionOnSet(f, T \ {p})
      BY <1>1, <2>1, <2>4, SumPick
    <3> HIDE DEF p
    <3>3. SumFunctionOnSet(f, T \ {p}) \in Int /\ f[p] \in Int
      BY <2>1, <2>2, <3>1
    <3>4. ASSUME NEW y \in T, y # p
          PROVE  SumFunctionOnSet(f, T) = f[y] + SumFunctionOnSet(f, T \ {y})
      <4>1. (T \ {p}) \ {y} = (T \ {y}) \ {p}
        OBVIOUS
      <4>2. SumFunctionOnSet(f, T \ {p}) = f[y] + SumFunctionOnSet(f, (T \ {p}) \ {y})
        BY <2>2, <3>1, <3>4
      <4>3. SumFunctionOnSet(f, T \ {y}) = f[p] + SumFunctionOnSet(f, (T \ {y}) \ {p})
        BY <2>2, <3>1, <3>4
      <4>4. (T \ {p}) \ {y} \in Small(S, n)
        <5>1. T \ {p} \in SUBSET S /\ y \in T \ {p}
          BY <2>1, <3>4
        <5>2. (T \ {p}) \ {y} \in SUBSET S /\ Cardinality((T \ {p}) \ {y}) = Cardinality(T \ {p}) - 1
          BY <1>2, <5>1
        <5>3. Cardinality(T \ {p}) = Cardinality(T) - 1 /\ Cardinality(T) \in Nat
          BY <1>1, <1>2, <2>1, <3>1
        <5>4. Cardinality(T) <= n + 1
          BY DEF Small
        <5> QED BY <5>2, <5>3, <5>4 DEF Small
      <4>5. SumFunctionOnSet(f, (T \ {p}) \ {y}) \in Int
        <5>1. Good((T \ {p}) \ {y})
          <6> HIDE DEF Good
          <6> QED BY <4>4
        <5> QED BY <5>1
      <4>6. f[y] \in Int
        BY <2>1
      <4>7. SumFunctionOnSet(f, T \ {y}) = f[p] + SumFunctionOnSet(f, (T \ {p}) \ {y})
        BY <4>1, <4>3
      <4> HIDE DEF Small, Good
      <4> QED BY <3>2, <3>3, <4>2, <4>5, <4>6, <4>7, ThreeSums
    <3>5. SumFunctionOnSet(f, T) \in Int
      BY <3>2, <3>3
    <3>6. SumFunctionOnSet(f, T) = f[p] + SumFunctionOnSet(f, T \ {p})
      BY <3>2
    <3>7. \A y \in T : SumFunctionOnSet(f, T) = f[y] + SumFunctionOnSet(f, T \ {y})
      BY <3>4, <3>6
    <3> QED BY <3>5, <3>7
  <2> QED BY <2>3, <2>4
<1>5. A = Nat
  <2> HIDE DEF Good
  <2>1. \A n \in A : n + 1 \in A
    BY <1>4
  <2> HIDE DEF A
  <2>2. A \in SUBSET Nat
    BY DEF A
  <2> QED BY <1>3, <2>1, <2>2, NatSetInduction
<1>6. Good(S)
  <2> HIDE DEF Good
  <2>1. S \in Small(S, Cardinality(S)) /\ Cardinality(S) \in A
    BY <1>1, <1>5 DEF Small
  <2> QED BY <2>1
<1> QED BY <1>6

\* The sum depends on the values on S alone.
LEMMA SumSame ==
  ASSUME NEW f, NEW g, NEW S, IsFiniteSet(S), \A y \in S : f[y] = g[y]
  PROVE  SumFunctionOnSet(f, S) = SumFunctionOnSet(g, S)
<1>1. PICK p : Adds(p, f, SUBSET S) /\ SumFunctionOnSet(f, S) = p[S]
  BY SumSolves
<1>2. PICK q : Adds(q, g, SUBSET S) /\ SumFunctionOnSet(g, S) = q[S]
  BY SumSolves
<1>3. \A s \in SUBSET S : s # {} => f[Pick(s)] = g[Pick(s)]
  BY DEF Pick
<1>4. Adds(p, g, SUBSET S)
  BY <1>1, <1>3 DEF Adds
<1>5. p[S] = q[S]
  BY <1>2, <1>4, SumUnique
<1> QED BY <1>1, <1>2, <1>5

(***************************************************************************)
(* Numbers modulo Modulus.                                                 *)
(***************************************************************************)

LEMMA ModFacts ==
  ASSUME NEW x \in Int
  PROVE  /\ x % Modulus \in UInt32 /\ x \div Modulus \in Int
         /\ x = Modulus * (x \div Modulus) + (x % Modulus)
BY ModulusAssumption DEF UInt32

LEMMA ModUnique ==
  ASSUME NEW q \in Int, NEW r \in UInt32
  PROVE  (Modulus * q + r) % Modulus = r
<1> DEFINE x == Modulus * q + r
<1>1. x \in Int /\ r \in Int /\ 0 <= r /\ r < Modulus /\ Modulus \in Int /\ Modulus > 0
  BY ModulusAssumption DEF UInt32
<1> DEFINE d == x \div Modulus
           e == x % Modulus
<1>2. d \in Int /\ e \in Int /\ 0 <= e /\ e < Modulus /\ x = Modulus * d + e
  BY <1>1, ModFacts DEF UInt32
<1>3. Modulus * q + r = Modulus * d + e
  BY <1>2
<1> HIDE DEF x, d, e
<1>4. Modulus * (q - d) = e - r
  BY <1>1, <1>2, <1>3
<1>5. CASE q - d >= 1
  <2>1. Modulus * (q - d) >= Modulus
    BY <1>1, <1>2, <1>5
  <2> QED BY <1>1, <1>2, <1>4, <2>1
<1>6. CASE q - d <= -1
  <2>1. Modulus * (q - d) <= -Modulus
    BY <1>1, <1>2, <1>6
  <2> QED BY <1>1, <1>2, <1>4, <2>1
<1>7. CASE q - d = 0
  BY <1>1, <1>2, <1>4, <1>7 DEF e, x
<1> QED BY <1>1, <1>2, <1>5, <1>6, <1>7

LEMMA ModShift ==
  ASSUME NEW q \in Int, NEW x \in Int
  PROVE  (Modulus * q + x) % Modulus = x % Modulus
<1>1. /\ x % Modulus \in UInt32 /\ x \div Modulus \in Int
      /\ x = Modulus * (x \div Modulus) + (x % Modulus)
  BY ModFacts
<1>2. PICK k \in Int : k = x \div Modulus
  BY <1>1
<1>3. PICK r \in UInt32 : r = x % Modulus
  BY <1>1
<1>4. Modulus * q + x = Modulus * (q + k) + r
  BY <1>1, <1>2, <1>3, ModulusAssumption DEF UInt32
<1>5. (Modulus * (q + k) + r) % Modulus = r
  BY ModUnique
<1> QED BY <1>3, <1>4, <1>5

\* What is taken off or added may be cut to 32 bits before or after.
LEMMA ModSum ==
  ASSUME NEW x \in Int, NEW y \in Int, NEW z \in Int
  PROVE  /\ ((x % Modulus) + y) % Modulus = (x + y) % Modulus
         /\ ((x % Modulus) + (y - (z % Modulus))) % Modulus = (x + y - z) % Modulus
<1>1. /\ x % Modulus \in Int /\ x \div Modulus \in Int
      /\ x = Modulus * (x \div Modulus) + (x % Modulus)
      /\ z % Modulus \in Int /\ z \div Modulus \in Int
      /\ z = Modulus * (z \div Modulus) + (z % Modulus)
  BY ModFacts DEF UInt32
<1>2. PICK k \in Int, r \in Int : k = x \div Modulus /\ r = x % Modulus
  BY <1>1
<1>3. PICK l \in Int, t \in Int : l = z \div Modulus /\ t = z % Modulus
  BY <1>1
<1>4. x = Modulus * k + r /\ z = Modulus * l + t
  BY <1>1, <1>2, <1>3
<1>5. x + y = Modulus * k + (r + y)
  BY <1>4, ModulusAssumption
<1>6. x + y - z = Modulus * (k - l) + (r + (y - t))
  BY <1>4, ModulusAssumption
<1>7. (Modulus * k + (r + y)) % Modulus = (r + y) % Modulus
  BY ModShift
<1>8. (Modulus * (k - l) + (r + (y - t))) % Modulus = (r + (y - t)) % Modulus
  BY ModShift
<1> QED BY <1>2, <1>3, <1>5, <1>6, <1>7, <1>8
-------------------------------------------------------------------------------
(***************************************************************************)
(* Blocks and accounts.                                                    *)
(***************************************************************************)

PartOf(t) == {a \in DOMAIN blocks : counted[a] = t}
Sum(t) == SumFunctionOnSet(blocks, PartOf(t))
SumWithout(t, a) == SumFunctionOnSet(blocks, PartOf(t) \ {a})

(* A heap is finite, or there would be nothing to sum up.                  *)
MemIInv == MemTypeOK /\ IsFiniteSet(DOMAIN blocks) /\ AccountExact

LEMMA BlockSize ==
  ASSUME MemIInv, NEW a \in DOMAIN blocks
  PROVE  blocks[a] \in Nat /\ counted[a] \in Threads \cup {Nobody}
BY RequestsAssumption DEF MemIInv, MemTypeOK, Range

\* One block more or less in an account.
LEMMA SumOne ==
  ASSUME MemIInv, NEW t, NEW a
  PROVE  /\ Sum(t) \in Int /\ SumWithout(t, a) \in Int
         /\ a \in PartOf(t) => Sum(t) = blocks[a] + SumWithout(t, a)
         /\ a \notin PartOf(t) => Sum(t) = SumWithout(t, a)
<1>1. /\ IsFiniteSet(PartOf(t)) /\ IsFiniteSet(PartOf(t) \ {a})
      /\ \A b \in PartOf(t) : blocks[b] \in Int
  BY BlockSize, FS_Subset DEF MemIInv, PartOf
<1>2. ASSUME NEW T \in SUBSET PartOf(t), IsFiniteSet(T) PROVE SumFunctionOnSet(blocks, T) \in Int
  <2>1. CASE T = {}
    BY <2>1, SumEmpty
  <2>2. CASE T # {}
    BY <1>1, <1>2, <2>2, SumRemove
  <2> QED BY <2>1, <2>2
<1>3. a \in PartOf(t) => Sum(t) = blocks[a] + SumWithout(t, a)
  BY <1>1, SumRemove DEF Sum, SumWithout
<1>4. a \notin PartOf(t) => PartOf(t) \ {a} = PartOf(t)
  OBVIOUS
<1> QED BY <1>1, <1>2, <1>3, <1>4 DEF Sum, SumWithout

\* A block that is new, or has a new size or account.
LEMMA PutFacts ==
  ASSUME MemIInv, NEW a \in BlockAddresses, NEW n \in Requests,
         NEW u \in Threads \cup {Nobody}, Put(a, n, u)
  PROVE  /\ DOMAIN blocks' \subseteq BlockAddresses /\ IsFiniteSet(DOMAIN blocks')
         /\ Range(blocks') \subseteq Requests
         /\ counted' \in [DOMAIN blocks' -> Threads \cup {Nobody}]
         /\ \A t \in Threads : Sum(t)' = SumWithout(t, a) + (IF t = u THEN n ELSE 0)
<1>1. /\ DOMAIN blocks' = DOMAIN blocks \cup {a} /\ DOMAIN counted' = DOMAIN blocks'
      /\ blocks'[a] = n /\ counted'[a] = u
      /\ \A b \in DOMAIN blocks : b # a => blocks'[b] = blocks[b] /\ counted'[b] = counted[b]
  BY DEF Put
<1>2. DOMAIN blocks' \subseteq BlockAddresses /\ IsFiniteSet(DOMAIN blocks')
  BY <1>1, FS_AddElement DEF MemIInv, MemTypeOK
<1>3. Range(blocks') \subseteq Requests
  BY <1>1 DEF MemIInv, MemTypeOK, Range
<1>4. counted' \in [DOMAIN blocks' -> Threads \cup {Nobody}]
  BY BlockSize DEF Put
<1>5. ASSUME NEW t \in Threads
      PROVE  Sum(t)' = SumWithout(t, a) + (IF t = u THEN n ELSE 0)
  <2> DEFINE rest == PartOf(t) \ {a}
  <2>1. PartOf(t)' = IF t = u THEN rest \cup {a} ELSE rest
    BY <1>1 DEF PartOf
  <2>2. IsFiniteSet(rest) /\ IsFiniteSet(rest \cup {a})
    BY FS_Subset, FS_AddElement DEF MemIInv, PartOf
  <2>3. \A b \in rest : blocks'[b] = blocks[b] /\ blocks[b] \in Int
    BY <1>1, BlockSize DEF PartOf
  <2>4. SumFunctionOnSet(blocks', rest) = SumWithout(t, a)
    BY <2>2, <2>3, SumSame DEF SumWithout
  <2>5. CASE t = u
    <3>1. \A b \in rest \cup {a} : blocks'[b] \in Int
      BY <1>1, <2>3, RequestsAssumption
    <3>2. SumFunctionOnSet(blocks', rest \cup {a}) =
            blocks'[a] + SumFunctionOnSet(blocks', (rest \cup {a}) \ {a})
      BY <2>2, <3>1, SumRemove
    <3>3. (rest \cup {a}) \ {a} = rest
      OBVIOUS
    <3>4. Sum(t)' = n + SumWithout(t, a)
      BY <1>1, <2>1, <2>4, <2>5, <3>2, <3>3 DEF Sum
    <3> QED BY <2>5, <3>4, SumOne, RequestsAssumption
  <2>6. CASE t # u
    BY <2>1, <2>4, <2>6, SumOne DEF Sum
  <2> QED BY <2>5, <2>6
<1> QED BY <1>1, <1>2, <1>3, <1>4, <1>5

LEMMA AccountFacts ==
  ASSUME NEW u \in Threads
  PROVE  /\ Account(u) \in Threads \cup {Nobody}
         /\ \A t \in Threads : Account(u) = t <=> u \in tls_ctx /\ t = u
BY NobodyAssumption DEF Account

LEMMA AdjustFacts ==
  ASSUME MemIInv, NEW u \in Threads, NEW n \in Int, Adjust(u, n)
  PROVE  /\ m_mem_used' \in [Threads -> UInt32]
         /\ \A t \in Threads :
              m_mem_used'[t] = IF t = Account(u) THEN (m_mem_used[t] + n) % Modulus
                               ELSE m_mem_used[t]
<1>1. m_mem_used \in [Threads -> UInt32] /\ \A t \in Threads : m_mem_used[t] \in Int
  BY DEF MemIInv, MemTypeOK, UInt32
<1>2. m_mem_used[u] + n \in Int
  BY <1>1
<1>3. Added(u, n) = (m_mem_used[u] + n) % Modulus /\ Added(u, n) \in UInt32
  BY <1>2, ModFacts DEF Added
<1>4. m_mem_used' = IF u \in tls_ctx THEN [m_mem_used EXCEPT ![u] = Added(u, n)] ELSE m_mem_used
  BY DEF Adjust
<1>5. CASE u \in tls_ctx
  BY <1>1, <1>3, <1>4, <1>5, AccountFacts
<1>6. CASE u \notin tls_ctx
  BY <1>1, <1>4, <1>6, AccountFacts
<1> QED BY <1>5, <1>6

\* Where no account goes wrong, the block and the call agree on the account.
LEMMA StraysFacts ==
  ASSUME MemIInv, NEW u \in Threads, NEW a \in DOMAIN blocks
  PROVE  /\ Strays(u, a) \subseteq Threads
         /\ \A t \in Threads \ Strays(u, a) : counted[a] = t <=> Account(u) = t
<1>1. counted[a] \in Threads \cup {Nobody} /\ Account(u) \in Threads \cup {Nobody}
  BY BlockSize, AccountFacts
<1> QED BY <1>1, NobodyAssumption DEF Strays

\* The account before the call, as far as it was right.
LEMMA Exact ==
  ASSUME MemIInv, NEW t \in Threads \ strayed
  PROVE  m_mem_used[t] = Sum(t) % Modulus
BY DEF MemIInv, AccountExact, Sum, PartOf

(***************************************************************************)
(* The steps.                                                              *)
(***************************************************************************)

LEMMA SetCtxInv ==
  ASSUME MemIInv, NEW u \in Threads, SetCtx(u)
  PROVE  MemIInv'
BY DEF MemIInv, MemTypeOK, SetCtx, AccountExact, UInt32

\* A new block, of jut_malloc and of realloc's NULL.
LEMMA NewBlock ==
  ASSUME MemIInv, NEW u \in Threads, NEW n \in Requests,
         NEW a \in BlockAddresses \ DOMAIN blocks, Put(a, n, Account(u)), Adjust(u, n),
         UNCHANGED <<tls_ctx, strayed>>, memused_max' \in [Threads -> UInt32]
  PROVE  MemIInv'
<1>1. /\ DOMAIN blocks' \subseteq BlockAddresses /\ IsFiniteSet(DOMAIN blocks')
      /\ Range(blocks') \subseteq Requests
      /\ counted' \in [DOMAIN blocks' -> Threads \cup {Nobody}]
      /\ \A t \in Threads : Sum(t)' = SumWithout(t, a) + (IF t = Account(u) THEN n ELSE 0)
  BY AccountFacts, PutFacts
<1>2. n \in Int
  BY RequestsAssumption
<1>3. MemTypeOK'
  BY <1>1, <1>2, AdjustFacts DEF MemIInv, MemTypeOK, UInt32
<1>4. ASSUME NEW t \in Threads \ strayed'
      PROVE  m_mem_used'[t] = Sum(t)' % Modulus
  <2>1. Sum(t) \in Int /\ SumWithout(t, a) = Sum(t) /\ SumWithout(t, a) \in Int
    BY SumOne DEF PartOf
  <2>2. m_mem_used[t] = Sum(t) % Modulus
    BY Exact
  <2>3. CASE t = Account(u)
    <3>1. m_mem_used'[t] = ((Sum(t) % Modulus) + n) % Modulus
      BY <1>2, <2>2, <2>3, AdjustFacts
    <3>2. Sum(t)' = Sum(t) + n
      BY <1>1, <2>1, <2>3
    <3> QED BY <1>2, <2>1, <3>1, <3>2, ModSum
  <2>4. CASE t # Account(u)
    <3>1. m_mem_used'[t] = Sum(t) % Modulus
      BY <1>2, <2>2, <2>4, AdjustFacts
    <3>2. Sum(t)' = Sum(t) + 0
      BY <1>1, <2>1, <2>4
    <3> QED BY <2>1, <3>1, <3>2
  <2> QED BY <2>3, <2>4
<1>5. AccountExact'
  BY <1>4 DEF AccountExact, Sum, PartOf
<1> QED BY <1>1, <1>3, <1>5 DEF MemIInv

LEMMA MallocInv ==
  ASSUME MemIInv, NEW u \in Threads, NEW n \in Requests, jut_malloc(u, n)
  PROVE  MemIInv'
<1>1. PICK a \in BlockAddresses \ DOMAIN blocks : Put(a, n, Account(u))
  BY DEF jut_malloc
<1>2. Adjust(u, n) /\ UNCHANGED <<tls_ctx, strayed>> /\ n \in Int
  BY RequestsAssumption DEF jut_malloc
<1>3. memused_max' \in [Threads -> UInt32]
  BY <1>2, AdjustFacts DEF jut_malloc, MemIInv, MemTypeOK
<1> QED BY <1>1, <1>2, <1>3, NewBlock

LEMMA ReallocNullInv ==
  ASSUME MemIInv, NEW u \in Threads, NEW n \in Requests, jut_reallocNull(u, n)
  PROVE  MemIInv'
<1>1. PICK a \in BlockAddresses \ DOMAIN blocks : Put(a, n, Account(u))
  BY DEF jut_reallocNull
<1>2. Adjust(u, n) /\ UNCHANGED <<tls_ctx, strayed>> /\ memused_max' \in [Threads -> UInt32]
  BY DEF jut_reallocNull, MemIInv, MemTypeOK
<1> QED BY <1>1, <1>2, NewBlock

LEMMA ReallocInv ==
  ASSUME MemIInv, NEW u \in Threads, NEW a \in BlockAddresses, NEW n \in Requests,
         jut_realloc(u, a, n)
  PROVE  MemIInv'
<1>1. /\ a \in DOMAIN blocks /\ Put(a, n, Account(u)) /\ Adjust(u, n - HeaderSize(a))
      /\ strayed' = strayed \cup Strays(u, a) /\ UNCHANGED <<tls_ctx, memused_max>>
  BY DEF jut_realloc
<1>2. /\ DOMAIN blocks' \subseteq BlockAddresses /\ IsFiniteSet(DOMAIN blocks')
      /\ Range(blocks') \subseteq Requests
      /\ counted' \in [DOMAIN blocks' -> Threads \cup {Nobody}]
      /\ \A t \in Threads : Sum(t)' = SumWithout(t, a) + (IF t = Account(u) THEN n ELSE 0)
  BY <1>1, AccountFacts, PutFacts
<1>3. n \in Int /\ blocks[a] \in Int /\ HeaderSize(a) \in Int
  BY <1>1, BlockSize, ModFacts, RequestsAssumption DEF HeaderSize, UInt32
<1>4. n - HeaderSize(a) \in Int
  BY <1>3
<1>5. MemTypeOK'
  BY <1>1, <1>2, <1>4, AdjustFacts, StraysFacts DEF MemIInv, MemTypeOK, UInt32
<1>6. ASSUME NEW t \in Threads \ strayed'
      PROVE  m_mem_used'[t] = Sum(t)' % Modulus
  <2>1. Sum(t) \in Int /\ SumWithout(t, a) \in Int
    BY SumOne
  <2>2. m_mem_used[t] = Sum(t) % Modulus
    BY <1>1, Exact
  <2>3. counted[a] = t <=> Account(u) = t
    BY <1>1, StraysFacts
  <2>4. CASE t = Account(u)
    <3>1. m_mem_used'[t] = ((Sum(t) % Modulus) + (n - (blocks[a] % Modulus))) % Modulus
      BY <1>1, <1>4, <2>2, <2>4, AdjustFacts DEF HeaderSize
    <3>2. Sum(t) = blocks[a] + SumWithout(t, a)
      BY <1>1, <2>3, <2>4, SumOne DEF PartOf
    <3>3. Sum(t)' = Sum(t) + n - blocks[a]
      BY <1>2, <1>3, <2>1, <2>4, <3>2
    <3>4. PICK x \in Int, z \in Int : x = Sum(t) /\ z = blocks[a]
      BY <1>3, <2>1
    <3>5. ((x % Modulus) + (n - (z % Modulus))) % Modulus = (x + n - z) % Modulus
      BY <1>3, ModSum
    <3> QED BY <3>1, <3>3, <3>4, <3>5
  <2>5. CASE t # Account(u)
    <3>1. m_mem_used'[t] = Sum(t) % Modulus
      BY <1>1, <1>4, <2>2, <2>5, AdjustFacts
    <3>2. Sum(t) = SumWithout(t, a)
      BY <2>3, <2>5, SumOne DEF PartOf
    <3>3. Sum(t)' = SumWithout(t, a) + 0
      BY <1>2, <2>5
    <3> QED BY <2>1, <3>1, <3>2, <3>3
  <2> QED BY <2>4, <2>5
<1>7. AccountExact'
  BY <1>6 DEF AccountExact, Sum, PartOf
<1> QED BY <1>2, <1>5, <1>7 DEF MemIInv

\* What takes a block out of its account without giving it to another: Sum
\* goes down by its size.
LEMMA TakenOff ==
  ASSUME MemIInv, NEW u \in Threads, NEW a \in DOMAIN blocks,
         Adjust(u, 0 - HeaderSize(a)), strayed' = strayed \cup Strays(u, a),
         \A t \in Threads : Sum(t)' = SumWithout(t, a)
  PROVE  /\ m_mem_used' \in [Threads -> UInt32] /\ strayed' \subseteq Threads
         /\ AccountExact'
<1>1. blocks[a] \in Int /\ HeaderSize(a) \in Int
  BY BlockSize, ModFacts DEF HeaderSize, UInt32
<1>2. 0 - HeaderSize(a) \in Int
  BY <1>1
<1>3. m_mem_used' \in [Threads -> UInt32] /\ strayed' \subseteq Threads
  BY <1>2, AdjustFacts, StraysFacts DEF MemIInv, MemTypeOK
<1>4. ASSUME NEW t \in Threads \ strayed'
      PROVE  m_mem_used'[t] = Sum(t)' % Modulus
  <2>1. Sum(t) \in Int /\ SumWithout(t, a) \in Int
    BY SumOne
  <2>2. m_mem_used[t] = Sum(t) % Modulus
    BY Exact
  <2>3. counted[a] = t <=> Account(u) = t
    BY StraysFacts
  <2>4. CASE t = Account(u)
    <3>1. m_mem_used'[t] = ((Sum(t) % Modulus) + (0 - (blocks[a] % Modulus))) % Modulus
      BY <1>2, <2>2, <2>4, AdjustFacts DEF HeaderSize
    <3>2. Sum(t) = blocks[a] + SumWithout(t, a)
      BY <2>3, <2>4, SumOne DEF PartOf
    <3>3. Sum(t)' = Sum(t) + 0 - blocks[a]
      BY <1>1, <2>1, <3>2
    <3>4. PICK x \in Int, z \in Int : x = Sum(t) /\ z = blocks[a]
      BY <1>1, <2>1
    <3>5. ((x % Modulus) + (0 - (z % Modulus))) % Modulus = (x + 0 - z) % Modulus
      BY 0 \in Int, ModSum
    <3> QED BY <3>1, <3>3, <3>4, <3>5
  <2>5. CASE t # Account(u)
    <3>1. m_mem_used'[t] = Sum(t) % Modulus
      BY <1>2, <2>2, <2>5, AdjustFacts
    <3>2. Sum(t) = SumWithout(t, a)
      BY <2>3, <2>5, SumOne DEF PartOf
    <3> QED BY <3>1, <3>2
  <2> QED BY <2>4, <2>5
<1>5. AccountExact'
  BY <1>4 DEF AccountExact, Sum, PartOf
<1> QED BY <1>3, <1>5

LEMMA ReallocFailsInv ==
  ASSUME MemIInv, NEW u \in Threads, NEW a \in BlockAddresses, jut_reallocFails(u, a)
  PROVE  MemIInv'
<1>1. /\ a \in DOMAIN blocks /\ Adjust(u, 0 - HeaderSize(a))
      /\ counted' = [counted EXCEPT ![a] = IF u \in tls_ctx THEN Nobody ELSE @]
      /\ strayed' = strayed \cup (IF u \in tls_ctx THEN Strays(u, a) ELSE {})
      /\ UNCHANGED <<tls_ctx, memused_max, blocks>>
  BY DEF jut_reallocFails
<1>2. CASE u \in tls_ctx
  <2>1. counted' = [counted EXCEPT ![a] = Nobody] /\ strayed' = strayed \cup Strays(u, a)
    BY <1>1, <1>2
  <2>2. counted' \in [DOMAIN blocks -> Threads \cup {Nobody}]
    BY <2>1 DEF MemIInv, MemTypeOK
  <2>3. ASSUME NEW t \in Threads PROVE Sum(t)' = SumWithout(t, a)
    <3>1. PartOf(t)' = PartOf(t) \ {a}
      BY <1>1, <2>1, NobodyAssumption DEF PartOf, MemIInv, MemTypeOK
    <3> QED BY <1>1, <3>1 DEF Sum, SumWithout
  <2>4. m_mem_used' \in [Threads -> UInt32] /\ strayed' \subseteq Threads /\ AccountExact'
    BY <1>1, <2>1, <2>3, TakenOff
  <2> QED BY <1>1, <2>2, <2>4 DEF MemIInv, MemTypeOK, UInt32
<1>3. CASE u \notin tls_ctx
  <2>1. counted' = counted /\ strayed' = strayed /\ m_mem_used' = m_mem_used
    BY <1>1, <1>3 DEF Adjust, MemIInv, MemTypeOK
  <2> QED BY <1>1, <2>1 DEF MemIInv, MemTypeOK, AccountExact, UInt32
<1> QED BY <1>2, <1>3

LEMMA FreeInv ==
  ASSUME MemIInv, NEW u \in Threads, NEW a \in BlockAddresses, jut_free(u, a)
  PROVE  MemIInv'
<1> DEFINE D == DOMAIN blocks \ {a}
<1>1. /\ a \in DOMAIN blocks /\ Adjust(u, 0 - HeaderSize(a))
      /\ blocks' = [b \in D |-> blocks[b]] /\ counted' = [b \in D |-> counted[b]]
      /\ strayed' = strayed \cup Strays(u, a)
      /\ UNCHANGED <<tls_ctx, memused_max>>
  BY DEF jut_free, Restrict
<1>2. DOMAIN blocks' = D /\ \A b \in D : blocks'[b] = blocks[b] /\ counted'[b] = counted[b]
  BY <1>1
<1>3. D \subseteq BlockAddresses /\ IsFiniteSet(D) /\ Range(blocks') \subseteq Requests
  BY <1>2, FS_Subset DEF MemIInv, MemTypeOK, Range
<1>4. counted' \in [D -> Threads \cup {Nobody}]
  BY <1>1, BlockSize
<1>5. ASSUME NEW t \in Threads PROVE Sum(t)' = SumWithout(t, a)
  <2>1. PartOf(t)' = PartOf(t) \ {a} /\ PartOf(t) \ {a} \subseteq D
    BY <1>2 DEF PartOf
  <2>2. IsFiniteSet(PartOf(t) \ {a})
    BY <1>3, <2>1, FS_Subset
  <2>3. SumFunctionOnSet(blocks', PartOf(t) \ {a}) = SumWithout(t, a)
    BY <1>2, <2>1, <2>2, SumSame DEF SumWithout
  <2> QED BY <2>1, <2>3 DEF Sum
<1>6. m_mem_used' \in [Threads -> UInt32] /\ strayed' \subseteq Threads /\ AccountExact'
  BY <1>1, <1>5, TakenOff
<1> QED BY <1>1, <1>2, <1>3, <1>4, <1>6 DEF MemIInv, MemTypeOK, UInt32

LEMMA MemInitInv == MemInit => MemIInv
<1> SUFFICES ASSUME MemInit PROVE MemIInv
  OBVIOUS
<1>1. DOMAIN blocks = {} /\ DOMAIN counted = {}
  BY DEF MemInit
<1>2. MemTypeOK
  BY <1>1, ModulusAssumption DEF MemInit, MemTypeOK, UInt32, Range
<1>3. \A t \in Threads : SumFunctionOnSet(blocks, {a \in DOMAIN blocks : counted[a] = t}) = 0
  BY <1>1, SumEmpty, {a \in DOMAIN blocks : FALSE} = {}
<1>4. 0 % Modulus = 0
  BY ModulusAssumption
<1>5. AccountExact
  BY <1>3, <1>4 DEF AccountExact, MemInit
<1> QED BY <1>1, <1>2, <1>5, FS_EmptySet DEF MemIInv

LEMMA MemStepInv == MemIInv /\ [MemNext]_memVars => MemIInv'
<1> SUFFICES ASSUME MemIInv, [MemNext]_memVars PROVE MemIInv'
  OBVIOUS
<1>1. CASE UNCHANGED memVars
  BY <1>1 DEF MemIInv, MemTypeOK, AccountExact, memVars, UInt32
<1>2. ASSUME NEW u \in Threads, SetCtx(u) PROVE MemIInv'
  BY <1>2, SetCtxInv
<1>3. ASSUME NEW u \in Threads, NEW n \in Requests, jut_malloc(u, n) PROVE MemIInv'
  BY <1>3, MallocInv
<1>4. ASSUME NEW u \in Threads, NEW n \in Requests, jut_reallocNull(u, n) PROVE MemIInv'
  BY <1>4, ReallocNullInv
<1>5. ASSUME NEW u \in Threads, NEW a \in BlockAddresses, jut_reallocFails(u, a) PROVE MemIInv'
  BY <1>5, ReallocFailsInv
<1>6. ASSUME NEW u \in Threads, NEW a \in BlockAddresses, jut_free(u, a) PROVE MemIInv'
  BY <1>6, FreeInv
<1>7. ASSUME NEW u \in Threads, NEW a \in BlockAddresses, NEW n \in Requests,
             jut_realloc(u, a, n)
      PROVE  MemIInv'
  BY <1>7, ReallocInv
<1> QED BY <1>1, <1>2, <1>3, <1>4, <1>5, <1>6, <1>7 DEF MemNext

\* The accounts stay 32-bit numbers and each block is part of at most one.
THEOREM MemTypeCorrect == MemSpec => []MemTypeOK
<1>1. MemIInv => MemTypeOK
  BY DEF MemIInv
<1> QED BY <1>1, MemInitInv, MemStepInv, PTL DEF MemSpec

\* m_mem_used is the sum of the sizes of its Decoder's blocks, in 32 bits, for
\* any heap, sizes and threads, through failing realloc calls, until a block
\* is freed or resized in another thread's account.
THEOREM AccountsAreExact == MemSpec => []AccountExact
<1>1. MemIInv => AccountExact
  BY DEF MemIInv
<1> QED BY <1>1, MemInitInv, MemStepInv, PTL DEF MemSpec
===============================================================================
