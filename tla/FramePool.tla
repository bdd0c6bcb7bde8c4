------------------------------- MODULE FramePool -------------------------------
(***************************************************************************)
(* The picture memory Decoder gives to libavcodec: lavc_GetFrame allocates *)
(* the planes of a frame, each under a reference-counted buffer, and       *)
(* lavc_ReleaseFrame frees a plane when its last reference goes.  The sizes *)
(* of the planes are kept from one frame to the next of the same format.   *)
(*                                                                         *)
(* The callback runs on the thread that decodes, so nothing interleaves    *)
(* with it, but every allocation in its loop may fail.                     *)
(***************************************************************************)
EXTENDS Integers, Sequences, Functions

CONSTANTS Frames,      \* AVFrames
          Addresses,   \* what memalign may return
          Formats,     \* pixel format and dimensions of a frame
          PixelFormat, \* the pixel format of each of them
          PlaneSizes,  \* the sizes of its planes, first to last
          NoFormat     \* format of a pool that was never filled

ASSUME FormatsAssumption ==
  /\ NoFormat \notin Formats
  /\ PlaneSizes \in [Formats -> Seq(Nat \ {0})]

VARIABLES format,  \* FramePool's format, width and height
          size,    \* DecoderImpl::size
          frame,   \* the format libavcodec wants or wanted each frame in
          buf,     \* the planes each frame has a reference to
          heap,    \* the allocated planes and their sizes
          current, \* the frames whose callback runs: none or one
          i        \* lavc_GetFrame's i while it allocates, counted from 1;
                   \* 0 when it gives up

vars == <<format, size, frame, buf, heap, current, i>>

Sizes == Seq(Nat \ {0})

TypeOK == /\ format \in Formats \cup {NoFormat}
          /\ size \in Sizes
          /\ frame \in [Frames -> Formats]
          /\ buf \in [Frames -> Seq(Addresses)]
          /\ DOMAIN heap \subseteq Addresses
          /\ Range(heap) \subseteq Nat \ {0}
          /\ current = {} \/ \E f \in Frames : current = {f}
          /\ i \in 0..(Len(size) + 1)

Allocated(a, n) == [b \in DOMAIN heap \cup {a} |-> IF b = a THEN n ELSE heap[b]]
Freed(planes) == Restrict(heap, DOMAIN heap \ planes)

\* The planes that only f refers to: one whose buffer loses f's reference is
\* handed to lavc_ReleaseFrame.
OnlyOf(f) == Range(buf[f]) \ UNION {Range(buf[g]) : g \in Frames \ {f}}

\* Mutant: only the pixel format is compared.
PoolMatchesByFormat(wanted) ==
  format # NoFormat /\ PixelFormat[format] = PixelFormat[wanted]

PoolMatches(wanted) == format = wanted

(***************************************************************************)
(* The callback.                                                           *)
(***************************************************************************)

\* Mutant: i goes on from where the last call left it.
EnterLoopStale(f) == current' = {f} /\ UNCHANGED i

EnterLoop(f) == current' = {f} /\ i' = 1

\* libavcodec asks for a frame of some format.  Formats the library has no
\* layout for, and codecs that are not video, leave everything as it was.
update_frame_pool(f, wanted) ==
  /\ current = {} /\ buf[f] = <<>>
  /\ frame' = [frame EXCEPT ![f] = wanted]
  /\ \/ /\ PoolMatches(wanted)
        /\ EnterLoop(f)
        /\ UNCHANGED <<format, size>>
     \/ /\ ~PoolMatches(wanted)
        /\ format' = wanted /\ size' = PlaneSizes[wanted]
        /\ EnterLoop(f)
     \/ /\ ~PoolMatches(wanted)
        /\ UNCHANGED <<format, size, current, i>>
  /\ UNCHANGED <<buf, heap>>

\* One plane: memalign and av_buffer_create.
AllocPlane(f) == /\ current = {f} /\ i \in 1..Len(size)
                 /\ \E a \in Addresses \ DOMAIN heap :
                      /\ heap' = Allocated(a, size[i])
                      /\ buf' = [buf EXCEPT ![f] = Append(@, a)]
                 /\ i' = i + 1
                 /\ UNCHANGED <<format, size, frame, current>>

NoMemory(f) == /\ current = {f} /\ i \in 1..Len(size)
               /\ i' = 0
               /\ UNCHANGED <<format, size, frame, buf, heap, current>>

\* No buffer for the plane: nobody frees the plane.
NoBuffer(f) == /\ current = {f} /\ i \in 1..Len(size)
               /\ \E a \in Addresses \ DOMAIN heap : heap' = Allocated(a, size[i])
               /\ i' = 0
               /\ UNCHANGED <<format, size, frame, buf, current>>

\* The planes allocated before the failure go, last first.
UndoPlane(f) == /\ current = {f} /\ i = 0 /\ buf[f] # <<>>
                /\ heap' = Freed({buf[f][Len(buf[f])]})
                /\ buf' = [buf EXCEPT ![f] = SubSeq(@, 1, Len(@) - 1)]
                /\ UNCHANGED <<format, size, frame, current, i>>

\* The callback returns, with every plane or with none.
lavc_GetFrame(f) == /\ current = {f}
                    /\ i = Len(size) + 1 \/ (i = 0 /\ buf[f] = <<>>)
                    /\ current' = {}
                    /\ UNCHANGED <<format, size, frame, buf, heap, i>>

(***************************************************************************)
(* The users of frames: libavcodec keeps references, DecoderImpl::decode   *)
(* gives back what it received.                                            *)
(***************************************************************************)

Ref(f, g) == /\ current = {} /\ buf[f] # <<>> /\ buf[g] = <<>>
             /\ buf' = [buf EXCEPT ![g] = buf[f]]
             /\ frame' = [frame EXCEPT ![g] = frame[f]]
             /\ UNCHANGED <<format, size, heap, current, i>>

\* Mutant: the memory goes with the first reference.
lavc_ReleaseFrameEarly(f) == heap' = Freed(Range(buf[f]))

\* Mutant: only the buffer is freed, not the plane.
lavc_ReleaseFrameNothing(f) == UNCHANGED heap

lavc_ReleaseFrame(f) == heap' = Freed(OnlyOf(f))

Unref(f) == /\ current = {} /\ buf[f] # <<>>
            /\ lavc_ReleaseFrame(f)
            /\ buf' = [buf EXCEPT ![f] = <<>>]
            /\ UNCHANGED <<format, size, frame, current, i>>

\* A Decoder that is released and opened again has a new codec context, the
\* pool with it, and the sizes it had.  Frames may still be in use.
Reopen == /\ current = {} /\ format # NoFormat
          /\ format' = NoFormat
          /\ UNCHANGED <<size, frame, buf, heap, current, i>>

\* DecoderImpl's constructor leaves the sizes as the memory had them.
Init == /\ format = NoFormat
        /\ size \in {<<>>} \cup Range(PlaneSizes)
        /\ frame \in [Frames -> Formats]
        /\ buf = [f \in Frames |-> <<>>]
        /\ heap = <<>>
        /\ current = {} /\ i = 1

Next == \/ \E f \in Frames :
             \/ AllocPlane(f) \/ NoMemory(f) \/ NoBuffer(f) \/ UndoPlane(f)
             \/ lavc_GetFrame(f) \/ Unref(f)
             \/ \E wanted \in Formats : update_frame_pool(f, wanted)
             \/ \E g \in Frames : Ref(f, g)
        \/ Reopen

Spec == Init /\ [][Next]_vars

(***************************************************************************)
(* Properties.                                                             *)
(***************************************************************************)

\* A frame nobody is filling has no plane, or one of the right size for each
\* plane of its own format, whatever formats came before and whatever failed.
PlanesFit ==
  \A f \in Frames \ current :
    \/ buf[f] = <<>>
    \/ /\ Len(buf[f]) = Len(PlaneSizes[frame[f]])
       /\ \A k \in DOMAIN buf[f] : /\ buf[f][k] \in DOMAIN heap
                                   /\ heap[buf[f][k]] = PlaneSizes[frame[f]][k]

\* A plane somebody refers to is allocated, and two planes of a frame are
\* never the same memory: none is freed early or twice.
NoPlaneFreedEarly ==
  \A f \in Frames : Range(buf[f]) \subseteq DOMAIN heap /\ IsInjective(buf[f])

\* Planes that are allocated and that no frame leads to.
Lost == DOMAIN heap \ UNION {Range(buf[f]) : f \in Frames}

\* Memory is lost only when a plane gets no buffer, and then one plane: what
\* was allocated before it is given back.
LosesOnePlane ==
  [][Lost' # Lost => /\ \E f \in Frames : NoBuffer(f)
                     /\ \E a \in Addresses \ Lost : Lost' = Lost \cup {a}]_vars
===============================================================================
