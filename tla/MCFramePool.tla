------------------------------ MODULE MCFramePool ------------------------------
(* Two frames and a bounded heap; one pixel format in two sizes, which need *)
(* different planes, and one with a single plane.                          *)
EXTENDS FramePool, TLC

CONSTANTS f1, f2, a1, a2, a3, a4, small, large, gray, yuv, none

MCFrames == {f1, f2}
MCAddresses == {a1, a2, a3, a4}
MCFormats == {small, large, gray}
MCPixelFormat == small :> yuv @@ large :> yuv @@ gray :> gray
MCPlaneSizes == small :> <<4, 1>> @@ large :> <<8, 2>> @@ gray :> <<4>>
Symmetry == Permutations(MCFrames) \cup Permutations(MCAddresses)
===============================================================================
