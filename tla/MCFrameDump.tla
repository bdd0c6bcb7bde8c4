------------------------------ MODULE MCFrameDump ------------------------------
(***************************************************************************)
(* A task's two files and the rest of the code on a table of a few         *)
(* descriptors; planes whose rows touch, are padded, or lie bottom up, and *)
(* two with as many rows as the counter has values; and one with two bytes *)
(* a pixel.                                                                *)
(***************************************************************************)
EXTENDS FrameDump

CONSTANTS f1, f2

MCFiles == {f1, f2}
MCOutputs == {f1}
MCDescriptors == 0..2
Picture(w, h, stride, pixel) ==
  [width |-> w, height |-> h, linesize |-> stride, pixel |-> pixel]
MCFrames == {Picture(2, 2, 2, 1), Picture(1, 4, 1, 1), Picture(2, 3, 4, 1),
             Picture(1, 2, -2, 1), Picture(1, 4, 2, 1), Picture(1, 2, 4, 2)}
===============================================================================
