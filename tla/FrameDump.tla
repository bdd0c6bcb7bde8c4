------------------------------- MODULE FrameDump -------------------------------
(***************************************************************************)
(* on_recv_frame: the luma plane of a picture goes to the MFile m_fdout of *)
(* its task, in one write if the rows touch, row by row otherwise.  Other  *)
(* tasks' threads and the rest of the code open and close files meanwhile. *)
(* A byte is known by its distance from the plane's first byte.  Formats   *)
(* with more than one pixel in a byte are left out.                        *)
(***************************************************************************)
EXTENDS MFile, Sequences

CONSTANTS Outputs, \* the objects that are some task's m_fdout
          Frames,  \* pictures: width, height, linesize (stride, maybe negative),
                   \* and the bytes their format gives a pixel of the plane
          Rows     \* 2^16: rows the counter of on_recv_frame can tell apart

ASSUME OutputsAssumption == Outputs \subseteq Files
ASSUME RowsAssumption == Rows \in Nat \ {0}
ASSUME FramesAssumption ==
  Frames \subseteq [width : Nat \ {0}, height : Nat \ {0}, linesize : Int,
                    pixel : Nat \ {0}]

VARIABLES pic,     \* the picture f's thread is dumping, or none
          i,       \* the row counter
          written, \* what went to the file since the dump began
          short    \* a write of this dump failed or was cut short

dumpVars == <<pic, i, written, short>>
taskVars == <<fileVars, dumpVars>>

NoFrame == [width |-> 0, height |-> 0, linesize |-> 0, pixel |-> 0]

\* n bytes from a place in the plane.
Bytes(from, n) == [k \in 1..n |-> from + k - 1]

DumpTypeOK == /\ FileTypeOK
              /\ pic \in [Outputs -> Frames \cup {NoFrame}]
              /\ i \in [Outputs -> 0..(Rows - 1)]
              /\ written \in [Outputs -> Seq(Int)]
              /\ short \in [Outputs -> BOOLEAN]

\* What write(2) does with the bytes; its result is not looked at.  After the
\* first write that is not complete, what is in the file is not followed, and a
\* dump that does not end only for one byte more than the plane has.
Write(f, bytes) ==
  \/ /\ written' = [written EXCEPT ![f] =
                      IF short[f] \/ Len(@) > pic[f].width * pic[f].height
                      THEN @ ELSE @ \o bytes]
     /\ UNCHANGED short
  \/ /\ short' = [short EXCEPT ![f] = TRUE]
     /\ written' = [written EXCEPT ![f] = <<>>]

\* Without an open file there is nothing to do.
Begin(f, p) == /\ f \in built /\ pic[f] = NoFrame /\ is_open(f)
               /\ pic' = [pic EXCEPT ![f] = p]
               /\ i' = [i EXCEPT ![f] = 0]
               /\ written' = [written EXCEPT ![f] = <<>>]
               /\ short' = [short EXCEPT ![f] = FALSE]
               /\ UNCHANGED fileVars

Touching(f) == pic[f].width = pic[f].linesize

\* The code takes a number of pixels for a number of bytes, here and in
\* WriteRow: it does not look at the format.
WritePlane(f) == /\ pic[f] # NoFrame /\ Touching(f) /\ written[f] = <<>> /\ ~short[f]
                 /\ Write(f, Bytes(0, pic[f].width * pic[f].height))
                 /\ UNCHANGED <<fileVars, pic, i>>

\* Mutant: the counter is a byte.
NextRowByte(r) == (r + 1) % (Rows \div 2)

NextRow(r) == (r + 1) % Rows

WriteRow(f) == /\ pic[f] # NoFrame /\ ~Touching(f) /\ i[f] < pic[f].height
               /\ Write(f, Bytes(i[f] * pic[f].linesize, pic[f].width))
               /\ i' = [i EXCEPT ![f] = NextRow(@)]
               /\ UNCHANGED <<fileVars, pic>>

Dumped(f) == /\ pic[f] # NoFrame
             /\ IF Touching(f) THEN written[f] # <<>> \/ short[f] ELSE i[f] >= pic[f].height

Return(f) == /\ Dumped(f)
             /\ pic' = [pic EXCEPT ![f] = NoFrame]
             /\ i' = [i EXCEPT ![f] = 0]
             /\ written' = [written EXCEPT ![f] = <<>>]
             /\ short' = [short EXCEPT ![f] = FALSE]
             /\ UNCHANGED fileVars

DumpInit == /\ FileInit
            /\ pic = [f \in Outputs |-> NoFrame]
            /\ i = [f \in Outputs |-> 0]
            /\ written = [f \in Outputs |-> <<>>]
            /\ short = [f \in Outputs |-> FALSE]

\* A thread makes no other use of its file during a dump.
DumpNext ==
  \/ \E f \in Outputs : \/ \E p \in Frames : Begin(f, p)
                        \/ WritePlane(f)
                        \/ WriteRow(f)
                        \/ Return(f)
  \/ \E f \in Files : /\ f \in Outputs => pic[f] = NoFrame
                      /\ Call(f)
                      /\ UNCHANGED dumpVars
  \/ /\ Elsewhere
     /\ UNCHANGED dumpVars

DumpSpec == DumpInit /\ [][DumpNext]_taskVars

(***************************************************************************)
(* Property.                                                               *)
(***************************************************************************)

PlaneSize(p) == p.height * p.width * p.pixel

\* While every write is complete, the file gets the first width bytes of each
\* row, row after row, without padding and whichever way the rows lie in
\* memory.  When on_recv_frame returns that is the luma plane if a pixel has
\* one byte, and not all of it otherwise.  Where rows are counted and there
\* are more than the counter can tell apart, it does not return.
DumpIsLuma ==
  \A f \in Outputs :
    LET p == pic[f]
    IN  p # NoFrame /\ ~short[f] =>
          IF Touching(f) \/ p.height < Rows
          THEN /\ \A row \in 0..(p.height - 1), col \in 0..(p.width - 1) :
                    LET n == row * p.width + col + 1
                    IN  n <= Len(written[f]) => written[f][n] = row * p.linesize + col
               /\ Len(written[f]) <= p.height * p.width
               /\ Dumped(f) => /\ Len(written[f]) = p.height * p.width
                               /\ Len(written[f]) = PlaneSize(p) <=> p.pixel = 1
          ELSE ~Dumped(f)
=================================================================================
