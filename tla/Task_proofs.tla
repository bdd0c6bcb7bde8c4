------------------------------- MODULE Task_proofs -------------------------------
(***************************************************************************)
(* Theorems about what becomes a task and what it writes: MFile, for any   *)
(* number of objects and descriptors, FrameDump, for pictures of any size  *)
(* and stride, and Startup, for any command line, directory and set of     *)
(* cores.                                                                  *)
(***************************************************************************)
EXTENDS FrameDump, Startup, TLAPS

(***************************************************************************)
(* MFile.                                                                  *)
(*                                                                         *)
(* OpenIsOwned and LeaksExplained together are inductive with the types:   *)
(* that a descriptor open(2) gives to one object was free excludes every   *)
(* other object that would still point to it, and that an object points to *)
(* a descriptor of its own when it closes it excludes every other holder.  *)
(***************************************************************************)

IInv == FileTypeOK /\ OpenIsOwned /\ LeaksExplained

LEMMA InitInv == FileInit => IInv
  BY FilesAssumption DEF FileInit, IInv, FileTypeOK, OpenIsOwned, LeaksExplained

LEMMA CtorDefaultInv ==
  ASSUME NEW f \in Files, IInv, CtorDefault(f)
  PROVE  IInv'
<1>1. FileTypeOK'
  BY DEF IInv, FileTypeOK, CtorDefault
<1>2. OpenIsOwned'
  BY DescriptorsAssumption DEF IInv, FileTypeOK, OpenIsOwned, is_open, CtorDefault
<1>3. LeaksExplained'
  BY DEF IInv, FileTypeOK, LeaksExplained, CtorDefault
<1> QED BY <1>1, <1>2, <1>3 DEF IInv

LEMMA CtorNamedInv ==
  ASSUME NEW f \in Files, IInv, CtorNamed(f)
  PROVE  IInv'
<1>1. FileTypeOK'
  BY DEF IInv, FileTypeOK, CtorNamed
<1>2. OpenIsOwned'
  BY DEF IInv, FileTypeOK, OpenIsOwned, is_open, CtorNamed
<1>3. LeaksExplained'
  BY DEF IInv, FileTypeOK, LeaksExplained, CtorNamed
<1> QED BY <1>1, <1>2, <1>3 DEF IInv

\* The descriptor of a new file was free, so no object that is open had it.
LEMMA CreateInv ==
  ASSUME NEW f \in Files, IInv, create(f)
  PROVE  IInv'
<1>1. PICK d \in Lowest : holder' = [holder EXCEPT ![d] = f] /\ Assign(f, d)
  BY DEF create
<1>2. d \in Descriptors /\ holder[d] = Free /\ d \in Int /\ d >= 0
  BY DescriptorsAssumption DEF Lowest
<1>3. FileTypeOK'
  BY <1>1, <1>2 DEF IInv, FileTypeOK, create, Assign
<1>4. OpenIsOwned'
  BY <1>1, <1>2, FilesAssumption DEF IInv, FileTypeOK, OpenIsOwned, is_open, create, Assign
<1>5. LeaksExplained'
  <2> SUFFICES ASSUME ~astray, NEW e \in Descriptors, NEW g \in Files, holder'[e] = g
               PROVE  (g \in built /\ m_fd'[g] = e) \/ e = 0 \/ e \in lost'
    BY DEF LeaksExplained, create
  <2>1. CASE e = d
    BY <2>1, <1>1, <1>2 DEF IInv, FileTypeOK, create, Assign
  <2>2. CASE e # d
    BY <2>2, <1>1, <1>2 DEF IInv, FileTypeOK, LeaksExplained, create, Assign
  <2> QED BY <2>1, <2>2
<1> QED BY <1>3, <1>4, <1>5 DEF IInv

LEMMA OpenUnseekableInv ==
  ASSUME NEW f \in Files, IInv, openUnseekable(f)
  PROVE  IInv'
<1>1. PICK d \in Lowest : holder' = [holder EXCEPT ![d] = f] /\ lost' = lost \cup {d}
  BY DEF openUnseekable
<1>2. d \in Descriptors /\ holder[d] = Free /\ d \in Int /\ d >= 0
  BY DescriptorsAssumption DEF Lowest
<1>3. FileTypeOK'
  BY <1>1, <1>2 DEF IInv, FileTypeOK, openUnseekable
<1>4. OpenIsOwned'
  BY <1>1, <1>2, FilesAssumption DEF IInv, FileTypeOK, OpenIsOwned, is_open, openUnseekable
<1>5. LeaksExplained'
  BY <1>1, <1>2 DEF IInv, FileTypeOK, LeaksExplained, openUnseekable
<1> QED BY <1>3, <1>4, <1>5 DEF IInv

\* An object whose m_fd was assigned closes a descriptor of its own, which no
\* other object points to.  What is left of a destroyed object that had
\* nothing to close can only be descriptor 0.
LEMMA CloseInv ==
  ASSUME NEW f \in Files, f \in built, IInv, Close(f),
         built' = built \/ built' = built \ {f}
  PROVE  IInv'
<1>1. CASE m_fd[f] > 0
  <2>1. /\ m_fd[f] \in Descriptors
        /\ holder' = [holder EXCEPT ![m_fd[f]] = Free]
        /\ lost' = lost \ {m_fd[f]}
        /\ astray' = (astray \/ f \notin known)
        /\ m_fd' = [m_fd EXCEPT ![f] = -1]
        /\ known' = known \cup {f}
    BY <1>1 DEF IInv, FileTypeOK, Close
  <2>2. FileTypeOK'
    BY <2>1 DEF IInv, FileTypeOK
  <2>3. ASSUME ~astray' PROVE ~astray /\ f \in known /\ holder[m_fd[f]] = f
    <3>1. ~astray /\ f \in known
      BY <2>1, <2>3
    <3>2. is_open(f)
      <4>1. m_fd[f] \in Nat
        BY <2>1, DescriptorsAssumption
      <4> QED BY <4>1 DEF is_open
    <3>3. OpenIsOwned /\ f \in built
      BY DEF IInv
    <3>4. \A g \in built \cap known : is_open(g) => holder[m_fd[g]] = g
      BY <3>1, <3>3 DEF OpenIsOwned
    <3> QED BY <3>1, <3>2, <3>3, <3>4
  <2>4. OpenIsOwned'
    <3> SUFFICES ASSUME ~astray', NEW g \in built', g \in known', is_open(g)'
                 PROVE  (holder[m_fd[g]] = g)'
      BY DEF OpenIsOwned
    <3>1. g # f /\ g \in Files /\ m_fd'[g] = m_fd[g] /\ m_fd[g] >= 0
      BY <2>1 DEF IInv, FileTypeOK, is_open
    <3>2. holder[m_fd[g]] = g /\ m_fd[g] \in Descriptors
      BY <2>1, <2>3, <3>1, DescriptorsAssumption DEF IInv, FileTypeOK, OpenIsOwned, is_open
    <3>3. m_fd[g] # m_fd[f]
      BY <2>3, <3>1, <3>2
    <3> QED BY <2>1, <3>1, <3>2, <3>3 DEF IInv, FileTypeOK
  <2>5. LeaksExplained'
    <3> SUFFICES ASSUME ~astray', NEW d \in Descriptors, NEW g \in Files, holder'[d] = g
                 PROVE  (g \in built' /\ m_fd'[g] = d) \/ d = 0 \/ d \in lost'
      BY DEF LeaksExplained
    <3>1. d # m_fd[f] /\ holder[d] = g
      BY <2>1, FilesAssumption DEF IInv, FileTypeOK
    <3>2. (g \in built /\ m_fd[g] = d) \/ d = 0 \/ d \in lost
      BY <2>3, <3>1 DEF IInv, LeaksExplained
    <3>3. CASE g = f
      BY <2>1, <3>1, <3>2, <3>3
    <3>4. CASE g # f
      BY <2>1, <3>1, <3>2, <3>4 DEF IInv, FileTypeOK
    <3> QED BY <3>3, <3>4
  <2> QED BY <2>2, <2>4, <2>5 DEF IInv
<1>2. CASE ~(m_fd[f] > 0)
  <2>1. UNCHANGED <<m_fd, holder, known, lost, astray>>
    BY <1>2 DEF Close
  <2>2. FileTypeOK' /\ OpenIsOwned'
    BY <2>1 DEF IInv, FileTypeOK, OpenIsOwned, is_open
  <2>3. ASSUME NEW d \in Descriptors, m_fd[f] = d PROVE d = 0
    BY <1>2, <2>3, DescriptorsAssumption
  <2>4. LeaksExplained'
    <3> SUFFICES ASSUME ~astray, NEW d \in Descriptors, NEW g \in Files, holder[d] = g
                 PROVE  (g \in built' /\ m_fd[g] = d) \/ d = 0 \/ d \in lost
      BY <2>1 DEF LeaksExplained
    <3>1. (g \in built /\ m_fd[g] = d) \/ d = 0 \/ d \in lost
      BY DEF IInv, LeaksExplained
    <3> QED BY <2>3, <3>1
  <2> QED BY <2>2, <2>4 DEF IInv
<1> QED BY <1>1, <1>2

LEMMA ElsewhereInv == IInv /\ Elsewhere => IInv'
<1> SUFFICES ASSUME IInv, Elsewhere PROVE IInv'
  OBVIOUS
<1> USE FilesAssumption
<1>1. PICK d \in Descriptors, who \in {Other, Free} :
        /\ holder[d] \in {Other, Free}
        /\ holder' = [holder EXCEPT ![d] = who]
        /\ UNCHANGED <<built, m_fd, known, lost, astray>>
  BY DEF Elsewhere, OtherOpens, OtherCloses, Lowest
<1>2. FileTypeOK'
  BY <1>1 DEF IInv, FileTypeOK
<1>3. OpenIsOwned'
  BY <1>1 DEF IInv, FileTypeOK, OpenIsOwned, is_open
<1>4. LeaksExplained'
  BY <1>1 DEF IInv, FileTypeOK, LeaksExplained
<1> QED BY <1>2, <1>3, <1>4 DEF IInv

LEMMA StepInv == IInv /\ [FileNext]_fileVars => IInv'
<1> SUFFICES ASSUME IInv, [FileNext]_fileVars PROVE IInv'
  OBVIOUS
<1>1. ASSUME NEW f \in Files, Call(f) PROVE IInv'
  <2>1. CASE CtorDefault(f) BY <2>1, CtorDefaultInv
  <2>2. CASE CtorNamed(f) BY <2>2, CtorNamedInv
  <2>3. CASE create(f) BY <2>3, CreateInv
  <2>4. CASE openUnseekable(f) BY <2>4, OpenUnseekableInv
  <2>5. CASE close(f) BY <2>5, CloseInv DEF close
  <2>6. CASE Dtor(f) BY <2>6, CloseInv DEF Dtor
  <2> QED BY <1>1, <2>1, <2>2, <2>3, <2>4, <2>5, <2>6 DEF Call
<1>2. CASE Elsewhere
  BY <1>2, ElsewhereInv
<1>3. CASE UNCHANGED fileVars
  BY <1>3 DEF IInv, FileTypeOK, OpenIsOwned, LeaksExplained, is_open, fileVars
<1> QED BY <1>1, <1>2, <1>3 DEF FileNext

\* MFile::open, create, close and the destructor, with the rest of the process:
\* the objects and the table of descriptors keep their types.
THEOREM FileTypeCorrect == FileSpec => []FileTypeOK
<1>1. IInv => FileTypeOK
  BY DEF IInv
<1> QED BY <1>1, InitInv, StepInv, PTL DEF FileSpec

\* MFile::read and write through an open object whose m_fd the code has set
\* reach the file that object opened, until an object is closed whose m_fd it
\* had not set, for any number of objects and descriptors.
THEOREM OpenFilesAreOwned == FileSpec => []OpenIsOwned
<1>1. IInv => OpenIsOwned
  BY DEF IInv
<1> QED BY <1>1, InitInv, StepInv, PTL DEF FileSpec

\* MFile::close and the destructor leave no descriptor open but the three
\* kinds LeaksExplained names.
THEOREM NoOtherLeak == FileSpec => []LeaksExplained
<1>1. IInv => LeaksExplained
  BY DEF IInv
<1> QED BY <1>1, InitInv, StepInv, PTL DEF FileSpec

-------------------------------------------------------------------------------
(***************************************************************************)
(* The dump of a picture.                                                  *)
(***************************************************************************)

(* Where the bytes in the file come from, w of each of h rows, l apart.    *)
Pixels(w, h, l, s) ==
  \A row \in 0..(h - 1), col \in 0..(w - 1) :
    LET n == row * w + col + 1
    IN  n <= Len(s) => s[n] = row * l + col

(* A plane is written at once or not at all; row by row, the counter says  *)
(* how much of it is in the file.                                          *)
Progress(f) ==
  pic[f] # NoFrame /\ ~short[f] /\ (Touching(f) \/ pic[f].height < Rows) =>
    /\ Pixels(pic[f].width, pic[f].height, pic[f].linesize, written[f])
    /\ IF Touching(f) THEN \/ written[f] = <<>>
                           \/ Len(written[f]) = pic[f].height * pic[f].width
       ELSE i[f] <= pic[f].height /\ Len(written[f]) = i[f] * pic[f].width

DumpOK == /\ pic \in [Outputs -> Frames \cup {NoFrame}]
          /\ i \in [Outputs -> 0..(Rows - 1)]
          /\ written \in [Outputs -> Seq(Int)]
          /\ short \in [Outputs -> BOOLEAN]
          /\ \A f \in Outputs : Progress(f)

LEMMA Products ==
  ASSUME NEW a \in Int, NEW b \in Int, NEW w \in Nat
  PROVE  /\ a * w \in Int /\ (a + 1) * w = a * w + w /\ a * w = w * a
         /\ a <= b => a * w <= b * w
         /\ a >= 0 => a * w >= 0
OBVIOUS

LEMMA FrameFacts ==
  ASSUME NEW p \in Frames \cup {NoFrame}
  PROVE  /\ p.width \in Nat /\ p.height \in Nat /\ p.linesize \in Int
         /\ p.width * p.height \in Nat /\ p.width * p.height = p.height * p.width
         /\ p # NoFrame => p.width > 0 /\ p.height > 0
         /\ p # NoFrame => p.pixel \in Nat \ {0}
<1>1. p.width \in Nat /\ p.height \in Nat /\ p.linesize \in Int
  BY FramesAssumption DEF NoFrame
<1>2. p # NoFrame => p.width > 0 /\ p.height > 0 /\ p.pixel \in Nat \ {0}
  BY FramesAssumption
<1>3. \A w, h \in Nat : w * h \in Nat /\ w * h = h * w
  OBVIOUS
<1> QED BY <1>1, <1>2, <1>3

LEMMA BytesFacts ==
  ASSUME NEW from \in Int, NEW n \in Nat
  PROVE  /\ Bytes(from, n) \in Seq(Int) /\ Len(Bytes(from, n)) = n
         /\ \A k \in 1..n : Bytes(from, n)[k] = from + k - 1
BY DEF Bytes

LEMMA ConcatFacts ==
  ASSUME NEW s \in Seq(Int), NEW b \in Seq(Int)
  PROVE  /\ s \o b \in Seq(Int) /\ Len(s \o b) = Len(s) + Len(b)
         /\ \A n \in 1..(Len(s) + Len(b)) :
              (s \o b)[n] = IF n <= Len(s) THEN s[n] ELSE b[n - Len(s)]
OBVIOUS

\* The place of a pixel in the file.
LEMMA Places ==
  ASSUME NEW w \in Nat, NEW h \in Nat, NEW row \in 0..(h - 1), NEW col \in 0..(w - 1)
  PROVE  \E m \in Nat : m = row * w /\ (row + 1) * w = m + w /\ col < w
                        /\ row * w + col + 1 = m + col + 1
<1>1. row \in Int /\ row >= 0
  OBVIOUS
<1>2. row * w \in Nat /\ (row + 1) * w = row * w + w
  BY <1>1, Products
<1> QED BY <1>2

\* Nothing is written yet.
LEMMA NoPixels ==
  ASSUME NEW w \in Nat, NEW h \in Nat, NEW l \in Int
  PROVE  Pixels(w, h, l, <<>>)
<1> SUFFICES ASSUME NEW row \in 0..(h - 1), NEW col \in 0..(w - 1),
                    row * w + col + 1 <= 0
             PROVE  FALSE
  BY DEF Pixels
<1>1. PICK m \in Nat : m = row * w
  BY Places
<1>2. m + col + 1 <= 0
  BY <1>1
<1> QED BY <1>2

\* The rows lie one behind the other in memory as they do in the file.
LEMMA PlaneIsPixels ==
  ASSUME NEW w \in Nat, NEW h \in Nat
  PROVE  Pixels(w, h, w, Bytes(0, w * h))
<1> SUFFICES ASSUME NEW row \in 0..(h - 1), NEW col \in 0..(w - 1),
                    row * w + col + 1 <= Len(Bytes(0, w * h))
             PROVE  Bytes(0, w * h)[row * w + col + 1] = row * w + col
  BY DEF Pixels
<1>1. PICK m \in Nat : m = row * w
  BY Places
<1>2. PICK n \in Nat : n = w * h
  OBVIOUS
<1>3. m + col + 1 \in 1..n
  <2>1. m + col + 1 <= Len(Bytes(0, n))
    BY <1>1, <1>2
  <2>2. Len(Bytes(0, n)) = n
    BY BytesFacts
  <2> QED BY <2>1, <2>2
<1>4. Bytes(0, n)[m + col + 1] = 0 + (m + col + 1) - 1
  BY <1>3, BytesFacts
<1>5. Bytes(0, n)[m + col + 1] = m + col
  BY <1>4
<1> QED BY <1>1, <1>2, <1>5

\* The next row goes behind those before it.
LEMMA RowIsPixels ==
  ASSUME NEW w \in Nat, NEW h \in Nat, NEW l \in Int, NEW s \in Seq(Int), NEW r \in Nat,
         Pixels(w, h, l, s), Len(s) = r * w
  PROVE  /\ Pixels(w, h, l, s \o Bytes(r * l, w))
         /\ Len(s \o Bytes(r * l, w)) = (r + 1) * w
<1>1. PICK x \in Int : x = r * l
  OBVIOUS
<1>2. PICK y \in Nat : y = r * w
  BY Products
<1>3. (r + 1) * w = y + w
  BY <1>2, Products
<1> DEFINE b == Bytes(x, w)
<1>4. b \in Seq(Int) /\ Len(b) = w /\ \A k \in 1..w : b[k] = x + k - 1
  BY BytesFacts
<1> HIDE DEF b
<1> DEFINE t == s \o b
<1>5. Len(t) = y + w /\ \A n \in 1..(y + w) : t[n] = IF n <= y THEN s[n] ELSE b[n - y]
  <2>1. Len(s) = y
    BY <1>2
  <2> QED BY <1>4, <2>1, ConcatFacts
<1> HIDE DEF t
<1>6. ASSUME NEW row \in 0..(h - 1), NEW col \in 0..(w - 1),
             row * w + col + 1 <= Len(t)
      PROVE  t[row * w + col + 1] = row * l + col
  <2>1. PICK m \in Nat : m = row * w /\ (row + 1) * w = m + w
    BY Places
  <2> DEFINE n == m + col + 1
  <2>2. n \in 1..(y + w)
    <3>1. m + col + 1 <= Len(t)
      BY <1>6, <2>1
    <3> QED BY <1>5, <3>1
  <2>3. CASE n <= y
    <3>1. row * w + col + 1 <= Len(s)
      BY <1>2, <2>1, <2>3
    <3>2. s[row * w + col + 1] = row * l + col
      BY <3>1 DEF Pixels
    <3> QED BY <1>5, <2>1, <2>2, <2>3, <3>2
  <2>4. CASE n > y
    <3>1. ~(row < r)
      <4>1. row < r => (row + 1) * w <= r * w
        BY Products
      <4>2. row < r => m + w <= y
        BY <1>2, <2>1, <4>1
      <4> QED BY <2>4, <4>2
    <3>2. ~(row > r)
      <4>1. row > r => (r + 1) * w <= row * w
        BY Products
      <4>2. row > r => y + w <= m
        BY <1>3, <2>1, <4>1
      <4> QED BY <2>2, <4>2
    <3>3. row = r
      BY <3>1, <3>2
    <3>4. m = y /\ row * l = x
      BY <1>1, <1>2, <2>1, <3>3
    <3>5. t[n] = b[col + 1]
      BY <1>5, <2>2, <2>4, <3>4
    <3>6. b[col + 1] = x + (col + 1) - 1
      BY <1>4
    <3>7. t[n] = x + col
      BY <3>5, <3>6
    <3> QED BY <2>1, <3>4, <3>7
  <2> QED BY <2>3, <2>4
<1>7. Pixels(w, h, l, t)
  BY <1>6 DEF Pixels
<1> QED BY <1>1, <1>3, <1>5, <1>7 DEF b, t

LEMMA WriteTypes ==
  ASSUME DumpOK, NEW f \in Outputs, NEW bytes \in Seq(Int), Write(f, bytes)
  PROVE  /\ written' \in [Outputs -> Seq(Int)] /\ short' \in [Outputs -> BOOLEAN]
         /\ \A g \in Outputs \ {f} : written'[g] = written[g] /\ short'[g] = short[g]
         /\ ~short'[f] => /\ ~short[f]
                          /\ written'[f] = IF Len(written[f]) > pic[f].width * pic[f].height
                                           THEN written[f] ELSE written[f] \o bytes
<1>1. written[f] \in Seq(Int) /\ <<>> \in Seq(Int) /\ written[f] \o bytes \in Seq(Int)
  BY ConcatFacts DEF DumpOK
<1> QED BY <1>1 DEF DumpOK, Write

\* What concerns one dump leaves the others alone.
LEMMA OneDump ==
  ASSUME DumpOK, NEW f \in Outputs,
         \A g \in Outputs \ {f} : /\ pic'[g] = pic[g] /\ i'[g] = i[g]
                                  /\ written'[g] = written[g] /\ short'[g] = short[g],
         Progress(f)'
  PROVE  \A g \in Outputs : Progress(g)'
BY DEF DumpOK, Progress, Touching

\* Begin and Return.
LEMMA FreshDump ==
  ASSUME DumpOK, NEW f \in Outputs, NEW p \in Frames \cup {NoFrame},
         pic' = [pic EXCEPT ![f] = p], i' = [i EXCEPT ![f] = 0],
         written' = [written EXCEPT ![f] = <<>>], short' = [short EXCEPT ![f] = FALSE]
  PROVE  DumpOK'
<1>1. /\ pic' \in [Outputs -> Frames \cup {NoFrame}] /\ i' \in [Outputs -> 0..(Rows - 1)]
      /\ written' \in [Outputs -> Seq(Int)] /\ short' \in [Outputs -> BOOLEAN]
  BY RowsAssumption DEF DumpOK
<1>2. Progress(f)'
  <2>1. pic'[f] = p /\ i'[f] = 0 /\ written'[f] = <<>>
    BY DEF DumpOK
  <2>2. p.width \in Nat /\ p.height \in Nat /\ p.linesize \in Int
    BY FrameFacts
  <2>3. Pixels(p.width, p.height, p.linesize, <<>>)
    BY <2>2, NoPixels
  <2>4. Len(<<>>) = 0 /\ 0 * p.width = 0 /\ 0 <= p.height
    BY <2>2
  <2> QED BY <2>1, <2>3, <2>4 DEF Progress, Touching
<1> QED BY <1>1, <1>2, OneDump DEF DumpOK

LEMMA WritePlaneOK ==
  ASSUME DumpOK, NEW f \in Outputs, WritePlane(f)
  PROVE  DumpOK'
<1> DEFINE p == pic[f]
           plane == Bytes(0, p.width * p.height)
<1>1. /\ p \in Frames /\ p.width = p.linesize /\ written[f] = <<>> /\ Write(f, plane)
      /\ UNCHANGED <<pic, i>>
  BY DEF DumpOK, WritePlane, Touching
<1>2. PICK w \in Nat, h \in Nat : w = p.width /\ h = p.height /\ w = p.linesize
  BY <1>1, FrameFacts
<1>3. PICK n \in Nat : n = w * h /\ n = h * w
  BY <1>1, <1>2, FrameFacts
<1>4. plane = Bytes(0, n) /\ plane = Bytes(0, w * h)
  BY <1>2, <1>3
<1>5. plane \in Seq(Int) /\ Len(plane) = n
  BY <1>4, BytesFacts
<1> HIDE DEF plane
<1>6. /\ written' \in [Outputs -> Seq(Int)] /\ short' \in [Outputs -> BOOLEAN]
      /\ \A g \in Outputs \ {f} : written'[g] = written[g] /\ short'[g] = short[g]
  BY <1>1, <1>5, WriteTypes
<1>7. ASSUME ~short'[f] PROVE written'[f] = plane
  <2>1. written'[f] = IF 0 > n THEN <<>> ELSE <<>> \o plane
    BY <1>1, <1>2, <1>3, <1>5, <1>7, WriteTypes
  <2> QED BY <1>5, <2>1
<1>8. Pixels(w, h, w, plane)
  BY <1>4, PlaneIsPixels
<1>9. Progress(f)'
  BY <1>1, <1>2, <1>3, <1>5, <1>7, <1>8 DEF Progress, Touching
<1>10. \A g \in Outputs : Progress(g)'
  BY <1>1, <1>6, <1>9, OneDump
<1> QED BY <1>1, <1>6, <1>10 DEF DumpOK

LEMMA NextRowFacts ==
  ASSUME NEW r \in 0..(Rows - 1)
  PROVE  NextRow(r) \in 0..(Rows - 1) /\ (r + 1 < Rows => NextRow(r) = r + 1)
BY RowsAssumption DEF NextRow

LEMMA WriteRowOK ==
  ASSUME DumpOK, NEW f \in Outputs, WriteRow(f)
  PROVE  DumpOK'
<1>1. /\ pic[f] \in Frames /\ pic[f] # NoFrame /\ ~Touching(f) /\ i[f] \in 0..(Rows - 1)
      /\ i[f] < pic[f].height /\ Write(f, Bytes(i[f] * pic[f].linesize, pic[f].width))
      /\ i' = [i EXCEPT ![f] = NextRow(i[f])] /\ UNCHANGED pic
  BY DEF DumpOK, WriteRow
<1>2. PICK w \in Nat, h \in Nat, l \in Int :
        w = pic[f].width /\ h = pic[f].height /\ l = pic[f].linesize
  BY <1>1, FrameFacts
<1>3. PICK r \in 0..(Rows - 1) : r = i[f]
  BY <1>1
<1>4. r \in Nat /\ r < h
  BY <1>1, <1>2, <1>3
<1> DEFINE row == Bytes(r * l, w)
<1>5. Write(f, row) /\ i' = [i EXCEPT ![f] = NextRow(r)]
  BY <1>1, <1>2, <1>3
<1>6. row \in Seq(Int)
  <2>1. r * l \in Int
    BY <1>4
  <2> QED BY <2>1, BytesFacts
<1> HIDE DEF row
<1>7. /\ written' \in [Outputs -> Seq(Int)] /\ short' \in [Outputs -> BOOLEAN]
      /\ \A g \in Outputs \ {f} : written'[g] = written[g] /\ short'[g] = short[g]
  BY <1>5, <1>6, WriteTypes
<1>8. i' \in [Outputs -> 0..(Rows - 1)] /\ i'[f] = NextRow(r)
      /\ \A g \in Outputs \ {f} : i'[g] = i[g]
  <2>1. NextRow(r) \in 0..(Rows - 1)
    BY NextRowFacts
  <2> QED BY <1>5, <2>1 DEF DumpOK
<1>9. Progress(f)'
  <2> SUFFICES ASSUME ~short'[f], h < Rows
               PROVE  Pixels(w, h, l, written'[f]) /\ i'[f] <= h /\ Len(written'[f]) = i'[f] * w
    BY <1>1, <1>2 DEF Progress, Touching
  <2>1. ~short[f] /\ written'[f] = IF Len(written[f]) > w * h
                                   THEN written[f] ELSE written[f] \o row
    BY <1>2, <1>5, <1>6, WriteTypes
  <2>2. Pixels(w, h, l, written[f]) /\ Len(written[f]) = r * w
    <3>1. Progress(f) /\ ~short[f] /\ (Touching(f) \/ pic[f].height < Rows)
      BY <1>2, <2>1 DEF DumpOK
    <3>2. /\ Pixels(pic[f].width, pic[f].height, pic[f].linesize, written[f])
          /\ Len(written[f]) = i[f] * pic[f].width
      BY <1>1, <3>1, Zenon DEF Progress
    <3> QED BY <1>2, <1>3, <3>2
  <2>3. PICK s \in Seq(Int) : s = written[f]
    BY DEF DumpOK
  <2>4. r * w \in Int /\ w * h \in Int /\ r * w <= w * h
    <3>1. r \in Int /\ h \in Int /\ r <= h
      BY <1>4
    <3>2. r * w \in Int /\ h * w \in Int /\ r * w <= h * w /\ h * w = w * h
      BY <3>1, Products
    <3> QED BY <3>2
  <2>5. written'[f] = s \o row
    <3>1. ~(Len(written[f]) > w * h)
      BY <2>2, <2>4
    <3> QED BY <2>1, <2>3, <3>1
  <2>6. Pixels(w, h, l, s) /\ Len(s) = r * w
    BY <2>2, <2>3
  <2>7. Pixels(w, h, l, s \o row) /\ Len(s \o row) = (r + 1) * w
    BY <1>4, <2>6, RowIsPixels DEF row
  <2>8. i'[f] = r + 1 /\ r + 1 <= h
    <3>1. r + 1 < Rows
      BY <1>4, RowsAssumption
    <3>2. NextRow(r) = r + 1
      BY <3>1, NextRowFacts
    <3> QED BY <1>4, <1>8, <3>2
  <2> QED BY <2>5, <2>7, <2>8
<1>10. \A g \in Outputs : Progress(g)'
  BY <1>1, <1>7, <1>8, <1>9, OneDump
<1> QED BY <1>1, <1>7, <1>8, <1>10 DEF DumpOK

LEMMA DumpInitOK == DumpInit => DumpOK
BY RowsAssumption DEF DumpInit, DumpOK, Progress

LEMMA DumpStepOK == DumpOK /\ [DumpNext]_taskVars => DumpOK'
<1> SUFFICES ASSUME DumpOK, [DumpNext]_taskVars PROVE DumpOK'
  OBVIOUS
<1>1. ASSUME NEW f \in Outputs, NEW p \in Frames, Begin(f, p) PROVE DumpOK'
  BY <1>1, FreshDump DEF Begin
<1>2. ASSUME NEW f \in Outputs, Return(f) PROVE DumpOK'
  BY <1>2, FreshDump DEF Return
<1>3. ASSUME UNCHANGED dumpVars PROVE DumpOK'
  BY <1>3 DEF DumpOK, Progress, Touching, dumpVars
<1> QED BY <1>1, <1>2, <1>3, WritePlaneOK, WriteRowOK DEF DumpNext, taskVars

\* A plane of one byte a pixel has as many bytes as pixels, and no other has.
LEMMA PlaneSizes ==
  ASSUME NEW n \in Nat \ {0}, NEW b \in Nat \ {0}
  PROVE  n = n * b <=> b = 1
<1>1. CASE b = 1
  BY <1>1
<1>2. CASE b # 1
  <2>1. 2 * n <= b * n /\ b * n = n * b
    <3>1. 2 <= b /\ 2 \in Int /\ b \in Int /\ n \in Nat
      BY <1>2
    <3> QED BY <3>1, Products
  <2>2. PICK m \in Nat : m = n * b
    BY Products
  <2> QED BY <1>2, <2>1, <2>2
<1> QED BY <1>1, <1>2

LEMMA DumpOKMeans == DumpOK => DumpIsLuma
<1> SUFFICES ASSUME DumpOK, NEW f \in Outputs, pic[f] # NoFrame, ~short[f]
             PROVE  LET p == pic[f]
                    IN  IF Touching(f) \/ p.height < Rows
                        THEN /\ Pixels(p.width, p.height, p.linesize, written[f])
                             /\ Len(written[f]) <= p.height * p.width
                             /\ Dumped(f) => /\ Len(written[f]) = p.height * p.width
                                             /\ Len(written[f]) = PlaneSize(p) <=> p.pixel = 1
                        ELSE ~Dumped(f)
  BY Zenon DEF DumpIsLuma, Pixels
<1> DEFINE p == pic[f]
<1>1. p \in Frames /\ i[f] \in 0..(Rows - 1) /\ written[f] \in Seq(Int)
  BY DEF DumpOK
<1>2. PICK w \in Nat \ {0}, h \in Nat \ {0}, b \in Nat \ {0} :
        w = p.width /\ h = p.height /\ b = p.pixel
  <2>1. p.width \in Nat \ {0} /\ p.height \in Nat \ {0} /\ p.pixel \in Nat \ {0}
    BY <1>1, FrameFacts
  <2> HIDE DEF p
  <2> QED BY <2>1
<1>3. PICK n \in Nat : n = h * w
  BY Products
<1>4. ASSUME Touching(f) \/ h < Rows
      PROVE  /\ Pixels(p.width, p.height, p.linesize, written[f])
             /\ IF Touching(f) THEN written[f] = <<>> \/ Len(written[f]) = n
                ELSE i[f] <= h /\ Len(written[f]) = i[f] * w
  BY <1>2, <1>3, <1>4 DEF DumpOK, Progress
<1>5. ASSUME Touching(f) \/ h < Rows
      PROVE  Len(written[f]) <= n /\ (Dumped(f) => Len(written[f]) = n)
  <2>1. CASE Touching(f)
    BY <1>1, <1>3, <1>4, <2>1 DEF Dumped
  <2>2. CASE ~Touching(f)
    <3>1. i[f] <= h /\ i[f] * w <= n /\ Len(written[f]) = i[f] * w
      <4>1. i[f] <= h /\ Len(written[f]) = i[f] * w
        BY <1>4, <1>5, <2>2
      <4> QED BY <1>1, <1>3, <4>1, RowsAssumption, Products
    <3>2. Dumped(f) => i[f] = h
      BY <1>1, <1>2, <2>2, <3>1, RowsAssumption DEF Dumped
    <3> QED BY <1>3, <3>1, <3>2
  <2> QED BY <2>1, <2>2
<1>6. PlaneSize(p) = n * b /\ n # 0
  <2>1. 1 * w <= h * w /\ 1 * w = w
    BY <1>2, Products
  <2> QED BY <1>2, <1>3, <2>1 DEF PlaneSize
<1>7. n = PlaneSize(p) <=> p.pixel = 1
  BY <1>2, <1>6, PlaneSizes
<1>8. ASSUME ~(Touching(f) \/ h < Rows) PROVE ~Dumped(f)
  BY <1>1, <1>2, <1>8, RowsAssumption DEF Dumped
<1> QED BY <1>2, <1>3, <1>4, <1>5, <1>7, <1>8

\* A dump uses the descriptors as MFile does: what is proved of FileSpec holds
\* during dumps.
THEOREM DumpImplementsFile == DumpSpec => FileSpec
<1>1. DumpInit => FileInit
  BY DEF DumpInit
<1>2. [DumpNext]_taskVars => [FileNext]_fileVars
  BY DEF DumpNext, FileNext, Begin, WritePlane, WriteRow, Return, taskVars, fileVars
<1> QED BY <1>1, <1>2, PTL DEF DumpSpec, FileSpec

\* While pictures are dumped, MFile's read and write reach the file the object
\* opened and no descriptor is left open but as LeaksExplained says.
THEOREM DumpedFilesAreOwned == DumpSpec => [](OpenIsOwned /\ LeaksExplained)
BY DumpImplementsFile, OpenFilesAreOwned, NoOtherLeak, PTL

\* on_recv_frame keeps the types of its counter and of what it wrote.
THEOREM DumpTypeCorrect == DumpSpec => []DumpTypeOK
<1>1. DumpOK /\ FileTypeOK => DumpTypeOK
  BY DEF DumpOK, DumpTypeOK
<1> QED BY <1>1, DumpInitOK, DumpStepOK, DumpImplementsFile, FileTypeCorrect, PTL DEF DumpSpec

\* on_recv_frame writes the first width bytes of each row, in order and all of
\* them, for pictures of any size, stride and sign of stride; these are the
\* luma plane exactly if a pixel has one byte.  It does not return where it
\* counts rows and has too many for its counter.
THEOREM DumpsAreLuma == DumpSpec => []DumpIsLuma
BY DumpOKMeans, DumpInitOK, DumpStepOK, PTL DEF DumpSpec

-------------------------------------------------------------------------------
(***************************************************************************)
(* The start of the program.                                               *)
(***************************************************************************)

(* Of the options seen so far, the last opt has the value v.               *)
Seen(opt, v, default) ==
  \/ v = default /\ \A k \in 1..parsed : argv[k][1] # opt
  \/ \E k \in 1..parsed : /\ argv[k][1] = opt /\ argv[k][2] = v
                          /\ \A j \in 1..parsed : argv[j][1] = opt => j <= k

ParseInv == /\ argv \in Argvs /\ parsed \in 0..Len(argv)
            /\ Seen("c", m_vecCore, <<1>>) /\ m_vecCore \in Seq(Int)
            /\ Seen("d", m_sDirPath, "") /\ m_sDirPath \in {""} \cup Input!Forms
            /\ Seen("f", m_sFilePath, FALSE) /\ m_sFilePath \in BOOLEAN
            /\ mpc \in {"parse", "collect", "init", "noInput", "start"}
            /\ mpc # "parse" => parsed = Len(argv)

LEMMA OptionFacts ==
  ASSUME NEW o \in Options
  PROVE  /\ o[1] = "c" => o[2] \in Seq(Int)
         /\ o[1] = "d" => o[2] \in {""} \cup Input!Forms
         /\ o[1] = "f" => o[2] \in BOOLEAN
BY DEF Options, Input!Forms

LEMMA ArgvFacts ==
  ASSUME ParseInv
  PROVE  /\ argv \in Seq(Options) /\ Len(argv) \in Nat /\ parsed \in Nat
         /\ DOMAIN argv = 1..Len(argv) /\ 1..parsed \subseteq DOMAIN argv
<1>1. argv \in Argvs /\ parsed \in 0..Len(argv)
  BY Zenon DEF ParseInv
<1>2. argv \in Seq(Options)
  BY <1>1, ArgvsAssumption
<1> QED BY <1>1, <1>2

\* When all options are seen, that is the value of LastOf.
LEMMA SeenAll ==
  ASSUME ParseInv, parsed = Len(argv), NEW opt, NEW v, NEW default, Seen(opt, v, default)
  PROVE  LastOf(opt, default) = v
<1> DEFINE given == {k \in DOMAIN argv : argv[k][1] = opt}
<1>1. DOMAIN argv = 1..parsed
  BY ArgvFacts
<1>2. CASE v = default /\ \A k \in 1..parsed : argv[k][1] # opt
  BY <1>1, <1>2 DEF LastOf
<1>3. CASE \E k \in 1..parsed : /\ argv[k][1] = opt /\ argv[k][2] = v
                                /\ \A j \in 1..parsed : argv[j][1] = opt => j <= k
  <2>1. PICK k \in given : argv[k][2] = v /\ \A j \in given : j <= k
    BY <1>1, <1>3
  <2>2. given \subseteq Int
    BY <1>1, ArgvFacts
  <2> HIDE DEF given
  <2>3. ASSUME NEW l \in given, \A j \in given : j <= l PROVE l = k
    <3>1. k <= l /\ l <= k
      BY <2>1, <2>3
    <3> QED BY <2>2, <3>1
  <2>4. (CHOOSE l \in given : \A j \in given : j <= l) = k
    BY <2>1, <2>3
  <2>5. LastOf(opt, default) = argv[CHOOSE l \in given : \A j \in given : j <= l][2]
    BY <2>1 DEF LastOf, given
  <2> QED BY <2>1, <2>4, <2>5
<1> QED BY <1>2, <1>3 DEF Seen

LEMMA ParseStart == Init => ParseInv
<1> SUFFICES ASSUME Init PROVE ParseInv
  OBVIOUS
<1>1. /\ argv \in Argvs /\ parsed = 0 /\ mpc = "parse"
      /\ m_vecCore = <<1>> /\ m_sDirPath = "" /\ m_sFilePath = FALSE
  BY DEF Init
<1>2. argv \in Seq(Options)
  BY <1>1, ArgvsAssumption
<1>3. parsed = 0
  BY <1>1, Zenon
<1>4. parsed \in 0..Len(argv) /\ 1..parsed = {} /\ <<1>> \in Seq(Int)
  BY <1>2, <1>3
<1>5. Seen("c", m_vecCore, <<1>>) /\ Seen("d", m_sDirPath, "") /\ Seen("f", m_sFilePath, FALSE)
  BY <1>1, <1>4 DEF Seen
<1> QED BY <1>1, <1>3, <1>4, <1>5 DEF ParseInv

\* One more option.
LEMMA SeenMore ==
  ASSUME ParseInv, parsed' = parsed + 1, parsed < Len(argv), argv' = argv,
         NEW opt, NEW v, NEW w, NEW default, Seen(opt, v, default),
         w = IF argv[parsed + 1][1] = opt THEN argv[parsed + 1][2] ELSE v
  PROVE  Seen(opt, w, default)'
<1> DEFINE n == parsed + 1
<1>1. 1..parsed' = 1..parsed \cup {n} /\ n \in 1..parsed' /\ n \in Int /\ \A j \in 1..parsed' : j <= n
  BY ArgvFacts
<1> HIDE DEF n
<1>2. CASE argv[n][1] = opt
  BY <1>1, <1>2 DEF Seen, n
<1>3. CASE argv[n][1] # opt
  BY <1>1, <1>3 DEF Seen, n
<1> QED BY <1>2, <1>3

LEMMA ParseStep == ParseInv /\ [Next]_vars => ParseInv'
<1> SUFFICES ASSUME ParseInv, [Next]_vars PROVE ParseInv'
  OBVIOUS
<1>1. CASE ParseOption
  <2> DEFINE n == parsed + 1
             o == argv[n]
  <2>1. /\ argv' = argv /\ mpc' = mpc /\ mpc = "parse" /\ parsed' = n /\ parsed < Len(argv)
        /\ m_vecCore' = IF o[1] = "c" THEN o[2] ELSE m_vecCore
        /\ m_sDirPath' = IF o[1] = "d" THEN o[2] ELSE m_sDirPath
        /\ m_sFilePath' = IF o[1] = "f" THEN o[2] ELSE m_sFilePath
    BY <1>1 DEF ParseOption, Cores
  <2>2. parsed' \in 0..Len(argv') /\ n \in DOMAIN argv /\ 1..parsed' = 1..parsed \cup {n}
    BY <2>1, ArgvFacts
  <2>3. o \in Options
    BY <2>2, ArgvFacts
  <2>4. m_vecCore' \in Seq(Int) /\ m_sDirPath' \in {""} \cup Input!Forms /\ m_sFilePath' \in BOOLEAN
    BY <2>1, <2>3, OptionFacts DEF ParseInv
  <2>5. Seen("c", m_vecCore, <<1>>)'
    <3>1. Seen("c", m_vecCore, <<1>>)
      BY DEF ParseInv
    <3> QED BY <2>1, <3>1, SeenMore
  <2>6. Seen("d", m_sDirPath, "")'
    <3>1. Seen("d", m_sDirPath, "")
      BY DEF ParseInv
    <3> QED BY <2>1, <3>1, SeenMore
  <2>7. Seen("f", m_sFilePath, FALSE)'
    <3>1. Seen("f", m_sFilePath, FALSE)
      BY DEF ParseInv
    <3> QED BY <2>1, <3>1, SeenMore
  <2> QED BY <2>1, <2>2, <2>4, <2>5, <2>6, <2>7 DEF ParseInv
<1>2. CASE ParseEnd
  BY <1>2 DEF ParseInv, Seen, ParseEnd, configVars
<1>3. ASSUME mpc \notin {"parse"}, mpc' \in {"collect", "init", "noInput", "start"},
             UNCHANGED <<argv, parsed, configVars>>
      PROVE  ParseInv'
  BY <1>3 DEF ParseInv, Seen, configVars
<1>4. CASE Collect
  <2>1. UNCHANGED <<m_sDirPath, m_sFilePath>>
    BY <1>4 DEF Collect, Input!Next, Input!OpenDir, Input!NoDir, Input!ReadDir, Input!CloseDir,
                Input!AddFile, Input!dirVars
  <2> QED BY <1>3, <1>4, <2>1 DEF Collect, configVars
<1>5. CASE Collected
  BY <1>3, <1>5 DEF Collected
<1>6. CASE PoolInit
  <2>1. UNCHANGED m_vecCore
    BY <1>6 DEF PoolInit, CB!Next, CB!NewTask, CB!SetCore, CB!CreateThread, CB!Bind, CB!AllCreated
  <2> QED BY <1>3, <1>6, <2>1 DEF PoolInit, configVars
<1>7. CASE PoolReady
  BY <1>3, <1>7 DEF PoolReady
<1>8. CASE Over \/ UNCHANGED vars
  <2>1. UNCHANGED <<argv, parsed, mpc, m_vecCore, m_sDirPath, m_sFilePath>>
    BY <1>8 DEF Over, vars, configVars
  <2> QED BY <2>1 DEF ParseInv, Seen
<1> QED BY <1>1, <1>2, <1>4, <1>5, <1>6, <1>7, <1>8 DEF Next

(* Each member of S is in s once.                                          *)
OnceEach(s, S) == /\ {s[k] : k \in DOMAIN s} = S
                  /\ \A j, k \in DOMAIN s : s[j] = s[k] => j = k

(* The paths readdir has led to so far.                                    *)
Listed == {<<m_sDirPath, e>> :
             e \in {x \in (content \cup {".", ".."}) \ unread : ~Input!Skipped(x)}}

Found == {p \in regular : p[1] = m_sDirPath /\ p[2] \in content}

(* A part of what is to be found, or all of it unless opendir or readdir   *)
(* failed.                                                                 *)
Gathered(s) == \E T \in SUBSET Found : OnceEach(s, T) /\ (~dirFailed => T = Found)

(* FileList: what was read of the directory, without repetition, and the   *)
(* file of -f at the end.                                                  *)
ListInv ==
  /\ content \subseteq Names /\ regular \subseteq Input!Paths
  /\ cpc \in {"search", "read", "add", "done"} /\ unread \subseteq Input!Entries
  /\ m_lstFiles \in Seq(Input!Paths \cup {File})
  /\ dirFailed \in BOOLEAN
  /\ cpc = "search" => m_lstFiles = <<>>
  /\ cpc = "read" => unread \subseteq content \cup {".", ".."} /\ OnceEach(m_lstFiles, Listed)
  /\ cpc = "add" => Gathered(m_lstFiles)
  /\ cpc = "done" => \E d \in Seq(Input!Paths \cup {File}) :
                       /\ Gathered(d)
                       /\ m_lstFiles = IF m_sFilePath THEN Append(d, File) ELSE d

(* When main goes on.                                                      *)
MainInv == /\ mpc = "parse" => cpc = "search"
           /\ mpc \notin {"parse", "collect"} =>
                cpc = "done" /\ (m_lstFiles = <<>> <=> mpc = "noInput")

LEMMA NothingListed == ASSUME NEW S PROVE <<>> \in Seq(S) /\ OnceEach(<<>>, {})
<1>1. DOMAIN <<>> = {}
  OBVIOUS
<1> QED BY <1>1 DEF OnceEach

LEMMA AppendOne ==
  ASSUME NEW S, NEW s \in Seq(S), NEW x \in S
  PROVE  /\ Append(s, x) \in Seq(S) /\ Append(s, x) # <<>>
         /\ Append(s, x)[Len(Append(s, x))] = x
         /\ SubSeq(Append(s, x), 1, Len(Append(s, x)) - 1) = s
         /\ \A T : OnceEach(s, T) /\ x \notin T => OnceEach(Append(s, x), T \cup {x})
<1> DEFINE t == Append(s, x)
           n == Len(s)
<1>1. /\ t \in Seq(S) /\ n \in Nat /\ Len(t) = n + 1 /\ DOMAIN s = 1..n
      /\ DOMAIN t = 1..n \cup {n + 1} /\ t[n + 1] = x /\ n + 1 \notin 1..n
      /\ \A k \in 1..n : t[k] = s[k]
  OBVIOUS
<1>2. t # <<>>
  <2>1. Len(t) # Len(<<>>)
    BY <1>1
  <2> QED BY <2>1
<1>3. SubSeq(t, 1, Len(t) - 1) = s
  OBVIOUS
<1> HIDE DEF t, n
<1>4. ASSUME NEW T, OnceEach(s, T), x \notin T PROVE OnceEach(t, T \cup {x})
  <2>1. {t[k] : k \in DOMAIN t} = {s[k] : k \in DOMAIN s} \cup {x}
    BY <1>1
  <2>2. \A k \in 1..n : t[k] # x
    BY <1>1, <1>4 DEF OnceEach
  <2>3. ASSUME NEW j \in DOMAIN t, NEW k \in DOMAIN t, t[j] = t[k] PROVE j = k
    BY <1>1, <1>4, <2>2, <2>3 DEF OnceEach
  <2> QED BY <1>4, <2>1, <2>3 DEF OnceEach
<1> QED BY <1>1, <1>2, <1>3, <1>4 DEF t, n

LEMMA AllListed ==
  ASSUME ListInv
  PROVE  Listed \subseteq Found /\ (unread = {} => Listed = Found)
<1>1. \A e \in content : e \notin {".", ".."}
  BY NamesAssumption DEF ListInv
<1>2. \A p \in regular : p = <<p[1], p[2]>>
  BY DEF ListInv, Input!Paths
<1>3. \A e : Input!Skipped(e) <=> e \in {".", ".."} \/ <<m_sDirPath, e>> \notin regular
  BY DEF Input!Skipped, Input!ff_filter
<1>4. Listed \subseteq Found
  BY <1>3 DEF Listed, Found
<1>5. ASSUME unread = {}, NEW p \in Found PROVE p \in Listed
  <2>1. p = <<m_sDirPath, p[2]>> /\ p[2] \in content /\ p \in regular
    BY <1>2 DEF Found
  <2>2. ~Input!Skipped(p[2])
    BY <1>1, <1>3, <2>1
  <2> QED BY <1>5, <2>1, <2>2 DEF Listed
<1> QED BY <1>4, <1>5

LEMMA ListStart == Init => ListInv /\ MainInv
<1> SUFFICES ASSUME Init PROVE ListInv /\ MainInv
  OBVIOUS
<1>1. /\ mpc = "parse" /\ cpc = "search" /\ unread = {} /\ m_lstFiles = <<>>
      /\ dirFailed = FALSE
      /\ content \subseteq Names /\ regular \subseteq Input!Paths
  BY DEF Init, Input!Init
<1> QED BY <1>1, NothingListed DEF ListInv, MainInv

LEMMA ReadDirStep ==
  ASSUME ListInv, NEW e \in Input!Entries, Input!ReadDir(e)
  PROVE  ListInv'
<1>1. /\ cpc = "read" /\ cpc' = "read" /\ e \in unread /\ unread' = unread \ {e}
      /\ UNCHANGED <<m_sDirPath, m_sFilePath, content, regular, dirFailed>>
      /\ m_lstFiles' = IF Input!Skipped(e) THEN m_lstFiles
                       ELSE Append(m_lstFiles, <<m_sDirPath, e>>)
  BY DEF Input!ReadDir, Input!dirVars
<1>2. \A x : Input!Skipped(x)' <=> Input!Skipped(x)
  BY <1>1 DEF Input!Skipped, Input!ff_filter
<1>3. /\ OnceEach(m_lstFiles, Listed) /\ m_lstFiles \in Seq(Input!Paths \cup {File})
      /\ unread \subseteq content \cup {".", ".."}
  BY <1>1 DEF ListInv
<1>4. m_lstFiles' \in Seq(Input!Paths \cup {File}) /\ OnceEach(m_lstFiles', Listed')
  <2>1. CASE Input!Skipped(e)
    <3>1. Listed' = Listed
      BY <1>1, <1>2, <2>1 DEF Listed
    <3> QED BY <1>1, <1>3, <2>1, <3>1
  <2>2. CASE ~Input!Skipped(e)
    <3>1. <<m_sDirPath, e>> \in regular
      BY <2>2 DEF Input!Skipped, Input!ff_filter
    <3>2. <<m_sDirPath, e>> \in Input!Paths \cup {File} /\ e \in content \cup {".", ".."}
      BY <1>1, <1>3, <3>1 DEF ListInv
    <3>3. <<m_sDirPath, e>> \notin Listed
      BY <1>1 DEF Listed
    <3>4. Listed' = Listed \cup {<<m_sDirPath, e>>}
      <4>1. Listed' = {<<m_sDirPath, x>> : x \in {y \in (content \cup {".", ".."}) \ (unread \ {e}) :
                                                   ~Input!Skipped(y)}}
        BY <1>1, <1>2 DEF Listed
      <4> QED BY <2>2, <3>2, <4>1 DEF Listed
    <3> QED BY <1>1, <1>3, <2>2, <3>2, <3>3, <3>4, AppendOne
  <2> QED BY <2>1, <2>2
<1>5. unread' \subseteq Input!Entries /\ unread' \subseteq content' \cup {".", ".."}
  BY <1>1, <1>3 DEF ListInv
<1>6. content' \subseteq Names /\ regular' \subseteq Input!Paths /\ dirFailed' \in BOOLEAN
  BY <1>1 DEF ListInv
<1> QED BY <1>1, <1>4, <1>5, <1>6 DEF ListInv

LEMMA InputStep ==
  ASSUME ListInv, Input!Next
  PROVE  ListInv' /\ cpc # "done"
<1>1. CASE Input!OpenDir
  <2>1. /\ cpc = "search" /\ m_lstFiles' = m_lstFiles /\ m_lstFiles = <<>>
        /\ UNCHANGED <<m_sDirPath, content, regular>>
        /\ \/ /\ cpc' = "read" /\ unread' = content \cup {".", ".."}
              /\ dirFailed' = dirFailed
           \/ cpc' = "add" /\ unread' = unread /\ dirFailed' = TRUE
    BY <1>1 DEF Input!OpenDir, Input!dirVars, ListInv
  <2>2. ASSUME cpc' = "read" PROVE Listed' = {} /\ unread' = content \cup {".", ".."}
    BY <2>1, <2>2 DEF Listed
  <2>3. unread' \subseteq Input!Entries
    BY <2>1 DEF ListInv, Input!Entries
  <2>4. content' \subseteq Names /\ regular' \subseteq Input!Paths /\ dirFailed' \in BOOLEAN
    BY <2>1 DEF ListInv
  <2>5. dirFailed' = TRUE => Gathered(<<>>)'
    BY NothingListed DEF Gathered
  <2> QED BY <2>1, <2>2, <2>3, <2>4, <2>5, NothingListed DEF ListInv
<1>2. CASE Input!NoDir
  <2>1. /\ cpc = "search" /\ cpc' = "add" /\ m_sDirPath = "" /\ m_lstFiles = <<>>
        /\ UNCHANGED <<m_sDirPath, content, regular, unread, dirFailed, m_lstFiles>>
    BY <1>2 DEF Input!NoDir, Input!dirVars, ListInv
  <2>2. Found' = {}
    BY <2>1 DEF Found, ListInv, Input!Paths, Input!Forms
  <2>3. Gathered(m_lstFiles)'
    BY <2>1, <2>2, NothingListed DEF Gathered
  <2> QED BY <2>1, <2>3 DEF ListInv
<1>3. ASSUME NEW e \in Input!Entries, Input!ReadDir(e) PROVE ListInv' /\ cpc # "done"
  <2>1. cpc = "read"
    BY <1>3 DEF Input!ReadDir
  <2> QED BY <1>3, <2>1, ReadDirStep
<1>4. CASE Input!CloseDir
  <2>1. /\ cpc = "read" /\ cpc' = "add"
        /\ (unread = {} /\ dirFailed' = dirFailed) \/ dirFailed' = TRUE
        /\ UNCHANGED <<m_sDirPath, m_sFilePath, content, regular, unread, m_lstFiles>>
    BY <1>4 DEF Input!CloseDir, Input!dirVars
  <2>2. /\ OnceEach(m_lstFiles, Listed) /\ Listed \subseteq Found
        /\ ~dirFailed' => Listed = Found
    BY <2>1, AllListed DEF ListInv
  <2>3. Found' = Found
    BY <2>1 DEF Found
  <2>4. Gathered(m_lstFiles)'
    BY <2>1, <2>2, <2>3 DEF Gathered, OnceEach
  <2> QED BY <2>1, <2>4 DEF ListInv
<1>5. CASE Input!AddFile
  <2>1. /\ cpc = "add" /\ cpc' = "done"
        /\ UNCHANGED <<m_sDirPath, m_sFilePath, content, regular, unread, dirFailed>>
        /\ m_lstFiles' = IF m_sFilePath THEN Append(m_lstFiles, File) ELSE m_lstFiles
    BY <1>5 DEF Input!AddFile, Input!dirVars
  <2>2. /\ m_lstFiles \in Seq(Input!Paths \cup {File})
        /\ Gathered(m_lstFiles)
    BY <2>1 DEF ListInv
  <2>3. m_lstFiles' \in Seq(Input!Paths \cup {File})
    BY <2>1, <2>2, AppendOne
  <2>4. \A d : Gathered(d) => Gathered(d)'
    BY <2>1 DEF Gathered, Found, OnceEach
  <2>5. m_lstFiles' = IF m_sFilePath' THEN Append(m_lstFiles, File) ELSE m_lstFiles
    BY <2>1
  <2>6. /\ content' \subseteq Names /\ regular' \subseteq Input!Paths
        /\ unread' \subseteq Input!Entries /\ dirFailed' \in BOOLEAN
        /\ cpc' = "done" /\ cpc # "done"
    BY <2>1 DEF ListInv
  <2> QED BY <2>2, <2>3, <2>4, <2>5, <2>6 DEF ListInv
<1> QED BY <1>1, <1>2, <1>3, <1>4, <1>5 DEF Input!Next

LEMMA ListStep == ParseInv /\ ListInv /\ MainInv /\ [Next]_vars => ListInv' /\ MainInv'
<1> SUFFICES ASSUME ParseInv, ListInv, MainInv, [Next]_vars PROVE ListInv' /\ MainInv'
  OBVIOUS
<1>1. CASE ParseOption
  <2>1. /\ mpc = "parse" /\ mpc' = "parse" /\ cpc = "search" /\ UNCHANGED <<diskVars, listVars>>
    BY <1>1 DEF ParseOption, MainInv
  <2> QED BY <2>1 DEF ListInv, MainInv, diskVars, listVars
<1>2. ASSUME UNCHANGED <<m_sDirPath, m_sFilePath, diskVars, listVars>>
      PROVE  ListInv'
  <2>1. UNCHANGED <<m_sDirPath, m_sFilePath, content, regular, cpc, unread, dirFailed, m_lstFiles>>
    BY <1>2 DEF diskVars, listVars
  <2>2. Listed' = Listed /\ Found' = Found
    BY <2>1 DEF Listed, Found, Input!Skipped, Input!ff_filter
  <2>3. \A d : Gathered(d) => Gathered(d)'
    BY <2>1, <2>2 DEF Gathered, OnceEach
  <2>4. OnceEach(m_lstFiles, Listed) => OnceEach(m_lstFiles, Listed)'
    BY <2>1, <2>2 DEF OnceEach
  <2> QED BY <2>1, <2>3, <2>4 DEF ListInv
<1>3. CASE ParseEnd
  <2>1. mpc' = "collect" /\ UNCHANGED <<m_sDirPath, m_sFilePath, diskVars, listVars>>
    BY <1>3 DEF ParseEnd, configVars
  <2> QED BY <1>2, <2>1 DEF MainInv
<1>4. CASE Collect
  <2>1. Input!Next /\ mpc = "collect" /\ mpc' = "collect"
    BY <1>4 DEF Collect
  <2> QED BY <2>1, InputStep DEF MainInv
<1>5. CASE Collected
  <2>1. /\ cpc = "done" /\ mpc' = IF m_lstFiles = <<>> THEN "noInput" ELSE "init"
        /\ UNCHANGED <<m_sDirPath, m_sFilePath, diskVars, listVars>>
    BY <1>5 DEF Collected, configVars
  <2> QED BY <1>2, <2>1 DEF MainInv, listVars
<1>6. CASE PoolInit \/ PoolReady
  <2>1. /\ mpc = "init" /\ mpc' \in {"init", "start"}
        /\ UNCHANGED <<m_sDirPath, m_sFilePath, diskVars, listVars>>
    BY <1>6 DEF PoolInit, PoolReady, configVars
  <2> QED BY <1>2, <2>1 DEF MainInv, listVars
<1>7. CASE Over \/ UNCHANGED vars
  <2>1. UNCHANGED <<mpc, m_sDirPath, m_sFilePath, diskVars, listVars>>
    BY <1>7 DEF Over, vars, configVars
  <2> QED BY <1>2, <2>1 DEF MainInv, listVars
<1> QED BY <1>1, <1>3, <1>4, <1>5, <1>6, <1>7 DEF Next

LEMMA ListMeans == ParseInv /\ ListInv /\ MainInv => CollectedExact
<1> SUFFICES ASSUME ParseInv, ListInv, MainInv, mpc \in {"init", "start", "noInput"}
             PROVE  CollectedExact
  BY DEF CollectedExact
<1>1. cpc = "done" /\ (m_lstFiles = <<>> <=> mpc = "noInput") /\ parsed = Len(argv)
  BY DEF MainInv, ParseInv
<1>2. LastOf("d", "") = m_sDirPath /\ LastOf("f", FALSE) = m_sFilePath
  BY <1>1, SeenAll DEF ParseInv
<1>3. PICK d \in Seq(Input!Paths \cup {File}) :
        /\ Gathered(d)
        /\ m_lstFiles = IF m_sFilePath THEN Append(d, File) ELSE d
  BY <1>1 DEF ListInv
<1> DEFINE dirs == IF LastOf("f", FALSE) THEN SubSeq(m_lstFiles, 1, Len(m_lstFiles) - 1)
                   ELSE m_lstFiles
<1>4. dirs = d /\ (LastOf("f", FALSE) => m_lstFiles[Len(m_lstFiles)] = File)
  <2>1. CASE m_sFilePath
    <3>1. LastOf("f", FALSE)
      BY <1>2, <2>1, Zenon
    <3>2. m_lstFiles = Append(d, File)
      BY <1>3, <2>1, Zenon
    <3>3. SubSeq(m_lstFiles, 1, Len(m_lstFiles) - 1) = d /\ m_lstFiles[Len(m_lstFiles)] = File
      BY <3>2, AppendOne
    <3> QED BY <3>1, <3>3, Zenon
  <2>2. CASE ~m_sFilePath
    <3>1. ~LastOf("f", FALSE)
      BY <1>2, <2>2, Zenon
    <3>2. m_lstFiles = d
      BY <1>3, <2>2, Zenon
    <3> QED BY <3>1, <3>2, Zenon
  <2> QED BY <2>1, <2>2
<1>5. /\ {d[k] : k \in DOMAIN d} \subseteq Found
      /\ ~dirFailed => {d[k] : k \in DOMAIN d} = Found
      /\ \A j, k \in DOMAIN d : d[j] = d[k] => j = k
  BY <1>3 DEF Gathered, OnceEach
<1>6. Found = {p \in regular : p[1] = LastOf("d", "") /\ p[2] \in content}
  BY <1>2 DEF Found
<1> HIDE DEF dirs
<1>7. /\ {dirs[k] : k \in DOMAIN dirs} \subseteq Found
      /\ ~dirFailed => {dirs[k] : k \in DOMAIN dirs} = Found
      /\ \A j, k \in DOMAIN dirs : dirs[j] = dirs[k] => j = k
  BY <1>4, <1>5
<1> QED BY <1>1, <1>4, <1>6, <1>7 DEF CollectedExact, dirs

(***************************************************************************)
(* Masks.                                                                  *)
(***************************************************************************)

(* p is 2^k.                                                               *)
Power(k, p) == \/ k = 0 /\ p = 1
               \/ k = 1 /\ p = 2
               \/ k = 2 /\ p = 4
               \/ k = 3 /\ p = 8
               \/ k = 4 /\ p = 16
               \/ k = 5 /\ p = 32
               \/ k = 6 /\ p = 64
               \/ k = 7 /\ p = 128

LEMMA PowerValue == \A k \in 0..7 : Power(k, 2^k)
<1>1. /\ 2^0 = 1 /\ 2^1 = 2 /\ 2^2 = 4 /\ 2^3 = 8
      /\ 2^4 = 16 /\ 2^5 = 32 /\ 2^6 = 64 /\ 2^7 = 128
  OBVIOUS
<1>2. /\ Power(0, 2^0) /\ Power(1, 2^1) /\ Power(2, 2^2) /\ Power(3, 2^3)
      /\ Power(4, 2^4) /\ Power(5, 2^5) /\ Power(6, 2^6) /\ Power(7, 2^7)
  BY <1>1, Zenon DEF Power
<1>3. ASSUME NEW k \in 0..7
      PROVE  k = 0 \/ k = 1 \/ k = 2 \/ k = 3 \/ k = 4 \/ k = 5 \/ k = 6 \/ k = 7
  OBVIOUS
<1> QED BY <1>2, <1>3, Zenon

LEMMA PowerBit ==
  ASSUME NEW x \in 0..7, NEW c \in 0..7, NEW p, NEW q, Power(x, p), Power(c, q)
  PROVE  (p \div q) % 2 = 1 <=> x = c
BY DEF Power

LEMMA NoBit == ASSUME NEW c, NEW q, Power(c, q) PROVE (0 \div q) % 2 # 1
BY DEF Power

\* A mask of one of the first eight cores names that core, one of the others
\* none.
LEMMA MaskMeans ==
  ASSUME NEW d \in 0..9, NEW mask \in CB!Masks(d)
  PROVE  CB!CpuSet(mask) = {d} \cap 0..7
<1>1. CASE d \in 0..7
  <2>1. d < 8
    BY <1>1
  <2>2. mask = 2^d
    BY <2>1, Zenon DEF CB!Masks
  <2>3. \A c \in 0..7 : (mask \div 2^c) % 2 = 1 <=> d = c
    <3>1. ASSUME NEW c \in 0..7 PROVE (mask \div 2^c) % 2 = 1 <=> d = c
      <4> DEFINE q == 2^c
      <4>1. Power(d, mask) /\ Power(c, q)
        BY <1>1, <2>2, PowerValue, Zenon
      <4> HIDE DEF q
      <4>2. (mask \div q) % 2 = 1 <=> d = c
        BY <1>1, <4>1, PowerBit
      <4> QED BY <4>2 DEF q
    <3> QED BY <3>1
  <2> QED BY <1>1, <2>3, Zenon DEF CB!CpuSet
<1>2. CASE d \notin 0..7
  <2>1. ~(d < 8) /\ d < 32
    BY <1>2
  <2>2. mask = 0
    BY <2>1, Zenon DEF CB!Masks
  <2>3. \A c \in 0..7 : (mask \div 2^c) % 2 # 1
    BY <2>2, PowerValue, NoBit, Zenon
  <2> QED BY <1>2, <2>3, Zenon DEF CB!CpuSet
<1> QED BY <1>1, <1>2

LEMMA BoundCores ==
  ASSUME NEW d \in Int, NEW mask \in CB!Masks(d)
  PROVE  /\ CB!SetAffinity(CB!CpuSet(mask), Cpus) \in SUBSET Cpus
         /\ d \in 0..9 => CB!SetAffinity(CB!CpuSet(mask), Cpus) =
                            IF d \in Cpus \cap 0..7 THEN {d} ELSE Cpus
<1>1. CB!SetAffinity(CB!CpuSet(mask), Cpus) \in SUBSET Cpus
  BY DEF CB!SetAffinity
<1>2. ASSUME d \in 0..9
      PROVE  CB!SetAffinity(CB!CpuSet(mask), Cpus) =
               IF d \in Cpus \cap 0..7 THEN {d} ELSE Cpus
  <2>1. CB!CpuSet(mask) = {d} \cap 0..7
    BY <1>2, MaskMeans
  <2> QED BY <2>1, Zenon DEF CB!SetAffinity
<1> QED BY <1>1, <1>2

(***************************************************************************)
(* TaskPool::init.                                                         *)
(***************************************************************************)

(* A thread that was bound and the core its entry names.                   *)
Placed(t) ==
  m_vecCore[t] \in 0..9 =>
    affinity[t] = IF m_vecCore[t] \in Cpus \cap 0..7 THEN {m_vecCore[t]} ELSE Cpus

PoolTypes == /\ ppc \in {"new", "affinity", "create", "bind", "done"}
             /\ m_core_id \in Seq(CB!Byte) /\ affinity \in Seq(SUBSET Cpus)
             /\ Len(affinity) = Len(m_core_id) /\ Len(m_core_id) <= Len(m_vecCore)

(* Where the last task is on its way to its core; those before have         *)
(* arrived.                                                                 *)
BindInv ==
  LET n == Len(affinity)
  IN  /\ ppc = "done" => n = Len(m_vecCore)
      /\ ppc \in {"affinity", "create", "bind"} => n > 0
      /\ ppc \in {"create", "bind"} => m_core_id[n] = m_vecCore[n] % 256
      /\ ppc \in {"affinity", "create"} => affinity[n] = {}
      /\ ppc = "bind" => affinity[n] = Cpus
      /\ \A t \in 1..n : t < n \/ ppc \in {"new", "done"} => Placed(t)

WhenInv == /\ mpc \notin {"init", "start"} => ppc = "new" /\ affinity = <<>> /\ m_core_id = <<>>
           /\ mpc = "start" => ppc = "done"

LEMMA SetAt ==
  ASSUME NEW S, NEW s \in Seq(S), s # <<>>, NEW x \in S
  PROVE  LET t == [s EXCEPT ![Len(s)] = x]
         IN  /\ t \in Seq(S) /\ Len(t) = Len(s) /\ t[Len(s)] = x
             /\ \A k \in 1..Len(s) : k # Len(s) => t[k] = s[k]
OBVIOUS

LEMMA PoolStart == Init => PoolTypes /\ BindInv /\ WhenInv
<1> SUFFICES ASSUME Init PROVE PoolTypes /\ BindInv /\ WhenInv
  OBVIOUS
<1>1. ppc = "new" /\ m_core_id = <<>> /\ affinity = <<>> /\ mpc = "parse"
  BY DEF Init, CB!Init
<1>2. m_vecCore = <<1>>
  BY DEF Init
<1>3. Len(affinity) = 0 /\ Len(m_core_id) = 0 /\ Len(m_vecCore) = 1
  BY <1>1, <1>2
<1>4. m_core_id \in Seq(CB!Byte) /\ affinity \in Seq(SUBSET Cpus)
  BY <1>1, NothingListed
<1> QED BY <1>1, <1>3, <1>4 DEF PoolTypes, BindInv, WhenInv

LEMMA LastIndex == ASSUME NEW n \in Nat, NEW t \in 1..n, ~(t < n) PROVE t = n
OBVIOUS

LEMMA PlacedKept ==
  ASSUME NEW t, m_vecCore' = m_vecCore, affinity'[t] = affinity[t], Placed(t)
  PROVE  Placed(t)'
BY DEF Placed

LEMMA Byte256 ==
  ASSUME NEW v \in Int
  PROVE  v % 256 \in CB!Byte /\ v % 256 \in Int /\ (v \in 0..9 => v % 256 = v)
BY DEF CB!Byte

\* The steps of TaskPool::init.
LEMMA CBStep ==
  ASSUME m_vecCore \in Seq(Int), PoolTypes, BindInv, CB!Next
  PROVE  PoolTypes' /\ BindInv'
<1> DEFINE n == Len(affinity)
<1>1. /\ n \in Nat /\ n = Len(m_core_id) /\ n <= Len(m_vecCore) /\ Len(m_vecCore) \in Nat
      /\ m_core_id \in Seq(CB!Byte) /\ affinity \in Seq(SUBSET Cpus)
      /\ \A k \in 1..n : m_vecCore[k] \in Int
  BY DEF PoolTypes
<1>2. CASE CB!NewTask
  <2>1. /\ ppc = "new" /\ ppc' = "affinity" /\ n < Len(m_vecCore) /\ m_vecCore' = m_vecCore
        /\ m_core_id' = Append(m_core_id, 1) /\ affinity' = Append(affinity, {})
    BY <1>1, <1>2 DEF CB!NewTask
  <2>2. m_core_id' \in Seq(CB!Byte) /\ Len(m_core_id') = n + 1
    BY <1>1, <2>1 DEF CB!Byte
  <2>3. /\ affinity' \in Seq(SUBSET Cpus) /\ Len(affinity') = n + 1 /\ affinity'[n + 1] = {}
        /\ \A k \in 1..n : affinity'[k] = affinity[k]
    BY <1>1, <2>1
  <2>4. \A t \in 1..n : Placed(t)
    BY <2>1 DEF BindInv
  <2>5. \A t \in 1..(n + 1) : t < n + 1 => Placed(t)'
    <3>1. ASSUME NEW t \in 1..(n + 1), t < n + 1 PROVE Placed(t)'
      <4>1. t \in 1..n
        BY <1>1, <3>1
      <4> QED BY <2>1, <2>3, <2>4, <4>1, PlacedKept
    <3> QED BY <3>1
  <2>6. PoolTypes'
    BY <1>1, <2>1, <2>2, <2>3 DEF PoolTypes
  <2>7. BindInv'
    BY <1>1, <2>1, <2>3, <2>5 DEF BindInv
  <2> QED BY <2>6, <2>7
<1>3. CASE CB!SetCore
  <2>1. /\ ppc = "affinity" /\ ppc' = "create" /\ m_vecCore' = m_vecCore /\ affinity' = affinity
        /\ m_core_id' = [m_core_id EXCEPT ![n] = m_vecCore[n] % 256]
    BY <1>1, <1>3 DEF CB!SetCore
  <2>2. n > 0 /\ affinity[n] = {} /\ \A t \in 1..n : t < n => Placed(t)
    BY <2>1 DEF BindInv
  <2>3. m_core_id # <<>> /\ m_vecCore[n] % 256 \in CB!Byte
    <3>1. m_vecCore[n] \in Int /\ Len(m_core_id) > 0
      BY <1>1, <2>2
    <3> QED BY <3>1, Byte256
  <2>4. m_core_id' \in Seq(CB!Byte) /\ Len(m_core_id') = n /\ m_core_id'[n] = m_vecCore[n] % 256
    BY <1>1, <2>1, <2>3, SetAt
  <2>5. \A t \in 1..n : t < n => Placed(t)'
    BY <2>1, <2>2 DEF Placed
  <2> QED BY <1>1, <2>1, <2>2, <2>4, <2>5 DEF PoolTypes, BindInv
<1>4. CASE CB!CreateThread
  <2>1. /\ ppc = "create" /\ ppc' = "bind" /\ m_vecCore' = m_vecCore /\ m_core_id' = m_core_id
        /\ affinity' = [affinity EXCEPT ![n] = Cpus]
    BY <1>4 DEF CB!CreateThread
  <2>2. /\ n > 0 /\ m_core_id[n] = m_vecCore[n] % 256
        /\ \A t \in 1..n : t < n => Placed(t)
    BY <2>1 DEF BindInv
  <2>3. affinity # <<>>
    BY <1>1, <2>2
  <2>4. /\ affinity' \in Seq(SUBSET Cpus) /\ Len(affinity') = n /\ affinity'[n] = Cpus
        /\ \A k \in 1..n : k # n => affinity'[k] = affinity[k]
    BY <1>1, <2>1, <2>3, SetAt, Cpus \in SUBSET Cpus
  <2>5. \A t \in 1..n : t < n => Placed(t)'
    <3>1. ASSUME NEW t \in 1..n, t < n PROVE Placed(t)'
      <4>1. affinity'[t] = affinity[t] /\ Placed(t)
        BY <1>1, <2>2, <2>4, <3>1
      <4> QED BY <2>1, <4>1, PlacedKept
    <3> QED BY <3>1
  <2> QED BY <1>1, <2>1, <2>2, <2>4, <2>5 DEF PoolTypes, BindInv
<1>5. CASE CB!Bind
  <2>1. /\ ppc = "bind" /\ ppc' = "new" /\ m_vecCore' = m_vecCore /\ m_core_id' = m_core_id
        /\ \E mask \in CB!Masks(m_core_id[n]) :
             affinity' = [affinity EXCEPT ![n] = CB!SetAffinity(CB!CpuSet(mask), affinity[n])]
    BY <1>1, <1>5 DEF CB!Bind, CB!Last
  <2>2. /\ n > 0 /\ affinity[n] = Cpus /\ m_core_id[n] = m_vecCore[n] % 256
        /\ \A t \in 1..n : t < n => Placed(t)
    BY <2>1 DEF BindInv
  <2>3. PICK mask \in CB!Masks(m_core_id[n]) :
          affinity' = [affinity EXCEPT ![n] = CB!SetAffinity(CB!CpuSet(mask), Cpus)]
    BY <2>1, <2>2
  <2> DEFINE x == CB!SetAffinity(CB!CpuSet(mask), Cpus)
             d == m_core_id[n]
  <2>4. d \in Int /\ (m_vecCore[n] \in 0..9 => d = m_vecCore[n])
    <3>1. m_vecCore[n] \in Int
      BY <1>1, <2>2
    <3> QED BY <2>2, <3>1, Byte256
  <2>5. x \in SUBSET Cpus /\ (d \in 0..9 => x = IF d \in Cpus \cap 0..7 THEN {d} ELSE Cpus)
    BY <2>4, BoundCores
  <2> HIDE DEF x, d
  <2>6. affinity # <<>>
    BY <1>1, <2>2
  <2>7. affinity' = [affinity EXCEPT ![n] = x]
    BY <2>3 DEF x
  <2>8. /\ affinity' \in Seq(SUBSET Cpus) /\ Len(affinity') = n /\ affinity'[n] = x
        /\ \A k \in 1..n : k # n => affinity'[k] = affinity[k]
    BY <1>1, <2>5, <2>6, <2>7, SetAt
  <2>9. ASSUME NEW t \in 1..n PROVE Placed(t)'
    <3>1. CASE t = n
      BY <2>1, <2>4, <2>5, <2>8, <3>1 DEF Placed
    <3>2. CASE t # n
      <4>1. affinity'[t] = affinity[t] /\ Placed(t)
        BY <1>1, <2>2, <2>8, <3>2
      <4> QED BY <2>1, <4>1, PlacedKept
    <3> QED BY <3>1, <3>2
  <2> QED BY <1>1, <2>1, <2>8, <2>9 DEF PoolTypes, BindInv
<1>6. CASE CB!AllCreated
  <2>1. /\ ppc = "new" /\ ppc' = "done" /\ n = Len(m_vecCore)
        /\ UNCHANGED <<m_vecCore, m_core_id, affinity>>
    BY <1>1, <1>6 DEF CB!AllCreated
  <2> QED BY <1>1, <2>1 DEF PoolTypes, BindInv, Placed
<1> QED BY <1>2, <1>3, <1>4, <1>5, <1>6 DEF CB!Next

PoolInv == PoolTypes /\ BindInv /\ WhenInv

LEMMA PoolStep == ParseInv /\ PoolInv /\ [Next]_vars => PoolInv'
<1> SUFFICES ASSUME ParseInv, PoolInv, [Next]_vars PROVE PoolInv'
  OBVIOUS
<1>1. CASE ParseOption
  <2>1. /\ mpc = "parse" /\ mpc' = "parse" /\ ppc' = ppc /\ m_core_id' = m_core_id
        /\ affinity' = affinity
    BY <1>1 DEF ParseOption, cpuVars
  <2>2. ppc = "new" /\ affinity = <<>> /\ m_core_id = <<>>
    BY <2>1 DEF PoolInv, WhenInv
  <2>3. ParseInv'
    BY ParseStep
  <2>4. Len(m_vecCore') \in Nat
    <3>1. m_vecCore' \in Seq(Int)
      BY <2>3, Zenon DEF ParseInv
    <3> QED BY <3>1
  <2>5. Len(affinity') = 0 /\ Len(m_core_id') = 0 /\ Len(m_core_id') <= Len(m_vecCore')
    BY <2>1, <2>2, <2>4
  <2> QED BY <2>1, <2>2, <2>5 DEF PoolInv, PoolTypes, BindInv, WhenInv
<1>2. ASSUME UNCHANGED <<m_vecCore, cpuVars>> PROVE PoolTypes' /\ BindInv'
  BY <1>2 DEF PoolInv, PoolTypes, BindInv, Placed, cpuVars
<1>3. CASE ParseEnd \/ Collect \/ Collected
  <2>1. /\ mpc \in {"parse", "collect"} /\ mpc' \in {"collect", "noInput", "init"}
        /\ UNCHANGED <<m_vecCore, cpuVars>>
    BY <1>3 DEF ParseEnd, Collect, Collected, configVars
  <2> QED BY <1>2, <2>1 DEF PoolInv, WhenInv, cpuVars
<1>4. CASE PoolInit
  <2>1. mpc = "init" /\ mpc' = "init" /\ CB!Next
    BY <1>4 DEF PoolInit
  <2> QED BY <2>1, CBStep DEF PoolInv, WhenInv, ParseInv
<1>5. CASE PoolReady
  <2>1. mpc' = "start" /\ ppc = "done" /\ UNCHANGED <<m_vecCore, cpuVars>>
    BY <1>5 DEF PoolReady, configVars
  <2> QED BY <1>2, <2>1 DEF PoolInv, WhenInv, cpuVars
<1>6. CASE Over \/ UNCHANGED vars
  <2>1. UNCHANGED <<mpc, m_vecCore, cpuVars>>
    BY <1>6 DEF Over, vars, configVars
  <2> QED BY <1>2, <2>1 DEF PoolInv, WhenInv, cpuVars
<1> QED BY <1>1, <1>3, <1>4, <1>5, <1>6 DEF Next

LEMMA PoolMeans == ParseInv /\ PoolInv => PinnedAsNamed
<1> SUFFICES ASSUME ParseInv, PoolInv PROVE PinnedAsNamed
  OBVIOUS
<1> DEFINE n == Len(affinity)
<1>1. CASE mpc \notin {"init", "start"}
  <2>1. mpc # "start" /\ DOMAIN affinity = {}
    BY <1>1 DEF PoolInv, WhenInv
  <2> QED BY <2>1 DEF PinnedAsNamed
<1>2. CASE mpc \in {"init", "start"}
  <2>1. parsed = Len(argv) /\ m_vecCore \in Seq(Int)
    BY <1>2 DEF ParseInv
  <2>2. Named = m_vecCore
    BY <2>1, SeenAll DEF Named, ParseInv
  <2>3. mpc = "start" => Len(affinity) = Len(Named)
    BY <2>2 DEF PoolInv, WhenInv, BindInv
  <2>4. DOMAIN affinity = 1..n /\ n \in Nat
    BY DEF PoolInv, PoolTypes
  <2>5. ASSUME NEW t \in 1..n, Named[t] \in 0..9
        PROVE  /\ affinity[t] \in {{}, Cpus, {Named[t]} \cap Cpus}
               /\ t < n \/ ppc \in {"new", "done"} =>
                    affinity[t] = IF Named[t] \in Cpus \cap 0..7 THEN {Named[t]} ELSE Cpus
    <3>1. CASE t < n \/ ppc \in {"new", "done"}
      <4>1. Placed(t)
        BY <3>1 DEF PoolInv, BindInv
      <4>2. affinity[t] = IF Named[t] \in Cpus \cap 0..7 THEN {Named[t]} ELSE Cpus
        BY <2>2, <2>5, <4>1 DEF Placed
      <4> QED BY <4>2
    <3>2. CASE ~(t < n) /\ ppc \notin {"new", "done"}
      <4>1. t = n
        <5>1. ~(t < n)
          BY <3>2, Zenon
        <5> QED BY <2>4, <5>1, LastIndex, Zenon
      <4>2. ppc \in {"affinity", "create", "bind"}
        BY <3>2 DEF PoolInv, PoolTypes
      <4>3. affinity[t] \in {{}, Cpus}
        BY <4>1, <4>2 DEF PoolInv, BindInv
      <4> QED BY <3>2, <4>3
    <3> QED BY <3>1, <3>2
  <2> QED BY <2>3, <2>4, <2>5 DEF PinnedAsNamed
<1> QED BY <1>1, <1>2

(***************************************************************************)
(* Theorems.                                                               *)
(***************************************************************************)

StartInv == ParseInv /\ ListInv /\ MainInv /\ PoolInv

LEMMA StartInvariant == Spec => []StartInv
<1>1. Init => StartInv
  BY ParseStart, ListStart, PoolStart DEF StartInv, PoolInv
<1>2. StartInv /\ [Next]_vars => StartInv'
  BY ParseStep, ListStep, PoolStep DEF StartInv
<1> QED BY <1>1, <1>2, PTL DEF Spec

\* main, Config::parse, intput_collect and TaskPool::init keep the types of
\* the configuration, the list of files and the tasks.
THEOREM StartTypeCorrect == Spec => []TypeOK
<1>1. StartInv => TypeOK
  BY DEF StartInv, ParseInv, ListInv, PoolInv, PoolTypes, TypeOK, Input!TypeOK, CB!TypeOK
<1> QED BY <1>1, StartInvariant, PTL

\* TaskPool::init starts a thread for each character of the last -c, on the
\* core the character names if its mask can, whatever the cores, the process's
\* own set and the other options.
THEOREM ThreadsArePinned == Spec => []PinnedAsNamed
<1>1. StartInv => PinnedAsNamed
  BY PoolMeans DEF StartInv
<1> QED BY <1>1, StartInvariant, PTL

\* intput_collect gives the tasks what is to be found under the last -d, each
\* file once, and the file of the last -f at the end, for any directory, any
\* order of readdir and any command line; only when opendir or readdir failed
\* may something be missing.
THEOREM InputIsCollected == Spec => []CollectedExact
<1>1. StartInv => CollectedExact
  BY ListMeans DEF StartInv
<1> QED BY <1>1, StartInvariant, PTL
===============================================================================
