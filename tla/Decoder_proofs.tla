---------------------------- MODULE Decoder_proofs ----------------------------
(***************************************************************************)
(* Proofs about Decoder for any length of the input and any delay of the   *)
(* codec: the objects it owns, and the way of every picture.               *)
(***************************************************************************)
EXTENDS Decoder, TLAPS

Elems(s) == {s[k] : k \in DOMAIN s}

(* What the caller's progress says about the objects.                      *)
OwnInv == /\ OwnedOnce
          /\ phase \in {"new", "ready", "streaming", "over"} => heap = ptr
          /\ phase = "new" => ptr = {}

(* decode's loop runs, and demux and decode alternate, while streaming.    *)
CallInv == /\ dpc = "receive" => phase = "streaming" /\ ~fresh
           /\ dpc = "receive" /\ eof => draining
           /\ phase \in {"new", "ready", "broken"} => hungry /\ ~draining
           /\ phase \in {"new", "ready"} => pos = 0 /\ ~cut
           /\ phase = "released" => m_decoded_frame_cnt = 0

(* Between two calls the codec has asked for input, unless something       *)
(* failed: so it neither refuses a packet nor remembers an end.            *)
HungryInv == phase = "streaming" /\ dpc = "idle" /\ ~failed => hungry /\ ~draining

(* What the codec holds is newer than what was shown, and what was         *)
(* demuxed last is newer still.                                            *)
OrderInv ==
  /\ \A i, j \in DOMAIN held : i < j => held[i] < held[j]
  /\ \A i \in DOMAIN received, j \in DOMAIN held : received[i] < held[j]
  /\ phase \notin {"released", "gone"} =>
       /\ fresh => m_pkt <= m_decoded_frame_cnt
       /\ \A n \in Elems(held) \cup Elems(received) :
            /\ n <= m_decoded_frame_cnt
            /\ fresh /\ m_pkt # Empty => n < m_pkt

(* The codec is told the end only where the input ends or a packet had no  *)
(* data; and then the caller asks for no more, unless something failed.    *)
AtEnd == cut \/ pos = MaxItems
EndInv == /\ draining => AtEnd
          /\ fresh /\ m_pkt = Empty => AtEnd
          /\ ~failed /\ cut /\ phase = "streaming" =>
               (fresh /\ m_pkt = Empty) \/ (dpc = "receive" /\ eof)

IInv == TypeOK /\ OwnInv /\ CallInv /\ HungryInv /\ OrderInv /\ EndInv
-------------------------------------------------------------------------------
(***************************************************************************)
(* Sequences.                                                              *)
(***************************************************************************)

LEMMA AppendElems ==
  ASSUME NEW S, NEW s \in Seq(S), NEW x \in S
  PROVE  /\ Append(s, x) \in Seq(S)
         /\ Len(Append(s, x)) = Len(s) + 1
         /\ DOMAIN Append(s, x) = 1..(Len(s) + 1)
         /\ DOMAIN s = 1..Len(s) /\ Len(s) \in Nat
         /\ \A k \in 1..(Len(s) + 1) :
              Append(s, x)[k] = IF k = Len(s) + 1 THEN x ELSE s[k]
         /\ Elems(Append(s, x)) = Elems(s) \cup {x}
<1>1. /\ Append(s, x) \in Seq(S)
      /\ Len(Append(s, x)) = Len(s) + 1
      /\ DOMAIN Append(s, x) = 1..(Len(s) + 1)
      /\ DOMAIN s = 1..Len(s) /\ Len(s) \in Nat
      /\ \A k \in 1..(Len(s) + 1) :
           Append(s, x)[k] = IF k = Len(s) + 1 THEN x ELSE s[k]
  OBVIOUS
<1>2. Elems(Append(s, x)) = Elems(s) \cup {x}
  BY <1>1 DEF Elems
<1> QED
  BY <1>1, <1>2

LEMMA TailElems ==
  ASSUME NEW S, NEW s \in Seq(S), s # <<>>
  PROVE  /\ Head(s) \in S /\ Head(s) = s[1] /\ Tail(s) \in Seq(S)
         /\ 1 \in DOMAIN s /\ DOMAIN s = 1..Len(s) /\ Len(s) \in Nat
         /\ DOMAIN Tail(s) = 1..(Len(s) - 1)
         /\ \A k \in 1..(Len(s) - 1) : Tail(s)[k] = s[k + 1]
         /\ Elems(s) = Elems(Tail(s)) \cup {Head(s)}
<1>1. /\ Head(s) \in S /\ Head(s) = s[1] /\ Tail(s) \in Seq(S)
      /\ 1 \in DOMAIN s /\ DOMAIN s = 1..Len(s) /\ Len(s) \in Nat
      /\ DOMAIN Tail(s) = 1..(Len(s) - 1)
      /\ \A k \in 1..(Len(s) - 1) : Tail(s)[k] = s[k + 1]
  OBVIOUS
<1>2. Elems(s) \subseteq Elems(Tail(s)) \cup {Head(s)}
  <2> SUFFICES ASSUME NEW k \in 1..Len(s) PROVE s[k] \in Elems(Tail(s)) \cup {Head(s)}
    BY <1>1 DEF Elems
  <2>1. CASE k = 1
    BY <1>1, <2>1
  <2>2. CASE k # 1
    <3>1. k - 1 \in 1..(Len(s) - 1) /\ s[(k - 1) + 1] = s[k]
      BY <1>1, <2>2
    <3>2. Tail(s)[k - 1] = s[k]
      BY <1>1, <3>1
    <3> QED BY <1>1, <3>1, <3>2 DEF Elems
  <2> QED BY <2>1, <2>2
<1>3. Elems(Tail(s)) \cup {Head(s)} \subseteq Elems(s)
  BY <1>1 DEF Elems
<1> QED
  BY <1>1, <1>2, <1>3

LEMMA EmptySeq == Elems(<<>>) = {} /\ DOMAIN <<>> = {} /\ <<>> \in Seq(Packets)
BY DEF Elems

(* Dropping the oldest packet from the codec keeps the order.              *)
LEMMA TailOrder ==
  ASSUME TypeOK, OrderInv, held # <<>>
  PROVE  /\ Tail(held) \in Seq(Packets)
         /\ Elems(Tail(held)) = Elems(held) \ {Head(held)}
         /\ Head(held) \in Elems(held)
         /\ \A n \in Elems(held) : Head(held) <= n
         /\ \A i, j \in DOMAIN Tail(held) : i < j => Tail(held)[i] < Tail(held)[j]
         /\ \A j \in DOMAIN Tail(held) : Head(held) < Tail(held)[j]
         /\ \A j \in DOMAIN Tail(held) : Tail(held)[j] \in Elems(held)
<1>0. held \in Seq(Packets) /\ \A k \in DOMAIN held : held[k] \in Packets
  BY DEF TypeOK
<1>1. /\ Head(held) = held[1] /\ Tail(held) \in Seq(Packets)
      /\ 1 \in DOMAIN held /\ DOMAIN held = 1..Len(held) /\ Len(held) \in Nat
      /\ DOMAIN Tail(held) = 1..(Len(held) - 1)
      /\ \A k \in 1..(Len(held) - 1) : Tail(held)[k] = held[k + 1]
      /\ Elems(held) = Elems(Tail(held)) \cup {Head(held)}
  BY <1>0, TailElems
<1>2. \A j \in DOMAIN Tail(held) : Head(held) < Tail(held)[j]
  BY <1>1 DEF OrderInv
<1>3. \A i, j \in DOMAIN Tail(held) : i < j => Tail(held)[i] < Tail(held)[j]
  BY <1>1 DEF OrderInv
<1>4. Head(held) \notin Elems(Tail(held))
  BY <1>0, <1>1, <1>2 DEF Elems, Packets
<1>5. \A n \in Elems(held) : Head(held) <= n
  <2> SUFFICES ASSUME NEW k \in DOMAIN held PROVE Head(held) <= held[k]
    BY DEF Elems
  <2>1. held[k] \in Int /\ held[1] \in Int
    BY <1>0, <1>1 DEF Packets
  <2>2. CASE k = 1
    BY <1>1, <2>1, <2>2
  <2>3. CASE k # 1
    BY <1>1, <2>1, <2>3 DEF OrderInv
  <2> QED BY <2>2, <2>3
<1> QED
  BY <1>1, <1>2, <1>3, <1>4, <1>5 DEF Elems
-------------------------------------------------------------------------------
(***************************************************************************)
(* The objects.                                                            *)
(***************************************************************************)

LEMMA OwnInvStep == OwnInv /\ CallInv /\ [Next]_vars => OwnInv'
<1> SUFFICES ASSUME OwnInv, CallInv, [Next]_vars PROVE OwnInv'
  OBVIOUS
<1> USE DEF OwnInv, OwnedOnce
<1>1. CASE init
  <2>1. PICK n \in 0..4 : /\ ptr' = InitOwns(n)
                          /\ heap' = IF n = 2 THEN {"fmt", "buf"} ELSE InitOwns(n)
                          /\ phase' = IF n = 4 THEN "ready" ELSE "broken"
    BY <1>1 DEF init
  <2>2. CASE n = 2
    <3>1. ptr' = {"fmt"} /\ heap' = {"fmt", "buf"} /\ phase' = "broken"
      BY <2>1, <2>2 DEF InitOwns
    <3> QED BY <3>1
  <2>3. CASE n # 2
    <3>1. ptr' = heap' /\ phase' \in {"ready", "broken"}
      BY <2>1, <2>3
    <3> QED BY <3>1
  <2> QED BY <2>2, <2>3
<1>2. CASE open
  BY <1>2 DEF open, OpenInputFails, NoCodec, GetCodec, owned
<1>3. CASE release
  BY <1>3 DEF release, Freed
<1>4. CASE Dtor
  BY <1>4 DEF Dtor, Freed
<1>5. CASE demux
  <2>1. UNCHANGED <<ptr, heap>> /\ phase = "streaming" /\ phase' \in {"streaming", "over"}
    BY <1>5 DEF demux, owned, DemuxPacket, DemuxAgain, DemuxEof, DemuxError
  <2> QED BY <2>1
<1>6. CASE decode
  <2>1. UNCHANGED <<ptr, heap>> /\ phase = "streaming" /\ phase' \in {"streaming", "over"}
    BY <1>6 DEF decode, owned, Sent, Return
  <2> QED BY <2>1
<1>7. CASE receive
  <2>1. UNCHANGED <<ptr, heap>> /\ phase = "streaming" /\ phase' \in {"streaming", "over"}
    BY <1>7 DEF receive, owned, ReceiveFrame, ReceiveAgain, ReceiveEof,
                ReceiveError, Return, CallInv
  <2> QED BY <2>1
<1>8. CASE UNCHANGED vars
  BY <1>8 DEF vars, owned
<1> QED
  BY <1>1, <1>2, <1>3, <1>4, <1>5, <1>6, <1>7, <1>8 DEF Next, Done
-------------------------------------------------------------------------------
(***************************************************************************)
(* The packets and pictures.                                               *)
(***************************************************************************)

PictureInv == TypeOK /\ CallInv /\ HungryInv /\ OrderInv

LEMMA PictureInvInit == Init => PictureInv
<1> SUFFICES ASSUME Init PROVE PictureInv
  OBVIOUS
<1>1. TypeOK
  <2>1. pos \in 0..MaxItems /\ m_decoded_frame_cnt \in 0..pos
    BY MaxItemsAssumption DEF Init
  <2>2. held \in Seq(Packets) /\ received \in Seq(Packets)
    BY EmptySeq DEF Init
  <2>3. ptr \subseteq Objects /\ heap \subseteq Objects /\ m_pkt \in Packets \cup {Empty}
    BY DEF Init
  <2> QED BY <2>1, <2>2, <2>3 DEF Init, TypeOK
<1>2. CallInv /\ HungryInv
  BY DEF Init, CallInv, HungryInv
<1>3. OrderInv
  BY EmptySeq DEF Init, OrderInv
<1> QED
  BY <1>1, <1>2, <1>3 DEF PictureInv

(* init and open touch no packet.                                          *)
LEMMA SetupStep ==
  ASSUME PictureInv, init \/ open
  PROVE  PictureInv'
<1>1. /\ UNCHANGED untouched
      /\ phase \in {"new", "ready"} /\ phase' \in {"ready", "broken", "streaming"}
      /\ ptr' \subseteq Objects /\ heap' \subseteq Objects
      /\ skip_frame' \in {"default", "nonref", "nonkey"}
      /\ phase' \in {"ready", "streaming"} => pos = 0 /\ ~cut
  <2>1. CASE init
    BY <2>1 DEF init, InitOwns, Objects, PictureInv, TypeOK, CallInv
  <2>2. CASE open
    BY <2>2 DEF open, OpenInputFails, NoCodec, GetCodec, SkipFrame, owned, PictureInv,
                TypeOK, CallInv, Objects
  <2> QED BY <2>1, <2>2
<1> USE DEF PictureInv, untouched, input, codec
<1>2. TypeOK'
  BY <1>1 DEF TypeOK
<1>3. CallInv' /\ HungryInv'
  BY <1>1 DEF CallInv, HungryInv
<1>4. OrderInv'
  BY <1>1 DEF OrderInv
<1> QED
  BY <1>2, <1>3, <1>4

LEMMA ReleaseStep ==
  ASSUME PictureInv, release \/ Dtor
  PROVE  PictureInv'
<1> USE DEF PictureInv
<1>1. CASE release
  <2>1. TypeOK'
    <3>1. /\ ptr' \subseteq Objects /\ heap' \subseteq Objects
          /\ held' \in Seq(Packets) /\ received' \in Seq(Packets)
          /\ m_pkt' \in Packets \cup {Empty}
      BY <1>1, EmptySeq DEF release, Freed, TypeOK
    <3>2. pos' \in 0..MaxItems /\ m_decoded_frame_cnt' \in 0..pos'
      BY <1>1, MaxItemsAssumption DEF release, TypeOK
    <3> QED BY <1>1, <3>1, <3>2 DEF release, TypeOK
  <2>2. CallInv' /\ HungryInv'
    BY <1>1 DEF release, CallInv, HungryInv
  <2>3. OrderInv'
    BY <1>1, EmptySeq DEF release, OrderInv
  <2> QED BY <2>1, <2>2, <2>3
<1>2. CASE Dtor
  <2>1. TypeOK'
    BY <1>2 DEF Dtor, Freed, TypeOK, codec
  <2>2. CallInv' /\ HungryInv'
    BY <1>2 DEF Dtor, CallInv, HungryInv, codec
  <2>3. OrderInv'
    BY <1>2 DEF Dtor, OrderInv, codec
  <2> QED BY <2>1, <2>2, <2>3
<1> QED
  BY <1>1, <1>2

LEMMA DemuxStep ==
  ASSUME PictureInv, demux
  PROVE  PictureInv'
<1> USE DEF PictureInv
<1>1. /\ phase = "streaming" /\ dpc = "idle" /\ ~fresh
      /\ UNCHANGED <<ptr, heap, skip_frame, dpc, eof, held, draining, hungry, received>>
  BY DEF demux, owned, codec
<1>2. /\ m_decoded_frame_cnt \in Nat /\ pos \in Nat
      /\ \A n \in Elems(held) \cup Elems(received) :
           n \in Nat /\ n <= m_decoded_frame_cnt
  BY <1>1, MaxItemsAssumption DEF TypeOK, OrderInv, Elems, Packets
<1>3. CASE DemuxPacket
  <2>1. /\ pos' = pos + 1 /\ pos < MaxItems
        /\ m_decoded_frame_cnt' = m_decoded_frame_cnt + 1
        /\ m_pkt' \in {m_decoded_frame_cnt + 1, Empty}
        /\ UNCHANGED <<phase, failed>> /\ fresh' = TRUE /\ ret' = "ok"
        /\ cut' \in BOOLEAN
    BY <1>3 DEF DemuxPacket, PictureInv, TypeOK
  <2>2. /\ pos' \in 0..MaxItems /\ m_decoded_frame_cnt' \in 0..pos'
        /\ m_pkt' \in Packets \cup {Empty}
    BY <2>1, <1>2, MaxItemsAssumption DEF TypeOK, Packets
  <2>3. TypeOK'
    BY <1>1, <2>1, <2>2 DEF TypeOK
  <2>4. CallInv' /\ HungryInv'
    BY <1>1, <2>1 DEF CallInv, HungryInv
  <2>5. OrderInv'
    BY <1>1, <1>2, <2>1 DEF OrderInv, Empty
  <2> QED BY <2>3, <2>4, <2>5
<1>4. CASE DemuxAgain \/ DemuxEof \/ DemuxError
  <2>0. MaxItems \in Nat /\ pos <= MaxItems
    BY MaxItemsAssumption DEF TypeOK
  <2>1. /\ pos' \in {pos, pos + 1} /\ pos' <= MaxItems
        /\ m_pkt' = Empty /\ m_decoded_frame_cnt' = m_decoded_frame_cnt
        /\ ret' \in {"again", "eof", "error"} /\ fresh' \in BOOLEAN
        /\ phase' \in {phase, "over"}
        /\ failed' \in BOOLEAN /\ (~failed' => ~failed)
        /\ cut' = cut
    <3>0. failed \in BOOLEAN /\ fresh \in BOOLEAN
      BY DEF TypeOK
    <3>1. CASE DemuxAgain
      BY <1>2, <2>0, <3>0, <3>1 DEF DemuxAgain
    <3>2. CASE DemuxEof
      BY <1>2, <2>0, <3>0, <3>2 DEF DemuxEof, input
    <3>3. CASE DemuxError
      BY <1>2, <2>0, <3>0, <3>3 DEF DemuxError, input
    <3> QED BY <1>4, <3>1, <3>2, <3>3
  <2>2. /\ pos' \in 0..MaxItems /\ m_decoded_frame_cnt' \in 0..pos'
    BY <2>1, <1>2, MaxItemsAssumption DEF TypeOK
  <2>3. TypeOK'
    BY <1>1, <2>1, <2>2 DEF TypeOK
  <2>4. CallInv' /\ HungryInv'
    BY <1>1, <2>1 DEF CallInv, HungryInv
  <2>5. OrderInv'
    BY <1>1, <1>2, <2>1 DEF OrderInv, Empty
  <2> QED BY <2>3, <2>4, <2>5
<1> QED
  BY <1>3, <1>4 DEF demux

(* What one answer of the codec, and decode's reaction to it, come to.     *)
LEMMA DecodeCases ==
  ASSUME PictureInv, decode
  PROVE  /\ phase = "streaming" /\ dpc = "idle" /\ fresh /\ fresh' = FALSE
         /\ eof' = (m_pkt = Empty)
         /\ UNCHANGED <<owned, input, received>>
         /\ \/ /\ draining /\ phase' = "over" /\ dpc' = "idle" /\ ret' = "eof"
               /\ UNCHANGED <<codec, m_pkt, failed>>
            \/ /\ ~draining /\ ~hungry /\ dpc' = "idle" /\ ret' = "again"
               /\ m_pkt' = Empty /\ UNCHANGED <<phase, codec, failed>>
            \/ /\ failed' = TRUE /\ dpc' = "idle" /\ ret' = "error"
               /\ UNCHANGED <<phase, codec, m_pkt>>
            \/ /\ ~draining /\ hungry' = FALSE
               /\ draining' = (m_pkt = Empty)
               /\ \/ held' = held /\ (m_pkt = Empty \/ Discardable(m_pkt))
                  \/ held' = Append(held, m_pkt) /\ m_pkt # Empty
               /\ \/ dpc' = "receive" /\ UNCHANGED <<ret, failed>>
                  \/ dpc' = "idle" /\ ret' = "noFrame" /\ failed' = TRUE
               /\ UNCHANGED <<phase, m_pkt>>
<1>1. PICK r \in {"ok", "again", "eof", "error"} : send_packet(r) /\ Sent(r)
  BY DEF decode
<1>2. CASE r = "eof"
  BY <1>1, <1>2 DEF decode, send_packet, Sent, Return
<1>3. CASE r = "again"
  BY <1>1, <1>3 DEF decode, send_packet, Sent, Return
<1>4. CASE r = "error"
  BY <1>1, <1>4 DEF decode, send_packet, Sent, Return
<1>5. CASE r = "ok"
  BY <1>1, <1>5 DEF decode, send_packet, Sent, Return
<1> QED
  BY <1>1, <1>2, <1>3, <1>4, <1>5

(* A packet that the codec accepts is the newest it holds.                 *)
LEMMA AcceptOrder ==
  ASSUME PictureInv, phase = "streaming", fresh, m_pkt # Empty
  PROVE  LET h == Append(held, m_pkt)
         IN  /\ h \in Seq(Packets)
             /\ Elems(h) = Elems(held) \cup {m_pkt}
             /\ \A i, j \in DOMAIN h : i < j => h[i] < h[j]
             /\ \A i \in DOMAIN received, j \in DOMAIN h : received[i] < h[j]
<1>1. m_pkt \in Packets /\ held \in Seq(Packets) /\ received \in Seq(Packets)
  BY DEF PictureInv, TypeOK
<1>2. /\ Append(held, m_pkt) \in Seq(Packets)
      /\ DOMAIN Append(held, m_pkt) = 1..(Len(held) + 1)
      /\ DOMAIN held = 1..Len(held) /\ Len(held) \in Nat
      /\ \A k \in 1..(Len(held) + 1) :
           Append(held, m_pkt)[k] = IF k = Len(held) + 1 THEN m_pkt ELSE held[k]
      /\ Elems(Append(held, m_pkt)) = Elems(held) \cup {m_pkt}
  BY <1>1, AppendElems
<1>3. /\ \A k \in DOMAIN held : held[k] < m_pkt
      /\ \A k \in DOMAIN received : received[k] < m_pkt
  BY DEF PictureInv, OrderInv, Elems
<1>4. /\ \A i, j \in DOMAIN held : i < j => held[i] < held[j]
      /\ \A i \in DOMAIN received, j \in DOMAIN held : received[i] < held[j]
  BY DEF PictureInv, OrderInv
<1> QED
  BY <1>2, <1>3, <1>4

LEMMA DecodeStep ==
  ASSUME PictureInv, decode
  PROVE  PictureInv'
<1>1. /\ phase = "streaming" /\ dpc = "idle" /\ fresh /\ fresh' = FALSE
      /\ eof' = (m_pkt = Empty)
      /\ UNCHANGED <<ptr, heap, skip_frame, pos, cut, m_decoded_frame_cnt, received>>
  BY DecodeCases DEF owned, input
<1>2. TypeOK /\ CallInv /\ HungryInv /\ OrderInv /\ failed \in BOOLEAN
  BY DEF PictureInv, TypeOK
<1>3. /\ phase' \in {"streaming", "over"} /\ dpc' \in {"idle", "receive"}
      /\ ret' \in {"ok", "again", "eof", "error", "noFrame"}
      /\ m_pkt' \in Packets \cup {Empty} /\ eof' \in BOOLEAN
      /\ hungry' \in BOOLEAN /\ draining' \in BOOLEAN /\ failed' \in BOOLEAN
  BY <1>2, DecodeCases DEF TypeOK, codec
<1>4. \/ held' = held
      \/ m_pkt # Empty /\ m_pkt' = m_pkt /\ held' = Append(held, m_pkt)
  BY DecodeCases DEF codec
<1>5. TypeOK'
  BY <1>1, <1>2, <1>3, <1>4, AcceptOrder DEF TypeOK
<1>6. CallInv'
  <2>1. dpc' = "receive" => phase' = "streaming" /\ (eof' => draining')
    BY <1>1, DecodeCases
  <2> QED BY <1>1, <1>3, <2>1 DEF CallInv
<1>7. HungryInv'
  BY <1>1, <1>2, DecodeCases DEF HungryInv, codec
<1>8. OrderInv'
  <2>1. \A n \in Elems(held') \cup Elems(received') : n <= m_decoded_frame_cnt
    <3>1. CASE held' = held
      BY <1>1, <1>2, <3>1 DEF OrderInv
    <3>2. CASE m_pkt # Empty /\ held' = Append(held, m_pkt)
      <4>1. Elems(held') = Elems(held) \cup {m_pkt}
        BY <1>1, <3>2, AcceptOrder
      <4>2. m_pkt <= m_decoded_frame_cnt
        BY <1>1, <1>2 DEF OrderInv
      <4> QED BY <1>1, <1>2, <4>1, <4>2 DEF OrderInv
    <3> QED BY <1>4, <3>1, <3>2
  <2>2. CASE held' = held
    BY <1>1, <1>2, <2>1, <2>2 DEF OrderInv
  <2>3. CASE m_pkt # Empty /\ held' = Append(held, m_pkt)
    BY <1>1, <2>1, <2>3, AcceptOrder DEF OrderInv
  <2> QED BY <1>4, <2>2, <2>3
<1> QED
  BY <1>5, <1>6, <1>7, <1>8 DEF PictureInv

LEMMA ReceiveStep ==
  ASSUME PictureInv, receive
  PROVE  PictureInv'
<1>1. /\ dpc = "receive" /\ phase = "streaming" /\ ~fresh /\ (eof => draining)
      /\ UNCHANGED <<ptr, heap, skip_frame, pos, cut, m_decoded_frame_cnt, m_pkt, fresh,
                     eof>>
  BY DEF receive, owned, input, PictureInv, CallInv
<1>2. TypeOK /\ CallInv /\ HungryInv /\ OrderInv
  BY DEF PictureInv
<1>3. CASE ReceiveFrame
  <2>1. /\ held # <<>> /\ held' = Tail(held)
        /\ received' = Append(received, Head(held))
        /\ UNCHANGED <<phase, ret, dpc, draining, hungry, failed>>
    BY <1>3 DEF ReceiveFrame
  <2>2. /\ Tail(held) \in Seq(Packets) /\ Head(held) \in Packets
        /\ received \in Seq(Packets)
    BY <1>2, <2>1, TailElems DEF TypeOK
  <2>3. /\ received' \in Seq(Packets)
        /\ DOMAIN received' = 1..(Len(received) + 1)
        /\ DOMAIN received = 1..Len(received) /\ Len(received) \in Nat
        /\ \A k \in 1..(Len(received) + 1) :
             received'[k] = IF k = Len(received) + 1 THEN Head(held) ELSE received[k]
        /\ Elems(received') = Elems(received) \cup {Head(held)}
    BY <2>1, <2>2, AppendElems
  <2>4. TypeOK'
    BY <1>1, <1>2, <2>1, <2>2, <2>3 DEF TypeOK
  <2>5. CallInv' /\ HungryInv'
    BY <1>1, <1>2, <2>1 DEF CallInv, HungryInv
  <2>6. \A i \in DOMAIN received', j \in DOMAIN held' : received'[i] < held'[j]
    <3> SUFFICES ASSUME NEW i \in DOMAIN received', NEW j \in DOMAIN held'
                 PROVE  received'[i] < held'[j]
      OBVIOUS
    <3>1. CASE i = Len(received) + 1
      BY <1>2, <2>1, <2>3, <3>1, TailOrder
    <3>2. CASE i # Len(received) + 1
      <4>1. i \in DOMAIN received /\ received'[i] = received[i]
        BY <2>3, <3>2
      <4>2. held'[j] \in Elems(held)
        BY <1>2, <2>1, TailOrder
      <4> QED BY <1>2, <4>1, <4>2 DEF OrderInv, Elems
    <3> QED BY <3>1, <3>2
  <2>7. OrderInv'
    BY <1>1, <1>2, <2>1, <2>3, <2>6, TailOrder DEF OrderInv
  <2> QED BY <2>4, <2>5, <2>7 DEF PictureInv
<1>4. CASE ReceiveAgain
  <2>1. /\ ~draining /\ hungry' = TRUE /\ dpc' = "idle" /\ ret' = "ok"
        /\ phase' = phase /\ UNCHANGED <<held, draining, received, failed>>
    BY <1>1, <1>4 DEF ReceiveAgain, Return
  <2>2. TypeOK'
    BY <1>1, <1>2, <2>1 DEF TypeOK
  <2>3. CallInv' /\ HungryInv'
    BY <1>1, <1>2, <2>1 DEF CallInv, HungryInv
  <2>4. OrderInv'
    BY <1>1, <1>2, <2>1 DEF OrderInv
  <2> QED BY <2>2, <2>3, <2>4 DEF PictureInv
<1>5. CASE ReceiveEof
  <2>1. /\ draining' = FALSE /\ hungry' = TRUE /\ dpc' = "idle" /\ ret' = "eof"
        /\ phase' = "over" /\ UNCHANGED <<held, received, failed>>
    BY <1>5 DEF ReceiveEof, Return
  <2>2. TypeOK'
    BY <1>1, <1>2, <2>1 DEF TypeOK
  <2>3. CallInv' /\ HungryInv'
    BY <1>1, <1>2, <2>1 DEF CallInv, HungryInv
  <2>4. OrderInv'
    BY <1>1, <1>2, <2>1 DEF OrderInv
  <2> QED BY <2>2, <2>3, <2>4 DEF PictureInv
<1>6. CASE ReceiveError
  <2>1. /\ held' = held \/ (held # <<>> /\ held' = Tail(held))
        /\ failed' = TRUE /\ dpc' = "idle" /\ ret' = "error" /\ phase' = phase
        /\ UNCHANGED <<draining, hungry, received>>
    BY <1>6 DEF ReceiveError, Return
  <2>2. TypeOK'
    BY <1>1, <1>2, <2>1, TailOrder DEF TypeOK
  <2>3. CallInv' /\ HungryInv'
    BY <1>1, <1>2, <2>1 DEF CallInv, HungryInv
  <2>4. OrderInv'
    <3>1. CASE held' = held
      BY <1>1, <1>2, <2>1, <3>1 DEF OrderInv
    <3>2. CASE held # <<>> /\ held' = Tail(held)
      <4>1. \A i \in DOMAIN received, j \in DOMAIN held' : received[i] < held'[j]
        BY <1>2, <3>2, TailOrder DEF OrderInv, Elems
      <4> QED BY <1>1, <1>2, <2>1, <3>2, <4>1, TailOrder DEF OrderInv
    <3> QED BY <2>1, <3>1, <3>2
  <2> QED BY <2>2, <2>3, <2>4 DEF PictureInv
<1> QED
  BY <1>3, <1>4, <1>5, <1>6 DEF receive

LEMMA PictureInvStep == PictureInv /\ [Next]_vars => PictureInv'
<1> SUFFICES ASSUME PictureInv, [Next]_vars PROVE PictureInv'
  OBVIOUS
<1>1. CASE UNCHANGED vars
  BY <1>1 DEF vars, owned, input, codec, PictureInv, TypeOK, CallInv, HungryInv,
              OrderInv
<1> QED
  BY <1>1, SetupStep, ReleaseStep, DemuxStep, DecodeStep, ReceiveStep DEF Next, Done

LEMMA EndInvStep == PictureInv /\ EndInv /\ [Next]_vars => EndInv'
<1> SUFFICES ASSUME PictureInv, EndInv, [Next]_vars PROVE EndInv'
  OBVIOUS
<1> USE DEF EndInv, AtEnd
<1>1. CASE init \/ open
  <2>1. UNCHANGED untouched
    BY <1>1 DEF init, open
  <2>2. ~cut \/ failed \/ phase' # "streaming"
    BY <1>1 DEF init, open, PictureInv, CallInv
  <2> QED BY <2>1, <2>2 DEF untouched, input, codec
<1>2. CASE release \/ Dtor
  BY <1>2 DEF release, Dtor, codec
<1>3. CASE demux
  <2>1. /\ phase = "streaming" /\ dpc = "idle" /\ ~fresh /\ dpc' = dpc
        /\ draining' = draining /\ (~failed => ~cut /\ ~draining)
        /\ pos \in Int /\ MaxItems \in Int /\ cut \in BOOLEAN
    BY <1>3, MaxItemsAssumption DEF demux, codec, PictureInv, HungryInv, TypeOK
  <2>2. CASE DemuxPacket
    <3>1. /\ pos < MaxItems /\ fresh' = TRUE /\ failed' = failed
          /\ cut' <=> (cut \/ m_pkt' = Empty)
      BY <2>1, <2>2 DEF DemuxPacket
    <3>2. draining' => cut'
      BY <2>1, <3>1
    <3> QED BY <2>1, <3>1, <3>2
  <2>3. CASE DemuxAgain
    BY <2>1, <2>3 DEF DemuxAgain
  <2>4. CASE DemuxEof
    BY <2>1, <2>4 DEF DemuxEof, input
  <2>5. CASE DemuxError
    BY <2>1, <2>5 DEF DemuxError, input
  <2> QED BY <1>3, <2>2, <2>3, <2>4, <2>5 DEF demux
<1>4. CASE decode
  <2>1. /\ UNCHANGED <<pos, cut>> /\ fresh /\ fresh' = FALSE
        /\ phase = "streaming" /\ dpc = "idle" /\ eof' = (m_pkt = Empty)
        /\ (draining \/ ~hungry => failed)
    BY <1>4, DecodeCases DEF input, PictureInv, HungryInv
  <2> QED BY <1>4, <2>1, DecodeCases DEF codec, PictureInv, TypeOK
<1>5. CASE receive
  <2>1. /\ UNCHANGED <<pos, cut, m_pkt, fresh, eof>> /\ dpc = "receive" /\ ~fresh
        /\ (eof => draining)
    BY <1>5 DEF receive, input, PictureInv, CallInv
  <2> QED BY <1>5, <2>1 DEF receive, ReceiveFrame, ReceiveAgain, ReceiveEof,
                            ReceiveError, Return
<1>6. CASE UNCHANGED vars
  BY <1>6 DEF vars, input, codec
<1> QED
  BY <1>1, <1>2, <1>3, <1>4, <1>5, <1>6 DEF Next, Done

LEMMA IInvAlways == Spec => []IInv
<1>1. Init => IInv
  BY PictureInvInit DEF Init, IInv, OwnInv, OwnedOnce, PictureInv, EndInv
<1>2. IInv /\ [Next]_vars => IInv'
  BY OwnInvStep, PictureInvStep, EndInvStep DEF IInv, PictureInv
<1> QED
  BY <1>1, <1>2, PTL DEF Spec

(* The state of Decoder, of its caller and of the codec keeps its type.    *)
THEOREM TypeCorrect == Spec => []TypeOK
<1>1. IInv => TypeOK
  BY DEF IInv
<1> QED
  BY <1>1, IInvAlways, PTL

(* release and the destructor free what init and open allocated, whatever  *)
(* failed before, and nothing twice; only init's buffer can be lost.       *)
THEOREM NoDoubleFree == Spec => []OwnedOnce
<1>1. IInv => OwnedOnce
  BY DEF IInv, OwnInv
<1> QED
  BY <1>1, IInvAlways, PTL
-------------------------------------------------------------------------------
(***************************************************************************)
(* Decoder implements FrameStream.                                         *)
(***************************************************************************)

LEMMA ElemsNames == InCodec = Elems(held)
BY DEF InCodec, Elems

LEMMA InitMaps == Init => FS!Init
BY EmptySeq, ElemsNames DEF Init, FS!Init, Waiting, Wanted, Status

(* init and the destructor change nothing FrameStream sees.                *)
LEMMA SetupMaps ==
  ASSUME IInv, init \/ Dtor
  PROVE  UNCHANGED FS!vars
<1>1. /\ UNCHANGED <<held, fresh, m_pkt, received, failed, pos, cut, skip_frame>>
      /\ m_decoded_frame_cnt' = m_decoded_frame_cnt
  BY DEF init, Dtor, untouched, codec, input, IInv, CallInv
<1>2. Status' = Status
  <2>1. CASE init
    BY <2>1 DEF init, Status
  <2>2. CASE Dtor
    BY <2>2 DEF Dtor, Status
  <2> QED BY <2>1, <2>2
<1> QED
  BY <1>1, <1>2 DEF FS!vars, FS!position, Waiting, Wanted, Discardable, InCodec

(* open settles which frames are skipped.                                  *)
LEMMA OpenMaps ==
  ASSUME IInv, open
  PROVE  FS!Next
<1>1. /\ UNCHANGED <<held, fresh, m_pkt, received, failed, pos, cut, m_decoded_frame_cnt>>
      /\ pos = 0
  BY DEF open, untouched, codec, input, IInv, CallInv
<1>2. Status = "on" /\ Status' = "on"
  BY DEF open, OpenInputFails, NoCodec, GetCodec, Status
<1>3. Waiting' = Waiting /\ Wanted' \in SUBSET Packets
  BY <1>1 DEF Waiting, InCodec, Wanted
<1> QED
  BY <1>1, <1>2, <1>3 DEF FS!Next, FS!Choose, FS!position

LEMMA ReleaseMaps ==
  ASSUME release
  PROVE  FS!Stop /\ Status # "stopped"
<1>1. /\ held' = <<>> /\ fresh' = FALSE /\ m_decoded_frame_cnt' = 0
      /\ UNCHANGED <<pos, cut, skip_frame, received, failed>>
  BY DEF release
<1>2. Status' = "stopped" /\ Status # "stopped"
  BY DEF release, Status
<1>3. Waiting' = {} /\ Wanted' = Wanted
  BY <1>1, EmptySeq DEF Waiting, InCodec, Elems, Wanted, Discardable
<1> QED
  BY <1>1, <1>2, <1>3 DEF FS!Stop

LEMMA DemuxMaps ==
  ASSUME IInv, demux
  PROVE  [FS!Next]_(FS!vars)
<1>1. /\ phase = "streaming" /\ dpc = "idle" /\ ~fresh
      /\ UNCHANGED <<held, received, skip_frame>>
  BY DEF demux, codec, owned
<1>2. /\ Waiting = Elems(held) /\ Status = "on" /\ InCodec' = Elems(held)
      /\ Wanted' = Wanted
  BY <1>1, ElemsNames DEF Waiting, Status, InCodec, Elems, Wanted, Discardable
<1>3. cut => failed
  BY <1>1 DEF IInv, EndInv, TypeOK
<1>4. CASE DemuxPacket
  <2>1. /\ pos < MaxItems /\ pos' = pos + 1
        /\ m_decoded_frame_cnt' = m_decoded_frame_cnt + 1
        /\ m_pkt' \in {m_decoded_frame_cnt', Empty} /\ fresh' = TRUE
        /\ cut' = (cut \/ m_pkt' = Empty)
        /\ UNCHANGED <<phase, failed>> /\ cut \in BOOLEAN
        /\ m_decoded_frame_cnt' # Empty
    BY <1>4, MaxItemsAssumption DEF DemuxPacket, IInv, TypeOK, Empty
  <2>2. ASSUME m_pkt' = m_decoded_frame_cnt' PROVE FS!Packet
    <3>1. Waiting' = Waiting \cup {m_decoded_frame_cnt'} /\ cut' = cut
      BY <1>2, <2>1, <2>2 DEF Waiting
    <3> QED BY <2>1, <3>1 DEF FS!Packet
  <2>3. ASSUME m_pkt' = Empty PROVE FS!PacketWithoutData
    <3>1. Waiting' = Waiting /\ cut' = TRUE
      BY <1>2, <2>1, <2>3 DEF Waiting
    <3> QED BY <2>1, <3>1 DEF FS!PacketWithoutData
  <2>4. FS!Packet \/ FS!PacketWithoutData
    BY <2>1, <2>2, <2>3
  <2>5. FS!Read
    BY <1>1, <1>2, <1>3, <2>1, <2>4 DEF FS!Read, Status
  <2> QED BY <1>2, <2>5 DEF FS!Next
<1>5. CASE DemuxAgain
  <2>1. /\ pos < MaxItems /\ pos' = pos + 1 /\ m_pkt' = Empty
        /\ UNCHANGED <<phase, failed, cut, m_decoded_frame_cnt>>
    BY <1>5 DEF DemuxAgain
  <2>2. Waiting' = Waiting
    BY <1>2, <2>1 DEF Waiting
  <2>3. FS!Read
    BY <1>1, <1>2, <1>3, <2>1, <2>2 DEF FS!Read, FS!PacketOfOther, Status
  <2> QED BY <1>2, <2>3 DEF FS!Next
<1>6. CASE DemuxEof
  <2>1. m_pkt' = Empty /\ UNCHANGED <<phase, failed, pos, cut, m_decoded_frame_cnt>>
    BY <1>6 DEF DemuxEof, input
  <2>2. Waiting' = Waiting
    BY <1>2, <2>1 DEF Waiting
  <2> QED BY <1>1, <1>2, <2>1, <2>2 DEF FS!vars, FS!position, Status
<1>7. CASE DemuxError
  <2>1. /\ m_pkt' = Empty /\ phase' = "over" /\ failed' = TRUE
        /\ UNCHANGED <<pos, cut, m_decoded_frame_cnt>>
    BY <1>7 DEF DemuxError, input
  <2>2. Waiting' = Waiting /\ Status' = "ended"
    BY <1>2, <2>1 DEF Waiting, Status
  <2>3. FS!Fail
    BY <1>1, <1>2, <2>1, <2>2 DEF FS!Fail, FS!position
  <2> QED BY <1>2, <2>3 DEF FS!Next
<1> QED
  BY <1>4, <1>5, <1>6, <1>7 DEF demux

LEMMA DecodeMaps ==
  ASSUME IInv, decode
  PROVE  [FS!Next]_(FS!vars)
<1>0. PictureInv
  BY DEF IInv, PictureInv
<1>1. /\ phase = "streaming" /\ dpc = "idle" /\ fresh /\ ~fresh' /\ received' = received
      /\ Status = "on" /\ UNCHANGED <<FS!position, skip_frame>>
  BY <1>0, DecodeCases DEF Status, FS!position, input, owned
<1>8. Wanted' = Wanted
  BY <1>1 DEF Wanted, Discardable
<1>2. /\ Waiting = Elems(held) \cup ({m_pkt} \ {Empty})
      /\ Waiting' = Elems(held')
  BY <1>1, ElemsNames DEF Waiting, InCodec, Elems
<1>3. Status' \in {"on", "ended"} /\ (phase' = phase => Status' = Status)
  BY <1>0, <1>1, DecodeCases DEF Status
<1>4. CASE held' = held /\ failed' = TRUE
  <2>1. Waiting' \in SUBSET Waiting
    BY <1>2, <1>4
  <2>2. FS!Fail
    BY <1>1, <1>3, <1>4, <1>8, <2>1 DEF FS!Fail
  <2> QED BY <1>1, <2>2 DEF FS!Next
<1>5. CASE m_pkt # Empty /\ held' = Append(held, m_pkt) /\ phase' = phase
  <2>1. Waiting' = Waiting
    BY <1>0, <1>1, <1>2, <1>5, AcceptOrder
  <2>2. CASE failed' = failed
    BY <1>1, <1>3, <1>5, <1>8, <2>1, <2>2 DEF FS!vars
  <2>3. CASE failed' = TRUE
    <3>1. FS!Fail
      BY <1>1, <1>3, <1>8, <2>1, <2>3 DEF FS!Fail
    <3> QED BY <1>1, <3>1 DEF FS!Next
  <2> QED BY <1>0, <2>2, <2>3, <1>5, DecodeCases
<1>6. CASE m_pkt = Empty /\ held' = held /\ phase' = phase /\ failed' = failed
  <2>1. Waiting' = Waiting
    BY <1>2, <1>6
  <2> QED BY <1>1, <1>3, <1>6, <1>8, <2>1 DEF FS!vars
<1>9. CASE /\ m_pkt # Empty /\ Discardable(m_pkt) /\ held' = held
           /\ phase' = phase /\ failed' = failed
  <2>1. m_pkt \in Packets /\ m_pkt \notin Elems(held)
    BY <1>0, <1>1, <1>9 DEF PictureInv, TypeOK, OrderInv, Packets
  <2>2. m_pkt \in Waiting \ Wanted /\ Waiting' = Waiting \ {m_pkt}
    BY <1>2, <1>9, <2>1 DEF Wanted
  <2>3. FS!Discard
    BY <1>1, <1>3, <1>8, <1>9, <2>2 DEF FS!Discard
  <2> QED BY <1>1, <2>3 DEF FS!Next
<1>7. draining \/ ~hungry => failed = TRUE
  BY <1>0, <1>1 DEF PictureInv, HungryInv, TypeOK
<1> QED
  BY <1>0, <1>4, <1>5, <1>6, <1>7, <1>9, DecodeCases DEF codec

LEMMA ReceiveMaps ==
  ASSUME IInv, receive
  PROVE  [FS!Next]_(FS!vars)
<1>1. /\ phase = "streaming" /\ ~fresh /\ (eof => draining)
      /\ fresh' = fresh /\ m_pkt' = m_pkt
      /\ Status = "on" /\ TypeOK /\ OrderInv /\ EndInv
      /\ UNCHANGED <<FS!position, skip_frame>>
  BY DEF receive, IInv, CallInv, Status, FS!position, input, owned
<1>2. Waiting = Elems(held) /\ Waiting' = Elems(held')
  BY <1>1, ElemsNames DEF Waiting, InCodec, Elems
<1>7. Wanted' = Wanted
  BY <1>1 DEF Wanted, Discardable
<1>3. CASE ReceiveFrame
  <2>1. /\ held # <<>> /\ held' = Tail(held)
        /\ received' = Append(received, Head(held)) /\ UNCHANGED <<phase, failed>>
    BY <1>3 DEF ReceiveFrame
  <2>2. /\ Head(held) \in Waiting /\ \A n \in Waiting : Head(held) <= n
        /\ Waiting' = Waiting \ {Head(held)}
    BY <1>1, <1>2, <2>1, TailOrder
  <2>3. FS!Show
    BY <1>1, <1>7, <2>1, <2>2 DEF FS!Show, Status
  <2> QED BY <1>1, <2>3 DEF FS!Next
<1>4. CASE ReceiveAgain
  <2>1. UNCHANGED <<phase, held, received, failed>>
    BY <1>1, <1>4 DEF ReceiveAgain, Return
  <2> QED BY <1>1, <1>2, <1>7, <2>1 DEF FS!vars, Status
<1>5. CASE ReceiveEof
  <2>1. held = <<>> /\ phase' = "over" /\ UNCHANGED <<held, received, failed>>
    BY <1>5 DEF ReceiveEof, Return
  <2>2. Waiting = {} /\ Waiting' = {} /\ Status' = "ended"
    BY <1>2, <2>1, EmptySeq DEF Status
  <2>3. FS!End
    BY <1>1, <1>5, <1>7, <2>1, <2>2 DEF FS!End, ReceiveEof, EndInv, AtEnd
  <2> QED BY <1>1, <2>3 DEF FS!Next
<1>6. CASE ReceiveError
  <2>1. /\ held' = held \/ (held # <<>> /\ held' = Tail(held))
        /\ failed' = TRUE /\ UNCHANGED <<phase, received>>
    BY <1>6 DEF ReceiveError, Return
  <2>2. Waiting' \in SUBSET Waiting
    BY <1>1, <1>2, <2>1, TailOrder
  <2>3. FS!Fail
    BY <1>1, <1>7, <2>1, <2>2 DEF FS!Fail, Status
  <2> QED BY <1>1, <2>3 DEF FS!Next
<1> QED
  BY <1>3, <1>4, <1>5, <1>6 DEF receive

LEMMA RefinementStep == IInv /\ [Next]_vars => [FS!Next]_(FS!vars)
<1> SUFFICES ASSUME IInv, [Next]_vars PROVE [FS!Next]_(FS!vars)
  OBVIOUS
<1>1. CASE release
  BY <1>1, ReleaseMaps DEF FS!Next
<1>2. CASE UNCHANGED vars
  BY <1>2 DEF vars, codec, input, owned, FS!vars, FS!position, Waiting, InCodec, Wanted,
              Discardable, Status
<1> QED
  BY <1>1, <1>2, SetupMaps, OpenMaps, DemuxMaps, DecodeMaps, ReceiveMaps DEF Next, Done

(* Every picture the codec was not told to skip is shown once and in order *)
(* and without a failure none is lost; the caller is told of the end when  *)
(* the input was read to its end, or up to a packet without data, and all  *)
(* is shown.                                                               *)
THEOREM ImplementsFrameStream == Spec => FrameStreamSpec
BY InitMaps, RefinementStep, IInvAlways, PTL DEF Spec, FrameStreamSpec, FS!Spec
===============================================================================
