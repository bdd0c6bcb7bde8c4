-------------------------------- MODULE Decoder --------------------------------
(***************************************************************************)
(* Decoder and DecoderImpl: the objects they own from init to release, and *)
(* the way of a packet from av_read_frame through the codec to the caller's*)
(* m_cb_recv_frame.  One thread calls.                                     *)
(*                                                                         *)
(* libavformat and libavcodec are external.  The codec holds packets back, *)
(* at most Delay when it asks for more; it refuses a packet only while a   *)
(* picture waits to be read; after it was drained it wants a flush.        *)
(* A packet is known by the value of m_decoded_frame_cnt it was given, and *)
(* a picture by its packet's, counted in the order the codec shows them.   *)
(* Told to skip frames, the codec may give no picture for those packets.   *)
(***************************************************************************)
EXTENDS Integers, Sequences

CONSTANTS MaxItems,  \* what the input yields before its end
          Delay,     \* packets the codec keeps while it asks for another
          Kind,      \* "key", "ref" or "nonref": the frame in each packet
          SkipFrames \* what the option -s may set m_skip_frame to

ASSUME MaxItemsAssumption == MaxItems \in Nat
ASSUME DelayAssumption == Delay \in Nat
ASSUME KindAssumption == Kind \in [1..MaxItems -> {"key", "ref", "nonref"}]
ASSUME SkipFramesAssumption == SkipFrames \subseteq Int

VARIABLES phase,     \* how far the caller is
          ptr,       \* objects a member of DecoderImpl leads to
          heap,      \* objects allocated and not freed
          skip_frame,\* the frames the codec is told to skip
          pos,       \* what was read of the input
          cut,       \* a packet of the stream had no data (for the properties)
          m_decoded_frame_cnt,
          m_pkt,     \* the packet m_pkt points to, or Empty
          fresh,     \* m_pkt is the answer to demux and was not decoded yet
          dpc,       \* "receive" inside decode's loop, else "idle"
          eof,       \* decode's local
          ret,       \* what the last call returned
          held,      \* packets in the codec (external)
          draining,  \* the codec was told the end (external)
          hungry,    \* the codec asked for input (external)
          received,  \* pictures m_cb_recv_frame was given (external)
          failed     \* a library call has failed (external)

owned == <<ptr, heap, skip_frame>>
input == <<pos, cut, m_decoded_frame_cnt>>
codec == <<held, draining, hungry>>
vars == <<phase, owned, input, m_pkt, fresh, dpc, eof, ret, codec, received, failed>>

Empty == 0  \* data NULL and size 0
Objects == {"fmt", "buf", "io", "pkt", "codec"}
Packets == 1..MaxItems

TypeOK == /\ phase \in {"new", "ready", "broken", "streaming", "over", "released", "gone"}
          /\ ptr \subseteq Objects /\ heap \subseteq Objects
          /\ skip_frame \in {"default", "nonref", "nonkey"}
          /\ pos \in 0..MaxItems
          /\ cut \in BOOLEAN
          /\ m_decoded_frame_cnt \in 0..pos
          /\ m_pkt \in Packets \cup {Empty}
          /\ fresh \in BOOLEAN /\ eof \in BOOLEAN
          /\ dpc \in {"idle", "receive"}
          /\ ret \in {"ok", "again", "eof", "error", "noFrame"}
          /\ held \in Seq(Packets)
          /\ draining \in BOOLEAN /\ hungry \in BOOLEAN
          /\ received \in Seq(Packets)
          /\ failed \in BOOLEAN

(***************************************************************************)
(* init, open and release.                                                 *)
(***************************************************************************)

untouched == <<input, m_pkt, fresh, dpc, eof, ret, codec, received, failed>>

\* The objects reached from the members when n allocations succeed: the
\* buffer is a local of init until the I/O context takes it.
InitOwns(n) == CASE n = 0 -> {}
                 [] n \in {1, 2} -> {"fmt"}
                 [] n = 3 -> {"fmt", "buf", "io"}
                 [] n = 4 -> {"fmt", "buf", "io", "pkt"}

init == /\ phase = "new"
        /\ \E n \in 0..4 : /\ ptr' = InitOwns(n)
                           /\ heap' = IF n = 2 THEN {"fmt", "buf"} ELSE InitOwns(n)
                           /\ phase' = IF n = 4 THEN "ready" ELSE "broken"
        /\ UNCHANGED <<untouched, skip_frame>>

\* avformat_open_input frees the context it cannot open and clears m_fmt_ctx.
OpenInputFails == /\ ptr' = ptr \ {"fmt"}
                  /\ heap' = heap \ {"fmt"}
                  /\ phase' = "broken"
                  /\ UNCHANGED skip_frame

\* No stream, no codec or no memory for its context.
NoCodec == phase' = "broken" /\ UNCHANGED owned

\* What m_skip_frame asks of the codec; other values ask for nothing.
SkipFrame(m) == CASE m = 1 -> "nonref"
                  [] m = 2 -> "nonkey"
                  [] OTHER -> "default"

\* The codec's context stays when its parameters or the codec are refused.
\* m_get_buffer only decides whether the codec gets its pictures' memory from
\* lavc_GetFrame (module FramePool) or allocates it itself.
GetCodec == /\ ptr' = ptr \cup {"codec"}
            /\ heap' = heap \cup {"codec"}
            /\ \E m \in SkipFrames : skip_frame' = SkipFrame(m)
            /\ phase' \in {"broken", "streaming"}

open == /\ phase = "ready"
        /\ OpenInputFails \/ NoCodec \/ GetCodec
        /\ UNCHANGED untouched

\* Mutant: the member still points to the freed I/O context.
FreedKeepingIo == /\ heap' = heap \ ptr
                  /\ ptr' = ptr \cap {"io", "buf"}

\* Each member that is set is freed and cleared.
Freed == /\ heap' = heap \ ptr
         /\ ptr' = {}

\* The caller may release at any time; the destructor releases again.
release == /\ phase \notin {"released", "gone"}
           /\ dpc = "idle"
           /\ Freed
           /\ phase' = "released"
           /\ m_decoded_frame_cnt' = 0
           /\ m_pkt' = Empty
           /\ fresh' = FALSE
           /\ held' = <<>> /\ draining' = FALSE /\ hungry' = TRUE
           /\ UNCHANGED <<skip_frame, pos, cut, dpc, eof, ret, received, failed>>

Dtor == /\ phase = "released"
        /\ Freed
        /\ m_decoded_frame_cnt' = 0
        /\ phase' = "gone"
        /\ UNCHANGED <<skip_frame, pos, cut, m_pkt, fresh, dpc, eof, ret, codec,
                       received, failed>>

(***************************************************************************)
(* demux.                                                                  *)
(***************************************************************************)

\* A packet of the stream, which may be one without data.
DemuxPacket == /\ pos < MaxItems
               /\ pos' = pos + 1
               /\ m_decoded_frame_cnt' = m_decoded_frame_cnt + 1
               /\ m_pkt' \in {m_decoded_frame_cnt', Empty}
               /\ cut' = (cut \/ m_pkt' = Empty)
               /\ fresh' = TRUE
               /\ ret' = "ok"
               /\ UNCHANGED <<phase, failed>>

\* Mutant: the caller is not told that there is nothing to decode.
DemuxAgainAsOk == /\ pos < MaxItems
                  /\ pos' = pos + 1
                  /\ m_pkt' = Empty
                  /\ fresh' = TRUE
                  /\ ret' = "ok"
                  /\ UNCHANGED <<phase, cut, m_decoded_frame_cnt, failed>>

\* Another stream's packet, or no packet yet.
DemuxAgain == /\ pos < MaxItems
              /\ pos' = pos + 1
              /\ m_pkt' = Empty
              /\ ret' = "again"
              /\ UNCHANGED <<phase, cut, m_decoded_frame_cnt, fresh, failed>>

\* Mutant: the end of the input is counted as a packet.
DemuxEofCounted == /\ pos = MaxItems
                   /\ m_decoded_frame_cnt' = m_decoded_frame_cnt + 1
                   /\ m_pkt' = Empty
                   /\ fresh' = TRUE
                   /\ ret' = "eof"
                   /\ UNCHANGED <<phase, pos, cut, failed>>

DemuxEof == /\ pos = MaxItems
            /\ m_pkt' = Empty
            /\ fresh' = TRUE
            /\ ret' = "eof"
            /\ UNCHANGED <<phase, input, failed>>

\* The caller gives up.
DemuxError == /\ pos < MaxItems
              /\ m_pkt' = Empty
              /\ ret' = "error"
              /\ phase' = "over"
              /\ failed' = TRUE
              /\ UNCHANGED <<input, fresh>>

\* Callers decode what they demuxed before they demux again.
demux == /\ phase = "streaming"
         /\ dpc = "idle"
         /\ ~fresh
         /\ DemuxPacket \/ DemuxAgain \/ DemuxEof \/ DemuxError
         /\ UNCHANGED <<owned, dpc, eof, codec, received>>

(***************************************************************************)
(* decode.                                                                 *)
(***************************************************************************)

\* The codec may discard packet n.
Discardable(n) == \/ skip_frame = "nonref" /\ Kind[n] = "nonref"
                  \/ skip_frame = "nonkey" /\ Kind[n] # "key"

\* avcodec_send_packet answers r.  An empty packet is the order to drain.
send_packet(r) ==
  \/ draining /\ r = "eof" /\ UNCHANGED codec
  \/ /\ ~draining /\ ~hungry /\ held # <<>>
     /\ r = "again"
     /\ UNCHANGED codec
  \/ /\ ~draining /\ m_pkt # Empty
     /\ r = "error"
     /\ UNCHANGED codec
  \/ /\ ~draining
     /\ r = "ok"
     /\ hungry' = FALSE
     /\ draining' = (m_pkt = Empty)
     /\ held' \in IF m_pkt = Empty THEN {held}
                  ELSE {Append(held, m_pkt)} \cup
                       (IF Discardable(m_pkt) THEN {held} ELSE {})

\* Mutant: the end of the stream is not the end for the caller.
ReturnEofAsOk(v) == /\ ret' = v
                    /\ dpc' = "idle"
                    /\ UNCHANGED phase

\* decode returns v, and the caller goes on unless that is the end.
Return(v) == /\ ret' = v
             /\ dpc' = "idle"
             /\ phase' = IF v = "eof" THEN "over" ELSE phase

\* What decode does with the answer; then it needs a frame to receive into.
Sent(r) == \/ /\ r = "eof"
              /\ Return("eof") /\ UNCHANGED <<m_pkt, failed>>
           \/ /\ r = "again"
              /\ Return("again") /\ m_pkt' = Empty /\ UNCHANGED failed
           \/ /\ r = "error"
              /\ Return("error") /\ failed' = TRUE /\ UNCHANGED m_pkt
           \/ /\ r = "ok"
              /\ \/ dpc' = "receive" /\ UNCHANGED <<phase, ret, failed>>
                 \/ Return("noFrame") /\ failed' = TRUE
              /\ UNCHANGED m_pkt

decode == /\ phase = "streaming"
          /\ dpc = "idle"
          /\ fresh
          /\ fresh' = FALSE
          /\ eof' = (m_pkt = Empty)
          /\ \E r \in {"ok", "again", "eof", "error"} : send_packet(r) /\ Sent(r)
          /\ UNCHANGED <<owned, input, received>>

ReceiveFrame == /\ held # <<>>
                /\ held' = Tail(held)
                /\ received' = Append(received, Head(held))
                /\ UNCHANGED <<phase, ret, dpc, draining, hungry, failed>>

\* The codec shows nothing before it gets more.
ReceiveAgain == /\ ~draining
                /\ Len(held) <= Delay
                /\ hungry' = TRUE
                /\ Return(IF eof THEN "eof" ELSE "ok")
                /\ UNCHANGED <<held, draining, received, failed>>

\* Everything is drained, and the codec is flushed for further use.
ReceiveEof == /\ draining
              /\ held = <<>>
              /\ draining' = FALSE
              /\ hungry' = TRUE
              /\ Return("eof")
              /\ UNCHANGED <<held, received, failed>>

\* A packet could not be decoded, or memory is short.
ReceiveError == /\ \/ UNCHANGED held
                   \/ held # <<>> /\ held' = Tail(held)
                /\ failed' = TRUE
                /\ Return("error")
                /\ UNCHANGED <<draining, hungry, received>>

receive == /\ dpc = "receive"
           /\ ReceiveFrame \/ ReceiveAgain \/ ReceiveEof \/ ReceiveError
           /\ UNCHANGED <<owned, input, m_pkt, fresh, eof>>

(***************************************************************************)
(* The caller.                                                             *)
(***************************************************************************)

Init == /\ phase = "new"
        /\ ptr = {} /\ heap = {}
        /\ skip_frame = "default"
        /\ pos = 0 /\ cut = FALSE
        /\ m_decoded_frame_cnt = 0
        /\ m_pkt = Empty /\ fresh = FALSE
        /\ dpc = "idle" /\ eof = FALSE /\ ret = "ok"
        /\ held = <<>> /\ draining = FALSE /\ hungry = TRUE
        /\ received = <<>>
        /\ failed = FALSE

Done == phase = "gone" /\ UNCHANGED vars

Next == init \/ open \/ demux \/ decode \/ receive \/ release \/ Dtor \/ Done

Spec == Init /\ [][Next]_vars

\* The caller's loop goes on until it is stopped.
FairSpec == Spec /\ WF_vars(demux \/ decode \/ receive)

(***************************************************************************)
(* Properties.                                                             *)
(***************************************************************************)

\* No member leads to a freed object, so no second release frees it again,
\* and nothing allocated is out of reach but the buffer that init drops when
\* it gets no I/O context.
OwnedOnce == /\ ptr \subseteq heap
             /\ heap \ ptr \subseteq {"buf"}
             /\ "buf" \in heap \ ptr => phase \in {"broken", "released", "gone"}

\* Every picture the codec was not told to skip reaches the caller once and in
\* order, and without a failure none is lost: decode never drops a packet the
\* codec refuses, since it reads all there is.  The caller is told of the end
\* when the input was read to its end and all is shown, or else after a packet
\* without data, which decode takes for the end (ZeroSizedSkipped).
InCodec == {held[k] : k \in DOMAIN held}
Waiting == InCodec \cup (IF fresh THEN {m_pkt} \ {Empty} ELSE {})
Wanted == {n \in Packets : ~Discardable(n)}
Status == CASE phase \in {"released", "gone"} -> "stopped"
            [] phase = "over" -> "ended"
            [] OTHER -> "on"
FS == INSTANCE FrameStream
        WITH Items <- MaxItems, Packets <- Packets, read <- pos,
             packets <- m_decoded_frame_cnt, cut <- cut, wanted <- Wanted,
             waiting <- Waiting, shown <- received, status <- Status
FrameStreamSpec == FS!Spec

\* When nothing fails the caller's loop ends.
Ends == (phase = "streaming") ~> (failed \/ phase # "streaming")

\* A packet of the stream without data does not trigger the end and is
\* skipped (comment at Decoder.cpp:372).
ZeroSizedSkipped ==
  [][(decode /\ m_pkt = Empty /\ ret = "ok") => ~draining']_vars
===============================================================================
