------------------------------ MODULE FrameStream ------------------------------
(***************************************************************************)
(* What a decoder promises its caller: it reads the input to its end, or   *)
(* to the first packet without data, which it takes for the end; the       *)
(* pictures of the packets read before are shown once each and in order,   *)
(* but for those the codec may discard; and the end is not reported before *)
(* all are shown.  What fails may cost pictures, and the rest of the input.*)
(***************************************************************************)
EXTENDS Integers, Sequences

CONSTANTS Items,   \* what the input yields before its end
          Packets  \* numbers of the stream's packets

VARIABLES read,     \* how much of the input was read
          packets,  \* packets of the stream among it, known by their number
          cut,      \* one of them had no data
          wanted,   \* packets whose pictures may not be discarded
          waiting,  \* packets read whose picture is not shown yet
          shown,    \* pictures shown, first to last
          failed,   \* something failed
          status    \* "on", "ended" or "stopped"

position == <<read, packets, cut>>
vars == <<position, wanted, waiting, shown, failed, status>>

Init == /\ read = 0 /\ packets = 0 /\ cut = FALSE
        /\ wanted \in SUBSET Packets
        /\ waiting = {}
        /\ shown = <<>>
        /\ failed = FALSE
        /\ status = "on"

\* Which pictures are wanted is settled before anything is read.
Choose == /\ status = "on" /\ read = 0
          /\ wanted' \in SUBSET Packets
          /\ UNCHANGED <<position, waiting, shown, failed, status>>

PacketOfOther == UNCHANGED <<packets, cut, waiting>>

Packet == /\ packets' = packets + 1
          /\ waiting' = waiting \cup {packets'}
          /\ UNCHANGED cut

PacketWithoutData == /\ packets' = packets + 1
                     /\ cut' = TRUE
                     /\ UNCHANGED waiting

\* After a packet without data nothing is read, unless something failed.
Read == /\ status = "on"
        /\ read < Items
        /\ cut => failed
        /\ read' = read + 1
        /\ PacketOfOther \/ Packet \/ PacketWithoutData
        /\ UNCHANGED <<wanted, shown, failed, status>>

Show == /\ status = "on"
        /\ \E n \in waiting : /\ \A m \in waiting : n <= m
                              /\ waiting' = waiting \ {n}
                              /\ shown' = Append(shown, n)
        /\ UNCHANGED <<position, wanted, failed, status>>

Discard == /\ status = "on"
           /\ \E n \in waiting \ wanted : waiting' = waiting \ {n}
           /\ UNCHANGED <<position, wanted, shown, failed, status>>

\* A failure, or a late consequence of one, may lose pictures and may be the
\* end of everything.
Fail == /\ failed' = TRUE
        /\ waiting' \in SUBSET waiting
        /\ status' \in {status, "ended"}
        /\ UNCHANGED <<position, wanted, shown>>

End == /\ status = "on"
       /\ cut \/ read = Items
       /\ waiting = {}
       /\ status' = "ended"
       /\ UNCHANGED <<position, wanted, waiting, shown, failed>>

\* The caller may give up at any time.
Stop == /\ status' = "stopped"
        /\ waiting' = {}
        /\ packets' = 0
        /\ UNCHANGED <<read, cut, wanted, shown, failed>>

Next == /\ status # "stopped"
        /\ Choose \/ Read \/ Show \/ Discard \/ Fail \/ End \/ Stop

Spec == Init /\ [][Next]_vars
===============================================================================
