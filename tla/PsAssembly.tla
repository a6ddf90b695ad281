----------------------------- MODULE PsAssembly -----------------------------
(***************************************************************************)
(* The packet path of RtpAssembly composed with PsDemux: the decoding      *)
(* thread takes the nodes that inputRtpBuffer queues and takes the H.264   *)
(* data out of each, whole or damaged.                                     *)
(***************************************************************************)
EXTENDS RtpAssembly, PsDemux

CONSTANTS
    Payload,        \* Payload[p]: the bytes of packet p
    Video           \* Video[h]: the H.264 data of the frame with header packet h

ASSUME PayloadAssumption ==
    /\ Payload \in [Packets -> Seq(Byte)]
    /\ DOMAIN Video = Headers

VARIABLE node       \* the node the decoding thread deals with

vars == <<rtpVars, psVars, node>>

NoNode == RtpDataNode(FALSE, <<>>, -1)

Init == RtpInit /\ DemuxInit /\ node = NoNode

\* What memcpy has put one after another into a buffer.
Glue(pieces) ==
    LET upTo[k \in 0 .. Len(pieces)] == IF k = 0 THEN <<>> ELSE upTo[k - 1] \o pieces[k]
    IN  upTo[Len(pieces)]

\* The bytes of mRtpBuffer.
Bytes(s) == Glue([i \in 1 .. Len(s) |-> Payload[s[i]]])

Dequeue ==
    /\ at = "idle" /\ mList # <<>>
    /\ mList' = Tail(mList)
    /\ UNCHANGED <<netVars, packetlist, inDataAccess, mRtpBuffer,
                   mIsCurrentFrameLostPacket, mLastSequenceNumber>>

\* The decoding thread takes a node that starts with a pack header to the demultiplexer.
DealwithDataNode ==
    /\ Dequeue
    /\ StartsWithHeader(Head(mList))
    /\ GetH264FromPs(Bytes(Head(mList).buffer))
    /\ node' = Head(mList)

\* It frees any other node.
FreeNode ==
    /\ Dequeue
    /\ ~StartsWithHeader(Head(mList))
    /\ UNCHANGED <<psVars, node>>

Demux ==
    /\ DemuxStep
    /\ node' = IF at' = "idle" THEN NoNode ELSE node
    /\ UNCHANGED rtpVars

Network == RtpNext /\ UNCHANGED <<psVars, node>>

\* A crash ends the program.
Next == at # "crashed" /\ (Network \/ DealwithDataNode \/ FreeNode \/ Demux)

Spec == Init /\ [][Next]_vars

-----------------------------------------------------------------------------
(* Properties.                                                             *)

\* What mH264buf holds.
Copied ==
    Glue([i \in 1 .. Len(copies) |->
             SubSeq(buffer, copies[i].from + 1, copies[i].from + copies[i].len)])

\* A node that is not marked as lost gives the decoder the H.264 data of its frame, byte
\* for byte, however the sections were cut into packets.
FramesAreDemuxed ==
    at = "done" /\ ~node.isLostPacket => Copied = Video[node.buffer[1]]

\* Only the loss of packets can make a length run past its section and memcpy with it:
\* the demultiplexer is safe on every node that is not marked as lost.
OnlyLossCrashes == at = "crashed" => node.isLostPacket
=============================================================================
