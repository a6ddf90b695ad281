--------------------------- MODULE VideoPipeline ---------------------------
(***************************************************************************)
(* A video channel from the network to the screen: the packet path of      *)
(* RtpAssembly composed with the channel's decoding thread, that is the    *)
(* loop of DataListThread::run around VideoChannel::dealwithDataNode and   *)
(* VideoChannel::decodeH264Buffer.  The two threads share mList.           *)
(*                                                                         *)
(* libavcodec is modelled from outside: it takes one buffer at a time,     *)
(* keeps at most DecoderDelay of them, returns pictures in order and any   *)
(* number of them in a call, and may refuse a buffer that is no whole      *)
(* frame.  The channel opens a hardware decoder or one with eight threads; *)
(* both keep pictures.                                                     *)
(***************************************************************************)
EXTENDS RtpAssembly, FiniteSets

CONSTANTS
    KeyHeaders,     \* the headers of I frames: their packet holds the SPS
    DecoderDelay    \* how many pictures libavcodec may keep between two calls

ASSUME PipelineAssumption ==
    /\ KeyHeaders \subseteq Headers
    /\ DecoderDelay \in Nat

VARIABLES
    mIsThreadRunning,           \* the decoding thread has passed threadStart
    node,                       \* the node popped and not yet dealt with, or NoNode
    mIsKeyFrameGetted,
    mIsLastKeyFrameLostPacket,
    decoder,                    \* buffers libavcodec holds, oldest first
    displayed,                  \* the buffers whose pictures were shown
    passed                      \* history: the buffers decoded as not damaged

screenVars == <<decoder, displayed, passed>>
workerVars == <<mIsThreadRunning, node, mIsKeyFrameGetted,
                mIsLastKeyFrameLostPacket, screenVars>>
vars == <<rtpVars, workerVars>>

NoNode == [isLostPacket |-> FALSE, buffer |-> <<>>, closedBy |-> -1]

TypeOK ==
    /\ RtpTypeOK
    /\ mIsThreadRunning \in BOOLEAN
    /\ node \in RtpDataNodes \union {NoNode}
    /\ mIsKeyFrameGetted \in BOOLEAN
    /\ mIsLastKeyFrameLostPacket \in BOOLEAN
    /\ decoder \in Seq(Seq(Packets))
    /\ Len(decoder) <= DecoderDelay
    /\ displayed \in Seq(Seq(Packets))
    /\ passed \in Seq(Seq(Packets))

\* The two flags are not initialised before threadStart.
Init ==
    /\ RtpInit
    /\ mIsThreadRunning = FALSE
    /\ node = NoNode
    /\ mIsKeyFrameGetted \in BOOLEAN
    /\ mIsLastKeyFrameLostPacket \in BOOLEAN
    /\ decoder = <<>>
    /\ displayed = <<>>
    /\ passed = <<>>

-----------------------------------------------------------------------------
\* The head of DataListThread::run and VideoChannel::threadStart.
threadStart ==
    /\ ~mIsThreadRunning
    /\ mIsThreadRunning' = TRUE
    /\ mIsLastKeyFrameLostPacket' = FALSE
    /\ mIsKeyFrameGetted' = FALSE
    /\ UNCHANGED <<rtpVars, node, screenVars>>

\* Mutant: the thread takes the node that was queued last.
PopNode_Newest ==
    /\ mIsThreadRunning
    /\ node = NoNode
    /\ mList # <<>>
    /\ node' = mList[Len(mList)]
    /\ mList' = SubSeq(mList, 1, Len(mList) - 1)
    /\ UNCHANGED <<netVars, packetlist, inDataAccess, mRtpBuffer,
                   mIsCurrentFrameLostPacket, mLastSequenceNumber,
                   mIsThreadRunning, mIsKeyFrameGetted,
                   mIsLastKeyFrameLostPacket, screenVars>>

\* The locked section of the loop of DataListThread::run.
PopNode ==
    /\ mIsThreadRunning
    /\ node = NoNode
    /\ mList # <<>>
    /\ node' = Head(mList)
    /\ mList' = Tail(mList)
    /\ UNCHANGED <<netVars, packetlist, inDataAccess, mRtpBuffer,
                   mIsCurrentFrameLostPacket, mLastSequenceNumber,
                   mIsThreadRunning, mIsKeyFrameGetted,
                   mIsLastKeyFrameLostPacket, screenVars>>

\* The scan for nal_unit_type 7 in the H.264 data of a node.
HasSps(n) == \E i \in 1 .. Len(n.buffer) : n.buffer[i] \in KeyHeaders

\* What libavcodec holds after it was given buf: it may refuse a damaged one.
HeldWith(buf) ==
    {Append(decoder, buf)} \union (IF IsWholeFrame(buf) THEN {} ELSE {decoder})

\* Mutant: damaged pictures are not dropped.
decodeH264Buffer_ShowsAll(buf, isLostPacket) ==
    /\ passed' = IF isLostPacket THEN passed ELSE Append(passed, buf)
    /\ \E held \in HeldWith(buf) : \E out \in 0 .. Len(held) :
          /\ Len(held) - out <= DecoderDelay
          /\ decoder' = SubSeq(held, out + 1, Len(held))
          /\ displayed' = displayed \o SubSeq(held, 1, out)

\* decodeH264Buffer: the pictures the decoder returns in this call, those of the first
\* out buffers it held, are shown, or dropped if the buffer just put in was marked as
\* lost.
decodeH264Buffer(buf, isLostPacket) ==
    /\ passed' = IF isLostPacket THEN passed ELSE Append(passed, buf)
    /\ \E held \in HeldWith(buf) : \E out \in 0 .. Len(held) :
          /\ Len(held) - out <= DecoderDelay
          /\ decoder' = SubSeq(held, out + 1, Len(held))
          /\ displayed' = IF isLostPacket
                          THEN displayed
                          ELSE displayed \o SubSeq(held, 1, out)

\* Mutant: a damaged I frame does not silence the frames after it.
dealwithDataNode_ForgetsKeyLoss ==
    /\ node # NoNode
    /\ node' = NoNode
    /\ IF ~StartsWithHeader(node)
       THEN UNCHANGED <<mIsKeyFrameGetted, mIsLastKeyFrameLostPacket, screenVars>>
       ELSE /\ mIsLastKeyFrameLostPacket' =
                  mIsLastKeyFrameLostPacket
            /\ mIsKeyFrameGetted' = (mIsKeyFrameGetted \/ HasSps(node))
            /\ IF mIsKeyFrameGetted'
               THEN decodeH264Buffer(node.buffer,
                        node.isLostPacket \/ mIsLastKeyFrameLostPacket')
               ELSE UNCHANGED screenVars
    /\ UNCHANGED <<rtpVars, mIsThreadRunning>>

dealwithDataNode ==
    /\ node # NoNode
    /\ node' = NoNode
    /\ IF ~StartsWithHeader(node)
       THEN UNCHANGED <<mIsKeyFrameGetted, mIsLastKeyFrameLostPacket, screenVars>>
       ELSE /\ mIsLastKeyFrameLostPacket' =
                  IF HasSps(node) THEN node.isLostPacket
                                  ELSE mIsLastKeyFrameLostPacket
            /\ mIsKeyFrameGetted' = (mIsKeyFrameGetted \/ HasSps(node))
            /\ IF mIsKeyFrameGetted'
               THEN decodeH264Buffer(node.buffer,
                        node.isLostPacket \/ mIsLastKeyFrameLostPacket')
               ELSE UNCHANGED screenVars
    /\ UNCHANGED <<rtpVars, mIsThreadRunning>>

-----------------------------------------------------------------------------
Worker == threadStart \/ PopNode \/ dealwithDataNode

Next == (RtpNext /\ UNCHANGED workerVars) \/ Worker

Spec == Init /\ [][Next]_vars

\* Both threads of the server and jrtplib's poll thread keep running, and
\* what is not lost arrives.  Nothing is assumed of the camera.
Fairness ==
    /\ WF_vars(RtpThread /\ UNCHANGED workerVars)
    /\ \A p \in Packets : WF_vars(PollThreadReceive(p) /\ UNCHANGED workerVars)
    /\ WF_vars(Worker)

FairSpec == Spec /\ Fairness

-----------------------------------------------------------------------------
(* Properties.                                                             *)

KeyOf(h) == CHOOSE k \in KeyHeaders :
                k <= h /\ \A j \in KeyHeaders : j <= h => j <= k

\* Frames are named by their header.  A frame before the first I frame has no
\* key frame, and the last frame is never closed by a header.
WholeFrameHeaders == {h \in Headers : \E k \in Headers : h < k}
DecodableFrames == {h \in WholeFrameHeaders : \E k \in KeyHeaders : k <= h}

\* A damaged buffer is no frame of the stream.
FrameOf(b) == IF IsWholeFrame(b) THEN b[1] ELSE -1

Display == INSTANCE FrameDisplay WITH
    Frames <- DecodableFrames,
    Key    <- [h \in DecodableFrames |-> KeyOf(h)],
    shown  <- [i \in 1 .. Len(passed) |-> FrameOf(passed[i])]

\* The channel implements FrameDisplay in what it lets pass as undamaged, whatever
\* the decoder keeps: no torn frame, no frame twice or after a later one, and none
\* unless its I frame was let pass.
PassesWholeFramesInOrder == Display!Spec

\* Every buffer let pass as undamaged is a complete frame of the camera.
PassedFramesAreWhole ==
    \A i \in 1 .. Len(passed) : IsWholeFrame(passed[i])

\* A frame passes as undamaged only after the I frame it is predicted from.
KeyFramePassedFirst ==
    \A j \in 1 .. Len(passed) :
        \E i \in 1 .. j : passed[i][1] = KeyOf(passed[j][1])

\* Every picture shown is a complete frame of the camera.
ShownFramesAreWhole ==
    \A i \in 1 .. Len(displayed) : IsWholeFrame(displayed[i])

\* The picture never goes back to an earlier frame, however late the decoder
\* returns it and whatever was lost or damaged in between.
PicturesInOrder ==
    \A i, j \in 1 .. Len(displayed) : i < j => displayed[i][1] <= displayed[j][1]

\* What the decoder's delay can do and no more: a damaged picture reaches the screen
\* only if the decoder kept it until a later frame was decoded that is whole.  While
\* all frames are damaged none is shown, and without delay none ever.
DamageComesLate ==
    \A i \in 1 .. Len(displayed) :
        ~IsWholeFrame(displayed[i]) =>
            \E j \in 1 .. Len(passed) :
                IsWholeFrame(passed[j]) /\ displayed[i][1] <= passed[j][1]

\* The header that closes the frame which is n frames after frame h.
IsClosedBy(h, n, k) ==
    Cardinality({j \in Headers : h < j /\ j <= k}) = n + 1

\* Recovery: whatever was lost before, a frame is shown once the decoder has got as
\* many frames after it as it may keep, provided that from the frame's I frame to
\* the header that closes the last of these the network loses nothing, repeats
\* nothing and keeps the order.
CleanFramesAreShown ==
    \A h \in DecodableFrames, k \in Headers :
        IsClosedBy(h, DecoderDelay, k) /\ (KeyOf(h) .. k) \intersect Losable = {} =>
            ((nextSend > k) ~> (\E i \in 1 .. Len(displayed) : displayed[i][1] = h))
=============================================================================
