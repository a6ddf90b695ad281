------------------------ MODULE VideoPipeline_proofs ------------------------
(***************************************************************************)
(* Proofs about a video channel, from the network to the screen, for every *)
(* value of the constants, whatever number of pictures the decoder keeps:  *)
(* type correctness; that the channel lets only whole frames pass as       *)
(* undamaged and implements FrameDisplay in what it lets pass, for every   *)
(* stream in which no gap goes unseen, on an ordered network that does not *)
(* lose the headers of I frames; and the order and the damage of the       *)
(* pictures that reach the screen behind the decoder.                      *)
(***************************************************************************)
EXTENDS VideoPipeline, RtpAssembly_proofs

\* An I frame being collected never fills the buffer.
KeyFramesFit ==
    mRtpBuffer # <<>> /\ mRtpBuffer[1] \in KeyHeaders =>
        Len(mRtpBuffer) < MaxPsBuffer

-----------------------------------------------------------------------------
(* The inductive invariant.                                                *)

\* The nodes between the RTP thread and the decoder: queued, or just popped.
Pending == {mList[i] : i \in 1 .. Len(mList)} \union ({node} \ {NoNode})

\* A pending node is a frame: only its first packet can be a header, and the
\* header that closed it is not older, without the mark it is younger.
IsFrameNode(n) ==
    /\ n.buffer # <<>>
    /\ \A i \in 2 .. Len(n.buffer) : n.buffer[i] \notin Headers
    /\ n.closedBy \in Headers
    /\ n.buffer[1] <= n.closedBy
    /\ ~n.isLostPacket => n.buffer[1] < n.closedBy

\* Everything the RTP thread has, or will still take, is not older than h.
NotBefore(h) ==
    /\ h < nextSend
    /\ \A q \in packetlist \union inNet : h <= q
    /\ mRtpBuffer # <<>> => h <= mRtpBuffer[1]

\* Frames are queued, popped and collected in the order they were sent.
PendingInOrder ==
    /\ \A n \in Pending : IsFrameNode(n) /\ NotBefore(n.closedBy)
    /\ \A i, j \in 1 .. Len(mList) :
          i < j => mList[i].closedBy <= mList[j].buffer[1]
    /\ node # NoNode =>
          \A i \in 1 .. Len(mList) : node.closedBy <= mList[i].buffer[1]

\* What was let pass is in order, and older than all that is to come.
PassedInOrder ==
    \A i \in 1 .. Len(passed) :
        /\ \A j \in 1 .. Len(passed) : i < j => passed[i][1] < passed[j][1]
        /\ \E h \in Headers : passed[i][1] < h /\ NotBefore(h)
        /\ \A n \in Pending : passed[i][1] < n.buffer[1]

\* Header k will still reach the decoding thread, or has and waits there.
Ahead(k) ==
    \/ Future(k)
    \/ mRtpBuffer # <<>> /\ mRtpBuffer[1] = k
    \/ \E n \in Pending : n.buffer[1] = k

\* No I frame after k has been passed over.
NoKeyPassed(k) == \A j \in KeyHeaders : k < j => Ahead(j)

\* An I frame on its way has no other passed over after it, and while frames
\* are let pass, neither has one of the I frames let pass.
KeysInOrder ==
    /\ mRtpBuffer # <<>> /\ mRtpBuffer[1] \in KeyHeaders =>
          NoKeyPassed(mRtpBuffer[1])
    /\ \A n \in Pending : n.buffer[1] \in KeyHeaders => NoKeyPassed(n.buffer[1])
    /\ mIsThreadRunning /\ mIsKeyFrameGetted /\ ~mIsLastKeyFrameLostPacket =>
          \E i \in 1 .. Len(passed) :
              passed[i][1] \in KeyHeaders /\ NoKeyPassed(passed[i][1])

\* The decoding thread pops nothing before it has started.
StartedInv == node # NoNode => mIsThreadRunning

\* Why only whole frames are let pass: the queue holds whole frames, and so does
\* the node that was popped from it.
WholeInv ==
    /\ TypeOK
    /\ RtpInv
    /\ ZeroKept => PacketOrder /\ NothingPassedOver
    /\ node # NoNode /\ StartsWithHeader(node) /\ ~node.isLostPacket =>
          IsWholeFrame(node.buffer)
    /\ PassedFramesAreWhole

PipeInv ==
    /\ WholeInv
    /\ PacketOrder
    /\ StartedInv
    /\ PendingInOrder
    /\ PassedInOrder
    /\ KeysInOrder

-----------------------------------------------------------------------------
(* Type correctness.                                                       *)

\* A part of a sequence of buffers is one.
LEMMA PartOfBuffers ==
    ASSUME NEW s \in Seq(Seq(Packets)), NEW m \in 1 .. Len(s) + 1, NEW n \in m - 1 .. Len(s)
    PROVE  /\ SubSeq(s, m, n) \in Seq(Seq(Packets))
           /\ Len(SubSeq(s, m, n)) = n - m + 1
           /\ \A i \in 1 .. n - m + 1 : SubSeq(s, m, n)[i] = s[m + i - 1]
BY SubSeqProperties

\* decodeH264Buffer keeps the types of what it assigns.
LEMMA DecodeType ==
    ASSUME TypeOK, NEW buf \in Seq(Packets), NEW lost, decodeH264Buffer(buf, lost)
    PROVE  /\ decoder' \in Seq(Seq(Packets)) /\ Len(decoder') <= DecoderDelay
           /\ displayed' \in Seq(Seq(Packets)) /\ passed' \in Seq(Seq(Packets))
<1>1. displayed \in Seq(Seq(Packets)) /\ passed \in Seq(Seq(Packets))
  BY DEF TypeOK
<1>2. passed' \in Seq(Seq(Packets))
  BY <1>1, AppendProperties DEF decodeH264Buffer
<1>0. PICK held \in Seq(Seq(Packets)) : \E out \in 0 .. Len(held) :
         /\ Len(held) - out <= DecoderDelay
         /\ decoder' = SubSeq(held, out + 1, Len(held))
         /\ displayed' = IF lost THEN displayed ELSE displayed \o SubSeq(held, 1, out)
  <2>1. decoder \in Seq(Seq(Packets)) /\ Append(decoder, buf) \in Seq(Seq(Packets))
    BY AppendProperties DEF TypeOK
  <2> QED BY <2>1 DEF decodeH264Buffer, HeldWith
<1>3. PICK out \in 0 .. Len(held) :
         /\ Len(held) - out <= DecoderDelay
         /\ decoder' = SubSeq(held, out + 1, Len(held))
         /\ displayed' = IF lost THEN displayed ELSE displayed \o SubSeq(held, 1, out)
  BY <1>0
<1>4. /\ SubSeq(held, out + 1, Len(held)) \in Seq(Seq(Packets))
      /\ Len(SubSeq(held, out + 1, Len(held))) = Len(held) - out
  <2>1. /\ out + 1 \in 1 .. Len(held) + 1 /\ Len(held) \in (out + 1) - 1 .. Len(held)
        /\ Len(held) - (out + 1) + 1 = Len(held) - out
    BY <1>3
  <2> QED BY <2>1, PartOfBuffers
<1>5. SubSeq(held, 1, out) \in Seq(Seq(Packets))
  <2>1. 1 \in 1 .. Len(held) + 1 /\ out \in 1 - 1 .. Len(held)
    BY <1>3
  <2> QED BY <2>1, PartOfBuffers
<1>6. displayed \o SubSeq(held, 1, out) \in Seq(Seq(Packets))
  BY <1>1, <1>5, ConcatProperties
<1> QED BY <1>1, <1>2, <1>3, <1>4, <1>6

\* The type invariant of the channel holds initially and every step keeps it.
LEMMA ChannelTypeInductive ==
    /\ Init => TypeOK
    /\ TypeOK /\ [Next]_vars => TypeOK'
<1>1. Init => TypeOK
  <2>1. <<>> \in Seq(Seq(Packets))
    BY EmptySeq
  <2>2. decoder = <<>> => Len(decoder) <= DecoderDelay
    BY PipelineAssumption DEF PipelineAssumption
  <2> QED BY <2>1, <2>2, TypeInductive DEF Init, TypeOK
<1>2. TypeOK /\ [Next]_vars => TypeOK'
  <2> SUFFICES ASSUME TypeOK, [Next]_vars PROVE TypeOK'
    OBVIOUS
  <2>1. CASE RtpNext /\ UNCHANGED workerVars
    <3>1. RtpTypeOK'
      BY <2>1, TypeInductive DEF TypeOK
    <3> QED BY <2>1, <3>1 DEF TypeOK, workerVars, screenVars
  <2>2. CASE threadStart
    <3>1. RtpTypeOK'
      BY <2>2, TypeInductive DEF threadStart, TypeOK
    <3> QED BY <2>2, <3>1 DEF threadStart, screenVars, TypeOK
  <2>3. CASE PopNode
    <3>1. mList \in Seq(RtpDataNodes) /\ mList # <<>>
      BY <2>3 DEF PopNode, TypeOK, RtpTypeOK
    <3>2. Head(mList) \in RtpDataNodes /\ Tail(mList) \in Seq(RtpDataNodes)
      BY <3>1, HeadTailProperties
    <3> QED BY <2>3, <3>2 DEF PopNode, TypeOK, RtpTypeOK, netVars, screenVars
  <2>4. CASE dealwithDataNode
    <3>1. node.buffer \in Seq(Packets)
      BY <2>4 DEF dealwithDataNode, TypeOK, RtpDataNodes
    <3>2. /\ decoder' \in Seq(Seq(Packets)) /\ Len(decoder') <= DecoderDelay
          /\ displayed' \in Seq(Seq(Packets)) /\ passed' \in Seq(Seq(Packets))
      <4>1. CASE UNCHANGED screenVars
        BY <4>1 DEF TypeOK, screenVars
      <4>2. CASE decodeH264Buffer(node.buffer,
                     node.isLostPacket \/ mIsLastKeyFrameLostPacket')
        BY <3>1, <4>2, DecodeType
      <4> QED BY <2>4, <4>1, <4>2 DEF dealwithDataNode
    <3>3. mIsKeyFrameGetted' \in BOOLEAN /\ mIsLastKeyFrameLostPacket' \in BOOLEAN
      <4>1. node.isLostPacket \in BOOLEAN
        BY <2>4 DEF dealwithDataNode, TypeOK, RtpDataNodes
      <4> QED BY <2>4, <4>1 DEF dealwithDataNode, TypeOK, HasSps
    <3>4. RtpTypeOK'
      BY <2>4, TypeInductive DEF dealwithDataNode, TypeOK
    <3> QED BY <2>4, <3>2, <3>3, <3>4 DEF dealwithDataNode, TypeOK
  <2>5. CASE UNCHANGED vars
    <3>1. RtpTypeOK'
      BY <2>5, TypeInductive DEF vars, TypeOK
    <3> QED BY <2>5, <3>1 DEF vars, workerVars, screenVars, TypeOK
  <2> QED BY <2>1, <2>2, <2>3, <2>4, <2>5 DEF Next, Worker
<1> QED BY <1>1, <1>2

\* Type correctness of the channel, for every value of the constants.
THEOREM ChannelTypeCorrect == Spec => []TypeOK
BY ChannelTypeInductive, PTL DEF Spec

-----------------------------------------------------------------------------
(* What the steps do to the pending nodes.                                 *)

\* Pending nodes are nodes.
LEMMA PendingType ==
    ASSUME TypeOK
    PROVE  /\ Pending \subseteq RtpDataNodes
           /\ \A i \in 1 .. Len(mList) : mList[i] \in Pending
           /\ node # NoNode => node \in Pending
<1>1. \A i \in 1 .. Len(mList) : mList[i] \in RtpDataNodes
  BY ElementOfSeq DEF TypeOK, RtpTypeOK
<1> QED BY <1>1 DEF TypeOK, Pending

\* The first packet of a node, and the header that closed it, are packets.
LEMMA NodeType ==
    ASSUME NEW n \in RtpDataNodes
    PROVE  /\ n.closedBy \in Packets /\ n.closedBy \in Int
           /\ n.isLostPacket \in BOOLEAN
           /\ n.buffer \in Seq(Packets)
           /\ n # NoNode
           /\ n.buffer # <<>> => n.buffer[1] \in Packets /\ n.buffer[1] \in Int
<1>1. Packets \subseteq Int /\ -1 \notin Packets
  BY ConstantsAssumption DEF Packets, ConstantsAssumption
<1>2. /\ n.closedBy \in Packets /\ n.isLostPacket \in BOOLEAN
      /\ n.buffer \in Seq(Packets)
  BY DEF RtpDataNodes
<1>3. n # NoNode
  <2>1. NoNode.closedBy = -1
    BY DEF NoNode
  <2> QED BY <1>1, <1>2, <2>1
<1>4. n.buffer # <<>> => n.buffer[1] \in Packets
  BY <1>2, EmptySeq, ElementOfSeq
<1> QED BY <1>1, <1>2, <1>3, <1>4

\* Popping a node moves the head of the list.
LEMMA PopEffect ==
    ASSUME TypeOK, PopNode
    PROVE  /\ Pending' = Pending
           /\ Len(mList) \in Nat \ {0}
           /\ node' = mList[1] /\ node' # NoNode
           /\ Len(mList') = Len(mList) - 1
           /\ \A i \in 1 .. Len(mList') : mList'[i] = mList[i + 1]
<1>1. /\ mList \in Seq(RtpDataNodes) /\ mList # <<>>
      /\ node = NoNode /\ node' = Head(mList) /\ mList' = Tail(mList)
  BY DEF PopNode, TypeOK, RtpTypeOK
<1>2. /\ Len(mList) \in Nat \ {0}
      /\ Head(mList) = mList[1] /\ mList[1] \in RtpDataNodes
      /\ Len(mList') = Len(mList) - 1
      /\ \A i \in 1 .. Len(mList') : mList'[i] = mList[i + 1]
  BY <1>1, HeadTailProperties, EmptySeq
<1>3. node' = mList[1] /\ node' # NoNode
  BY <1>1, <1>2, NodeType
<1>4. Pending' = {mList'[i] : i \in 1 .. Len(mList')} \union {mList[1]}
  BY <1>3 DEF Pending
<1>5. Pending = {mList[i] : i \in 1 .. Len(mList)}
  BY <1>1 DEF Pending
<1>6. ASSUME NEW n \in Pending PROVE n \in Pending'
  <2>1. PICK i \in 1 .. Len(mList) : n = mList[i]
    BY <1>5
  <2>2. CASE i = 1
    BY <1>4, <2>1, <2>2
  <2>3. CASE i # 1
    <3>1. i - 1 \in 1 .. Len(mList') /\ mList'[i - 1] = mList[(i - 1) + 1]
      BY <1>2, <2>3
    <3>2. (i - 1) + 1 = i
      BY <1>2
    <3> QED BY <1>4, <2>1, <3>1, <3>2
  <2> QED BY <2>2, <2>3
<1>7. ASSUME NEW n \in Pending' PROVE n \in Pending
  <2>1. CASE n = mList[1]
    BY <1>2, <1>5, <2>1
  <2>2. CASE n # mList[1]
    <3>1. PICK i \in 1 .. Len(mList') : n = mList'[i]
      BY <1>4, <2>2
    <3>2. n = mList[i + 1] /\ i + 1 \in 1 .. Len(mList)
      BY <1>2, <3>1
    <3> QED BY <1>5, <3>2
  <2> QED BY <2>1, <2>2
<1> QED BY <1>2, <1>3, <1>6, <1>7

\* Dealing with a node removes it and leaves the list alone.
LEMMA DealEffect ==
    ASSUME TypeOK, dealwithDataNode
    PROVE  /\ node \in Pending /\ node # NoNode /\ node' = NoNode
           /\ mList' = mList
           /\ Pending' = {mList[i] : i \in 1 .. Len(mList)}
           /\ Pending = Pending' \union {node}
<1>1. node # NoNode /\ node' = NoNode /\ mList' = mList
  BY DEF dealwithDataNode, rtpVars
<1> QED BY <1>1 DEF Pending

\* Queueing a node adds it at the end.
LEMMA QueueEffect ==
    ASSUME TypeOK, NEW n \in RtpDataNodes, mList' = Append(mList, n), node' = node
    PROVE  /\ Pending' = Pending \union {n}
           /\ Len(mList) \in Nat
           /\ Len(mList') = Len(mList) + 1
           /\ \A i \in 1 .. Len(mList) : mList'[i] = mList[i]
           /\ mList'[Len(mList) + 1] = n
<1>1. /\ Len(mList) \in Nat
      /\ Len(mList') = Len(mList) + 1
      /\ \A i \in 1 .. Len(mList) : mList'[i] = mList[i]
      /\ mList'[Len(mList) + 1] = n
  BY AppendProperties DEF TypeOK, RtpTypeOK
<1>2. {mList'[i] : i \in 1 .. Len(mList')}
          = {mList[i] : i \in 1 .. Len(mList)} \union {n}
  <2>1. 1 .. Len(mList') = (1 .. Len(mList)) \union {Len(mList) + 1}
    BY <1>1
  <2> QED BY <1>1, <2>1
<1> QED BY <1>1, <1>2 DEF Pending

\* The cases of inputRtpBuffer, by what becomes of the frame in the buffer: it is
\* queued, there is none, it overflows, or it grows.
LEMMA InputCases ==
    ASSUME RtpTypeOK, NEW p \in Packets, inputRtpBuffer(p)
    PROVE  \/ /\ p \in Headers /\ mRtpBuffer # <<>>
              /\ \E lost \in BOOLEAN :
                    /\ mList' = Append(mList, RtpDataNode(lost, mRtpBuffer, p))
                    /\ ~lost => ~mIsCurrentFrameLostPacket /\ ~GapBefore(p)
              /\ mRtpBuffer' # <<>> /\ mRtpBuffer'[1] = p
           \/ /\ mRtpBuffer = <<>> /\ mList' = mList
              /\ mRtpBuffer' # <<>> /\ mRtpBuffer'[1] = p
           \/ /\ mRtpBuffer # <<>> /\ p \notin Headers /\ mList' = mList
              /\ mRtpBuffer' = <<>> /\ ~(Len(mRtpBuffer) < MaxPsBuffer)
           \/ /\ mRtpBuffer # <<>> /\ p \notin Headers /\ mList' = mList
              /\ mRtpBuffer' # <<>> /\ mRtpBuffer'[1] = mRtpBuffer[1]
<1> DEFINE lost == mIsCurrentFrameLostPacket \/ GapBefore(p)
           closes == p \in Headers /\ mRtpBuffer # <<>>
           kept == IF closes THEN <<>> ELSE mRtpBuffer
           a == Append(kept, p)
<1>1. /\ mList' = IF closes THEN Append(mList, RtpDataNode(lost, mRtpBuffer, p))
                  ELSE mList
      /\ mRtpBuffer' = IF Len(kept) + 1 > MaxPsBuffer THEN <<>> ELSE a
  BY DEF inputRtpBuffer, KeptBuffer, KeptFlag, CopyPayload
<1>0. lost \in BOOLEAN
  BY DEF RtpTypeOK, GapBefore
<1>2. kept \in Seq(Packets)
  BY EmptySeq DEF RtpTypeOK
<1>3. /\ Len(kept) \in Nat /\ Len(a) = Len(kept) + 1
      /\ \A i \in 1 .. Len(kept) : a[i] = kept[i]
      /\ a[Len(kept) + 1] = p
  BY <1>2, AppendProperties
<1>4. MaxPsBuffer \in Nat \ {0} /\ Len(<<>>) = 0 /\ a # <<>>
  BY <1>3, ConstantsAssumption, EmptySeq DEF ConstantsAssumption
<1>5. CASE kept = <<>>
  <2>1. mRtpBuffer' = a /\ a[1] = p
    BY <1>1, <1>3, <1>4, <1>5
  <2> QED BY <1>0, <1>1, <1>4, <1>5, <2>1
<1>6. CASE kept # <<>>
  <2>1. /\ ~closes /\ kept = mRtpBuffer /\ mRtpBuffer # <<>> /\ mList' = mList
        /\ p \notin Headers
    BY <1>1, <1>6
  <2>2. Len(kept) > 0
    BY <1>2, <1>6, EmptySeq
  <2>3. a[1] = mRtpBuffer[1]
    BY <1>3, <2>1, <2>2
  <2> QED BY <1>1, <1>3, <1>4, <2>1, <2>3
<1> QED BY <1>5, <1>6

-----------------------------------------------------------------------------
(* Whole frames, from the queue to the decoder.                            *)

\* What dealwithDataNode lets pass: the node's buffer or nothing, and a buffer it may
\* let pass it does.
LEMMA DealCases ==
    ASSUME TypeOK, dealwithDataNode
    PROVE  /\ \/ passed' = passed
              \/ /\ passed' = Append(passed, node.buffer)
                 /\ StartsWithHeader(node) /\ ~node.isLostPacket
                 /\ mIsKeyFrameGetted' /\ ~mIsLastKeyFrameLostPacket'
           /\ StartsWithHeader(node) /\ ~node.isLostPacket
              /\ mIsKeyFrameGetted' /\ ~mIsLastKeyFrameLostPacket'
              => passed' = Append(passed, node.buffer)
<1>1. CASE UNCHANGED screenVars /\ ~(StartsWithHeader(node) /\ mIsKeyFrameGetted')
  BY <1>1 DEF screenVars
<1>2. CASE /\ StartsWithHeader(node) /\ mIsKeyFrameGetted'
           /\ decodeH264Buffer(node.buffer, node.isLostPacket \/ mIsLastKeyFrameLostPacket')
  BY <1>2 DEF decodeH264Buffer
<1> QED BY <1>1, <1>2 DEF dealwithDataNode, screenVars

\* WholeInv holds initially and every step keeps it.
LEMMA WholeInvInductive ==
    ASSUME GapsAreSeen
    PROVE  /\ Init => WholeInv
           /\ WholeInv /\ [Next]_vars => WholeInv'
<1>1. Init => WholeInv
  BY ChannelTypeInductive, RtpInvInitially, OrderInitially, EmptySeq
     DEF Init, WholeInv, PassedFramesAreWhole
<1>2. ASSUME WholeInv, [Next]_vars PROVE WholeInv'
  <2> USE <1>2 DEF WholeInv
  <2>1. TypeOK'
    BY ChannelTypeInductive
  <2>2. CASE RtpNext /\ UNCHANGED workerVars
    <3>1. RtpInv'
      BY <2>2, RtpInvStep, TakenContinues
    <3>2. (ZeroKept => PacketOrder /\ NothingPassedOver)'
      BY <2>2, PacketOrderStep, NothingPassedOverStep DEF ZeroKept, RtpInv
    <3> QED BY <2>1, <2>2, <3>1, <3>2
            DEF workerVars, screenVars, PassedFramesAreWhole, StartsWithHeader,
                IsWholeFrame, Consecutive
  <2>3. CASE threadStart \/ dealwithDataNode \/ UNCHANGED vars
    <3>0. UNCHANGED rtpVars
      BY <2>3 DEF threadStart, dealwithDataNode, vars
    <3>1. RtpInv' /\ (ZeroKept => PacketOrder /\ NothingPassedOver)'
      BY <2>1, <3>0 DEF rtpVars, RtpInv, RtpTypeOK, BufferInv, WholeFrames,
            StartsWithHeader, IsWholeFrame, Consecutive, PacketOrder,
            NothingPassedOver, Future
    <3>2. CASE threadStart \/ UNCHANGED vars
      BY <2>1, <3>1, <3>2 DEF threadStart, vars, workerVars, screenVars, PassedFramesAreWhole,
            StartsWithHeader, IsWholeFrame, Consecutive
    <3>3. CASE dealwithDataNode
      <4>1. node' = NoNode
        BY <3>3, DealCases DEF dealwithDataNode
      <4>2. passed \in Seq(Seq(Packets)) /\ node.buffer \in Seq(Packets)
        BY <3>3 DEF TypeOK, dealwithDataNode, RtpDataNodes
      <4>3. ASSUME NEW i \in 1 .. Len(passed') PROVE IsWholeFrame(passed'[i])
        <5>1. CASE passed' = passed
          BY <4>3, <5>1 DEF PassedFramesAreWhole
        <5>2. CASE passed' = Append(passed, node.buffer) /\ IsWholeFrame(node.buffer)
          <6>1. CASE i \in 1 .. Len(passed)
            BY <4>2, <5>2, <6>1, AppendProperties DEF PassedFramesAreWhole
          <6>2. CASE i = Len(passed) + 1
            BY <4>2, <5>2, <6>2, AppendProperties
          <6> QED BY <4>2, <4>3, <5>2, <6>1, <6>2, AppendProperties
        <5> QED BY <3>3, <5>1, <5>2, DealCases DEF dealwithDataNode
      <4>4. PassedFramesAreWhole'
        BY <4>3 DEF PassedFramesAreWhole, IsWholeFrame, Consecutive
      <4> QED BY <2>1, <3>1, <4>1, <4>4
    <3> QED BY <2>3, <3>2, <3>3
  <2>4. CASE PopNode
    <3>1. /\ Len(mList) \in Nat \ {0} /\ node' = mList[1]
          /\ Len(mList') = Len(mList) - 1
          /\ \A i \in 1 .. Len(mList') : mList'[i] = mList[i + 1]
      BY <2>4, PopEffect
    <3>2. WholeFrames'
      <4>1. ASSUME NEW i \in 1 .. Len(mList')
            PROVE  StartsWithHeader(mList'[i]) /\ ~mList'[i].isLostPacket
                       => IsWholeFrame(mList'[i].buffer)
        <5>1. i + 1 \in 1 .. Len(mList) /\ mList'[i] = mList[i + 1]
          BY <3>1, <4>1
        <5> QED BY <5>1 DEF RtpInv, WholeFrames
      <4> QED BY <4>1 DEF WholeFrames, StartsWithHeader, IsWholeFrame, Consecutive
    <3>3. RtpInv'
      BY <2>1, <2>4, <3>2 DEF PopNode, RtpInv, TypeOK, BufferInv, Consecutive
    <3>4. (ZeroKept => PacketOrder /\ NothingPassedOver)'
      BY <2>4 DEF PopNode, netVars, PacketOrder, NothingPassedOver, Future
    <3>5. (StartsWithHeader(node) /\ ~node.isLostPacket => IsWholeFrame(node.buffer))'
      <4>1. StartsWithHeader(mList[1]) /\ ~mList[1].isLostPacket
                => IsWholeFrame(mList[1].buffer)
        BY <3>1 DEF RtpInv, WholeFrames
      <4> QED BY <3>1, <4>1 DEF StartsWithHeader, IsWholeFrame, Consecutive
    <3>6. PassedFramesAreWhole'
      BY <2>4 DEF PopNode, screenVars, PassedFramesAreWhole, IsWholeFrame, Consecutive
    <3> QED BY <2>1, <3>3, <3>4, <3>5, <3>6
  <2> QED BY <2>2, <2>3, <2>4 DEF Next, Worker
<1> QED BY <1>1, <1>2

\* Every buffer the channel lets pass as undamaged is one complete frame of the
\* camera: whatever the network loses, delays, repeats or reorders and the decoder
\* keeps or refuses, in every stream in which no gap goes unseen.
THEOREM PassedFramesWhole ==
    GapsAreSeen /\ Spec => []PassedFramesAreWhole
<1>1. SUFFICES ASSUME GapsAreSeen
               PROVE  Spec => []PassedFramesAreWhole
  OBVIOUS
<1>2. Init => WholeInv
  BY <1>1, WholeInvInductive
<1>3. WholeInv /\ [Next]_vars => WholeInv'
  BY <1>1, WholeInvInductive
<1>4. WholeInv => PassedFramesAreWhole
  BY DEF WholeInv
<1> QED BY <1>2, <1>3, <1>4, PTL DEF Spec

-----------------------------------------------------------------------------
(* The order of frames, from the network to the decoder.                   *)

\* An ordered network stays ordered.
LEMMA OrderKept ==
    ASSUME ~Reordering, WholeInv, PacketOrder, [Next]_vars
    PROVE  PacketOrder'
<1>1. CASE RtpNext
  BY <1>1, PacketOrderStep DEF WholeInv, RtpInv
<1>2. CASE UNCHANGED <<nextSend, inNet, packetlist, mRtpBuffer>>
  BY <1>2 DEF PacketOrder, Future
<1> QED BY <1>1, <1>2 DEF Next, Worker, threadStart, PopNode, dealwithDataNode,
                          vars, rtpVars, netVars

\* No step lets anything older than h come after it.
LEMMA NotBeforeKept ==
    ASSUME TypeOK, NEW h \in Packets, NotBefore(h), [RtpNext]_rtpVars
    PROVE  NotBefore(h)'
<1>0. nextSend \in Int /\ h \in Int /\ h < nextSend
  BY ConstantsAssumption DEF TypeOK, RtpTypeOK, Packets, ConstantsAssumption, NotBefore
<1>1. CASE CameraSend
  <2>1. h < nextSend + 1 /\ h <= nextSend
    BY <1>0
  <2> QED BY <1>1, <2>1 DEF CameraSend, NotBefore, bufVars
<1>2. ASSUME NEW p \in Packets, TakePacket(p) PROVE NotBefore(h)'
  <2>1. h <= p
    BY <1>2 DEF TakePacket, NotBefore
  <2>2. mRtpBuffer' # <<>> =>
            mRtpBuffer'[1] = p \/ (mRtpBuffer # <<>> /\ mRtpBuffer'[1] = mRtpBuffer[1])
    BY <1>2, InputCases DEF TakePacket, TypeOK
  <2> QED BY <1>2, <2>1, <2>2 DEF TakePacket, NotBefore, netVars
<1>3. ASSUME NEW p \in Packets, NetLose(p) PROVE NotBefore(h)'
  BY <1>3 DEF NetLose, NotBefore, bufVars
<1>4. ASSUME NEW p \in Packets, PollThreadReceive(p) PROVE NotBefore(h)'
  BY <1>4 DEF PollThreadReceive, MayArrive, NotBefore, bufVars
<1>5. CASE BeginDataAccess \/ EndDataAccess \/ UNCHANGED rtpVars
  BY <1>5 DEF BeginDataAccess, EndDataAccess, NotBefore, rtpVars, netVars, bufVars
<1> QED BY <1>1, <1>2, <1>3, <1>4, <1>5 DEF RtpNext, RtpThread

\* A step of the network or of the RTP thread leaves the pending nodes as they
\* are, or adds the frame that the packet taken has closed.
LEMMA RtpCases ==
    ASSUME TypeOK, RtpNext, UNCHANGED workerVars
    PROVE  \/ Pending' = Pending /\ mList' = mList /\ node' = node
           \/ \E p \in Packets, lost \in BOOLEAN :
                 /\ TakePacket(p) /\ p \in Headers /\ mRtpBuffer # <<>>
                 /\ RtpDataNode(lost, mRtpBuffer, p) \in RtpDataNodes
                 /\ mList' = Append(mList, RtpDataNode(lost, mRtpBuffer, p))
                 /\ node' = node
                 /\ ~lost => ~GapBefore(p)
                 /\ mRtpBuffer' # <<>> /\ mRtpBuffer'[1] = p
<1>1. node' = node
  BY DEF workerVars, screenVars
<1>2. CASE mList' = mList
  BY <1>1, <1>2 DEF Pending
<1>3. ASSUME NEW p \in Packets, TakePacket(p), mRtpBuffer # <<>>, p \in Headers,
             NEW lost \in BOOLEAN,
             mList' = Append(mList, RtpDataNode(lost, mRtpBuffer, p)),
             ~lost => ~GapBefore(p), mRtpBuffer' # <<>>, mRtpBuffer'[1] = p
      PROVE  /\ RtpDataNode(lost, mRtpBuffer, p) \in RtpDataNodes
             /\ TakePacket(p) /\ p \in Headers /\ mRtpBuffer # <<>>
  BY <1>3 DEF TypeOK, RtpTypeOK, RtpDataNode, RtpDataNodes
<1>4. ASSUME NEW p \in Packets, TakePacket(p)
      PROVE  \/ mList' = mList
             \/ /\ p \in Headers /\ mRtpBuffer # <<>>
                /\ \E lost \in BOOLEAN :
                      /\ mList' = Append(mList, RtpDataNode(lost, mRtpBuffer, p))
                      /\ ~lost => ~mIsCurrentFrameLostPacket /\ ~GapBefore(p)
                /\ mRtpBuffer' # <<>> /\ mRtpBuffer'[1] = p
  BY <1>4, InputCases DEF TakePacket, TypeOK
<1>5. mList' = mList \/ \E p \in Packets : TakePacket(p)
  BY DEF RtpNext, RtpThread, CameraSend, NetLose, PollThreadReceive,
         BeginDataAccess, EndDataAccess, bufVars
<1> QED BY <1>1, <1>2, <1>3, <1>4, <1>5

\* The node made of the buffer is in its place behind the others.
LEMMA QueuedInOrder ==
    ASSUME TypeOK, RtpInv, PacketOrder, NEW p \in Packets, TakePacket(p), Continues(p),
           p \in Headers, mRtpBuffer # <<>>, NEW lost \in BOOLEAN,
           ~lost => ~GapBefore(p),
           mRtpBuffer' # <<>>, mRtpBuffer'[1] = p
    PROVE  /\ IsFrameNode(RtpDataNode(lost, mRtpBuffer, p))
           /\ NotBefore(p)'
<1> DEFINE n == RtpDataNode(lost, mRtpBuffer, p)
<1>1. n.buffer = mRtpBuffer /\ n.closedBy = p /\ n.isLostPacket = lost
  BY DEF RtpDataNode
<1>2. Len(mRtpBuffer) \in 1 .. Len(mRtpBuffer) /\ 1 \in 1 .. Len(mRtpBuffer)
  BY EmptySeq DEF TypeOK, RtpTypeOK
<1>3. /\ p \in Int /\ mRtpBuffer[1] \in Int /\ mRtpBuffer[Len(mRtpBuffer)] \in Int
  BY <1>2, ConstantsAssumption DEF TypeOK, RtpTypeOK, Packets, ConstantsAssumption
<1>4. /\ mRtpBuffer[1] <= mRtpBuffer[Len(mRtpBuffer)] /\ mRtpBuffer[1] <= p
      /\ p < nextSend /\ \A q \in packetlist \union inNet : p <= q
  BY <1>2 DEF PacketOrder, TakePacket
<1>5. ~lost => mRtpBuffer[1] < p
  BY <1>3, <1>4 DEF Continues
<1>6. IsFrameNode(n)
  BY <1>1, <1>4, <1>5 DEF IsFrameNode, RtpInv, BufferInv
<1>7. NotBefore(p)'
  BY <1>3, <1>4 DEF NotBefore, TakePacket, netVars
<1> QED BY <1>6, <1>7

\* Frames stay in order on their way to the decoding thread.
LEMMA PendingStep ==
    ASSUME GapsAreSeen, WholeInv, PacketOrder, PendingInOrder, [Next]_vars
    PROVE  PendingInOrder'
<1>0. TypeOK /\ Headers \subseteq Packets
  BY ConstantsAssumption DEF WholeInv, ConstantsAssumption
<1>1. CASE RtpNext /\ UNCHANGED workerVars
  <2>1. ASSUME NEW n \in Pending PROVE IsFrameNode(n) /\ NotBefore(n.closedBy)'
    BY <1>0, <1>1, <2>1, NotBeforeKept DEF PendingInOrder, IsFrameNode
  <2>2. CASE Pending' = Pending /\ mList' = mList /\ node' = node
    <3>1. \A n \in Pending' : IsFrameNode(n) /\ NotBefore(n.closedBy)'
      BY <2>1, <2>2
    <3>2. (\A n \in Pending : IsFrameNode(n) /\ NotBefore(n.closedBy))'
      BY <3>1 DEF IsFrameNode, NotBefore
    <3> QED BY <2>2, <3>2 DEF PendingInOrder
  <2>3. ASSUME NEW p \in Packets, NEW lost \in BOOLEAN,
               TakePacket(p), p \in Headers, mRtpBuffer # <<>>,
               RtpDataNode(lost, mRtpBuffer, p) \in RtpDataNodes,
               mList' = Append(mList, RtpDataNode(lost, mRtpBuffer, p)),
               node' = node, ~lost => ~GapBefore(p),
               mRtpBuffer' # <<>>, mRtpBuffer'[1] = p
        PROVE  PendingInOrder'
    <3> DEFINE new == RtpDataNode(lost, mRtpBuffer, p)
    <3>1. /\ Pending' = Pending \union {new}
          /\ Len(mList) \in Nat
          /\ Len(mList') = Len(mList) + 1
          /\ \A i \in 1 .. Len(mList) : mList'[i] = mList[i]
          /\ mList'[Len(mList) + 1] = new
      BY <1>0, <2>3, QueueEffect
    <3>2. IsFrameNode(new) /\ NotBefore(p)'
      BY <1>0, <2>3, TakenContinues, QueuedInOrder DEF WholeInv
    <3>3. new.closedBy = p /\ new.buffer = mRtpBuffer
      BY DEF RtpDataNode
    <3>4. (\A n \in Pending : IsFrameNode(n) /\ NotBefore(n.closedBy))'
      <4>1. \A n \in Pending' : IsFrameNode(n) /\ NotBefore(n.closedBy)'
        BY <2>1, <3>1, <3>2, <3>3
      <4> QED BY <4>1 DEF IsFrameNode, NotBefore
    <3>5. ASSUME NEW n \in Pending PROVE n.closedBy <= new.buffer[1]
      BY <2>3, <3>3, <3>5 DEF PendingInOrder, NotBefore
    <3>6. ASSUME NEW i \in 1 .. Len(mList'), NEW j \in 1 .. Len(mList'), i < j
          PROVE  mList'[i].closedBy <= mList'[j].buffer[1]
      <4>1. i \in 1 .. Len(mList)
        BY <3>1, <3>6
      <4>2. CASE j \in 1 .. Len(mList)
        BY <3>1, <3>6, <4>1, <4>2 DEF PendingInOrder
      <4>3. CASE j = Len(mList) + 1
        BY <1>0, <3>1, <3>5, <4>1, <4>3, PendingType
      <4> QED BY <3>1, <3>6, <4>2, <4>3
    <3>7. ASSUME node' # NoNode, NEW i \in 1 .. Len(mList')
          PROVE  node'.closedBy <= mList'[i].buffer[1]
      <4>1. CASE i \in 1 .. Len(mList)
        BY <2>3, <3>1, <3>7, <4>1 DEF PendingInOrder
      <4>2. CASE i = Len(mList) + 1
        BY <1>0, <2>3, <3>1, <3>5, <3>7, <4>2, PendingType
      <4> QED BY <3>1, <3>7, <4>1, <4>2
    <3> QED BY <3>4, <3>6, <3>7 DEF PendingInOrder
  <2> QED BY <1>0, <1>1, <2>2, <2>3, RtpCases
<1>2. CASE threadStart \/ UNCHANGED vars
  BY <1>2 DEF threadStart, vars, rtpVars, workerVars, screenVars, PendingInOrder, Pending,
              IsFrameNode, NotBefore
<1>3. CASE PopNode
  <2>1. /\ Pending' = Pending
        /\ Len(mList) \in Nat \ {0}
        /\ node' = mList[1]
        /\ Len(mList') = Len(mList) - 1
        /\ \A i \in 1 .. Len(mList') : mList'[i] = mList[i + 1]
    BY <1>0, <1>3, PopEffect
  <2>2. (\A n \in Pending : IsFrameNode(n) /\ NotBefore(n.closedBy))'
    <3>1. UNCHANGED <<nextSend, inNet, packetlist, mRtpBuffer>>
      BY <1>3 DEF PopNode, netVars
    <3> QED BY <2>1, <3>1 DEF PendingInOrder, IsFrameNode, NotBefore
  <2>3. ASSUME NEW i \in 1 .. Len(mList'), NEW j \in 1 .. Len(mList'), i < j
        PROVE  mList'[i].closedBy <= mList'[j].buffer[1]
    <3>1. /\ i + 1 \in 1 .. Len(mList) /\ j + 1 \in 1 .. Len(mList) /\ i + 1 < j + 1
          /\ mList'[i] = mList[i + 1] /\ mList'[j] = mList[j + 1]
      BY <2>1, <2>3
    <3> QED BY <3>1 DEF PendingInOrder
  <2>4. ASSUME NEW i \in 1 .. Len(mList')
        PROVE  node'.closedBy <= mList'[i].buffer[1]
    <3>1. /\ 1 \in 1 .. Len(mList) /\ i + 1 \in 1 .. Len(mList) /\ 1 < i + 1
          /\ mList'[i] = mList[i + 1]
      BY <2>1, <2>4
    <3> QED BY <2>1, <3>1 DEF PendingInOrder
  <2> QED BY <2>2, <2>3, <2>4 DEF PendingInOrder
<1>4. CASE dealwithDataNode
  <2>1. /\ node' = NoNode /\ mList' = mList /\ Pending' \subseteq Pending
        /\ UNCHANGED <<nextSend, inNet, packetlist, mRtpBuffer>>
    BY <1>0, <1>4, DealEffect DEF dealwithDataNode, rtpVars
  <2> QED BY <2>1 DEF PendingInOrder, IsFrameNode, NotBefore
<1> QED BY <1>1, <1>2, <1>3, <1>4 DEF Next, Worker

\* A frame let pass stays older than the frame that is being collected.
LEMMA PassedBeforeBuffer ==
    ASSUME TypeOK, WholeInv, PassedInOrder, NEW i \in 1 .. Len(passed),
           mRtpBuffer # <<>>
    PROVE  passed[i][1] < mRtpBuffer[1]
<1>1. PICK h \in Headers : passed[i][1] < h /\ NotBefore(h)
  BY DEF PassedInOrder
<1>2. passed[i] \in Seq(Packets) /\ passed[i] # <<>>
  BY ElementOfSeq DEF TypeOK, WholeInv, PassedFramesAreWhole, IsWholeFrame
<1>3. passed[i][1] \in Packets /\ mRtpBuffer[1] \in Packets /\ h \in Packets
  BY <1>2, EmptySeq, ElementOfSeq, ConstantsAssumption
     DEF TypeOK, RtpTypeOK, ConstantsAssumption
<1>4. h <= mRtpBuffer[1]
  BY <1>1 DEF NotBefore
<1> QED BY <1>1, <1>3, <1>4, ConstantsAssumption DEF Packets, ConstantsAssumption

\* What was let pass stays older than all that is to come.
LEMMA PassedStep ==
    ASSUME WholeInv, PendingInOrder, PassedInOrder, [Next]_vars
    PROVE  PassedInOrder'
<1>0. TypeOK /\ Headers \subseteq Packets /\ Packets \subseteq Int
  BY ConstantsAssumption DEF WholeInv, ConstantsAssumption, Packets
<1>1. CASE RtpNext /\ UNCHANGED workerVars
  <2>1. passed' = passed
    BY <1>1 DEF workerVars, screenVars
  <2>2. ASSUME NEW i \in 1 .. Len(passed)
        PROVE  \E h \in Headers : passed[i][1] < h /\ NotBefore(h)'
    BY <1>0, <1>1, <2>2, NotBeforeKept DEF PassedInOrder
  <2>3. ASSUME NEW i \in 1 .. Len(passed), NEW n \in Pending'
        PROVE  passed[i][1] < n.buffer[1]
    <3>1. CASE n \in Pending
      BY <3>1 DEF PassedInOrder
    <3>2. CASE n \notin Pending
      <4>1. PICK p \in Packets, lost \in BOOLEAN :
               /\ mRtpBuffer # <<>>
               /\ RtpDataNode(lost, mRtpBuffer, p) \in RtpDataNodes
               /\ mList' = Append(mList, RtpDataNode(lost, mRtpBuffer, p))
               /\ node' = node
        BY <1>0, <1>1, <2>3, <3>2, RtpCases
      <4>2. n = RtpDataNode(lost, mRtpBuffer, p)
        BY <1>0, <2>3, <3>2, <4>1, QueueEffect
      <4> QED BY <1>0, <4>1, <4>2, PassedBeforeBuffer DEF RtpDataNode
    <3> QED BY <3>1, <3>2
  <2>4. ASSUME NEW i \in 1 .. Len(passed), NEW j \in 1 .. Len(passed), i < j
        PROVE  passed[i][1] < passed[j][1]
    BY <2>4 DEF PassedInOrder
  <2>5. (\A i \in 1 .. Len(passed) :
           \E h \in Headers : passed[i][1] < h /\ NotBefore(h))'
    BY <2>1, <2>2 DEF NotBefore
  <2> QED BY <2>1, <2>3, <2>4, <2>5 DEF PassedInOrder
<1>2. CASE threadStart \/ UNCHANGED vars
  BY <1>2 DEF threadStart, vars, rtpVars, workerVars, screenVars, PassedInOrder, Pending, NotBefore
<1>3. CASE PopNode
  <2>1. Pending' = Pending
    BY <1>0, <1>3, PopEffect
  <2>2. UNCHANGED <<nextSend, inNet, packetlist, mRtpBuffer, passed>>
    BY <1>3 DEF PopNode, netVars, screenVars
  <2> QED BY <2>1, <2>2 DEF PassedInOrder, NotBefore
<1>4. CASE dealwithDataNode
  <2>1. /\ node \in Pending /\ node # NoNode
        /\ Pending' = {mList[i] : i \in 1 .. Len(mList)}
        /\ Pending' \subseteq Pending /\ Pending \subseteq RtpDataNodes
        /\ UNCHANGED <<nextSend, inNet, packetlist, mRtpBuffer>>
    BY <1>0, <1>4, DealEffect, PendingType DEF dealwithDataNode, rtpVars
  <2>2. \A h : NotBefore(h) => NotBefore(h)'
    BY <2>1 DEF NotBefore
  <2>3. CASE passed' = passed
    BY <2>1, <2>2, <2>3 DEF PassedInOrder
  <2>4. CASE passed' = Append(passed, node.buffer) /\ ~node.isLostPacket
    <3> DEFINE f == node.buffer[1]
    <3>1. /\ Len(passed) \in Nat
          /\ Len(passed') = Len(passed) + 1
          /\ \A i \in 1 .. Len(passed) : passed'[i] = passed[i]
          /\ passed'[Len(passed) + 1] = node.buffer
      BY <2>1, <2>4, NodeType, AppendProperties DEF TypeOK, WholeInv
    <3>2. /\ f < node.closedBy /\ node.closedBy \in Headers /\ NotBefore(node.closedBy)
          /\ f \in Int /\ node.closedBy \in Int
      BY <2>1, <2>4, NodeType DEF PendingInOrder, IsFrameNode
    <3>3. ASSUME NEW n \in Pending' PROVE f < n.buffer[1]
      <4>1. n.buffer[1] \in Int /\ node.closedBy <= n.buffer[1]
        BY <2>1, <3>3, NodeType DEF PendingInOrder, IsFrameNode
      <4> QED BY <3>2, <4>1
    <3>4. ASSUME NEW i \in 1 .. Len(passed')
          PROVE  /\ \A j \in 1 .. Len(passed') :
                       i < j => passed'[i][1] < passed'[j][1]
                 /\ \E h \in Headers : passed'[i][1] < h /\ NotBefore(h)'
                 /\ \A n \in Pending' : passed'[i][1] < n.buffer[1]
      <4>1. CASE i = Len(passed) + 1
        BY <2>2, <3>1, <3>2, <3>3, <4>1
      <4>2. CASE i \in 1 .. Len(passed)
        <5>1. passed'[i] = passed[i]
          BY <3>1, <4>2
        <5>2. ASSUME NEW j \in 1 .. Len(passed'), i < j
              PROVE  passed[i][1] < passed'[j][1]
          <6>1. CASE j \in 1 .. Len(passed)
            BY <3>1, <4>2, <5>2, <6>1 DEF PassedInOrder
          <6>2. CASE j = Len(passed) + 1
            BY <2>1, <3>1, <4>2, <6>2 DEF PassedInOrder
          <6> QED BY <3>1, <5>2, <6>1, <6>2
        <5>3. /\ \E h \in Headers : passed[i][1] < h /\ NotBefore(h)'
              /\ \A n \in Pending' : passed[i][1] < n.buffer[1]
          BY <2>1, <2>2, <4>2 DEF PassedInOrder
        <5> QED BY <5>1, <5>2, <5>3
      <4> QED BY <3>1, <3>4, <4>1, <4>2
    <3>5. (\A i \in 1 .. Len(passed) :
             \E h \in Headers : passed[i][1] < h /\ NotBefore(h))'
      BY <3>4 DEF NotBefore
    <3> QED BY <3>4, <3>5 DEF PassedInOrder
  <2> QED BY <1>0, <1>4, <2>3, <2>4, DealCases DEF WholeInv
<1> QED BY <1>1, <1>2, <1>3, <1>4 DEF Next, Worker

-----------------------------------------------------------------------------
(* The screen, behind a decoder with any delay.                            *)

\* Buffers in the order of their frames, and one such row before another.
InOrder(s) == \A i, j \in 1 .. Len(s) : i < j => s[i][1] <= s[j][1]
AllBefore(s, u) == \A i \in 1 .. Len(s), j \in 1 .. Len(u) : s[i][1] <= u[j][1]

\* A buffer that was decoded: nothing that is to come is older.
Decoded(b) ==
    /\ b[1] \in Packets
    /\ NotBefore(b[1])
    /\ \A n \in Pending : b[1] <= n.buffer[1]

\* The pictures shown come before those the decoder holds, and these before the
\* frames that are on their way.
ScreenInOrder ==
    /\ InOrder(displayed) /\ InOrder(decoder)
    /\ AllBefore(displayed, decoder)
    /\ \A i \in 1 .. Len(displayed) : Decoded(displayed[i])
    /\ \A i \in 1 .. Len(decoder) : Decoded(decoder[i])

\* Taking the first pictures off what is held keeps everything in its place.
LEMMA ReleaseInOrder ==
    ASSUME NEW d \in Seq(Seq(Packets)), NEW held \in Seq(Seq(Packets)),
           NEW out \in 0 .. Len(held),
           InOrder(d), InOrder(held), AllBefore(d, held)
    PROVE  LET rest == SubSeq(held, out + 1, Len(held))
               all  == d \o SubSeq(held, 1, out)
           IN  /\ InOrder(rest) /\ AllBefore(d, rest)
               /\ InOrder(all) /\ AllBefore(all, rest)
               /\ \A i \in 1 .. Len(rest) : \E k \in 1 .. Len(held) : rest[i] = held[k]
               /\ Len(d) \in Nat /\ Len(all) = Len(d) + out
               /\ \A i \in 1 .. Len(d) : all[i] = d[i]
               /\ \A i \in 1 .. out : all[Len(d) + i] = held[i]
<1> DEFINE rest == SubSeq(held, out + 1, Len(held))
           first == SubSeq(held, 1, out)
           all == d \o first
<1>0. Len(held) \in Nat /\ Len(d) \in Nat /\ out \in Nat /\ out <= Len(held)
  OBVIOUS
<1>1. /\ Len(rest) = Len(held) - out
      /\ \A i \in 1 .. Len(held) - out : rest[i] = held[out + i]
  <2>1. /\ out + 1 \in 1 .. Len(held) + 1 /\ Len(held) \in (out + 1) - 1 .. Len(held)
        /\ Len(held) - (out + 1) + 1 = Len(held) - out
    BY <1>0
  <2>2. /\ Len(rest) = Len(held) - out
        /\ \A i \in 1 .. Len(held) - out : rest[i] = held[(out + 1) + i - 1]
    BY <2>1, PartOfBuffers
  <2>3. \A i \in 1 .. Len(held) - out : (out + 1) + i - 1 = out + i
    BY <1>0
  <2> QED BY <2>2, <2>3
<1>2. /\ first \in Seq(Seq(Packets)) /\ Len(first) = out
      /\ \A i \in 1 .. out : first[i] = held[i]
  <2>1. 1 \in 1 .. Len(held) + 1 /\ out \in 1 - 1 .. Len(held) /\ out - 1 + 1 = out
    BY <1>0
  <2>2. /\ first \in Seq(Seq(Packets)) /\ Len(first) = out
        /\ \A i \in 1 .. out : first[i] = held[1 + i - 1]
    BY <2>1, PartOfBuffers
  <2>3. \A i \in 1 .. out : 1 + i - 1 = i
    BY <1>0
  <2> QED BY <2>2, <2>3
<1>3. /\ Len(all) = Len(d) + out
      /\ \A i \in 1 .. Len(d) : all[i] = d[i]
      /\ \A i \in 1 .. out : all[Len(d) + i] = held[i]
  <2>1. /\ Len(all) = Len(d) + Len(first)
        /\ \A i \in 1 .. Len(d) + Len(first) :
              all[i] = IF i <= Len(d) THEN d[i] ELSE first[i - Len(d)]
    BY <1>2, ConcatProperties
  <2>2. ASSUME NEW i \in 1 .. out PROVE all[Len(d) + i] = held[i]
    <3>1. /\ Len(d) + i \in 1 .. Len(d) + Len(first) /\ ~(Len(d) + i <= Len(d))
          /\ (Len(d) + i) - Len(d) = i
      BY <1>0, <1>2
    <3> QED BY <1>2, <2>1, <3>1
  <2>3. ASSUME NEW i \in 1 .. Len(d) PROVE all[i] = d[i]
    <3>1. i \in 1 .. Len(d) + Len(first) /\ i <= Len(d)
      BY <1>0, <1>2
    <3> QED BY <2>1, <3>1
  <2> QED BY <1>2, <2>1, <2>2, <2>3
<1> HIDE DEF rest, first, all
<1>4. ASSUME NEW i \in 1 .. Len(rest)
      PROVE  out + i \in 1 .. Len(held) /\ rest[i] = held[out + i]
  BY <1>0, <1>1
<1>5. InOrder(rest) /\ AllBefore(d, rest)
  <2>1. ASSUME NEW i \in 1 .. Len(rest), NEW j \in 1 .. Len(rest), i < j
        PROVE  rest[i][1] <= rest[j][1]
    <3>1. out + i < out + j
      BY <1>0, <2>1
    <3> QED BY <1>4, <3>1 DEF InOrder
  <2>2. ASSUME NEW i \in 1 .. Len(d), NEW j \in 1 .. Len(rest)
        PROVE  d[i][1] <= rest[j][1]
    BY <1>4 DEF AllBefore
  <2> QED BY <2>1, <2>2 DEF InOrder, AllBefore
<1>6. ASSUME NEW i \in 1 .. Len(all)
      PROVE  \/ i \in 1 .. Len(d) /\ all[i] = d[i]
             \/ i - Len(d) \in 1 .. out /\ all[i] = held[i - Len(d)]
  <2>1. i \in 1 .. Len(d) \/ (i - Len(d) \in 1 .. out /\ Len(d) + (i - Len(d)) = i)
    BY <1>0, <1>3
  <2> QED BY <1>3, <2>1
<1>7. InOrder(all)
  <2>1. ASSUME NEW i \in 1 .. Len(all), NEW j \in 1 .. Len(all), i < j
        PROVE  all[i][1] <= all[j][1]
    <3>1. CASE j \in 1 .. Len(d)
      <4>1. i \in 1 .. Len(d)
        BY <1>0, <2>1, <3>1
      <4> QED BY <1>3, <2>1, <3>1, <4>1 DEF InOrder
    <3>2. CASE i \in 1 .. Len(d) /\ j \notin 1 .. Len(d)
      <4>1. j - Len(d) \in 1 .. Len(held) /\ all[j] = held[j - Len(d)]
        BY <1>0, <1>6, <3>2
      <4> QED BY <1>3, <3>2, <4>1 DEF AllBefore
    <3>3. CASE i \notin 1 .. Len(d) /\ j \notin 1 .. Len(d)
      <4>1. /\ i - Len(d) \in 1 .. Len(held) /\ all[i] = held[i - Len(d)]
            /\ j - Len(d) \in 1 .. Len(held) /\ all[j] = held[j - Len(d)]
            /\ i - Len(d) < j - Len(d)
        BY <1>0, <1>6, <2>1, <3>3
      <4> QED BY <4>1 DEF InOrder
    <3> QED BY <3>1, <3>2, <3>3
  <2> QED BY <2>1 DEF InOrder
<1>8. AllBefore(all, rest)
  <2>1. ASSUME NEW i \in 1 .. Len(all), NEW j \in 1 .. Len(rest)
        PROVE  all[i][1] <= rest[j][1]
    <3>1. CASE i \in 1 .. Len(d)
      BY <1>3, <1>5, <3>1 DEF AllBefore
    <3>2. CASE i \notin 1 .. Len(d)
      <4>1. /\ i - Len(d) \in 1 .. Len(held) /\ all[i] = held[i - Len(d)]
            /\ i - Len(d) < out + j
        BY <1>0, <1>6, <3>2
      <4> QED BY <1>4, <4>1 DEF InOrder
    <3> QED BY <3>1, <3>2
  <2> QED BY <2>1 DEF AllBefore
<1> QED BY <1>0, <1>3, <1>4, <1>5, <1>7, <1>8 DEF rest, first, all

\* What dealwithDataNode does to the screen.
LEMMA DealScreen ==
    ASSUME TypeOK, dealwithDataNode
    PROVE  \/ UNCHANGED screenVars
           \/ /\ StartsWithHeader(node)
              /\ \E held \in Seq(Seq(Packets)) : \E out \in 0 .. Len(held) :
                    /\ held = Append(decoder, node.buffer) \/ held = decoder
                    /\ decoder' = SubSeq(held, out + 1, Len(held))
                    /\ \/ /\ displayed' = displayed
                          /\ passed' = passed \/ passed' = Append(passed, node.buffer)
                       \/ /\ displayed' = displayed \o SubSeq(held, 1, out)
                          /\ passed' = Append(passed, node.buffer)
<1> DEFINE lost == node.isLostPacket \/ mIsLastKeyFrameLostPacket'
<1>1. node.buffer \in Seq(Packets)
  BY DEF dealwithDataNode, TypeOK, RtpDataNodes
<1>2. CASE StartsWithHeader(node) /\ decodeH264Buffer(node.buffer, lost)
  <2>1. passed' = IF lost THEN passed ELSE Append(passed, node.buffer)
    BY <1>2 DEF decodeH264Buffer
  <2>2. \E held \in Seq(Seq(Packets)) : \E out \in 0 .. Len(held) :
              /\ held = Append(decoder, node.buffer) \/ held = decoder
              /\ decoder' = SubSeq(held, out + 1, Len(held))
              /\ displayed' = IF lost THEN displayed ELSE displayed \o SubSeq(held, 1, out)
    <3>1. decoder \in Seq(Seq(Packets)) /\ Append(decoder, node.buffer) \in Seq(Seq(Packets))
      BY <1>1, AppendProperties DEF TypeOK
    <3> QED BY <1>2, <3>1 DEF decodeH264Buffer, HeldWith
  <2> QED BY <1>2, <2>1, <2>2
<1>3. UNCHANGED screenVars \/ (StartsWithHeader(node) /\ decodeH264Buffer(node.buffer, lost))
  BY DEF dealwithDataNode
<1> QED BY <1>2, <1>3

\* A buffer that was decoded stays before all that is to come.
LEMMA DecodedKept ==
    ASSUME TypeOK, [Next]_vars, NEW b, Decoded(b)
    PROVE  Decoded(b)'
<1>1. CASE RtpNext /\ UNCHANGED workerVars
  <2>1. NotBefore(b[1])'
    BY <1>1, NotBeforeKept DEF Decoded
  <2>2. ASSUME NEW n \in Pending' PROVE b[1] <= n.buffer[1]
    <3>1. CASE n \in Pending
      BY <3>1 DEF Decoded
    <3>2. CASE n \notin Pending
      <4>1. PICK p \in Packets, lost \in BOOLEAN :
               /\ mRtpBuffer # <<>>
               /\ RtpDataNode(lost, mRtpBuffer, p) \in RtpDataNodes
               /\ mList' = Append(mList, RtpDataNode(lost, mRtpBuffer, p))
               /\ node' = node
        BY <1>1, <2>2, <3>2, RtpCases
      <4>2. n = RtpDataNode(lost, mRtpBuffer, p)
        BY <2>2, <3>2, <4>1, QueueEffect
      <4> QED BY <4>1, <4>2 DEF RtpDataNode, Decoded, NotBefore
    <3> QED BY <3>1, <3>2
  <2> QED BY <2>1, <2>2 DEF Decoded, NotBefore
<1>2. ASSUME UNCHANGED <<nextSend, inNet, packetlist, mRtpBuffer>>, Pending' \subseteq Pending
      PROVE  Decoded(b)'
  BY <1>2 DEF Decoded, NotBefore
<1>3. CASE PopNode
  BY <1>2, <1>3, PopEffect DEF PopNode, netVars
<1>4. CASE dealwithDataNode
  BY <1>2, <1>4, DealEffect DEF dealwithDataNode, rtpVars
<1>5. CASE threadStart \/ UNCHANGED vars
  <2>1. Pending' = Pending /\ UNCHANGED <<nextSend, inNet, packetlist, mRtpBuffer>>
    BY <1>5 DEF threadStart, vars, rtpVars, workerVars, Pending
  <2> QED BY <1>2, <2>1
<1> QED BY <1>1, <1>3, <1>4, <1>5 DEF Next, Worker

\* The buffer just dealt with is before all that is to come, and behind what the
\* decoder held and what was shown.
LEMMA NodeDecoded ==
    ASSUME TypeOK, PendingInOrder, ScreenInOrder, dealwithDataNode, StartsWithHeader(node),
           NEW b, b = node.buffer
    PROVE  /\ Decoded(b)' /\ b \in Seq(Packets) /\ b[1] \in Int
           /\ \A i \in 1 .. Len(decoder) : decoder[i][1] <= b[1]
           /\ \A i \in 1 .. Len(displayed) : displayed[i][1] <= b[1]
<1> DEFINE f == node.buffer[1]
<1>1. /\ node \in Pending /\ node \in RtpDataNodes
      /\ Pending' = {mList[i] : i \in 1 .. Len(mList)}
      /\ Pending' \subseteq Pending /\ Pending \subseteq RtpDataNodes
      /\ UNCHANGED <<nextSend, inNet, packetlist, mRtpBuffer>>
  BY DealEffect, PendingType DEF dealwithDataNode, rtpVars
<1>2. /\ f \in Packets /\ f \in Int /\ node.closedBy \in Int
      /\ f <= node.closedBy /\ NotBefore(node.closedBy)
  BY <1>1, NodeType DEF StartsWithHeader, PendingInOrder, IsFrameNode
<1>3. /\ packetlist \subseteq Int /\ inNet \subseteq Int /\ nextSend \in Int
      /\ mRtpBuffer # <<>> => mRtpBuffer[1] \in Int
  <2>1. Packets \subseteq Int
    BY ConstantsAssumption DEF ConstantsAssumption, Packets
  <2>2. mRtpBuffer # <<>> => 1 \in 1 .. Len(mRtpBuffer)
    BY EmptySeq DEF TypeOK, RtpTypeOK
  <2>3. mRtpBuffer # <<>> => mRtpBuffer[1] \in Packets
    BY <2>2, ElementOfSeq DEF TypeOK, RtpTypeOK
  <2>4. 0 .. NumPackets \subseteq Int
    BY ConstantsAssumption DEF ConstantsAssumption
  <2> QED BY <2>1, <2>3, <2>4 DEF TypeOK, RtpTypeOK
<1>4. NotBefore(f)
  <2> HIDE DEF f
  <2> QED BY <1>2, <1>3 DEF NotBefore
<1>5. ASSUME NEW n \in Pending' PROVE f <= n.buffer[1]
  <2>1. n.buffer[1] \in Int /\ node.closedBy <= n.buffer[1]
    BY <1>1, <1>5, NodeType DEF PendingInOrder, IsFrameNode, dealwithDataNode
  <2> QED BY <1>2, <2>1
<1>6. Decoded(b)'
  BY <1>1, <1>2, <1>4, <1>5 DEF Decoded, NotBefore
<1> QED BY <1>1, <1>2, <1>6, NodeType DEF ScreenInOrder, Decoded

\* The screen stays in order.
LEMMA ScreenStep ==
    ASSUME TypeOK, TypeOK', PendingInOrder, ScreenInOrder, [Next]_vars
    PROVE  ScreenInOrder'
<1>0. /\ displayed \in Seq(Seq(Packets)) /\ decoder \in Seq(Seq(Packets))
      /\ Len(displayed) \in Nat /\ Len(decoder) \in Nat
  BY DEF TypeOK
<1>1. CASE UNCHANGED <<displayed, decoder>>
  <2>1. /\ \A i \in 1 .. Len(displayed) : Decoded(displayed[i])
        /\ \A i \in 1 .. Len(decoder) : Decoded(decoder[i])
    BY DEF ScreenInOrder
  <2>2. ASSUME NEW d, d = displayed, NEW i \in 1 .. Len(d) PROVE Decoded(d[i])'
    BY <2>1, <2>2, DecodedKept
  <2>3. ASSUME NEW d, d = decoder, NEW i \in 1 .. Len(d) PROVE Decoded(d[i])'
    BY <2>1, <2>3, DecodedKept
  <2>4. /\ \A i \in 1 .. Len(displayed') : Decoded(displayed[i])'
        /\ \A i \in 1 .. Len(decoder') : Decoded(decoder[i])'
    BY <1>1, <2>2, <2>3 DEF Decoded, NotBefore
  <2> QED BY <1>1, <2>4 DEF ScreenInOrder, InOrder, AllBefore
<1>2. ASSUME dealwithDataNode, StartsWithHeader(node),
             NEW held \in Seq(Seq(Packets)),
             held = Append(decoder, node.buffer) \/ held = decoder,
             NEW out \in 0 .. Len(held),
             decoder' = SubSeq(held, out + 1, Len(held)),
             displayed' = displayed \/ displayed' = displayed \o SubSeq(held, 1, out)
      PROVE  ScreenInOrder'
  <2>1. PICK b : b = node.buffer
    OBVIOUS
  <2>2. PICK d : d = displayed
    OBVIOUS
  <2>3. PICK h : h = held
    OBVIOUS
  <2>4. /\ Decoded(b)' /\ b \in Seq(Packets) /\ b[1] \in Int
        /\ \A i \in 1 .. Len(decoder) : decoder[i][1] <= b[1]
        /\ \A i \in 1 .. Len(displayed) : displayed[i][1] <= b[1]
    BY <1>2, <2>1, NodeDecoded
  <2>5. \/ h = decoder
        \/ /\ Len(h) = Len(decoder) + 1
           /\ \A i \in 1 .. Len(decoder) : h[i] = decoder[i]
           /\ h[Len(decoder) + 1] = b
    <3>1. h = Append(decoder, b) \/ h = decoder
      BY <1>2, <2>1, <2>3
    <3>2. /\ Len(Append(decoder, b)) = Len(decoder) + 1
          /\ \A i \in 1 .. Len(decoder) : Append(decoder, b)[i] = decoder[i]
          /\ Append(decoder, b)[Len(decoder) + 1] = b
      BY <1>0, <2>4, AppendProperties
    <3> QED BY <3>1, <3>2
  <2>6. InOrder(h) /\ AllBefore(d, h) /\ InOrder(d)
    <3>1. CASE h = decoder
      BY <2>2, <3>1 DEF ScreenInOrder
    <3>2. CASE /\ Len(h) = Len(decoder) + 1
               /\ \A i \in 1 .. Len(decoder) : h[i] = decoder[i]
               /\ h[Len(decoder) + 1] = b
      <4>1. ASSUME NEW i \in 1 .. Len(h), NEW j \in 1 .. Len(h), i < j
            PROVE  h[i][1] <= h[j][1]
        <5>1. i \in 1 .. Len(decoder)
          BY <1>0, <3>2, <4>1
        <5>2. j \in 1 .. Len(decoder) \/ j = Len(decoder) + 1
          BY <1>0, <3>2
        <5> QED BY <2>4, <3>2, <4>1, <5>1, <5>2 DEF ScreenInOrder, InOrder
      <4>2. ASSUME NEW i \in 1 .. Len(d), NEW j \in 1 .. Len(h)
            PROVE  d[i][1] <= h[j][1]
        <5>1. j \in 1 .. Len(decoder) \/ j = Len(decoder) + 1
          BY <1>0, <3>2
        <5> QED BY <2>2, <2>4, <3>2, <5>1 DEF ScreenInOrder, AllBefore
      <4> QED BY <2>2, <4>1, <4>2 DEF ScreenInOrder, InOrder, AllBefore
    <3> QED BY <2>5, <3>1, <3>2
  <2>7. ASSUME NEW i \in 1 .. Len(h) PROVE Decoded(h[i])'
    <3>1. CASE i \in 1 .. Len(decoder) /\ h[i] = decoder[i]
      <4>1. Decoded(h[i])
        BY <3>1 DEF ScreenInOrder
      <4> QED BY <4>1, DecodedKept
    <3>2. CASE h[i] = b
      BY <2>4, <3>2
    <3> QED BY <1>0, <2>5, <3>1, <3>2
  <2>8. ASSUME NEW i \in 1 .. Len(d) PROVE Decoded(d[i])'
    <3>1. Decoded(d[i])
      BY <2>2 DEF ScreenInOrder
    <3> QED BY <3>1, DecodedKept
  <2> DEFINE rest == SubSeq(h, out + 1, Len(h))
             all  == d \o SubSeq(h, 1, out)
  <2>9. /\ InOrder(rest) /\ AllBefore(d, rest)
        /\ InOrder(all) /\ AllBefore(all, rest)
        /\ \A i \in 1 .. Len(rest) : \E k \in 1 .. Len(h) : rest[i] = h[k]
        /\ Len(d) \in Nat /\ Len(all) = Len(d) + out
        /\ \A i \in 1 .. Len(d) : all[i] = d[i]
        /\ \A i \in 1 .. out : all[Len(d) + i] = h[i]
    BY <1>0, <2>2, <2>3, <2>6, ReleaseInOrder
  <2>10. decoder' = rest /\ (displayed' = d \/ displayed' = all)
    BY <1>2, <2>2, <2>3
  <2> HIDE DEF rest, all
  <2>11. ASSUME NEW i \in 1 .. Len(rest) PROVE Decoded(rest[i])'
    BY <2>7, <2>9 DEF Decoded, NotBefore
  <2>12. ASSUME NEW i \in 1 .. Len(all) PROVE Decoded(all[i])'
    <3>1. i \in 1 .. Len(d) \/ (i - Len(d) \in 1 .. out /\ Len(d) + (i - Len(d)) = i)
      BY <2>9
    <3>2. out <= Len(h)
      BY <1>2, <2>3
    <3>3. CASE i \in 1 .. Len(d)
      <4>1. all[i] = d[i]
        BY <2>9, <3>3
      <4> QED BY <2>8, <3>3, <4>1
    <3>4. CASE i - Len(d) \in 1 .. out /\ Len(d) + (i - Len(d)) = i
      <4>1. all[i] = h[i - Len(d)] /\ i - Len(d) \in 1 .. Len(h)
        BY <2>9, <3>2, <3>4
      <4> QED BY <2>7, <4>1
    <3> QED BY <3>1, <3>3, <3>4
  <2>13. /\ \A i \in 1 .. Len(displayed') : Decoded(displayed[i])'
         /\ \A i \in 1 .. Len(decoder') : Decoded(decoder[i])'
    BY <2>8, <2>10, <2>11, <2>12 DEF Decoded, NotBefore
  <2> QED BY <2>6, <2>9, <2>10, <2>13 DEF ScreenInOrder, InOrder, AllBefore
<1>3. CASE dealwithDataNode
  BY <1>1, <1>2, <1>3, DealScreen DEF screenVars
<1> QED BY <1>1, <1>3 DEF Next, Worker, threadStart, PopNode, vars, workerVars, screenVars

\* A step that shows pictures lets a frame pass that is not older.
LEMMA DamageStep ==
    ASSUME WholeInv, PassedFramesAreWhole', PendingInOrder, ScreenInOrder,
           DamageComesLate, [Next]_vars
    PROVE  DamageComesLate'
<1>0. /\ TypeOK
      /\ displayed \in Seq(Seq(Packets)) /\ Len(displayed) \in Nat
      /\ passed \in Seq(Seq(Packets)) /\ Len(passed) \in Nat
      /\ decoder \in Seq(Seq(Packets)) /\ Len(decoder) \in Nat
  BY DEF WholeInv, TypeOK
<1>1. ASSUME NEW i \in 1 .. Len(displayed), ~IsWholeFrame(displayed[i]),
             passed' = passed \/ passed' = Append(passed, node.buffer),
             node.buffer \in Seq(Packets) \/ passed' = passed
      PROVE  \E j \in 1 .. Len(passed') :
                IsWholeFrame(passed'[j]) /\ displayed[i][1] <= passed'[j][1]
  <2>1. PICK j \in 1 .. Len(passed) :
           IsWholeFrame(passed[j]) /\ displayed[i][1] <= passed[j][1]
    BY <1>1 DEF DamageComesLate
  <2>2. j \in 1 .. Len(passed') /\ passed'[j] = passed[j]
    <3>1. CASE passed' = passed
      BY <3>1
    <3>2. CASE passed' = Append(passed, node.buffer) /\ node.buffer \in Seq(Packets)
      <4>1. /\ Len(passed') = Len(passed) + 1
            /\ \A k \in 1 .. Len(passed) : passed'[k] = passed[k]
        BY <1>0, <3>2, AppendProperties
      <4> QED BY <1>0, <4>1
    <3> QED BY <1>1, <3>1, <3>2
  <2> QED BY <2>1, <2>2
<1>2. CASE displayed' = displayed /\ passed' = passed
  BY <1>2 DEF DamageComesLate, IsWholeFrame, Consecutive
<1>3. ASSUME dealwithDataNode, StartsWithHeader(node),
             displayed' = displayed, passed' = Append(passed, node.buffer)
      PROVE  DamageComesLate'
  <2>1. node.buffer \in Seq(Packets)
    BY <1>0, <1>3, DealEffect, PendingType, NodeType
  <2> QED BY <1>1, <1>3, <2>1 DEF DamageComesLate, IsWholeFrame, Consecutive
<1>4. ASSUME dealwithDataNode, StartsWithHeader(node),
             NEW held \in Seq(Seq(Packets)),
             held = Append(decoder, node.buffer) \/ held = decoder,
             NEW out \in 0 .. Len(held),
             displayed' = displayed \o SubSeq(held, 1, out),
             passed' = Append(passed, node.buffer)
      PROVE  DamageComesLate'
  <2>1. PICK b : b = node.buffer
    OBVIOUS
  <2>2. /\ b \in Seq(Packets) /\ b[1] \in Int
        /\ \A i \in 1 .. Len(decoder) : decoder[i][1] <= b[1]
    BY <1>0, <1>4, <2>1, NodeDecoded
  <2>3. /\ Len(passed') = Len(passed) + 1 /\ passed'[Len(passed) + 1] = b
        /\ Len(passed) + 1 \in 1 .. Len(passed')
    BY <1>0, <1>4, <2>1, <2>2, AppendProperties
  <2>4. IsWholeFrame(b)
    BY <2>3 DEF PassedFramesAreWhole, IsWholeFrame, Consecutive
  <2>5. ASSUME NEW i \in 1 .. Len(held) PROVE held[i][1] <= b[1]
    <3>1. CASE held = decoder
      BY <2>2, <3>1
    <3>2. CASE held = Append(decoder, b)
      <4>1. \/ i \in 1 .. Len(decoder) /\ held[i] = decoder[i]
            \/ held[i] = b
        BY <1>0, <2>2, <3>2, AppendProperties
      <4> QED BY <2>2, <4>1
    <3> QED BY <1>4, <2>1, <3>1, <3>2
  <2>6. ASSUME NEW i \in 1 .. Len(displayed')
        PROVE  \/ i \in 1 .. Len(displayed) /\ displayed'[i] = displayed[i]
               \/ \E k \in 1 .. Len(held) : displayed'[i] = held[k]
    <3> DEFINE first == SubSeq(held, 1, out)
    <3>1. 1 \in 1 .. Len(held) + 1 /\ out \in 1 - 1 .. Len(held) /\ out - 1 + 1 = out
      BY <1>4
    <3>2. /\ first \in Seq(Seq(Packets)) /\ Len(first) = out
          /\ \A k \in 1 .. out : first[k] = held[1 + k - 1]
      BY <3>1, PartOfBuffers
    <3>3. /\ displayed' = displayed \o first
          /\ i \in 1 .. Len(displayed) + out
          /\ displayed'[i] = IF i <= Len(displayed) THEN displayed[i]
                             ELSE first[i - Len(displayed)]
      BY <1>0, <1>4, <2>6, <3>2, ConcatProperties
    <3>4. CASE i <= Len(displayed)
      BY <3>3, <3>4
    <3>5. CASE ~(i <= Len(displayed))
      <4>1. /\ i - Len(displayed) \in 1 .. out
            /\ 1 + (i - Len(displayed)) - 1 = i - Len(displayed)
            /\ i - Len(displayed) \in 1 .. Len(held)
        BY <1>0, <1>4, <3>3, <3>5
      <4>2. displayed'[i] = held[i - Len(displayed)]
        BY <3>2, <3>3, <3>5, <4>1
      <4> QED BY <4>1, <4>2
    <3> QED BY <3>4, <3>5
  <2>7. ASSUME NEW i \in 1 .. Len(displayed'), ~IsWholeFrame(displayed'[i])
        PROVE  \E j \in 1 .. Len(passed') :
                  IsWholeFrame(passed'[j]) /\ displayed'[i][1] <= passed'[j][1]
    <3>1. CASE i \in 1 .. Len(displayed) /\ displayed'[i] = displayed[i]
      BY <1>1, <1>4, <2>1, <2>2, <2>7, <3>1
    <3>2. CASE \E k \in 1 .. Len(held) : displayed'[i] = held[k]
      BY <2>3, <2>4, <2>5, <3>2
    <3> QED BY <2>6, <3>1, <3>2
  <2> QED BY <2>7 DEF DamageComesLate, IsWholeFrame, Consecutive
<1>5. CASE dealwithDataNode
  <2>1. CASE UNCHANGED screenVars
    BY <1>2, <2>1 DEF screenVars
  <2>2. CASE ~UNCHANGED screenVars
    BY <1>0, <1>2, <1>3, <1>4, <1>5, <2>2, DealScreen
  <2> QED BY <2>1, <2>2
<1> QED BY <1>2, <1>5 DEF Next, Worker, threadStart, PopNode, vars, workerVars, screenVars

\* All that the screen rests on.
ScreenInv ==
    /\ WholeInv
    /\ PacketOrder
    /\ PendingInOrder
    /\ ScreenInOrder
    /\ DamageComesLate

\* ScreenInv holds initially and every step keeps it.
LEMMA ScreenInvInductive ==
    ASSUME GapsAreSeen, ~Reordering
    PROVE  /\ Init => ScreenInv
           /\ ScreenInv /\ [Next]_vars => ScreenInv'
<1>1. ASSUME Init PROVE ScreenInv
  <2>1. WholeInv /\ PacketOrder
    BY <1>1, WholeInvInductive, OrderInitially DEF Init
  <2>2. mList = <<>> /\ node = NoNode /\ displayed = <<>> /\ decoder = <<>>
        /\ Len(<<>>) = 0
    BY <1>1, EmptySeq DEF Init, RtpInit
  <2>3. Pending = {}
    BY <2>2 DEF Pending
  <2>4. PendingInOrder /\ ScreenInOrder /\ DamageComesLate
    BY <2>2, <2>3
       DEF PendingInOrder, ScreenInOrder, InOrder, AllBefore, DamageComesLate
  <2> QED BY <2>1, <2>4 DEF ScreenInv
<1>2. ASSUME ScreenInv, [Next]_vars PROVE ScreenInv'
  <2> USE <1>2 DEF ScreenInv
  <2>1. WholeInv'
    BY WholeInvInductive
  <2>2. TypeOK /\ TypeOK' /\ PassedFramesAreWhole'
    BY <2>1 DEF WholeInv
  <2>3. PacketOrder'
    BY OrderKept
  <2>4. PendingInOrder' /\ ScreenInOrder' /\ DamageComesLate'
    BY <2>2, PendingStep, ScreenStep, DamageStep
  <2> QED BY <2>1, <2>3, <2>4
<1> QED BY <1>1, <1>2

\* However many pictures the decoder keeps: on a network that keeps the order, in every
\* stream in which no gap goes unseen, the picture never goes back to an earlier frame.
THEOREM PicturesStayInOrder ==
    GapsAreSeen /\ ~Reordering /\ Spec => []PicturesInOrder
<1>1. SUFFICES ASSUME GapsAreSeen, ~Reordering
               PROVE  Spec => []PicturesInOrder
  OBVIOUS
<1>2. Init => ScreenInv
  BY <1>1, ScreenInvInductive
<1>3. ScreenInv /\ [Next]_vars => ScreenInv'
  BY <1>1, ScreenInvInductive
<1>4. ScreenInv => PicturesInOrder
  BY DEF ScreenInv, ScreenInOrder, InOrder, PicturesInOrder
<1> QED BY <1>2, <1>3, <1>4, PTL DEF Spec

\* However many pictures the decoder keeps: a damaged one reaches the screen only
\* behind a later frame that is whole.
THEOREM DamageIsHeldBack ==
    GapsAreSeen /\ ~Reordering /\ Spec => []DamageComesLate
<1>1. SUFFICES ASSUME GapsAreSeen, ~Reordering
               PROVE  Spec => []DamageComesLate
  OBVIOUS
<1>2. Init => ScreenInv
  BY <1>1, ScreenInvInductive
<1>3. ScreenInv /\ [Next]_vars => ScreenInv'
  BY <1>1, ScreenInvInductive
<1>4. ScreenInv => DamageComesLate
  BY DEF ScreenInv
<1> QED BY <1>2, <1>3, <1>4, PTL DEF Spec

-----------------------------------------------------------------------------
(* No I frame is passed over.                                              *)

\* Under the hypotheses, an I frame on its way stays on its way until the
\* decoding thread deals with it.
LEMMA AheadKept ==
    ASSUME TypeOK, KeyFramesFit, KeyHeaders \intersect Losable = {},
           NEW k \in KeyHeaders, Ahead(k), RtpNext, UNCHANGED workerVars
    PROVE  Ahead(k)'
<1>0. k \in Headers /\ k \in Packets \ Losable /\ TypeOK /\ RtpTypeOK
  BY ConstantsAssumption, PipelineAssumption
     DEF ConstantsAssumption, PipelineAssumption, TypeOK
<1>1. Pending \subseteq Pending'
  <2>1. CASE Pending' = Pending
    BY <2>1
  <2>2. CASE \E p \in Packets, lost \in BOOLEAN :
                 /\ RtpDataNode(lost, mRtpBuffer, p) \in RtpDataNodes
                 /\ mList' = Append(mList, RtpDataNode(lost, mRtpBuffer, p))
                 /\ node' = node
    BY <1>0, <2>2, QueueEffect
  <2> QED BY <1>0, <2>1, <2>2, RtpCases
<1>2. CASE \E n \in Pending : n.buffer[1] = k
  <2>1. PICK n \in Pending : n.buffer[1] = k
    BY <1>2
  <2>2. \E m \in Pending' : m.buffer[1] = k
    BY <1>1, <2>1
  <2> QED BY <2>2 DEF Ahead
<1>3. CASE Future(k)
  <2>1. CASE TakePacket(k)
    <3>1. mRtpBuffer' # <<>> /\ mRtpBuffer'[1] = k
      BY <1>0, <2>1, InputCases DEF TakePacket
    <3> QED BY <3>1 DEF Ahead
  <2>2. CASE ~TakePacket(k)
    BY <1>0, <1>3, <2>2, FutureKept DEF Ahead
  <2> QED BY <2>1, <2>2
<1>4. CASE mRtpBuffer # <<>> /\ mRtpBuffer[1] = k
  <2>1. ASSUME NEW p \in Packets, TakePacket(p) PROVE Ahead(k)'
    <3>1. Len(mRtpBuffer) < MaxPsBuffer
      BY <1>4 DEF KeyFramesFit
    <3>2. CASE mRtpBuffer' # <<>> /\ mRtpBuffer'[1] = mRtpBuffer[1]
      BY <1>4, <3>2 DEF Ahead
    <3>3. ASSUME NEW lost \in BOOLEAN,
                 mList' = Append(mList, RtpDataNode(lost, mRtpBuffer, p))
          PROVE  Ahead(k)'
      <4> DEFINE new == RtpDataNode(lost, mRtpBuffer, p)
      <4>1. new \in RtpDataNodes /\ node' = node /\ new.buffer = mRtpBuffer
        BY <1>0 DEF RtpTypeOK, RtpDataNode, RtpDataNodes, workerVars, screenVars
      <4>2. new \in Pending'
        BY <1>0, <3>3, <4>1, QueueEffect
      <4>3. \E n \in Pending' : n.buffer[1] = k
        BY <1>4, <4>1, <4>2
      <4> QED BY <4>3 DEF Ahead
    <3>4. inputRtpBuffer(p)
      BY <2>1 DEF TakePacket
    <3> QED BY <1>0, <1>4, <3>1, <3>2, <3>3, <3>4, InputCases
  <2>2. CASE mRtpBuffer' = mRtpBuffer
    BY <1>4, <2>2 DEF Ahead
  <2> QED BY <2>1, <2>2 DEF RtpNext, RtpThread, CameraSend, NetLose, PollThreadReceive,
         BeginDataAccess, EndDataAccess, bufVars
<1> QED BY <1>2, <1>3, <1>4 DEF Ahead

\* The scan for an SPS finds the first packet or nothing: what is behind it in
\* the buffer of a pending node is no header.
LEMMA SpsIsFirst ==
    ASSUME NEW n \in RtpDataNodes, IsFrameNode(n)
    PROVE  HasSps(n) <=> n.buffer[1] \in KeyHeaders
<1>1. Len(n.buffer) \in Nat \ {0}
  BY NodeType, EmptySeq DEF IsFrameNode
<1>2. ASSUME NEW i \in 1 .. Len(n.buffer), n.buffer[i] \in KeyHeaders PROVE i = 1
  BY <1>1, <1>2, PipelineAssumption DEF IsFrameNode, PipelineAssumption
<1> QED BY <1>1, <1>2 DEF HasSps

\* The I frames stay in order.
LEMMA KeysStep ==
    ASSUME KeyHeaders \intersect Losable = {}, KeyFramesFit,
           WholeInv, PacketOrder, StartedInv, PendingInOrder, PassedInOrder,
           KeysInOrder, [Next]_vars
    PROVE  KeysInOrder'
<1>0. /\ TypeOK /\ RtpTypeOK
      /\ KeyHeaders \subseteq Headers /\ KeyHeaders \subseteq Packets \ Losable
      /\ Packets \subseteq Int
  BY ConstantsAssumption, PipelineAssumption
     DEF WholeInv, TypeOK, ConstantsAssumption, PipelineAssumption, Packets
<1>1. CASE RtpNext /\ UNCHANGED workerVars
  <2>1. ASSUME NEW k, NoKeyPassed(k) PROVE NoKeyPassed(k)'
    BY <1>0, <1>1, <2>1, AheadKept DEF NoKeyPassed
  <2>2. ASSUME NEW x \in KeyHeaders, mRtpBuffer' # <<>>, mRtpBuffer'[1] = x
        PROVE  NoKeyPassed(x)'
    <3>1. CASE mRtpBuffer # <<>> /\ x = mRtpBuffer[1]
      <4>1. NoKeyPassed(x)
        BY <2>2, <3>1 DEF KeysInOrder
      <4> QED BY <2>1, <4>1
    <3>2. CASE TakePacket(x)
      <4>1. ASSUME NEW j \in KeyHeaders, x < j PROVE Ahead(j)'
        <5>1. Future(j)
          BY <1>0, <3>2, <4>1 DEF TakePacket, PacketOrder
        <5>2. Ahead(j)
          BY <5>1 DEF Ahead
        <5> QED BY <1>0, <1>1, <5>2, AheadKept
      <4> QED BY <4>1 DEF NoKeyPassed
    <3>3. ASSUME NEW p \in Packets, TakePacket(p)
          PROVE  x = p \/ (mRtpBuffer # <<>> /\ x = mRtpBuffer[1])
      BY <1>0, <2>2, <3>3, InputCases DEF TakePacket
    <3>4. mRtpBuffer' = mRtpBuffer \/ \E p \in Packets : TakePacket(p)
      BY <1>1 DEF RtpNext, RtpThread, CameraSend, NetLose, PollThreadReceive,
         BeginDataAccess, EndDataAccess, bufVars
    <3> QED BY <2>2, <3>1, <3>2, <3>3, <3>4
  <2>3. ASSUME NEW n \in Pending', n.buffer[1] \in KeyHeaders
        PROVE  NoKeyPassed(n.buffer[1])'
    <3>1. CASE n \in Pending
      BY <2>1, <2>3, <3>1 DEF KeysInOrder
    <3>2. CASE n \notin Pending
      <4>1. PICK p \in Packets, lost \in BOOLEAN :
               /\ mRtpBuffer # <<>>
               /\ RtpDataNode(lost, mRtpBuffer, p) \in RtpDataNodes
               /\ mList' = Append(mList, RtpDataNode(lost, mRtpBuffer, p))
               /\ node' = node
        BY <1>0, <1>1, <2>3, <3>2, RtpCases
      <4>2. n = RtpDataNode(lost, mRtpBuffer, p)
        BY <1>0, <2>3, <3>2, <4>1, QueueEffect
      <4>3. n.buffer = mRtpBuffer
        BY <4>2 DEF RtpDataNode
      <4> QED BY <2>1, <2>3, <4>1, <4>3 DEF KeysInOrder
    <3> QED BY <3>1, <3>2
  <2>4. ASSUME mIsThreadRunning /\ mIsKeyFrameGetted /\ ~mIsLastKeyFrameLostPacket
        PROVE  \E i \in 1 .. Len(passed), k \in KeyHeaders :
                  passed[i][1] = k /\ NoKeyPassed(k)'
    <3>1. PICK i \in 1 .. Len(passed) :
             passed[i][1] \in KeyHeaders /\ NoKeyPassed(passed[i][1])
      BY <2>4 DEF KeysInOrder
    <3>2. PICK k \in KeyHeaders : passed[i][1] = k /\ NoKeyPassed(k)
      BY <3>1
    <3> QED BY <2>1, <3>2
  <2>5. UNCHANGED <<mIsThreadRunning, mIsKeyFrameGetted,
                    mIsLastKeyFrameLostPacket, passed>>
    BY <1>1 DEF workerVars, screenVars
  <2>6. (mRtpBuffer # <<>> /\ mRtpBuffer[1] \in KeyHeaders => NoKeyPassed(mRtpBuffer[1]))'
    BY <2>2 DEF NoKeyPassed
  <2>7. (\A n \in Pending : n.buffer[1] \in KeyHeaders => NoKeyPassed(n.buffer[1]))'
    BY <2>3
  <2>8. (mIsThreadRunning /\ mIsKeyFrameGetted /\ ~mIsLastKeyFrameLostPacket =>
          \E i \in 1 .. Len(passed) :
              passed[i][1] \in KeyHeaders /\ NoKeyPassed(passed[i][1]))'
    BY <2>4, <2>5 DEF NoKeyPassed
  <2> QED BY <2>6, <2>7, <2>8 DEF KeysInOrder
<1>2. CASE threadStart
  <2>1. UNCHANGED <<nextSend, inNet, packetlist, mRtpBuffer, mList, node>>
    BY <1>2 DEF threadStart, rtpVars
  <2>2. Pending' = Pending /\ ~mIsKeyFrameGetted'
    BY <1>2, <2>1 DEF Pending, threadStart
  <2> QED BY <2>1, <2>2 DEF KeysInOrder, NoKeyPassed, Ahead, Future
<1>3. CASE PopNode \/ UNCHANGED vars
  <2>1. UNCHANGED <<nextSend, inNet, packetlist, mRtpBuffer, passed,
           mIsThreadRunning, mIsKeyFrameGetted, mIsLastKeyFrameLostPacket>>
    BY <1>3 DEF PopNode, vars, rtpVars, netVars, workerVars, screenVars
  <2>2. Pending' = Pending
    <3>1. CASE PopNode
      BY <1>0, <3>1, PopEffect
    <3>2. CASE UNCHANGED vars
      BY <3>2 DEF vars, rtpVars, workerVars, screenVars, Pending
    <3> QED BY <1>3, <3>1, <3>2
  <2> QED BY <2>1, <2>2 DEF KeysInOrder, NoKeyPassed, Ahead, Future
<1>4. CASE dealwithDataNode
  <2> DEFINE f == node.buffer[1]
  <2>1. /\ node \in Pending /\ node \in RtpDataNodes /\ IsFrameNode(node)
        /\ NotBefore(node.closedBy)
        /\ Pending' = {mList[i] : i \in 1 .. Len(mList)}
        /\ Pending = Pending' \union {node} /\ Pending \subseteq RtpDataNodes
        /\ UNCHANGED <<nextSend, inNet, packetlist, mRtpBuffer, mIsThreadRunning>>
    BY <1>0, <1>4, DealEffect, PendingType
       DEF dealwithDataNode, rtpVars, PendingInOrder
  <2>2. f \in Int /\ node.closedBy \in Int /\ f <= node.closedBy
    BY <2>1, NodeType DEF IsFrameNode
  <2>3. ASSUME NEW k, Ahead(k), k # f PROVE Ahead(k)'
    <3>1. CASE \E n \in Pending : n.buffer[1] = k
      <4>1. PICK n \in Pending : n.buffer[1] = k
        BY <3>1
      <4>2. \E m \in Pending' : m.buffer[1] = k
        BY <2>1, <2>3, <4>1
      <4> QED BY <4>2 DEF Ahead
    <3> QED BY <2>1, <2>3, <3>1 DEF Ahead, Future
  <2>4. ASSUME NEW k, NoKeyPassed(k), f \notin KeyHeaders \/ (k \in Int /\ f <= k)
        PROVE  NoKeyPassed(k)'
    <3>1. ASSUME NEW j \in KeyHeaders, k < j PROVE Ahead(j)'
      <4>1. Ahead(j) /\ j \in Int
        BY <1>0, <2>4, <3>1 DEF NoKeyPassed
      <4>2. j # f
        BY <2>2, <2>4, <3>1, <4>1
      <4> QED BY <2>3, <4>1, <4>2
    <3> QED BY <3>1 DEF NoKeyPassed
  <2>5. (mRtpBuffer # <<>> /\ mRtpBuffer[1] \in KeyHeaders => NoKeyPassed(mRtpBuffer[1]))'
    <3>1. ASSUME mRtpBuffer # <<>>, NEW k \in KeyHeaders, mRtpBuffer[1] = k
          PROVE  NoKeyPassed(k)'
      <4>1. k \in Int /\ node.closedBy <= k
        BY <1>0, <2>1, <3>1 DEF NotBefore
      <4>2. f <= k /\ NoKeyPassed(k)
        BY <2>2, <3>1, <4>1 DEF KeysInOrder
      <4> QED BY <2>4, <4>1, <4>2
    <3> QED BY <2>1, <3>1 DEF NoKeyPassed
  <2>6. (\A n \in Pending : n.buffer[1] \in KeyHeaders => NoKeyPassed(n.buffer[1]))'
    <3>1. ASSUME NEW n \in Pending', n.buffer[1] \in KeyHeaders
          PROVE  NoKeyPassed(n.buffer[1])'
      <4>1. n.buffer[1] \in Int /\ node.closedBy <= n.buffer[1]
        BY <1>0, <1>4, <2>1, <3>1 DEF PendingInOrder, dealwithDataNode
      <4>2. f <= n.buffer[1] /\ NoKeyPassed(n.buffer[1])
        BY <2>1, <2>2, <3>1, <4>1 DEF KeysInOrder
      <4> QED BY <2>4, <4>1, <4>2
    <3> QED BY <3>1
  <2>7. (mIsThreadRunning /\ mIsKeyFrameGetted /\ ~mIsLastKeyFrameLostPacket =>
          \E i \in 1 .. Len(passed) :
              passed[i][1] \in KeyHeaders /\ NoKeyPassed(passed[i][1]))'
    <3>0. SUFFICES ASSUME mIsThreadRunning', mIsKeyFrameGetted',
                          ~mIsLastKeyFrameLostPacket'
                   PROVE  \E i \in 1 .. Len(passed'), k \in KeyHeaders :
                             passed'[i][1] = k /\ NoKeyPassed(k)'
      BY DEF NoKeyPassed
    <3>1. /\ passed \in Seq(Seq(Packets)) /\ node.buffer \in Seq(Packets)
          /\ Len(passed) \in Nat
      BY <1>0, <2>1, NodeType DEF TypeOK
    <3>2. CASE StartsWithHeader(node) /\ f \in KeyHeaders
      <4>1. ~node.isLostPacket
        BY <1>4, <2>1, <3>0, <3>2, SpsIsFirst DEF dealwithDataNode
      <4>2. passed' = Append(passed, node.buffer)
        BY <1>0, <1>4, <3>0, <3>2, <4>1, DealCases DEF WholeInv, dealwithDataNode
      <4>3. Len(passed) + 1 \in 1 .. Len(passed')
            /\ passed'[Len(passed) + 1] = node.buffer
        BY <3>1, <4>2, AppendProperties
      <4>4. PICK k \in KeyHeaders : k = f /\ NoKeyPassed(k)
        BY <2>1, <3>2 DEF KeysInOrder
      <4>5. NoKeyPassed(k)'
        BY <2>2, <2>4, <4>4
      <4> QED BY <4>3, <4>4, <4>5
    <3>3. CASE ~(StartsWithHeader(node) /\ f \in KeyHeaders)
      <4>1. f \notin KeyHeaders
        BY <1>0, <2>1, <3>3 DEF StartsWithHeader, IsFrameNode
      <4>2. mIsKeyFrameGetted /\ ~mIsLastKeyFrameLostPacket
        BY <1>4, <2>1, <3>0, <3>3, <4>1, SpsIsFirst DEF dealwithDataNode
      <4>3. PICK i \in 1 .. Len(passed) :
               passed[i][1] \in KeyHeaders /\ NoKeyPassed(passed[i][1])
        BY <2>1, <3>0, <4>2 DEF KeysInOrder
      <4>4. i \in 1 .. Len(passed') /\ passed'[i] = passed[i]
        <5>1. CASE passed' = passed
          BY <5>1
        <5>2. CASE passed' = Append(passed, node.buffer)
          BY <3>1, <5>2, AppendProperties
        <5> QED BY <1>0, <1>4, <5>1, <5>2, DealCases DEF WholeInv
      <4>5. PICK k \in KeyHeaders : passed[i][1] = k /\ NoKeyPassed(k)
        BY <4>3
      <4>6. NoKeyPassed(k)'
        BY <2>4, <4>1, <4>5
      <4> QED BY <4>4, <4>5, <4>6
    <3> QED BY <3>2, <3>3
  <2> QED BY <2>5, <2>6, <2>7 DEF KeysInOrder
<1> QED BY <1>1, <1>2, <1>3, <1>4 DEF Next, Worker

-----------------------------------------------------------------------------
(* The channel implements FrameDisplay.                                    *)

\* What is assumed of the stream and the network: no gap goes unseen, packets do
\* not overtake each other, and the packets with the headers of I frames are
\* not lost.
KindNetwork ==
    /\ GapsAreSeen
    /\ ~Reordering
    /\ KeyHeaders \intersect Losable = {}

\* PipeInv holds initially, and every step that starts with room for the rest of
\* the I frame in the buffer keeps it.
LEMMA PipeInvInductive ==
    ASSUME KindNetwork
    PROVE  /\ Init => PipeInv
           /\ PipeInv /\ KeyFramesFit /\ [Next]_vars => PipeInv'
<1> USE DEF KindNetwork
<1>1. ASSUME Init PROVE PipeInv
  <2>1. WholeInv /\ PacketOrder
    BY <1>1, WholeInvInductive, OrderInitially DEF Init
  <2>2. mList = <<>> /\ node = NoNode /\ passed = <<>> /\ mRtpBuffer = <<>>
        /\ ~mIsThreadRunning /\ Len(<<>>) = 0
    BY <1>1, EmptySeq DEF Init, RtpInit
  <2>3. Pending = {}
    BY <2>2 DEF Pending
  <2>4. PendingInOrder /\ PassedInOrder
    BY <2>2, <2>3 DEF PendingInOrder, PassedInOrder
  <2>5. KeysInOrder /\ StartedInv
    BY <2>2, <2>3 DEF KeysInOrder, StartedInv
  <2> QED BY <2>1, <2>4, <2>5 DEF PipeInv
<1>2. ASSUME PipeInv, KeyFramesFit, [Next]_vars PROVE PipeInv'
  <2> USE <1>2 DEF PipeInv
  <2>1. WholeInv'
    BY WholeInvInductive
  <2>2. PendingInOrder' /\ PassedInOrder' /\ KeysInOrder'
    BY PendingStep, PassedStep, KeysStep
  <2>3. PacketOrder'
    BY OrderKept
  <2>4. StartedInv'
    BY DEF Next, Worker, threadStart, PopNode, dealwithDataNode, vars, workerVars, screenVars,
           StartedInv
  <2> QED BY <2>1, <2>2, <2>3, <2>4
<1> QED BY <1>1, <1>2

\* The I frame of a frame.
LEMMA KeyOfIs ==
    ASSUME NEW h \in Int, NEW k \in KeyHeaders, k <= h,
           \A j \in KeyHeaders : j <= h => j <= k
    PROVE  KeyOf(h) = k
<1>1. KeyHeaders \subseteq Int
  BY ConstantsAssumption, PipelineAssumption
     DEF ConstantsAssumption, PipelineAssumption, Packets
<1>2. ASSUME NEW m \in KeyHeaders, m <= h, \A j \in KeyHeaders : j <= h => j <= m
      PROVE  m = k
  BY <1>1, <1>2
<1> QED BY <1>2 DEF KeyOf

\* The frame that is let pass is decodable, younger than all let pass before it, and
\* it is an I frame or its I frame was let pass.
LEMMA PassGuard ==
    ASSUME KindNetwork, PipeInv, dealwithDataNode,
           passed' = Append(passed, node.buffer),
           StartsWithHeader(node), ~node.isLostPacket,
           mIsKeyFrameGetted', ~mIsLastKeyFrameLostPacket'
    PROVE  LET f == node.buffer[1]
           IN  /\ f \in DecodableFrames
               /\ IsWholeFrame(node.buffer)
               /\ \A i \in 1 .. Len(passed) : passed[i][1] < f
               /\ \/ KeyOf(f) = f
                  \/ \E i \in 1 .. Len(passed) : passed[i][1] = KeyOf(f)
<1> DEFINE f == node.buffer[1]
<1>0. /\ TypeOK /\ RtpTypeOK /\ WholeInv /\ PendingInOrder
      /\ KeyHeaders \subseteq Headers /\ KeyHeaders \subseteq Packets
      /\ Packets \subseteq Int /\ nextSend \in Int
  BY ConstantsAssumption, PipelineAssumption
     DEF PipeInv, WholeInv, TypeOK, RtpTypeOK, ConstantsAssumption, PipelineAssumption,
         Packets
<1>1. /\ node \in Pending /\ node \in RtpDataNodes /\ node # NoNode
      /\ Pending = {mList[i] : i \in 1 .. Len(mList)} \union {node}
  BY <1>0, DealEffect, PendingType
<1>2. IsFrameNode(node) /\ NotBefore(node.closedBy)
  BY <1>0, <1>1 DEF PendingInOrder
<1>3. /\ f \in Headers /\ f < node.closedBy /\ node.closedBy \in Headers
      /\ f \in Int /\ node.closedBy \in Int
  BY <1>1, <1>2, NodeType DEF IsFrameNode, StartsWithHeader
<1>4. IsWholeFrame(node.buffer)
  BY <1>0, <1>1 DEF WholeInv
<1>5. \A i \in 1 .. Len(passed) : passed[i][1] < f
  BY <1>1 DEF PipeInv, PassedInOrder
<1>6. CASE f \in KeyHeaders
  <2>1. KeyOf(f) = f
    <3>1. f <= f /\ \A j \in KeyHeaders : j <= f => j <= f
      BY <1>3
    <3> HIDE DEF f
    <3> QED BY <1>3, <1>6, <3>1, KeyOfIs
  <2>2. f \in DecodableFrames
    BY <1>3, <1>6 DEF DecodableFrames, WholeFrameHeaders
  <2> QED BY <1>4, <1>5, <2>1, <2>2
<1>7. CASE f \notin KeyHeaders
  <2>1. mIsKeyFrameGetted /\ ~mIsLastKeyFrameLostPacket /\ mIsThreadRunning
    BY <1>1, <1>2, <1>7, SpsIsFirst DEF dealwithDataNode, PipeInv, StartedInv
  <2>2. PICK i \in 1 .. Len(passed) :
           passed[i][1] \in KeyHeaders /\ NoKeyPassed(passed[i][1])
    BY <2>1 DEF PipeInv, KeysInOrder
  <2> DEFINE k == passed[i][1]
  <2>3. k < f /\ k \in Int /\ k \in KeyHeaders
    BY <1>0, <1>5, <2>2
  <2>4. ASSUME NEW j \in KeyHeaders, j <= f, k < j PROVE FALSE
    <3>1. Ahead(j) /\ j \in Int /\ j < node.closedBy
      BY <1>0, <1>3, <2>2, <2>4 DEF NoKeyPassed
    <3>2. ~Future(j)
      BY <1>0, <1>2, <1>3, <3>1 DEF Future, NotBefore
    <3>3. ~(mRtpBuffer # <<>> /\ mRtpBuffer[1] = j)
      BY <1>2, <1>3, <3>1 DEF NotBefore
    <3>4. ASSUME NEW n \in Pending, n.buffer[1] = j PROVE FALSE
      <4>1. CASE n = node
        BY <1>7, <2>4, <3>4, <4>1
      <4>2. CASE \E m \in 1 .. Len(mList) : n = mList[m]
        BY <1>0, <1>1, <1>3, <3>1, <3>4, <4>2 DEF PendingInOrder
      <4> QED BY <1>1, <4>1, <4>2
    <3> QED BY <3>1, <3>2, <3>3, <3>4 DEF Ahead
  <2>5. KeyOf(f) = k
    <3>1. ASSUME NEW j \in KeyHeaders, j <= f PROVE j <= k
      <4>1. ~(k < j) /\ j \in Int
        BY <1>0, <2>4, <3>1
      <4> QED BY <2>3, <4>1
    <3>2. k <= f
      BY <1>3, <2>3
    <3> HIDE DEF f, k
    <3> QED BY <1>3, <2>3, <3>1, <3>2, KeyOfIs
  <2>6. f \in DecodableFrames
    BY <1>3, <2>3 DEF DecodableFrames, WholeFrameHeaders
  <2> QED BY <1>4, <1>5, <2>2, <2>5, <2>6
<1> QED BY <1>6, <1>7

\* The frames let pass, as FrameDisplay sees them.
PassedFrames == [i \in 1 .. Len(passed) |-> FrameOf(passed[i])]

\* A function on 1 .. n is a sequence of length n.
LEMMA FramesAreSeq ==
    ASSUME NEW S, NEW n \in Nat, NEW g \in [1 .. n -> S]
    PROVE  g \in Seq(S) /\ Len(g) = n
<1>1. g \in Seq(S)
  BY SeqDef
<1>2. Len(g) \in Nat /\ 1 .. Len(g) = 1 .. n
  BY <1>1, LenProperties
<1> QED BY <1>1, <1>2

\* A buffer more let pass is a frame more for FrameDisplay.
LEMMA PassedAppend ==
    ASSUME TypeOK, NEW b \in Seq(Packets), passed' = Append(passed, b)
    PROVE  PassedFrames' = Append(PassedFrames, FrameOf(b))
<1> DEFINE S == {FrameOf(c) : c \in Seq(Packets)}
           t == Append(PassedFrames, FrameOf(b))
<1>1. /\ passed \in Seq(Seq(Packets)) /\ Len(passed) \in Nat
      /\ \A i \in 1 .. Len(passed) : passed[i] \in Seq(Packets)
      /\ passed' \in Seq(Seq(Packets))
      /\ Len(passed') = Len(passed) + 1
      /\ \A i \in 1 .. Len(passed) : passed'[i] = passed[i]
      /\ passed'[Len(passed) + 1] = b
  BY AppendProperties, ElementOfSeq DEF TypeOK
<1>2. /\ PassedFrames \in [1 .. Len(passed) -> S] /\ FrameOf(b) \in S
      /\ \A i \in 1 .. Len(passed) : PassedFrames[i] = FrameOf(passed[i])
  BY <1>1 DEF PassedFrames
<1>3. PassedFrames \in Seq(S) /\ Len(PassedFrames) = Len(passed)
  BY <1>1, <1>2, FramesAreSeq
<1>4. /\ t \in Seq(S) /\ Len(t) = Len(passed) + 1
      /\ \A i \in 1 .. Len(passed) : t[i] = FrameOf(passed[i])
      /\ t[Len(passed) + 1] = FrameOf(b)
  BY <1>2, <1>3, AppendProperties
<1>5. /\ PassedFrames' \in [1 .. Len(passed) + 1 -> S]
      /\ \A i \in 1 .. Len(passed) + 1 : PassedFrames'[i] = FrameOf(passed'[i])
  <2>1. PassedFrames' = [i \in 1 .. Len(passed) + 1 |-> FrameOf(passed'[i])]
    BY <1>1 DEF PassedFrames
  <2>2. ASSUME NEW i \in 1 .. Len(passed) + 1 PROVE FrameOf(passed'[i]) \in S
    <3>1. passed'[i] \in Seq(Packets)
      BY <1>1, <2>2, ElementOfSeq
    <3> QED BY <3>1
  <2> QED BY <2>1, <2>2
<1>6. PassedFrames' \in Seq(S) /\ Len(PassedFrames') = Len(passed) + 1
  BY <1>1, <1>5, FramesAreSeq
<1>7. ASSUME NEW i \in 1 .. Len(passed) + 1 PROVE PassedFrames'[i] = t[i]
  BY <1>1, <1>4, <1>5
<1> QED BY <1>4, <1>6, <1>7, SeqEqual

\* Every step of the channel is a step of FrameDisplay or leaves its frames alone.
LEMMA StepRefines ==
    ASSUME KindNetwork, PipeInv, [Next]_vars
    PROVE  [Display!Next]_PassedFrames
<1>1. CASE passed' = passed
  BY <1>1 DEF PassedFrames, FrameOf, IsWholeFrame, Consecutive
<1>2. CASE /\ dealwithDataNode
           /\ passed' = Append(passed, node.buffer)
           /\ StartsWithHeader(node) /\ ~node.isLostPacket
           /\ mIsKeyFrameGetted' /\ ~mIsLastKeyFrameLostPacket'
  <2> DEFINE f == node.buffer[1]
  <2>1. TypeOK /\ node.buffer \in Seq(Packets) /\ PassedFramesAreWhole
    BY <1>2, DealEffect, PendingType, NodeType DEF PipeInv, WholeInv
  <2>2. /\ f \in DecodableFrames
        /\ IsWholeFrame(node.buffer)
        /\ \A i \in 1 .. Len(passed) : passed[i][1] < f
        /\ \/ KeyOf(f) = f
           \/ \E i \in 1 .. Len(passed) : passed[i][1] = KeyOf(f)
    BY <1>2, PassGuard
  <2>3. FrameOf(node.buffer) = f
    BY <2>2 DEF FrameOf
  <2>4. PassedFrames' = Append(PassedFrames, f)
    BY <1>2, <2>1, <2>3, PassedAppend
  <2>5. /\ Len(PassedFrames) = Len(passed)
        /\ \A i \in 1 .. Len(passed) : PassedFrames[i] = passed[i][1]
    <3>1. ASSUME NEW i \in 1 .. Len(passed) PROVE FrameOf(passed[i]) = passed[i][1]
      BY <2>1 DEF PassedFramesAreWhole, FrameOf
    <3>2. Len(passed) \in Nat
      BY <2>1 DEF TypeOK
    <3>3. PassedFrames \in [1 .. Len(passed) -> {FrameOf(passed[i]) : i \in 1 .. Len(passed)}]
      BY DEF PassedFrames
    <3> QED BY <3>1, <3>2, <3>3, FramesAreSeq DEF PassedFrames
  <2>6. Display!Show(f)
    BY <2>2, <2>4, <2>5 DEF Display!Show, Display!Shown, PassedFrames
  <2> QED BY <2>2, <2>6 DEF Display!Next
<1>3. CASE dealwithDataNode
  BY <1>1, <1>2, <1>3, DealCases DEF KindNetwork, PipeInv, WholeInv
<1> QED BY <1>1, <1>3 DEF Next, Worker, threadStart, PopNode, vars, workerVars, screenVars

\* The channel implements FrameDisplay, in front of any decoder: of the frames of the
\* camera it lets pass whole ones, in order, each at most once and none without its
\* I frame.  The packets of all other frames may be lost, and all may be late or come
\* twice.
THEOREM ChannelImplementsDisplay ==
    KindNetwork /\ Spec /\ []KeyFramesFit => PassesWholeFramesInOrder
<1>1. SUFFICES ASSUME KindNetwork
               PROVE  Spec /\ []KeyFramesFit => PassesWholeFramesInOrder
  OBVIOUS
<1>2. Init => PipeInv
  BY <1>1, PipeInvInductive
<1>3. PipeInv /\ KeyFramesFit /\ [Next]_vars => PipeInv'
  BY <1>1, PipeInvInductive
<1>4. Init => Display!Init
  BY EmptySeq DEF Init, Display!Init
<1>5. PipeInv /\ [Next]_vars => [Display!Next]_PassedFrames
  BY <1>1, StepRefines
<1> QED BY <1>2, <1>3, <1>4, <1>5, PTL
        DEF Spec, PassesWholeFramesInOrder, Display!Spec, PassedFrames

\* A step that lets a frame pass lets the I frame itself pass or comes after it.
LEMMA KeyFrameStep ==
    ASSUME KindNetwork, PipeInv, KeyFramePassedFirst, [Next]_vars
    PROVE  KeyFramePassedFirst'
<1>1. CASE passed' = passed
  BY <1>1 DEF KeyFramePassedFirst
<1>2. CASE /\ dealwithDataNode
           /\ passed' = Append(passed, node.buffer)
           /\ StartsWithHeader(node) /\ ~node.isLostPacket
           /\ mIsKeyFrameGetted' /\ ~mIsLastKeyFrameLostPacket'
  <2>1. /\ passed \in Seq(Seq(Packets)) /\ Len(passed) \in Nat
        /\ node.buffer \in Seq(Packets)
    BY <1>2, DealEffect, PendingType, NodeType DEF PipeInv, WholeInv, TypeOK
  <2>2. /\ Len(passed') = Len(passed) + 1
        /\ \A i \in 1 .. Len(passed) : passed'[i] = passed[i]
        /\ passed'[Len(passed) + 1] = node.buffer
    BY <1>2, <2>1, AppendProperties
  <2>3. ASSUME NEW j \in 1 .. Len(passed')
        PROVE  \E i \in 1 .. j : passed'[i][1] = KeyOf(passed'[j][1])
    <3>1. CASE j \in 1 .. Len(passed)
      <4>1. PICK i \in 1 .. j : passed[i][1] = KeyOf(passed[j][1])
        BY <3>1 DEF KeyFramePassedFirst
      <4>2. i \in 1 .. Len(passed)
        BY <2>1, <3>1
      <4>3. passed'[i] = passed[i] /\ passed'[j] = passed[j]
        BY <2>2, <3>1, <4>2
      <4> QED BY <4>1, <4>3
    <3>2. CASE j = Len(passed) + 1
      <4>1. \/ KeyOf(node.buffer[1]) = node.buffer[1]
            \/ \E i \in 1 .. Len(passed) : passed[i][1] = KeyOf(node.buffer[1])
        BY <1>2, PassGuard
      <4>2. passed'[j] = node.buffer /\ j \in 1 .. j
        BY <2>1, <2>2, <3>2
      <4>3. CASE KeyOf(node.buffer[1]) = node.buffer[1]
        BY <4>2, <4>3
      <4>4. ASSUME NEW i \in 1 .. Len(passed), passed[i][1] = KeyOf(node.buffer[1])
            PROVE  \E k \in 1 .. j : passed'[k][1] = KeyOf(passed'[j][1])
        <5>1. i \in 1 .. j /\ passed'[i] = passed[i]
          BY <2>1, <2>2, <3>2
        <5> QED BY <4>2, <4>4, <5>1
      <4> QED BY <4>1, <4>3, <4>4
    <3> QED BY <2>1, <2>2, <2>3, <3>1, <3>2
  <2> QED BY <2>3 DEF KeyFramePassedFirst
<1>3. CASE dealwithDataNode
  BY <1>1, <1>2, <1>3, DealCases DEF KindNetwork, PipeInv, WholeInv
<1> QED BY <1>1, <1>3 DEF Next, Worker, threadStart, PopNode, vars, workerVars, screenVars

\* No frame passes as undamaged before the I frame it is predicted from, unless the
\* packet with that I frame's header was lost.
THEOREM KeyFramesPassFirst ==
    KindNetwork /\ Spec /\ []KeyFramesFit => []KeyFramePassedFirst
<1>1. SUFFICES ASSUME KindNetwork
               PROVE  Spec /\ []KeyFramesFit => []KeyFramePassedFirst
  OBVIOUS
<1>2. Init => PipeInv /\ KeyFramePassedFirst
  <2>1. Init => KeyFramePassedFirst
    BY EmptySeq DEF Init, KeyFramePassedFirst
  <2> QED BY <1>1, <2>1, PipeInvInductive
<1>3. PipeInv /\ KeyFramesFit /\ [Next]_vars => PipeInv'
  BY <1>1, PipeInvInductive
<1>4. PipeInv /\ KeyFramePassedFirst /\ [Next]_vars => KeyFramePassedFirst'
  BY <1>1, KeyFrameStep
<1> QED BY <1>2, <1>3, <1>4, PTL DEF Spec

=============================================================================
