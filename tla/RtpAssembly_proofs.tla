------------------------ MODULE RtpAssembly_proofs ------------------------
(***************************************************************************)
(* Proofs about RtpAssembly for every number of packets, every placement of*)
(* the pack headers, every buffer size and every network.  The theorems on *)
(* whole frames hold for streams that stay clear of sequence number 0, and *)
(* for those that wrap on an ordered network that keeps the packets around *)
(* number 0.                                                               *)
(***************************************************************************)
EXTENDS RtpAssembly, SequenceTheorems, TLAPS

\* The stream is short enough, and starts low enough, not to wrap to 0.
NoWrap == FirstSeq # 0 /\ FirstSeq + NumPackets <= SeqMod

\* The only two facts about 2^16 the proofs use.
LEMMA SeqModFact == SeqMod \in Nat /\ SeqMod > 0
BY SMT DEF SeqMod

\* Every packet has a 16 bit sequence number.
LEMMA SequenceNumberType ==
    ASSUME NEW p \in Packets
    PROVE  SequenceNumber(p) \in 0 .. (SeqMod - 1)
<1>1. FirstSeq + p \in Nat
  BY SMT, ConstantsAssumption, SeqModFact DEF ConstantsAssumption, Packets
<1> QED BY SMT, <1>1, SeqModFact DEF SequenceNumber

\* Without a wrap, sequence numbers are the packet numbers shifted, never 0.
LEMMA SequenceNumberShift ==
    ASSUME NoWrap, NEW p \in Packets
    PROVE  SequenceNumber(p) = FirstSeq + p /\ SequenceNumber(p) # 0
<1>1. FirstSeq + p \in Nat /\ FirstSeq + p > 0 /\ FirstSeq + p < SeqMod
  BY SMT, ConstantsAssumption, SeqModFact DEF ConstantsAssumption, Packets, NoWrap
<1> QED BY SMT, <1>1, SeqModFact DEF SequenceNumber

\* inputRtpBuffer keeps the types of what it assigns.
LEMMA InputType ==
    ASSUME RtpTypeOK, NEW p \in Packets, inputRtpBuffer(p)
    PROVE  /\ mRtpBuffer' \in Seq(Packets)
           /\ mIsCurrentFrameLostPacket' \in BOOLEAN
           /\ mLastSequenceNumber' \in 0 .. (SeqMod - 1)
           /\ mList' \in Seq(RtpDataNodes)
<1> DEFINE lost == mIsCurrentFrameLostPacket \/ GapBefore(p)
           closes == p \in Headers /\ mRtpBuffer # <<>>
           kept == IF closes THEN <<>> ELSE mRtpBuffer
<1>1. kept \in Seq(Packets) /\ Append(kept, p) \in Seq(Packets)
  <2>1. kept \in Seq(Packets)
    BY DEF RtpTypeOK
  <2> QED BY <2>1, AppendProperties
<1>2. mRtpBuffer' \in Seq(Packets)
  BY <1>1 DEF inputRtpBuffer, KeptBuffer, KeptFlag, CopyPayload
<1>3. mIsCurrentFrameLostPacket' \in BOOLEAN
  BY DEF inputRtpBuffer, KeptBuffer, KeptFlag, CopyPayload
<1>4. mLastSequenceNumber' \in 0 .. (SeqMod - 1)
  BY SequenceNumberType DEF inputRtpBuffer, KeptBuffer, KeptFlag, CopyPayload
<1>5. mList' \in Seq(RtpDataNodes)
  <2>1. lost \in BOOLEAN
    BY DEF RtpTypeOK, GapBefore
  <2>2. RtpDataNode(lost, mRtpBuffer, p) \in RtpDataNodes
    BY <2>1 DEF RtpTypeOK, RtpDataNode, RtpDataNodes
  <2>3. mList' = IF closes THEN Append(mList, RtpDataNode(lost, mRtpBuffer, p))
                 ELSE mList
    BY DEF inputRtpBuffer, KeptBuffer, KeptFlag, CopyPayload
  <2> QED BY <2>2, <2>3, AppendProperties DEF RtpTypeOK
<1> QED BY <1>2, <1>3, <1>4, <1>5

\* The type invariant holds initially and every step keeps it.
LEMMA TypeInductive ==
    /\ RtpInit => RtpTypeOK
    /\ RtpTypeOK /\ [RtpNext]_rtpVars => RtpTypeOK'
<1>1. RtpInit => RtpTypeOK
  <2>1. <<>> \in Seq(Packets) /\ <<>> \in Seq(RtpDataNodes)
    BY EmptySeq
  <2>2. 0 \in 0 .. NumPackets /\ 0 \in 0 .. MaxDups /\ 0 \in 0 .. (SeqMod - 1)
    BY ConstantsAssumption, SeqModFact DEF ConstantsAssumption
  <2> QED BY <2>1, <2>2 DEF RtpInit, RtpTypeOK
<1>2. RtpTypeOK /\ [RtpNext]_rtpVars => RtpTypeOK'
  <2> SUFFICES ASSUME RtpTypeOK, [RtpNext]_rtpVars PROVE RtpTypeOK'
    OBVIOUS
  <2> USE ConstantsAssumption DEF ConstantsAssumption
  <2>1. CASE CameraSend
    BY <2>1 DEF CameraSend, RtpTypeOK, bufVars, Packets
  <2>2. ASSUME NEW p \in Packets, NetLose(p) PROVE RtpTypeOK'
    BY <2>2 DEF NetLose, RtpTypeOK, bufVars
  <2>3. ASSUME NEW p \in Packets, PollThreadReceive(p) PROVE RtpTypeOK'
    BY <2>3 DEF PollThreadReceive, RtpTypeOK, bufVars
  <2>4. CASE BeginDataAccess
    BY <2>4 DEF BeginDataAccess, RtpTypeOK, bufVars, netVars
  <2>5. CASE EndDataAccess
    BY <2>5 DEF EndDataAccess, RtpTypeOK, bufVars, netVars
  <2>6. ASSUME NEW p \in Packets, TakePacket(p) PROVE RtpTypeOK'
    <3>1. inputRtpBuffer(p)
      BY <2>6 DEF TakePacket
    <3> QED BY <2>6, <3>1, InputType DEF TakePacket, RtpTypeOK, netVars
  <2>7. CASE UNCHANGED rtpVars
    BY <2>7 DEF rtpVars, RtpTypeOK
  <2> QED BY <2>1, <2>2, <2>3, <2>4, <2>5, <2>6, <2>7 DEF RtpNext, RtpThread
<1> QED BY <1>1, <1>2

\* Type correctness of the packet path, for every value of the constants.
THEOREM RtpTypeCorrect == RtpSpec => []RtpTypeOK
BY TypeInductive, PTL DEF RtpSpec

-----------------------------------------------------------------------------
\* A sequence stays consecutive when its successor is appended.
LEMMA ConsecutiveAppend ==
    ASSUME NEW s \in Seq(Packets), NEW p \in Packets, Consecutive(s),
           s # <<>> => p = s[Len(s)] + 1
    PROVE  Consecutive(Append(s, p))
<1> DEFINE a == Append(s, p)
<1>1. /\ Len(s) \in Nat /\ Len(a) = Len(s) + 1
      /\ \A i \in 1 .. Len(s) : a[i] = s[i]
      /\ a[Len(s) + 1] = p
  BY AppendProperties
<1>2. SUFFICES ASSUME NEW i \in 1 .. Len(a) - 1 PROVE a[i + 1] = a[i] + 1
  BY DEF Consecutive
<1>3. CASE i < Len(s)
  BY <1>1, <1>3 DEF Consecutive
<1>4. CASE i = Len(s)
  <2>1. s # <<>>
    BY <1>1, <1>2, <1>4, EmptySeq
  <2> QED BY <1>1, <1>2, <1>4, <2>1
<1> QED BY <1>1, <1>2, <1>3, <1>4

\* If no gap is seen before p, then there is none.
Continues(p) ==
    mRtpBuffer # <<>> /\ ~GapBefore(p) => p = mRtpBuffer[Len(mRtpBuffer)] + 1

\* In a stream that does not wrap, no gap goes unseen.
LEMMA NoGapContinues ==
    ASSUME NoWrap, RtpTypeOK, BufferInv, NEW p \in Packets
    PROVE  Continues(p)
<1> SUFFICES ASSUME ~GapBefore(p), mRtpBuffer # <<>>
             PROVE  p = mRtpBuffer[Len(mRtpBuffer)] + 1
  BY DEF Continues
<1> DEFINE q == mRtpBuffer[Len(mRtpBuffer)]
<1>1. q \in Packets
  BY EmptySeq DEF RtpTypeOK
<1>2. mLastSequenceNumber = FirstSeq + q /\ mLastSequenceNumber # 0
  BY <1>1, SequenceNumberShift DEF BufferInv
<1>3. SequenceNumber(p) = FirstSeq + p /\ SequenceNumber(p) # 0
  BY SequenceNumberShift
<1>4. SequenceNumber(p) = mLastSequenceNumber + 1
  BY <1>2, <1>3 DEF GapBefore
<1> QED BY <1>1, <1>2, <1>3, <1>4, ConstantsAssumption DEF ConstantsAssumption, Packets

\* One call of inputRtpBuffer keeps the buffer invariant.
LEMMA InputKeepsBufferInv ==
    ASSUME RtpTypeOK, BufferInv, NEW p \in Packets, Continues(p), inputRtpBuffer(p)
    PROVE  BufferInv'
<1> DEFINE lost == mIsCurrentFrameLostPacket \/ GapBefore(p)
           closes == p \in Headers /\ mRtpBuffer # <<>>
           kept == IF closes THEN <<>> ELSE mRtpBuffer
           a == Append(kept, p)
<1>1. kept \in Seq(Packets)
  BY EmptySeq DEF RtpTypeOK
<1>2. /\ Len(kept) \in Nat /\ Len(a) = Len(kept) + 1
      /\ \A i \in 1 .. Len(kept) : a[i] = kept[i]
      /\ a[Len(kept) + 1] = p
  BY <1>1, AppendProperties
<1>3. mRtpBuffer' = <<>> \/ mRtpBuffer' = a
  BY DEF inputRtpBuffer, KeptBuffer, KeptFlag, CopyPayload
<1>4. mRtpBuffer' # <<>> =>
          mLastSequenceNumber' = SequenceNumber(mRtpBuffer'[Len(mRtpBuffer')])
  BY <1>2, <1>3 DEF inputRtpBuffer, KeptBuffer, KeptFlag, CopyPayload
<1>5. \A i \in 2 .. Len(mRtpBuffer') : mRtpBuffer'[i] \notin Headers
  <2>1. CASE mRtpBuffer' = <<>>
    BY <2>1, EmptySeq
  <2>2. CASE mRtpBuffer' = a
    <3>1. SUFFICES ASSUME NEW i \in 2 .. Len(a) PROVE a[i] \notin Headers
      BY <2>2
    <3>2. CASE closes
      BY <1>2, <3>1, <3>2, EmptySeq
    <3>3. CASE ~closes
      <4>1. CASE i <= Len(kept)
        BY <1>2, <3>1, <3>3, <4>1 DEF BufferInv
      <4>2. CASE i = Len(kept) + 1
        BY <1>2, <3>1, <3>3, <4>2, EmptySeq
      <4> QED BY <1>2, <3>1, <4>1, <4>2
    <3> QED BY <3>2, <3>3
  <2> QED BY <1>3, <2>1, <2>2
<1>6. ~mIsCurrentFrameLostPacket' => Consecutive(mRtpBuffer')
  <2>1. SUFFICES ASSUME ~(lost /\ ~closes) PROVE Consecutive(mRtpBuffer')
    BY DEF inputRtpBuffer, KeptBuffer, KeptFlag, CopyPayload
  <2>2. Consecutive(<<>>)
    BY EmptySeq DEF Consecutive
  <2>3. Consecutive(a)
    <3>1. CASE closes
      BY <1>1, <2>2, <3>1, ConsecutiveAppend
    <3>2. CASE ~closes
      BY <1>1, <2>1, <3>2, ConsecutiveAppend DEF BufferInv, Continues
    <3> QED BY <3>1, <3>2
  <2> QED BY <1>3, <2>2, <2>3
<1> QED BY <1>4, <1>5, <1>6 DEF BufferInv

\* One call of inputRtpBuffer keeps every queued frame whole.
LEMMA InputKeepsWholeFrames ==
    ASSUME RtpTypeOK, BufferInv, WholeFrames,
           NEW p \in Packets, Continues(p), inputRtpBuffer(p)
    PROVE  WholeFrames'
<1> DEFINE lost == mIsCurrentFrameLostPacket \/ GapBefore(p)
           node == RtpDataNode(lost, mRtpBuffer, p)
           Ok(n) == StartsWithHeader(n) /\ ~n.isLostPacket => IsWholeFrame(n.buffer)
<1>1. CASE p \in Headers /\ mRtpBuffer # <<>>
  <2>1. mList' = Append(mList, node)
    BY <1>1 DEF inputRtpBuffer, KeptBuffer, KeptFlag, CopyPayload
  <2>2. node \in RtpDataNodes /\ node.isLostPacket = lost /\ node.buffer = mRtpBuffer
    BY DEF RtpTypeOK, GapBefore, RtpDataNode, RtpDataNodes
  <2>3. Ok(node)
    <3>1. SUFFICES ASSUME StartsWithHeader(node), ~lost PROVE IsWholeFrame(mRtpBuffer)
      BY <2>2
    <3>2. mRtpBuffer[1] \in Headers
      BY <2>2, <3>1 DEF StartsWithHeader
    <3>3. Consecutive(mRtpBuffer) /\ \A i \in 2 .. Len(mRtpBuffer) : mRtpBuffer[i] \notin Headers
      BY <3>1 DEF BufferInv
    <3>4. mRtpBuffer[Len(mRtpBuffer)] + 1 \in Headers
      BY <1>1, <3>1 DEF Continues
    <3> QED BY <1>1, <3>2, <3>3, <3>4 DEF IsWholeFrame
  <2>4. /\ Len(mList) \in Nat /\ Len(mList') = Len(mList) + 1
        /\ \A i \in 1 .. Len(mList) : mList'[i] = mList[i]
        /\ mList'[Len(mList) + 1] = node
    BY <2>1, <2>2, AppendProperties DEF RtpTypeOK
  <2>5. ASSUME NEW i \in 1 .. Len(mList') PROVE Ok(mList'[i])
    <3>1. CASE i <= Len(mList)
      BY <2>4, <3>1 DEF WholeFrames
    <3>2. CASE i = Len(mList) + 1
      BY <2>3, <2>4, <3>2
    <3> QED BY <2>4, <3>1, <3>2
  <2> QED BY <2>5 DEF WholeFrames, StartsWithHeader, IsWholeFrame, Consecutive
<1>2. CASE ~(p \in Headers /\ mRtpBuffer # <<>>)
  BY <1>2 DEF inputRtpBuffer, KeptBuffer, KeptFlag, CopyPayload, WholeFrames, StartsWithHeader, IsWholeFrame, Consecutive
<1> QED BY <1>1, <1>2

\* A step keeps RtpInv unless it hands over a packet before which a gap goes
\* unseen.
LEMMA RtpInvStep ==
    ASSUME RtpInv, [RtpNext]_rtpVars,
           \A p \in Packets : TakePacket(p) => Continues(p)
    PROVE  RtpInv'
<1>1. RtpTypeOK'
  BY TypeInductive DEF RtpInv
<1>2. ASSUME NEW p \in Packets, TakePacket(p) PROVE BufferInv' /\ WholeFrames'
  BY <1>2, InputKeepsBufferInv, InputKeepsWholeFrames DEF RtpInv, TakePacket
<1>3. CASE UNCHANGED bufVars
  BY <1>1, <1>3 DEF bufVars, RtpInv, BufferInv, WholeFrames, StartsWithHeader,
                    IsWholeFrame, Consecutive
<1>4. UNCHANGED bufVars \/ \E p \in Packets : TakePacket(p)
  BY DEF RtpNext, RtpThread, CameraSend, NetLose, PollThreadReceive,
         BeginDataAccess, EndDataAccess, rtpVars, bufVars
<1> QED BY <1>1, <1>2, <1>3, <1>4 DEF RtpInv

\* RtpInv holds initially, and is inductive for streams that do not wrap.
LEMMA RtpInvInitially == RtpInit => RtpInv
BY TypeInductive, EmptySeq DEF RtpInit, RtpInv, BufferInv, WholeFrames, Consecutive

LEMMA RtpInvInductive ==
    ASSUME NoWrap
    PROVE  RtpInv /\ [RtpNext]_rtpVars => RtpInv'
BY RtpInvStep, NoGapContinues DEF RtpInv

\* Every node the decoding thread is given without the lost mark, and that
\* starts with a pack header, is one complete frame: for every stream that
\* stays clear of sequence number 0, every buffer size and any loss, delay,
\* duplication and reordering of its packets.
THEOREM FramesAreWhole == NoWrap /\ RtpSpec => []WholeFrames
<1>1. SUFFICES ASSUME NoWrap PROVE RtpSpec => []WholeFrames
  OBVIOUS
<1>2. RtpInit => RtpInv
  BY RtpInvInitially
<1>3. RtpInv /\ [RtpNext]_rtpVars => RtpInv'
  BY <1>1, RtpInvInductive
<1>4. RtpInv => WholeFrames
  BY DEF RtpInv
<1> QED BY <1>2, <1>3, <1>4, PTL DEF RtpSpec

\* The same argument gives what the frames rest on: while the flag is down, the
\* buffer inputRtpBuffer appends to holds consecutive packets, with no header
\* but the first, and mLastSequenceNumber is the number of the last of them.
THEOREM BufferIsInvariant == NoWrap /\ RtpSpec => []BufferInv
<1>1. SUFFICES ASSUME NoWrap PROVE RtpSpec => []BufferInv
  OBVIOUS
<1>2. RtpInit => RtpInv
  BY RtpInvInitially
<1>3. RtpInv /\ [RtpNext]_rtpVars => RtpInv'
  BY <1>1, RtpInvInductive
<1>4. RtpInv => BufferInv
  BY DEF RtpInv
<1> QED BY <1>2, <1>3, <1>4, PTL DEF RtpSpec

-----------------------------------------------------------------------------
(* Streams that wrap, on a network that keeps the order.                   *)

\* Packet k has not been taken and is not lost: it is still to be sent, under
\* way or waiting in jrtplib's list.
Future(k) == k >= nextSend \/ k \in inNet \/ k \in packetlist

\* What an ordered network keeps: packets are taken in the order they were sent,
\* and one that cannot be lost is not passed over.
PacketOrder ==
    /\ \A q \in packetlist \union inNet : q < nextSend
    /\ \A q \in packetlist, r \in inNet : q <= r
    /\ \A r \in packetlist \union inNet, k \in Packets \ Losable :
          r < k => Future(k)
    /\ \A i \in 1 .. Len(mRtpBuffer) :
          /\ mRtpBuffer[1] <= mRtpBuffer[i]
          /\ mRtpBuffer[i] < nextSend
          /\ \A q \in packetlist \union inNet : mRtpBuffer[i] <= q

\* The same for the packets around the one taken last, without duplicates.
NothingPassedOver ==
    /\ packetlist \intersect inNet = {}
    /\ mRtpBuffer # <<>> =>
          LET last == mRtpBuffer[Len(mRtpBuffer)]
          IN  /\ last \notin packetlist \union inNet
              /\ \A k \in Packets \ Losable : k > last => Future(k)

\* The packets next to the one that has sequence number 0 cannot be lost, and
\* the stream does not come round to a number it has used.
ZeroKept ==
    /\ ~Reordering
    /\ MaxDups = 0
    /\ NumPackets <= SeqMod
    /\ \A p \in Packets :
          SequenceNumber(p) = 0 => p - 1 \notin Losable /\ p + 1 \notin Losable

\* The elements of the buffer after p was handed over.
LEMMA BufferAfterInput ==
    ASSUME RtpTypeOK, NEW p \in Packets, inputRtpBuffer(p)
    PROVE  /\ \/ mRtpBuffer' = <<>>
              \/ /\ Len(mRtpBuffer') = 1
                 /\ mRtpBuffer'[1] = p
              \/ /\ mRtpBuffer # <<>>
                 /\ Len(mRtpBuffer') = Len(mRtpBuffer) + 1
                 /\ \A i \in 1 .. Len(mRtpBuffer) : mRtpBuffer'[i] = mRtpBuffer[i]
                 /\ mRtpBuffer'[Len(mRtpBuffer) + 1] = p
           /\ mRtpBuffer' # <<>> => mRtpBuffer'[Len(mRtpBuffer')] = p
<1> DEFINE kept == IF p \in Headers /\ mRtpBuffer # <<>> THEN <<>> ELSE mRtpBuffer
           a == Append(kept, p)
<1>1. kept \in Seq(Packets)
  BY EmptySeq DEF RtpTypeOK
<1>2. /\ Len(kept) \in Nat /\ Len(a) = Len(kept) + 1
      /\ \A i \in 1 .. Len(kept) : a[i] = kept[i]
      /\ a[Len(kept) + 1] = p
  BY <1>1, AppendProperties
<1>3. mRtpBuffer' = <<>> \/ mRtpBuffer' = a
  BY DEF inputRtpBuffer, KeptBuffer, CopyPayload
<1>4. CASE kept = <<>>
  BY <1>2, <1>3, <1>4, EmptySeq
<1>5. CASE kept # <<>>
  BY <1>2, <1>3, <1>5
<1> QED BY <1>4, <1>5

\* A packet that cannot be lost stays to come until it is taken.
LEMMA FutureKept ==
    ASSUME RtpTypeOK, [RtpNext]_rtpVars, NEW k \in Packets \ Losable, Future(k),
           ~TakePacket(k)
    PROVE  Future(k)'
<1> USE DEF Future
<1>0. nextSend \in Int /\ k \in Int
  BY ConstantsAssumption DEF RtpTypeOK, Packets, ConstantsAssumption
<1>1. CASE CameraSend
  BY <1>0, <1>1 DEF CameraSend
<1>2. ASSUME NEW p \in Packets, NetLose(p) PROVE Future(k)'
  BY <1>2 DEF NetLose
<1>3. ASSUME NEW p \in Packets, PollThreadReceive(p) PROVE Future(k)'
  BY <1>3 DEF PollThreadReceive
<1>4. ASSUME NEW p \in Packets, TakePacket(p) PROVE Future(k)'
  <2>1. p # k
    BY <1>4
  <2> QED BY <1>4, <2>1 DEF TakePacket, netVars
<1>5. CASE BeginDataAccess \/ EndDataAccess \/ UNCHANGED rtpVars
  BY <1>5 DEF BeginDataAccess, EndDataAccess, rtpVars, netVars
<1> QED BY <1>1, <1>2, <1>3, <1>4, <1>5 DEF RtpNext, RtpThread

\* On an ordered network every step keeps the order.
LEMMA PacketOrderStep ==
    ASSUME ~Reordering, RtpTypeOK, PacketOrder, [RtpNext]_rtpVars
    PROVE  PacketOrder'
<1> USE DEF PacketOrder, Future
<1>0. /\ nextSend \in Int /\ Packets \subseteq Int /\ inNet \subseteq Packets
      /\ packetlist \subseteq Packets /\ Len(mRtpBuffer) \in Nat
      /\ \A i \in 1 .. Len(mRtpBuffer) : mRtpBuffer[i] \in Packets
  BY ConstantsAssumption DEF RtpTypeOK, Packets, ConstantsAssumption
<1>1. CASE CameraSend
  <2>1. /\ nextSend' = nextSend + 1 /\ inNet' = inNet \union {nextSend}
        /\ packetlist' = packetlist /\ mRtpBuffer' = mRtpBuffer
    BY <1>1 DEF CameraSend, bufVars
  <2>2. ASSUME NEW r \in packetlist' \union inNet', NEW k \in Packets \ Losable, r < k
        PROVE  Future(k)'
    <3>1. Future(k)
      BY <1>0, <2>1, <2>2
    <3> QED BY <1>0, <2>1, <3>1
  <2>3. ASSUME NEW i \in 1 .. Len(mRtpBuffer)
        PROVE  /\ mRtpBuffer[1] <= mRtpBuffer[i]
               /\ mRtpBuffer[i] < nextSend'
               /\ \A q \in packetlist' \union inNet' : mRtpBuffer[i] <= q
    <3>1. /\ mRtpBuffer[i] \in Int /\ mRtpBuffer[i] < nextSend
          /\ mRtpBuffer[1] <= mRtpBuffer[i]
          /\ \A q \in packetlist \union inNet : mRtpBuffer[i] <= q
      BY <1>0
    <3>2. mRtpBuffer[i] < nextSend' /\ mRtpBuffer[i] <= nextSend
      BY <1>0, <2>1, <3>1
    <3> QED BY <2>1, <3>1, <3>2
  <2>4. \A q \in packetlist' \union inNet' : q < nextSend'
    BY <1>0, <2>1
  <2>5. ASSUME NEW q \in packetlist', NEW r \in inNet' PROVE q <= r
    <3>1. CASE r \in inNet
      BY <2>1, <2>5, <3>1
    <3>2. CASE r = nextSend
      <4>1. q \in Int /\ q < nextSend
        BY <1>0, <2>1, <2>5
      <4> QED BY <1>0, <3>2, <4>1
    <3> QED BY <2>1, <2>5, <3>1, <3>2
  <2> QED BY <2>1, <2>2, <2>3, <2>4, <2>5
<1>2. ASSUME NEW p \in Packets, NetLose(p) PROVE PacketOrder'
  BY <1>0, <1>2 DEF NetLose, bufVars
<1>3. ASSUME NEW p \in Packets, PollThreadReceive(p) PROVE PacketOrder'
  BY <1>0, <1>3 DEF PollThreadReceive, MayArrive, bufVars
<1>4. ASSUME NEW p \in Packets, TakePacket(p) PROVE PacketOrder'
  <2>1. /\ packetlist' = packetlist \ {p} /\ inNet' = inNet /\ nextSend' = nextSend
        /\ p \in packetlist /\ \A q \in packetlist : p <= q
    BY <1>4 DEF TakePacket, netVars
  <2>2. /\ \A q \in packetlist' \union inNet' : q < nextSend'
        /\ \A q \in packetlist', r \in inNet' : q <= r
    BY <2>1
  <2>3. ASSUME NEW r \in packetlist' \union inNet', NEW k \in Packets \ Losable, r < k
        PROVE  Future(k)'
    <3>1. Future(k) /\ k # p
      BY <1>0, <2>1, <2>3
    <3> QED BY <2>1, <3>1
  <2>4. ASSUME NEW i \in 1 .. Len(mRtpBuffer')
        PROVE  /\ mRtpBuffer'[1] <= mRtpBuffer'[i]
               /\ mRtpBuffer'[i] < nextSend'
               /\ \A q \in packetlist' \union inNet' : mRtpBuffer'[i] <= q
    <3>1. CASE Len(mRtpBuffer') = 1 /\ mRtpBuffer'[1] = p
      BY <1>0, <2>1, <3>1
    <3>2. CASE /\ mRtpBuffer # <<>>
               /\ Len(mRtpBuffer') = Len(mRtpBuffer) + 1
               /\ \A j \in 1 .. Len(mRtpBuffer) : mRtpBuffer'[j] = mRtpBuffer[j]
               /\ mRtpBuffer'[Len(mRtpBuffer) + 1] = p
      <4>1. Len(mRtpBuffer) > 0
        BY <1>0, <3>2, EmptySeq DEF RtpTypeOK
      <4>2. CASE i <= Len(mRtpBuffer)
        BY <1>0, <2>1, <3>2, <4>1, <4>2
      <4>3. CASE i = Len(mRtpBuffer) + 1
        BY <1>0, <2>1, <3>2, <4>1, <4>3
      <4> QED BY <1>0, <3>2, <4>2, <4>3
    <3>3. mRtpBuffer' # <<>>
      BY EmptySeq
    <3> QED BY <1>4, <3>1, <3>2, <3>3, BufferAfterInput DEF TakePacket
  <2> QED BY <2>2, <2>3, <2>4
<1>5. CASE BeginDataAccess \/ EndDataAccess \/ UNCHANGED rtpVars
  BY <1>5 DEF BeginDataAccess, EndDataAccess, rtpVars, netVars, bufVars
<1> QED BY <1>1, <1>2, <1>3, <1>4, <1>5 DEF RtpNext, RtpThread

\* Without duplicates, nothing that cannot be lost is passed over either.
LEMMA NothingPassedOverStep ==
    ASSUME ~Reordering, MaxDups = 0, RtpTypeOK, PacketOrder, NothingPassedOver,
           [RtpNext]_rtpVars
    PROVE  NothingPassedOver'
<1> USE DEF NothingPassedOver, Future
<1>0. /\ nextSend \in Int /\ Packets \subseteq Int /\ inNet \subseteq Packets
      /\ packetlist \subseteq Packets
      /\ (mRtpBuffer # <<>> => mRtpBuffer[Len(mRtpBuffer)] \in Int)
      /\ \A q \in packetlist \union inNet : q < nextSend
      /\ (mRtpBuffer # <<>> => mRtpBuffer[Len(mRtpBuffer)] < nextSend)
  <2>1. mRtpBuffer # <<>> => Len(mRtpBuffer) \in 1 .. Len(mRtpBuffer)
    BY EmptySeq DEF RtpTypeOK
  <2> QED BY <2>1, ConstantsAssumption
          DEF RtpTypeOK, Packets, ConstantsAssumption, PacketOrder
<1>1. CASE CameraSend
  <2>1. /\ nextSend' = nextSend + 1 /\ inNet' = inNet \union {nextSend}
        /\ packetlist' = packetlist /\ mRtpBuffer' = mRtpBuffer
    BY <1>1 DEF CameraSend, bufVars
  <2>2. ASSUME NEW k \in Packets, Future(k) PROVE Future(k)'
    BY <1>0, <2>1, <2>2
  <2>3. nextSend \notin packetlist
    BY <1>0
  <2>4. packetlist' \intersect inNet' = {}
    BY <2>1, <2>3
  <2> DEFINE last == mRtpBuffer[Len(mRtpBuffer)]
  <2>5. ASSUME mRtpBuffer # <<>>
        PROVE  /\ last \notin packetlist' \union inNet'
               /\ \A k \in Packets \ Losable : k > last => Future(k)'
    <3>1. last \in Int /\ last < nextSend /\ last \notin packetlist \union inNet
      BY <1>0, <2>5
    <3>2. last # nextSend
      BY <1>0, <3>1
    <3>3. ASSUME NEW k \in Packets \ Losable, k > last PROVE Future(k)'
      <4>1. Future(k)
        BY <2>5, <3>3
      <4> QED BY <2>2, <4>1
    <3> QED BY <2>1, <3>1, <3>2, <3>3
  <2> QED BY <2>1, <2>4, <2>5
<1>2. ASSUME NEW p \in Packets, NetLose(p) PROVE NothingPassedOver'
  BY <1>0, <1>2 DEF NetLose, bufVars
<1>3. ASSUME NEW p \in Packets, PollThreadReceive(p) PROVE NothingPassedOver'
  <2>1. inNet' = inNet \ {p}
    BY <1>3 DEF PollThreadReceive, RtpTypeOK
  <2> QED BY <1>0, <1>3, <2>1 DEF PollThreadReceive, MayArrive, bufVars
<1>4. ASSUME NEW p \in Packets, TakePacket(p) PROVE NothingPassedOver'
  <2>1. /\ packetlist' = packetlist \ {p} /\ inNet' = inNet /\ nextSend' = nextSend
        /\ p \in packetlist /\ p \notin inNet
    BY <1>4 DEF TakePacket, netVars
  <2>2. ASSUME NEW k \in Packets \ Losable, k > p PROVE Future(k)'
    BY <1>0, <2>1, <2>2 DEF PacketOrder
  <2>3. mRtpBuffer' # <<>> => mRtpBuffer'[Len(mRtpBuffer')] = p
    BY <1>4, BufferAfterInput DEF TakePacket
  <2> QED BY <2>1, <2>2, <2>3
<1>5. CASE BeginDataAccess \/ EndDataAccess \/ UNCHANGED rtpVars
  BY <1>5 DEF BeginDataAccess, EndDataAccess, rtpVars, netVars, bufVars
<1> QED BY <1>1, <1>2, <1>3, <1>4, <1>5 DEF RtpNext, RtpThread

\* Both hold initially.
LEMMA OrderInitially == RtpInit => PacketOrder /\ NothingPassedOver
BY EmptySeq DEF RtpInit, PacketOrder, NothingPassedOver

\* Numbers are equal modulo 2^16 only if the packets are 2^16 apart.
LEMMA NextNumber ==
    ASSUME NumPackets <= SeqMod, NEW q \in Packets, NEW p \in Packets, p > q,
           SequenceNumber(p) = SequenceNumber(q) + 1
    PROVE  p = q + 1
<1>1. FirstSeq \in 0 .. 65535 /\ q \in Nat /\ p \in Nat /\ p < 65536
  BY SMT, ConstantsAssumption DEF ConstantsAssumption, Packets, SeqMod
<1>2. (FirstSeq + p) % 65536 = ((FirstSeq + q) % 65536) + 1
  BY DEF SequenceNumber, SeqMod
<1> QED BY SMT, <1>1, <1>2

\* Where the packets next to number 0 are kept, no gap goes unseen.
LEMMA KeptZeroContinues ==
    ASSUME ZeroKept, RtpTypeOK, BufferInv, PacketOrder, NothingPassedOver,
           NEW p \in Packets, TakePacket(p)
    PROVE  Continues(p)
<1> DEFINE q == mRtpBuffer[Len(mRtpBuffer)]
<1>1. SUFFICES ASSUME ~GapBefore(p), mRtpBuffer # <<>> PROVE p = q + 1
  BY DEF Continues
<1>2. Len(mRtpBuffer) \in 1 .. Len(mRtpBuffer) /\ q \in Packets
  BY <1>1, EmptySeq DEF RtpTypeOK
<1>3. p \in packetlist /\ (\A r \in packetlist \union inNet : p <= r) /\ p < nextSend
  BY DEF TakePacket, PacketOrder
<1>4. p \in Int /\ q \in Int /\ nextSend \in Int /\ p > q
  <2>1. p \in Int /\ q \in Int /\ nextSend \in Int
    BY <1>2, ConstantsAssumption DEF Packets, RtpTypeOK, ConstantsAssumption
  <2>2. q <= p
    BY <1>2, <1>3 DEF PacketOrder
  <2>3. q # p
    BY <1>1, <1>3 DEF NothingPassedOver
  <2> QED BY <2>1, <2>2, <2>3
<1>5. ASSUME NEW k \in Packets \ Losable, q < k PROVE p <= k
  BY <1>1, <1>3, <1>4, <1>5 DEF NothingPassedOver, Future
<1>6. CASE SequenceNumber(p) = mLastSequenceNumber + 1
  BY <1>1, <1>2, <1>4, <1>6, NextNumber DEF BufferInv, ZeroKept
<1>7. CASE mLastSequenceNumber = 0
  <2>1. q + 1 \notin Losable
    BY <1>1, <1>2, <1>7 DEF BufferInv, ZeroKept
  <2>2. q + 1 \in Packets /\ q < q + 1
    BY <1>2, <1>4, ConstantsAssumption DEF Packets, ConstantsAssumption
  <2>3. p <= q + 1
    BY <1>5, <2>1, <2>2
  <2> QED BY <1>4, <2>3
<1>8. CASE SequenceNumber(p) = 0
  <2>1. p - 1 \notin Losable
    BY <1>8 DEF ZeroKept
  <2>2. p - 1 \in Packets
    BY <1>2, <1>4, ConstantsAssumption DEF Packets, ConstantsAssumption
  <2>3. ~(q < p - 1)
    BY <1>4, <1>5, <2>1, <2>2
  <2> QED BY <1>4, <2>3
<1> QED BY <1>1, <1>6, <1>7, <1>8 DEF GapBefore

\* No gap between two packets of one frame goes unseen.
GapsAreSeen == NoWrap \/ ZeroKept

\* With GapsAreSeen, every packet handed over continues the buffer or is seen
\* not to.
LEMMA TakenContinues ==
    ASSUME GapsAreSeen, RtpInv, ZeroKept => PacketOrder /\ NothingPassedOver,
           NEW p \in Packets, TakePacket(p)
    PROVE  Continues(p)
BY NoGapContinues, KeptZeroContinues DEF GapsAreSeen, RtpInv

\* Every unmarked node with a pack header is one whole frame in a stream that
\* passes from 65535 to 0 too, if the network keeps the order, repeats nothing
\* and loses neither neighbour of the packet numbered 0.
THEOREM FramesAreWholeAcrossZero == ZeroKept /\ RtpSpec => []WholeFrames
<1> DEFINE Inv == RtpInv /\ PacketOrder /\ NothingPassedOver
<1>1. SUFFICES ASSUME ZeroKept PROVE RtpSpec => []WholeFrames
  OBVIOUS
<1>2. RtpInit => Inv
  BY RtpInvInitially, OrderInitially
<1>3. Inv /\ [RtpNext]_rtpVars => Inv'
  BY <1>1, RtpInvStep, KeptZeroContinues, PacketOrderStep, NothingPassedOverStep
     DEF RtpInv, ZeroKept
<1>4. Inv => WholeFrames
  BY DEF RtpInv
<1> QED BY <1>2, <1>3, <1>4, PTL DEF RtpSpec

-----------------------------------------------------------------------------
\* Between two payloads there is always room for one more.
NeverFull == Len(mRtpBuffer) < MaxPsBuffer

\* The strengthening that makes FlagsEarned inductive: a raised flag has its
\* break inside the buffer, and mLastSequenceNumber is 0 only before the first
\* packet or after the packet whose number is 0.
FlagInv ==
    /\ mIsCurrentFrameLostPacket => mRtpBuffer # <<>> /\ ~Consecutive(mRtpBuffer)
    /\ mRtpBuffer = <<>> => mLastSequenceNumber = 0
    /\ mRtpBuffer # <<>> =>
          mLastSequenceNumber = SequenceNumber(mRtpBuffer[Len(mRtpBuffer)])
    /\ FlagsEarned

\* The number after p's is the next one, or 0.
LEMMA SuccessorNumber ==
    ASSUME NEW p \in Packets, p + 1 \in Packets
    PROVE  SequenceNumber(p + 1) \in {SequenceNumber(p) + 1, 0}
<1> DEFINE f == FirstSeq + p
<1>1. f \in Nat /\ FirstSeq + (p + 1) = f + 1
  BY SMT, ConstantsAssumption, SeqModFact DEF ConstantsAssumption, Packets
<1>2. (f + 1) % 65536 = (f % 65536) + 1 \/ (f + 1) % 65536 = 0
  BY SMT, <1>1
<1> QED BY <1>1, <1>2 DEF SequenceNumber, SeqMod

\* What is not consecutive stays so when a packet is appended, and a packet
\* that does not continue the sequence breaks it.
LEMMA BrokenAppend ==
    ASSUME NEW s \in Seq(Packets), NEW p \in Packets, s # <<>>,
           ~Consecutive(s) \/ p # s[Len(s)] + 1
    PROVE  ~Consecutive(Append(s, p))
<1> DEFINE a == Append(s, p)
<1>1. /\ Len(s) \in Nat \ {0} /\ Len(a) = Len(s) + 1
      /\ \A i \in 1 .. Len(s) : a[i] = s[i]
      /\ a[Len(s) + 1] = p
  BY AppendProperties, EmptySeq
<1>2. CASE ~Consecutive(s)
  <2>1. PICK i \in 1 .. Len(s) - 1 : s[i + 1] # s[i] + 1
    BY <1>2 DEF Consecutive
  <2>2. a[i + 1] # a[i] + 1 /\ i \in 1 .. Len(a) - 1
    BY <1>1, <2>1
  <2> QED BY <2>2 DEF Consecutive
<1>3. CASE p # s[Len(s)] + 1
  <2>1. a[Len(s) + 1] # a[Len(s)] + 1 /\ Len(s) \in 1 .. Len(a) - 1
    BY <1>1, <1>3
  <2> QED BY <2>1 DEF Consecutive
<1> QED BY <1>2, <1>3

\* A gap is never seen before the packet that continues the buffer.
LEMMA GapBreaks ==
    ASSUME RtpTypeOK, FlagInv, NEW p \in Packets, GapBefore(p)
    PROVE  mRtpBuffer # <<>> /\ p # mRtpBuffer[Len(mRtpBuffer)] + 1
<1> DEFINE q == mRtpBuffer[Len(mRtpBuffer)]
<1>1. mRtpBuffer # <<>>
  BY DEF GapBefore, FlagInv
<1>2. q \in Packets /\ mLastSequenceNumber = SequenceNumber(q)
  BY <1>1, EmptySeq DEF RtpTypeOK, FlagInv
<1>3. ASSUME p = q + 1 PROVE FALSE
  BY <1>2, <1>3, SuccessorNumber DEF GapBefore
<1> QED BY <1>1, <1>3

\* One call of inputRtpBuffer keeps the flag earned while the payload fits.
LEMMA InputKeepsFlagInv ==
    ASSUME RtpTypeOK, FlagInv, NeverFull, NEW p \in Packets, inputRtpBuffer(p)
    PROVE  FlagInv'
<1> DEFINE lost == mIsCurrentFrameLostPacket \/ GapBefore(p)
           closes == p \in Headers /\ mRtpBuffer # <<>>
           kept == IF closes THEN <<>> ELSE mRtpBuffer
           node == RtpDataNode(lost, mRtpBuffer, p)
           Ok(n) == n.isLostPacket => ~Consecutive(Append(n.buffer, n.closedBy))
<1>1. /\ mLastSequenceNumber' = SequenceNumber(p)
      /\ mIsCurrentFrameLostPacket' = (lost /\ ~closes)
      /\ mList' = IF closes THEN Append(mList, node) ELSE mList
      /\ mRtpBuffer' = IF Len(kept) + 1 > MaxPsBuffer THEN <<>> ELSE Append(kept, p)
  BY DEF inputRtpBuffer, KeptBuffer, KeptFlag, CopyPayload
<1>2. mRtpBuffer' = Append(kept, p)
  BY <1>1, EmptySeq, ConstantsAssumption DEF NeverFull, RtpTypeOK, ConstantsAssumption
<1>3. kept \in Seq(Packets)
  BY EmptySeq DEF RtpTypeOK
<1>4. mRtpBuffer' # <<>> /\ mRtpBuffer'[Len(mRtpBuffer')] = p
  BY <1>2, <1>3, AppendProperties
<1>5. ASSUME lost
      PROVE  mRtpBuffer # <<>> /\ ~Consecutive(Append(mRtpBuffer, p))
  BY <1>5, GapBreaks, BrokenAppend DEF FlagInv, RtpTypeOK
<1>6. mIsCurrentFrameLostPacket' => ~Consecutive(mRtpBuffer')
  BY <1>1, <1>2, <1>5
<1>7. FlagsEarned'
  <2>1. CASE closes
    <3>1. node \in RtpDataNodes /\ Ok(node)
      BY <1>5 DEF RtpTypeOK, GapBefore, RtpDataNode, RtpDataNodes
    <3>2. /\ Len(mList) \in Nat /\ Len(mList') = Len(mList) + 1
          /\ \A i \in 1 .. Len(mList) : mList'[i] = mList[i]
          /\ mList'[Len(mList) + 1] = node
      BY <1>1, <2>1, <3>1, AppendProperties DEF RtpTypeOK
    <3>3. ASSUME NEW i \in 1 .. Len(mList') PROVE Ok(mList'[i])
      <4>1. CASE i <= Len(mList)
        BY <3>2, <4>1 DEF FlagInv, FlagsEarned
      <4>2. CASE i = Len(mList) + 1
        BY <3>1, <3>2, <4>2
      <4> QED BY <3>2, <4>1, <4>2
    <3> QED BY <3>3 DEF FlagsEarned, Consecutive
  <2>2. CASE ~closes
    BY <1>1, <2>2 DEF FlagInv, FlagsEarned, Consecutive
  <2> QED BY <2>1, <2>2
<1> QED BY <1>1, <1>4, <1>6, <1>7 DEF FlagInv

\* As long as the buffer has room for every payload, the flag is not raised for
\* nothing: each node marked as lost has a real break, for every stream (those
\* that pass from sequence number 65535 to 0 too) and every network.
THEOREM FlagsAreEarned == RtpSpec /\ []NeverFull => []FlagsEarned
<1>1. RtpInit => FlagInv
  BY EmptySeq DEF RtpInit, FlagInv, FlagsEarned
<1>2. RtpTypeOK /\ NeverFull /\ FlagInv /\ [RtpNext]_rtpVars => FlagInv'
  <2> SUFFICES ASSUME RtpTypeOK, NeverFull, FlagInv, [RtpNext]_rtpVars PROVE FlagInv'
    OBVIOUS
  <2>1. CASE UNCHANGED bufVars
    BY <2>1 DEF bufVars, FlagInv, FlagsEarned, Consecutive
  <2>2. ASSUME NEW p \in Packets, TakePacket(p) PROVE FlagInv'
    BY <2>2, InputKeepsFlagInv DEF TakePacket
  <2> QED BY <2>1, <2>2 DEF RtpNext, RtpThread, CameraSend, NetLose, PollThreadReceive,
                BeginDataAccess, EndDataAccess, rtpVars, bufVars
<1>3. FlagInv => FlagsEarned
  BY DEF FlagInv
<1> QED BY <1>1, <1>2, <1>3, RtpTypeCorrect, PTL DEF RtpSpec
=============================================================================
