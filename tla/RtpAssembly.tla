---------------------------- MODULE RtpAssembly ----------------------------
(***************************************************************************)
(* One video stream from the camera to the frame queue of its channel.     *)
(*                                                                         *)
(* The camera cuts a PS stream into RTP packets.  The network may lose,    *)
(* delay, reorder and duplicate them.  jrtplib's poll thread files what    *)
(* arrives in a packet list sorted by sequence number, and the RTP thread  *)
(* (RtpReciever::run) takes the packets from that list and hands each to   *)
(* VideoChannel::inputRtpBuffer, which glues payloads together until the   *)
(* next PS pack header and queues the result for the decoding thread.      *)
(*                                                                         *)
(* Packets are numbered 0 .. NumPackets - 1 in the order the camera sends  *)
(* them; the 16 bit number on the wire is SequenceNumber(p).  A buffer is  *)
(* the sequence of the packets whose payloads it holds: every payload      *)
(* counts as one unit of space, so mRtpBufferSize is Len(mRtpBuffer).      *)
(***************************************************************************)
EXTENDS Integers, Sequences

CONSTANTS
    NumPackets,     \* how many packets the camera sends
    Headers,        \* the packets whose payload starts with 00 00 01 BA
    FirstSeq,       \* RTP sequence number of packet 0, chosen by the camera
    MaxPsBuffer,    \* MAX_PS_BUFFER_SIZE, in payloads
    Losable,        \* the packets the network may lose
    MaxDups,        \* bound: how often the network duplicates a packet
    Reordering      \* TRUE if packets may overtake each other

SeqMod == 65536     \* RTP sequence numbers are uint16_t

Packets == 0 .. (NumPackets - 1)

ASSUME ConstantsAssumption ==
    /\ NumPackets \in Nat
    /\ Headers \subseteq Packets
    /\ FirstSeq \in 0 .. (SeqMod - 1)
    /\ MaxPsBuffer \in Nat \ {0}
    /\ Losable \subseteq Packets
    /\ MaxDups \in Nat
    /\ Reordering \in BOOLEAN

VARIABLES
    nextSend,                   \* the camera's next packet
    inNet,                      \* packets under way
    dups,                       \* duplications so far
    packetlist,                 \* jrtplib: packets received and not yet taken
    inDataAccess,               \* RTP thread is between Begin- and EndDataAccess
    mRtpBuffer,
    mIsCurrentFrameLostPacket,
    mLastSequenceNumber,
    mList                       \* DataListThread: the queued RtpDataNodes

netVars == <<nextSend, inNet, dups>>
bufVars == <<mRtpBuffer, mIsCurrentFrameLostPacket, mLastSequenceNumber, mList>>
rtpVars == <<nextSend, inNet, dups, packetlist, inDataAccess,
             mRtpBuffer, mIsCurrentFrameLostPacket, mLastSequenceNumber, mList>>

-----------------------------------------------------------------------------
\* Mutant: the sender does not wrap at 2^16.
SequenceNumber_NoWrap(p) == FirstSeq + p

\* GetSequenceNumber() of packet p.
SequenceNumber(p) == (FirstSeq + p) % SeqMod

\* The RtpDataNode made of the buffer when header packet p arrives.  closedBy
\* is a history field, read by properties only: it records p.
RtpDataNode(lost, buf, p) ==
    [isLostPacket |-> lost, buffer |-> buf, closedBy |-> p]

RtpDataNodes ==
    [isLostPacket : BOOLEAN, buffer : Seq(Packets), closedBy : Packets]

RtpTypeOK ==
    /\ nextSend \in 0 .. NumPackets
    /\ inNet \subseteq Packets
    /\ dups \in 0 .. MaxDups
    /\ packetlist \subseteq Packets
    /\ inDataAccess \in BOOLEAN
    /\ mRtpBuffer \in Seq(Packets)
    /\ mIsCurrentFrameLostPacket \in BOOLEAN
    /\ mLastSequenceNumber \in 0 .. (SeqMod - 1)
    /\ mList \in Seq(RtpDataNodes)

\* The state after the VideoChannel constructor, before the first packet.
RtpInit ==
    /\ nextSend = 0
    /\ inNet = {}
    /\ dups = 0
    /\ packetlist = {}
    /\ inDataAccess = FALSE
    /\ mRtpBuffer = <<>>
    /\ mIsCurrentFrameLostPacket = FALSE
    /\ mLastSequenceNumber = 0
    /\ mList = <<>>

-----------------------------------------------------------------------------
(* The camera and the network.                                             *)

CameraSend ==
    /\ nextSend < NumPackets
    /\ nextSend' = nextSend + 1
    /\ inNet' = inNet \union {nextSend}
    /\ UNCHANGED <<dups, packetlist, inDataAccess, bufVars>>

NetLose(p) ==
    /\ p \in inNet \intersect Losable
    /\ inNet' = inNet \ {p}
    /\ UNCHANGED <<nextSend, dups, packetlist, inDataAccess, bufVars>>

MayArrive(p) ==
    /\ p \in inNet
    /\ Reordering \/ \A q \in inNet : p <= q

\* jrtplib's poll thread inserts p in the sorted list, where a packet that is
\* there already is dropped.  It waits while the RTP thread has data access.
PollThreadReceive(p) ==
    /\ ~inDataAccess
    /\ MayArrive(p)
    /\ packetlist' = packetlist \union {p}
    /\ \/ /\ inNet' = inNet \ {p}
          /\ dups' = dups
       \/ /\ dups < MaxDups
          /\ dups' = dups + 1
          /\ inNet' = inNet
    /\ UNCHANGED <<nextSend, inDataAccess, bufVars>>

-----------------------------------------------------------------------------
(* The RTP thread.                                                         *)

BeginDataAccess ==
    /\ ~inDataAccess
    /\ packetlist # {}
    /\ inDataAccess' = TRUE
    /\ UNCHANGED <<netVars, packetlist, bufVars>>

EndDataAccess ==
    /\ inDataAccess
    /\ packetlist = {}
    /\ inDataAccess' = FALSE
    /\ UNCHANGED <<netVars, packetlist, bufVars>>

\* Mutants of GapBefore: only forward jumps count; number 0 is not excepted.
GapBefore_ForwardOnly(p) ==
    /\ SequenceNumber(p) > mLastSequenceNumber + 1
    /\ mLastSequenceNumber # 0
    /\ SequenceNumber(p) # 0
GapBefore_ZeroCounts(p) ==
    /\ SequenceNumber(p) # mLastSequenceNumber + 1
    /\ mLastSequenceNumber # 0

\* The test inputRtpBuffer makes for a missing packet before p.  The
\* difference is taken in uint32_t: it is 1 only if p has the next number.
GapBefore(p) ==
    /\ SequenceNumber(p) # mLastSequenceNumber + 1
    /\ mLastSequenceNumber # 0
    /\ SequenceNumber(p) # 0

\* The buffer after the queueing step: empty if a frame was queued.
\* Mutant: mRtpBufferSize is not reset.
KeptBuffer_NotEmptied(closes) == mRtpBuffer
KeptBuffer(closes) == IF closes THEN <<>> ELSE mRtpBuffer

\* The flag after the queueing step: lowered if a frame was queued.
\* Mutant: it is not lowered.
KeptFlag_NotLowered(lost, closes) == lost
KeptFlag(lost, closes) == lost /\ ~closes

\* The copy of the payload: one that does not fit is dropped together with
\* everything in the buffer, and the lost-packet flag stays as it is.
CopyPayload(kept, p) ==
    IF Len(kept) + 1 > MaxPsBuffer THEN <<>> ELSE Append(kept, p)

\* One call of VideoChannel::inputRtpBuffer.  A header queues the frame in the
\* buffer; then the payload is copied.
inputRtpBuffer(p) ==
    LET lost   == mIsCurrentFrameLostPacket \/ GapBefore(p)
        closes == p \in Headers /\ mRtpBuffer # <<>>
    IN  /\ mLastSequenceNumber' = SequenceNumber(p)
        /\ mIsCurrentFrameLostPacket' = KeptFlag(lost, closes)
        /\ mList' = IF closes
                    THEN Append(mList, RtpDataNode(lost, mRtpBuffer, p))
                    ELSE mList
        /\ mRtpBuffer' = CopyPayload(KeptBuffer(closes), p)

\* The body of the GetNextPacket loop: the first packet of the sorted list.
TakePacket(p) ==
    /\ inDataAccess
    /\ p \in packetlist
    /\ \A q \in packetlist : p <= q
    /\ packetlist' = packetlist \ {p}
    /\ inputRtpBuffer(p)
    /\ UNCHANGED <<netVars, inDataAccess>>

-----------------------------------------------------------------------------
RtpThread == BeginDataAccess \/ EndDataAccess \/ \E p \in Packets : TakePacket(p)

RtpNext ==
    \/ CameraSend
    \/ \E p \in Packets : NetLose(p)
    \/ \E p \in Packets : PollThreadReceive(p)
    \/ RtpThread

RtpSpec == RtpInit /\ [][RtpNext]_rtpVars

-----------------------------------------------------------------------------
(* Properties.                                                             *)

Consecutive(s) == \A i \in 1 .. Len(s) - 1 : s[i + 1] = s[i] + 1

\* b holds every packet of one frame and nothing else.
IsWholeFrame(b) ==
    /\ b # <<>>
    /\ b[1] \in Headers
    /\ Consecutive(b)
    /\ \A i \in 2 .. Len(b) : b[i] \notin Headers
    /\ b[Len(b)] + 1 \in Headers

\* dealwithDataNode looks at a node only if it starts with a PS pack header.
StartsWithHeader(node) == node.buffer # <<>> /\ node.buffer[1] \in Headers

\* What isLostPacket promises the decoding thread: a queued node that starts
\* with a pack header and is not marked as lost is one complete frame, whatever
\* the network lost, delayed, repeated or reordered and however full the
\* buffer got.
WholeFrames ==
    \A i \in 1 .. Len(mList) :
        StartsWithHeader(mList[i]) /\ ~mList[i].isLostPacket
            => IsWholeFrame(mList[i].buffer)

\* The flag is not raised for nothing: as long as the buffer never overflows, a
\* node marked as lost has a real break among its packets or between its last
\* packet and the header that closed it.  A flag that survives from an earlier
\* frame, or is raised by the change from sequence number 65535 to 0, breaks it.
FlagsEarned ==
    \A i \in 1 .. Len(mList) :
        mList[i].isLostPacket
            => ~Consecutive(Append(mList[i].buffer, mList[i].closedBy))

\* The strengthening that makes WholeFrames inductive: the buffer never holds a
\* second pack header, its last packet is the one whose number was remembered,
\* and while the flag is down its packets are consecutive.
BufferInv ==
    /\ mRtpBuffer # <<>> =>
          mLastSequenceNumber = SequenceNumber(mRtpBuffer[Len(mRtpBuffer)])
    /\ \A i \in 2 .. Len(mRtpBuffer) : mRtpBuffer[i] \notin Headers
    /\ ~mIsCurrentFrameLostPacket => Consecutive(mRtpBuffer)

RtpInv == RtpTypeOK /\ BufferInv /\ WholeFrames
=============================================================================
