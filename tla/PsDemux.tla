------------------------------ MODULE PsDemux ------------------------------
(***************************************************************************)
(* RtpReciever::GetH264FromPs: takes the H.264 data out of one buffer of   *)
(* an MPEG program stream.                                                 *)
(*                                                                         *)
(* The buffer starts with a pack header; sections follow, each with a start*)
(* code and a length of two bytes.  The function steps from section to     *)
(* section by these lengths and copies the payload of every video section  *)
(* (PES of stream E0) to the end of mH264buf.  Whatever the lengths say,   *)
(* it must come to an end and stay inside its buffers.                     *)
(*                                                                         *)
(* The module is a state machine: a call, one step per turn of the loop,   *)
(* and the return.  Positions count from 0, as in the source.              *)
(***************************************************************************)
EXTENDS Integers, Sequences

CONSTANT H264FrameSizeMax       \* H264_FRAME_SIZE_MAX, the size of mH264buf

ASSUME DemuxAssumption == H264FrameSizeMax \in Nat \ {0}

VARIABLES
    at,             \* "idle", in the "loop", "done", or "crashed" in memcpy
    buffer,         \* the bytes of the node
    next,           \* NextPack - buffer
    left,           \* leftlength
    copies,         \* the memcpys of this call, in order: where from, how many
    h264length

psVars == <<at, buffer, next, left, copies, h264length>>

Byte == 0 .. 255

\* pack_start_code, program_stream_map and program_stream_e are packed structures.
StartCodeSize == 4
SectionHead   == 6
PesHead       == 9
PackHead      == 14

\* One memcpy.
Copies == [from : Nat, len : Nat]

DemuxTypeOK ==
    /\ at \in {"idle", "loop", "done", "crashed"}
    /\ buffer \in Seq(Byte)
    /\ next \in Nat
    /\ left \in Int
    /\ copies \in Seq(Copies)
    /\ h264length \in Nat

DemuxInit ==
    /\ at = "idle"
    /\ buffer = <<>>
    /\ next = 0
    /\ left = 0
    /\ copies = <<>>
    /\ h264length = 0

-----------------------------------------------------------------------------
\* Mutants: the stuffing of the pack header is ignored; the payload is not clipped;
\* the head of a section is not skipped.
Stuffing_Ignored(b) == 0
Clipped_Not(from, len) == len
SectionEnd_NoHead(len) == next + len

\* The low three bits of the last byte of the pack header.
Stuffing(b) == b[PackHead] % 8

\* The big endian length at position i.
Length(i) == 256 * buffer[i + 1] + buffer[i + 2]

\* A payload that would go past the end of the buffer ends there.
Clipped(from, len) == IF len + from > Len(buffer) THEN Len(buffer) - from ELSE len

\* Where the section at next ends if its length field says len.
SectionEnd(len) == next + len + SectionHead

\* The call, with the pack header.  A buffer that is too short for one is read past
\* its end, in the ten bytes malloc has added, and given up whatever stands there.
GetH264FromPs(b) ==
    LET rest == Len(b) - PackHead - Stuffing(b)
    IN  /\ at = "idle"
        /\ buffer' = b
        /\ copies' = <<>>
        /\ h264length' = 0
        /\ IF Len(b) >= PackHead /\ rest >= 4
           THEN at' = "loop" /\ next' = Len(b) - rest /\ left' = rest
           ELSE at' = "done" /\ next' = 0 /\ left' = 0

StartsWith(streamId) ==
    /\ buffer[next + 1] = 0 /\ buffer[next + 2] = 0 /\ buffer[next + 3] = 1
    /\ buffer[next + 4] = streamId

InLoop == at = "loop" /\ left >= StartCodeSize

\* The pointers move behind the section, or the loop is left if nothing is behind it.
Advance(len) ==
    LET end == SectionEnd(len)
    IN  /\ left' = Len(buffer) - end
        /\ IF left' > 0 THEN next' = end /\ at' = "loop" ELSE at' = "done" /\ UNCHANGED next

\* ProgramShHead and ProgramStreamMap.
SkipSection ==
    /\ InLoop
    /\ StartsWith(187) \/ StartsWith(188)
    /\ IF left < SectionHead
       THEN at' = "done" /\ UNCHANGED <<next, left>>
       ELSE Advance(Length(next + 4))
    /\ UNCHANGED <<buffer, copies, h264length>>

\* A payload of len bytes by the section's own account, which may be negative.  Then the
\* pointer to it is null; like a payload that starts past the end of the buffer, it makes
\* memcpy run with a size below 0, that is a huge one.
Memcpy(from, len) ==
    LET n == Clipped(from, len)
    IN  /\ len # 0 /\ len + h264length < H264FrameSizeMax
        /\ len > 0 /\ n >= 0
        /\ copies' = Append(copies, [from |-> from, len |-> n])
        /\ h264length' = h264length + n

NoMemcpy(len) ==
    /\ len = 0 \/ len + h264length >= H264FrameSizeMax
    /\ UNCHANGED <<copies, h264length>>

MemcpyCrashes(from, len) ==
    /\ len # 0 /\ len + h264length < H264FrameSizeMax
    /\ len < 0 \/ Clipped(from, len) < 0

\* A video section.
Pes ==
    LET stuffing == buffer[next + PesHead]
        from == next + PesHead + stuffing
        len  == Length(next + 4) - 2 - 1 - stuffing
    IN  /\ InLoop
        /\ StartsWith(224)
        /\ left >= PesHead
        /\ \/ /\ Memcpy(from, len) \/ NoMemcpy(len)
              /\ Advance(Length(next + 4))
           \/ /\ MemcpyCrashes(from, len)
              /\ at' = "crashed"
              /\ UNCHANGED <<next, left, copies, h264length>>
        /\ UNCHANGED buffer

\* A video section whose head is cut off, an audio section or anything else ends the
\* call, as does a rest that is too short for a start code.
Break ==
    /\ at = "loop"
    /\ \/ left < StartCodeSize
       \/ StartsWith(224) /\ left < PesHead
       \/ ~ \E streamId \in {187, 188, 224} : StartsWith(streamId)
    /\ at' = "done"
    /\ UNCHANGED <<buffer, next, left, copies, h264length>>

\* The caller is done with the data and frees the node.
Return ==
    /\ at = "done"
    /\ at' = "idle"
    /\ buffer' = <<>>
    /\ next' = 0 /\ left' = 0
    /\ copies' = <<>> /\ h264length' = 0

DemuxStep == SkipSection \/ Pes \/ Break \/ Return

DemuxNext == (\E b \in Seq(Byte) : GetH264FromPs(b)) \/ DemuxStep

DemuxSpec == DemuxInit /\ [][DemuxNext]_psVars

-----------------------------------------------------------------------------
(* Properties.                                                             *)

\* For every buffer, however damaged: in the loop, the pointer and the rest agree; what
\* has been copied lies inside the buffer, in order, without a byte copied twice, before
\* the point the loop has reached; and it fits mH264buf.
DemuxInv ==
    /\ DemuxTypeOK
    /\ at = "loop" => next + left = Len(buffer) /\ left > 0
    /\ \A i \in 1 .. Len(copies) :
          /\ copies[i].from + copies[i].len <= Len(buffer)
          /\ at = "loop" => copies[i].from + copies[i].len <= next
          /\ i > 1 => copies[i - 1].from + copies[i - 1].len <= copies[i].from
    /\ h264length < H264FrameSizeMax

\* Every turn of the loop goes forward by a section head at least: the loop ends.
DemuxAdvances == [][at = "loop" /\ at' = "loop" => next' >= next + SectionHead]_psVars
=============================================================================
