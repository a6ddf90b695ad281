--------------------------- MODULE PsDemux_proofs ---------------------------
(***************************************************************************)
(* Proofs about GetH264FromPs for every sequence of bytes it may be given: *)
(* DemuxInv is inductive, and every turn of the loop goes forward.         *)
(***************************************************************************)
EXTENDS PsDemux, SequenceTheorems, TLAPS

\* The two bytes of a length are bytes of the buffer, so it is a natural number.
LEMMA LengthType ==
    ASSUME DemuxTypeOK, NEW i \in Nat, i + 2 <= Len(buffer)
    PROVE  Length(i) \in Nat
<1>1. buffer[i + 1] \in Byte /\ buffer[i + 2] \in Byte
  <2>1. buffer \in Seq(Byte) /\ Len(buffer) \in Nat
    BY DEF DemuxTypeOK
  <2>2. i + 1 \in 1 .. Len(buffer) /\ i + 2 \in 1 .. Len(buffer)
    BY <2>1
  <2> QED BY <2>1, <2>2
<1>2. \A x, y \in 0 .. 255 : 256 * x + y \in Nat
  OBVIOUS
<1> QED BY <1>1, <1>2 DEF Length, Byte

\* What ends before n ends before any later point.
LEMMA EndsBefore ==
    ASSUME NEW a \in Nat, NEW b \in Nat, NEW n \in Nat, NEW m \in Nat,
           a + b <= n, n <= m
    PROVE  a + b <= m
OBVIOUS

\* What DemuxInv says of one copy while the loop runs.
LEMMA CopyProperties ==
    ASSUME DemuxInv, at = "loop", NEW i \in 1 .. Len(copies)
    PROVE  /\ copies[i].from \in Nat /\ copies[i].len \in Nat
           /\ copies[i].from + copies[i].len <= Len(buffer)
           /\ copies[i].from + copies[i].len <= next
           /\ i > 1 => copies[i - 1].from + copies[i - 1].len <= copies[i].from
<1>1. copies[i].from \in Nat /\ copies[i].len \in Nat
  <2>1. copies \in Seq(Copies)
    BY DEF DemuxInv, DemuxTypeOK
  <2>2. copies[i] \in Copies
    BY <2>1
  <2> QED BY <2>2 DEF Copies
<1>2. /\ copies[i].from + copies[i].len <= Len(buffer)
      /\ copies[i].from + copies[i].len <= next
      /\ i > 1 => copies[i - 1].from + copies[i - 1].len <= copies[i].from
  BY DEF DemuxInv
<1> QED BY <1>1, <1>2

\* The call itself.
LEMMA CallKeepsInv ==
    ASSUME DemuxInv, NEW b \in Seq(Byte), GetH264FromPs(b)
    PROVE  DemuxInv'
<1> DEFINE rest == Len(b) - PackHead - Stuffing(b)
<1>1. /\ buffer' = b /\ copies' = <<>> /\ h264length' = 0
      /\ \/ Len(b) >= PackHead /\ rest >= 4 /\ at' = "loop" /\ next' = Len(b) - rest /\ left' = rest
         \/ at' = "done" /\ next' = 0 /\ left' = 0
  BY DEF GetH264FromPs
<1>2. Len(b) \in Nat
  BY LenProperties
<1>3. CASE at' = "done"
  BY <1>1, <1>3, DemuxAssumption DEF DemuxInv, DemuxTypeOK, DemuxAssumption
<1>4. CASE Len(b) >= PackHead /\ rest >= 4 /\ at' = "loop"
  <2>1. b[PackHead] \in Byte
    <3>1. Len(b) >= 14
      BY <1>4 DEF PackHead
    <3>2. 14 \in 1 .. Len(b)
      BY <1>2, <3>1
    <3> QED BY <3>2 DEF PackHead
  <2>2. Stuffing(b) \in Nat
    <3>1. \A x \in 0 .. 255 : x % 8 \in Nat
      OBVIOUS
    <3> QED BY <2>1, <3>1 DEF Stuffing, Byte
  <2>3. next' \in Nat /\ left' \in Nat /\ next' + left' = Len(b) /\ left' > 0
    BY <1>1, <1>2, <1>4, <2>2 DEF PackHead
  <2> HIDE DEF rest
  <2> QED BY <1>1, <1>4, <2>3, DemuxAssumption DEF DemuxInv, DemuxTypeOK, DemuxAssumption
<1> QED BY <1>1, <1>3, <1>4

\* Where the loop stands after a section whose head is inside the buffer.
LEMMA AdvanceProperties ==
    ASSUME DemuxInv, at = "loop", NEW len \in Nat, Advance(len), UNCHANGED buffer
    PROVE  /\ SectionEnd(len) = next + len + 6 /\ SectionEnd(len) \in Nat
           /\ left' \in Int /\ next' \in Nat
           /\ \/ at' = "loop" /\ next' = SectionEnd(len) /\ next' + left' = Len(buffer) /\ left' > 0
              \/ at' = "done"
<1>1. next \in Nat /\ Len(buffer) \in Nat
  BY DEF DemuxInv, DemuxTypeOK
<1>2. SectionEnd(len) = next + len + 6 /\ SectionEnd(len) \in Nat
  BY <1>1 DEF SectionEnd, SectionHead
<1>3. /\ left' = Len(buffer) - SectionEnd(len)
      /\ \/ left' > 0 /\ next' = SectionEnd(len) /\ at' = "loop"
         \/ at' = "done" /\ next' = next
  BY DEF Advance
<1> QED BY <1>1, <1>2, <1>3

LEMMA SkipKeepsInv ==
    ASSUME DemuxInv, SkipSection
    PROVE  /\ DemuxInv'
           /\ at' = "loop" => next' >= next + SectionHead
<1>1. at = "loop" /\ UNCHANGED <<buffer, copies, h264length>>
  BY DEF SkipSection, InLoop
<1>2. /\ next \in Nat /\ left \in Int /\ next + left = Len(buffer) /\ Len(buffer) \in Nat
      /\ copies \in Seq(Copies)
  BY <1>1 DEF DemuxInv, DemuxTypeOK
<1>3. CASE left < SectionHead
  BY <1>1, <1>3 DEF SkipSection, DemuxInv, DemuxTypeOK
<1>4. CASE ~(left < SectionHead)
  <2> DEFINE len == Length(next + 4)
  <2>1. len \in Nat
    BY <1>2, <1>4, LengthType DEF DemuxInv, SectionHead
  <2>2. Advance(len)
    BY <1>4 DEF SkipSection
  <2> HIDE DEF len
  <2>3. /\ left' \in Int /\ next' \in Nat
        /\ \/ /\ at' = "loop" /\ next' = next + len + 6
              /\ next' + left' = Len(buffer) /\ left' > 0
           \/ at' = "done"
    BY <1>1, <2>1, <2>2, AdvanceProperties
  <2>4. at' = "loop" => next' >= next + SectionHead
    BY <1>2, <2>1, <2>3 DEF SectionHead
  <2>5. ASSUME NEW i \in 1 .. Len(copies), at' = "loop"
        PROVE  copies[i].from + copies[i].len <= next'
    <3>1. /\ copies[i].from + copies[i].len <= next
          /\ copies[i].from \in Nat /\ copies[i].len \in Nat
      BY <1>1, CopyProperties
    <3>2. next <= next'
      BY <1>2, <2>1, <2>3, <2>5
    <3> QED BY <1>2, <2>3, <3>1, <3>2, EndsBefore
  <2>6. DemuxTypeOK'
    BY <1>1, <2>3 DEF DemuxInv, DemuxTypeOK
  <2> QED BY <1>1, <2>3, <2>4, <2>5, <2>6 DEF DemuxInv
<1> QED BY <1>1, <1>3, <1>4 DEF SkipSection

\* The payload of a video section ends with the section, and is cut off where the buffer
\* ends.
LEMMA ClippedProperties ==
    ASSUME NEW from \in Nat, NEW len \in Nat, Len(buffer) \in Nat
    PROVE  /\ Clipped(from, len) \in Int
           /\ Clipped(from, len) <= len
           /\ from + Clipped(from, len) <= Len(buffer)
BY DEF Clipped

LEMMA PesKeepsInv ==
    ASSUME DemuxInv, Pes
    PROVE  /\ DemuxInv'
           /\ at' = "loop" => next' >= next + SectionHead
<1> DEFINE stuffing == buffer[next + PesHead]
           from == next + PesHead + stuffing
           total == Length(next + 4)
           len == total - 2 - 1 - stuffing
<1>1. at = "loop" /\ UNCHANGED buffer /\ left >= PesHead
  BY DEF Pes, InLoop
<1>2. /\ next \in Nat /\ left \in Int /\ next + left = Len(buffer) /\ Len(buffer) \in Nat
      /\ buffer \in Seq(Byte)
      /\ copies \in Seq(Copies) /\ h264length \in Nat
      /\ h264length < H264FrameSizeMax /\ H264FrameSizeMax \in Nat
  BY <1>1, DemuxAssumption DEF DemuxInv, DemuxTypeOK, DemuxAssumption
<1>3. stuffing \in Nat
  <2>1. next + PesHead \in 1 .. Len(buffer)
    BY <1>1, <1>2 DEF PesHead
  <2>2. buffer[next + PesHead] \in Byte
    BY <1>2, <2>1
  <2> QED BY <2>2 DEF Byte
<1>4. total \in Nat
  BY <1>1, <1>2, LengthType DEF DemuxInv, PesHead
<1>5. from \in Nat /\ len \in Int /\ from + len = next + total + 6 /\ from >= next
  <2> HIDE DEF stuffing, total
  <2> QED BY <1>2, <1>3, <1>4 DEF PesHead
<1>6. \/ (Memcpy(from, len) \/ NoMemcpy(len)) /\ Advance(total)
      \/ at' = "crashed" /\ UNCHANGED <<next, left, copies, h264length>>
  BY DEF Pes
<1> HIDE DEF stuffing, from, total, len
<1>7. CASE at' = "crashed" /\ UNCHANGED <<next, left, copies, h264length>>
  BY <1>1, <1>7 DEF DemuxInv, DemuxTypeOK
<1>8. CASE Advance(total)
  <2>1. /\ left' \in Int /\ next' \in Nat
        /\ \/ /\ at' = "loop" /\ next' = next + total + 6
              /\ next' + left' = Len(buffer) /\ left' > 0
           \/ at' = "done"
    BY <1>1, <1>4, <1>8, AdvanceProperties
  <2>2. at' = "loop" => next' >= next + SectionHead
    BY <1>2, <1>4, <2>1 DEF SectionHead
  <2>3. CASE NoMemcpy(len)
    <3>1. UNCHANGED <<copies, h264length>>
      BY <2>3 DEF NoMemcpy
    <3>2. DemuxTypeOK'
      BY <1>1, <2>1, <3>1 DEF DemuxInv, DemuxTypeOK
    <3>3. ASSUME NEW i \in 1 .. Len(copies), at' = "loop"
          PROVE  copies[i].from + copies[i].len <= next'
      <4>1. /\ copies[i].from + copies[i].len <= next
            /\ copies[i].from \in Nat /\ copies[i].len \in Nat
        BY <1>1, CopyProperties
      <4>2. next <= next'
        BY <1>2, <1>4, <2>1, <3>3
      <4> QED BY <1>2, <2>1, <4>1, <4>2, EndsBefore
    <3> QED BY <1>1, <2>1, <2>2, <3>1, <3>2, <3>3 DEF DemuxInv
  <2>4. CASE Memcpy(from, len)
    <3> DEFINE n == Clipped(from, len)
               c == [from |-> from, len |-> n]
    <3>1. /\ len > 0 /\ n >= 0 /\ len + h264length < H264FrameSizeMax
          /\ copies' = Append(copies, c) /\ h264length' = h264length + n
      BY <2>4 DEF Memcpy
    <3>2. n \in Int /\ n <= len /\ from + n <= Len(buffer)
      BY <1>2, <1>5, <3>1, ClippedProperties
    <3> HIDE DEF n
    <3>3. n \in Nat /\ h264length' \in Nat /\ h264length' < H264FrameSizeMax
      BY <1>2, <1>5, <3>1, <3>2
    <3>4. c \in Copies /\ c.from = from /\ c.len = n
      BY <1>5, <3>3 DEF Copies
    <3> HIDE DEF c
    <3>5. /\ copies' \in Seq(Copies)
          /\ Len(copies) \in Nat /\ Len(copies') = Len(copies) + 1
          /\ \A i \in 1 .. Len(copies) : copies'[i] = copies[i]
          /\ copies'[Len(copies) + 1] = c
      BY <1>2, <3>1, <3>4, AppendProperties
    <3>6. DemuxTypeOK'
      BY <1>1, <2>1, <3>3, <3>5 DEF DemuxInv, DemuxTypeOK
    <3>7. ASSUME NEW i \in 1 .. Len(copies)
          PROVE  /\ copies[i].from \in Nat /\ copies[i].len \in Nat
                 /\ copies[i].from + copies[i].len <= Len(buffer)
                 /\ copies[i].from + copies[i].len <= next
                 /\ i > 1 => copies[i - 1].from + copies[i - 1].len <= copies[i].from
      BY <1>1, CopyProperties
    <3>8. ASSUME NEW i \in 1 .. Len(copies')
          PROVE  /\ copies'[i].from + copies'[i].len <= Len(buffer)
                 /\ at' = "loop" => copies'[i].from + copies'[i].len <= next'
                 /\ i > 1 => copies'[i - 1].from + copies'[i - 1].len <= copies'[i].from
      <4>1. CASE i <= Len(copies)
        <5>1. i \in 1 .. Len(copies) /\ (i > 1 => i - 1 \in 1 .. Len(copies))
          BY <3>5, <4>1
        <5>2. copies'[i] = copies[i] /\ (i > 1 => copies'[i - 1] = copies[i - 1])
          BY <3>5, <5>1
        <5>3. ASSUME at' = "loop" PROVE copies[i].from + copies[i].len <= next'
          <6>1. next <= next'
            BY <1>2, <1>4, <2>1, <5>3
          <6> QED BY <1>2, <2>1, <3>7, <5>1, <6>1, EndsBefore
        <5> QED BY <3>7, <5>1, <5>2, <5>3
      <4>2. CASE i = Len(copies) + 1
        <5>1. copies'[i] = c
          BY <3>5, <4>2
        <5>2. c.from + c.len <= Len(buffer)
          BY <3>2, <3>4
        <5>3. at' = "loop" => c.from + c.len <= next'
          BY <1>2, <1>4, <1>5, <2>1, <3>2, <3>4
        <5>4. ASSUME i > 1 PROVE copies'[i - 1].from + copies'[i - 1].len <= c.from
          <6>1. i - 1 \in 1 .. Len(copies) /\ copies'[i - 1] = copies[i - 1]
            BY <3>5, <4>2, <5>4
          <6>2. /\ copies[i - 1].from \in Nat /\ copies[i - 1].len \in Nat
                /\ copies[i - 1].from + copies[i - 1].len <= next
            BY <3>7, <6>1
          <6>3. copies[i - 1].from + copies[i - 1].len <= from
            BY <1>2, <1>5, <6>2, EndsBefore
          <6> QED BY <3>4, <6>1, <6>3
        <5> QED BY <5>1, <5>2, <5>3, <5>4
      <4> QED BY <3>5, <4>1, <4>2
    <3> QED BY <1>1, <2>1, <2>2, <3>3, <3>6, <3>8 DEF DemuxInv
  <2> QED BY <1>6, <1>8, <2>3, <2>4, <1>7, <2>1
<1> QED BY <1>6, <1>7, <1>8

LEMMA DemuxInductive ==
    /\ DemuxInit => DemuxInv
    /\ DemuxInv /\ [DemuxNext]_psVars => DemuxInv'
<1>1. DemuxInit => DemuxInv
  BY DemuxAssumption DEF DemuxInit, DemuxInv, DemuxTypeOK, DemuxAssumption
<1>2. ASSUME DemuxInv, [DemuxNext]_psVars PROVE DemuxInv'
  <2>1. CASE \E b \in Seq(Byte) : GetH264FromPs(b)
    BY <1>2, <2>1, CallKeepsInv
  <2>2. CASE SkipSection
    BY <1>2, <2>2, SkipKeepsInv
  <2>3. CASE Pes
    BY <1>2, <2>3, PesKeepsInv
  <2>4. CASE Break
    BY <1>2, <2>4 DEF Break, DemuxInv, DemuxTypeOK
  <2>5. CASE Return
    BY <2>5, DemuxAssumption DEF Return, DemuxInv, DemuxTypeOK, DemuxAssumption
  <2>6. CASE UNCHANGED psVars
    BY <1>2, <2>6 DEF psVars, DemuxInv, DemuxTypeOK
  <2> QED BY <1>2, <2>1, <2>2, <2>3, <2>4, <2>5, <2>6 DEF DemuxNext, DemuxStep
<1> QED BY <1>1, <1>2

\* Whatever bytes a node holds, GetH264FromPs copies only bytes of the node, each at most
\* once and in order, and never more than mH264buf can take.
THEOREM DemuxIsInvariant == DemuxSpec => []DemuxInv
BY DemuxInductive, PTL DEF DemuxSpec

\* Whatever bytes a node holds, the loop of GetH264FromPs goes forward with every turn, so
\* that it comes to an end.
THEOREM DemuxGoesForward == DemuxSpec => DemuxAdvances
<1>1. ASSUME DemuxInv, [DemuxNext]_psVars
      PROVE  [at = "loop" /\ at' = "loop" => next' >= next + SectionHead]_psVars
  <2>1. CASE \E b \in Seq(Byte) : GetH264FromPs(b)
    BY <2>1 DEF GetH264FromPs
  <2>2. CASE SkipSection
    BY <1>1, <2>2, SkipKeepsInv
  <2>3. CASE Pes
    BY <1>1, <2>3, PesKeepsInv
  <2>4. CASE Break \/ Return
    BY <2>4 DEF Break, Return
  <2>5. CASE UNCHANGED psVars
    BY <2>5
  <2> QED BY <1>1, <2>1, <2>2, <2>3, <2>4, <2>5 DEF DemuxNext, DemuxStep
<1> QED BY <1>1, DemuxInductive, PTL DEF DemuxSpec, DemuxAdvances
=============================================================================
