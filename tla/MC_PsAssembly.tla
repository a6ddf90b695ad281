--------------------------- MODULE MC_PsAssembly ---------------------------
(***************************************************************************)
(* A stream for PsAssembly: two frames and the header of a third.  The     *)
(* first is an I frame with system header, stream map and two video        *)
(* sections; the second has three video sections, one of them empty, and   *)
(* an audio section.                                                       *)
(***************************************************************************)
EXTENDS PsAssembly, TLC

Fill(n, byte) == [i \in 1 .. n |-> byte]
BigEndian(n) == <<n \div 256, n % 256>>

PackHeader(stuffing) ==
    <<0, 0, 1, 186>> \o Fill(9, 68) \o <<248 + stuffing>> \o Fill(stuffing, 255)
Section(streamId, body) == <<0, 0, 1, streamId>> \o BigEndian(Len(body)) \o body
PesBody(stuffing, data) == <<128, 0, stuffing>> \o Fill(stuffing, 255) \o data

\* SPS, then slices; the values of the data bytes tell their order.
Sps == <<0, 0, 1, 103, 66>>
Slice(a, b) == <<0, 0, 1, a, b>>

FrameA == PackHeader(1) \o Section(187, <<130, 1>>) \o Section(188, <<224, 255, 27>>)
          \o Section(224, PesBody(0, Sps)) \o Section(224, PesBody(2, Slice(101, 1)))
FrameB == PackHeader(0) \o Section(224, PesBody(0, Slice(97, 2)))
          \o Section(224, PesBody(1, <<>>)) \o Section(224, PesBody(0, Slice(97, 3)))
          \o Section(192, PesBody(0, <<9, 9>>))

\* The bytes of a frame from position i up to j.
Cut(frame, i, j) == SubSeq(frame, i + 1, j)

\* The cuts are before the stuffing of a video section, behind a pack header, and in a
\* payload.
CutA == Len(FrameA) - 7
CutB1 == 14
CutB2 == 25
StreamPayload ==
    0 :> Cut(FrameA, 0, CutA) @@ 1 :> Cut(FrameA, CutA, Len(FrameA))
    @@ 2 :> Cut(FrameB, 0, CutB1) @@ 3 :> Cut(FrameB, CutB1, CutB2)
    @@ 4 :> Cut(FrameB, CutB2, Len(FrameB)) @@ 5 :> PackHeader(0)
StreamVideo ==
    0 :> (Sps \o Slice(101, 1)) @@ 2 :> (Slice(97, 2) \o Slice(97, 3)) @@ 5 :> <<>>
=============================================================================
