-------------------------- MODULE PsAssembly_proofs --------------------------
(***************************************************************************)
(* Proofs about the packet path with the demultiplexer: whatever is        *)
(* queued, GetH264FromPs works on a sequence of bytes and stays inside it; *)
(* and if the camera sends program streams, it takes from every node that  *)
(* is not marked as lost exactly the H.264 data the camera put into it.    *)
(***************************************************************************)
EXTENDS PsAssembly, RtpAssembly_proofs, PsDemux_proofs, FiniteSetTheorems

-----------------------------------------------------------------------------
(* What a camera sends.                                                    *)

\* Bytes i to end of b are a section: a start code, a stream id, and a length that leads
\* to the end.  The stuffing of a video section ends inside the section.
Section(b, i, end) ==
    /\ i + SectionHead <= end
    /\ b[i + 1] = 0 /\ b[i + 2] = 0 /\ b[i + 3] = 1
    /\ end = i + SectionHead + (256 * b[i + 5] + b[i + 6])
    /\ b[i + 4] = 224 => i + PesHead <= end /\ i + PesHead + b[i + PesHead] <= end

\* The H.264 data in it.
VideoData(b, i, end) ==
    IF b[i + 4] = 224 THEN SubSeq(b, i + PesHead + b[i + PesHead] + 1, end) ELSE <<>>

\* b is a pack header and n sections behind it; pos says where they begin and the last one
\* ends, and part[i] is the video data of the first i of them.  Video sections come before
\* sections the program does not know, such as audio, and mH264buf can take their data.
IsDivided(b, video, n, pos, part) ==
    /\ n \in Nat /\ pos \in [1 .. n + 1 -> 0 .. Len(b)] /\ part \in [0 .. n -> Seq(Byte)]
    /\ Len(b) >= PackHead
    /\ pos[1] = PackHead + Stuffing(b) /\ pos[n + 1] = Len(b)
    /\ \A i \in 1 .. n : Section(b, pos[i], pos[i + 1])
    /\ part[0] = <<>> /\ part[n] = video
    /\ \A i \in 1 .. n : part[i] = part[i - 1] \o VideoData(b, pos[i], pos[i + 1])
    /\ \A i \in 1 .. n : Len(part[i]) < H264FrameSizeMax
    /\ \A i, j \in 1 .. n :
          i < j /\ b[pos[i] + 4] \notin {187, 188, 224} => b[pos[j] + 4] # 224

\* The packets of every complete frame hold a pack of the program stream, and Video tells
\* its H.264 data.
PacksAreSent ==
    \A b \in Seq(Packets) : IsWholeFrame(b) =>
        \E n, pos, part : IsDivided(Bytes(b), Video[b[1]], n, pos, part)

-----------------------------------------------------------------------------
(* Gluing pieces together.                                                 *)

\* Induction over an interval: a set that holds 0, and with every number below n the
\* next, holds all up to n.  The intervals of the numbers it misses would have a smallest.
LEMMA Climb ==
    ASSUME NEW n \in Nat, NEW T, 0 \in T, \A k \in 1 .. n : k - 1 \in T => k \in T
    PROVE  0 .. n \subseteq T
<1> DEFINE R == StrictSubsetOrdering(1 .. n)
           F == {1 .. k : k \in (0 .. n) \ T}
<1>1. SUFFICES ASSUME F # {} PROVE FALSE
  OBVIOUS
<1>2. IsWellFoundedOn(R, SUBSET (1 .. n))
  <2>1. IsFiniteSet(1 .. n)
    BY FS_Interval
  <2>2. FiniteSubsetsOf(1 .. n) = SUBSET (1 .. n)
    BY <2>1, FS_FiniteSubsetsOfFinite
  <2> QED BY <2>2, FS_StrictSubsetOrderingWellFounded
<1>3. F \subseteq SUBSET (1 .. n)
  OBVIOUS
<1> HIDE DEF R
<1>4. PICK X \in F : \A Y \in F : ~ (<<Y, X>> \in R)
  BY <1>1, <1>2, <1>3, WFMin
<1>5. PICK k \in (0 .. n) \ T : X = 1 .. k
  OBVIOUS
<1>6. k - 1 \in (0 .. n) \ T
  <2>1. k \in 1 .. n /\ k - 1 \in 0 .. n
    BY <1>5
  <2> QED BY <1>5, <2>1
<1>7. 1 .. k - 1 \in F /\ 1 .. k - 1 \in SUBSET (1 .. n) /\ X \in SUBSET (1 .. n)
  BY <1>3, <1>6
<1>8. k \in 1 .. k /\ k \notin 1 .. k - 1 /\ 1 .. k - 1 \subseteq 1 .. k
  BY <1>6
<1>9. <<1 .. k - 1, X>> \in R
  BY <1>5, <1>7, <1>8 DEF R, StrictSubsetOrdering
<1> QED BY <1>4, <1>7, <1>9

\* g is what the first pieces give, glued together, for every number of them up to n.
IsGlue(g, p, n) ==
    g = [k \in 0 .. n |-> IF k = 0 THEN <<>> ELSE g[k - 1] \o p[k]]

\* The recursion of Glue has a solution.
LEMMA GlueExists ==
    ASSUME NEW p, NEW n \in Nat
    PROVE  \E g : IsGlue(g, p, n)
<1> DEFINE T == {m \in 0 .. n : \E g : IsGlue(g, p, m)}
<1>1. 0 \in T
  <2>1. IsGlue([k \in 0 .. 0 |-> <<>>], p, 0)
    BY DEF IsGlue
  <2> QED BY <2>1
<1>2. ASSUME NEW m \in 1 .. n, m - 1 \in T PROVE m \in T
  <2>1. PICK g : IsGlue(g, p, m - 1)
    BY <1>2
  <2> DEFINE h == [k \in 0 .. m |-> IF k = m THEN g[m - 1] \o p[m] ELSE g[k]]
  <2>2. ASSUME NEW k \in 0 .. m
        PROVE  h[k] = IF k = 0 THEN <<>> ELSE h[k - 1] \o p[k]
    <3>1. CASE k = 0
      BY <2>1, <3>1 DEF IsGlue
    <3>2. CASE k \in 1 .. m - 1
      <4>1. h[k] = g[k] /\ h[k - 1] = g[k - 1] /\ k \in 0 .. m - 1 /\ k # 0
        BY <3>2
      <4>2. g[k] = g[k - 1] \o p[k]
        BY <2>1, <4>1 DEF IsGlue
      <4> HIDE DEF h
      <4> QED BY <4>1, <4>2
    <3>3. CASE k = m
      BY <3>3
    <3> QED BY <3>1, <3>2, <3>3
  <2>3. h = [k \in 0 .. m |-> h[k]]
    OBVIOUS
  <2> HIDE DEF h
  <2>4. IsGlue(h, p, m)
    BY <2>2, <2>3 DEF IsGlue
  <2> QED BY <2>4
<1> HIDE DEF T
<1>3. 0 .. n \subseteq T
  BY <1>1, <1>2, Climb
<1> QED BY <1>3 DEF T

\* What every solution gives.
LEMMA GlueValues ==
    ASSUME NEW p, NEW n \in Nat, NEW g, IsGlue(g, p, n)
    PROVE  /\ g[0] = <<>>
           /\ \A k \in 1 .. n : g[k] = g[k - 1] \o p[k]
<1>1. g[0] = <<>>
  BY DEF IsGlue
<1>2. ASSUME NEW k \in 1 .. n PROVE g[k] = g[k - 1] \o p[k]
  <2>1. k \in 0 .. n /\ k # 0
    OBVIOUS
  <2> QED BY <2>1 DEF IsGlue
<1> QED BY <1>1, <1>2

\* Two functions that begin alike and go on alike are alike.
LEMMA SameValues ==
    ASSUME NEW n \in Nat, NEW g, NEW h, g[0] = h[0],
           \A k \in 1 .. n : g[k - 1] = h[k - 1] => g[k] = h[k]
    PROVE  g[n] = h[n]
<1> DEFINE T == {k \in 0 .. n : g[k] = h[k]}
<1>1. \A k \in 1 .. n : k - 1 \in T => k \in T
  OBVIOUS
<1>2. 0 \in T
  OBVIOUS
<1> HIDE DEF T
<1>3. 0 .. n \subseteq T
  BY <1>1, <1>2, Climb
<1> QED BY <1>3 DEF T

\* Glue is the last value of a solution.
LEMMA GlueIs ==
    ASSUME NEW p, Len(p) \in Nat
    PROVE  \E g : IsGlue(g, p, Len(p)) /\ Glue(p) = g[Len(p)]
<1> DEFINE g == CHOOSE g : IsGlue(g, p, Len(p))
<1>1. IsGlue(g, p, Len(p))
  BY GlueExists
<1>2. Glue(p) = g[Len(p)]
  BY DEF Glue, IsGlue
<1> HIDE DEF g
<1> QED BY <1>1, <1>2

\* What there is to glue.
Pieces == Seq(Seq(Byte))

\* What is glued of pieces of bytes is bytes.
LEMMA GlueType ==
    ASSUME NEW p \in Pieces
    PROVE  Glue(p) \in Seq(Byte)
<1>0. Len(p) \in Nat /\ \A k \in 1 .. Len(p) : p[k] \in Seq(Byte)
  BY DEF Pieces
<1>1. PICK g : IsGlue(g, p, Len(p)) /\ Glue(p) = g[Len(p)]
  BY <1>0, GlueIs
<1>2. g[0] = <<>> /\ \A k \in 1 .. Len(p) : g[k] = g[k - 1] \o p[k]
  BY <1>0, <1>1, GlueValues
<1> DEFINE T == {k \in 0 .. Len(p) : g[k] \in Seq(Byte)}
<1>3. 0 \in T
  <2>1. 0 \in 0 .. Len(p)
    BY <1>0
  <2> QED BY <1>2, <2>1, EmptySeq
<1>4. ASSUME NEW k \in 1 .. Len(p), k - 1 \in T PROVE k \in T
  <2>1. k \in 0 .. Len(p)
    BY <1>0
  <2>2. g[k - 1] \in Seq(Byte) /\ p[k] \in Seq(Byte)
    BY <1>0, <1>4
  <2>3. g[k - 1] \o p[k] \in Seq(Byte)
    BY <2>2, ConcatProperties
  <2> QED BY <1>2, <2>1, <2>3
<1> HIDE DEF T
<1>5. 0 .. Len(p) \subseteq T
  BY <1>0, <1>3, <1>4, Climb
<1> QED BY <1>0, <1>1, <1>5 DEF T

\* Nothing glued is nothing.
LEMMA GlueEmpty == ASSUME NEW p, Len(p) = 0 PROVE Glue(p) = <<>>
<1>1. PICK g : IsGlue(g, p, 0) /\ Glue(p) = g[0]
  BY GlueIs
<1>2. g[0] = <<>>
  BY <1>1 DEF IsGlue
<1> QED BY <1>1, <1>2

\* One more piece comes to the end.
LEMMA GlueAppend ==
    ASSUME NEW p \in Pieces, NEW s \in Seq(Byte)
    PROVE  Glue(Append(p, s)) = Glue(p) \o s
<1> DEFINE more == Append(p, s)
           last == Len(p) + 1
<1>1. /\ Len(p) \in Nat /\ Len(more) = last /\ more[last] = s
      /\ \A k \in 1 .. Len(p) : p[k] = more[k]
  BY AppendProperties DEF Pieces
<1>2. last \in Nat /\ Len(p) <= last /\ last \in 1 .. last /\ last - 1 = Len(p)
  BY <1>1
<1> HIDE DEF more, last
<1>3. PICK g : IsGlue(g, p, Len(p)) /\ Glue(p) = g[Len(p)]
  BY <1>1, GlueIs
<1>4. PICK h : IsGlue(h, more, last) /\ Glue(more) = h[last]
  BY <1>1, <1>2, GlueIs
<1>5. /\ g[0] = <<>> /\ h[0] = <<>>
      /\ \A k \in 1 .. Len(p) : g[k] = g[k - 1] \o p[k]
      /\ \A k \in 1 .. last : h[k] = h[k - 1] \o more[k]
  BY <1>1, <1>2, <1>3, <1>4, GlueValues
<1>6. ASSUME NEW k \in 1 .. Len(p), g[k - 1] = h[k - 1] PROVE g[k] = h[k]
  <2>1. k \in 1 .. last
    BY <1>1, <1>2
  <2> QED BY <1>1, <1>5, <1>6, <2>1
<1>7. g[Len(p)] = h[Len(p)]
  BY <1>1, <1>5, <1>6, SameValues
<1>8. h[last] = h[Len(p)] \o s
  BY <1>1, <1>2, <1>5
<1> QED BY <1>3, <1>4, <1>7, <1>8 DEF more
-----------------------------------------------------------------------------
(* What mH264buf holds.                                                    *)

\* The bytes memcpy c takes from buffer b.
Cut(b, c) == SubSeq(b, c.from + 1, c.from + c.len)

\* What the memcpys cs take from b.
PiecesOf(b, cs) == [i \in 1 .. Len(cs) |-> Cut(b, cs[i])]

\* A part of a buffer is a sequence of bytes.
LEMMA CutType ==
    ASSUME NEW b \in Seq(Byte), NEW m \in Nat, NEW n \in Nat, n <= Len(b)
    PROVE  /\ SubSeq(b, m + 1, n) \in Seq(Byte)
           /\ m <= n => Len(SubSeq(b, m + 1, n)) = n - m
<1>1. /\ m + 1 \in Int /\ n \in Int
      /\ \A i \in m + 1 .. n : b[i] \in Byte
  OBVIOUS
<1>2. /\ SubSeq(b, m + 1, n) \in Seq(Byte)
      /\ Len(SubSeq(b, m + 1, n)) = IF m + 1 <= n THEN n - (m + 1) + 1 ELSE 0
  BY <1>1, SubSeqProperties
<1> QED BY <1>2

\* One more memcpy puts its bytes behind what is in mH264buf.
LEMMA CopiesGrow ==
    ASSUME NEW b \in Seq(Byte), NEW cs \in Seq(Copies), NEW c \in Copies,
           \A i \in 1 .. Len(cs) : cs[i].from + cs[i].len <= Len(b),
           c.from + c.len <= Len(b)
    PROVE  Glue(PiecesOf(b, Append(cs, c))) = Glue(PiecesOf(b, cs)) \o Cut(b, c)
<1> DEFINE p == PiecesOf(b, cs)
           q == PiecesOf(b, Append(cs, c))
<1>1. \A d \in Copies : d.from \in Nat /\ d.len \in Nat /\ d.from + d.len \in Nat
  BY DEF Copies
<1>2. /\ Len(cs) \in Nat /\ Len(Append(cs, c)) = Len(cs) + 1
      /\ \A i \in 1 .. Len(cs) : Append(cs, c)[i] = cs[i] /\ cs[i] \in Copies
      /\ Append(cs, c)[Len(cs) + 1] = c
  BY AppendProperties
<1>3. \A i \in 1 .. Len(cs) : Cut(b, cs[i]) \in Seq(Byte)
  BY <1>1, <1>2, CutType DEF Cut
<1>4. Cut(b, c) \in Seq(Byte)
  BY <1>1, CutType DEF Cut
<1>5. p \in Pieces /\ Len(p) = Len(cs)
  BY <1>2, <1>3 DEF Pieces, PiecesOf
<1>6. q = Append(p, Cut(b, c))
  <2>1. q \in Pieces /\ Len(q) = Len(cs) + 1
    <3>1. \A i \in 1 .. Len(cs) + 1 : i \in 1 .. Len(cs) \/ i = Len(cs) + 1
      BY <1>2
    <3>2. \A i \in 1 .. Len(cs) + 1 : Cut(b, Append(cs, c)[i]) \in Seq(Byte)
      BY <1>2, <1>3, <1>4, <3>1
    <3>3. q = [i \in 1 .. Len(cs) + 1 |-> Cut(b, Append(cs, c)[i])]
      BY <1>2 DEF PiecesOf
    <3> HIDE DEF q
    <3> QED BY <1>2, <3>2, <3>3 DEF Pieces
  <2>2. Append(p, Cut(b, c)) \in Pieces /\ Len(Append(p, Cut(b, c))) = Len(cs) + 1
    BY <1>4, <1>5, AppendProperties DEF Pieces
  <2>3. ASSUME NEW i \in 1 .. Len(cs) + 1 PROVE q[i] = Append(p, Cut(b, c))[i]
    <3>1. CASE i \in 1 .. Len(cs)
      <4>1. q[i] = Cut(b, cs[i]) /\ p[i] = Cut(b, cs[i])
        BY <1>2, <3>1 DEF PiecesOf
      <4>2. Append(p, Cut(b, c))[i] = p[i]
        BY <1>4, <1>5, <3>1, AppendProperties DEF Pieces
      <4> QED BY <4>1, <4>2
    <3>2. CASE i = Len(cs) + 1
      <4>1. i \in 1 .. Len(Append(cs, c)) /\ q[i] = Cut(b, Append(cs, c)[i])
        BY <1>2, <3>2 DEF PiecesOf
      <4>2. Append(p, Cut(b, c))[i] = Cut(b, c)
        BY <1>4, <1>5, <3>2, AppendProperties DEF Pieces
      <4>3. Append(cs, c)[i] = c
        BY <1>2, <3>2
      <4> HIDE DEF p, q
      <4> QED BY <4>1, <4>2, <4>3
    <3>3. i \in 1 .. Len(cs) \/ i = Len(cs) + 1
      BY <1>2
    <3> HIDE DEF p, q
    <3> QED BY ONLY <3>1, <3>2, <3>3
  <2> HIDE DEF p, q
  <2> QED BY <2>1, <2>2, <2>3, SeqEqual DEF Pieces
<1> HIDE DEF p
<1>7. Glue(Append(p, Cut(b, c))) = Glue(p) \o Cut(b, c)
  BY <1>4, <1>5, GlueAppend
<1> QED BY <1>6, <1>7 DEF p

-----------------------------------------------------------------------------
(* The demultiplexer on a pack it can follow.                              *)

\* Where it stands: in the loop at the beginning of a section, with the video data of the
\* sections before it copied; when it is done, with all of it.
OnTrack(video) ==
    /\ at = "loop" =>
          \E n, pos, part :
             /\ IsDivided(buffer, video, n, pos, part)
             /\ \E i \in 1 .. n : /\ next = pos[i]
                                  /\ Copied = part[i - 1]
                                  /\ h264length = Len(part[i - 1])
    /\ at = "done" => Copied = video
    /\ at # "crashed"

\* Copied in terms of the lemmas above.
LEMMA CopiedIs == Copied = Glue(PiecesOf(buffer, copies))
BY DEF Copied, PiecesOf, Cut

\* What is known of one section.
LEMMA SectionFacts ==
    ASSUME NEW b \in Seq(Byte), NEW video, NEW n, NEW pos, NEW part,
           IsDivided(b, video, n, pos, part), NEW i \in 1 .. n
    PROVE  /\ n \in Nat /\ i + 1 \in 1 .. n + 1
           /\ pos[i] \in Nat /\ pos[i + 1] \in Nat /\ pos[i + 1] <= Len(b) /\ Len(b) \in Nat
           /\ Section(b, pos[i], pos[i + 1])
           /\ part[i - 1] \in Seq(Byte) /\ part[i] \in Seq(Byte)
           /\ part[i] = part[i - 1] \o VideoData(b, pos[i], pos[i + 1])
           /\ Len(part[i]) < H264FrameSizeMax
<1>1. /\ n \in Nat /\ pos \in [1 .. n + 1 -> 0 .. Len(b)] /\ part \in [0 .. n -> Seq(Byte)]
      /\ Section(b, pos[i], pos[i + 1])
      /\ part[i] = part[i - 1] \o VideoData(b, pos[i], pos[i + 1])
      /\ Len(part[i]) < H264FrameSizeMax
  BY DEF IsDivided
<1>2. i \in 1 .. n + 1 /\ i + 1 \in 1 .. n + 1 /\ i \in 0 .. n /\ i - 1 \in 0 .. n
  BY <1>1
<1>3. pos[i] \in 0 .. Len(b) /\ pos[i + 1] \in 0 .. Len(b) /\ Len(b) \in Nat
  BY <1>1, <1>2
<1>4. part[i - 1] \in Seq(Byte) /\ part[i] \in Seq(Byte)
  BY <1>1, <1>2
<1>5. pos[i] \in Nat /\ pos[i + 1] \in Nat /\ pos[i + 1] <= Len(b)
  BY <1>3
<1> QED BY <1>1, <1>2, <1>3, <1>4, <1>5

\* A section that is not video adds nothing.
LEMMA SilentSection ==
    ASSUME NEW b \in Seq(Byte), NEW video, NEW n, NEW pos, NEW part,
           IsDivided(b, video, n, pos, part), NEW i \in 1 .. n, b[pos[i] + 4] # 224
    PROVE  part[i] = part[i - 1]
<1>1. part[i] = part[i - 1] \o VideoData(b, pos[i], pos[i + 1])
  BY DEF IsDivided
<1>2. VideoData(b, pos[i], pos[i + 1]) = <<>>
  BY DEF VideoData
<1>3. part[i - 1] \in Seq(Byte)
  BY SectionFacts
<1>4. part[i - 1] \o <<>> = part[i - 1]
  BY <1>3, ConcatEmptySeq
<1> QED BY <1>1, <1>2, <1>4

\* Behind the first section the program does not know there is no video data.
LEMMA RestIsSilent ==
    ASSUME NEW b \in Seq(Byte), NEW video, NEW n, NEW pos, NEW part,
           IsDivided(b, video, n, pos, part), NEW i \in 1 .. n,
           b[pos[i] + 4] \notin {187, 188, 224}
    PROVE  part[i - 1] = video
<1> DEFINE T == {k \in 0 .. n : k < i \/ part[k] = part[i - 1]}
<1>0. /\ n \in Nat /\ part[n] = video
      /\ \A k, j \in 1 .. n :
            k < j /\ b[pos[k] + 4] \notin {187, 188, 224} => b[pos[j] + 4] # 224
  BY DEF IsDivided
<1>1. n \in Nat /\ part[n] = video /\ \A j \in 1 .. n : i < j => b[pos[j] + 4] # 224
  BY <1>0
<1>2. ASSUME NEW k \in 1 .. n, k - 1 \in T PROVE k \in T
  <2>1. CASE k < i
    BY <1>1, <2>1
  <2>2. CASE k >= i
    <3>1. b[pos[k] + 4] # 224
      <4>1. CASE k = i
        BY <4>1
      <4>2. CASE i < k
        BY <1>1, <4>2
      <4> QED BY <1>1, <2>2, <4>1, <4>2
    <3>2. part[k] = part[k - 1]
      BY <3>1, SilentSection
    <3>3. part[k - 1] = part[i - 1]
      <4>1. CASE k = i
        BY <4>1
      <4>2. CASE i < k
        <5>1. ~(k - 1 < i)
          BY <4>2
        <5> QED BY <1>2, <5>1
      <4> QED BY <1>1, <2>2, <4>1, <4>2
    <3> QED BY <1>1, <3>2, <3>3
  <2> QED BY <1>1, <2>1, <2>2
<1>3. 0 \in T
  BY <1>1
<1> HIDE DEF T
<1>4. 0 .. n \subseteq T
  BY <1>1, <1>2, <1>3, Climb
<1>5. n \in T /\ ~(n < i)
  BY <1>1, <1>4
<1> QED BY <1>1, <1>5 DEF T

\* The pointers move to the next section, or the loop ends behind the last one.
LEMMA AdvanceOnTrack ==
    ASSUME NEW video, NEW n, NEW pos, NEW part,
           buffer \in Seq(Byte), IsDivided(buffer, video, n, pos, part),
           NEW i \in 1 .. n, next = pos[i], Advance(Length(next + 4))
    PROVE  \/ at' = "loop" /\ i + 1 \in 1 .. n /\ next' = pos[i + 1]
           \/ at' = "done" /\ i = n
<1>1. /\ n \in Nat /\ i + 1 \in 1 .. n + 1 /\ Len(buffer) \in Nat
      /\ pos[i] \in Nat /\ pos[i + 1] \in Nat /\ pos[i + 1] <= Len(buffer)
      /\ Section(buffer, pos[i], pos[i + 1])
  BY SectionFacts
<1>2. SectionEnd(Length(next + 4)) = pos[i + 1]
  <2>1. pos[i + 1] = pos[i] + 6 + (256 * buffer[pos[i] + 5] + buffer[pos[i] + 6])
    BY <1>1 DEF Section, SectionHead
  <2>2. Length(next + 4) = 256 * buffer[pos[i] + 5] + buffer[pos[i] + 6]
    <3>1. next + 4 + 1 = pos[i] + 5 /\ next + 4 + 2 = pos[i] + 6
      BY <1>1
    <3>2. Length(next + 4) = 256 * buffer[next + 4 + 1] + buffer[next + 4 + 2]
      BY DEF Length
    <3> QED BY <3>1, <3>2
  <2>3. pos[i] + 5 \in 1 .. Len(buffer) /\ pos[i] + 6 \in 1 .. Len(buffer)
    <3>1. pos[i] + 6 <= pos[i + 1]
      BY <1>1 DEF Section, SectionHead
    <3> QED BY <1>1, <3>1
  <2>4. buffer[pos[i] + 5] \in Byte /\ buffer[pos[i] + 6] \in Byte
    BY <2>3
  <2>5. 256 * buffer[pos[i] + 5] + buffer[pos[i] + 6] \in Nat
    <3>1. \A x, y \in 0 .. 255 : 256 * x + y \in Nat
      OBVIOUS
    <3> QED BY <2>4, <3>1 DEF Byte
  <2> DEFINE len == 256 * buffer[pos[i] + 5] + buffer[pos[i] + 6]
  <2> HIDE DEF len
  <2>6. len \in Nat /\ Length(next + 4) = len /\ pos[i + 1] = pos[i] + 6 + len
    BY <2>1, <2>2, <2>5 DEF len
  <2> QED BY <1>1, <2>6 DEF SectionEnd, SectionHead
<1>3. /\ left' = Len(buffer) - pos[i + 1]
      /\ IF left' > 0 THEN next' = pos[i + 1] /\ at' = "loop" ELSE at' = "done"
  BY <1>2 DEF Advance
<1>4. CASE left' > 0
  <2>1. i # n
    BY <1>1, <1>3, <1>4 DEF IsDivided
  <2> QED BY <1>1, <1>3, <1>4, <2>1
<1>5. CASE ~(left' > 0)
  <2>1. pos[i + 1] = Len(buffer)
    BY <1>1, <1>3, <1>5
  <2>2. ASSUME i # n PROVE FALSE
    <3>1. PICK k \in 1 .. n : k = i + 1
      BY <1>1, <2>2
    <3>2. pos[k + 1] \in Nat /\ pos[k + 1] <= Len(buffer) /\ Section(buffer, pos[k], pos[k + 1])
      BY SectionFacts
    <3>3. pos[k] = Len(buffer)
      BY <2>1, <3>1
    <3> QED BY <1>1, <3>2, <3>3 DEF Section, SectionHead
  <2> QED BY <1>3, <1>5, <2>2
<1> QED BY <1>4, <1>5

\* Before the first memcpy there is nothing in mH264buf.
LEMMA NothingCopied == ASSUME NEW b PROVE Glue(PiecesOf(b, <<>>)) = <<>>
<1> DEFINE none == <<>>
<1>1. Len(none) = 0
  BY EmptySeq
<1> HIDE DEF none
<1>2. Len(PiecesOf(b, none)) = 0
  <2>1. PiecesOf(b, none) = [i \in 1 .. 0 |-> Cut(b, none[i])]
    BY <1>1 DEF PiecesOf
  <2>2. \A f : f = [i \in 1 .. 0 |-> Cut(b, none[i])] => Len(f) = 0
    OBVIOUS
  <2> QED BY <2>1, <2>2
<1>3. Glue(PiecesOf(b, none)) = <<>>
  BY <1>2, GlueEmpty
<1> QED BY <1>3 DEF none

\* The call finds the first section, or no section at all.
LEMMA CallOnTrack ==
    ASSUME NEW b \in Seq(Byte), NEW video,
           \E n, pos, part : IsDivided(b, video, n, pos, part), GetH264FromPs(b)
    PROVE  OnTrack(video)'
<1>1. PICK n, pos, part : IsDivided(b, video, n, pos, part)
  OBVIOUS
<1>2. /\ n \in Nat /\ Len(b) \in Nat /\ Len(b) >= 14
      /\ pos[1] = 14 + Stuffing(b) /\ pos[n + 1] = Len(b)
      /\ part[0] = <<>> /\ part[n] = video
  <2>1. Len(b) \in Nat /\ PackHead = 14
    BY DEF PackHead
  <2>2. /\ n \in Nat /\ Len(b) >= PackHead
        /\ pos[1] = PackHead + Stuffing(b) /\ pos[n + 1] = Len(b)
        /\ part[0] = <<>> /\ part[n] = video
    BY <1>1 DEF IsDivided
  <2> QED BY <2>1, <2>2
<1>3. Stuffing(b) \in Nat
  <2>1. 14 \in 1 .. Len(b)
    BY <1>2
  <2>2. b[14] \in Byte
    BY <2>1
  <2>3. \A x \in 0 .. 255 : x % 8 \in Nat
    OBVIOUS
  <2>4. b[14] % 8 \in Nat
    BY <2>2, <2>3 DEF Byte
  <2> QED BY <2>4 DEF Stuffing, PackHead
<1>4. buffer' = b /\ copies' = <<>> /\ h264length' = 0
  BY DEF GetH264FromPs
<1>5. Copied' = <<>>
  <2>1. Copied' = Glue(PiecesOf(buffer', copies'))
    BY DEF Copied, PiecesOf, Cut
  <2> QED BY <1>4, <2>1, NothingCopied
<1>6. CASE n = 0
  <2>1. ~(Len(b) - PackHead - Stuffing(b) >= 4)
    BY <1>2, <1>3, <1>6 DEF PackHead
  <2>2. at' = "done"
    BY <2>1 DEF GetH264FromPs
  <2> QED BY <1>2, <1>5, <1>6, <2>2 DEF OnTrack
<1>7. CASE n # 0
  <2>1. 1 \in 1 .. n
    BY <1>2, <1>7
  <2>2. pos[1] + 6 <= Len(b)
    <3>1. PICK i \in 1 .. n : i = 1
      BY <2>1
    <3>2. /\ pos[i] \in Nat /\ pos[i + 1] \in Nat /\ pos[i + 1] <= Len(b)
          /\ Section(b, pos[i], pos[i + 1])
      BY <1>1, SectionFacts
    <3>3. pos[i] + 6 <= pos[i + 1]
      BY <3>2 DEF Section, SectionHead
    <3> QED BY <1>2, <3>1, <3>2, <3>3
  <2>3. /\ Len(b) >= PackHead /\ Len(b) - PackHead - Stuffing(b) >= 4
        /\ Len(b) - (Len(b) - PackHead - Stuffing(b)) = pos[1]
    BY <1>2, <1>3, <2>2 DEF PackHead
  <2>4. at' = "loop" /\ next' = pos[1]
    BY <2>3 DEF GetH264FromPs
  <2>5. next' = pos[1] /\ Copied' = part[1 - 1] /\ h264length' = Len(part[1 - 1])
    BY <1>2, <1>4, <1>5, <2>4
  <2>6. \E i \in 1 .. n : next' = pos[i] /\ Copied' = part[i - 1] /\ h264length' = Len(part[i - 1])
    BY <2>1, <2>5
  <2>7. IsDivided(buffer', video, n, pos, part)
    BY <1>1, <1>4
  <2> QED BY <2>4, <2>6, <2>7 DEF OnTrack
<1> QED BY <1>6, <1>7

\* A turn that leaves the i-th section behind, with its data copied, stays on track.
LEMMA NextSection ==
    ASSUME NEW video, NEW n, NEW pos, NEW part,
           buffer \in Seq(Byte), IsDivided(buffer, video, n, pos, part),
           NEW i \in 1 .. n, next = pos[i], Advance(Length(next + 4)), UNCHANGED buffer,
           Copied' = part[i], h264length' = Len(part[i])
    PROVE  OnTrack(video)'
<1>1. CASE at' = "loop" /\ i + 1 \in 1 .. n /\ next' = pos[i + 1]
  <2>1. next' = pos[i + 1] /\ Copied' = part[i + 1 - 1] /\ h264length' = Len(part[i + 1 - 1])
    <3>1. i + 1 - 1 = i
      OBVIOUS
    <3> QED BY <1>1, <3>1
  <2>2. \E j \in 1 .. n : next' = pos[j] /\ Copied' = part[j - 1] /\ h264length' = Len(part[j - 1])
    BY <1>1, <2>1
  <2>3. IsDivided(buffer', video, n, pos, part)
    OBVIOUS
  <2> QED BY <1>1, <2>2, <2>3 DEF OnTrack
<1>2. CASE at' = "done" /\ i = n
  <2>1. part[n] = video
    BY DEF IsDivided
  <2> QED BY <1>2, <2>1 DEF OnTrack
<1> QED BY <1>1, <1>2, AdvanceOnTrack

\* A section that is no video section is passed over.
LEMMA SkipOnTrack ==
    ASSUME DemuxInv, NEW video, OnTrack(video), SkipSection
    PROVE  OnTrack(video)'
<1>1. /\ at = "loop" /\ UNCHANGED <<buffer, copies, h264length>>
      /\ StartsWith(187) \/ StartsWith(188)
  BY DEF SkipSection, InLoop
<1>2. buffer \in Seq(Byte) /\ next \in Nat /\ next + left = Len(buffer) /\ left \in Int
  BY <1>1 DEF DemuxInv, DemuxTypeOK
<1>3. PICK n, pos, part :
          /\ IsDivided(buffer, video, n, pos, part)
          /\ \E i \in 1 .. n : /\ next = pos[i]
                               /\ Copied = part[i - 1]
                               /\ h264length = Len(part[i - 1])
  BY <1>1 DEF OnTrack
<1>4. PICK i \in 1 .. n : next = pos[i] /\ Copied = part[i - 1] /\ h264length = Len(part[i - 1])
  BY <1>3
<1>5. /\ pos[i + 1] \in Nat /\ pos[i + 1] <= Len(buffer) /\ Len(buffer) \in Nat
      /\ Section(buffer, pos[i], pos[i + 1])
  BY <1>2, <1>3, SectionFacts
<1>6. part[i] = part[i - 1]
  <2>1. buffer[pos[i] + 4] # 224
    BY <1>1, <1>4 DEF StartsWith
  <2> QED BY <1>2, <1>3, <2>1, SilentSection
<1>7. ~(left < SectionHead)
  BY <1>2, <1>4, <1>5 DEF Section, SectionHead
<1>8. Advance(Length(next + 4))
  BY <1>7 DEF SkipSection
<1>9. Copied' = Copied
  BY <1>1 DEF Copied
<1> QED BY <1>1, <1>2, <1>3, <1>4, <1>6, <1>8, <1>9, NextSection

\* A video section is copied as a whole: its stuffing ends inside it, the payload is not
\* clipped, and mH264buf has room for it.
LEMMA PesOnTrack ==
    ASSUME DemuxInv, NEW video, OnTrack(video), Pes
    PROVE  OnTrack(video)'
<1> DEFINE stuffing == buffer[next + PesHead]
           from == next + PesHead + stuffing
           len == Length(next + 4) - 2 - 1 - stuffing
<1>1. at = "loop" /\ UNCHANGED buffer /\ StartsWith(224)
  BY DEF Pes, InLoop
<1>2. /\ buffer \in Seq(Byte) /\ next \in Nat /\ h264length \in Nat /\ copies \in Seq(Copies)
      /\ H264FrameSizeMax \in Nat
  BY <1>1, DemuxAssumption DEF DemuxInv, DemuxTypeOK, DemuxAssumption
<1>3. PICK n, pos, part :
          /\ IsDivided(buffer, video, n, pos, part)
          /\ \E i \in 1 .. n : /\ next = pos[i]
                               /\ Copied = part[i - 1]
                               /\ h264length = Len(part[i - 1])
  BY <1>1 DEF OnTrack
<1>4. PICK i \in 1 .. n : next = pos[i] /\ Copied = part[i - 1] /\ h264length = Len(part[i - 1])
  BY <1>3
<1> DEFINE end == pos[i + 1]
<1>5. /\ end \in Nat /\ end <= Len(buffer) /\ Len(buffer) \in Nat
      /\ Section(buffer, next, end)
      /\ part[i - 1] \in Seq(Byte) /\ part[i] \in Seq(Byte)
      /\ Len(part[i]) < H264FrameSizeMax
  BY <1>2, <1>3, <1>4, SectionFacts
<1>6. part[i] = part[i - 1] \o VideoData(buffer, next, end)
  BY <1>3, <1>4 DEF IsDivided
<1>7. buffer[next + 4] = 224
  BY <1>1 DEF StartsWith
<1>8. next + 9 \in 1 .. Len(buffer) /\ next + 5 \in 1 .. Len(buffer) /\ next + 6 \in 1 .. Len(buffer)
  <2>1. next + 9 <= end
    BY <1>5, <1>7 DEF Section, PesHead
  <2> QED BY <1>2, <1>5, <2>1
<1>9. stuffing \in Nat /\ stuffing = buffer[next + 9]
  <2>1. buffer[next + 9] \in Byte
    BY <1>2, <1>8
  <2> QED BY <2>1 DEF Byte, PesHead
<1>10. Length(next + 4) \in Nat /\ end = next + 6 + Length(next + 4)
  <2>1. next + 4 + 1 = next + 5 /\ next + 4 + 2 = next + 6
    BY <1>2
  <2>2. Length(next + 4) = 256 * buffer[next + 5] + buffer[next + 6]
    <3>1. Length(next + 4) = 256 * buffer[next + 4 + 1] + buffer[next + 4 + 2]
      BY DEF Length
    <3> QED BY <2>1, <3>1
  <2>3. buffer[next + 5] \in Byte /\ buffer[next + 6] \in Byte
    BY <1>2, <1>8
  <2>4. \A x, y \in 0 .. 255 : 256 * x + y \in Nat
    OBVIOUS
  <2>5. end = next + SectionHead + (256 * buffer[next + 5] + buffer[next + 6])
    BY <1>5 DEF Section
  <2> QED BY <2>2, <2>3, <2>4, <2>5 DEF Byte, SectionHead
<1>11. from = next + 9 + stuffing /\ from \in Nat /\ from <= end
  <2>1. next + PesHead + buffer[next + PesHead] <= end
    BY <1>5, <1>7 DEF Section
  <2>2. from = next + 9 + stuffing
    BY DEF PesHead
  <2> HIDE DEF stuffing
  <2>3. from \in Nat
    BY <1>2, <1>9, <2>2
  <2> QED BY <2>1, <2>2, <2>3 DEF stuffing
<1>12. len \in Nat /\ from + len = end
  <2> DEFINE total == Length(next + 4)
  <2>1. total \in Nat /\ end = next + 6 + total /\ len = total - 2 - 1 - stuffing
    BY <1>10
  <2>2. stuffing \in Nat /\ from = next + 9 + stuffing /\ from <= end
    BY <1>9, <1>11
  <2> HIDE DEF stuffing, from, end, len, total
  <2> QED BY <1>2, <2>1, <2>2
<1>13. VideoData(buffer, next, end) = SubSeq(buffer, from + 1, end)
  BY <1>7 DEF VideoData
<1>14. \/ (Memcpy(from, len) \/ NoMemcpy(len)) /\ Advance(Length(next + 4))
       \/ MemcpyCrashes(from, len)
  BY DEF Pes
<1> HIDE DEF stuffing, from, len, end
<1>15. /\ SubSeq(buffer, from + 1, end) \in Seq(Byte)
       /\ Len(SubSeq(buffer, from + 1, end)) = len
  <2>1. /\ SubSeq(buffer, from + 1, end) \in Seq(Byte)
        /\ Len(SubSeq(buffer, from + 1, end)) = end - from
    BY <1>2, <1>5, <1>11, CutType
  <2> QED BY <1>5, <1>11, <1>12, <2>1
<1>16. h264length + len = Len(part[i])
  BY <1>4, <1>5, <1>6, <1>13, <1>15, ConcatProperties
<1>17. Clipped(from, len) = len
  <2>1. ~(len + from > Len(buffer))
    BY <1>5, <1>11, <1>12
  <2> QED BY <2>1 DEF Clipped
<1>18. ~MemcpyCrashes(from, len)
  BY <1>12, <1>17 DEF MemcpyCrashes
<1>19. CASE Memcpy(from, len)
  <2> DEFINE c == [from |-> from, len |-> len]
  <2>1. copies' = Append(copies, c) /\ h264length' = h264length + len
    BY <1>17, <1>19 DEF Memcpy
  <2>2. c \in Copies /\ c.from = from /\ c.len = len
    BY <1>11, <1>12 DEF Copies
  <2> HIDE DEF c
  <2>3. \A j \in 1 .. Len(copies) : copies[j].from + copies[j].len <= Len(buffer)
    BY DEF DemuxInv
  <2>4. c.from + c.len <= Len(buffer)
    BY <1>5, <1>12, <2>2
  <2>5. Cut(buffer, c) = SubSeq(buffer, from + 1, end)
    BY <1>12, <2>2 DEF Cut
  <2>6. Copied' = Copied \o Cut(buffer, c)
    <3>1. Copied' = Glue(PiecesOf(buffer', copies'))
      BY DEF Copied, PiecesOf, Cut
    <3>2. Glue(PiecesOf(buffer, Append(copies, c))) = Glue(PiecesOf(buffer, copies)) \o Cut(buffer, c)
      BY <1>2, <2>2, <2>3, <2>4, CopiesGrow
    <3> QED BY <1>1, <2>1, <3>1, <3>2, CopiedIs
  <2>7. Copied' = part[i]
    BY <1>4, <1>6, <1>13, <2>5, <2>6
  <2>8. h264length' = Len(part[i])
    BY <1>16, <2>1
  <2> QED BY <1>1, <1>2, <1>3, <1>4, <1>14, <1>18, <2>7, <2>8, NextSection
<1>20. CASE NoMemcpy(len)
  <2>1. len = 0 /\ UNCHANGED <<copies, h264length>>
    <3>1. ~(len + h264length >= H264FrameSizeMax)
      BY <1>2, <1>5, <1>12, <1>16
    <3> QED BY <1>20, <3>1 DEF NoMemcpy
  <2>2. SubSeq(buffer, from + 1, end) = <<>>
    BY <1>15, <2>1, EmptySeq
  <2>3. part[i] = part[i - 1]
    BY <1>5, <1>6, <1>13, <2>2, ConcatEmptySeq
  <2>4. Copied' = Copied
    BY <1>1, <2>1 DEF Copied
  <2> QED BY <1>1, <1>2, <1>3, <1>4, <1>14, <1>18, <2>1, <2>3, <2>4, NextSection
<1> QED BY <1>14, <1>18, <1>19, <1>20

\* The loop is left only at a section behind which there is no video data.
LEMMA BreakOnTrack ==
    ASSUME DemuxInv, NEW video, OnTrack(video), Break
    PROVE  OnTrack(video)'
<1>1. at = "loop" /\ at' = "done" /\ UNCHANGED <<buffer, copies>>
  BY DEF Break
<1>2. buffer \in Seq(Byte) /\ next \in Nat /\ next + left = Len(buffer) /\ left \in Int
  BY <1>1 DEF DemuxInv, DemuxTypeOK
<1>3. PICK n, pos, part :
          /\ IsDivided(buffer, video, n, pos, part)
          /\ \E i \in 1 .. n : /\ next = pos[i]
                               /\ Copied = part[i - 1]
                               /\ h264length = Len(part[i - 1])
  BY <1>1 DEF OnTrack
<1>4. PICK i \in 1 .. n : next = pos[i] /\ Copied = part[i - 1] /\ h264length = Len(part[i - 1])
  BY <1>3
<1>5. /\ pos[i + 1] \in Nat /\ pos[i + 1] <= Len(buffer) /\ Len(buffer) \in Nat
      /\ Section(buffer, next, pos[i + 1])
  BY <1>2, <1>3, <1>4, SectionFacts
<1>6. left >= 6
  <2>1. next + 6 <= pos[i + 1]
    BY <1>5 DEF Section, SectionHead
  <2> QED BY <1>2, <1>5, <2>1
<1>7. ASSUME StartsWith(224) PROVE left >= 9
  <2>1. next + 9 <= pos[i + 1]
    BY <1>5, <1>7 DEF Section, PesHead, StartsWith
  <2> QED BY <1>2, <1>5, <2>1
<1>8. ~ \E streamId \in {187, 188, 224} : StartsWith(streamId)
  BY <1>2, <1>6, <1>7 DEF Break, StartCodeSize, PesHead
<1>9. buffer[next + 4] \notin {187, 188, 224}
  BY <1>5, <1>8 DEF StartsWith, Section
<1>10. part[i - 1] = video
  BY <1>2, <1>3, <1>4, <1>9, RestIsSilent
<1>11. Copied' = Copied
  BY <1>1 DEF Copied
<1> QED BY <1>1, <1>4, <1>10, <1>11 DEF OnTrack

-----------------------------------------------------------------------------
(* The packet path.                                                        *)

\* The payloads of packets, put together, are bytes.
LEMMA BytesType ==
    ASSUME NEW s \in Seq(Packets)
    PROVE  Bytes(s) \in Seq(Byte)
<1> DEFINE p == [i \in 1 .. Len(s) |-> Payload[s[i]]]
<1>1. Len(s) \in Nat /\ \A i \in 1 .. Len(s) : Payload[s[i]] \in Seq(Byte)
  BY PayloadAssumption DEF PayloadAssumption
<1>2. p \in Pieces
  BY <1>1 DEF Pieces
<1> HIDE DEF p
<1>3. Glue(p) \in Seq(Byte)
  BY <1>2, GlueType
<1> QED BY <1>3 DEF Bytes, p

\* The decoding thread takes the first node and leaves the packet path as it is.
LEMMA DequeueEffect ==
    ASSUME RtpTypeOK, Dequeue
    PROVE  /\ Head(mList) = mList[1] /\ mList[1] \in RtpDataNodes
           /\ mList' \in Seq(RtpDataNodes)
           /\ Len(mList) \in Nat \ {0} /\ Len(mList') = Len(mList) - 1
           /\ \A i \in 1 .. Len(mList') : mList'[i] = mList[i + 1]
           /\ RtpTypeOK'
<1>1. mList \in Seq(RtpDataNodes) /\ mList # <<>> /\ mList' = Tail(mList)
  BY DEF RtpTypeOK, Dequeue
<1>2. /\ mList' \in Seq(RtpDataNodes)
      /\ Len(mList) \in Nat \ {0} /\ Len(mList') = Len(mList) - 1
      /\ \A i \in 1 .. Len(mList') : mList'[i] = mList[i + 1]
  BY <1>1, HeadTailProperties, EmptySeq
<1>3. Head(mList) = mList[1] /\ mList[1] \in RtpDataNodes
  BY <1>1, <1>2
<1> QED BY <1>2, <1>3 DEF Dequeue, netVars, RtpTypeOK

\* The types of the packet path hold initially and every step keeps them.
LEMMA PathTypes ==
    /\ Init => RtpTypeOK
    /\ RtpTypeOK /\ [Next]_vars => RtpTypeOK'
<1>1. Init => RtpTypeOK
  BY TypeInductive DEF Init
<1>2. ASSUME RtpTypeOK, [Next]_vars PROVE RtpTypeOK'
  <2>1. CASE Network
    BY <1>2, <2>1, TypeInductive DEF Network
  <2>2. CASE Dequeue
    BY <1>2, <2>2, DequeueEffect
  <2>3. CASE UNCHANGED rtpVars
    BY <1>2, <2>3, TypeInductive
  <2> QED BY <1>2, <2>1, <2>2, <2>3 DEF Next, DealwithDataNode, FreeNode, Demux, vars
<1> QED BY <1>1, <1>2

\* Every step of the path is one of the demultiplexer, or leaves it alone.
LEMMA PathStepsDemux ==
    ASSUME RtpTypeOK, [Next]_vars
    PROVE  [DemuxNext]_psVars
<1>1. CASE DealwithDataNode
  <2>1. Head(mList).buffer \in Seq(Packets)
    BY <1>1, DequeueEffect DEF DealwithDataNode, RtpDataNodes
  <2>2. Bytes(Head(mList).buffer) \in Seq(Byte)
    BY <2>1, BytesType
  <2>3. \E b \in Seq(Byte) : GetH264FromPs(b)
    BY <1>1, <2>2 DEF DealwithDataNode
  <2> QED BY <2>3 DEF DemuxNext
<1>2. CASE Demux
  BY <1>2 DEF Demux, DemuxNext
<1>3. CASE Network \/ FreeNode \/ UNCHANGED vars
  BY <1>3 DEF Network, FreeNode, vars
<1> QED BY <1>1, <1>2, <1>3 DEF Next

\* The path uses the demultiplexer as its specification says: whatever the network does, it
\* is called with sequences of bytes, and only when it is done with the last one.
THEOREM PathUsesDemuxer == Spec => DemuxSpec
<1>1. Init => DemuxInit
  BY DEF Init
<1> QED BY <1>1, PathTypes, PathStepsDemux, PTL DEF Spec, DemuxSpec

\* Whatever is lost, reordered or repeated, and whatever bytes are in the packets, every
\* copy stays inside the node and mH264buf, and no byte is copied twice.
THEOREM PathStaysInside == Spec => []DemuxInv
BY PathUsesDemuxer, DemuxIsInvariant, PTL

\* Whatever bytes are in the packets, every turn of the loop goes forward, so that the
\* decoding thread gets back to its queue.
THEOREM PathGoesForward == Spec => DemuxAdvances
BY PathUsesDemuxer, DemuxGoesForward, PTL

\* The node the decoding thread deals with gives its frame's data unless it is marked.
NodeOnTrack ==
    at # "idle" /\ ~node.isLostPacket => OnTrack(Video[node.buffer[1]])

PathInv ==
    /\ RtpInv
    /\ ZeroKept => PacketOrder /\ NothingPassedOver
    /\ DemuxInv
    /\ NodeOnTrack

\* What holds for the nodes of the queue goes on to hold when one is taken.
LEMMA DequeueKeepsRtpInv ==
    ASSUME RtpInv, ZeroKept => PacketOrder /\ NothingPassedOver, Dequeue
    PROVE  /\ RtpInv'
           /\ (ZeroKept => PacketOrder /\ NothingPassedOver)'
           /\ StartsWithHeader(Head(mList)) /\ ~Head(mList).isLostPacket
                 => IsWholeFrame(Head(mList).buffer)
<1>1. /\ Head(mList) = mList[1] /\ mList[1] \in RtpDataNodes
      /\ Len(mList) \in Nat \ {0} /\ Len(mList') = Len(mList) - 1
      /\ \A i \in 1 .. Len(mList') : mList'[i] = mList[i + 1]
      /\ RtpTypeOK'
  BY DequeueEffect DEF RtpInv
<1>2. WholeFrames'
  <2>1. ASSUME NEW i \in 1 .. Len(mList')
        PROVE  StartsWithHeader(mList'[i]) /\ ~mList'[i].isLostPacket
                   => IsWholeFrame(mList'[i].buffer)
    <3>1. i + 1 \in 1 .. Len(mList) /\ mList'[i] = mList[i + 1]
      BY <1>1, <2>1
    <3> QED BY <3>1 DEF RtpInv, WholeFrames
  <2> QED BY <2>1 DEF WholeFrames, StartsWithHeader, IsWholeFrame, Consecutive
<1>3. RtpInv'
  BY <1>1, <1>2 DEF Dequeue, netVars, RtpInv, BufferInv, Consecutive
<1>4. (ZeroKept => PacketOrder /\ NothingPassedOver)'
  BY DEF Dequeue, netVars, PacketOrder, NothingPassedOver, Future
<1>5. 1 \in 1 .. Len(mList)
  BY <1>1
<1>6. StartsWithHeader(mList[1]) /\ ~mList[1].isLostPacket => IsWholeFrame(mList[1].buffer)
  BY <1>5 DEF RtpInv, WholeFrames
<1> QED BY <1>1, <1>3, <1>4, <1>6

\* PathInv holds initially and every step keeps it.
LEMMA PathInductive ==
    ASSUME GapsAreSeen, PacksAreSent
    PROVE  /\ Init => PathInv
           /\ PathInv /\ [Next]_vars => PathInv'
<1>1. Init => PathInv
  BY RtpInvInitially, OrderInitially, DemuxInductive DEF Init, DemuxInit, PathInv, NodeOnTrack
<1>2. ASSUME PathInv, [Next]_vars PROVE PathInv'
  <2>0. RtpInv /\ RtpTypeOK /\ DemuxInv /\ (ZeroKept => PacketOrder /\ NothingPassedOver)
    BY <1>2 DEF PathInv, RtpInv
  <2>1. DemuxInv'
    BY <1>2, <2>0, PathStepsDemux, DemuxInductive
  <2>2. CASE Network
    <3>1. RtpInv'
      BY <2>0, <2>2, RtpInvStep, TakenContinues DEF Network
    <3>2. (ZeroKept => PacketOrder /\ NothingPassedOver)'
      BY <2>0, <2>2, PacketOrderStep, NothingPassedOverStep DEF Network, ZeroKept
    <3>3. NodeOnTrack'
      BY <1>2, <2>2 DEF PathInv, Network, psVars, NodeOnTrack, OnTrack, Copied
    <3> QED BY <2>1, <3>1, <3>2, <3>3 DEF PathInv
  <2>3. CASE FreeNode
    <3>1. RtpInv' /\ (ZeroKept => PacketOrder /\ NothingPassedOver)'
      BY <2>0, <2>3, DequeueKeepsRtpInv DEF FreeNode
    <3>2. NodeOnTrack'
      BY <1>2, <2>3 DEF PathInv, FreeNode, psVars, NodeOnTrack, OnTrack, Copied
    <3> QED BY <2>1, <3>1, <3>2 DEF PathInv
  <2>4. CASE DealwithDataNode
    <3>1. RtpInv' /\ (ZeroKept => PacketOrder /\ NothingPassedOver)'
      BY <2>0, <2>4, DequeueKeepsRtpInv DEF DealwithDataNode
    <3>2. ASSUME ~Head(mList).isLostPacket PROVE NodeOnTrack'
      <4>1. IsWholeFrame(Head(mList).buffer)
        BY <2>0, <2>4, <3>2, DequeueKeepsRtpInv DEF DealwithDataNode
      <4>2. PICK s \in Seq(Packets) : s = Head(mList).buffer
        BY <2>0, <2>4, DequeueEffect DEF DealwithDataNode, RtpDataNodes
      <4>3. PICK video : video = Video[s[1]]
        OBVIOUS
      <4>4. \E n, pos, part : IsDivided(Bytes(s), video, n, pos, part)
        BY <4>1, <4>2, <4>3 DEF PacksAreSent
      <4>5. GetH264FromPs(Bytes(s)) /\ node'.buffer = s
        BY <2>4, <4>2 DEF DealwithDataNode
      <4>6. OnTrack(video)'
        BY <4>4, <4>5, BytesType, CallOnTrack
      <4> QED BY <4>3, <4>5, <4>6 DEF NodeOnTrack, OnTrack
    <3>3. ASSUME Head(mList).isLostPacket PROVE NodeOnTrack'
      <4>1. node'.isLostPacket
        BY <2>4, <3>3 DEF DealwithDataNode
      <4> QED BY <4>1 DEF NodeOnTrack
    <3> QED BY <2>1, <3>1, <3>2, <3>3 DEF PathInv
  <2>5. CASE Demux
    <3>1. UNCHANGED rtpVars
      BY <2>5 DEF Demux
    <3>2. RtpInv' /\ (ZeroKept => PacketOrder /\ NothingPassedOver)'
      BY <2>0, <3>1 DEF rtpVars, RtpInv, RtpTypeOK, BufferInv, WholeFrames,
            StartsWithHeader, IsWholeFrame, Consecutive, PacketOrder,
            NothingPassedOver, Future
    <3>3. ASSUME at' # "idle", ~node.isLostPacket PROVE NodeOnTrack'
      <4>1. node' = node
        BY <2>5, <3>3 DEF Demux
      <4>2. PICK video : video = Video[node.buffer[1]]
        OBVIOUS
      <4>3. at = "loop" /\ (SkipSection \/ Pes \/ Break)
        BY <2>5, <3>3 DEF Demux, DemuxStep, Return, SkipSection, Pes, Break, InLoop
      <4>4. OnTrack(video)
        BY <1>2, <3>3, <4>2, <4>3 DEF PathInv, NodeOnTrack
      <4>5. OnTrack(video)'
        BY <2>0, <4>3, <4>4, SkipOnTrack, PesOnTrack, BreakOnTrack
      <4> QED BY <4>1, <4>2, <4>5 DEF NodeOnTrack, OnTrack
    <3>4. ASSUME at' # "idle", node.isLostPacket PROVE NodeOnTrack'
      BY <2>5, <3>4 DEF Demux, NodeOnTrack
    <3>5. ASSUME at' = "idle" PROVE NodeOnTrack'
      BY <3>5 DEF NodeOnTrack
    <3> QED BY <2>1, <3>2, <3>3, <3>4, <3>5 DEF PathInv
  <2>6. CASE UNCHANGED vars
    <3>1. UNCHANGED rtpVars /\ UNCHANGED psVars /\ UNCHANGED node
      BY <2>6 DEF vars
    <3>2. RtpInv' /\ (ZeroKept => PacketOrder /\ NothingPassedOver)'
      BY <2>0, <3>1 DEF rtpVars, RtpInv, RtpTypeOK, BufferInv, WholeFrames,
            StartsWithHeader, IsWholeFrame, Consecutive, PacketOrder,
            NothingPassedOver, Future
    <3>3. NodeOnTrack'
      BY <1>2, <3>1 DEF PathInv, psVars, NodeOnTrack, OnTrack, Copied
    <3> QED BY <2>1, <3>2, <3>3 DEF PathInv
  <2> QED BY <1>2, <2>2, <2>3, <2>4, <2>5, <2>6 DEF Next
<1> QED BY <1>1, <1>2

\* For every stream of packs, cut into packets anywhere, and every network on which gaps
\* are seen: a node that is not marked as lost gives the decoder the H.264 data of its
\* frame, byte for byte.
THEOREM FramesComeOut == GapsAreSeen /\ PacksAreSent /\ Spec => []FramesAreDemuxed
<1> SUFFICES ASSUME GapsAreSeen, PacksAreSent PROVE Spec => []FramesAreDemuxed
  OBVIOUS
<1>1. PathInv => FramesAreDemuxed
  BY DEF PathInv, NodeOnTrack, OnTrack, FramesAreDemuxed
<1> QED BY <1>1, PathInductive, PTL DEF Spec

\* Under the same conditions a memcpy goes wrong only in a node that is marked as lost.
THEOREM CrashesNeedLoss == GapsAreSeen /\ PacksAreSent /\ Spec => []OnlyLossCrashes
<1> SUFFICES ASSUME GapsAreSeen, PacksAreSent PROVE Spec => []OnlyLossCrashes
  OBVIOUS
<1>1. PathInv => OnlyLossCrashes
  BY DEF PathInv, NodeOnTrack, OnTrack, OnlyLossCrashes
<1> QED BY <1>1, PathInductive, PTL DEF Spec
=============================================================================
