--------------------------- MODULE FrameDisplay ---------------------------
(***************************************************************************)
(* What a video channel promises about the frames it lets pass for the     *)
(* screen: of the frames the camera sends it lets some pass, in the order  *)
(* they were sent, each at most once, and none whose key frame it has not  *)
(* let pass.                                                               *)
(***************************************************************************)
EXTENDS Integers, Sequences

CONSTANTS
    Frames,     \* the frames of the stream, numbered in sending order
    Key         \* Key[f]: the key frame f is predicted from, f itself if it is one

VARIABLE shown  \* the frames let pass for the screen so far

Shown(f) == \E i \in 1 .. Len(shown) : shown[i] = f

Init == shown = <<>>

Show(f) ==
    /\ \A i \in 1 .. Len(shown) : shown[i] < f
    /\ Key[f] = f \/ Shown(Key[f])
    /\ shown' = Append(shown, f)

Next == \E f \in Frames : Show(f)

Spec == Init /\ [][Next]_shown
=============================================================================
