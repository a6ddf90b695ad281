------------------------ MODULE MC_MediaRouting ------------------------
(***************************************************************************)
(* What the cameras report, and how often they start over, in the runs of  *)
(* MediaRouting.                                                           *)
(***************************************************************************)
EXTENDS MediaRouting, TLC

CONSTANTS c1, c2, a, b

Item(id, c, ip) == [DeviceID |-> id, ParentID |-> c, IPAddress |-> ip]

\* Two channels in two messages, and one channel.
OneItemPerMessage ==
    (c1 :> << <<Item(a, c1, c1)>>, <<Item(b, c1, c1)>> >>) @@
    (c2 :> << <<Item(a, c2, c2)>> >>)

\* One camera with two channels in two messages, the second without an address, and
\* a camera with no channel.
OneCamera ==
    [c \in Cameras |-> IF c = c1
                       THEN << <<Item(a, c1, c1)>>, <<Item(b, c1, NoAddress)>> >>
                       ELSE <<>>]

\* Only the first camera gives up or registers anew, and only once.
FirstStartsOver == [c \in Cameras |-> IF c = c1 THEN 1 ELSE 0]
NoneStartsOver == [c \in Cameras |-> 0]
=============================================================================
