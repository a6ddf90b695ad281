------------------------ MODULE MC_DeviceRegistry ------------------------
(***************************************************************************)
(* What the camera reports in the run of DeviceRegistry alone.             *)
(***************************************************************************)
EXTENDS DeviceRegistry, TLC

CONSTANTS c1, c2, a, b

Item(id, c, ip) == [DeviceID |-> id, ParentID |-> c, IPAddress |-> ip]

NoneStartsOver == [c \in Cameras |-> 0]

\* A camera with two channels in one message.
TwoItems == c1 :> << <<Item(a, c1, c1), Item(b, c1, c1)>> >>
=============================================================================
