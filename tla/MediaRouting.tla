---------------------------- MODULE MediaRouting ----------------------------
(***************************************************************************)
(* Where the video goes.  DeviceRegistry composed with the INVITEs of the  *)
(* user and the streams cameras send for them.  An INVITE names a channel  *)
(* and the SSRC the camera shall send under; that SSRC is all the RTP      *)
(* thread has to find the VideoChannel a packet belongs to.  The server    *)
(* never sends a BYE, so a stream outlives the server that asked for it    *)
(* and reaches the next one, which counts its SSRCs from 1 again.          *)
(***************************************************************************)
EXTENDS DeviceRegistry

CONSTANT MaxInvites     \* bound: how often the user asks for video

ASSUME InvitesAssumption == MaxInvites \in Nat

VARIABLES
    streams,    \* what cameras send: [ssrc, channel], the object the INVITE was for
    invites

mediaVars == <<vars, streams, invites>>

Streams == [ssrc : Nat, channel : 1 .. Len(channels)]

MediaInit == Init /\ streams = {} /\ invites = 0

\* Mutant: the SDP carries the number last given out.
AnnouncedSSRC_Last(o) == RtpSSRC
\* The y= line of the SDP.
AnnouncedSSRC(o) == channels[o].RtpSSRC

\* The INVITE goes to the address stored for the channel; it is the camera's if that
\* is where it answers.
Reaches(o) == channels[o].IPAddress = channels[o].parent

\* The play button, with item i of the k-th camera of the tree selected.  The camera
\* that gets the INVITE sends until it is switched off.
ClickInvite(k, i) ==
    LET o == tree[k].channelList[i]
    IN  /\ invites < MaxInvites
        /\ invites' = invites + 1
        /\ streams' = IF Reaches(o)
                      THEN streams \union {[ssrc |-> AnnouncedSSRC(o), channel |-> o]}
                      ELSE streams
        /\ UNCHANGED vars

\* getVideoChannel: the channels that get the packets of a stream, one or none.
Destination(s) ==
    {mDeviceVideoChannelMap[n] : n \in {s.ssrc} \intersect DOMAIN mDeviceVideoChannelMap}

MediaNext ==
    \/ Next /\ UNCHANGED <<streams, invites>>
    \/ \E k \in 1 .. Len(tree) : \E i \in 1 .. Len(tree[k].channelList) : ClickInvite(k, i)

MediaSpec == MediaInit /\ [][MediaNext]_mediaVars
FairMediaSpec == MediaSpec /\ Fairness

-----------------------------------------------------------------------------
\* The channels made by servers that have been stopped.
OldChannels == 1 .. Len(channels) - RtpSSRC

\* However often the server is stopped and started, whatever signals and streams are
\* left over from before: a stream the user asked for with a channel of the running
\* server reaches that channel and no other.
NewStreamsArrive ==
    \A s \in streams : s.channel \in OldChannels \/ Destination(s) = {s.channel}
=============================================================================
