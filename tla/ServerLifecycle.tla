--------------------------- MODULE ServerLifecycle ---------------------------
(***************************************************************************)
(* Starting and stopping the server.  The start button makes a            *)
(* GB28181Server, whose start() detaches the SIP thread and the RTP thread.*)
(* The stop button calls stop(), which waits for the SIP thread only as far*)
(* as mIsThreadRunning tells and does not wait for the RTP thread, and then*)
(* deletes the server.  The RtpReciever and the RTP thread live on; they   *)
(* reach the server through the global AppConfig::gGB28181Server.          *)
(*                                                                         *)
(* Servers are numbered in the order they are made; Objects are the        *)
(* addresses they can have, and one that was deleted may be used again.    *)
(* What a thread reads from an object that is no longer there is           *)
(* undefined: any value.  The SIP socket is opened with SO_REUSEADDR, the  *)
(* RTP socket is not, so one process can hold the RTP port only once.      *)
(*                                                                         *)
(* Either thread ends the whole program when the system refuses it what it *)
(* asks for: an eXosip context, the SIP port, or the RTP session with its  *)
(* two ports and its receive buffer of 100 MB.  The system may refuse any  *)
(* of these at any time.                                                   *)
(***************************************************************************)
EXTENDS Integers

CONSTANTS
    Objects,        \* addresses of GB28181Server objects
    MaxStarts       \* bound: how often the user starts the server

ASSUME LifecycleAssumption == MaxStarts \in Nat /\ Objects # {}

Servers == 1 .. MaxStarts
\* The calls the system may refuse.
Requests == {"eXosip_init", "eXosip_listen_addr", "RTPSession::Create"}
NoObject == "nullptr"

VARIABLES
    ui,                 \* "idle", "started", or "stopping": in the loop of stop()
    current,            \* the server made last, 0 before the first
    object,             \* object[s]: the address of server s
    gGB28181Server,
    mIsStop, mIsThreadRunning,      \* of the server at each address
    sip,                \* sip[s]: where the SIP thread of s is
    rtpIsStop,          \* RtpReciever::mIsStop of server s
    rtp,                \* rtp[s]: where the RTP thread of s is
    exited,             \* a thread has called exit(1)
    refused,            \* history: what the system refused a thread, or "none"
    early               \* history: a stop() returned before its SIP thread ran

sipVars == <<mIsStop, mIsThreadRunning, sip>>
rtpVars == <<rtpIsStop, rtp>>
uiVars  == <<ui, current, object, gGB28181Server, early>>
vars == <<ui, current, object, gGB28181Server, mIsStop, mIsThreadRunning, sip,
          rtpIsStop, rtp, exited, refused, early>>

TypeOK ==
    /\ ui \in {"idle", "started", "stopping"}
    /\ current \in Servers \union {0}
    /\ object \in [Servers -> Objects]
    /\ gGB28181Server \in Objects \union {NoObject}
    /\ mIsStop \in [Objects -> BOOLEAN]
    /\ mIsThreadRunning \in [Objects -> BOOLEAN]
    /\ sip \in [Servers -> {"none", "starting", "looping", "leaving", "ended"}]
    /\ \A s \in Servers : (sip[s] = "none" <=> s > current) /\ (rtp[s] = "none" <=> s > current)
    /\ rtpIsStop \in [Servers -> BOOLEAN]
    /\ rtp \in [Servers -> {"none", "starting", "looping", "access", "leaving", "ended"}]
    /\ exited \in BOOLEAN
    /\ refused \in Requests \union {"none"}
    /\ early \in BOOLEAN

\* The server at address o has been made and not been deleted.
Alive(o) == ui # "idle" /\ object[current] = o

Init ==
    /\ ui = "idle"
    /\ current = 0
    /\ object \in [Servers -> {CHOOSE o \in Objects : TRUE}]
    /\ gGB28181Server = NoObject
    /\ mIsStop = [o \in Objects |-> FALSE]
    /\ mIsThreadRunning = [o \in Objects |-> FALSE]
    /\ sip = [s \in Servers |-> "none"]
    /\ rtpIsStop = [s \in Servers |-> TRUE]
    /\ rtp = [s \in Servers |-> "none"]
    /\ exited = FALSE
    /\ refused = "none"
    /\ early = FALSE

-----------------------------------------------------------------------------
(* The UI thread.                                                          *)

\* Mutants of RtpStart and Published: the receiver is not started; its start leaves
\* mIsStop as the constructor set it; the constructor does not set the global.
RtpStart_Missing(s) == UNCHANGED <<rtpIsStop, rtp>>
RtpStart_StaysStopped(s) ==
    /\ rtpIsStop' = rtpIsStop
    /\ rtp' = [rtp EXCEPT ![s] = "starting"]
Published_Never(o) == gGB28181Server

RtpStart(s) ==
    /\ rtpIsStop' = [rtpIsStop EXCEPT ![s] = FALSE]
    /\ rtp' = [rtp EXCEPT ![s] = "starting"]

\* What gGB28181Server points to once a server was made at o.
Published(o) == o

\* The start button: constructor and start().
Start(o) ==
    LET s == current + 1
    IN  /\ ui = "idle" /\ current < MaxStarts
        /\ ui' = "started"
        /\ current' = s
        /\ object' = [object EXCEPT ![s] = o]
        /\ gGB28181Server' = Published(o)
        /\ mIsStop' = [mIsStop EXCEPT ![o] = FALSE]
        /\ mIsThreadRunning' = [mIsThreadRunning EXCEPT ![o] = FALSE]
        /\ sip' = [sip EXCEPT ![s] = "starting"]
        /\ RtpStart(s)
        /\ UNCHANGED <<exited, refused, early>>

\* The stop button, up to the loop of stop().
ClickStop ==
    /\ ui = "started"
    /\ ui' = "stopping"
    /\ mIsStop' = [mIsStop EXCEPT ![object[current]] = TRUE]
    /\ UNCHANGED <<current, object, gGB28181Server, mIsThreadRunning, sip,
                   rtpVars, exited, refused, early>>

\* Mutant: stop() does not wait.
StopMayReturn_AtOnce == TRUE
\* The condition that ends the loop of stop().
StopMayReturn == ~mIsThreadRunning[object[current]]

\* The rest of stop(), and the delete.
StopReturns ==
    /\ ui = "stopping"
    /\ StopMayReturn
    /\ rtpIsStop' = [rtpIsStop EXCEPT ![current] = TRUE]
    /\ early' = (early \/ sip[current] = "starting")
    /\ ui' = "idle"
    /\ UNCHANGED <<current, object, gGB28181Server, sipVars, rtp, exited, refused>>

-----------------------------------------------------------------------------
(* The SIP thread of server s.                                             *)

\* A call of a starting SIP thread fails: the system refuses it, or the context or
\* the port number was read from a server that is deleted.
SipFails(s, call) ==
    /\ sip[s] = "starting"
    /\ exited' = TRUE
    /\ refused' = IF Alive(object[s]) THEN call ELSE refused
    /\ UNCHANGED <<sipVars, rtpVars, uiVars>>

SipInitFails(s) == SipFails(s, "eXosip_init")
SipListenFails(s) == SipFails(s, "eXosip_listen_addr")

\* The listening socket is open and mIsThreadRunning is set.
SipListen(s) ==
    /\ sip[s] = "starting"
    /\ sip' = [sip EXCEPT ![s] = "looping"]
    /\ mIsThreadRunning' = [mIsThreadRunning EXCEPT ![object[s]] = TRUE]
    /\ UNCHANGED <<mIsStop, rtpVars, uiVars, exited, refused>>

\* while (!mIsStop) ends.
SipLeaveLoop(s) ==
    /\ sip[s] = "looping"
    /\ Alive(object[s]) => mIsStop[object[s]]
    /\ sip' = [sip EXCEPT ![s] = "leaving"]
    /\ UNCHANGED <<mIsStop, mIsThreadRunning, rtpVars, uiVars, exited, refused>>

\* Mutant: the flag stays up.
FlagAfterRun_StaysUp == TRUE
FlagAfterRun == FALSE

\* mIsThreadRunning = false after eXosip_quit.
SipEnd(s) ==
    /\ sip[s] = "leaving"
    /\ sip' = [sip EXCEPT ![s] = "ended"]
    /\ mIsThreadRunning' = [mIsThreadRunning EXCEPT ![object[s]] = FlagAfterRun]
    /\ UNCHANGED <<mIsStop, rtpVars, uiVars, exited, refused>>

-----------------------------------------------------------------------------
(* The RTP thread of server s.                                             *)

\* Mutant: the session is not destroyed when run() ends.
HoldsPort_ForEver(s) == rtp[s] \in {"looping", "access", "leaving", "ended"}
\* The session of s has the RTP port.
HoldsPort(s) == rtp[s] \in {"looping", "access", "leaving"}

RtpPortUnused == \A t \in Servers : ~HoldsPort(t)

MoveRtp(s, from, to) ==
    /\ rtp[s] = from
    /\ rtp' = [rtp EXCEPT ![s] = to]
    /\ UNCHANGED <<sipVars, rtpIsStop, uiVars, exited, refused>>

\* RTPSession::Create succeeds, or fails: because a receiver of this program has the
\* port, or because the system refuses a port, the buffer or the memory.
RtpCreate(s) == RtpPortUnused /\ MoveRtp(s, "starting", "looping")
RtpCreateFails(s) ==
    /\ rtp[s] = "starting"
    /\ exited' = TRUE
    /\ refused' = IF RtpPortUnused THEN "RTPSession::Create" ELSE refused
    /\ UNCHANGED <<sipVars, rtpVars, uiVars>>

\* while (!mIsStop): packets are looked up through gGB28181Server between
\* BeginDataAccess and EndDataAccess; then BYEDestroy.
RtpBeginDataAccess(s) == ~rtpIsStop[s] /\ MoveRtp(s, "looping", "access")
RtpEndDataAccess(s) == MoveRtp(s, "access", "looping")
RtpLeaveLoop(s) == rtpIsStop[s] /\ MoveRtp(s, "looping", "leaving")
RtpBYEDestroy(s) == MoveRtp(s, "leaving", "ended")

-----------------------------------------------------------------------------
SipThread(s) ==
    \/ SipInitFails(s) \/ SipListenFails(s) \/ SipListen(s)
    \/ SipLeaveLoop(s) \/ SipEnd(s)
RtpThread(s) ==
    \/ RtpCreate(s) \/ RtpCreateFails(s)
    \/ RtpBeginDataAccess(s) \/ RtpEndDataAccess(s)
    \/ RtpLeaveLoop(s) \/ RtpBYEDestroy(s)

Next ==
    /\ ~exited
    /\ \/ \E o \in Objects : Start(o)
       \/ ClickStop
       \/ StopReturns
       \/ \E s \in Servers : SipThread(s) \/ RtpThread(s)

Spec == Init /\ [][Next]_vars

\* The loop of stop() and the threads keep running; a SIP thread whose server is
\* gone may loop for ever.  Nothing is assumed of the user and the system.
Fairness ==
    /\ WF_vars(~exited /\ StopReturns)
    /\ \A s \in Servers :
          /\ WF_vars(~exited /\ Alive(object[s]) /\ SipThread(s))
          /\ WF_vars(~exited /\ SipEnd(s))
          /\ WF_vars(~exited /\ RtpThread(s))

FairSpec == Spec /\ Fairness

-----------------------------------------------------------------------------
(* Properties.                                                             *)

\* The server of a running SIP thread is there, unless the user has once stopped
\* a server whose SIP thread had not come to set mIsThreadRunning: that thread,
\* and through a reused address the thread of a later server, loses its server.
SipThreadKeepsServer ==
    ~early => \A s \in Servers :
        sip[s] \in {"looping", "leaving"} => s = current /\ Alive(object[s])

\* A receiver that has not been told to stop finds, for every packet, the server
\* it belongs to, although it goes through a global that any server overwrites.
LookupsFindOwnServer ==
    \A s \in Servers :
        rtp[s] = "access" /\ ~rtpIsStop[s] =>
            s = current /\ Alive(object[s]) /\ gGB28181Server = object[s]

\* What makes both inductive.  Only the last server, and only until stop() returns,
\* has a receiver that is not told to stop; while there is a server the global points
\* to it.  Without an early stop all earlier SIP threads have ended, and the flag of the
\* server is up while its SIP thread is in its loop.
ReceiverInv ==
    /\ ui # "idle" => current \in Servers /\ gGB28181Server = object[current]
    /\ \A s \in Servers : ~rtpIsStop[s] => s = current /\ ui # "idle"

SipInv ==
    ~early => \A s \in Servers :
        /\ sip[s] \in {"starting", "looping", "leaving"} => s = current /\ ui # "idle"
        /\ sip[s] \in {"looping", "leaving"} => mIsThreadRunning[object[s]]

LifecycleInv == TypeOK /\ ReceiverInv /\ SipInv

\* When the system has refused nothing, the program ends itself only over itself: the
\* receiver of a server stopped before still has or wants the RTP port, which no
\* stop() waits for, or a SIP thread has lost its server.
ExitExplained ==
    exited =>
        \/ refused # "none"
        \/ early
        \/ \E s \in Servers : s < current /\ rtpIsStop[s]
              /\ rtp[s] \in {"starting", "looping", "access", "leaving"}

\* The window does not hang: stop() returns, or the program has ended, even if a
\* SIP thread of an earlier server writes the flags of this one.
StopAlwaysReturns == (ui = "stopping") ~> (ui = "idle" \/ exited)

\* A server that is started and not stopped comes to serve both its ports, or the
\* program ends.
StartedServerServes ==
    \A s \in Servers :
        (current = s /\ ui = "started") ~>
            (\/ sip[s] = "looping" /\ rtp[s] \in {"looping", "access"}
             \/ ui # "started"
             \/ exited)
=============================================================================
