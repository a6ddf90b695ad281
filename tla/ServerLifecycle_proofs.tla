----------------------- MODULE ServerLifecycle_proofs -----------------------
(***************************************************************************)
(* Proofs about ServerLifecycle for any number of starts and any reuse of  *)
(* addresses.                                                              *)
(***************************************************************************)
EXTENDS ServerLifecycle, TLAPS

\* The server a start makes is the one after the last.
LEMMA NextServer ==
    ASSUME current \in Servers \union {0}, current < MaxStarts
    PROVE  /\ current + 1 \in Servers
           /\ \A s \in Servers : s > current + 1 <=> s > current /\ s # current + 1
           /\ current + 1 > current
BY LifecycleAssumption DEF LifecycleAssumption, Servers

\* The type invariant holds initially and every step keeps it.
LEMMA TypeInductive ==
    /\ Init => TypeOK
    /\ TypeOK /\ [Next]_vars => TypeOK'
<1>1. Init => TypeOK
  <2>1. \A s \in Servers : s > 0
    BY LifecycleAssumption DEF LifecycleAssumption, Servers
  <2>2. (CHOOSE o \in Objects : TRUE) \in Objects
    BY LifecycleAssumption DEF LifecycleAssumption
  <2>3. Init => object \in [Servers -> Objects]
    BY <2>2 DEF Init
  <2>4. Init => \A s \in Servers : /\ sip[s] = "none" <=> s > current
                                   /\ rtp[s] = "none" <=> s > current
    BY <2>1 DEF Init
  <2>5. Init => /\ ui \in {"idle", "started", "stopping"}
                /\ current \in Servers \union {0}
                /\ gGB28181Server \in Objects \union {NoObject}
                /\ mIsStop \in [Objects -> BOOLEAN]
                /\ mIsThreadRunning \in [Objects -> BOOLEAN]
    BY DEF Init
  <2>6. Init => /\ sip \in [Servers -> {"none", "starting", "looping", "leaving", "ended"}]
                /\ rtpIsStop \in [Servers -> BOOLEAN]
                /\ rtp \in [Servers -> {"none", "starting", "looping", "access",
                                       "leaving", "ended"}]
                /\ exited \in BOOLEAN
                /\ refused \in Requests \union {"none"}
                /\ early \in BOOLEAN
    BY DEF Init
  <2> QED BY <2>3, <2>4, <2>5, <2>6 DEF TypeOK
<1>2. ASSUME TypeOK, [Next]_vars PROVE TypeOK'
  <2> USE <1>2
  <2>1. ASSUME NEW o \in Objects, Start(o) PROVE TypeOK'
    <3>1. /\ current + 1 \in Servers
          /\ \A s \in Servers : s > current + 1 <=> s > current /\ s # current + 1
      BY <2>1, NextServer DEF TypeOK, Start
    <3>2. current' = current + 1
      BY <2>1 DEF Start
    <3>3. /\ ui' \in {"idle", "started", "stopping"}
          /\ current' \in Servers \union {0}
          /\ object' \in [Servers -> Objects]
          /\ gGB28181Server' \in Objects \union {NoObject}
          /\ mIsStop' \in [Objects -> BOOLEAN]
          /\ mIsThreadRunning' \in [Objects -> BOOLEAN]
      BY <2>1, <3>1 DEF Start, TypeOK, Published
    <3>4. /\ sip' = [sip EXCEPT ![current + 1] = "starting"]
          /\ rtp' = [rtp EXCEPT ![current + 1] = "starting"]
          /\ rtpIsStop' = [rtpIsStop EXCEPT ![current + 1] = FALSE]
          /\ UNCHANGED <<exited, refused, early>>
      BY <2>1 DEF Start, RtpStart
    <3> QED BY <3>1, <3>2, <3>3, <3>4 DEF TypeOK
  <2>2. CASE ClickStop
    BY <2>2 DEF ClickStop, TypeOK, rtpVars
  <2>3. CASE StopReturns
    BY <2>3 DEF StopReturns, TypeOK, sipVars
  <2>4. ASSUME NEW s \in Servers, SipThread(s) PROVE TypeOK'
    BY <2>4 DEF SipThread, SipListen, SipListenFails, SipInitFails, SipFails,
                SipLeaveLoop, SipEnd,
                FlagAfterRun, Requests, TypeOK, sipVars, rtpVars, uiVars
  <2>5. ASSUME NEW s \in Servers, RtpThread(s) PROVE TypeOK'
    BY <2>5 DEF RtpThread, RtpCreate, RtpCreateFails, RtpBeginDataAccess,
                RtpEndDataAccess, RtpLeaveLoop, RtpBYEDestroy, MoveRtp,
                Requests, TypeOK, sipVars, rtpVars, uiVars
  <2>6. CASE UNCHANGED vars
    BY <2>6 DEF vars, TypeOK
  <2> QED BY <2>1, <2>2, <2>3, <2>4, <2>5, <2>6 DEF Next
<1> QED BY <1>1, <1>2

\* Only Start and StopReturns touch what the receivers' invariant speaks of.
LEMMA ReceiverStep ==
    ASSUME TypeOK, ReceiverInv, [Next]_vars
    PROVE  ReceiverInv'
<1>1. ASSUME NEW o \in Objects, Start(o) PROVE ReceiverInv'
  <2>1. current + 1 \in Servers
    BY <1>1, NextServer DEF TypeOK, Start
  <2>2. /\ ui = "idle" /\ ui' = "started" /\ current' = current + 1
        /\ object' = [object EXCEPT ![current + 1] = o] /\ gGB28181Server' = o
        /\ rtpIsStop' = [rtpIsStop EXCEPT ![current + 1] = FALSE]
    BY <1>1 DEF Start, RtpStart, Published
  <2> QED BY <2>1, <2>2 DEF ReceiverInv, TypeOK
<1>2. CASE ClickStop
  BY <1>2 DEF ClickStop, ReceiverInv, rtpVars
<1>3. CASE StopReturns
  BY <1>3 DEF StopReturns, ReceiverInv, TypeOK
<1>4. ASSUME NEW s \in Servers, SipThread(s) PROVE ReceiverInv'
  BY <1>4 DEF SipThread, SipListen, SipListenFails, SipInitFails, SipFails,
                SipLeaveLoop, SipEnd,
              ReceiverInv, rtpVars, uiVars
<1>5. ASSUME NEW s \in Servers, RtpThread(s) PROVE ReceiverInv'
  BY <1>5 DEF RtpThread, RtpCreate, RtpCreateFails, RtpBeginDataAccess,
              RtpEndDataAccess, RtpLeaveLoop, RtpBYEDestroy, MoveRtp,
              ReceiverInv, rtpVars, uiVars
<1>6. CASE UNCHANGED vars
  BY <1>6 DEF vars, ReceiverInv
<1> QED BY <1>1, <1>2, <1>3, <1>4, <1>5, <1>6 DEF Next

\* StopReturns relies on the flag: with it down the SIP thread is not in its loop, and
\* if it has not come to raise it the stop was early.
LEMMA SipStep ==
    ASSUME TypeOK, ReceiverInv, SipInv, [Next]_vars
    PROVE  SipInv'
<1> SUFFICES ASSUME ~early', NEW s \in Servers
             PROVE  /\ sip'[s] \in {"starting", "looping", "leaving"}
                          => s = current' /\ ui' # "idle"
                    /\ sip'[s] \in {"looping", "leaving"} => mIsThreadRunning'[object'[s]]
  BY DEF SipInv
<1>0. ~early
  BY DEF Next, Start, ClickStop, StopReturns, SipThread, SipListen, SipListenFails,
         SipInitFails, SipFails,
         SipInitFails, SipFails, SipLeaveLoop, SipEnd, RtpThread, RtpCreate, RtpCreateFails,
         RtpBeginDataAccess, RtpEndDataAccess, RtpLeaveLoop, RtpBYEDestroy, MoveRtp,
         uiVars, vars
<1>h. /\ sip[s] \in {"starting", "looping", "leaving"} => s = current /\ ui # "idle"
      /\ sip[s] \in {"looping", "leaving"} => mIsThreadRunning[object[s]]
  BY <1>0 DEF SipInv
<1>1. ASSUME NEW o \in Objects, Start(o)
      PROVE  /\ sip'[s] \in {"starting", "looping", "leaving"}
                   => s = current' /\ ui' # "idle"
             /\ sip'[s] \in {"looping", "leaving"} => mIsThreadRunning'[object'[s]]
  <2>1. /\ ui = "idle" /\ ui' = "started" /\ current' = current + 1
        /\ sip' = [sip EXCEPT ![current + 1] = "starting"]
    BY <1>1 DEF Start
  <2>2. s # current + 1 => sip'[s] = sip[s] /\ sip[s] \notin {"starting", "looping", "leaving"}
    BY <1>h, <2>1 DEF TypeOK
  <2>3. s = current + 1 => sip'[s] = "starting"
    BY <2>1 DEF TypeOK
  <2> QED BY <2>1, <2>2, <2>3
<1>2. CASE ClickStop
  BY <1>2, <1>h DEF ClickStop
<1>3. CASE StopReturns
  <2>1. ui = "stopping" /\ ~mIsThreadRunning[object[current]] /\ sip[current] # "starting"
    BY <1>3 DEF StopReturns, StopMayReturn
  <2>2. sip[s] \notin {"starting", "looping", "leaving"}
    BY <1>h, <2>1
  <2> QED BY <1>3, <2>2 DEF StopReturns, sipVars
<1>4. ASSUME NEW t \in Servers, SipThread(t)
      PROVE  /\ sip'[s] \in {"starting", "looping", "leaving"}
                   => s = current' /\ ui' # "idle"
             /\ sip'[s] \in {"looping", "leaving"} => mIsThreadRunning'[object'[s]]
  <2>1. UNCHANGED <<ui, current, object>>
    BY <1>4 DEF SipThread, SipListen, SipListenFails, SipInitFails, SipFails,
                SipLeaveLoop, SipEnd, uiVars
  <2>2. object[s] \in Objects
    BY DEF TypeOK
  <2>3. CASE t = s
    BY <1>4, <1>h, <2>1, <2>2, <2>3 DEF SipThread, SipListen, SipListenFails,
       SipInitFails, SipFails,
       SipLeaveLoop, SipEnd, sipVars, TypeOK
  <2>4. CASE t # s
    <3>1. sip'[s] = sip[s]
      BY <1>4, <2>4 DEF SipThread, SipListen, SipListenFails, SipInitFails, SipFails,
                SipLeaveLoop, SipEnd,
                        sipVars, TypeOK
    <3>2. sip[t] \in {"starting", "looping", "leaving"} => t = current
      BY <1>0 DEF SipInv
    <3>3. UNCHANGED sipVars \/ sip[t] \in {"starting", "looping", "leaving"}
      BY <1>4 DEF SipThread, SipListen, SipListenFails, SipInitFails, SipFails,
                SipLeaveLoop, SipEnd
    <3>4. sip[s] \in {"looping", "leaving"} => UNCHANGED sipVars
      BY <1>h, <2>4, <3>2, <3>3
    <3> QED BY <1>h, <2>1, <3>1, <3>4 DEF sipVars
  <2> QED BY <2>3, <2>4
<1>5. ASSUME NEW t \in Servers, RtpThread(t)
      PROVE  UNCHANGED <<sipVars, uiVars>>
  BY <1>5 DEF RtpThread, RtpCreate, RtpCreateFails, RtpBeginDataAccess,
              RtpEndDataAccess, RtpLeaveLoop, RtpBYEDestroy, MoveRtp
<1>6. CASE UNCHANGED <<sipVars, uiVars>>
  BY <1>6, <1>h DEF sipVars, uiVars
<1>7. UNCHANGED vars => UNCHANGED <<sipVars, uiVars>>
  BY DEF vars, sipVars, uiVars
<1> QED BY <1>1, <1>2, <1>3, <1>4, <1>5, <1>6, <1>7 DEF Next

\* The invariant is inductive.
LEMMA LifecycleInductive ==
    /\ Init => LifecycleInv
    /\ LifecycleInv /\ [Next]_vars => LifecycleInv'
<1>1. Init => LifecycleInv
  BY TypeInductive DEF LifecycleInv, Init, ReceiverInv, SipInv
<1>2. LifecycleInv /\ [Next]_vars => LifecycleInv'
  BY TypeInductive, ReceiverStep, SipStep DEF LifecycleInv
<1> QED BY <1>1, <1>2

\* Stop and start in any order keep the inductive invariant: the type invariant, the
\* global's value, and what is left of the threads of earlier servers.
THEOREM LifecycleIsInvariant == Spec => []LifecycleInv
BY LifecycleInductive, PTL DEF Spec

\* However often the user stops and starts, and wherever the servers are put, a
\* receiver that is not told to stop looks packets up in its own, living server.
THEOREM LookupsAreSafe == Spec => []LookupsFindOwnServer
<1>1. LifecycleInv => LookupsFindOwnServer
  BY DEF LifecycleInv, ReceiverInv, LookupsFindOwnServer, Alive
<1> QED BY <1>1, LifecycleIsInvariant, PTL

\* A SIP thread in its loop has a living server for as long as no stop() came
\* before the SIP thread it was meant for had raised its flag.
THEOREM SipThreadIsSafe == Spec => []SipThreadKeepsServer
<1>1. LifecycleInv => SipThreadKeepsServer
  BY DEF LifecycleInv, SipInv, SipThreadKeepsServer, Alive
<1> QED BY <1>1, LifecycleIsInvariant, PTL

\* A thread that calls exit(1) leaves one of the three explanations behind.
LEMMA ExitStep ==
    ASSUME LifecycleInv, ExitExplained, [Next]_vars
    PROVE  ExitExplained'
<1> USE DEF LifecycleInv
<1>1. CASE UNCHANGED vars
  BY <1>1 DEF vars, ExitExplained
<1>2. ASSUME NEW s \in Servers, SipInitFails(s) \/ SipListenFails(s) PROVE ExitExplained'
  <2>1. PICK call \in Requests : SipFails(s, call)
    BY <1>2 DEF SipInitFails, SipListenFails, Requests
  <2>2. early' = early /\ sip[s] = "starting"
    BY <2>1 DEF SipFails, uiVars
  <2>3. CASE early
    BY <2>2, <2>3 DEF ExitExplained
  <2>4. CASE ~early
    <3>1. Alive(object[s])
      BY <2>2, <2>4 DEF SipInv, Alive
    <3>2. refused' # "none"
      BY <2>1, <3>1 DEF SipFails, Requests
    <3> QED BY <3>2 DEF ExitExplained
  <2> QED BY <2>3, <2>4
<1>3. ASSUME NEW s \in Servers, RtpCreateFails(s) PROVE ExitExplained'
  <2>1. UNCHANGED <<current, rtpIsStop, rtp>> /\ rtp[s] = "starting"
    BY <1>3 DEF RtpCreateFails, rtpVars, uiVars
  <2>2. \A u \in Servers : rtp[u] # "none" /\ u # current => u < current /\ rtpIsStop[u]
    BY LifecycleAssumption DEF LifecycleAssumption, TypeOK, ReceiverInv, Servers
  <2>3. CASE RtpPortUnused
    BY <1>3, <2>3 DEF RtpCreateFails, ExitExplained
  <2>4. ASSUME NEW t \in Servers, HoldsPort(t) PROVE ExitExplained'
    <3>1. t # s
      BY <2>1, <2>4 DEF HoldsPort
    <3>2. PICK u \in {s, t} : u # current
      BY <3>1
    <3>3. u \in Servers /\ rtp[u] \in {"starting", "looping", "access", "leaving"}
      BY <2>1, <2>4, <3>2 DEF HoldsPort
    <3>4. u < current /\ rtpIsStop[u]
      BY <2>2, <3>2, <3>3
    <3> QED BY <2>1, <3>3, <3>4 DEF ExitExplained
  <2> QED BY <2>3, <2>4 DEF RtpPortUnused
<1>4. CASE ~exited'
  BY <1>4 DEF ExitExplained
<1>5. \/ UNCHANGED vars \/ ~exited'
      \/ \E s \in Servers : SipInitFails(s) \/ SipListenFails(s) \/ RtpCreateFails(s)
  BY DEF Next, Start, ClickStop, StopReturns, SipThread, SipListen, SipLeaveLoop, SipEnd,
         RtpThread, RtpCreate, RtpBeginDataAccess, RtpEndDataAccess, RtpLeaveLoop,
         RtpBYEDestroy, MoveRtp
<1> QED BY <1>1, <1>2, <1>3, <1>4, <1>5

\* Whatever the reasons for which eXosip_init, eXosip_listen_addr and RTPSession::Create
\* may be refused: when none of them was, the program ends itself only if the receiver
\* of a server that was stopped still has or wants the RTP port, or a stop came too early.
THEOREM ExitsAreExplained == Spec => []ExitExplained
<1>1. Init => LifecycleInv /\ ExitExplained
  BY LifecycleInductive DEF Init, ExitExplained
<1>2. LifecycleInv /\ ExitExplained /\ [Next]_vars => (LifecycleInv /\ ExitExplained)'
  BY LifecycleInductive, ExitStep
<1> QED BY <1>1, <1>2, PTL DEF Spec
=============================================================================
