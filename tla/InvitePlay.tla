----------------------------- MODULE InvitePlay -----------------------------
(***************************************************************************)
(* Asking a camera for video.  The UI thread runs SendInvitePlay: it sends *)
(* an INVITE under the lock of eXosip and then, without the lock, marks the*)
(* channel with the number of the call (VideoChannel::setCallId).  The SIP *)
(* thread takes the events eXosip queues; for an answered call it searches *)
(* all channels for the mark and removes it (setCallFinished), then sends  *)
(* the ACK.  mCallId is shared by the two threads without a lock.          *)
(*                                                                         *)
(* eXosip and the cameras are modelled from outside: call numbers are      *)
(* handed out in order and never reused, eXosip repeats lost messages      *)
(* itself, so an INVITE is answered, refused or given up, and the events of*)
(* all calls go through one FIFO queue.                                    *)
(***************************************************************************)
EXTENDS Integers, Sequences

CONSTANTS
    NumChannels,    \* setCallFinished visits the channels 1 .. NumChannels in turn
    MaxCalls,       \* bound: how many INVITEs the user sends
    Outcomes        \* what cameras may do with an INVITE

ASSUME InviteAssumption ==
    /\ NumChannels \in Nat
    /\ MaxCalls \in Nat
    /\ Outcomes \subseteq {"answered", "refused", "silent"}

Channels == 1 .. NumChannels
Calls == 1 .. MaxCalls
NoCall == -1            \* the value of mCallId outside a call
SendError == -4         \* an error code of eXosip_call_send_initial_invite
CallIds == Calls \union {NoCall, SendError}

FinalTypes == {"answered", "refused", "silent"}
EventTypes == FinalTypes \union {"proceeding", "closed"}
Events == [type : EventTypes, cid : Calls]

VARIABLES
    nextCall,       \* eXosip: the number of the next call
    callChannel,    \* the channel each call was made for
    outcome,        \* "none", "invited", then what the camera did; "ended" by BYE
    events,         \* eXosip: the queue of events
    uiChannel,      \* UI thread: the channel in SendInvitePlay, 0 outside of it
    uiCall,         \* UI thread: call_id, waiting for setCallId
    sipCall,        \* SIP thread: the call in setCallFinished, NoCall outside of it
    sipChannel,     \* SIP thread: the channel the search has reached
    sipMatched,     \* SIP thread: getCallId() == callId held for that channel
    mCallId,
    handled,        \* history: the calls whose outcome the SIP thread has taken
    acked,          \* history: the calls the SIP thread has sent an ACK for
    late            \* history: calls marked after the search had passed by

callVars == <<nextCall, callChannel>>
uiVars   == <<uiChannel, uiCall>>
sipVars  == <<sipCall, sipChannel, sipMatched>>
vars == <<nextCall, callChannel, outcome, events, uiChannel, uiCall, sipCall,
          sipChannel, sipMatched, mCallId, handled, acked, late>>

TypeOK ==
    /\ nextCall \in 1 .. MaxCalls + 1
    /\ callChannel \in [Calls -> Channels \union {0}]
    /\ outcome \in [Calls -> FinalTypes \union {"none", "invited", "ended"}]
    /\ events \in Seq(Events)
    /\ uiChannel \in Channels \union {0}
    /\ uiCall \in CallIds
    /\ sipCall \in Calls \union {NoCall}
    /\ sipChannel \in 1 .. NumChannels + 1
    /\ sipMatched \in BOOLEAN
    /\ sipMatched => sipCall \in Calls /\ sipChannel \in Channels
    /\ mCallId \in [Channels -> CallIds]
    /\ handled \subseteq Calls
    /\ acked \subseteq Calls
    /\ late \subseteq Calls

Init ==
    /\ nextCall = 1
    /\ callChannel = [c \in Calls |-> 0]
    /\ outcome = [c \in Calls |-> "none"]
    /\ events = <<>>
    /\ uiChannel = 0
    /\ uiCall = NoCall
    /\ sipCall = NoCall
    /\ sipChannel = 1
    /\ sipMatched = FALSE
    /\ mCallId = [ch \in Channels |-> NoCall]
    /\ handled = {}
    /\ acked = {}
    /\ late = {}

-----------------------------------------------------------------------------
(* The UI thread: SendInvitePlay.                                          *)

\* The SIP thread is through with the outcome of call c.
Finished(c) == c \in handled /\ sipCall # c

\* eXosip_call_send_initial_invite, between eXosip_lock and eXosip_unlock.
SendInvite(ch) ==
    /\ uiChannel = 0
    /\ nextCall \in Calls
    /\ uiChannel' = ch
    /\ uiCall' = nextCall
    /\ nextCall' = nextCall + 1
    /\ callChannel' = [callChannel EXCEPT ![nextCall] = ch]
    /\ outcome' = [outcome EXCEPT ![nextCall] = "invited"]
    /\ UNCHANGED <<events, sipVars, mCallId, handled, acked, late>>

\* The same, returning an error code: no call was made.
SendInviteFails(ch) ==
    /\ uiChannel = 0
    /\ nextCall \in Calls
    /\ uiChannel' = ch
    /\ uiCall' = SendError
    /\ UNCHANGED <<callVars, outcome, events, sipVars, mCallId, handled, acked, late>>

\* The search for call c has left channel ch behind.
Passed(c, ch) ==
    /\ c \in handled
    /\ sipCall = c => sipChannel > ch

\* setCallId, after the lock is released; whatever the send returned is stored.
SetCallId ==
    /\ uiChannel # 0
    /\ mCallId' = [mCallId EXCEPT ![uiChannel] = uiCall]
    /\ late' = IF uiCall \in Calls /\ Passed(uiCall, uiChannel)
               THEN late \union {uiCall} ELSE late
    /\ uiChannel' = 0
    /\ uiCall' = NoCall
    /\ UNCHANGED <<callVars, outcome, events, sipVars, handled, acked>>

-----------------------------------------------------------------------------
(* The cameras and eXosip's own thread, which queues the events.           *)

Proceeding(c) ==
    /\ outcome[c] = "invited"
    /\ \A i \in 1 .. Len(events) : events[i].cid # c    \* bound: one at a time
    /\ events' = Append(events, [type |-> "proceeding", cid |-> c])
    /\ UNCHANGED <<callVars, outcome, uiVars, sipVars, mCallId, handled, acked, late>>

Finish(c) ==
    /\ outcome[c] = "invited"
    /\ \E o \in Outcomes :
          /\ outcome' = [outcome EXCEPT ![c] = o]
          /\ events' = Append(events, [type |-> o, cid |-> c])
    /\ UNCHANGED <<callVars, uiVars, sipVars, mCallId, handled, acked, late>>

\* The camera ends a call with BYE.
HangUp(c) ==
    /\ outcome[c] = "answered"
    /\ outcome' = [outcome EXCEPT ![c] = "ended"]
    /\ events' = Append(events, [type |-> "closed", cid |-> c])
    /\ UNCHANGED <<callVars, uiVars, sipVars, mCallId, handled, acked, late>>

-----------------------------------------------------------------------------
(* The SIP thread.                                                         *)

\* CALL_PROCEEDING, CALL_REQUESTFAILURE, CALL_NOANSWER (the default case),
\* CALL_CLOSED: receiveMessage and Response200, and no change of a channel.
HandleOther ==
    /\ sipCall = NoCall
    /\ events # <<>>
    /\ Head(events).type # "answered"
    /\ events' = Tail(events)
    /\ handled' = IF Head(events).type \in FinalTypes
                  THEN handled \union {Head(events).cid} ELSE handled
    /\ UNCHANGED <<callVars, outcome, uiVars, sipVars, mCallId, acked, late>>

\* CALL_ANSWERED, up to the call of setCallFinished.
HandleAnswered ==
    /\ sipCall = NoCall
    /\ events # <<>>
    /\ Head(events).type = "answered"
    /\ events' = Tail(events)
    /\ handled' = handled \union {Head(events).cid}
    /\ sipCall' = Head(events).cid
    /\ sipChannel' = 1
    /\ sipMatched' = FALSE
    /\ UNCHANGED <<callVars, outcome, uiVars, mCallId, acked, late>>

\* Mutant of Matches: every channel is taken for the one of the call.
Matches_Any(ch) == TRUE

\* channelNode->getCallId() == callId
Matches(ch) == mCallId[ch] = sipCall

\* Mutant: the search ends at the first channel without the mark.
CompareCallId_StopsEarly ==
    /\ sipCall # NoCall
    /\ sipChannel \in Channels
    /\ ~sipMatched
    /\ IF Matches(sipChannel)
       THEN sipMatched' = TRUE /\ UNCHANGED sipChannel
       ELSE sipChannel' = NumChannels + 1 /\ UNCHANGED sipMatched
    /\ UNCHANGED <<callVars, outcome, events, uiVars, sipCall, mCallId,
                   handled, acked, late>>

\* setCallFinished: the comparison, and the assignment it guards.
CompareCallId ==
    /\ sipCall # NoCall
    /\ sipChannel \in Channels
    /\ ~sipMatched
    /\ IF Matches(sipChannel)
       THEN sipMatched' = TRUE /\ UNCHANGED sipChannel
       ELSE sipChannel' = sipChannel + 1 /\ UNCHANGED sipMatched
    /\ UNCHANGED <<callVars, outcome, events, uiVars, sipCall, mCallId,
                   handled, acked, late>>

\* Mutant: the assignment is missing.
ClearCallId_Missing ==
    /\ sipMatched
    /\ sipMatched' = FALSE
    /\ sipChannel' = sipChannel + 1
    /\ UNCHANGED <<callVars, outcome, events, uiVars, sipCall, mCallId,
                   handled, acked, late>>

\* Mutant: the search steps over the channel after the marked one.
ClearCallId_SkipsNext ==
    /\ sipMatched
    /\ mCallId' = [mCallId EXCEPT ![sipChannel] = NoCall]
    /\ sipMatched' = FALSE
    /\ sipChannel' = sipChannel + 2
    /\ UNCHANGED <<callVars, outcome, events, uiVars, sipCall, handled, acked, late>>

ClearCallId ==
    /\ sipMatched
    /\ mCallId' = [mCallId EXCEPT ![sipChannel] = NoCall]
    /\ sipMatched' = FALSE
    /\ sipChannel' = sipChannel + 1
    /\ UNCHANGED <<callVars, outcome, events, uiVars, sipCall, handled, acked, late>>

\* ResponseCallAck, the end of the handler.
ResponseCallAck ==
    /\ sipCall # NoCall
    /\ sipChannel = NumChannels + 1
    /\ acked' = acked \union {sipCall}
    /\ sipCall' = NoCall
    /\ sipChannel' = 1
    /\ UNCHANGED <<callVars, outcome, events, uiVars, sipMatched, mCallId,
                   handled, late>>

-----------------------------------------------------------------------------
UiThread == (\E ch \in Channels : SendInvite(ch) \/ SendInviteFails(ch)) \/ SetCallId
Camera   == \E c \in Calls : Proceeding(c) \/ Finish(c) \/ HangUp(c)
SipThread == HandleOther \/ HandleAnswered \/ CompareCallId \/ ClearCallId \/ ResponseCallAck

Next == UiThread \/ Camera \/ SipThread

Spec == Init /\ [][Next]_vars

\* The SIP thread keeps taking events; nothing is assumed of users and cameras.
FairSpec == Spec /\ WF_vars(SipThread)

-----------------------------------------------------------------------------
(* Properties.                                                             *)

\* Where a mark can come from.  A channel marked with a call was invited by
\* that very call, and either the search for the answered call has yet to reach
\* the channel, or the call was not answered, or the mark was set after the
\* search had passed: the code leaves no other mark behind.
MarksExplained ==
    \A ch \in Channels :
        mCallId[ch] \in Calls =>
            LET c == mCallId[ch]
            IN  /\ callChannel[c] = ch
                /\ \/ ~Passed(c, ch)
                   \/ outcome[c] \in {"refused", "silent"}
                   \/ c \in late

\* What makes MarksExplained inductive: numbers not handed out yet are in no use,
\* the UI thread holds a call of its own channel, and a queued outcome is the one
\* the camera gave.
CallInv ==
    /\ \A c \in Calls : c >= nextCall =>
          callChannel[c] = 0 /\ outcome[c] = "none" /\ c \notin handled
    /\ uiCall \in Calls => uiChannel \in Channels /\ callChannel[uiCall] = uiChannel
    /\ \A i \in 1 .. Len(events) :
          /\ outcome[events[i].cid] # "none"
          /\ events[i].type \in {"refused", "silent"} =>
                outcome[events[i].cid] = events[i].type

InviteInv == TypeOK /\ CallInv /\ MarksExplained

\* What the assignment in setCallFinished rests on: the UI thread is about to store the
\* last call made, or an error; the channel whose mark was found equal belongs to the
\* answered call, and what has been stored in it since is no older call.
MatchInv ==
    /\ uiChannel # 0 => uiCall # NoCall
    /\ uiCall \in Calls => uiCall = nextCall - 1
    /\ sipMatched =>
          /\ callChannel[sipCall] = sipChannel
          /\ mCallId[sipChannel] \in Calls => mCallId[sipChannel] >= sipCall

\* Whose mark an answer removes: one of the channel the answered call was made
\* for, set by that call or by a later one.  The later one is lost because the
\* comparison and the assignment are two steps; marks of other channels, and of
\* calls that are older, are left alone.
AnswerClearsOwnChannel ==
    [][\A ch \in Channels :
          mCallId[ch] \in Calls /\ mCallId'[ch] = NoCall =>
              callChannel[sipCall] = ch /\ mCallId[ch] >= sipCall]_vars

\* A channel that was marked before the answer came is freed and the answer is
\* acknowledged, whatever else the user and the cameras do.
TimelyMarkIsRemoved ==
    \A c \in Calls, ch \in Channels :
        (mCallId[ch] = c /\ outcome[c] = "answered" /\ c \notin handled)
            ~> (mCallId[ch] # c /\ c \in acked)

\* VideoChannel.h says of mCallId: not -1 means an INVITE is being sent.
MarkMeansInProgress ==
    \A ch \in Channels : mCallId[ch] \in Calls => ~Finished(mCallId[ch])
=============================================================================
