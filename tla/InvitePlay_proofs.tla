------------------------- MODULE InvitePlay_proofs -------------------------
(***************************************************************************)
(* Proofs about InvitePlay for any number of channels and calls, any user  *)
(* and any behaviour of the cameras.                                       *)
(***************************************************************************)
EXTENDS InvitePlay, SequenceTheorems, TLAPS

\* The call ids outside of Calls.
LEMMA CallIdFacts ==
    /\ NoCall \notin Calls /\ SendError \notin Calls
    /\ Calls \subseteq CallIds /\ NoCall \in CallIds /\ SendError \in CallIds
BY InviteAssumption DEF InviteAssumption, Calls, NoCall, SendError, CallIds

\* What is left of the queue when its head is taken, and what was in it.
LEMMA EventQueue ==
    ASSUME TypeOK, events # <<>>
    PROVE  /\ Head(events) \in Events /\ Tail(events) \in Seq(Events)
           /\ Len(events) \in Nat \ {0} /\ Head(events) = events[1]
           /\ Len(Tail(events)) = Len(events) - 1
           /\ \A i \in 1 .. Len(events) - 1 : Tail(events)[i] = events[i + 1]
           /\ Head(events).cid \in Calls /\ Head(events).type \in EventTypes
<1>1. events \in Seq(Events)
  BY DEF TypeOK
<1>2. Head(events) \in Events /\ Tail(events) \in Seq(Events)
  BY <1>1, HeadTailProperties
<1> QED BY <1>1, <1>2, EmptySeq, HeadTailProperties DEF Events

\* The type invariant holds initially and every step keeps it.
LEMMA TypeInductive ==
    /\ Init => TypeOK
    /\ TypeOK /\ [Next]_vars => TypeOK'
<1> USE InviteAssumption, CallIdFacts DEF InviteAssumption
<1>0. /\ 1 \in 1 .. MaxCalls + 1 /\ 1 \in 1 .. NumChannels + 1
      /\ \A ch \in Channels : ch + 1 \in 1 .. NumChannels + 1
      /\ NumChannels + 1 \notin Channels
  BY DEF Channels
<1>1. Init => TypeOK
  <2>1. <<>> \in Seq(Events)
    BY EmptySeq
  <2> QED BY <1>0, <2>1 DEF Init, TypeOK
<1>2. ASSUME TypeOK, [Next]_vars PROVE TypeOK'
  <2> USE <1>2
  <2>1. ASSUME NEW ch \in Channels, SendInvite(ch) PROVE TypeOK'
    BY <2>1 DEF SendInvite, TypeOK, sipVars, Calls
  <2>2. ASSUME NEW ch \in Channels, SendInviteFails(ch) PROVE TypeOK'
    BY <2>2 DEF SendInviteFails, TypeOK, callVars, sipVars
  <2>3. CASE SetCallId
    BY <2>3 DEF SetCallId, TypeOK, callVars, sipVars
  <2>4. ASSUME NEW c \in Calls, Proceeding(c) PROVE TypeOK'
    <3>1. [type |-> "proceeding", cid |-> c] \in Events
      BY DEF Events, EventTypes
    <3>2. events' \in Seq(Events)
      BY <2>4, <3>1, AppendProperties DEF Proceeding, TypeOK
    <3> QED BY <2>4, <3>2 DEF Proceeding, TypeOK, callVars, uiVars, sipVars
  <2>5. ASSUME NEW c \in Calls, Finish(c) PROVE TypeOK'
    <3>1. PICK o \in Outcomes : /\ outcome' = [outcome EXCEPT ![c] = o]
                                /\ events' = Append(events, [type |-> o, cid |-> c])
      BY <2>5 DEF Finish
    <3>2. o \in FinalTypes /\ [type |-> o, cid |-> c] \in Events
      BY DEF FinalTypes, Events, EventTypes
    <3>3. events' \in Seq(Events)
      BY <3>1, <3>2, AppendProperties DEF TypeOK
    <3> QED BY <2>5, <3>1, <3>2, <3>3 DEF Finish, TypeOK, callVars, uiVars, sipVars
  <2>6. ASSUME NEW c \in Calls, HangUp(c) PROVE TypeOK'
    <3>1. [type |-> "closed", cid |-> c] \in Events
      BY DEF Events, EventTypes
    <3>2. events' \in Seq(Events)
      BY <2>6, <3>1, AppendProperties DEF HangUp, TypeOK
    <3> QED BY <2>6, <3>2 DEF HangUp, TypeOK, callVars, uiVars, sipVars
  <2>7. CASE HandleOther
    BY <2>7, EventQueue DEF HandleOther, TypeOK, callVars, uiVars, sipVars
  <2>8. CASE HandleAnswered
    BY <1>0, <2>8, EventQueue DEF HandleAnswered, TypeOK, callVars, uiVars
  <2>9. CASE CompareCallId
    BY <1>0, <2>9 DEF CompareCallId, TypeOK, callVars, uiVars
  <2>10. CASE ClearCallId
    BY <1>0, <2>10 DEF ClearCallId, TypeOK, callVars, uiVars
  <2>11. CASE ResponseCallAck
    BY <1>0, <2>11 DEF ResponseCallAck, TypeOK, callVars, uiVars
  <2>12. CASE UNCHANGED vars
    BY <2>12 DEF vars, TypeOK
  <2> QED BY <2>1, <2>2, <2>3, <2>4, <2>5, <2>6, <2>7, <2>8, <2>9, <2>10, <2>11, <2>12
          DEF Next, UiThread, Camera, SipThread
<1> QED BY <1>1, <1>2

\* Type correctness of the invitation, for every value of the constants.
THEOREM InviteTypeCorrect == Spec => []TypeOK
BY TypeInductive, PTL DEF Spec

-----------------------------------------------------------------------------
\* The members of the queue after an event is appended.
LEMMA QueueAppend ==
    ASSUME TypeOK, NEW e \in Events, NEW i \in 1 .. Len(Append(events, e))
    PROVE  \/ i \in 1 .. Len(events) /\ Append(events, e)[i] = events[i]
           \/ Append(events, e)[i] = e
BY AppendProperties DEF TypeOK

\* The members of the queue after its head is taken.
LEMMA QueueTail ==
    ASSUME TypeOK, events # <<>>, NEW i \in 1 .. Len(Tail(events))
    PROVE  i + 1 \in 1 .. Len(events) /\ Tail(events)[i] = events[i + 1]
BY EventQueue

\* Every queued event names a call.
LEMMA QueueType ==
    ASSUME TypeOK, NEW i \in 1 .. Len(events)
    PROVE  events[i] \in Events /\ events[i].cid \in Calls
<1>1. events \in Seq(Events)
  BY DEF TypeOK
<1>2. events[i] \in Events
  BY <1>1, ElementOfSeq
<1> QED BY <1>2 DEF Events

\* Every step keeps CallInv.
LEMMA CallInvStep ==
    ASSUME TypeOK, CallInv, [Next]_vars
    PROVE  CallInv'
<1> USE InviteAssumption, CallIdFacts DEF InviteAssumption
<1> DEFINE EventOK(e) == /\ outcome[e.cid] # "none"
                         /\ e.type \in {"refused", "silent"} => outcome[e.cid] = e.type
<1>0. \A c \in Calls : c >= nextCall =>
          callChannel[c] = 0 /\ outcome[c] = "none" /\ c \notin handled
  BY DEF CallInv
<1>1. ASSUME NEW ch \in Channels, SendInvite(ch) PROVE CallInv'
  <2>1. ASSUME NEW c \in Calls, c >= nextCall'
        PROVE  callChannel'[c] = 0 /\ outcome'[c] = "none" /\ c \notin handled'
    BY <1>0, <1>1, <2>1 DEF SendInvite, TypeOK, Calls
  <2>2. uiCall' \in Calls => uiChannel' \in Channels /\ callChannel'[uiCall'] = uiChannel'
    BY <1>1 DEF SendInvite, TypeOK
  <2>3. ASSUME NEW i \in 1 .. Len(events') PROVE EventOK(events[i])'
    <3>1. i \in 1 .. Len(events) /\ events' = events
      BY <1>1, <2>3 DEF SendInvite
    <3>2. outcome[nextCall] = "none" /\ nextCall \in Calls
      BY <1>0, <1>1 DEF SendInvite, TypeOK, Calls
    <3>3. events[i].cid \in Calls /\ outcome[events[i].cid] # "none" /\ EventOK(events[i])
      BY <3>1, QueueType DEF CallInv
    <3> QED BY <1>1, <3>1, <3>2, <3>3 DEF SendInvite, TypeOK
  <2> QED BY <2>1, <2>2, <2>3 DEF CallInv
<1>2. ASSUME NEW ch \in Channels, SendInviteFails(ch) PROVE CallInv'
  BY <1>2 DEF SendInviteFails, CallInv, callVars
<1>3. CASE SetCallId
  BY <1>3 DEF SetCallId, CallInv, callVars
<1>4. ASSUME NEW c \in Calls, Proceeding(c) PROVE CallInv'
  <2> DEFINE e == [type |-> "proceeding", cid |-> c]
  <2>1. e \in Events /\ EventOK(e) /\ events' = Append(events, e) /\ outcome' = outcome
    BY <1>4 DEF Events, EventTypes, Proceeding
  <2>2. \A i \in 1 .. Len(events') : EventOK(events[i])'
    BY <2>1, QueueAppend DEF CallInv
  <2> QED BY <1>4, <2>2 DEF Proceeding, CallInv, callVars, uiVars
<1>5. ASSUME NEW c \in Calls, Finish(c) PROVE CallInv'
  <2>1. PICK o \in Outcomes : /\ outcome' = [outcome EXCEPT ![c] = o]
                              /\ events' = Append(events, [type |-> o, cid |-> c])
    BY <1>5 DEF Finish
  <2> DEFINE e == [type |-> o, cid |-> c]
  <2>2. /\ e \in Events /\ outcome'[c] = o /\ o # "none"
        /\ \A d \in Calls \ {c} : outcome'[d] = outcome[d]
    BY <2>1 DEF Events, EventTypes, FinalTypes, TypeOK
  <2>3. ASSUME NEW i \in 1 .. Len(events') PROVE EventOK(events[i])'
    <3>1. CASE events'[i] = e
      BY <2>2, <3>1
    <3>2. CASE i \in 1 .. Len(events) /\ events'[i] = events[i]
      <4>1. EventOK(events[i]) /\ events[i].cid \in Calls
        BY <3>2, QueueType DEF CallInv
      <4>2. events[i].cid = c => events[i].type \notin {"refused", "silent"}
        BY <1>5, <4>1 DEF Finish
      <4> QED BY <2>2, <3>2, <4>1, <4>2
    <3> QED BY <2>1, <2>2, <3>1, <3>2, QueueAppend
  <2>4. outcome[c] = "invited"
    BY <1>5 DEF Finish
  <2>5. ASSUME NEW d \in Calls, d >= nextCall'
        PROVE  callChannel'[d] = 0 /\ outcome'[d] = "none" /\ d \notin handled'
    BY <1>0, <1>5, <2>2, <2>4, <2>5 DEF Finish, callVars
  <2> QED BY <1>5, <2>3, <2>5 DEF Finish, CallInv, callVars, uiVars
<1>6. ASSUME NEW c \in Calls, HangUp(c) PROVE CallInv'
  <2> DEFINE e == [type |-> "closed", cid |-> c]
  <2>1. /\ e \in Events /\ events' = Append(events, e)
        /\ outcome[c] = "answered" /\ outcome'[c] = "ended"
        /\ \A d \in Calls \ {c} : outcome'[d] = outcome[d]
    BY <1>6 DEF Events, EventTypes, HangUp, TypeOK
  <2>2. ASSUME NEW i \in 1 .. Len(events') PROVE EventOK(events[i])'
    <3>1. CASE events'[i] = e
      BY <2>1, <3>1
    <3>2. CASE i \in 1 .. Len(events) /\ events'[i] = events[i]
      <4>1. EventOK(events[i]) /\ events[i].cid \in Calls
        BY <3>2, QueueType DEF CallInv
      <4> QED BY <2>1, <3>2, <4>1
    <3> QED BY <2>1, <3>1, <3>2, QueueAppend
  <2>3. ASSUME NEW d \in Calls, d >= nextCall'
        PROVE  callChannel'[d] = 0 /\ outcome'[d] = "none" /\ d \notin handled'
    BY <1>0, <1>6, <2>1, <2>3 DEF HangUp, callVars
  <2> QED BY <1>6, <2>2, <2>3 DEF HangUp, CallInv, callVars, uiVars
<1>7. CASE HandleOther \/ HandleAnswered
  <2>1. /\ events # <<>> /\ events' = Tail(events) /\ outcome' = outcome
        /\ UNCHANGED <<nextCall, callChannel, uiChannel, uiCall>>
        /\ handled' = handled \/ handled' = handled \union {Head(events).cid}
    BY <1>7 DEF HandleOther, HandleAnswered, callVars, uiVars
  <2>2. outcome[Head(events).cid] # "none" /\ Head(events).cid \in Calls
    BY <2>1, EventQueue DEF CallInv
  <2>3. \A i \in 1 .. Len(events') : EventOK(events[i])'
    BY <2>1, QueueTail DEF CallInv
  <2> QED BY <2>1, <2>2, <2>3 DEF CallInv
<1>8. CASE CompareCallId \/ ClearCallId \/ ResponseCallAck
  BY <1>8 DEF CompareCallId, ClearCallId, ResponseCallAck, CallInv, callVars, uiVars
<1>9. CASE UNCHANGED vars
  BY <1>9 DEF vars, CallInv
<1> QED BY <1>1, <1>2, <1>3, <1>4, <1>5, <1>6, <1>7, <1>8, <1>9
        DEF Next, UiThread, Camera, SipThread

-----------------------------------------------------------------------------
\* Every step keeps MarksExplained.
LEMMA MarksStep ==
    ASSUME TypeOK, CallInv, MarksExplained, [Next]_vars
    PROVE  MarksExplained'
<1> USE InviteAssumption, CallIdFacts DEF InviteAssumption
<1> DEFINE Explained(c, ch) == /\ callChannel[c] = ch
                               /\ \/ ~Passed(c, ch)
                                  \/ outcome[c] \in {"refused", "silent"}
                                  \/ c \in late
<1> SUFFICES ASSUME NEW ch \in Channels, NEW c \in Calls, mCallId'[ch] = c
             PROVE  Explained(c, ch)'
  BY DEF MarksExplained
<1>0. mCallId[ch] = c => Explained(c, ch)
  BY DEF MarksExplained
<1>1. ASSUME NEW d \in Channels, SendInvite(d) PROVE Explained(c, ch)'
  <2>1. c = mCallId[ch] /\ Explained(c, ch)
    BY <1>0, <1>1 DEF SendInvite
  <2>2. c # nextCall
    BY <1>1, <2>1 DEF CallInv, Channels, Calls, SendInvite, TypeOK
  <2> QED BY <1>1, <2>1, <2>2 DEF SendInvite, TypeOK, Passed, sipVars
<1>2. ASSUME NEW d \in Channels, SendInviteFails(d) PROVE Explained(c, ch)'
  BY <1>0, <1>2 DEF SendInviteFails, Passed, sipVars, callVars
<1>3. CASE SetCallId
  <2>1. CASE ch = uiChannel
    <3>1. c = uiCall /\ callChannel[c] = ch
      BY <1>3, <2>1 DEF SetCallId, TypeOK, CallInv
    <3>2. UNCHANGED <<callChannel, outcome, handled, sipCall, sipChannel>>
      BY <1>3 DEF SetCallId, callVars, sipVars
    <3>3. ~Passed(c, ch) \/ c \in late'
      BY <1>3, <2>1, <3>1 DEF SetCallId
    <3> QED BY <3>1, <3>2, <3>3 DEF Passed
  <2>2. CASE ch # uiChannel
    BY <1>0, <1>3, <2>2 DEF SetCallId, TypeOK, Passed, callVars, sipVars
  <2> QED BY <2>1, <2>2
<1>4. ASSUME NEW d \in Calls, Proceeding(d) PROVE Explained(c, ch)'
  BY <1>0, <1>4 DEF Proceeding, Passed, callVars, sipVars
<1>5. ASSUME NEW d \in Calls, Finish(d) \/ HangUp(d) PROVE Explained(c, ch)'
  <2>1. /\ \A b \in Calls \ {d} : outcome'[b] = outcome[b]
        /\ outcome[d] \notin {"refused", "silent"}
        /\ UNCHANGED <<callChannel, mCallId, handled, late, sipCall, sipChannel>>
    BY <1>5 DEF Finish, HangUp, TypeOK, callVars, sipVars
  <2> QED BY <1>0, <2>1 DEF Passed
<1>6. CASE HandleOther
  <2>1. /\ UNCHANGED <<callChannel, mCallId, outcome, late, sipCall, sipChannel>>
        /\ events # <<>> /\ sipCall = NoCall
        /\ handled' = IF Head(events).type \in FinalTypes
                      THEN handled \union {Head(events).cid} ELSE handled
    BY <1>6 DEF HandleOther, callVars, sipVars
  <2>2. CASE c = Head(events).cid /\ Head(events).type \in FinalTypes
    BY <1>0, <1>6, <2>1, <2>2, EventQueue DEF HandleOther, CallInv, FinalTypes
  <2>3. CASE ~(c = Head(events).cid /\ Head(events).type \in FinalTypes)
    BY <1>0, <2>1, <2>3 DEF Passed
  <2> QED BY <2>2, <2>3
<1>7. CASE HandleAnswered
  <2>1. /\ UNCHANGED <<callChannel, mCallId, outcome, late>>
        /\ sipCall' = Head(events).cid /\ sipChannel' = 1 /\ sipCall = NoCall
        /\ handled' = handled \union {Head(events).cid}
    BY <1>7 DEF HandleAnswered, callVars
  <2>2. ~(1 > ch)
    BY DEF Channels
  <2> QED BY <1>0, <2>1, <2>2 DEF Passed
<1>8. CASE CompareCallId
  <2>1. UNCHANGED <<callChannel, mCallId, outcome, late, handled, sipCall>>
    BY <1>8 DEF CompareCallId, callVars
  <2>2. c = sipCall /\ Passed(c, ch)' => Passed(c, ch)
    BY <1>8, <2>1 DEF CompareCallId, Matches, Passed, Channels, TypeOK
  <2>3. c # sipCall /\ Passed(c, ch)' => Passed(c, ch)
    BY <2>1 DEF Passed
  <2> QED BY <1>0, <2>1, <2>2, <2>3
<1>9. CASE ClearCallId
  <2>1. /\ UNCHANGED <<callChannel, outcome, late, handled, sipCall>>
        /\ mCallId' = [mCallId EXCEPT ![sipChannel] = NoCall]
        /\ sipChannel' = sipChannel + 1 /\ sipChannel \in Channels
    BY <1>9 DEF ClearCallId, callVars, TypeOK
  <2>2. ch # sipChannel /\ c = mCallId[ch]
    BY <2>1 DEF TypeOK
  <2>3. Passed(c, ch)' => Passed(c, ch)
    BY <2>1, <2>2 DEF Passed, Channels
  <2> QED BY <1>0, <2>1, <2>2, <2>3
<1>10. CASE ResponseCallAck
  <2>1. /\ UNCHANGED <<callChannel, mCallId, outcome, late, handled>>
        /\ sipChannel = NumChannels + 1 /\ sipCall' = NoCall
    BY <1>10 DEF ResponseCallAck, callVars
  <2>2. Passed(c, ch)' => Passed(c, ch)
    BY <2>1 DEF Passed, Channels
  <2> QED BY <1>0, <2>1, <2>2
<1>11. CASE UNCHANGED vars
  BY <1>0, <1>11 DEF vars, Passed
<1> QED BY <1>1, <1>2, <1>3, <1>4, <1>5, <1>6, <1>7, <1>8, <1>9, <1>10, <1>11
        DEF Next, UiThread, Camera, SipThread

\* A channel can keep a mark only for three reasons: the outcome of its call is
\* still to come, the call was not answered, or setCallId was overtaken by the
\* answer.  For any number of channels and calls.
THEOREM MarksAreExplained == Spec => []MarksExplained
<1>1. Init => InviteInv
  <2>1. Init => CallInv /\ MarksExplained
    BY EmptySeq, CallIdFacts DEF Init, CallInv, MarksExplained
  <2> QED BY <2>1, TypeInductive DEF InviteInv
<1>2. InviteInv /\ [Next]_vars => InviteInv'
  BY TypeInductive, CallInvStep, MarksStep DEF InviteInv
<1>3. InviteInv => MarksExplained
  BY DEF InviteInv
<1> QED BY <1>1, <1>2, <1>3, PTL DEF Spec

-----------------------------------------------------------------------------
\* Every step keeps MatchInv.
LEMMA MatchStep ==
    ASSUME InviteInv, MatchInv, [Next]_vars
    PROVE  MatchInv'
<1> USE InviteAssumption, CallIdFacts DEF InviteAssumption
<1>0. /\ nextCall \in Nat /\ \A c \in Calls : c \in Nat
      /\ sipMatched => sipCall \in Calls /\ sipChannel \in Channels
  BY DEF InviteInv, TypeOK, Calls
<1>h. sipMatched => sipCall < nextCall
  BY <1>0 DEF InviteInv, CallInv, MatchInv, Channels
<1>1. ASSUME NEW ch \in Channels, SendInvite(ch) PROVE MatchInv'
  <2>1. uiCall' = nextCall /\ nextCall' = nextCall + 1 /\ nextCall \in Calls
    BY <1>1 DEF SendInvite
  <2>2. /\ UNCHANGED <<sipMatched, sipCall, sipChannel, mCallId>>
        /\ sipMatched => callChannel'[sipCall] = callChannel[sipCall]
    BY <1>0, <1>h, <1>1 DEF SendInvite, sipVars, InviteInv, TypeOK
  <2> QED BY <1>0, <2>1, <2>2 DEF MatchInv
<1>2. ASSUME NEW ch \in Channels, SendInviteFails(ch) PROVE MatchInv'
  <2>1. NoCall # SendError
    BY DEF NoCall, SendError
  <2> QED BY <1>2, <2>1 DEF SendInviteFails, sipVars, callVars, MatchInv
<1>3. CASE SetCallId
  <2>1. /\ uiChannel' = 0 /\ uiCall' = NoCall /\ uiChannel # 0
        /\ mCallId' = [mCallId EXCEPT ![uiChannel] = uiCall]
        /\ UNCHANGED <<nextCall, callChannel, sipCall, sipChannel, sipMatched>>
    BY <1>3 DEF SetCallId, callVars, sipVars
  <2>2. ASSUME sipMatched, mCallId'[sipChannel] \in Calls
        PROVE  mCallId'[sipChannel] >= sipCall
    <3>1. CASE uiChannel = sipChannel
      <4>1. mCallId'[sipChannel] = uiCall
        BY <1>0, <2>1, <2>2, <3>1 DEF InviteInv, TypeOK
      <4> QED BY <1>0, <1>h, <2>2, <4>1 DEF MatchInv
    <3>2. CASE uiChannel # sipChannel
      <4>1. mCallId'[sipChannel] = mCallId[sipChannel]
        BY <2>1, <2>2, <1>0, <3>2 DEF InviteInv, TypeOK
      <4> QED BY <2>2, <4>1 DEF MatchInv
    <3> QED BY <3>1, <3>2
  <2> QED BY <2>1, <2>2 DEF MatchInv
<1>4. ASSUME NEW c \in Calls, Proceeding(c) \/ Finish(c) \/ HangUp(c) PROVE MatchInv'
  BY <1>4 DEF Proceeding, Finish, HangUp, callVars, uiVars, sipVars, MatchInv
<1>5. CASE HandleOther
  BY <1>5 DEF HandleOther, callVars, uiVars, sipVars, MatchInv
<1>6. CASE HandleAnswered \/ ClearCallId
  BY <1>6 DEF HandleAnswered, ClearCallId, callVars, uiVars, MatchInv
<1>7. CASE CompareCallId
  <2>1. /\ UNCHANGED <<nextCall, callChannel, uiChannel, uiCall, sipCall, mCallId>>
        /\ ~sipMatched /\ sipCall # NoCall /\ sipChannel \in Channels
    BY <1>7 DEF CompareCallId, callVars, uiVars
  <2>2. ASSUME sipMatched'
        PROVE  sipChannel' = sipChannel /\ mCallId[sipChannel] = sipCall
    BY <1>7, <2>1, <2>2 DEF CompareCallId, Matches
  <2>3. sipCall \in Calls
    BY <2>1 DEF InviteInv, TypeOK
  <2>4. mCallId[sipChannel] = sipCall => callChannel[sipCall] = sipChannel
    BY <2>1, <2>3 DEF InviteInv, MarksExplained
  <2> QED BY <1>0, <2>1, <2>2, <2>3, <2>4 DEF MatchInv
<1>8. CASE ResponseCallAck
  <2>1. ~sipMatched
    BY <1>0, <1>8 DEF ResponseCallAck, Channels
  <2> QED BY <1>8, <2>1 DEF ResponseCallAck, callVars, uiVars, MatchInv
<1>9. CASE UNCHANGED vars
  BY <1>9 DEF vars, MatchInv
<1> QED BY <1>1, <1>2, <1>3, <1>4, <1>5, <1>6, <1>7, <1>8, <1>9
        DEF Next, UiThread, Camera, SipThread

\* An answer removes no mark but one of its own channel, set by the answered call or by a
\* later one: for any number of channels and calls.
THEOREM AnswersClearOwnChannel == Spec => AnswerClearsOwnChannel
<1> DEFINE Clears == \A ch \in Channels :
                        mCallId[ch] \in Calls /\ mCallId'[ch] = NoCall =>
                            callChannel[sipCall] = ch /\ mCallId[ch] >= sipCall
<1>1. Init => InviteInv /\ MatchInv
  <2>1. Init => CallInv /\ MarksExplained /\ MatchInv
    BY EmptySeq, CallIdFacts DEF Init, CallInv, MarksExplained, MatchInv
  <2> QED BY <2>1, TypeInductive DEF InviteInv
<1>2. InviteInv /\ MatchInv /\ [Next]_vars => (InviteInv /\ MatchInv)'
  BY TypeInductive, CallInvStep, MarksStep, MatchStep DEF InviteInv
<1>3. ASSUME InviteInv, MatchInv, [Next]_vars PROVE [Clears]_vars
  <2> USE CallIdFacts
  <2>1. CASE UNCHANGED vars
    BY <2>1
  <2>2. CASE UNCHANGED mCallId
    BY <2>2
  <2>3. CASE SetCallId
    <3>1. uiCall # NoCall /\ uiChannel \in Channels
      BY <2>3, <1>3 DEF SetCallId, MatchInv, InviteInv, TypeOK
    <3>2. mCallId' = [mCallId EXCEPT ![uiChannel] = uiCall]
      BY <2>3 DEF SetCallId
    <3> QED BY <1>3, <3>1, <3>2 DEF InviteInv, TypeOK
  <2>4. CASE ClearCallId
    <3>1. sipMatched /\ mCallId' = [mCallId EXCEPT ![sipChannel] = NoCall]
      BY <2>4 DEF ClearCallId
    <3>2. \A ch \in Channels : ch # sipChannel => mCallId'[ch] = mCallId[ch]
      BY <1>3, <3>1 DEF InviteInv, TypeOK
    <3> QED BY <1>3, <3>1, <3>2 DEF MatchInv
  <2>5. UNCHANGED mCallId \/ SetCallId \/ ClearCallId \/ UNCHANGED vars
    BY <1>3 DEF Next, UiThread, Camera, SipThread, SendInvite, SendInviteFails, Proceeding,
           Finish, HangUp, HandleOther, HandleAnswered, CompareCallId, ResponseCallAck
  <2> QED BY <2>1, <2>2, <2>3, <2>4, <2>5
<1>4. Spec => [][Clears]_vars
  BY <1>1, <1>2, <1>3, PTL DEF Spec
<1> QED BY <1>4 DEF AnswerClearsOwnChannel
=============================================================================
