----------------------- MODULE DeviceRegistry_proofs -----------------------
(***************************************************************************)
(* Proofs about DeviceRegistry and MediaRouting for any cameras, whatever  *)
(* they report, however often they start over and the server is restarted. *)
(***************************************************************************)
EXTENDS MediaRouting, SequenceTheorems, TLAPS

\* What is left of the queue when its head is taken.
LEMMA EventQueue ==
    ASSUME TypeOK, events # <<>>
    PROVE  /\ Head(events) \in Requests /\ Head(events) = events[1]
           /\ Head(events).cam \in Cameras /\ Head(events).epoch \in Nat
           /\ Head(events).items \in Seq(Items) /\ Head(events).kind \in Kinds
           /\ Tail(events) \in Seq(Requests)
           /\ Len(events) \in Nat \ {0} /\ Len(Tail(events)) = Len(events) - 1
           /\ \A i \in 1 .. Len(events) - 1 : Tail(events)[i] = events[i + 1]
<1>1. events \in Seq(Requests)
  BY DEF TypeOK
<1>2. Head(events) \in Requests /\ Tail(events) \in Seq(Requests)
  BY <1>1, HeadTailProperties
<1> QED BY <1>1, <1>2, EmptySeq, HeadTailProperties DEF Requests

\* The type of the queue once a camera has sent something.
LEMMA SendType ==
    ASSUME TypeOK, NEW c \in Cameras, NEW kind \in Kinds, NEW items \in Seq(Items),
           Send(c, kind, items)
    PROVE  events' \in Seq(Requests) /\ lastRemote' \in Addresses
<1>1. [kind |-> kind, cam |-> c, epoch |-> epoch[c], items |-> items] \in Requests
  BY DEF TypeOK, Requests
<1>2. events \in Seq(Requests)
  BY DEF TypeOK
<1> QED BY <1>1, <1>2, AppendProperties DEF Send, Addresses

\* The reply to a request is one.
LEMMA AnswerType ==
    ASSUME TypeOK, NEW e \in Requests, NEW code \in {200, 401, 403}, Answer(e, code)
    PROVE  replies' \subseteq Replies
BY DEF TypeOK, Requests, Replies, Answer

\* A sequence by its function.
LEMMA SeqOf ==
    ASSUME NEW S, NEW n \in Nat, NEW f \in [1 .. n -> S]
    PROVE  f \in Seq(S) /\ Len(f) = n
<1>1. f \in Seq(S)
  BY SeqDef
<1>2. Len(f) \in Nat /\ 1 .. Len(f) = 1 .. n
  BY <1>1, LenProperties
<1> QED BY <1>1, <1>2

\* A record of a device list with another list of channels.
LEMMA ExceptChannelList ==
    ASSUME NEW S, NEW T, NEW device \in [cam : S, channelList : T], NEW list
    PROVE  [device EXCEPT !.channelList = list] = [cam |-> device.cam, channelList |-> list]
OBVIOUS

\* A query for a camera.
LEMMA QueryType ==
    ASSUME TypeOK, NEW c \in Cameras, SendQueryCatalog(c)
    PROVE  queries' \in [Cameras -> Nat]
BY DEF TypeOK, SendQueryCatalog

\* The entry the loop has reached.
LEMMA LoopEntry ==
    ASSUME TypeOK, InLoop
    PROVE  /\ deviceNode \in Devices
           /\ catalog.item \in Items /\ catalog.cam \in Cameras
           /\ catalog.remote \in Addresses /\ catalog.deviceListTmp \in Seq(Devices)
           /\ Len(catalog.deviceListTmp) + 1 \in 1 .. Len(mDeviceList)
           /\ catalog = [in |-> "catalog", item |-> catalog.item, cam |-> catalog.cam,
                         remote |-> catalog.remote,
                         deviceListTmp |-> catalog.deviceListTmp]
<1>1. catalog \in [in : {"catalog"}, item : Items, cam : Cameras,
                   remote : Addresses, deviceListTmp : Seq(Devices)]
  BY DEF TypeOK, Loops, InLoop
<1>2. catalog.deviceListTmp \in Seq(Devices) /\ mDeviceList \in Seq(Devices)
  BY <1>1 DEF TypeOK
<1>3. Len(catalog.deviceListTmp) + 1 \in 1 .. Len(mDeviceList)
  BY <1>2, LenProperties DEF InLoop
<1>4. deviceNode \in Devices
  BY <1>2, <1>3, ElementOfSeq DEF deviceNode
<1> QED BY <1>1, <1>2, <1>3, <1>4

\* An entry is put behind the new list.
LEMMA PushBackType ==
    ASSUME TypeOK, InLoop, NEW S, NEW device \in S, catalog.deviceListTmp \in Seq(S),
           PushBack(device)
    PROVE  catalog' \in [in : {"catalog"}, item : Items, cam : Cameras,
                         remote : Addresses, deviceListTmp : Seq(S)]
<1>1. Append(catalog.deviceListTmp, device) \in Seq(S)
  BY AppendProperties
<1>2. catalog' = [in |-> "catalog", item |-> catalog.item, cam |-> catalog.cam,
                  remote |-> catalog.remote,
                  deviceListTmp |-> Append(catalog.deviceListTmp, device)]
  BY LoopEntry DEF PushBack
<1> QED BY <1>1, <1>2, LoopEntry

\* The server is not in a Catalog message, or at the end of its device list.
LEMMA NoLoopType == NoLoop \in Loops
BY DEF Loops

\* The type invariant holds initially and every step keeps it.
LEMMA TypeInit == Init => TypeOK
<1> USE RegistryAssumption DEF RegistryAssumption
<1>1. \A S : <<>> \in Seq(S)
  BY EmptySeq
<1> QED BY <1>1, NoLoopType DEF Init, TypeOK, Addresses, CameraStates

LEMMA CameraType ==
    ASSUME TypeOK, NEW c \in Cameras, Camera(c) \/ CamNotify(c) \/ CamStartOver(c)
    PROVE  TypeOK'
<1> USE RegistryAssumption DEF RegistryAssumption
<1>0. <<>> \in Seq(Items)
  BY EmptySeq
<1>1. ASSUME NEW from \in CameraStates, NEW to \in CameraStates, NEW kind \in Kinds,
             Request(c, from, to, kind)
      PROVE  TypeOK'
  <2>1. Send(c, kind, <<>>)
    BY <1>1 DEF Request
  <2>2. events' \in Seq(Requests) /\ lastRemote' \in Addresses
    BY <2>1, <1>0, SendType
  <2> QED BY <1>1, <2>2 DEF Request, TypeOK, netVars, srvVars, uiVars, Devices, VideoChannels,
             Signals, Loops
<1>2. CASE CamRegister(c) \/ CamKeepalive(c) \/ CamNotify(c)
  BY <1>1, <1>2 DEF CamRegister, CamKeepalive, CamNotify, CameraStates, Kinds
<1>3. CASE CamTakeReply(c)
  <2>1. events' \in Seq(Requests) /\ lastRemote' \in Addresses
    <3>1. CASE Send(c, "RegisterAuth", <<>>)
      BY <3>1, <1>0, SendType DEF Kinds
    <3>2. CASE UNCHANGED <<events, lastRemote>>
      BY <3>2 DEF TypeOK
    <3> QED BY <1>3, <3>1, <3>2 DEF CamTakeReply
  <2>2. camera' \in [Cameras -> CameraStates] /\ replies' \subseteq Replies
    <3>1. PICK r \in replies :
             /\ replies' = replies \ {r}
             /\ \E to \in {"proving", "online", "off"} : camera' = [camera EXCEPT ![c] = to]
      BY <1>3 DEF CamTakeReply
    <3>2. camera \in [Cameras -> CameraStates] /\ replies \subseteq Replies
      BY DEF TypeOK
    <3>3. {"proving", "online", "off"} \subseteq CameraStates
      BY DEF CameraStates
    <3>4. camera' \in [Cameras -> CameraStates]
      BY <3>1, <3>2, <3>3
    <3> QED BY <3>1, <3>2, <3>4
  <2>3. UNCHANGED <<epoch, queries, srvVars, signals, uiVars>>
    BY <1>3 DEF CamTakeReply
  <2> QED BY <2>1, <2>2, <2>3 DEF TypeOK, srvVars, uiVars, Devices, VideoChannels, Signals, Loops
<1>4. CASE CamTimeout(c)
  BY <1>4 DEF CamTimeout, TypeOK, CameraStates, netVars, srvVars, uiVars, Devices, VideoChannels,
              Signals, Loops
<1>5. CASE CamReport(c)
  <2> DEFINE Messages == [i \in 1 .. Len(Report[c]) |->
                             [kind |-> "Catalog", cam |-> c, epoch |-> epoch[c],
                              items |-> Report[c][i]]]
  <2>1. Report[c] \in Seq(Seq(Items))
    OBVIOUS
  <2>2. Len(Report[c]) \in Nat /\ \A i \in 1 .. Len(Report[c]) : Report[c][i] \in Seq(Items)
    BY <2>1, LenProperties, ElementOfSeq
  <2>3. Messages \in [1 .. Len(Report[c]) -> Requests]
    BY <2>2 DEF TypeOK, Requests, Kinds
  <2>4. Messages \in Seq(Requests)
    BY <2>2, <2>3, SeqOf
  <2>5. events \in Seq(Requests) /\ events' = events \o Messages
    BY <1>5 DEF CamReport, TypeOK
  <2>6. events' \in Seq(Requests)
    BY <2>4, <2>5, ConcatProperties
  <2>7. queries' \in [Cameras -> Nat]
    BY <1>5 DEF CamReport, TypeOK
  <2>8. lastRemote' \in Addresses
    BY <1>5 DEF CamReport, Addresses
  <2>9. UNCHANGED <<camVars, replies, srvVars, signals, uiVars>>
    BY <1>5 DEF CamReport
  <2> QED BY <2>6, <2>7, <2>8, <2>9 DEF TypeOK, camVars, srvVars, uiVars, Devices,
             VideoChannels, Signals, Loops
<1>6. CASE CamStartOver(c)
  BY <1>6 DEF CamStartOver, TypeOK, CameraStates, srvVars, uiVars, Devices, VideoChannels,
              Signals, Loops
<1> QED BY <1>2, <1>3, <1>4, <1>5, <1>6 DEF Camera

LEMMA SipThreadType ==
    ASSUME TypeOK, SipThread
    PROVE  TypeOK'
<1> USE RegistryAssumption DEF RegistryAssumption
<1> DEFINE e == Head(events)
<1>0. ASSUME NEW kind, Take(kind)
      PROVE  /\ events' \in Seq(Requests) /\ e \in Requests /\ e.cam \in Cameras
             /\ e.items \in Seq(Items)
  BY <1>0, EventQueue DEF Take
<1>1. CASE HandleRegister \/ HandleKeepalive \/ HandleMethod
  <2>1. PICK code \in {200, 401, 403} : Answer(e, code)
    BY <1>1 DEF HandleRegister, HandleKeepalive, HandleMethod, KeepaliveCode
  <2>2. events' \in Seq(Requests) /\ e \in Requests
    BY <1>0, <1>1 DEF HandleRegister, HandleKeepalive, HandleMethod
  <2>3. replies' \subseteq Replies
    BY <2>1, <2>2, AnswerType
  <2>4. UNCHANGED <<camVars, queries, lastRemote, srvVars, signals, uiVars>>
    BY <1>1 DEF HandleRegister, HandleKeepalive, HandleMethod
  <2> QED BY <2>2, <2>3, <2>4 DEF TypeOK, camVars, srvVars, uiVars, Devices, VideoChannels,
             Signals, Loops
<1>2. CASE HandleRegisterAuth
  <2>1. events' \in Seq(Requests) /\ e \in Requests /\ e.cam \in Cameras
    BY <1>0, <1>2 DEF HandleRegisterAuth
  <2>2. replies' \subseteq Replies
    BY <1>2, <2>1, AnswerType DEF HandleRegisterAuth
  <2>3. UNCHANGED <<camVars, lastRemote, catalog, channels, RtpSSRC, mDeviceVideoChannelMap,
                    uiVars>>
    BY <1>2 DEF HandleRegisterAuth
  <2>4. mDeviceList' \in Seq(Devices) /\ signals' \in Seq(Signals) /\ queries' \in [Cameras -> Nat]
    <3>1. CASE e.cam \in WrongPassword
      BY <1>2, <3>1 DEF HandleRegisterAuth, TypeOK
    <3>2. CASE e.cam \notin WrongPassword
      <4> DEFINE node == [cam |-> e.cam, channelList |-> <<>>]
      <4>1. node \in Devices /\ [kind |-> "registed", node |-> node] \in Signals
        BY <2>1, EmptySeq DEF Devices, Signals
      <4>2. mDeviceList \in Seq(Devices) /\ signals \in Seq(Signals)
        BY DEF TypeOK
      <4>3. /\ mDeviceList' = Append(mDeviceList, node)
            /\ signals' = Append(signals, [kind |-> "registed", node |-> node])
            /\ SendQueryCatalog(e.cam)
        BY <1>2, <3>2 DEF HandleRegisterAuth, NewDeviceList
      <4>4. mDeviceList' \in Seq(Devices) /\ signals' \in Seq(Signals)
        BY <4>1, <4>2, <4>3, AppendProperties
      <4>5. queries' \in [Cameras -> Nat]
        BY <2>1, <4>3, QueryType
      <4> QED BY <4>4, <4>5
    <3> QED BY <3>1, <3>2
  <2> QED BY <2>1, <2>2, <2>3, <2>4 DEF TypeOK, camVars, uiVars, Devices, VideoChannels, Signals,
             Loops
<1>3. CASE HandleOther
  <2>1. events' \in Seq(Requests)
    BY <1>0, <1>3 DEF HandleOther
  <2> QED BY <1>3, <2>1 DEF HandleOther, TypeOK, camVars, netVars, srvVars, uiVars, Devices,
             VideoChannels, Signals, Loops
<1>4. CASE HandleCatalog
  <2>1. events' \in Seq(Requests) /\ e.cam \in Cameras /\ e.items \in Seq(Items)
    BY <1>0, <1>4 DEF HandleCatalog
  <2>2. catalog' \in Loops
    <3>1. CASE e.items = <<>>
      BY <1>4, <3>1, NoLoopType DEF HandleCatalog
    <3>2. CASE e.items # <<>>
      <4>1. e.items[1] \in Items
        BY <2>1, <3>2, EmptySeq, LenProperties, ElementOfSeq, HeadTailProperties
      <4>2. <<>> \in Seq(Devices)
        BY EmptySeq
      <4> QED BY <1>4, <2>1, <3>2, <4>1, <4>2 DEF HandleCatalog, Loops, TypeOK
    <3> QED BY <3>1, <3>2
  <2>3. UNCHANGED <<camVars, netVars, lastRemote, mDeviceList, channels, RtpSSRC,
                    mDeviceVideoChannelMap, signals, uiVars>>
    BY <1>4 DEF HandleCatalog
  <2> QED BY <2>1, <2>2, <2>3 DEF TypeOK, camVars, netVars, uiVars, Devices, VideoChannels,
             Signals, Loops
<1>5. CASE OtherEntry \/ KnownChannel
  <2>1. InLoop /\ PushBack(deviceNode)
    BY <1>5 DEF OtherEntry, KnownChannel
  <2>2. deviceNode \in Devices /\ catalog.deviceListTmp \in Seq(Devices)
    BY <2>1, LoopEntry
  <2>3. catalog' \in Loops
    BY <2>1, <2>2, PushBackType DEF Loops
  <2>4. signals' \in Seq(Signals)
    <3>1. signals \in Seq(Signals) /\ [kind |-> "update", node |-> deviceNode] \in Signals
      BY <2>2 DEF TypeOK, Signals
    <3>2. \/ signals' = signals
          \/ signals' = Append(signals, [kind |-> "update", node |-> deviceNode])
      BY <1>5 DEF OtherEntry, KnownChannel, deviceUpdate
    <3>3. Append(signals, [kind |-> "update", node |-> deviceNode]) \in Seq(Signals)
      BY <3>1, AppendProperties
    <3> QED BY <3>1, <3>2, <3>3
  <2>5. UNCHANGED <<camVars, netVars, events, lastRemote, mDeviceList, channels, RtpSSRC,
                    mDeviceVideoChannelMap, uiVars>>
    BY <1>5 DEF OtherEntry, KnownChannel
  <2> QED BY <2>3, <2>4, <2>5 DEF TypeOK, camVars, netVars, uiVars, Devices, VideoChannels,
             Signals, Loops
<1>6. CASE NewChannel
  <2> DEFINE it == catalog.item
             device == [deviceNode EXCEPT !.channelList = Append(@, NewObject)]
             Grown(n) == [cam : Cameras, channelList : Seq(1 .. n)]
             object == [RtpSSRC |-> NextSSRC, DeviceID |-> it.DeviceID,
                        IPAddress |-> StoredAddress(it, catalog.remote),
                        parent |-> catalog.cam]
  <2>1. InLoop /\ PushBack(device) /\ deviceUpdate(device)
    BY <1>6 DEF NewChannel, Announced
  <2>2. /\ deviceNode \in Devices /\ catalog.deviceListTmp \in Seq(Devices)
        /\ it \in Items /\ catalog.cam \in Cameras /\ catalog.remote \in Addresses
    BY <2>1, LoopEntry
  <2>3. channels \in Seq(VideoChannels) /\ Len(channels) \in Nat /\ RtpSSRC \in Nat
    BY LenProperties DEF TypeOK
  <2>4. object \in VideoChannels
    BY <2>2, <2>3 DEF VideoChannels, StoredAddress, NextSSRC, Items
  <2>5. /\ channels' \in Seq(VideoChannels) /\ Len(channels') = Len(channels) + 1
    <3>1. channels' = Append(channels, object)
      BY <1>6 DEF NewChannel
    <3> QED BY <2>3, <2>4, <3>1, AppendProperties
  <2>6. Devices = Grown(Len(channels)) /\ Devices' = Grown(Len(channels) + 1)
    BY <2>5 DEF Devices
  <2>7. Devices \subseteq Devices'
    <3>1. 1 .. Len(channels) \subseteq 1 .. Len(channels) + 1
      BY <2>3
    <3>2. \A t \in Seq(1 .. Len(channels)) : t \in Seq(1 .. Len(channels) + 1)
      BY <3>1, SeqMonotonic
    <3> QED BY <2>6, <3>2
  <2>8. device \in Devices'
    <3>1. deviceNode \in Devices'
      BY <2>2, <2>7
    <3>2. deviceNode.cam \in Cameras /\ deviceNode.channelList \in Seq(1 .. Len(channels) + 1)
      BY <2>2, <2>6, <3>1
    <3>3. NewObject \in 1 .. Len(channels) + 1
      BY <2>3 DEF NewObject
    <3>4. Append(deviceNode.channelList, NewObject) \in Seq(1 .. Len(channels) + 1)
      BY <3>2, <3>3, AppendProperties
    <3>5. device = [cam |-> deviceNode.cam,
                    channelList |-> Append(deviceNode.channelList, NewObject)]
      BY <2>2, ExceptChannelList DEF Devices
    <3> QED BY <2>6, <3>1, <3>2, <3>4, <3>5
  <2>9. catalog' \in Loops'
    <3>1. catalog.deviceListTmp \in Seq(Devices')
      BY <2>2, <2>7, SeqMonotonic
    <3> QED BY <2>1, <2>8, <3>1, PushBackType DEF Loops, NoLoop, Items, Addresses
  <2>10. signals' \in Seq(Signals')
    <3>1. signals \in Seq(Signals) /\ Signals \subseteq Signals'
      BY <2>7 DEF TypeOK, Signals
    <3>2. signals \in Seq(Signals')
      BY <3>1, SeqMonotonic
    <3>3. [kind |-> "update", node |-> device] \in Signals'
      BY <2>8 DEF Signals
    <3> QED BY <2>1, <3>2, <3>3, AppendProperties DEF deviceUpdate
  <2>11. mDeviceList' \in Seq(Devices') /\ tree' \in Seq(Devices')
    BY <1>6, <2>7, SeqMonotonic DEF NewChannel, TypeOK, uiVars
  <2>12. RtpSSRC' = RtpSSRC + 1 /\ NextSSRC = RtpSSRC + 1
    BY <1>6 DEF NewChannel, NextSSRC
  <2>13. /\ DOMAIN mDeviceVideoChannelMap' = DOMAIN mDeviceVideoChannelMap \union {NextSSRC}
         /\ \A s \in DOMAIN mDeviceVideoChannelMap' :
               mDeviceVideoChannelMap'[s] \in 1 .. Len(channels')
    BY <1>6, <2>3, <2>5 DEF NewChannel, NewObject, TypeOK
  <2>14. DOMAIN mDeviceVideoChannelMap' \subseteq Nat
    BY <2>3, <2>12, <2>13 DEF TypeOK
  <2>15. UNCHANGED <<camVars, netVars, events, lastRemote, clicks, restarts>>
    BY <1>6 DEF NewChannel, uiVars
  <2>16. VideoChannels' = VideoChannels /\ Requests' = Requests /\ Replies' = Replies
    BY DEF VideoChannels, Requests, Replies
  <2> QED BY <2>3, <2>5, <2>9, <2>10, <2>11, <2>12, <2>13, <2>14, <2>15, <2>16
          DEF TypeOK, camVars, netVars
<1>7. CASE CatalogDone
  <2>1. catalog.deviceListTmp \in Seq(Devices)
    BY <1>7 DEF CatalogDone, TypeOK, Loops
  <2> QED BY <1>7, <2>1, NoLoopType DEF CatalogDone, TypeOK, camVars, netVars, uiVars, Devices,
             VideoChannels, Signals, Loops
<1> QED BY <1>1, <1>2, <1>3, <1>4, <1>5, <1>6, <1>7 DEF SipThread

LEMMA WindowType ==
    ASSUME TypeOK, DeliverSignal \/ UiThread \/ Restart
    PROVE  TypeOK'
<1> USE RegistryAssumption DEF RegistryAssumption
<1>0. tree \in Seq(Devices) /\ Len(tree) \in Nat /\ signals \in Seq(Signals)
  BY LenProperties DEF TypeOK
<1>1. CASE DeliverSignal
  <2> DEFINE s == Head(signals)
  <2>1. s \in Signals /\ signals' \in Seq(Signals) /\ s.node \in Devices
    <3>1. signals # <<>> /\ signals' = Tail(signals)
      BY <1>1 DEF DeliverSignal
    <3>2. s \in Signals /\ signals' \in Seq(Signals)
      BY <1>0, <3>1, HeadTailProperties
    <3> QED BY <3>2 DEF Signals
  <2>2. tree' \in Seq(Devices)
    <3>1. CASE s.kind = "registed"
      BY <1>0, <1>1, <2>1, <3>1, AppendProperties DEF DeliverSignal
    <3>2. CASE s.kind # "registed"
      <4>1. tree' = [i \in 1 .. Len(tree) |-> IF tree[i].cam = s.node.cam
                                              THEN s.node ELSE tree[i]]
        BY <1>1, <3>2 DEF DeliverSignal
      <4>2. tree' \in [1 .. Len(tree) -> Devices]
        BY <1>0, <2>1, <4>1, ElementOfSeq
      <4> QED BY <1>0, <4>2, SeqOf
    <3> QED BY <3>1, <3>2
  <2> QED BY <1>1, <2>1, <2>2 DEF DeliverSignal, TypeOK, camVars, netVars, srvVars, Devices,
             VideoChannels, Signals, Loops
<1>2. CASE UiThread
  <2>1. PICK i \in 1 .. Len(tree) : ClickCatalog(i)
    BY <1>2 DEF UiThread
  <2>2. tree[i].cam \in Cameras
    <3>1. tree[i] \in Devices
      BY <1>0, ElementOfSeq
    <3> QED BY <3>1 DEF Devices
  <2>3. queries' \in [Cameras -> Nat] /\ clicks' \in 0 .. MaxClicks
    <3>1. queries' \in [Cameras -> Nat]
      BY <2>1, <2>2, QueryType DEF ClickCatalog
    <3> QED BY <2>1, <3>1 DEF ClickCatalog, TypeOK
  <2> QED BY <2>1, <2>3 DEF ClickCatalog, TypeOK, camVars, srvVars, Devices, VideoChannels,
             Signals, Loops
<1>3. CASE Restart
  <2>1. \A S : <<>> \in Seq(S)
    BY EmptySeq
  <2> QED BY <1>3, <2>1 DEF Restart, TypeOK, camVars, netVars, Devices, VideoChannels,
             Signals, Loops
<1> QED BY <1>1, <1>2, <1>3

LEMMA TypeStep == TypeOK /\ [Next]_vars => TypeOK'
<1> SUFFICES ASSUME TypeOK, [Next]_vars PROVE TypeOK'
  OBVIOUS
<1>1. CASE Next
  BY <1>1, CameraType, SipThreadType, WindowType DEF Next
<1>2. CASE UNCHANGED vars
  BY <1>2 DEF vars, TypeOK, Devices, VideoChannels, Signals, Loops
<1> QED BY <1>1, <1>2

(* Type correctness: what SIP thread, window and cameras exchange always names cameras *)
(* and channels that exist.                                                            *)
THEOREM RegistryTypeCorrect == Spec => []TypeOK
BY TypeInit, TypeStep, PTL DEF Spec

-----------------------------------------------------------------------------
(* The device list while it is worked through.                             *)

\* The list as it is to become: the entries the loop has dealt with, and the others.
ListNow ==
    [k \in 1 .. Len(mDeviceList) |->
        IF catalog # NoLoop /\ k <= Len(catalog.deviceListTmp)
        THEN catalog.deviceListTmp[k] ELSE mDeviceList[k]]

\* The loop goes through the list in its order and changes no entry's camera.
LoopInv ==
    /\ catalog # NoLoop => Len(catalog.deviceListTmp) <= Len(mDeviceList)
    /\ \A k \in 1 .. Len(mDeviceList) : ListNow[k].cam = mDeviceList[k].cam

\* An entry of the loop's own list.
LEMMA LoopType ==
    ASSUME TypeOK, catalog # NoLoop
    PROVE  /\ catalog.deviceListTmp \in Seq(Devices) /\ Len(catalog.deviceListTmp) \in Nat
           /\ \A k \in 1 .. Len(catalog.deviceListTmp) : catalog.deviceListTmp[k] \in Devices
<1>1. catalog.deviceListTmp \in Seq(Devices)
  BY DEF TypeOK, Loops
<1> QED BY <1>1, LenProperties, ElementOfSeq

LEMMA ListNowType ==
    ASSUME TypeOK
    PROVE  /\ ListNow \in Seq(Devices) /\ Len(ListNow) = Len(mDeviceList)
           /\ Len(mDeviceList) \in Nat /\ mDeviceList \in Seq(Devices)
           /\ \A k \in 1 .. Len(mDeviceList) : mDeviceList[k] \in Devices /\ ListNow[k] \in Devices
<1>1. mDeviceList \in Seq(Devices)
  BY DEF TypeOK
<1>2. Len(mDeviceList) \in Nat /\ \A k \in 1 .. Len(mDeviceList) : mDeviceList[k] \in Devices
  BY <1>1, LenProperties, ElementOfSeq
<1>3. \A k \in 1 .. Len(mDeviceList) : ListNow[k] \in Devices
  BY <1>2, LoopType DEF ListNow
<1>4. ListNow \in [1 .. Len(mDeviceList) -> Devices]
  BY <1>3 DEF ListNow
<1> QED BY <1>1, <1>2, <1>3, <1>4, SeqOf, LenProperties

\* What a step may do to the list, the objects and the map.
ListSettles ==
    /\ mDeviceList' \in {mDeviceList, ListNow} /\ ListNow' = ListNow
    /\ UNCHANGED <<channels, RtpSSRC, mDeviceVideoChannelMap, restarts>>
ListGrows ==
    /\ ListNow = mDeviceList /\ ListNow' = mDeviceList'
    /\ \E c \in Cameras : mDeviceList' = Append(mDeviceList, [cam |-> c, channelList |-> <<>>])
    /\ UNCHANGED <<channels, RtpSSRC, mDeviceVideoChannelMap, restarts>>
EntryGrows(n) ==
    /\ NewChannel
    /\ n \in 1 .. Len(mDeviceList)
    /\ ListNow[n] = deviceNode /\ mDeviceList[n] = deviceNode
    /\ ListNow' = [ListNow EXCEPT ![n] =
                      [cam |-> deviceNode.cam,
                       channelList |-> Append(deviceNode.channelList, NewObject)]]
    /\ UNCHANGED <<mDeviceList, restarts>>
ListEmptied ==
    /\ Restart
    /\ mDeviceList' = <<>> /\ ListNow' = <<>>

LEMMA ListInit == Init => LoopInv /\ ListNow = <<>> /\ mDeviceList = <<>>
<1> SUFFICES ASSUME Init PROVE LoopInv /\ ListNow = <<>> /\ mDeviceList = <<>>
  OBVIOUS
<1>1. mDeviceList = <<>> /\ Len(mDeviceList) = 0 /\ catalog = NoLoop
  BY EmptySeq DEF Init
<1>2. ListNow = <<>>
  BY <1>1 DEF ListNow
<1> QED BY <1>1, <1>2 DEF LoopInv

LEMMA ListSteps ==
    ASSUME TypeOK, LoopInv, [Next]_vars
    PROVE  /\ LoopInv'
           /\ \/ ListSettles \/ ListGrows \/ ListEmptied
              \/ \E n \in 1 .. Len(mDeviceList) : EntryGrows(n)
<1> USE ListNowType
<1>1. CASE UNCHANGED <<srvVars, restarts>>
  BY <1>1 DEF ListSettles, ListNow, LoopInv, srvVars
<1>2. CASE HandleRegisterAuth
  <2>1. /\ catalog = NoLoop /\ catalog' = NoLoop
        /\ UNCHANGED <<channels, RtpSSRC, mDeviceVideoChannelMap, restarts>>
    BY <1>2 DEF HandleRegisterAuth, Take, uiVars
  <2>2. ListNow = mDeviceList
    <3>1. \A k \in 1 .. Len(mDeviceList) : ListNow[k] = mDeviceList[k]
      BY <2>1 DEF ListNow
    <3> QED BY <3>1, SeqEqual
  <2>3. CASE mDeviceList' = mDeviceList
    <3>1. ListNow' = ListNow
      BY <2>1, <2>3 DEF ListNow
    <3>2. LoopInv'
      BY <2>1, <2>3, <3>1 DEF LoopInv
    <3> QED BY <2>1, <2>3, <3>1, <3>2 DEF ListSettles
  <2>4. ASSUME NEW c \in Cameras,
               mDeviceList' = Append(mDeviceList, [cam |-> c, channelList |-> <<>>])
        PROVE  LoopInv' /\ ListGrows
    <3>1. [cam |-> c, channelList |-> <<>>] \in Devices
      BY EmptySeq DEF Devices
    <3>2. mDeviceList' \in Seq(Devices)
      BY <2>4, <3>1, AppendProperties
    <3>3. ListNow' = mDeviceList'
      <4>1. ListNow' = [k \in 1 .. Len(mDeviceList') |-> mDeviceList'[k]]
        BY <2>1 DEF ListNow
      <4>2. mDeviceList' \in [1 .. Len(mDeviceList') -> Devices]
        BY <3>2, LenProperties
      <4> QED BY <4>1, <4>2
    <3>4. LoopInv'
      BY <2>1, <3>3 DEF LoopInv
    <3> QED BY <2>1, <2>2, <2>4, <3>3, <3>4 DEF ListGrows
  <2>5. \/ mDeviceList' = mDeviceList
        \/ \E c \in Cameras : mDeviceList' = Append(mDeviceList, [cam |-> c, channelList |-> <<>>])
    BY <1>2, EventQueue DEF HandleRegisterAuth, NewDeviceList, Take
  <2> QED BY <2>3, <2>4, <2>5
<1>3. CASE HandleCatalog
  <2>1. /\ catalog = NoLoop
        /\ UNCHANGED <<mDeviceList, channels, RtpSSRC, mDeviceVideoChannelMap, restarts>>
    BY <1>3 DEF HandleCatalog, Take, uiVars
  <2>2. catalog' # NoLoop => Len(catalog.deviceListTmp)' = 0
    BY <1>3, EmptySeq DEF HandleCatalog
  <2>3. ListNow' = ListNow
    BY <2>1, <2>2 DEF ListNow
  <2> QED BY <2>1, <2>2, <2>3 DEF ListSettles, LoopInv
<1>4. CASE OtherEntry \/ KnownChannel
  <2>1. /\ InLoop /\ PushBack(deviceNode)
        /\ UNCHANGED <<mDeviceList, channels, RtpSSRC, mDeviceVideoChannelMap, restarts>>
    BY <1>4 DEF OtherEntry, KnownChannel, uiVars
  <2> DEFINE tmp == catalog.deviceListTmp
             n == Len(tmp) + 1
  <2>2. /\ deviceNode \in Devices /\ tmp \in Seq(Devices) /\ n \in 1 .. Len(mDeviceList)
        /\ Len(tmp) \in Nat
    BY <2>1, LoopEntry, LenProperties
  <2>3. catalog' # NoLoop /\ catalog'.deviceListTmp = Append(tmp, deviceNode)
    BY <2>1, LoopEntry DEF PushBack, InLoop, NoLoop
  <2>4. /\ Len(catalog'.deviceListTmp) = n
        /\ \A k \in 1 .. Len(tmp) : catalog'.deviceListTmp[k] = tmp[k]
        /\ catalog'.deviceListTmp[n] = mDeviceList[n]
    BY <2>2, <2>3, AppendProperties DEF deviceNode
  <2>5. ListNow' = ListNow
    <3>1. \A k \in 1 .. Len(mDeviceList) : ListNow'[k] = ListNow[k]
      <4> TAKE k \in 1 .. Len(mDeviceList)
      <4>1. k < n \/ k = n \/ k > n
        BY <2>2
      <4>2. ListNow'[k] = IF k <= n THEN catalog'.deviceListTmp[k] ELSE mDeviceList[k]
        BY <2>1, <2>3, <2>4 DEF ListNow
      <4>3. ListNow[k] = IF k <= Len(tmp) THEN tmp[k] ELSE mDeviceList[k]
        BY <2>1 DEF ListNow, InLoop
      <4> QED BY <2>2, <2>4, <4>1, <4>2, <4>3
    <3>2. ListNow' = [k \in 1 .. Len(mDeviceList) |-> ListNow'[k]]
      BY <2>1 DEF ListNow
    <3>3. ListNow = [k \in 1 .. Len(mDeviceList) |-> ListNow[k]]
      BY DEF ListNow
    <3> QED BY <3>1, <3>2, <3>3
  <2> QED BY <2>1, <2>2, <2>4, <2>5 DEF ListSettles, LoopInv
<1>5. CASE NewChannel
  <2> DEFINE tmp == catalog.deviceListTmp
             n == Len(tmp) + 1
             device == [cam |-> deviceNode.cam,
                        channelList |-> Append(deviceNode.channelList, NewObject)]
  <2>1. /\ InLoop
        /\ UNCHANGED <<mDeviceList, restarts>>
    BY <1>5 DEF NewChannel, uiVars
  <2>2. /\ deviceNode \in Devices /\ tmp \in Seq(Devices) /\ n \in 1 .. Len(mDeviceList)
        /\ Len(tmp) \in Nat
    BY <2>1, LoopEntry, LenProperties
  <2>3. PushBack(device)
    <3>1. PushBack([deviceNode EXCEPT !.channelList = Append(deviceNode.channelList, NewObject)])
      BY <1>5 DEF NewChannel
    <3> QED BY <2>2, <3>1, ExceptChannelList DEF Devices
  <2>4. catalog' # NoLoop /\ catalog'.deviceListTmp = Append(tmp, device)
    BY <2>1, <2>3, LoopEntry DEF PushBack, InLoop, NoLoop
  <2>5. /\ Len(catalog'.deviceListTmp) = n
        /\ \A k \in 1 .. Len(tmp) : catalog'.deviceListTmp[k] = tmp[k]
        /\ catalog'.deviceListTmp[n] = device
    <3>1. tmp \in Seq(Devices \union {device})
      BY <2>2, SeqMonotonic
    <3> QED BY <2>2, <2>4, <3>1, AppendProperties
  <2>6. ListNow[n] = deviceNode /\ mDeviceList[n] = deviceNode
    BY <2>1, <2>2 DEF ListNow, deviceNode, InLoop
  <2>7. ListNow' = [ListNow EXCEPT ![n] = device]
    <3>1. \A k \in 1 .. Len(mDeviceList) :
             ListNow'[k] = IF k = n THEN device ELSE ListNow[k]
      <4> TAKE k \in 1 .. Len(mDeviceList)
      <4>1. k < n \/ k = n \/ k > n
        BY <2>2
      <4>2. ListNow'[k] = IF k <= n THEN catalog'.deviceListTmp[k] ELSE mDeviceList[k]
        BY <2>1, <2>4, <2>5 DEF ListNow
      <4>3. ListNow[k] = IF k <= Len(tmp) THEN tmp[k] ELSE mDeviceList[k]
        BY <2>1 DEF ListNow, InLoop
      <4> QED BY <2>2, <2>5, <4>1, <4>2, <4>3
    <3>2. ListNow' = [k \in 1 .. Len(mDeviceList) |-> ListNow'[k]]
      BY <2>1 DEF ListNow
    <3>3. DOMAIN ListNow = 1 .. Len(mDeviceList)
      BY DEF ListNow
    <3> QED BY <3>1, <3>2, <3>3
  <2>8. LoopInv'
    <3>1. \A k \in 1 .. Len(mDeviceList) : ListNow'[k].cam = mDeviceList[k].cam
      <4>1. DOMAIN ListNow = 1 .. Len(mDeviceList)
        BY DEF ListNow
      <4> QED BY <2>6, <2>7, <4>1 DEF LoopInv
    <3> QED BY <2>1, <2>2, <2>5, <3>1 DEF LoopInv
  <2>9. EntryGrows(n)
    BY <1>5, <2>1, <2>2, <2>6, <2>7 DEF EntryGrows
  <2> QED BY <2>2, <2>8, <2>9
<1>6. CASE CatalogDone
  <2>1. /\ catalog # NoLoop /\ catalog' = NoLoop
        /\ mDeviceList' = catalog.deviceListTmp
        /\ Len(catalog.deviceListTmp) = Len(mDeviceList)
        /\ UNCHANGED <<channels, RtpSSRC, mDeviceVideoChannelMap, restarts>>
    BY <1>6 DEF CatalogDone, uiVars
  <2>2. \A k \in 1 .. Len(mDeviceList) : ListNow[k] = mDeviceList'[k]
    BY <2>1 DEF ListNow
  <2>3. mDeviceList' \in Seq(Devices)
    BY <2>1, LoopType
  <2>4. ListNow = mDeviceList'
    BY <2>1, <2>2, <2>3, SeqEqual
  <2>5. ListNow' = [k \in 1 .. Len(mDeviceList') |-> mDeviceList'[k]]
    BY <2>1 DEF ListNow
  <2>6. mDeviceList' \in [1 .. Len(mDeviceList') -> Devices]
    BY <2>3, LenProperties
  <2>7. ListNow' = mDeviceList'
    BY <2>5, <2>6
  <2> QED BY <2>1, <2>4, <2>7 DEF ListSettles, LoopInv
<1>7. CASE Restart
  <2>1. mDeviceList' = <<>> /\ Len(mDeviceList') = 0 /\ catalog' = NoLoop
    BY <1>7, EmptySeq DEF Restart
  <2>2. ListNow' = <<>>
    BY <2>1 DEF ListNow
  <2> QED BY <1>7, <2>1, <2>2 DEF ListEmptied, LoopInv
<1>8. \/ UNCHANGED <<srvVars, restarts>>
      \/ HandleRegisterAuth \/ HandleCatalog \/ OtherEntry \/ KnownChannel \/ NewChannel
      \/ CatalogDone \/ Restart
  <2>1. ASSUME NEW c \in Cameras, Camera(c) \/ CamNotify(c) \/ CamStartOver(c)
        PROVE  UNCHANGED <<srvVars, restarts>>
    BY <2>1 DEF Camera, CamRegister, CamTakeReply, CamTimeout, CamReport, CamKeepalive, CamNotify,
                CamStartOver, Request, uiVars
  <2>2. CASE HandleRegister \/ HandleKeepalive \/ HandleOther \/ HandleMethod
    BY <2>2 DEF HandleRegister, HandleKeepalive, HandleOther, HandleMethod, uiVars
  <2>3. CASE DeliverSignal
    BY <2>3 DEF DeliverSignal
  <2>4. CASE UiThread
    BY <2>4 DEF UiThread, ClickCatalog
  <2>5. CASE UNCHANGED vars
    BY <2>5 DEF vars, srvVars
  <2> QED BY <2>1, <2>2, <2>3, <2>4, <2>5 DEF Next, SipThread
<1> QED BY <1>1, <1>2, <1>3, <1>4, <1>5, <1>6, <1>7, <1>8
-----------------------------------------------------------------------------
(* The map by SSRC.                                                        *)

\* The number of channels made by servers that have been stopped.
Old == Len(channels) - RtpSSRC

\* The entry holds only channels of the running server.
OwnChannels(device) ==
    \A i \in 1 .. Len(device.channelList) : device.channelList[i] > Old

\* The running server's channels are the last RtpSSRC ones, numbered through from 1
\* and filed under their numbers, and its list names no others.
RoutingInv ==
    /\ RtpSSRC <= Len(channels)
    /\ restarts = 0 => RtpSSRC = Len(channels)
    /\ DOMAIN mDeviceVideoChannelMap = 1 .. RtpSSRC
    /\ \A s \in 1 .. RtpSSRC : /\ mDeviceVideoChannelMap[s] = Old + s
                               /\ channels[Old + s].RtpSSRC = s
    /\ \A k \in 1 .. Len(mDeviceList) : OwnChannels(mDeviceList[k]) /\ OwnChannels(ListNow[k])

LEMMA ChannelsType ==
    ASSUME TypeOK
    PROVE  /\ channels \in Seq(VideoChannels) /\ Len(channels) \in Nat
           /\ RtpSSRC \in Nat /\ restarts \in 0 .. MaxRestarts
BY LenProperties DEF TypeOK

\* What NewChannel does to the objects and the map.
LEMMA NewChannelEffect ==
    ASSUME TypeOK, NewChannel
    PROVE  /\ Len(channels') = Len(channels) + 1
           /\ \A o \in 1 .. Len(channels) : channels'[o] = channels[o]
           /\ channels'[Len(channels) + 1].RtpSSRC = RtpSSRC + 1
           /\ channels'[Len(channels) + 1].DeviceID = catalog.item.DeviceID
           /\ channels'[Len(channels) + 1].IPAddress
                 = StoredAddress(catalog.item, catalog.remote)
           /\ RtpSSRC' = RtpSSRC + 1
           /\ NewObject = Len(channels) + 1
           /\ DOMAIN mDeviceVideoChannelMap'
                 = DOMAIN mDeviceVideoChannelMap \union {RtpSSRC + 1}
           /\ mDeviceVideoChannelMap'[RtpSSRC + 1] = Len(channels) + 1
           /\ \A s \in DOMAIN mDeviceVideoChannelMap \ {RtpSSRC + 1} :
                 mDeviceVideoChannelMap'[s] = mDeviceVideoChannelMap[s]
<1> DEFINE object == [RtpSSRC |-> RtpSSRC + 1, DeviceID |-> catalog.item.DeviceID,
                      IPAddress |-> StoredAddress(catalog.item, catalog.remote),
                      parent |-> catalog.cam]
<1>1. channels' = Append(channels, object)
  BY DEF NewChannel, NextSSRC
<1>2. channels \in Seq(VideoChannels \union {object})
  BY ChannelsType, SeqMonotonic
<1>3. /\ Len(channels') = Len(channels) + 1
      /\ \A o \in 1 .. Len(channels) : channels'[o] = channels[o]
      /\ channels'[Len(channels) + 1] = object
  BY <1>1, <1>2, AppendProperties
<1>4. /\ RtpSSRC' = RtpSSRC + 1
      /\ mDeviceVideoChannelMap' =
            [s \in DOMAIN mDeviceVideoChannelMap \union {RtpSSRC + 1} |->
                IF s = RtpSSRC + 1 THEN Len(channels) + 1 ELSE mDeviceVideoChannelMap[s]]
  BY DEF NewChannel, NextSSRC, NewObject
<1> QED BY <1>3, <1>4 DEF NewObject

\* A longer list of channels.
LEMMA ChannelListType ==
    ASSUME TypeOK, NEW device \in Devices
    PROVE  /\ device.cam \in Cameras
           /\ device.channelList \in Seq(1 .. Len(channels))
           /\ Len(device.channelList) \in Nat
           /\ \A i \in 1 .. Len(device.channelList) : device.channelList[i] \in 1 .. Len(channels)
<1>1. device.cam \in Cameras /\ device.channelList \in Seq(1 .. Len(channels))
  BY DEF Devices
<1> QED BY <1>1, LenProperties, ElementOfSeq

LEMMA EntryGrowsTo ==
    ASSUME TypeOK, NEW n \in 1 .. Len(mDeviceList), EntryGrows(n)
    PROVE  LET list == Append(deviceNode.channelList, NewObject)
           IN  /\ deviceNode \in Devices
               /\ ListNow'[n].cam = deviceNode.cam
               /\ ListNow'[n].channelList = list
               /\ Len(list) = Len(deviceNode.channelList) + 1
               /\ \A i \in 1 .. Len(deviceNode.channelList) : list[i] = deviceNode.channelList[i]
               /\ list[Len(deviceNode.channelList) + 1] = Len(channels) + 1
               /\ \A k \in 1 .. Len(mDeviceList) : k # n => ListNow'[k] = ListNow[k]
<1> DEFINE list == Append(deviceNode.channelList, NewObject)
<1>1. NewChannel /\ InLoop
  BY DEF EntryGrows, NewChannel
<1>2. deviceNode \in Devices /\ NewObject = Len(channels) + 1
  BY <1>1, LoopEntry, NewChannelEffect
<1>3. deviceNode.channelList \in Seq(1 .. Len(channels)) /\ Len(channels) \in Nat
  BY <1>2, ChannelListType, ChannelsType
<1>4. deviceNode.channelList \in Seq(1 .. Len(channels) + 1)
  <2>1. 1 .. Len(channels) \subseteq 1 .. Len(channels) + 1
    BY <1>3
  <2> QED BY <1>3, <2>1, SeqMonotonic
<1>5. /\ Len(list) = Len(deviceNode.channelList) + 1
      /\ \A i \in 1 .. Len(deviceNode.channelList) : list[i] = deviceNode.channelList[i]
      /\ list[Len(deviceNode.channelList) + 1] = Len(channels) + 1
  BY <1>2, <1>3, <1>4, AppendProperties
<1>6. DOMAIN ListNow = 1 .. Len(mDeviceList)
  BY DEF ListNow
<1>7. ListNow' = [ListNow EXCEPT ![n] = [cam |-> deviceNode.cam, channelList |-> list]]
  BY DEF EntryGrows
<1> QED BY <1>2, <1>5, <1>6, <1>7

\* An entry for a camera that has just registered.
LEMMA ListGrowsTo ==
    ASSUME TypeOK, ListGrows
    PROVE  /\ Len(mDeviceList') = Len(mDeviceList) + 1
           /\ \A k \in 1 .. Len(mDeviceList) : mDeviceList'[k] = mDeviceList[k]
           /\ mDeviceList'[Len(mDeviceList) + 1].channelList = <<>>
<1>1. PICK c \in Cameras :
         mDeviceList' = Append(mDeviceList, [cam |-> c, channelList |-> <<>>])
  BY DEF ListGrows
<1>2. [cam |-> c, channelList |-> <<>>] \in Devices
  BY EmptySeq DEF Devices
<1> QED BY <1>1, <1>2, ListNowType, AppendProperties

LEMMA RoutingStep ==
    ASSUME TypeOK, LoopInv, RoutingInv, [Next]_vars
    PROVE  RoutingInv'
<1> USE ChannelsType, ListNowType
<1>1. CASE ListSettles
  <2>1. Old' = Old
    BY <1>1 DEF ListSettles, Old
  <2>2. \A k \in 1 .. Len(mDeviceList') : OwnChannels(mDeviceList[k]) /\ OwnChannels(ListNow[k])
    BY <1>1 DEF ListSettles, RoutingInv
  <2>3. \A k \in 1 .. Len(mDeviceList') :
           OwnChannels(mDeviceList[k])' /\ OwnChannels(ListNow[k])'
    BY <1>1, <2>1, <2>2 DEF OwnChannels, ListSettles
  <2> QED BY <1>1, <2>1, <2>3 DEF ListSettles, RoutingInv
<1>2. CASE ListGrows
  <2>1. Old' = Old
    BY <1>2 DEF ListGrows, Old
  <2>2. \A k \in 1 .. Len(mDeviceList') : OwnChannels(mDeviceList[k])'
    <3> TAKE k \in 1 .. Len(mDeviceList')
    <3>1. CASE k \in 1 .. Len(mDeviceList)
      BY <1>2, <2>1, <3>1, ListGrowsTo DEF RoutingInv, OwnChannels
    <3>2. CASE k = Len(mDeviceList) + 1
      BY <1>2, <3>2, ListGrowsTo, EmptySeq DEF OwnChannels
    <3> QED BY <1>2, <3>1, <3>2, ListGrowsTo
  <2> QED BY <1>2, <2>1, <2>2 DEF ListGrows, RoutingInv
<1>3. ASSUME NEW n \in 1 .. Len(mDeviceList), EntryGrows(n)
      PROVE  RoutingInv'
  <2> USE <1>3
  <2>1. NewChannel /\ mDeviceList' = mDeviceList /\ restarts' = restarts /\ ListNow[n] = deviceNode
    BY DEF EntryGrows
  <2>2. Old' = Old /\ Old \in Nat
    BY <2>1, NewChannelEffect DEF Old, RoutingInv
  <2>3. /\ RtpSSRC' <= Len(channels')
        /\ restarts' = 0 => RtpSSRC' = Len(channels')
        /\ DOMAIN mDeviceVideoChannelMap' = 1 .. RtpSSRC'
    BY <2>1, NewChannelEffect DEF RoutingInv
  <2>4. \A s \in 1 .. RtpSSRC' : /\ mDeviceVideoChannelMap'[s] = Old' + s
                                 /\ channels'[Old' + s].RtpSSRC = s
    <3> TAKE s \in 1 .. RtpSSRC'
    <3>1. CASE s \in 1 .. RtpSSRC
      <4>1. Old + s \in 1 .. Len(channels) /\ s # RtpSSRC + 1
        BY <2>2, <3>1 DEF Old
      <4> QED BY <2>1, <2>2, <3>1, <4>1, NewChannelEffect DEF RoutingInv
    <3>2. CASE s = RtpSSRC + 1
      <4>1. Old + s = Len(channels) + 1
        BY <3>2 DEF Old
      <4> QED BY <2>1, <2>2, <3>2, <4>1, NewChannelEffect
    <3> QED BY <2>1, <3>1, <3>2, NewChannelEffect
  <2>5. \A k \in 1 .. Len(mDeviceList) : OwnChannels(mDeviceList[k])' /\ OwnChannels(ListNow[k])'
    <3> TAKE k \in 1 .. Len(mDeviceList)
    <3>1. OwnChannels(mDeviceList[k])'
      BY <2>1, <2>2 DEF RoutingInv, OwnChannels
    <3>2. CASE k # n
      <4>1. ListNow'[k] = ListNow[k]
        BY <3>2, EntryGrowsTo
      <4> QED BY <2>2, <3>1, <4>1 DEF RoutingInv, OwnChannels
    <3>3. CASE k = n
      <4>1. OwnChannels(deviceNode) /\ deviceNode \in Devices
        BY <2>1, EntryGrowsTo DEF RoutingInv
      <4>2. \A i \in 1 .. Len(ListNow'[k].channelList) : ListNow'[k].channelList[i] > Old
        <5> DEFINE list == Append(deviceNode.channelList, NewObject)
        <5>1. /\ ListNow'[k].channelList = list
              /\ Len(list) = Len(deviceNode.channelList) + 1
              /\ \A i \in 1 .. Len(deviceNode.channelList) : list[i] = deviceNode.channelList[i]
              /\ list[Len(deviceNode.channelList) + 1] = Len(channels) + 1
          BY <3>3, EntryGrowsTo
        <5>2. Len(deviceNode.channelList) \in Nat
          BY <4>1, ChannelListType
        <5>3. Len(channels) + 1 > Old
          BY DEF Old
        <5> HIDE DEF list
        <5>4. \A i \in 1 .. Len(deviceNode.channelList) : deviceNode.channelList[i] > Old
          BY <4>1 DEF OwnChannels
        <5>5. \A i \in 1 .. Len(list) : list[i] > Old
          <6> TAKE i \in 1 .. Len(list)
          <6>1. CASE i \in 1 .. Len(deviceNode.channelList)
            BY <5>1, <5>4, <6>1
          <6>2. CASE i = Len(deviceNode.channelList) + 1
            BY <5>1, <5>3, <6>2
          <6> QED BY <5>1, <5>2, <6>1, <6>2
        <5> QED BY <5>1, <5>5
      <4> QED BY <2>2, <3>1, <4>2 DEF OwnChannels
    <3> QED BY <3>2, <3>3
  <2> QED BY <2>1, <2>3, <2>4, <2>5 DEF RoutingInv
<1>4. CASE ListEmptied
  <2>1. /\ RtpSSRC' = 0 /\ channels' = channels /\ restarts' = restarts + 1
        /\ DOMAIN mDeviceVideoChannelMap' = {}
    BY <1>4 DEF ListEmptied, Restart
  <2>2. Len(mDeviceList') = 0
    BY <1>4, EmptySeq DEF ListEmptied
  <2> QED BY <2>1, <2>2 DEF RoutingInv
<1> QED BY <1>1, <1>2, <1>3, <1>4, ListSteps

LEMMA RoutingInit == Init => RoutingInv
<1> SUFFICES ASSUME Init PROVE RoutingInv
  OBVIOUS
<1>1. Len(channels) = 0 /\ Len(mDeviceList) = 0 /\ RtpSSRC = 0
  BY EmptySeq DEF Init
<1> QED BY <1>1 DEF Init, RoutingInv

LEMMA RoutingIsInvariant == Spec => [](TypeOK /\ LoopInv /\ RoutingInv)
<1>1. Init => TypeOK /\ LoopInv /\ RoutingInv
  BY TypeInit, ListInit, RoutingInit
<1>2. TypeOK /\ LoopInv /\ RoutingInv /\ [Next]_vars => (TypeOK /\ LoopInv /\ RoutingInv)'
  BY TypeStep, ListSteps, RoutingStep
<1> QED BY <1>1, <1>2, PTL DEF Spec

\* As long as the server runs without a restart, the RTP thread finds every channel
\* that the server or its window lists under the SSRC its INVITE announces.
THEOREM StreamsFindTheirChannels == MaxRestarts = 0 /\ Spec => []StreamsAreRouted
<1> SUFFICES ASSUME MaxRestarts = 0 PROVE Spec => []StreamsAreRouted
  OBVIOUS
<1>1. TypeOK /\ RoutingInv => StreamsAreRouted
  <2> SUFFICES ASSUME TypeOK, RoutingInv PROVE StreamsAreRouted
    OBVIOUS
  <2>1. RtpSSRC = Len(channels) /\ Old = 0 /\ Len(channels) \in Nat
    BY ChannelsType DEF RoutingInv, Old
  <2>2. ASSUME NEW device \in Devices
        PROVE  Routed(device)
    <3> SUFFICES ASSUME NEW i \in 1 .. Len(device.channelList)
                 PROVE  LET o == device.channelList[i]
                        IN  /\ o \in 1 .. Len(channels)
                            /\ channels[o].RtpSSRC \in DOMAIN mDeviceVideoChannelMap
                            /\ mDeviceVideoChannelMap[channels[o].RtpSSRC] = o
      BY DEF Routed
    <3>1. device.channelList[i] \in 1 .. RtpSSRC
      BY <2>1, ChannelListType
    <3> QED BY <2>1, <3>1 DEF RoutingInv
  <2>3. tree \in Seq(Devices) /\ mDeviceList \in Seq(Devices)
    BY DEF TypeOK
  <2>4. /\ \A k \in 1 .. Len(mDeviceList) : mDeviceList[k] \in Devices
        /\ \A k \in 1 .. Len(tree) : tree[k] \in Devices
    BY <2>3, ElementOfSeq
  <2> QED BY <2>2, <2>4 DEF StreamsAreRouted
<1> QED BY <1>1, RoutingIsInvariant, PTL

-----------------------------------------------------------------------------
(* The streams.                                                            *)

\* A stream carries the number its channel was given.
StreamsInv ==
    \A s \in streams : s.channel \in 1 .. Len(channels) /\ s.ssrc = channels[s.channel].RtpSSRC

LEMMA StreamsStep ==
    ASSUME TypeOK, LoopInv, StreamsInv, [MediaNext]_mediaVars
    PROVE  StreamsInv'
<1> USE ChannelsType
<1>1. CASE UNCHANGED streams /\ [Next]_vars
  <2>1. \/ channels' = channels
        \/ /\ Len(channels') = Len(channels) + 1
           /\ \A o \in 1 .. Len(channels) : channels'[o] = channels[o]
    BY <1>1, ListSteps, NewChannelEffect
       DEF ListSettles, ListGrows, EntryGrows, ListEmptied, Restart
  <2> QED BY <1>1, <2>1 DEF StreamsInv
<1>2. ASSUME NEW k \in 1 .. Len(tree), NEW i \in 1 .. Len(tree[k].channelList), ClickInvite(k, i)
      PROVE  StreamsInv'
  <2>1. tree \in Seq(Devices)
    BY DEF TypeOK
  <2>2. tree[k] \in Devices
    BY <2>1, ElementOfSeq
  <2>3. tree[k].channelList[i] \in 1 .. Len(channels)
    BY <2>2, ChannelListType
  <2> QED BY <1>2, <2>3 DEF ClickInvite, StreamsInv, AnnouncedSSRC, vars
<1>3. \/ UNCHANGED streams /\ [Next]_vars
      \/ \E k \in 1 .. Len(tree) : \E i \in 1 .. Len(tree[k].channelList) : ClickInvite(k, i)
  BY DEF MediaNext, mediaVars
<1> QED BY <1>1, <1>2, <1>3

\* However often the server is stopped and started, a stream the user asked for with a
\* channel of the running server reaches that channel and no other.
THEOREM NewStreamsAreRouted == MediaSpec => []NewStreamsArrive
<1> DEFINE MediaInv == TypeOK /\ LoopInv /\ RoutingInv /\ StreamsInv
<1>1. MediaInit => MediaInv
  BY TypeInit, ListInit, RoutingInit DEF MediaInit, StreamsInv
<1>2. MediaInv /\ [MediaNext]_mediaVars => MediaInv'
  <2> SUFFICES ASSUME MediaInv, [MediaNext]_mediaVars PROVE MediaInv'
    OBVIOUS
  <2>1. [Next]_vars
    BY DEF MediaNext, mediaVars, ClickInvite
  <2> QED BY <2>1, TypeStep, ListSteps, RoutingStep, StreamsStep
<1>3. MediaInv => NewStreamsArrive
  <2> SUFFICES ASSUME MediaInv, NEW s \in streams, s.channel \notin OldChannels
               PROVE  Destination(s) = {s.channel}
    BY DEF NewStreamsArrive
  <2>1. /\ s.channel \in 1 .. Len(channels) /\ Len(channels) \in Nat /\ RtpSSRC \in Nat
        /\ s.ssrc = channels[s.channel].RtpSSRC
    BY ChannelsType DEF StreamsInv
  <2>2. s.channel > Old /\ Old \in Nat
    BY <2>1 DEF OldChannels, Old, RoutingInv
  <2>3. s.channel - Old \in 1 .. RtpSSRC /\ Old + (s.channel - Old) = s.channel
    BY <2>1, <2>2 DEF Old
  <2>4. s.ssrc = s.channel - Old /\ mDeviceVideoChannelMap[s.ssrc] = s.channel
    BY <2>1, <2>3 DEF RoutingInv
  <2> QED BY <2>3, <2>4 DEF Destination, RoutingInv
<1> QED BY <1>1, <1>2, <1>3, PTL DEF MediaSpec

-----------------------------------------------------------------------------
(* The channels of the list entries.                                       *)

\* No two places of the list hold the same channel.
OneOwner(list) ==
    \A k, l \in 1 .. Len(list) :
        \A i \in 1 .. Len(list[k].channelList), j \in 1 .. Len(list[l].channelList) :
            list[k].channelList[i] = list[l].channelList[j] => k = l /\ i = j

OwnerInv == OneOwner(mDeviceList) /\ OneOwner(ListNow)

LEMMA OwnerStep ==
    ASSUME TypeOK, LoopInv, OwnerInv, [Next]_vars
    PROVE  OwnerInv'
<1> USE ListNowType
<1>1. CASE ListSettles
  BY <1>1 DEF ListSettles, OwnerInv, OneOwner
<1>2. CASE ListGrows
  <2>1. OneOwner(mDeviceList')
    <3> SUFFICES ASSUME NEW k \in 1 .. Len(mDeviceList'), NEW l \in 1 .. Len(mDeviceList'),
                        NEW i \in 1 .. Len(mDeviceList'[k].channelList),
                        NEW j \in 1 .. Len(mDeviceList'[l].channelList),
                        mDeviceList'[k].channelList[i] = mDeviceList'[l].channelList[j]
                 PROVE  k = l /\ i = j
      BY DEF OneOwner
    <3>1. k # Len(mDeviceList) + 1 /\ l # Len(mDeviceList) + 1
      BY <1>2, ListGrowsTo, EmptySeq
    <3>2. k \in 1 .. Len(mDeviceList) /\ l \in 1 .. Len(mDeviceList)
      BY <1>2, <3>1, ListGrowsTo
    <3>3. mDeviceList'[k] = mDeviceList[k] /\ mDeviceList'[l] = mDeviceList[l]
      BY <1>2, <3>2, ListGrowsTo
    <3>4. /\ i \in 1 .. Len(mDeviceList[k].channelList)
          /\ j \in 1 .. Len(mDeviceList[l].channelList)
          /\ mDeviceList[k].channelList[i] = mDeviceList[l].channelList[j]
      BY <3>3
    <3> QED BY <3>2, <3>4 DEF OwnerInv, OneOwner
  <2> QED BY <1>2, <2>1 DEF ListGrows, OwnerInv
<1>3. ASSUME NEW n \in 1 .. Len(mDeviceList), EntryGrows(n)
      PROVE  OwnerInv'
  <2> USE <1>3
  <2> DEFINE new == Len(channels) + 1
             old == deviceNode.channelList
  <2>1. /\ ListNow[n] = deviceNode /\ deviceNode \in Devices /\ Len(old) \in Nat
        /\ mDeviceList' = mDeviceList /\ Len(ListNow') = Len(mDeviceList)
    <3>1. Len(ListNow') = Len(mDeviceList)
      <4>1. ListNow' \in [1 .. Len(mDeviceList) -> {ListNow'[k] : k \in 1 .. Len(mDeviceList)}]
        BY DEF ListNow, EntryGrows
      <4> QED BY <4>1, SeqOf
    <3> QED BY <3>1, EntryGrowsTo, ChannelListType DEF EntryGrows
  <2>2. /\ Len(ListNow'[n].channelList) = Len(old) + 1
        /\ \A i \in 1 .. Len(old) : ListNow'[n].channelList[i] = ListNow[n].channelList[i]
        /\ ListNow'[n].channelList[Len(old) + 1] = new
        /\ \A k \in 1 .. Len(mDeviceList) : k # n => ListNow'[k] = ListNow[k]
    BY <2>1, EntryGrowsTo
  <2>3. \A k \in 1 .. Len(mDeviceList) : \A i \in 1 .. Len(ListNow[k].channelList) :
           ListNow[k].channelList[i] # new
    <3> TAKE k \in 1 .. Len(mDeviceList)
    <3> TAKE i \in 1 .. Len(ListNow[k].channelList)
    <3>1. ListNow[k] \in Devices
      OBVIOUS
    <3>2. ListNow[k].channelList[i] \in 1 .. Len(channels)
      BY <3>1, ChannelListType
    <3> QED BY <3>2, ChannelsType
  <2>4. ASSUME NEW k \in 1 .. Len(mDeviceList), NEW i \in 1 .. Len(ListNow'[k].channelList)
        PROVE  \/ k = n /\ i = Len(old) + 1 /\ ListNow'[k].channelList[i] = new
               \/ /\ i \in 1 .. Len(ListNow[k].channelList)
                  /\ ListNow'[k].channelList[i] = ListNow[k].channelList[i]
    <3>1. CASE k # n
      BY <2>2, <3>1
    <3>2. CASE k = n
      BY <2>1, <2>2, <3>2
    <3> QED BY <3>1, <3>2
  <2>5. OneOwner(ListNow')
    <3> SUFFICES ASSUME NEW k \in 1 .. Len(mDeviceList), NEW l \in 1 .. Len(mDeviceList),
                        NEW i \in 1 .. Len(ListNow'[k].channelList),
                        NEW j \in 1 .. Len(ListNow'[l].channelList),
                        ListNow'[k].channelList[i] = ListNow'[l].channelList[j]
                 PROVE  k = l /\ i = j
      BY <2>1 DEF OneOwner
    <3>1. \/ k = n /\ i = Len(old) + 1 /\ ListNow'[k].channelList[i] = new
          \/ /\ i \in 1 .. Len(ListNow[k].channelList)
             /\ ListNow'[k].channelList[i] = ListNow[k].channelList[i]
             /\ ListNow'[k].channelList[i] # new
      BY <2>3, <2>4
    <3>2. \/ l = n /\ j = Len(old) + 1 /\ ListNow'[l].channelList[j] = new
          \/ /\ j \in 1 .. Len(ListNow[l].channelList)
             /\ ListNow'[l].channelList[j] = ListNow[l].channelList[j]
             /\ ListNow'[l].channelList[j] # new
      BY <2>3, <2>4
    <3>3. CASE /\ i \in 1 .. Len(ListNow[k].channelList)
               /\ ListNow'[k].channelList[i] = ListNow[k].channelList[i]
               /\ j \in 1 .. Len(ListNow[l].channelList)
               /\ ListNow'[l].channelList[j] = ListNow[l].channelList[j]
      <4>1. ListNow[k].channelList[i] = ListNow[l].channelList[j]
        BY <3>3
      <4>2. k \in 1 .. Len(ListNow) /\ l \in 1 .. Len(ListNow)
        OBVIOUS
      <4> QED BY <3>3, <4>1, <4>2 DEF OwnerInv, OneOwner
    <3>4. CASE k = n /\ i = Len(old) + 1 /\ l = n /\ j = Len(old) + 1
      BY <3>4
    <3> QED BY <3>1, <3>2, <3>3, <3>4
  <2> QED BY <2>1, <2>5 DEF OwnerInv
<1>4. CASE ListEmptied
  BY <1>4, EmptySeq DEF ListEmptied, OwnerInv, OneOwner
<1> QED BY <1>1, <1>2, <1>3, <1>4, ListSteps

\* However often cameras register and report, and whatever the server does meanwhile: no
\* VideoChannel is in two places of the device list, although the loop copies its entries
\* with their lists of pointers.
THEOREM OwnersAreUnique == Spec => []ChannelsHaveOneOwner
<1>1. Init => TypeOK /\ LoopInv /\ OwnerInv
  <2>1. Len(<<>>) = 0
    BY EmptySeq
  <2> QED BY <2>1, TypeInit, ListInit DEF OwnerInv, OneOwner
<1>2. TypeOK /\ LoopInv /\ OwnerInv /\ [Next]_vars => (TypeOK /\ LoopInv /\ OwnerInv)'
  BY TypeStep, ListSteps, OwnerStep
<1>3. OwnerInv => ChannelsHaveOneOwner
  BY DEF OwnerInv, OneOwner, ChannelsHaveOneOwner
<1> QED BY <1>1, <1>2, <1>3, PTL DEF Spec

-----------------------------------------------------------------------------
(* What the cameras may rely on.                                           *)

\* A camera that is listed stays listed until the server is stopped.
LEMMA ListedStays ==
    ASSUME TypeOK, LoopInv, [Next]_vars, ~Restart, NEW c, Listed(c)
    PROVE  Listed(c)'
<1> USE ListNowType
<1>1. PICK k \in 1 .. Len(mDeviceList) : mDeviceList[k].cam = c
  BY DEF Listed
<1>2. CASE ListSettles
  BY <1>1, <1>2 DEF ListSettles, LoopInv, Listed
<1>3. CASE ListGrows
  BY <1>1, <1>3, ListGrowsTo DEF Listed
<1>4. CASE \E n \in 1 .. Len(mDeviceList) : EntryGrows(n)
  BY <1>1, <1>4 DEF EntryGrows, Listed
<1> QED BY <1>2, <1>3, <1>4, ListSteps DEF ListEmptied

LEMMA NoRestarts ==
    ASSUME TypeOK, MaxRestarts = 0
    PROVE  ~Restart
BY DEF TypeOK, Restart

\* The steps by what they do to the queue.
LEMMA QueueSteps ==
    ASSUME TypeOK, [Next]_vars
    PROVE  \/ \E c \in Cameras : CamRegister(c) \/ CamKeepalive(c) \/ CamNotify(c)
           \/ \E c \in Cameras : CamTakeReply(c)
           \/ \E c \in Cameras : CamTimeout(c)
           \/ \E c \in Cameras : CamReport(c)
           \/ \E c \in Cameras : CamStartOver(c)
           \/ SipThread /\ events # <<>> /\ events' = Tail(events) /\ UNCHANGED camVars
           \/ UNCHANGED <<camVars, replies, events>>
           \/ Restart
<1>1. CASE SipThread
  BY <1>1 DEF SipThread, HandleRegister, HandleRegisterAuth, HandleKeepalive, HandleOther,
              HandleMethod, HandleCatalog, OtherEntry, KnownChannel, NewChannel, CatalogDone,
              Take, netVars
<1>2. CASE DeliverSignal \/ UiThread \/ UNCHANGED vars
  BY <1>2 DEF DeliverSignal, UiThread, ClickCatalog, vars, camVars, netVars
<1> QED BY <1>1, <1>2 DEF Next, Camera

\* What a camera sends is put behind the queue.
LEMMA SendEffect ==
    ASSUME TypeOK, NEW c \in Cameras, NEW kind \in Kinds, Send(c, kind, <<>>)
    PROVE  /\ Len(events') = Len(events) + 1 /\ Len(events) \in Nat
           /\ \A i \in 1 .. Len(events) : events'[i] = events[i]
           /\ events'[Len(events) + 1].cam = c
           /\ events'[Len(events) + 1].epoch = epoch[c]
           /\ events'[Len(events) + 1].kind = kind
<1>1. <<>> \in Seq(Items)
  BY EmptySeq
<1>2. [kind |-> kind, cam |-> c, epoch |-> epoch[c], items |-> <<>>] \in Requests
  BY <1>1 DEF TypeOK, Requests
<1>3. events \in Seq(Requests)
  BY DEF TypeOK
<1>4. events' = Append(events, [kind |-> kind, cam |-> c, epoch |-> epoch[c], items |-> <<>>])
  BY DEF Send
<1> QED BY <1>2, <1>3, <1>4, AppendProperties, LenProperties

LEMMA ReportEffect ==
    ASSUME TypeOK, NEW c \in Cameras, CamReport(c)
    PROVE  /\ Len(events') = Len(events) + Len(Report[c])
           /\ Len(events) \in Nat /\ Len(Report[c]) \in Nat
           /\ \A i \in 1 .. Len(events) : events'[i] = events[i]
           /\ \A i \in 1 .. Len(Report[c]) :
                 /\ events'[Len(events) + i].cam = c
                 /\ events'[Len(events) + i].kind = "Catalog"
                 /\ events'[Len(events) + i].items = Report[c][i]
<1> DEFINE Messages == [i \in 1 .. Len(Report[c]) |->
                           [kind |-> "Catalog", cam |-> c, epoch |-> epoch[c],
                            items |-> Report[c][i]]]
<1>1. Report[c] \in Seq(Seq(Items))
  BY RegistryAssumption DEF RegistryAssumption
<1>2. Len(Report[c]) \in Nat /\ \A i \in 1 .. Len(Report[c]) : Report[c][i] \in Seq(Items)
  BY <1>1, LenProperties, ElementOfSeq
<1>3. Messages \in [1 .. Len(Report[c]) -> Requests]
  BY <1>2 DEF TypeOK, Requests, Kinds
<1>4. Messages \in Seq(Requests) /\ Len(Messages) = Len(Report[c])
  BY <1>2, <1>3, SeqOf
<1>5. events \in Seq(Requests) /\ events' = events \o Messages
  BY DEF CamReport, TypeOK
<1>6. /\ Len(events) \in Nat
      /\ Len(events') = Len(events) + Len(Messages)
      /\ \A i \in 1 .. Len(events) + Len(Messages) :
            events'[i] = IF i <= Len(events) THEN events[i] ELSE Messages[i - Len(events)]
  BY <1>4, <1>5, ConcatProperties, LenProperties
<1>7. \A i \in 1 .. Len(Report[c]) :
         /\ Messages[i].cam = c /\ Messages[i].kind = "Catalog"
         /\ Messages[i].items = Report[c][i]
  OBVIOUS
<1> HIDE DEF Messages
<1>8. \A i \in 1 .. Len(events) : events'[i] = events[i]
  BY <1>2, <1>4, <1>6
<1>9. \A i \in 1 .. Len(Report[c]) : events'[Len(events) + i] = Messages[i]
  <2> TAKE i \in 1 .. Len(Report[c])
  <2>1. /\ Len(events) + i \in 1 .. Len(events) + Len(Messages)
        /\ ~(Len(events) + i <= Len(events)) /\ (Len(events) + i) - Len(events) = i
    BY <1>2, <1>4, <1>6
  <2> QED BY <1>6, <2>1
<1> QED BY <1>2, <1>4, <1>6, <1>7, <1>8, <1>9
\* The reply to the request at the head of the queue.
LEMMA AnswerEffect ==
    ASSUME TypeOK, SipThread, events # <<>>, events' = Tail(events),
           NEW d, d = Head(events).cam
    PROVE  \/ /\ Head(events).kind \in {"Other", "Catalog"}
              /\ replies' = replies
           \/ \E code \in {200, 401, 403} :
                 /\ Answer(Head(events), code)
                 /\ code = 200 => \/ Listed(d)'
                                  \/ Head(events).kind = "Method"
<1> DEFINE e == Head(events)
<1>0. events # Tail(events)
  <2> DEFINE tail == Tail(events)
  <2>1. Len(tail) = Len(events) - 1 /\ Len(events) \in Nat
    BY EventQueue
  <2> HIDE DEF tail
  <2>2. tail # events
    BY <2>1
  <2> QED BY <2>2 DEF tail
<1>1. CASE HandleRegister
  BY <1>1 DEF HandleRegister
<1>2. CASE HandleRegisterAuth
  <2>1. CASE e.cam \in WrongPassword
    BY <1>2, <2>1 DEF HandleRegisterAuth
  <2>2. CASE e.cam \notin WrongPassword
    <3> DEFINE node == [cam |-> e.cam, channelList |-> <<>>]
    <3>1. mDeviceList' = Append(mDeviceList, node) /\ Answer(e, 200)
      BY <1>2, <2>2 DEF HandleRegisterAuth, NewDeviceList
    <3>2. node \in Devices
      BY EventQueue, EmptySeq DEF Devices
    <3>3. /\ Len(mDeviceList') = Len(mDeviceList) + 1 /\ Len(mDeviceList) \in Nat
          /\ mDeviceList'[Len(mDeviceList) + 1] = node
      BY <3>1, <3>2, ListNowType, AppendProperties
    <3>4. Listed(d)'
      BY <3>3 DEF Listed
    <3> QED BY <3>1, <3>4
  <2> QED BY <2>1, <2>2
<1>3. CASE HandleKeepalive
  <2>1. Answer(e, IF Listed(e.cam) THEN 200 ELSE 403) /\ mDeviceList' = mDeviceList
    BY <1>3 DEF HandleKeepalive, KeepaliveCode, srvVars
  <2>2. Listed(d) => Listed(d)'
    BY <2>1 DEF Listed
  <2> QED BY <2>1, <2>2
<1>4. CASE HandleOther \/ HandleCatalog
  BY <1>4 DEF HandleOther, HandleCatalog, Take, netVars
<1>5. CASE HandleMethod
  BY <1>5 DEF HandleMethod, Take
<1>6. CASE OtherEntry \/ KnownChannel \/ NewChannel \/ CatalogDone
  BY <1>0, <1>6 DEF OtherEntry, KnownChannel, NewChannel, CatalogDone
<1> QED BY <1>1, <1>2, <1>3, <1>4, <1>5, <1>6 DEF SipThread
\* Whoever believes it is registered, and whoever is about to be told so, is listed.
RegisteredInv ==
    /\ RegisteredIsListed
    /\ \A r \in replies : r.code = 200 => Listed(r.cam)
    /\ \A i \in 1 .. Len(events) : events[i].kind = "Method" => Listed(events[i].cam)

\* The steps that neither move a camera nor touch what is on its way.
LEMMA RegisteredQuiet ==
    ASSUME RegisteredInv, UNCHANGED <<camera, replies, events>>,
           \A c : Listed(c) => Listed(c)'
    PROVE  RegisteredInv'
BY DEF RegisteredInv, RegisteredIsListed

LEMMA RegisteredStep ==
    ASSUME TypeOK, LoopInv, RegisteredInv, [Next]_vars, ~Restart
    PROVE  RegisteredInv'
<1>0. \A c : Listed(c) => Listed(c)'
  BY ListedStays
<1>1. ASSUME NEW c \in Cameras, CamRegister(c) \/ CamKeepalive(c) \/ CamNotify(c)
      PROVE  RegisteredInv'
  <2>1. PICK from \in CameraStates, to \in CameraStates, kind \in Kinds :
           /\ Request(c, from, to, kind)
           /\ to \in {"online", "beating", "notifying"} \/ kind = "Method" => from = "online"
    BY <1>1 DEF CamRegister, CamKeepalive, CamNotify, CameraStates, Kinds
  <2>2. Send(c, kind, <<>>) /\ camera[c] = from /\ camera' = [camera EXCEPT ![c] = to]
        /\ replies' = replies
    BY <2>1 DEF Request, netVars
  <2>3. camera[c] = "online" => Listed(c)
    BY DEF RegisteredInv, RegisteredIsListed
  <2>4. RegisteredIsListed'
    BY <1>0, <2>1, <2>2, <2>3 DEF RegisteredInv, RegisteredIsListed, TypeOK
  <2>5. \A r \in replies' : r.code = 200 => Listed(r.cam)'
    BY <1>0, <2>2 DEF RegisteredInv
  <2>6. \A i \in 1 .. Len(events') : events'[i].kind = "Method" => Listed(events[i].cam)'
    <3> TAKE i \in 1 .. Len(events')
    <3>1. CASE i \in 1 .. Len(events)
      BY <1>0, <2>2, <3>1, SendEffect DEF RegisteredInv
    <3>2. CASE i = Len(events) + 1
      BY <1>0, <2>1, <2>2, <2>3, <3>2, SendEffect
    <3> QED BY <2>2, <3>1, <3>2, SendEffect
  <2> QED BY <2>4, <2>5, <2>6 DEF RegisteredInv
<1>2. ASSUME NEW c \in Cameras, CamTakeReply(c)
      PROVE  RegisteredInv'
  <2>1. PICK r \in replies :
           /\ r.cam = c /\ replies' = replies \ {r}
           /\ IF r.code = 401 /\ camera[c] = "asking"
              THEN /\ camera' = [camera EXCEPT ![c] = "proving"]
                   /\ Send(c, "RegisterAuth", <<>>)
              ELSE /\ camera' = [camera EXCEPT ![c] = IF r.code = 200 THEN "online" ELSE "off"]
                   /\ UNCHANGED <<events, lastRemote>>
    BY <1>2 DEF CamTakeReply
  <2>2. camera'[c] \in {"online", "beating", "notifying"} => r.code = 200
    BY <2>1 DEF TypeOK
  <2>3. r.code = 200 => Listed(c)
    BY <2>1 DEF RegisteredInv
  <2>4. \A d \in Cameras : d # c => camera'[d] = camera[d]
    BY <2>1 DEF TypeOK
  <2>5. RegisteredIsListed'
    BY <1>0, <2>2, <2>3, <2>4 DEF RegisteredInv, RegisteredIsListed
  <2>6. \A q \in replies' : q.code = 200 => Listed(q.cam)'
    BY <1>0, <2>1 DEF RegisteredInv
  <2>7. \A i \in 1 .. Len(events') : events'[i].kind = "Method" => Listed(events[i].cam)'
    <3>1. CASE Send(c, "RegisterAuth", <<>>)
      <4> TAKE i \in 1 .. Len(events')
      <4>1. "RegisterAuth" \in Kinds /\ "RegisterAuth" # "Method"
        BY DEF Kinds
      <4>2. CASE i \in 1 .. Len(events)
        BY <1>0, <3>1, <4>1, <4>2, SendEffect DEF RegisteredInv
      <4>3. CASE i = Len(events) + 1
        BY <3>1, <4>1, <4>3, SendEffect
      <4> QED BY <3>1, <4>1, <4>2, <4>3, SendEffect
    <3>2. CASE UNCHANGED <<events, lastRemote>>
      BY <1>0, <3>2 DEF RegisteredInv
    <3> QED BY <2>1, <3>1, <3>2
  <2> QED BY <2>5, <2>6, <2>7 DEF RegisteredInv
<1>3. ASSUME NEW c \in Cameras, CamTimeout(c)
      PROVE  RegisteredInv'
  <2>1. /\ camera' = [camera EXCEPT ![c] = IF camera[c] = "notifying" THEN "online" ELSE "off"]
        /\ UNCHANGED <<replies, events>>
    BY <1>3 DEF CamTimeout, netVars
  <2>2. RegisteredIsListed'
    BY <1>0, <2>1 DEF RegisteredInv, RegisteredIsListed, TypeOK
  <2> QED BY <1>0, <2>1, <2>2 DEF RegisteredInv
<1>4. ASSUME NEW c \in Cameras, CamReport(c)
      PROVE  RegisteredInv'
  <2>1. UNCHANGED <<camera, replies>>
    BY <1>4 DEF CamReport, camVars
  <2>2. \A i \in 1 .. Len(events') : events'[i].kind = "Method" => Listed(events[i].cam)'
    <3> TAKE i \in 1 .. Len(events')
    <3>1. CASE i \in 1 .. Len(events)
      BY <1>0, <1>4, <3>1, ReportEffect DEF RegisteredInv
    <3>2. CASE i - Len(events) \in 1 .. Len(Report[c])
      <4>1. events'[Len(events) + (i - Len(events))].kind = "Catalog"
        BY <1>4, <3>2, ReportEffect
      <4>2. Len(events) + (i - Len(events)) = i
        BY <1>4, ReportEffect
      <4> QED BY <4>1, <4>2
    <3> QED BY <1>4, <3>1, <3>2, ReportEffect
  <2> QED BY <1>0, <2>1, <2>2 DEF RegisteredInv, RegisteredIsListed
<1>5. ASSUME NEW c \in Cameras, CamStartOver(c)
      PROVE  RegisteredInv'
  <2>1. /\ camera' = [camera EXCEPT ![c] = "off"]
        /\ replies' \subseteq replies /\ events' = events
    BY <1>5 DEF CamStartOver
  <2>2. RegisteredIsListed'
    BY <1>0, <2>1 DEF RegisteredInv, RegisteredIsListed, TypeOK
  <2> QED BY <1>0, <2>1, <2>2 DEF RegisteredInv
<1>6. CASE SipThread /\ events # <<>> /\ events' = Tail(events) /\ UNCHANGED camVars
  <2> DEFINE e == Head(events)
  <2>1. PICK d : d = e.cam
    OBVIOUS
  <2>2. \A i \in 1 .. Len(events') : events'[i].kind = "Method" => Listed(events[i].cam)'
    <3>1. \A i \in 1 .. Len(events') : i + 1 \in 1 .. Len(events) /\ events'[i] = events[i + 1]
      BY <1>6, EventQueue
    <3> QED BY <1>0, <3>1 DEF RegisteredInv
  <2>3. e.kind = "Method" => Listed(d)'
    <3>1. e = events[1] /\ 1 \in 1 .. Len(events)
      BY <1>6, EventQueue
    <3> QED BY <1>0, <2>1, <3>1 DEF RegisteredInv
  <2>4. \A r \in replies' : r \in replies \/ (r.code = 200 => r.cam = d /\ Listed(d)')
    <3>1. CASE replies' = replies
      BY <3>1
    <3>2. ASSUME NEW code, Answer(e, code), code = 200 => Listed(d)' \/ e.kind = "Method"
          PROVE  \A r \in replies' : r \in replies \/ (r.code = 200 => r.cam = d /\ Listed(d)')
      BY <2>1, <2>3, <3>2 DEF Answer
    <3> QED BY <1>6, <2>1, <3>1, <3>2, AnswerEffect
  <2>5. \A r \in replies' : r.code = 200 => Listed(r.cam)'
    BY <1>0, <2>4 DEF RegisteredInv
  <2>6. RegisteredIsListed'
    BY <1>0, <1>6 DEF RegisteredInv, RegisteredIsListed, camVars
  <2> QED BY <2>2, <2>5, <2>6 DEF RegisteredInv
<1>7. CASE UNCHANGED <<camVars, replies, events>>
  BY <1>0, <1>7, RegisteredQuiet DEF camVars
<1> QED BY <1>1, <1>2, <1>3, <1>4, <1>5, <1>6, <1>7, QueueSteps

\* As long as the server is not restarted, a camera that believes it is registered is in
\* the device list: for any number of cameras, whatever they give up and repeat, and
\* whatever other requests they send.
THEOREM RegisteredAreListed == MaxRestarts = 0 /\ Spec => []RegisteredIsListed
<1> SUFFICES ASSUME MaxRestarts = 0 PROVE Spec => []RegisteredIsListed
  OBVIOUS
<1> DEFINE I == TypeOK /\ LoopInv /\ RegisteredInv
<1>1. Init => I
  <2> SUFFICES ASSUME Init PROVE RegisteredInv
    BY TypeInit, ListInit
  <2>1. Len(events) = 0
    BY EmptySeq DEF Init
  <2> QED BY <2>1 DEF Init, RegisteredInv, RegisteredIsListed
<1>2. I /\ [Next]_vars => I'
  BY TypeStep, ListSteps, RegisteredStep, NoRestarts
<1>3. I => RegisteredIsListed
  BY DEF RegisteredInv
<1> QED BY <1>1, <1>2, <1>3, PTL DEF Spec
\* Nothing in the queue stays without an answer but Catalog messages.
PendingInv ==
    /\ NoRequestForgotten
    /\ \A i \in 1 .. Len(events) : events[i].kind # "Other"

\* Event i concerns the request camera c waits for.
Concerns(i, c) ==
    events[i].cam = c /\ events[i].epoch = epoch[c] /\ events[i].kind # "Catalog"

\* The queue grows, and no camera but c moves.
LEMMA PendingGrows ==
    ASSUME TypeOK, PendingInv, NEW c \in Cameras,
           Len(events) \in Nat, Len(events') \in Nat, Len(events) <= Len(events'),
           \A i \in 1 .. Len(events) : events'[i] = events[i],
           \A i \in 1 .. Len(events') : i > Len(events) => events'[i].kind # "Other",
           \A d \in Cameras : d # c => camera'[d] = camera[d] /\ epoch'[d] = epoch[d],
           \A r \in replies : r.cam # c => r \in replies',
           Waiting(c)' => Pending(c)'
    PROVE  PendingInv'
<1>1. ASSUME NEW d \in Cameras, Waiting(d)'
      PROVE  Pending(d)'
  <2>1. CASE d = c
    BY <1>1, <2>1
  <2>2. CASE d # c
    <3>1. Pending(d)
      BY <1>1, <2>2 DEF PendingInv, NoRequestForgotten, Waiting
    <3> QED BY <2>2, <3>1 DEF Pending
  <2> QED BY <2>1, <2>2
<1>2. \A i \in 1 .. Len(events') : events'[i].kind # "Other"
  <2> TAKE i \in 1 .. Len(events')
  <2>1. CASE i \in 1 .. Len(events)
    BY <2>1 DEF PendingInv
  <2>2. CASE i > Len(events)
    BY <2>2
  <2> QED BY <2>1, <2>2
<1> QED BY <1>1, <1>2 DEF PendingInv, NoRequestForgotten

LEMMA PendingStep ==
    ASSUME TypeOK, PendingInv, [Next]_vars, ~Restart, ~OtherMessages
    PROVE  PendingInv'
<1>0. Len(events) \in Nat
  BY LenProperties DEF TypeOK
<1>1. ASSUME NEW c \in Cameras, CamRegister(c) \/ CamKeepalive(c) \/ CamNotify(c)
      PROVE  PendingInv'
  <2>1. PICK to \in CameraStates, kind \in {"Register", "Keepalive"} :
           /\ camera' = [camera EXCEPT ![c] = to]
           /\ Send(c, kind, <<>>) /\ UNCHANGED <<epoch, replies>>
    BY <1>1 DEF CamRegister, CamKeepalive, CamNotify, Request, netVars, CameraStates
  <2>2. kind \in Kinds
    BY DEF Kinds
  <2>3. Pending(c)'
    <3>1. /\ Len(events) + 1 \in 1 .. Len(events')
          /\ events'[Len(events) + 1].cam = c
          /\ events'[Len(events) + 1].epoch = epoch'[c]
          /\ events'[Len(events) + 1].kind # "Catalog"
      BY <2>1, <2>2, SendEffect
    <3> QED BY <3>1 DEF Pending
  <2>4. \A d \in Cameras : d # c => camera'[d] = camera[d] /\ epoch'[d] = epoch[d]
    BY <2>1 DEF TypeOK
  <2>5. /\ Len(events') = Len(events) + 1
        /\ \A i \in 1 .. Len(events) : events'[i] = events[i]
        /\ \A i \in 1 .. Len(events') : i > Len(events) => events'[i].kind # "Other"
    <3>1. \A i \in 1 .. Len(events) + 1 : i > Len(events) => i = Len(events) + 1
      BY <1>0
    <3> QED BY <2>1, <2>2, <3>1, SendEffect
  <2> QED BY <1>0, <2>1, <2>3, <2>4, <2>5, PendingGrows
<1>2. ASSUME NEW c \in Cameras, CamTakeReply(c)
      PROVE  PendingInv'
  <2>1. PICK r \in replies :
           /\ r.cam = c /\ replies' = replies \ {r} /\ epoch' = epoch
           /\ \/ /\ camera' = [camera EXCEPT ![c] = "proving"]
                 /\ Send(c, "RegisterAuth", <<>>)
              \/ /\ \E to \in {"online", "off"} : camera' = [camera EXCEPT ![c] = to]
                 /\ events' = events
    BY <1>2 DEF CamTakeReply
  <2>2. "RegisterAuth" \in Kinds
    BY DEF Kinds
  <2>3. \A d \in Cameras : d # c => camera'[d] = camera[d] /\ epoch'[d] = epoch[d]
    BY <2>1 DEF TypeOK
  <2>4. CASE /\ camera' = [camera EXCEPT ![c] = "proving"]
             /\ Send(c, "RegisterAuth", <<>>)
    <3>1. Pending(c)'
      <4>1. /\ Len(events) + 1 \in 1 .. Len(events')
            /\ events'[Len(events) + 1].cam = c
            /\ events'[Len(events) + 1].epoch = epoch'[c]
            /\ events'[Len(events) + 1].kind # "Catalog"
        BY <2>1, <2>2, <2>4, SendEffect
      <4> QED BY <4>1 DEF Pending
    <3>2. /\ Len(events') = Len(events) + 1
          /\ \A i \in 1 .. Len(events) : events'[i] = events[i]
          /\ \A i \in 1 .. Len(events') : i > Len(events) => events'[i].kind # "Other"
      <4>1. \A i \in 1 .. Len(events) + 1 : i > Len(events) => i = Len(events) + 1
        BY <1>0
      <4> QED BY <2>2, <2>4, <4>1, SendEffect
    <3> QED BY <1>0, <2>1, <2>3, <3>1, <3>2, PendingGrows
  <2>5. CASE /\ \E to \in {"online", "off"} : camera' = [camera EXCEPT ![c] = to]
             /\ events' = events
    <3>1. ~Waiting(c)'
      BY <2>5 DEF Waiting, TypeOK
    <3> QED BY <1>0, <2>1, <2>3, <2>5, <3>1, PendingGrows
  <2> QED BY <2>1, <2>4, <2>5
<1>3. ASSUME NEW c \in Cameras, CamTimeout(c)
      PROVE  PendingInv'
  <2>1. ~Waiting(c)'
    BY <1>3 DEF CamTimeout, Waiting, TypeOK
  <2>2. \A d \in Cameras : d # c => camera'[d] = camera[d] /\ epoch'[d] = epoch[d]
    BY <1>3 DEF CamTimeout, TypeOK
  <2> QED BY <1>0, <1>3, <2>1, <2>2, PendingGrows DEF CamTimeout, netVars
<1>4. ASSUME NEW c \in Cameras, CamReport(c)
      PROVE  PendingInv'
  <2>1. UNCHANGED <<camera, epoch, replies>>
    BY <1>4 DEF CamReport, camVars
  <2>2. /\ Len(events') \in Nat /\ Len(events) <= Len(events')
        /\ \A i \in 1 .. Len(events) : events'[i] = events[i]
    BY <1>4, ReportEffect
  <2>3. Waiting(c)' => Pending(c)'
    BY <1>0, <2>1, <2>2 DEF PendingInv, NoRequestForgotten, Waiting, Pending
  <2>4. \A i \in 1 .. Len(events') : i > Len(events) => events'[i].kind # "Other"
    <3> SUFFICES ASSUME NEW i \in 1 .. Len(events'), i > Len(events)
                 PROVE  events'[i].kind # "Other"
      OBVIOUS
    <3>1. i - Len(events) \in 1 .. Len(Report[c]) /\ Len(events) + (i - Len(events)) = i
      BY <1>4, ReportEffect
    <3>2. events'[Len(events) + (i - Len(events))].kind = "Catalog"
      BY <1>4, <3>1, ReportEffect
    <3> QED BY <3>1, <3>2
  <2> QED BY <1>0, <2>1, <2>2, <2>3, <2>4, PendingGrows
<1>5. ASSUME NEW c \in Cameras, CamStartOver(c)
      PROVE  PendingInv'
  <2>1. ~Waiting(c)'
    BY <1>5 DEF CamStartOver, Waiting, TypeOK
  <2>2. \A d \in Cameras : d # c => camera'[d] = camera[d] /\ epoch'[d] = epoch[d]
    BY <1>5 DEF CamStartOver, TypeOK
  <2>3. events' = events /\ \A r \in replies : r.cam # c => r \in replies'
    BY <1>5 DEF CamStartOver
  <2> QED BY <1>0, <2>1, <2>2, <2>3, PendingGrows
<1>6. CASE SipThread /\ events # <<>> /\ events' = Tail(events) /\ UNCHANGED camVars
  <2> DEFINE e == Head(events)
  <2>1. /\ e = events[1] /\ 1 \in 1 .. Len(events) /\ e.cam \in Cameras
        /\ Len(events') = Len(events) - 1
        /\ \A i \in 1 .. Len(events) - 1 : events'[i] = events[i + 1]
    BY <1>6, EventQueue
  <2>2. \A i \in 1 .. Len(events') : events'[i].kind # "Other"
    <3>1. \A i \in 1 .. Len(events') : i + 1 \in 1 .. Len(events) /\ events'[i] = events[i + 1]
      BY <1>0, <2>1
    <3> QED BY <3>1 DEF PendingInv
  <2>3. \/ e.kind = "Catalog" /\ replies' = replies
        \/ \E code \in {200, 401, 403} : Answer(e, code)
    BY <1>6, <2>1, AnswerEffect DEF PendingInv
  <2>4. replies \subseteq replies'
    BY <2>3 DEF Answer
  <2>5. ASSUME NEW d \in Cameras, Waiting(d)'
        PROVE  Pending(d)'
    <3>1. Pending(d) /\ epoch' = epoch
      BY <1>6, <2>5 DEF PendingInv, NoRequestForgotten, Waiting, camVars
    <3>2. CASE \E r \in replies : r.cam = d /\ r.epoch = epoch[d]
      BY <2>4, <3>1, <3>2 DEF Pending
    <3>3. CASE e.cam = d /\ e.epoch = epoch[d] /\ e.kind # "Catalog"
      <4>1. PICK code : Answer(e, code)
        BY <2>3, <3>3
      <4>2. [cam |-> e.cam, epoch |-> e.epoch, code |-> code] \in replies'
        BY <3>3, <4>1 DEF Answer
      <4>3. \E r \in replies' : r.cam = d /\ r.epoch = epoch'[d]
        BY <3>1, <3>3, <4>2
      <4> QED BY <4>3 DEF Pending
    <3>4. ASSUME NEW i \in 1 .. Len(events), i # 1, Concerns(i, d)
          PROVE  Pending(d)'
      <4>1. i - 1 \in 1 .. Len(events') /\ (i - 1) + 1 = i /\ i - 1 \in 1 .. Len(events) - 1
        BY <1>0, <2>1, <3>4
      <4>2. events'[i - 1] = events[i]
        BY <2>1, <4>1
      <4> QED BY <3>1, <3>4, <4>1, <4>2 DEF Pending, Concerns
    <3> QED BY <2>1, <3>1, <3>2, <3>3, <3>4 DEF Pending, Concerns
  <2> QED BY <2>2, <2>5 DEF PendingInv, NoRequestForgotten
<1>7. CASE UNCHANGED <<camVars, replies, events>>
  BY <1>7 DEF PendingInv, NoRequestForgotten, Waiting, Pending, camVars
<1> QED BY <1>1, <1>2, <1>3, <1>4, <1>5, <1>6, <1>7, QueueSteps

\* As long as the server is not restarted, every REGISTER and Keepalive is on its way or
\* answered, and so is every other request but a MESSAGE of an unknown CmdType: while a
\* camera waits, its request or the reply to it exists.
THEOREM RequestsAreAnswered ==
    MaxRestarts = 0 /\ ~OtherMessages /\ Spec => []NoRequestForgotten
<1> SUFFICES ASSUME MaxRestarts = 0, ~OtherMessages PROVE Spec => []NoRequestForgotten
  OBVIOUS
<1> DEFINE I == TypeOK /\ PendingInv
<1>1. Init => I
  <2> SUFFICES ASSUME Init PROVE PendingInv
    BY TypeInit
  <2>1. Len(events) = 0
    BY EmptySeq DEF Init
  <2> QED BY <2>1 DEF Init, PendingInv, NoRequestForgotten, Waiting
<1>2. I /\ [Next]_vars => I'
  BY TypeStep, PendingStep, NoRestarts
<1>3. I => NoRequestForgotten
  BY DEF PendingInv
<1> QED BY <1>1, <1>2, <1>3, PTL DEF Spec
-----------------------------------------------------------------------------
(* Each channel once in an entry.                                          *)

\* Every camera reports its own address with each of its channels.
OwnAddresses ==
    \A c \in Cameras : \A m \in 1 .. Len(Report[c]) : \A i \in 1 .. Len(Report[c][m]) :
        Report[c][m][i].IPAddress = c

\* So do the messages in the queue and the one that is worked through.
CatalogsOwn ==
    /\ \A n \in 1 .. Len(events) : events[n].kind = "Catalog" =>
          \A i \in 1 .. Len(events[n].items) : events[n].items[i].IPAddress = events[n].cam
    /\ catalog # NoLoop => catalog.item.IPAddress = catalog.cam

\* The queue grows by requests that are no catalogs.
LEMMA CatalogsGrow ==
    ASSUME TypeOK, CatalogsOwn, NEW c \in Cameras, NEW kind \in Kinds \ {"Catalog"},
           Send(c, kind, <<>>), UNCHANGED catalog
    PROVE  CatalogsOwn'
<1>1. ASSUME NEW n \in 1 .. Len(events'), events'[n].kind = "Catalog"
      PROVE  \A i \in 1 .. Len(events'[n].items) : events'[n].items[i].IPAddress = events'[n].cam
  <2>1. n # Len(events) + 1
    BY <1>1, SendEffect
  <2>2. n \in 1 .. Len(events) /\ events'[n] = events[n]
    BY <2>1, SendEffect
  <2> QED BY <1>1, <2>2 DEF CatalogsOwn
<1> QED BY <1>1 DEF CatalogsOwn

LEMMA CatalogsStep ==
    ASSUME OwnAddresses, TypeOK, CatalogsOwn, [Next]_vars
    PROVE  CatalogsOwn'
<1>1. ASSUME NEW c \in Cameras, CamRegister(c) \/ CamKeepalive(c) \/ CamNotify(c)
      PROVE  CatalogsOwn'
  <2>1. PICK kind \in Kinds \ {"Catalog"} : Send(c, kind, <<>>) /\ UNCHANGED catalog
    BY <1>1 DEF CamRegister, CamKeepalive, CamNotify, Request, srvVars, Kinds
  <2> QED BY <2>1, CatalogsGrow
<1>2. ASSUME NEW c \in Cameras, CamTakeReply(c)
      PROVE  CatalogsOwn'
  <2>1. /\ UNCHANGED catalog
        /\ Send(c, "RegisterAuth", <<>>) \/ events' = events
    BY <1>2 DEF CamTakeReply, srvVars
  <2>2. "RegisterAuth" \in Kinds \ {"Catalog"}
    BY DEF Kinds
  <2> QED BY <2>1, <2>2, CatalogsGrow DEF CatalogsOwn
<1>3. ASSUME NEW c \in Cameras, CamTimeout(c) \/ CamStartOver(c)
      PROVE  CatalogsOwn'
  BY <1>3 DEF CamTimeout, CamStartOver, srvVars, CatalogsOwn
<1>4. ASSUME NEW c \in Cameras, CamReport(c)
      PROVE  CatalogsOwn'
  <2>1. UNCHANGED catalog
    BY <1>4 DEF CamReport, srvVars
  <2>2. ASSUME NEW n \in 1 .. Len(events'), events'[n].kind = "Catalog"
        PROVE  \A i \in 1 .. Len(events'[n].items) :
                  events'[n].items[i].IPAddress = events'[n].cam
    <3>1. CASE n \in 1 .. Len(events)
      BY <1>4, <2>2, <3>1, ReportEffect DEF CatalogsOwn
    <3>2. CASE n - Len(events) \in 1 .. Len(Report[c])
      <4> DEFINE m == n - Len(events)
      <4>1. Len(events) + m = n
        BY <1>4, ReportEffect
      <4>2. events'[n].cam = c /\ events'[n].items = Report[c][m]
        <5>1. m \in 1 .. Len(Report[c])
          BY <3>2
        <5>2. events'[Len(events) + m].cam = c /\ events'[Len(events) + m].items = Report[c][m]
          BY <1>4, <5>1, ReportEffect
        <5> QED BY <4>1, <5>2
      <4> QED BY <3>2, <4>2 DEF OwnAddresses
    <3> QED BY <1>4, <3>1, <3>2, ReportEffect
  <2> QED BY <2>1, <2>2 DEF CatalogsOwn
<1>5. CASE SipThread /\ events # <<>> /\ events' = Tail(events)
  <2>1. \A n \in 1 .. Len(events') : n + 1 \in 1 .. Len(events) /\ events'[n] = events[n + 1]
    BY <1>5, EventQueue
  <2>2. CASE UNCHANGED catalog
    BY <2>1, <2>2 DEF CatalogsOwn
  <2>3. CASE HandleCatalog
    <3> DEFINE e == Head(events)
    <3>1. /\ e = events[1] /\ 1 \in 1 .. Len(events) /\ e.items \in Seq(Items)
      BY <1>5, EventQueue
    <3>2. /\ e.kind = "Catalog"
          /\ catalog' = IF e.items = <<>> THEN NoLoop
                        ELSE [in |-> "catalog", item |-> e.items[1], cam |-> e.cam,
                              remote |-> lastRemote, deviceListTmp |-> <<>>]
      BY <2>3 DEF HandleCatalog, Take
    <3>3. CASE e.items = <<>>
      BY <2>1, <3>2, <3>3 DEF CatalogsOwn
    <3>4. CASE e.items # <<>>
      <4>1. 1 \in 1 .. Len(e.items)
        BY <3>1, <3>4, EmptySeq
      <4>2. e.items[1].IPAddress = e.cam
        BY <3>1, <3>2, <4>1 DEF CatalogsOwn
      <4>3. catalog'.item.IPAddress = catalog'.cam
        BY <3>2, <3>4, <4>2
      <4> QED BY <2>1, <4>3 DEF CatalogsOwn
    <3> QED BY <3>3, <3>4
  <2>4. CASE InLoop /\ \E device : PushBack(device)
    <3>1. catalog # NoLoop /\ catalog'.item = catalog.item /\ catalog'.cam = catalog.cam
      BY <2>4, LoopEntry DEF PushBack, InLoop
    <3> QED BY <2>1, <3>1 DEF CatalogsOwn
  <2>5. CASE catalog' = NoLoop
    BY <2>1, <2>5 DEF CatalogsOwn
  <2> QED BY <1>5, <2>2, <2>3, <2>4, <2>5
          DEF SipThread, HandleRegister, HandleRegisterAuth, HandleKeepalive, HandleOther,
              HandleMethod, OtherEntry, KnownChannel, NewChannel, CatalogDone, srvVars
<1>6. CASE UNCHANGED events
  <2>1. CASE UNCHANGED catalog
    BY <1>6, <2>1 DEF CatalogsOwn
  <2>2. CASE InLoop /\ \E device : PushBack(device)
    <3>1. catalog # NoLoop /\ catalog'.item = catalog.item /\ catalog'.cam = catalog.cam
      BY <2>2, LoopEntry DEF PushBack, InLoop
    <3> QED BY <1>6, <3>1 DEF CatalogsOwn
  <2>3. CASE catalog' = NoLoop
    BY <1>6, <2>3 DEF CatalogsOwn
  <2>4. CASE \E kind : Take(kind)
    <3>1. events # <<>> /\ events' = Tail(events)
      BY <2>4 DEF Take
    <3> DEFINE tail == Tail(events)
    <3>2. Len(tail) = Len(events) - 1 /\ Len(events) \in Nat
      BY <3>1, EventQueue
    <3> HIDE DEF tail
    <3>3. tail # events
      BY <3>2
    <3> QED BY <1>6, <3>1, <3>3 DEF tail
  <2>5. \/ UNCHANGED catalog
        \/ InLoop /\ \E device : PushBack(device)
        \/ catalog' = NoLoop
        \/ \E kind : Take(kind)
    <3>1. CASE SipThread
      BY <3>1 DEF SipThread, HandleRegister, HandleRegisterAuth, HandleKeepalive, HandleOther,
              HandleMethod, HandleCatalog, OtherEntry, KnownChannel, NewChannel, CatalogDone
    <3>2. ASSUME NEW c \in Cameras, Camera(c) \/ CamNotify(c) \/ CamStartOver(c)
          PROVE  UNCHANGED catalog
      BY <3>2 DEF Camera, CamRegister, CamTakeReply, CamTimeout, CamReport, CamKeepalive,
                  CamNotify, CamStartOver, Request, srvVars
    <3>3. CASE DeliverSignal \/ UiThread \/ Restart \/ UNCHANGED vars
      BY <3>3 DEF DeliverSignal, UiThread, ClickCatalog, Restart, vars, srvVars
    <3> QED BY <3>1, <3>2, <3>3 DEF Next
  <2> QED BY <2>1, <2>2, <2>3, <2>4, <2>5
<1>7. CASE Restart
  <2>1. Len(events') = 0 /\ catalog' = NoLoop
    BY <1>7, EmptySeq DEF Restart
  <2> QED BY <2>1 DEF CatalogsOwn
<1> QED BY <1>1, <1>2, <1>3, <1>4, <1>5, <1>6, <1>7, QueueSteps
\* The list's entries hold each channel once, under the address of their camera.
NoDoubles(list) ==
    \A k \in 1 .. Len(list) :
        \A i, j \in 1 .. Len(list[k].channelList) :
            /\ channels[list[k].channelList[i]].IPAddress = list[k].cam
            /\ channels[list[k].channelList[i]].DeviceID
                  = channels[list[k].channelList[j]].DeviceID => i = j

LEMMA DoublesStep ==
    ASSUME TypeOK, LoopInv, CatalogsOwn, NoDoubles(mDeviceList), NoDoubles(ListNow), [Next]_vars
    PROVE  NoDoubles(mDeviceList)' /\ NoDoubles(ListNow)'
<1> USE ListNowType
<1>1. CASE ListSettles
  BY <1>1 DEF ListSettles, NoDoubles
<1>2. CASE ListGrows
  <2>1. NoDoubles(mDeviceList)'
    <3> SUFFICES ASSUME NEW k \in 1 .. Len(mDeviceList'),
                        NEW i \in 1 .. Len(mDeviceList'[k].channelList)
                 PROVE  /\ k \in 1 .. Len(mDeviceList) /\ mDeviceList'[k] = mDeviceList[k]
                        /\ channels' = channels
      BY DEF NoDoubles
    <3>1. k # Len(mDeviceList) + 1
      BY <1>2, ListGrowsTo, EmptySeq
    <3> QED BY <1>2, <3>1, ListGrowsTo DEF ListGrows
  <2> QED BY <1>2, <2>1 DEF ListGrows, NoDoubles
<1>3. ASSUME NEW n \in 1 .. Len(mDeviceList), EntryGrows(n)
      PROVE  NoDoubles(mDeviceList)' /\ NoDoubles(ListNow)'
  <2> USE <1>3
  <2> DEFINE new == Len(channels) + 1
             old == deviceNode.channelList
  <2>1. /\ NewChannel /\ mDeviceList' = mDeviceList /\ ListNow[n] = deviceNode
        /\ deviceNode \in Devices /\ Len(old) \in Nat /\ Len(ListNow') = Len(mDeviceList)
        /\ DOMAIN ListNow = 1 .. Len(mDeviceList)
    <3>1. Len(ListNow') = Len(mDeviceList)
      <4>1. ListNow' \in [1 .. Len(mDeviceList) -> {ListNow'[k] : k \in 1 .. Len(mDeviceList)}]
        BY DEF ListNow, EntryGrows
      <4> QED BY <4>1, SeqOf
    <3> QED BY <3>1, EntryGrowsTo, ChannelListType DEF EntryGrows, ListNow
  <2>2. ASSUME NEW list \in {mDeviceList, ListNow}, NEW k \in 1 .. Len(mDeviceList),
               NEW i \in 1 .. Len(list[k].channelList)
        PROVE  channels'[list[k].channelList[i]] = channels[list[k].channelList[i]]
    <3>1. list[k] \in Devices
      OBVIOUS
    <3>2. list[k].channelList[i] \in 1 .. Len(channels)
      BY <3>1, ChannelListType
    <3> QED BY <2>1, <3>2, NewChannelEffect
  <2>3. NoDoubles(mDeviceList)'
    <3> SUFFICES ASSUME NEW k \in 1 .. Len(mDeviceList),
                        NEW i \in 1 .. Len(mDeviceList[k].channelList),
                        NEW j \in 1 .. Len(mDeviceList[k].channelList)
                 PROVE  /\ channels'[mDeviceList[k].channelList[i]].IPAddress = mDeviceList[k].cam
                        /\ channels'[mDeviceList[k].channelList[i]].DeviceID
                              = channels'[mDeviceList[k].channelList[j]].DeviceID => i = j
      BY <2>1 DEF NoDoubles
    <3>1. /\ channels'[mDeviceList[k].channelList[i]] = channels[mDeviceList[k].channelList[i]]
          /\ channels'[mDeviceList[k].channelList[j]] = channels[mDeviceList[k].channelList[j]]
      BY <2>2
    <3> QED BY <3>1 DEF NoDoubles
  <2>4. /\ catalog.item \in Items /\ catalog.cam = deviceNode.cam /\ deviceNode.cam \in Cameras
        /\ catalog.item.IPAddress = deviceNode.cam
    <3>1. InLoop /\ catalog # NoLoop /\ IsParent(catalog.item, catalog.cam, deviceNode)
      BY <2>1 DEF NewChannel, InLoop
    <3> QED BY <3>1, <2>1, LoopEntry, ChannelListType DEF IsParent, CatalogsOwn
  <2>5. /\ channels'[new].IPAddress = deviceNode.cam
        /\ channels'[new].DeviceID = catalog.item.DeviceID
    <3>1. deviceNode.cam # NoAddress
      BY <2>4, RegistryAssumption DEF RegistryAssumption
    <3> QED BY <2>1, <2>4, <3>1, NewChannelEffect DEF StoredAddress
  <2>6. \A i \in 1 .. Len(old) : channels[old[i]].DeviceID # catalog.item.DeviceID
    <3>1. ~Exists(catalog.item, catalog.cam, deviceNode)
      BY <2>1 DEF NewChannel
    <3>2. \A i \in 1 .. Len(old) : channels[old[i]].IPAddress = deviceNode.cam
      BY <2>1 DEF NoDoubles
    <3> QED BY <2>4, <3>1, <3>2 DEF Exists, SameChannel
  <2>7. /\ ListNow'[n].cam = deviceNode.cam
        /\ Len(ListNow'[n].channelList) = Len(old) + 1
        /\ \A i \in 1 .. Len(old) : ListNow'[n].channelList[i] = old[i]
        /\ ListNow'[n].channelList[Len(old) + 1] = new
        /\ \A k \in 1 .. Len(mDeviceList) : k # n => ListNow'[k] = ListNow[k]
    BY EntryGrowsTo
  <2>8. ASSUME NEW k \in 1 .. Len(mDeviceList),
               NEW i \in 1 .. Len(ListNow'[k].channelList),
               NEW j \in 1 .. Len(ListNow'[k].channelList)
        PROVE  /\ channels'[ListNow'[k].channelList[i]].IPAddress = ListNow'[k].cam
               /\ channels'[ListNow'[k].channelList[i]].DeviceID
                     = channels'[ListNow'[k].channelList[j]].DeviceID => i = j
    <3>1. CASE k # n
      <4>1. ListNow'[k] = ListNow[k] /\ k \in 1 .. Len(ListNow)
        BY <2>7, <3>1
      <4>2. i \in 1 .. Len(ListNow[k].channelList) /\ j \in 1 .. Len(ListNow[k].channelList)
        BY <4>1
      <4>3. /\ channels'[ListNow[k].channelList[i]] = channels[ListNow[k].channelList[i]]
            /\ channels'[ListNow[k].channelList[j]] = channels[ListNow[k].channelList[j]]
        BY <2>2, <4>2
      <4>4. /\ channels[ListNow[k].channelList[i]].IPAddress = ListNow[k].cam
            /\ channels[ListNow[k].channelList[i]].DeviceID
                  = channels[ListNow[k].channelList[j]].DeviceID => i = j
        BY <4>1, <4>2 DEF NoDoubles
      <4> QED BY <4>1, <4>3, <4>4
    <3>2. CASE k = n
      <4> DEFINE a(h) == channels'[ListNow'[n].channelList[h]]
      <4>1. ASSUME NEW h \in 1 .. Len(old)
            PROVE  a(h) = channels[old[h]] /\ a(h).DeviceID # catalog.item.DeviceID
        <5>1. ListNow'[n].channelList[h] = old[h] /\ channels'[old[h]] = channels[old[h]]
          BY <2>1, <2>2, <2>7
        <5> QED BY <2>6, <5>1
      <4>2. ASSUME NEW h \in 1 .. Len(old), NEW g \in 1 .. Len(old)
            PROVE  /\ channels[old[h]].IPAddress = deviceNode.cam
                   /\ channels[old[h]].DeviceID = channels[old[g]].DeviceID => h = g
        BY <2>1 DEF NoDoubles
      <4>3. /\ a(Len(old) + 1).IPAddress = deviceNode.cam
            /\ a(Len(old) + 1).DeviceID = catalog.item.DeviceID
        BY <2>5, <2>7
      <4>4. (i \in 1 .. Len(old) \/ i = Len(old) + 1) /\ (j \in 1 .. Len(old) \/ j = Len(old) + 1)
        BY <2>1, <2>7, <3>2
      <4> HIDE DEF a
      <4>5. a(i).IPAddress = deviceNode.cam /\ (a(i).DeviceID = a(j).DeviceID => i = j)
        <5>1. CASE i \in 1 .. Len(old) /\ j \in 1 .. Len(old)
          BY <4>1, <4>2, <5>1
        <5>2. CASE i \in 1 .. Len(old) /\ j = Len(old) + 1
          BY <4>1, <4>2, <4>3, <5>2
        <5>3. CASE i = Len(old) + 1 /\ j \in 1 .. Len(old)
          BY <4>1, <4>3, <5>3
        <5>4. CASE i = Len(old) + 1 /\ j = Len(old) + 1
          BY <4>3, <5>4
        <5> QED BY <4>4, <5>1, <5>2, <5>3, <5>4
      <4> QED BY <2>7, <3>2, <4>5 DEF a
    <3> QED BY <3>1, <3>2
  <2>9. NoDoubles(ListNow)'
    BY <2>1, <2>8 DEF NoDoubles
  <2> QED BY <2>3, <2>9
<1>4. CASE ListEmptied
  BY <1>4, EmptySeq DEF ListEmptied, NoDoubles
<1> QED BY <1>1, <1>2, <1>3, <1>4, ListSteps

\* Where cameras report their own address, a list entry gets each of its channels once,
\* however often and in whatever order they report.
THEOREM ChannelsAreListedOnce == OwnAddresses /\ Spec => []EntriesHaveNoDoubles
<1> SUFFICES ASSUME OwnAddresses PROVE Spec => []EntriesHaveNoDoubles
  OBVIOUS
<1> DEFINE I == TypeOK /\ LoopInv /\ CatalogsOwn /\ NoDoubles(mDeviceList) /\ NoDoubles(ListNow)
<1>1. Init => I
  <2> SUFFICES ASSUME Init PROVE CatalogsOwn /\ NoDoubles(mDeviceList) /\ NoDoubles(ListNow)
    BY TypeInit, ListInit
  <2>1. Len(<<>>) = 0
    BY EmptySeq
  <2>2. events = <<>> /\ catalog = NoLoop
    BY DEF Init
  <2> QED BY <2>1, <2>2, ListInit DEF CatalogsOwn, NoDoubles
<1>2. I /\ [Next]_vars => I'
  BY TypeStep, ListSteps, CatalogsStep, DoublesStep
<1>3. I => EntriesHaveNoDoubles
  BY DEF NoDoubles, EntriesHaveNoDoubles
<1> QED BY <1>1, <1>2, <1>3, PTL DEF Spec
-----------------------------------------------------------------------------
(* What the window shows.                                                  *)

\* f tells for every list entry that is not in the tree yet which of the queued signals
\* brings it: the announcements of new cameras, in their order.
Brings(f) ==
    /\ f \in [Len(tree) + 1 .. Len(mDeviceList) -> 1 .. Len(signals)]
    /\ \A k, l \in Len(tree) + 1 .. Len(mDeviceList) : k < l => f[k] < f[l]
    /\ \A k \in Len(tree) + 1 .. Len(mDeviceList) :
          signals[f[k]].kind = "registed" /\ signals[f[k]].node.cam = mDeviceList[k].cam
    /\ \A j \in 1 .. Len(signals) : signals[j].kind = "registed" =>
          \E k \in Len(tree) + 1 .. Len(mDeviceList) : f[k] = j

\* The tree has the cameras of the list, but for those whose announcements are queued.
TreeInv ==
    /\ Len(tree) <= Len(mDeviceList)
    /\ \A i \in 1 .. Len(tree) : tree[i].cam = mDeviceList[i].cam
    /\ \E f \in [Len(tree) + 1 .. Len(mDeviceList) -> 1 .. Len(signals)] : Brings(f)

\* No other entry of the list is of the camera of the k-th.
Sole(k) ==
    \A l \in 1 .. Len(mDeviceList) : mDeviceList[l].cam = mDeviceList[k].cam => l = k

\* The last signal about the camera of entry k carries that entry as it is to become, or
\* the tree has it and no signal changes it.
OnItsWay(k) ==
    \E i \in 1 .. Len(signals) :
        /\ signals[i].node = ListNow[k]
        /\ \A j \in i + 1 .. Len(signals) : signals[j].node.cam # mDeviceList[k].cam
IsShown(k) ==
    /\ k <= Len(tree) /\ tree[k] = ListNow[k]
    /\ \A j \in 1 .. Len(signals) : signals[j].node.cam # mDeviceList[k].cam

EntriesInv ==
    \A k \in 1 .. Len(mDeviceList) : Sole(k) => OnItsWay(k) \/ IsShown(k)

\* A sequence with one more element.
LEMMA Appended ==
    ASSUME NEW S, NEW s \in Seq(S), NEW x
    PROVE  /\ Len(s) \in Nat /\ Len(Append(s, x)) = Len(s) + 1
           /\ \A i \in 1 .. Len(s) : Append(s, x)[i] = s[i]
           /\ Append(s, x)[Len(s) + 1] = x
<1>1. s \in Seq(S \union {x})
  BY SeqMonotonic
<1> QED BY <1>1, AppendProperties, LenProperties

\* What is queued and what the tree shows.
LEMMA WindowTypes ==
    ASSUME TypeOK
    PROVE  /\ signals \in Seq(Signals) /\ Len(signals) \in Nat
           /\ tree \in Seq(Devices) /\ Len(tree) \in Nat
           /\ \A i \in 1 .. Len(tree) : tree[i] \in Devices
           /\ \A i \in 1 .. Len(signals) :
                 /\ signals[i].kind \in {"registed", "update"}
                 /\ signals[i].node \in Devices /\ signals[i].node.cam \in Cameras
<1>1. signals \in Seq(Signals) /\ tree \in Seq(Devices)
  BY DEF TypeOK
<1>2. \A i \in 1 .. Len(signals) : signals[i] \in Signals
  BY <1>1, ElementOfSeq
<1>3. \A i \in 1 .. Len(tree) : tree[i] \in Devices
  BY <1>1, ElementOfSeq
<1> QED BY <1>1, <1>2, <1>3, LenProperties DEF Signals, Devices

\* What a delivered signal does to the queue and the tree.
LEMMA DeliverEffect ==
    ASSUME TypeOK, DeliverSignal
    PROVE  /\ Len(signals) \in Nat \ {0} /\ Len(signals') = Len(signals) - 1
           /\ \A i \in 1 .. Len(signals) - 1 : signals'[i] = signals[i + 1]
           /\ signals[1].kind = "registed" =>
                 /\ Len(tree') = Len(tree) + 1
                 /\ \A i \in 1 .. Len(tree) : tree'[i] = tree[i]
                 /\ tree'[Len(tree) + 1] = signals[1].node
           /\ signals[1].kind # "registed" =>
                 /\ Len(tree') = Len(tree)
                 /\ \A i \in 1 .. Len(tree) :
                       tree'[i] = IF tree[i].cam = signals[1].node.cam
                                  THEN signals[1].node ELSE tree[i]
<1>1. /\ signals \in Seq(Signals) /\ signals # <<>> /\ signals' = Tail(signals)
      /\ tree \in Seq(Devices) /\ Len(tree) \in Nat
  BY WindowTypes DEF DeliverSignal
<1>2. /\ Head(signals) = signals[1] /\ Len(signals) \in Nat \ {0}
      /\ Len(Tail(signals)) = Len(signals) - 1
      /\ \A i \in 1 .. Len(signals) - 1 : Tail(signals)[i] = signals[i + 1]
  BY <1>1, EmptySeq, HeadTailProperties, LenProperties
<1>3. CASE signals[1].kind = "registed"
  <2>1. tree' = Append(tree, signals[1].node)
    BY <1>2, <1>3 DEF DeliverSignal
  <2> QED BY <1>1, <1>2, <1>3, <2>1, Appended
<1>4. CASE signals[1].kind # "registed"
  <2>1. tree' = [i \in 1 .. Len(tree) |-> IF tree[i].cam = signals[1].node.cam
                                          THEN signals[1].node ELSE tree[i]]
    BY <1>2, <1>4 DEF DeliverSignal
  <2>2. 1 \in 1 .. Len(signals)
    BY <1>2
  <2>3. signals[1].node \in Devices /\ \A i \in 1 .. Len(tree) : tree[i] \in Devices
    BY <2>2, WindowTypes
  <2>4. tree' \in [1 .. Len(tree) -> Devices]
    BY <2>1, <2>3
  <2>5. Len(tree') = Len(tree)
    BY <1>1, <2>4, SeqOf
  <2> QED BY <1>1, <1>2, <1>4, <2>1, <2>5
<1> QED BY <1>3, <1>4

\* The steps by what they do to the list and to what is told of it.
SameCameras ==
    /\ Len(mDeviceList') = Len(mDeviceList)
    /\ \A k \in 1 .. Len(mDeviceList) : mDeviceList'[k].cam = mDeviceList[k].cam
NothingSaid ==
    /\ SameCameras /\ ListNow' = ListNow /\ UNCHANGED <<signals, tree>>
CameraSaid(c) ==
    LET node == [cam |-> c, channelList |-> <<>>]
    IN  /\ mDeviceList' = Append(mDeviceList, node)
        /\ ListNow = mDeviceList /\ ListNow' = mDeviceList'
        /\ signals' = Append(signals, [kind |-> "registed", node |-> node])
        /\ tree' = tree
EntrySaid(n) ==
    /\ SameCameras
    /\ \A k \in 1 .. Len(mDeviceList) : k # n => ListNow'[k] = ListNow[k]
    /\ ListNow'[n].cam = mDeviceList[n].cam
    /\ signals' = Append(signals, [kind |-> "update", node |-> ListNow'[n]])
    /\ tree' = tree
IsDelivered ==
    /\ SameCameras /\ ListNow' = ListNow /\ DeliverSignal

LEMMA SignalSteps ==
    ASSUME TypeOK, LoopInv, [Next]_vars, ~Restart
    PROVE  \/ NothingSaid \/ IsDelivered
           \/ \E c \in Cameras : CameraSaid(c)
           \/ \E n \in 1 .. Len(mDeviceList) : EntrySaid(n)
<1>1. ASSUME ListSettles
      PROVE  SameCameras /\ ListNow' = ListNow
  BY <1>1, ListNowType DEF ListSettles, SameCameras, LoopInv
<1>2. ASSUME Len(mDeviceList') = Len(mDeviceList), ~NewChannel
      PROVE  ListSettles
  <2>1. ASSUME ListGrows PROVE FALSE
    <3>1. PICK c \in Cameras : mDeviceList' = Append(mDeviceList, [cam |-> c, channelList |-> <<>>])
      BY <2>1 DEF ListGrows
    <3>2. mDeviceList \in Seq(Devices)
      BY ListNowType
    <3>3. Len(mDeviceList') = Len(mDeviceList) + 1 /\ Len(mDeviceList) \in Nat
      BY <3>1, <3>2, Appended
    <3> QED BY <1>2, <3>3
  <2> QED BY <1>2, <2>1, ListSteps DEF ListEmptied, EntryGrows
<1>3. CASE HandleRegisterAuth
  <2>1. catalog = NoLoop /\ tree' = tree /\ ~NewChannel
    BY <1>3 DEF HandleRegisterAuth, Take, uiVars, NewChannel, InLoop
  <2>2. CASE UNCHANGED <<mDeviceList, signals>>
    BY <1>1, <1>2, <2>1, <2>2 DEF NothingSaid
  <2>3. ASSUME NEW c \in Cameras, mDeviceList' = Append(mDeviceList, [cam |-> c, channelList |-> <<>>]),
               signals' = Append(signals, [kind |-> "registed",
                                           node |-> [cam |-> c, channelList |-> <<>>]])
        PROVE  CameraSaid(c)
    <3>1. Len(mDeviceList') = Len(mDeviceList) + 1 /\ Len(mDeviceList) \in Nat
      BY <2>3, ListNowType, Appended
    <3>2. ~ListSettles
      BY <3>1, <1>1 DEF SameCameras
    <3>3. ListGrows
      BY <2>1, <3>2, ListSteps DEF ListEmptied, EntryGrows
    <3> QED BY <2>1, <2>3, <3>3 DEF CameraSaid, ListGrows
  <2>4. Head(events).cam \in Cameras
    BY <1>3, EventQueue DEF HandleRegisterAuth, Take
  <2> QED BY <1>3, <2>2, <2>3, <2>4 DEF HandleRegisterAuth, NewDeviceList
<1>4. CASE KnownChannel
  <2>1. /\ InLoop /\ deviceUpdate(deviceNode) /\ UNCHANGED <<mDeviceList, tree>>
        /\ ~NewChannel
    BY <1>4 DEF KnownChannel, NewChannel, uiVars
  <2>2. SameCameras /\ ListNow' = ListNow
    BY <1>1, <1>2, <2>1
  <2>3. PICK n \in 1 .. Len(mDeviceList) : ListNow[n] = deviceNode /\ n = Len(catalog.deviceListTmp) + 1
    BY <2>1, LoopEntry, LoopType DEF ListNow, deviceNode, InLoop
  <2>4. ListNow[n].cam = mDeviceList[n].cam
    BY DEF LoopInv
  <2>5. EntrySaid(n)
    BY <2>1, <2>2, <2>3, <2>4 DEF EntrySaid, deviceUpdate
  <2> QED BY <2>5
<1>5. CASE NewChannel
  <2>1. mDeviceList' = mDeviceList /\ tree' = tree /\ InLoop
    BY <1>5 DEF NewChannel, uiVars
  <2>2. RtpSSRC' = RtpSSRC + 1 /\ RtpSSRC \in Nat
    BY <1>5, NewChannelEffect, ChannelsType
  <2>3. PICK n \in 1 .. Len(mDeviceList) : EntryGrows(n)
    BY <2>2, ListSteps DEF ListSettles, ListGrows, ListEmptied
  <2> DEFINE device == [cam |-> deviceNode.cam,
                        channelList |-> Append(deviceNode.channelList, NewObject)]
  <2>4. deviceNode \in Devices /\ deviceNode.cam = mDeviceList[n].cam
    BY <2>1, <2>3, LoopEntry DEF EntryGrows
  <2>5. signals' = Append(signals, [kind |-> "update", node |-> device])
    <3>1. [deviceNode EXCEPT !.channelList = Append(deviceNode.channelList, NewObject)] = device
      BY <2>4, ExceptChannelList DEF Devices
    <3>2. deviceUpdate([deviceNode EXCEPT !.channelList = Append(deviceNode.channelList, NewObject)])
      BY <1>5 DEF NewChannel, Announced
    <3> QED BY <3>1, <3>2 DEF deviceUpdate
  <2>6. /\ ListNow'[n] = device
        /\ \A k \in 1 .. Len(mDeviceList) : k # n => ListNow'[k] = ListNow[k]
    <3>1. DOMAIN ListNow = 1 .. Len(mDeviceList)
      BY DEF ListNow
    <3> QED BY <2>3, <3>1 DEF EntryGrows
  <2>7. EntrySaid(n)
    BY <2>1, <2>4, <2>5, <2>6 DEF EntrySaid, SameCameras
  <2> QED BY <2>7
<1>6. CASE DeliverSignal
  <2>1. mDeviceList' = mDeviceList /\ ListNow' = ListNow
    BY <1>6 DEF DeliverSignal, srvVars, ListNow
  <2> QED BY <1>6, <2>1 DEF IsDelivered, SameCameras
<1>7. CASE HandleCatalog \/ OtherEntry \/ CatalogDone
  <2>1. /\ UNCHANGED <<signals, tree, RtpSSRC>>
        /\ Len(mDeviceList') = Len(mDeviceList)
    BY <1>7 DEF HandleCatalog, OtherEntry, CatalogDone, uiVars
  <2>2. ~NewChannel
    BY <2>1, NewChannelEffect, ChannelsType
  <2> QED BY <1>1, <1>2, <2>1, <2>2 DEF NothingSaid
<1>8. CASE UNCHANGED <<srvVars, signals, tree>>
  <2>1. mDeviceList' = mDeviceList /\ ListNow' = ListNow
    BY <1>8 DEF srvVars, ListNow
  <2> QED BY <1>8, <2>1 DEF NothingSaid, SameCameras
<1>9. \/ UNCHANGED <<srvVars, signals, tree>>
      \/ HandleRegisterAuth \/ HandleCatalog \/ OtherEntry \/ KnownChannel \/ NewChannel
      \/ CatalogDone \/ DeliverSignal
  <2>1. ASSUME NEW c \in Cameras, Camera(c) \/ CamNotify(c) \/ CamStartOver(c)
        PROVE  UNCHANGED <<srvVars, signals, tree>>
    BY <2>1 DEF Camera, CamRegister, CamTakeReply, CamTimeout, CamReport, CamKeepalive, CamNotify,
                CamStartOver, Request, uiVars
  <2>2. CASE HandleRegister \/ HandleKeepalive \/ HandleOther \/ HandleMethod
    BY <2>2 DEF HandleRegister, HandleKeepalive, HandleOther, HandleMethod, uiVars
  <2>3. CASE UiThread
    BY <2>3 DEF UiThread, ClickCatalog
  <2>4. CASE UNCHANGED vars
    BY <2>4 DEF vars, srvVars
  <2> QED BY <2>1, <2>2, <2>3, <2>4 DEF Next, SipThread
<1> QED BY <1>3, <1>4, <1>5, <1>6, <1>7, <1>8, <1>9

\* The list with the entry of a camera that has just registered.
LEMMA CameraSaidTo ==
    ASSUME TypeOK, NEW c \in Cameras, CameraSaid(c)
    PROVE  /\ Len(mDeviceList') = Len(mDeviceList) + 1
           /\ \A k \in 1 .. Len(mDeviceList) : mDeviceList'[k] = mDeviceList[k]
           /\ mDeviceList'[Len(mDeviceList) + 1].cam = c
           /\ Len(signals') = Len(signals) + 1
           /\ \A j \in 1 .. Len(signals) : signals'[j] = signals[j]
           /\ signals'[Len(signals) + 1].kind = "registed"
           /\ signals'[Len(signals) + 1].node.cam = c
           /\ signals'[Len(signals) + 1].node = ListNow'[Len(mDeviceList) + 1]
           /\ \A k \in 1 .. Len(mDeviceList) : ListNow'[k] = ListNow[k]
<1> DEFINE node == [cam |-> c, channelList |-> <<>>]
           s == [kind |-> "registed", node |-> node]
<1>1. /\ mDeviceList' = Append(mDeviceList, node) /\ signals' = Append(signals, s)
      /\ ListNow = mDeviceList /\ ListNow' = mDeviceList'
  BY DEF CameraSaid
<1>2. /\ mDeviceList \in Seq(Devices) /\ signals \in Seq(Signals)
  BY ListNowType, WindowTypes
<1>3. node.cam = c /\ s.kind = "registed" /\ s.node = node
  OBVIOUS
<1> HIDE DEF node, s
<1>4. /\ Len(mDeviceList') = Len(mDeviceList) + 1
      /\ \A k \in 1 .. Len(mDeviceList) : mDeviceList'[k] = mDeviceList[k]
      /\ mDeviceList'[Len(mDeviceList) + 1] = node
  BY <1>1, <1>2, Appended
<1>5. /\ Len(signals') = Len(signals) + 1
      /\ \A j \in 1 .. Len(signals) : signals'[j] = signals[j]
      /\ signals'[Len(signals) + 1] = s
  BY <1>1, <1>2, Appended
<1> QED BY <1>1, <1>3, <1>4, <1>5

\* The queue with the announcement of an entry.
LEMMA EntrySaidTo ==
    ASSUME TypeOK, NEW n \in 1 .. Len(mDeviceList), EntrySaid(n)
    PROVE  /\ Len(signals') = Len(signals) + 1
           /\ \A j \in 1 .. Len(signals) : signals'[j] = signals[j]
           /\ signals'[Len(signals) + 1].kind = "update"
           /\ signals'[Len(signals) + 1].node = ListNow'[n]
<1>1. signals' = Append(signals, [kind |-> "update", node |-> ListNow'[n]])
  BY DEF EntrySaid
<1>2. signals \in Seq(Signals)
  BY WindowTypes
<1>3. /\ Len(signals') = Len(signals) + 1
      /\ \A j \in 1 .. Len(signals) : signals'[j] = signals[j]
      /\ signals'[Len(signals) + 1] = [kind |-> "update", node |-> ListNow'[n]]
  BY <1>1, <1>2, Appended
<1> QED BY <1>3

LEMMA TreeStep ==
    ASSUME TypeOK, LoopInv, [Next]_vars, ~Restart, TreeInv
    PROVE  TreeInv'
<1> DEFINE N == Len(mDeviceList)
           T == Len(tree)
           S == Len(signals)
<1>0. N \in Nat /\ T \in Nat /\ S \in Nat
  BY ListNowType, WindowTypes
<1>1. PICK f \in [T + 1 .. N -> 1 .. S] : Brings(f)
  BY DEF TreeInv
<1>2. CASE NothingSaid
  <2>1. /\ Len(mDeviceList)' = N /\ Len(tree)' = T /\ Len(signals)' = S
        /\ tree' = tree /\ signals' = signals
        /\ \A k \in 1 .. N : mDeviceList'[k].cam = mDeviceList[k].cam
    BY <1>2 DEF NothingSaid, SameCameras
  <2>2. Brings(f)'
    BY <1>0, <1>1, <2>1 DEF Brings
  <2>3. f \in [Len(tree') + 1 .. Len(mDeviceList') -> 1 .. Len(signals')]
    BY <2>1
  <2> QED BY <1>0, <2>1, <2>2, <2>3 DEF TreeInv
<1>3. ASSUME NEW n \in 1 .. N, EntrySaid(n)
      PROVE  TreeInv'
  <2>1. /\ Len(mDeviceList') = N /\ tree' = tree
        /\ \A k \in 1 .. N : mDeviceList'[k].cam = mDeviceList[k].cam
    BY <1>3 DEF EntrySaid, SameCameras
  <2>2. /\ Len(signals') = S + 1
        /\ \A j \in 1 .. S : signals'[j] = signals[j]
        /\ signals'[S + 1].kind = "update"
    BY <1>3, EntrySaidTo
  <2>3. f \in [Len(tree') + 1 .. Len(mDeviceList') -> 1 .. Len(signals')]
    <3>1. 1 .. S \subseteq 1 .. S + 1
      BY <1>0
    <3> QED BY <2>1, <2>2, <3>1
  <2>4. Brings(f)'
    <3>1. \A k \in T + 1 .. N : f[k] \in 1 .. S
      OBVIOUS
    <3>2. \A j \in 1 .. S + 1 : j \in 1 .. S \/ j = S + 1
      BY <1>0
    <3>3. \A k \in T + 1 .. N :
             signals'[f[k]].kind = "registed" /\ signals'[f[k]].node.cam = mDeviceList'[k].cam
      BY <1>0, <1>1, <2>1, <2>2, <3>1 DEF Brings
    <3>4. \A j \in 1 .. S + 1 : signals'[j].kind = "registed" =>
             \E k \in T + 1 .. N : f[k] = j
      BY <1>1, <2>2, <3>2 DEF Brings
    <3> QED BY <1>1, <2>1, <2>2, <2>3, <3>3, <3>4 DEF Brings
  <2> QED BY <1>0, <2>1, <2>3, <2>4 DEF TreeInv
<1>4. ASSUME NEW c \in Cameras, CameraSaid(c)
      PROVE  TreeInv'
  <2> DEFINE g == [k \in T + 1 .. N + 1 |-> IF k = N + 1 THEN S + 1 ELSE f[k]]
  <2>0. T <= N
    BY DEF TreeInv
  <2>1. /\ Len(mDeviceList') = N + 1 /\ tree' = tree
        /\ \A k \in 1 .. N : mDeviceList'[k] = mDeviceList[k]
        /\ mDeviceList'[N + 1].cam = c
        /\ Len(signals') = S + 1
        /\ \A j \in 1 .. S : signals'[j] = signals[j]
        /\ signals'[S + 1].kind = "registed" /\ signals'[S + 1].node.cam = c
    BY <1>4, CameraSaidTo DEF CameraSaid
  <2>2. \A k \in T + 1 .. N + 1 : k \in T + 1 .. N \/ k = N + 1
    BY <1>0
  <2>3. /\ g[N + 1] = S + 1
        /\ \A k \in T + 1 .. N : g[k] = f[k] /\ f[k] \in 1 .. S
    BY <1>0, <2>0
  <2>4. g \in [T + 1 .. N + 1 -> 1 .. S + 1]
    BY <1>0
  <2> HIDE DEF g
  <2>5. \A k, l \in T + 1 .. N + 1 : k < l => g[k] < g[l]
    <3> TAKE k \in T + 1 .. N + 1, l \in T + 1 .. N + 1
    <3> HAVE k < l
    <3>1. k \in T + 1 .. N
      BY <1>0
    <3>2. CASE l \in T + 1 .. N
      BY <1>1, <2>3, <3>1, <3>2 DEF Brings
    <3>3. CASE l = N + 1
      BY <1>0, <2>3, <3>1, <3>3
    <3> QED BY <2>2, <3>2, <3>3
  <2>6. \A k \in T + 1 .. N + 1 :
           signals'[g[k]].kind = "registed" /\ signals'[g[k]].node.cam = mDeviceList'[k].cam
    <3>1. \A k \in T + 1 .. N :
             /\ signals'[g[k]] = signals[f[k]] /\ mDeviceList'[k] = mDeviceList[k]
             /\ signals[f[k]].kind = "registed" /\ signals[f[k]].node.cam = mDeviceList[k].cam
      BY <1>0, <1>1, <2>1, <2>3 DEF Brings
    <3> QED BY <2>1, <2>2, <2>3, <3>1
  <2>7. \A j \in 1 .. S + 1 : signals'[j].kind = "registed" =>
           \E k \in T + 1 .. N + 1 : g[k] = j
    <3> TAKE j \in 1 .. S + 1
    <3> HAVE signals'[j].kind = "registed"
    <3>1. CASE j = S + 1
      <4>1. N + 1 \in T + 1 .. N + 1
        BY <1>0, <2>0
      <4> QED BY <2>3, <3>1, <4>1
    <3>2. CASE j \in 1 .. S
      <4>1. PICK k \in T + 1 .. N : f[k] = j
        BY <1>1, <2>1, <3>2 DEF Brings
      <4>2. k \in T + 1 .. N + 1
        BY <1>0
      <4> QED BY <2>3, <4>1, <4>2
    <3> QED BY <1>0, <3>1, <3>2
  <2>10. PICK h : h = g
    OBVIOUS
  <2>8. Brings(h)' /\ h \in [T + 1 .. N + 1 -> 1 .. S + 1]
    BY <2>1, <2>4, <2>5, <2>6, <2>7, <2>10 DEF Brings
  <2>9. /\ Len(tree') <= Len(mDeviceList')
        /\ \A i \in 1 .. Len(tree') : tree'[i].cam = mDeviceList'[i].cam
    BY <1>0, <2>0, <2>1 DEF TreeInv
  <2> QED BY <2>1, <2>8, <2>9 DEF TreeInv
<1>5. CASE IsDelivered
  <2>1. /\ Len(mDeviceList') = N
        /\ \A k \in 1 .. N : mDeviceList'[k].cam = mDeviceList[k].cam
        /\ T <= N
    BY <1>5 DEF IsDelivered, SameCameras, TreeInv
  <2>2. /\ S \in Nat \ {0} /\ Len(signals') = S - 1
        /\ \A j \in 1 .. S - 1 : signals'[j] = signals[j + 1]
    BY <1>5, DeliverEffect DEF IsDelivered
  <2> DEFINE U == Len(tree')
             g == [k \in U + 1 .. N |-> f[k] - 1]
  <2>3. /\ U \in {T, T + 1} /\ U <= N
        /\ \A i \in 1 .. U : tree'[i].cam = mDeviceList'[i].cam
        /\ \A k \in U + 1 .. N : f[k] # 1
        /\ \A k \in T + 1 .. N : f[k] # 1 => k \in U + 1 .. N
    <3>1. CASE signals[1].kind = "registed"
      <4>1. PICK k \in T + 1 .. N : f[k] = 1
        <5>1. 1 \in 1 .. S
          BY <2>2
        <5>2. \A j \in 1 .. S : signals[j].kind = "registed" => \E k \in T + 1 .. N : f[k] = j
          BY <1>1 DEF Brings
        <5> QED BY <3>1, <5>1, <5>2
      <4>2. T + 1 \in T + 1 .. N /\ f[T + 1] \in 1 .. S
        BY <1>0
      <4>3. k = T + 1
        <5>1. CASE T + 1 < k
          <6>1. f[T + 1] < f[k]
            BY <1>1, <4>2, <5>1 DEF Brings
          <6> QED BY <1>0, <4>1, <4>2, <6>1
        <5> QED BY <1>0, <5>1
      <4>4. /\ U = T + 1
            /\ \A i \in 1 .. T : tree'[i] = tree[i]
            /\ tree'[T + 1] = signals[1].node
        BY <1>5, <3>1, DeliverEffect DEF IsDelivered
      <4>5. signals[1].node.cam = mDeviceList[T + 1].cam
        BY <1>1, <4>1, <4>3 DEF Brings
      <4>6. \A i \in 1 .. U : tree'[i].cam = mDeviceList'[i].cam
        <5> TAKE i \in 1 .. U
        <5>1. i \in 1 .. T \/ i = T + 1
          BY <1>0, <4>4
        <5>2. i \in 1 .. N
          BY <1>0, <4>2, <4>4
        <5> QED BY <2>1, <4>4, <4>5, <5>1, <5>2 DEF TreeInv
      <4>7. \A l \in U + 1 .. N : f[l] # 1
        <5> TAKE l \in U + 1 .. N
        <5>1. l \in T + 1 .. N /\ T + 1 < l
          BY <1>0, <4>4
        <5>2. f[T + 1] < f[l]
          BY <1>1, <4>2, <5>1 DEF Brings
        <5> QED BY <1>0, <4>1, <4>3, <5>2
      <4>8. \A l \in T + 1 .. N : l # T + 1 => l \in U + 1 .. N
        BY <1>0, <4>4
      <4> QED BY <1>0, <4>1, <4>2, <4>3, <4>4, <4>6, <4>7, <4>8
    <3>2. CASE signals[1].kind # "registed"
      <4>1. /\ U = T
            /\ \A i \in 1 .. T : tree'[i] = IF tree[i].cam = signals[1].node.cam
                                            THEN signals[1].node ELSE tree[i]
        BY <1>5, <3>2, DeliverEffect DEF IsDelivered
      <4>2. \A i \in 1 .. U : tree'[i].cam = mDeviceList'[i].cam
        <5>1. \A i \in 1 .. U : i \in 1 .. N
          BY <1>0, <2>1, <4>1
        <5> QED BY <2>1, <4>1, <5>1 DEF TreeInv
      <4>3. \A k \in T + 1 .. N : f[k] # 1
        BY <1>1, <3>2 DEF Brings
      <4> QED BY <1>0, <2>1, <4>1, <4>2, <4>3
    <3> QED BY <3>1, <3>2
  <2>4. \A k \in U + 1 .. N : k \in T + 1 .. N /\ f[k] - 1 \in 1 .. S - 1 /\ g[k] = f[k] - 1
    <3> TAKE k \in U + 1 .. N
    <3>1. k \in T + 1 .. N
      BY <1>0, <2>3
    <3>2. f[k] \in 1 .. S /\ f[k] # 1
      BY <2>3, <3>1
    <3> QED BY <1>0, <3>1, <3>2
  <2>5. g \in [U + 1 .. N -> 1 .. S - 1]
    BY <2>4
  <2> HIDE DEF g, U
  <2>6. \A k, l \in U + 1 .. N : k < l => g[k] < g[l]
    <3> TAKE k \in U + 1 .. N, l \in U + 1 .. N
    <3> HAVE k < l
    <3>1. f[k] < f[l] /\ f[k] \in 1 .. S /\ f[l] \in 1 .. S
      BY <1>1, <2>4 DEF Brings
    <3> QED BY <1>0, <2>4, <3>1
  <2>7. \A k \in U + 1 .. N :
           signals'[g[k]].kind = "registed" /\ signals'[g[k]].node.cam = mDeviceList'[k].cam
    <3> TAKE k \in U + 1 .. N
    <3>1. k \in T + 1 .. N /\ g[k] = f[k] - 1 /\ g[k] \in 1 .. S - 1 /\ f[k] \in 1 .. S
      BY <2>4
    <3>2. signals'[g[k]] = signals[f[k]]
      <4>1. g[k] + 1 = f[k]
        BY <1>0, <3>1
      <4> QED BY <2>2, <3>1, <4>1
    <3>3. k \in 1 .. N
      BY <1>0, <3>1
    <3> QED BY <1>1, <2>1, <3>1, <3>2, <3>3 DEF Brings
  <2>8. \A j \in 1 .. S - 1 : signals'[j].kind = "registed" => \E k \in U + 1 .. N : g[k] = j
    <3> TAKE j \in 1 .. S - 1
    <3> HAVE signals'[j].kind = "registed"
    <3>1. j + 1 \in 1 .. S /\ signals[j + 1].kind = "registed" /\ j + 1 # 1
      BY <2>2
    <3>2. PICK k \in T + 1 .. N : f[k] = j + 1
      BY <1>1, <3>1 DEF Brings
    <3>3. k \in U + 1 .. N
      BY <2>3, <3>1, <3>2
    <3> QED BY <2>2, <2>4, <3>2, <3>3
  <2>9. PICK h : h = g
    OBVIOUS
  <2>10. Brings(h)' /\ h \in [U + 1 .. N -> 1 .. S - 1]
    BY <2>1, <2>2, <2>5, <2>6, <2>7, <2>8, <2>9 DEF Brings, U
  <2> QED BY <2>1, <2>2, <2>3, <2>10 DEF TreeInv, U
<1> QED BY <1>2, <1>3, <1>4, <1>5, SignalSteps

LEMMA EntriesStep ==
    ASSUME TypeOK, LoopInv, [Next]_vars, ~Restart, TreeInv, EntriesInv
    PROVE  EntriesInv'
<1> DEFINE N == Len(mDeviceList)
           T == Len(tree)
           S == Len(signals)
<1>0. N \in Nat /\ T \in Nat /\ S \in Nat
  BY ListNowType, WindowTypes
<1>1. ASSUME SameCameras, NEW k \in 1 .. N, Sole(k)'
      PROVE  Sole(k) /\ mDeviceList'[k].cam = mDeviceList[k].cam
  BY <1>1 DEF SameCameras, Sole
<1>2. CASE NothingSaid
  <2> SUFFICES ASSUME NEW k \in 1 .. N, Sole(k)' PROVE OnItsWay(k)' \/ IsShown(k)'
    BY <1>2 DEF NothingSaid, SameCameras, EntriesInv
  <2>1. OnItsWay(k) \/ IsShown(k)
    BY <1>1, <1>2 DEF NothingSaid, EntriesInv
  <2>2. signals' = signals /\ tree' = tree /\ ListNow' = ListNow
        /\ mDeviceList'[k].cam = mDeviceList[k].cam
    BY <1>2, <1>1 DEF NothingSaid
  <2> QED BY <2>1, <2>2 DEF OnItsWay, IsShown
<1>3. ASSUME NEW n \in 1 .. N, EntrySaid(n)
      PROVE  EntriesInv'
  <2> SUFFICES ASSUME NEW k \in 1 .. N, Sole(k)' PROVE OnItsWay(k)' \/ IsShown(k)'
    BY <1>3 DEF EntrySaid, SameCameras, EntriesInv
  <2>1. Sole(k) /\ mDeviceList'[k].cam = mDeviceList[k].cam
    BY <1>1, <1>3 DEF EntrySaid
  <2>2. /\ Len(signals') = S + 1 /\ tree' = tree
        /\ \A j \in 1 .. S : signals'[j] = signals[j]
        /\ signals'[S + 1].node = ListNow'[n]
    BY <1>3, EntrySaidTo DEF EntrySaid
  <2>3. CASE k = n
    <3>1. S + 1 \in 1 .. Len(signals') /\ \A j \in S + 1 + 1 .. Len(signals') : FALSE
      BY <1>0, <2>2
    <3> QED BY <2>2, <2>3, <3>1 DEF OnItsWay
  <2>4. CASE k # n
    <3>1. ListNow'[k] = ListNow[k] /\ ListNow'[n].cam # mDeviceList[k].cam
      BY <1>3, <2>1, <2>4 DEF EntrySaid, Sole
    <3>2. CASE OnItsWay(k)
      <4>1. PICK i \in 1 .. S : /\ signals[i].node = ListNow[k]
                                /\ \A j \in i + 1 .. S : signals[j].node.cam # mDeviceList[k].cam
        BY <3>2 DEF OnItsWay
      <4>2. \A j \in i + 1 .. S + 1 : signals'[j].node.cam # mDeviceList'[k].cam
        <5> TAKE j \in i + 1 .. S + 1
        <5>1. (j \in i + 1 .. S /\ j \in 1 .. S) \/ j = S + 1
          BY <1>0
        <5> QED BY <2>1, <2>2, <3>1, <4>1, <5>1
      <4>3. i \in 1 .. S + 1 /\ signals'[i].node = ListNow'[k]
        BY <1>0, <2>2, <3>1, <4>1
      <4> QED BY <2>2, <4>2, <4>3 DEF OnItsWay
    <3>3. CASE IsShown(k)
      <4>1. \A j \in 1 .. S + 1 : j \in 1 .. S \/ j = S + 1
        BY <1>0
      <4> QED BY <2>1, <2>2, <3>1, <3>3, <4>1 DEF IsShown
    <3> QED BY <2>1, <3>2, <3>3 DEF EntriesInv
  <2> QED BY <2>3, <2>4
<1>4. ASSUME NEW c \in Cameras, CameraSaid(c)
      PROVE  EntriesInv'
  <2>1. /\ Len(mDeviceList') = N + 1 /\ tree' = tree
        /\ \A k \in 1 .. N : mDeviceList'[k] = mDeviceList[k] /\ ListNow'[k] = ListNow[k]
        /\ mDeviceList'[N + 1].cam = c
        /\ Len(signals') = S + 1
        /\ \A j \in 1 .. S : signals'[j] = signals[j]
        /\ signals'[S + 1].node = ListNow'[N + 1] /\ signals'[S + 1].node.cam = c
    BY <1>4, CameraSaidTo DEF CameraSaid
  <2> SUFFICES ASSUME NEW k \in 1 .. N + 1, Sole(k)' PROVE OnItsWay(k)' \/ IsShown(k)'
    BY <2>1 DEF EntriesInv
  <2>2. CASE k = N + 1
    <3>1. S + 1 \in 1 .. Len(signals') /\ \A j \in S + 1 + 1 .. Len(signals') : FALSE
      BY <1>0, <2>1
    <3> QED BY <2>1, <2>2, <3>1 DEF OnItsWay
  <2>3. CASE k \in 1 .. N
    <3>1. Sole(k)
      <4>1. \A l \in 1 .. N : l \in 1 .. N + 1
        BY <1>0
      <4> QED BY <2>1, <2>3, <4>1 DEF Sole
    <3>2. c # mDeviceList[k].cam
      <4>1. N + 1 \in 1 .. N + 1 /\ k # N + 1
        BY <1>0, <2>3
      <4> QED BY <2>1, <2>3, <4>1 DEF Sole
    <3>3. CASE OnItsWay(k)
      <4>1. PICK i \in 1 .. S : /\ signals[i].node = ListNow[k]
                                /\ \A j \in i + 1 .. S : signals[j].node.cam # mDeviceList[k].cam
        BY <3>3 DEF OnItsWay
      <4>2. \A j \in i + 1 .. S + 1 : signals'[j].node.cam # mDeviceList'[k].cam
        <5> TAKE j \in i + 1 .. S + 1
        <5>1. (j \in i + 1 .. S /\ j \in 1 .. S) \/ j = S + 1
          BY <1>0
        <5> QED BY <2>1, <2>3, <3>2, <4>1, <5>1
      <4>3. i \in 1 .. S + 1 /\ signals'[i].node = ListNow'[k]
        BY <1>0, <2>1, <2>3, <4>1
      <4> QED BY <2>1, <4>2, <4>3 DEF OnItsWay
    <3>4. CASE IsShown(k)
      <4>1. \A j \in 1 .. S + 1 : j \in 1 .. S \/ j = S + 1
        BY <1>0
      <4> QED BY <2>1, <2>3, <3>2, <3>4, <4>1 DEF IsShown
    <3> QED BY <2>3, <3>1, <3>3, <3>4 DEF EntriesInv
  <2> QED BY <1>0, <2>2, <2>3
<1>5. CASE IsDelivered
  <2> SUFFICES ASSUME NEW k \in 1 .. N, Sole(k)' PROVE OnItsWay(k)' \/ IsShown(k)'
    BY <1>5 DEF IsDelivered, SameCameras, EntriesInv
  <2>1. /\ Sole(k) /\ mDeviceList'[k].cam = mDeviceList[k].cam
        /\ ListNow' = ListNow /\ ListNow[k].cam = mDeviceList[k].cam
    BY <1>1, <1>5 DEF IsDelivered, LoopInv
  <2>2. /\ S \in Nat \ {0} /\ Len(signals') = S - 1
        /\ \A j \in 1 .. S - 1 : signals'[j] = signals[j + 1]
        /\ signals[1].kind = "registed" =>
              /\ Len(tree') = T + 1 /\ tree'[T + 1] = signals[1].node
              /\ \A i \in 1 .. T : tree'[i] = tree[i]
        /\ signals[1].kind # "registed" =>
              /\ Len(tree') = T
              /\ \A i \in 1 .. T : tree'[i] = IF tree[i].cam = signals[1].node.cam
                                              THEN signals[1].node ELSE tree[i]
    BY <1>5, DeliverEffect DEF IsDelivered
  <2>3. \A i \in 1 .. T : tree[i].cam = mDeviceList[i].cam
    BY DEF TreeInv
  <2>4. PICK f \in [T + 1 .. N -> 1 .. S] : Brings(f)
    BY DEF TreeInv
  <2>5. CASE IsShown(k)
    <3>1. k \in 1 .. T /\ tree[k] = ListNow[k] /\ signals[1].node.cam # mDeviceList[k].cam
      BY <1>0, <2>2, <2>5 DEF IsShown
    <3>2. k <= Len(tree') /\ tree'[k] = ListNow[k]
      BY <1>0, <2>2, <2>3, <3>1
    <3>3. \A j \in 1 .. S - 1 : signals'[j].node.cam # mDeviceList[k].cam
      <4>1. \A j \in 1 .. S - 1 : j + 1 \in 1 .. S
        BY <2>2
      <4> QED BY <2>2, <2>5, <4>1 DEF IsShown
    <3> QED BY <2>1, <2>2, <3>2, <3>3 DEF IsShown
  <2>6. CASE OnItsWay(k)
    <3>1. PICK i \in 1 .. S : /\ signals[i].node = ListNow[k]
                              /\ \A j \in i + 1 .. S : signals[j].node.cam # mDeviceList[k].cam
      BY <2>6 DEF OnItsWay
    <3>2. CASE i # 1
      <4>1. i - 1 \in 1 .. S - 1 /\ i - 1 + 1 = i
        BY <1>0, <3>2
      <4>2. signals'[i - 1].node = ListNow'[k]
        BY <2>1, <2>2, <3>1, <4>1
      <4>3. \A j \in i - 1 + 1 .. S - 1 : signals'[j].node.cam # mDeviceList'[k].cam
        <5> TAKE j \in i - 1 + 1 .. S - 1
        <5>1. j \in 1 .. S - 1 /\ j + 1 \in i + 1 .. S
          BY <1>0, <4>1
        <5> QED BY <2>1, <2>2, <3>1, <5>1
      <4> QED BY <2>2, <4>1, <4>2, <4>3 DEF OnItsWay
    <3>3. CASE i = 1
      <4>1. \A j \in 2 .. S : signals[j].node.cam # mDeviceList[k].cam
        BY <3>1, <3>3
      <4>2. signals[1].node = ListNow[k] /\ signals[1].node.cam = mDeviceList[k].cam
        BY <2>1, <3>1, <3>3
      <4>3. k <= Len(tree') /\ tree'[k] = ListNow[k]
        <5>1. CASE signals[1].kind = "registed"
          <6>1. PICK l \in T + 1 .. N : f[l] = 1
            BY <2>2, <2>4, <5>1 DEF Brings
          <6>2. l = k
            <7>1. l \in 1 .. N /\ mDeviceList[l].cam = mDeviceList[k].cam
              BY <1>0, <2>4, <4>2, <6>1 DEF Brings
            <7> QED BY <2>1, <7>1 DEF Sole
          <6>3. T + 1 \in T + 1 .. N /\ f[T + 1] \in 1 .. S
            BY <1>0
          <6>4. k = T + 1
            <7>1. CASE T + 1 < k
              <8>1. f[T + 1] < f[k]
                BY <2>4, <6>1, <6>2, <6>3, <7>1 DEF Brings
              <8> QED BY <1>0, <6>1, <6>2, <6>3, <8>1
            <7> QED BY <1>0, <6>1, <6>2, <7>1
          <6> QED BY <1>0, <2>2, <4>2, <5>1, <6>4
        <5>2. CASE signals[1].kind # "registed"
          <6>1. k \in 1 .. T
            <7>1. CASE k \in T + 1 .. N
              <8>1. /\ f[k] \in 1 .. S /\ signals[f[k]].kind = "registed"
                    /\ signals[f[k]].node.cam = mDeviceList[k].cam
                BY <2>4, <7>1 DEF Brings
              <8>2. f[k] \in 2 .. S
                BY <1>0, <5>2, <8>1
              <8> QED BY <4>1, <8>1, <8>2
            <7> QED BY <1>0, <7>1
          <6> QED BY <1>0, <2>2, <2>3, <4>2, <5>2, <6>1
        <5> QED BY <5>1, <5>2
      <4>4. \A j \in 1 .. S - 1 : signals'[j].node.cam # mDeviceList[k].cam
        <5> TAKE j \in 1 .. S - 1
        <5>1. j + 1 \in 2 .. S
          BY <2>2
        <5> QED BY <2>2, <4>1, <5>1
      <4> QED BY <2>1, <2>2, <4>3, <4>4 DEF IsShown
    <3> QED BY <3>2, <3>3
  <2> QED BY <2>1, <2>5, <2>6 DEF EntriesInv
<1> QED BY <1>2, <1>3, <1>4, <1>5, SignalSteps

\* As long as the server is not stopped: once the signals are delivered, the window
\* shows every camera of the device list, in its order, and of a camera that is listed
\* once all its channels.  The UI thread only ever sees copies of the entries, which
\* reach it one by one while the SIP thread changes the list.
THEOREM WindowCatchesUp == MaxRestarts = 0 /\ Spec => []WindowShowsDeviceList
<1> SUFFICES ASSUME MaxRestarts = 0 PROVE Spec => []WindowShowsDeviceList
  OBVIOUS
<1> DEFINE I == TypeOK /\ LoopInv /\ TreeInv /\ EntriesInv
<1>1. Init => I
  <2> SUFFICES ASSUME Init PROVE TreeInv /\ EntriesInv
    BY TypeInit, ListInit
  <2>1. /\ Len(tree) = 0 /\ Len(mDeviceList) = 0 /\ Len(signals) = 0
    BY EmptySeq DEF Init
  <2> DEFINE f == [k \in 1 .. 0 |-> 0]
  <2>2. f \in [Len(tree) + 1 .. Len(mDeviceList) -> 1 .. Len(signals)] /\ Brings(f)
    BY <2>1 DEF Brings
  <2> HIDE DEF f
  <2>3. TreeInv
    <3>1. /\ Len(tree) <= Len(mDeviceList)
          /\ \A i \in 1 .. Len(tree) : FALSE
      BY <2>1
    <3> QED BY <2>2, <3>1 DEF TreeInv
  <2> QED BY <2>1, <2>3 DEF EntriesInv
<1>2. I /\ [Next]_vars => I'
  BY TypeStep, ListSteps, TreeStep, EntriesStep, NoRestarts
<1>3. I => WindowShowsDeviceList
  <2> SUFFICES ASSUME I, signals = <<>>, catalog = NoLoop
      PROVE  /\ Len(tree) = Len(mDeviceList)
             /\ \A i \in 1 .. Len(tree) :
                   /\ tree[i].cam = mDeviceList[i].cam
                   /\ (\A j \in 1 .. Len(tree) : tree[j].cam = tree[i].cam => j = i)
                         => tree[i] = mDeviceList[i]
    BY DEF WindowShowsDeviceList
  <2>1. Len(signals) = 0 /\ Len(tree) \in Nat /\ Len(mDeviceList) \in Nat
    BY EmptySeq, WindowTypes, ListNowType
  <2>2. Len(tree) = Len(mDeviceList)
    <3>1. PICK f \in [Len(tree) + 1 .. Len(mDeviceList) -> 1 .. Len(signals)] : Brings(f)
      BY DEF TreeInv
    <3>2. CASE Len(tree) < Len(mDeviceList)
      <4>1. Len(tree) + 1 \in Len(tree) + 1 .. Len(mDeviceList)
        BY <2>1, <3>2
      <4>2. f[Len(tree) + 1] \in 1 .. Len(signals)
        BY <3>1, <4>1
      <4> QED BY <2>1, <4>2
    <3> QED BY <2>1, <3>2 DEF TreeInv
  <2>3. ASSUME NEW i \in 1 .. Len(tree),
               \A j \in 1 .. Len(tree) : tree[j].cam = tree[i].cam => j = i
        PROVE  tree[i] = mDeviceList[i]
    <3>1. i \in 1 .. Len(mDeviceList)
      BY <2>2
    <3>4. Sole(i)
      <4>1. \A j \in 1 .. Len(tree) : tree[j].cam = mDeviceList[j].cam
        BY DEF TreeInv
      <4> QED BY <2>2, <2>3, <3>1, <4>1 DEF Sole
    <3>2. ~OnItsWay(i)
      BY <2>1 DEF OnItsWay
    <3>3. tree[i] = ListNow[i]
      BY <3>1, <3>2, <3>4 DEF EntriesInv, IsShown
    <3> QED BY <3>1, <3>3 DEF ListNow
  <2> QED BY <2>2, <2>3 DEF TreeInv
<1> QED BY <1>1, <1>2, <1>3, PTL DEF Spec
-----------------------------------------------------------------------------
(* What of a catalog gets known.                                           *)

\* The cameras put one channel into each of their Catalog messages, as their own.
OneItemEach ==
    \A c \in Cameras : \A m \in 1 .. Len(Report[c]) :
        /\ Len(Report[c][m]) <= 1
        /\ \A i \in 1 .. Len(Report[c][m]) : Report[c][m][i].ParentID = c

\* The m-th item is in a list entry of camera c, as the list is to become.
Known(c, m) ==
    \E k \in 1 .. Len(mDeviceList) :
        /\ mDeviceList[k].cam = c
        /\ \E i \in 1 .. Len(ListNow[k].channelList) :
              channels[ListNow[k].channelList[i]].DeviceID = Report[c][m][1].DeviceID

\* The SIP thread works at the m-th item and has an entry of c before it.
IsHandled(c, m) ==
    /\ catalog # NoLoop /\ catalog.cam = c /\ catalog.item = Report[c][m][1]
    /\ \E k \in Len(catalog.deviceListTmp) + 1 .. Len(mDeviceList) : mDeviceList[k].cam = c

ReportQueued(c, m) ==
    \E i \in 1 .. Len(events) :
        events[i].kind = "Catalog" /\ events[i].cam = c /\ events[i].items = Report[c][m]

\* Of a listed camera, every item is known or will be: the SIP thread is at it, its
\* message is queued, or the camera has yet to answer a query.
ReportsInv ==
    \A c \in Cameras : Listed(c) =>
        \A m \in 1 .. Len(Report[c]) : Report[c][m] # <<>> =>
            Known(c, m) \/ IsHandled(c, m) \/ ReportQueued(c, m) \/ queries[c] > 0

\* What is known stays known while the server runs.
LEMMA KnownStays ==
    ASSUME TypeOK, LoopInv, [Next]_vars, ~Restart, NEW c \in Cameras, NEW m, Known(c, m)
    PROVE  Known(c, m)'
<1> DEFINE id == Report[c][m][1].DeviceID
<1>0. PICK k \in 1 .. Len(mDeviceList) :
         /\ mDeviceList[k].cam = c
         /\ \E i \in 1 .. Len(ListNow[k].channelList) :
               channels[ListNow[k].channelList[i]].DeviceID = id
  BY DEF Known
<1>1. PICK i \in 1 .. Len(ListNow[k].channelList) :
         mDeviceList[k].cam = c /\ channels[ListNow[k].channelList[i]].DeviceID = id
  BY <1>0
<1>2. CASE ListSettles
  BY <1>1, <1>2, ListNowType DEF ListSettles, LoopInv, Known
<1>3. CASE ListGrows
  <2>1. /\ Len(mDeviceList') = Len(mDeviceList) + 1 /\ Len(mDeviceList) \in Nat
        /\ mDeviceList'[k] = mDeviceList[k] /\ channels' = channels
        /\ ListNow' = mDeviceList' /\ ListNow = mDeviceList
    BY <1>3, ListGrowsTo, ListNowType DEF ListGrows
  <2>2. k \in 1 .. Len(mDeviceList')
    BY <2>1
  <2> QED BY <1>1, <2>1, <2>2 DEF Known
<1>4. ASSUME NEW n \in 1 .. Len(mDeviceList), EntryGrows(n)
      PROVE  Known(c, m)'
  <2>1. ListNow[k] \in Devices /\ ListNow[k].channelList[i] \in 1 .. Len(channels)
    BY <1>1, ListNowType, ChannelListType
  <2>2. channels'[ListNow[k].channelList[i]] = channels[ListNow[k].channelList[i]]
    BY <1>4, <2>1, NewChannelEffect DEF EntryGrows
  <2>3. /\ i \in 1 .. Len(ListNow'[k].channelList)
        /\ ListNow'[k].channelList[i] = ListNow[k].channelList[i]
    <3>1. CASE k = n
      <4>1. /\ ListNow[k] = deviceNode
            /\ Len(ListNow'[k].channelList) = Len(deviceNode.channelList) + 1
            /\ \A j \in 1 .. Len(deviceNode.channelList) :
                  ListNow'[k].channelList[j] = deviceNode.channelList[j]
        BY <1>4, <3>1, EntryGrowsTo DEF EntryGrows
      <4>2. Len(deviceNode.channelList) \in Nat
        BY <2>1, <4>1, ChannelListType
      <4> QED BY <1>1, <4>1, <4>2
    <3>2. CASE k # n
      BY <1>1, <1>4, <3>2, EntryGrowsTo
    <3> QED BY <3>1, <3>2
  <2>4. mDeviceList' = mDeviceList
    BY <1>4 DEF EntryGrows
  <2> QED BY <1>1, <2>2, <2>3, <2>4 DEF Known
<1> QED BY <1>2, <1>3, <1>4, ListSteps DEF ListEmptied

\* What is in the queue behind its head stays there.
LEMMA ReportStaysQueued ==
    ASSUME TypeOK, events # <<>>, events' = Tail(events), NEW c, NEW m, ReportQueued(c, m)
    PROVE  \/ ReportQueued(c, m)'
           \/ /\ Head(events).kind = "Catalog" /\ Head(events).cam = c
              /\ Head(events).items = Report[c][m]
<1>1. PICK i \in 1 .. Len(events) :
         events[i].kind = "Catalog" /\ events[i].cam = c /\ events[i].items = Report[c][m]
  BY DEF ReportQueued
<1>2. /\ Head(events) = events[1] /\ Len(events) \in Nat \ {0}
      /\ Len(events') = Len(events) - 1
      /\ \A j \in 1 .. Len(events) - 1 : events'[j] = events[j + 1]
  BY EventQueue
<1>3. CASE i = 1
  BY <1>1, <1>2, <1>3
<1>4. CASE i # 1
  <2>1. i - 1 \in 1 .. Len(events') /\ events'[i - 1] = events[i]
    <3>1. i - 1 \in 1 .. Len(events) - 1 /\ i - 1 + 1 = i
      BY <1>2, <1>4
    <3> QED BY <1>2, <3>1
  <2> QED BY <1>1, <2>1 DEF ReportQueued
<1> QED BY <1>3, <1>4

\* What is in the queue stays there when more is put behind it.
LEMMA ReportQueueGrows ==
    ASSUME TypeOK, Len(events') >= Len(events), Len(events') \in Nat,
           \A i \in 1 .. Len(events) : events'[i] = events[i],
           NEW c, NEW m, ReportQueued(c, m)
    PROVE  ReportQueued(c, m)'
<1>1. PICK i \in 1 .. Len(events) :
         events[i].kind = "Catalog" /\ events[i].cam = c /\ events[i].items = Report[c][m]
  BY DEF ReportQueued
<1>2. Len(events) \in Nat
  BY LenProperties DEF TypeOK
<1> QED BY <1>1, <1>2 DEF ReportQueued

\* A query more.
LEMMA QueryAdded ==
    ASSUME TypeOK, NEW c \in Cameras, SendQueryCatalog(c)
    PROVE  queries'[c] > 0 /\ \A d \in Cameras : queries'[d] >= queries[d]
<1>1. queries \in [Cameras -> Nat] /\ queries' = [queries EXCEPT ![c] = queries[c] + 1]
  BY DEF TypeOK, SendQueryCatalog
<1>2. \A d \in Cameras : queries'[d] = IF d = c THEN queries[d] + 1 ELSE queries[d]
  BY <1>1
<1>3. \A d \in Cameras : queries[d] \in Nat
  BY <1>1
<1> QED BY <1>2, <1>3

\* What is known, or waited for, when neither the list nor the loop changes.
LEMMA ReportsStay ==
    ASSUME TypeOK, TypeOK', LoopInv, ReportsInv, [Next]_vars, ~Restart, UNCHANGED srvVars,
           \A c \in Cameras : queries'[c] >= queries[c],
           \A c \in Cameras : \A m \in 1 .. Len(Report[c]) :
              ReportQueued(c, m) => ReportQueued(c, m)'
    PROVE  ReportsInv'
<1> SUFFICES ASSUME NEW c \in Cameras, Listed(c)', NEW m \in 1 .. Len(Report[c]),
                    Report[c][m] # <<>>
             PROVE  (Known(c, m) \/ IsHandled(c, m) \/ ReportQueued(c, m) \/ queries[c] > 0)'
  BY DEF ReportsInv
<1>1. Listed(c)
  BY DEF srvVars, Listed
<1>2. Known(c, m) \/ IsHandled(c, m) \/ ReportQueued(c, m) \/ queries[c] > 0
  BY <1>1 DEF ReportsInv
<1>3. Known(c, m) => Known(c, m)'
  BY KnownStays
<1>4. IsHandled(c, m) => IsHandled(c, m)'
  BY DEF srvVars, IsHandled
<1>5. queries[c] > 0 => queries'[c] > 0
  <2>1. queries[c] \in Nat /\ queries'[c] \in Nat /\ queries'[c] >= queries[c]
    BY DEF TypeOK
  <2> QED BY <2>1
<1> QED BY <1>2, <1>3, <1>4, <1>5

\* The first item of a message that has one.
LEMMA FirstItem ==
    ASSUME OneItemEach, NEW c \in Cameras, NEW m \in 1 .. Len(Report[c]), Report[c][m] # <<>>
    PROVE  Report[c][m][1].ParentID = c
<1>1. Report[c] \in Seq(Seq(Items))
  BY RegistryAssumption DEF RegistryAssumption
<1>2. Report[c][m] \in Seq(Items)
  BY <1>1, ElementOfSeq
<1>3. 1 \in 1 .. Len(Report[c][m])
  BY <1>2, EmptySeq, HeadTailProperties, LenProperties
<1> QED BY <1>3 DEF OneItemEach

LEMMA ReportsStep ==
    ASSUME OneItemEach, TypeOK, TypeOK', LoopInv, ReportsInv, [Next]_vars
    PROVE  ReportsInv'
<1>0. ASSUME ~Restart, NEW c \in Cameras, NEW m, Known(c, m)
      PROVE  Known(c, m)'
  BY <1>0, KnownStays
<1>1. CASE ~Restart /\ \E c \in Cameras : CamReport(c)
  <2>1. PICK c0 \in Cameras : CamReport(c0)
    BY <1>1
  <2>2. /\ UNCHANGED srvVars /\ queries' = [queries EXCEPT ![c0] = @ - 1]
        /\ Len(events') >= Len(events) /\ Len(events') \in Nat
        /\ \A i \in 1 .. Len(events) : events'[i] = events[i]
    BY <2>1, ReportEffect DEF CamReport
  <2> SUFFICES ASSUME NEW c \in Cameras, Listed(c)', NEW m \in 1 .. Len(Report[c]),
                      Report[c][m] # <<>>
               PROVE  (Known(c, m) \/ IsHandled(c, m) \/ ReportQueued(c, m) \/ queries[c] > 0)'
    BY DEF ReportsInv
  <2>3. Known(c, m) \/ IsHandled(c, m) \/ ReportQueued(c, m) \/ queries[c] > 0
    BY <2>2 DEF ReportsInv, Listed, srvVars
  <2>4. (Known(c, m) => Known(c, m)') /\ (IsHandled(c, m) => IsHandled(c, m)')
    BY <1>0, <1>1, <2>2 DEF srvVars, IsHandled
  <2>5. ReportQueued(c, m) => ReportQueued(c, m)'
    BY <2>2, ReportQueueGrows
  <2>6. CASE c = c0
    <3>1. /\ events'[Len(events) + m].cam = c
          /\ events'[Len(events) + m].kind = "Catalog"
          /\ events'[Len(events) + m].items = Report[c][m]
          /\ Len(events') = Len(events) + Len(Report[c])
          /\ Len(events) \in Nat /\ Len(Report[c]) \in Nat
      BY <2>1, <2>6, ReportEffect
    <3>2. Len(events) + m \in 1 .. Len(events')
      BY <3>1
    <3> QED BY <3>1, <3>2 DEF ReportQueued
  <2>7. CASE c # c0
    BY <2>2, <2>3, <2>4, <2>5, <2>7 DEF TypeOK
  <2> QED BY <2>6, <2>7
<1>2. ASSUME ~Restart, NEW c \in Cameras,
             \/ CamRegister(c) \/ CamKeepalive(c) \/ CamNotify(c) \/ CamTakeReply(c)
             \/ CamTimeout(c) \/ CamStartOver(c)
      PROVE  ReportsInv'
  <2>1. UNCHANGED <<srvVars, queries>>
    BY <1>2 DEF CamRegister, CamKeepalive, CamNotify, CamTakeReply, CamTimeout, CamStartOver,
                Request, netVars
  <2>2. \/ UNCHANGED events
        \/ \E kind \in Kinds : Send(c, kind, <<>>)
    BY <1>2 DEF CamRegister, CamKeepalive, CamNotify, CamTakeReply, CamTimeout, CamStartOver,
                Request, Kinds
  <2>3. /\ Len(events') >= Len(events) /\ Len(events') \in Nat
        /\ \A i \in 1 .. Len(events) : events'[i] = events[i]
    <3>1. Len(events) \in Nat
      BY LenProperties DEF TypeOK
    <3> QED BY <2>2, <3>1, SendEffect
  <2>4. \A d \in Cameras : queries'[d] >= queries[d]
    BY <2>1 DEF TypeOK
  <2>5. \A d \in Cameras : \A m \in 1 .. Len(Report[d]) :
           ReportQueued(d, m) => ReportQueued(d, m)'
    BY <2>3, ReportQueueGrows
  <2> QED BY <1>2, <2>1, <2>4, <2>5, ReportsStay
<1>3. CASE ~Restart /\ (HandleRegister \/ HandleKeepalive \/ HandleOther \/ HandleMethod)
  <2>1. /\ UNCHANGED <<srvVars, queries>> /\ events # <<>> /\ events' = Tail(events)
        /\ Head(events).kind # "Catalog"
    BY <1>3 DEF HandleRegister, HandleKeepalive, HandleOther, HandleMethod, Take, netVars
  <2>2. \A d \in Cameras : queries'[d] >= queries[d]
    BY <2>1 DEF TypeOK
  <2>3. \A d \in Cameras : \A m \in 1 .. Len(Report[d]) :
           ReportQueued(d, m) => ReportQueued(d, m)'
    BY <2>1, ReportStaysQueued
  <2> QED BY <1>3, <2>1, <2>2, <2>3, ReportsStay
<1>4. CASE ~Restart /\ (DeliverSignal \/ UiThread \/ UNCHANGED vars)
  <2>1. UNCHANGED <<srvVars, events>>
    BY <1>4 DEF DeliverSignal, UiThread, ClickCatalog, vars, srvVars
  <2>2. queries' = queries \/ \E d \in Cameras : SendQueryCatalog(d)
    <3>1. CASE UiThread
      <4>1. PICK i \in 1 .. Len(tree) : ClickCatalog(i)
        BY <3>1 DEF UiThread
      <4>2. tree[i].cam \in Cameras
        BY WindowTypes DEF Devices
      <4> QED BY <4>1, <4>2 DEF ClickCatalog
    <3> QED BY <1>4, <3>1 DEF DeliverSignal, vars, netVars
  <2>3. \A d \in Cameras : queries'[d] >= queries[d]
    <3>1. \A d \in Cameras : queries[d] \in Nat
      BY DEF TypeOK
    <3> QED BY <2>2, <3>1, QueryAdded
  <2>4. \A d \in Cameras : \A m \in 1 .. Len(Report[d]) :
           ReportQueued(d, m) => ReportQueued(d, m)'
    BY <2>1 DEF ReportQueued
  <2> QED BY <1>4, <2>1, <2>3, <2>4, ReportsStay
<1>5. CASE Restart
  <2>1. Len(mDeviceList') = 0
    BY <1>5, EmptySeq DEF Restart
  <2> QED BY <2>1 DEF ReportsInv, Listed
<1>6. CASE ~Restart /\ HandleRegisterAuth
  <2> SUFFICES ASSUME NEW c \in Cameras, Listed(c)', NEW m \in 1 .. Len(Report[c]),
                      Report[c][m] # <<>>
               PROVE  (Known(c, m) \/ ReportQueued(c, m) \/ queries[c] > 0)'
    BY DEF ReportsInv
  <2>1. /\ events # <<>> /\ events' = Tail(events) /\ Head(events).kind # "Catalog"
        /\ catalog = NoLoop /\ channels' = channels
    BY <1>6 DEF HandleRegisterAuth, Take
  <2>2. /\ \/ queries' = queries /\ mDeviceList' = mDeviceList
           \/ /\ SendQueryCatalog(Head(events).cam)
              /\ mDeviceList' = Append(mDeviceList,
                                       [cam |-> Head(events).cam, channelList |-> <<>>])
    BY <1>6 DEF HandleRegisterAuth, NewDeviceList
  <2>3. Head(events).cam \in Cameras
    BY <2>1, EventQueue
  <2>4. queries[c] > 0 => queries'[c] > 0
    <3>1. queries[c] \in Nat /\ queries'[c] \in Nat
      BY DEF TypeOK
    <3>2. queries' = queries \/ queries'[c] >= queries[c]
      BY <2>2, <2>3, QueryAdded
    <3> QED BY <3>1, <3>2
  <2>5. CASE Listed(c)
    <3>1. Known(c, m) \/ ReportQueued(c, m) \/ queries[c] > 0
      BY <2>1, <2>5 DEF ReportsInv, IsHandled
    <3>2. ReportQueued(c, m) => ReportQueued(c, m)'
      BY <2>1, ReportStaysQueued
    <3>3. Known(c, m) => Known(c, m)'
      BY <1>0, <1>6
    <3> QED BY <2>4, <3>1, <3>2, <3>3
  <2>6. CASE ~Listed(c)
    <3>1. mDeviceList' # mDeviceList
      BY <2>6 DEF Listed
    <3> DEFINE node == [cam |-> Head(events).cam, channelList |-> <<>>]
    <3>2. SendQueryCatalog(Head(events).cam) /\ mDeviceList' = Append(mDeviceList, node)
      BY <2>2, <3>1
    <3>3. node.cam = Head(events).cam /\ mDeviceList \in Seq(Devices)
      BY ListNowType
    <3> HIDE DEF node
    <3>4. /\ Len(mDeviceList) \in Nat /\ Len(mDeviceList') = Len(mDeviceList) + 1
          /\ \A k \in 1 .. Len(mDeviceList) : mDeviceList'[k] = mDeviceList[k]
          /\ mDeviceList'[Len(mDeviceList) + 1] = node
      BY <3>2, <3>3, Appended
    <3>5. c = Head(events).cam
      BY <2>6, <3>3, <3>4 DEF Listed
    <3>6. queries'[c] > 0
      BY <2>3, <3>2, <3>5, QueryAdded
    <3> QED BY <3>6
  <2> QED BY <2>5, <2>6
<1>7. CASE ~Restart /\ HandleCatalog
  <2> SUFFICES ASSUME NEW c \in Cameras, Listed(c)', NEW m \in 1 .. Len(Report[c]),
                      Report[c][m] # <<>>
               PROVE  (Known(c, m) \/ IsHandled(c, m) \/ ReportQueued(c, m) \/ queries[c] > 0)'
    BY DEF ReportsInv
  <2>1. /\ events # <<>> /\ events' = Tail(events) /\ catalog = NoLoop
        /\ UNCHANGED <<mDeviceList, channels, queries>>
    BY <1>7 DEF HandleCatalog, Take, netVars
  <2>2. Listed(c)
    BY <2>1 DEF Listed
  <2>3. Known(c, m) \/ ReportQueued(c, m) \/ queries[c] > 0
    BY <2>1, <2>2 DEF ReportsInv, IsHandled
  <2>4. (Known(c, m) => Known(c, m)') /\ (queries[c] > 0 => queries'[c] > 0)
    BY <1>0, <1>7, <2>1
  <2>5. CASE Head(events).cam = c /\ Head(events).items = Report[c][m]
    <3>1. catalog' = [in |-> "catalog", item |-> Report[c][m][1], cam |-> c,
                      remote |-> lastRemote, deviceListTmp |-> <<>>]
      BY <1>7, <2>5 DEF HandleCatalog
    <3>2. /\ catalog' # NoLoop /\ catalog'.cam = c /\ catalog'.item = Report[c][m][1]
          /\ Len(catalog'.deviceListTmp) = 0
      BY <3>1, EmptySeq DEF NoLoop
    <3>3. PICK k \in 1 .. Len(mDeviceList) : mDeviceList[k].cam = c
      BY <2>2 DEF Listed
    <3>4. k \in Len(catalog'.deviceListTmp) + 1 .. Len(mDeviceList')
      BY <2>1, <3>2
    <3> QED BY <2>1, <3>2, <3>3, <3>4 DEF IsHandled
  <2> QED BY <2>1, <2>3, <2>4, <2>5, ReportStaysQueued
<1>8. CASE ~Restart /\ (OtherEntry \/ KnownChannel \/ NewChannel)
  <2> SUFFICES ASSUME NEW c \in Cameras, Listed(c)', NEW m \in 1 .. Len(Report[c]),
                      Report[c][m] # <<>>
               PROVE  (Known(c, m) \/ IsHandled(c, m) \/ ReportQueued(c, m) \/ queries[c] > 0)'
    BY DEF ReportsInv
  <2>1. InLoop /\ catalog # NoLoop /\ UNCHANGED <<mDeviceList, events, queries>>
    BY <1>8 DEF OtherEntry, KnownChannel, NewChannel, netVars, InLoop
  <2>2. Listed(c)
    BY <2>1 DEF Listed
  <2>3. Known(c, m) \/ IsHandled(c, m) \/ ReportQueued(c, m) \/ queries[c] > 0
    BY <2>2 DEF ReportsInv
  <2>4. (ReportQueued(c, m) => ReportQueued(c, m)') /\ (queries[c] > 0 => queries'[c] > 0)
    BY <2>1 DEF ReportQueued
  <2>5. Known(c, m) => Known(c, m)'
    BY <1>0, <1>8
  <2>6. ASSUME IsHandled(c, m) PROVE IsHandled(c, m)' \/ Known(c, m)'
    <3> DEFINE n == Len(catalog.deviceListTmp) + 1
    <3>1. /\ catalog.cam = c /\ catalog.item = Report[c][m][1] /\ catalog.item.ParentID = c
      BY <2>6, FirstItem DEF IsHandled
    <3>2. PICK k \in n .. Len(mDeviceList) : mDeviceList[k].cam = c
      BY <2>6 DEF IsHandled
    <3>3. /\ n \in 1 .. Len(mDeviceList) /\ deviceNode = mDeviceList[n] /\ deviceNode \in Devices
          /\ Len(catalog.deviceListTmp) \in Nat /\ catalog.deviceListTmp \in Seq(Devices)
          /\ Len(mDeviceList) \in Nat
      BY <2>1, LoopEntry, LoopType, ListNowType DEF deviceNode
    <3>4. CASE OtherEntry
      <4>1. ~IsParent(catalog.item, catalog.cam, deviceNode) /\ PushBack(deviceNode)
        BY <3>4 DEF OtherEntry
      <4>2. k # n
        BY <3>1, <3>2, <3>3, <4>1 DEF IsParent
      <4>3. /\ catalog' # NoLoop /\ catalog'.cam = c /\ catalog'.item = Report[c][m][1]
            /\ catalog'.deviceListTmp = Append(catalog.deviceListTmp, deviceNode)
        BY <2>1, <3>1, <4>1, LoopEntry DEF PushBack, NoLoop
      <4>4. Len(catalog'.deviceListTmp) = n
        BY <3>3, <4>3, Appended
      <4>5. k \in Len(catalog'.deviceListTmp) + 1 .. Len(mDeviceList')
        BY <2>1, <3>3, <4>2, <4>4
      <4> QED BY <2>1, <3>2, <4>3, <4>5 DEF IsHandled
    <3>5. CASE KnownChannel
      <4>1. /\ Exists(catalog.item, catalog.cam, deviceNode)
            /\ deviceNode.cam = c
        BY <3>1, <3>5 DEF KnownChannel, IsParent
      <4>2. PICK i \in 1 .. Len(deviceNode.channelList) :
               channels[deviceNode.channelList[i]].DeviceID = catalog.item.DeviceID
        BY <4>1 DEF Exists, SameChannel
      <4>3. ListNow[n] = deviceNode
        BY <3>3 DEF ListNow
      <4>4. Known(c, m)
        BY <3>1, <3>3, <4>1, <4>2, <4>3 DEF Known
      <4> QED BY <1>0, <1>8, <4>4
    <3>6. CASE NewChannel
      <4>1. RtpSSRC' = RtpSSRC + 1 /\ RtpSSRC \in Nat
        BY <3>6, NewChannelEffect, ChannelsType
      <4>2. PICK l \in 1 .. Len(mDeviceList) : EntryGrows(l)
        BY <1>8, <4>1, ListSteps DEF ListSettles, ListGrows, ListEmptied
      <4>3. /\ mDeviceList' = mDeviceList /\ mDeviceList[l] = deviceNode
            /\ Len(ListNow'[l].channelList) = Len(deviceNode.channelList) + 1
            /\ ListNow'[l].channelList[Len(deviceNode.channelList) + 1] = Len(channels) + 1
        BY <4>2, EntryGrowsTo DEF EntryGrows
      <4>4. Len(deviceNode.channelList) + 1 \in 1 .. Len(ListNow'[l].channelList)
        BY <3>3, <4>3, ChannelListType
      <4>5. channels'[Len(channels) + 1].DeviceID = Report[c][m][1].DeviceID
        BY <3>1, <3>6, NewChannelEffect
      <4>6. deviceNode.cam = c
        BY <3>1, <3>6 DEF NewChannel, IsParent
      <4> QED BY <4>3, <4>4, <4>5, <4>6 DEF Known
    <3> QED BY <1>8, <3>4, <3>5, <3>6
  <2> QED BY <2>3, <2>4, <2>5, <2>6
<1>9. CASE ~Restart /\ CatalogDone
  <2> SUFFICES ASSUME NEW c \in Cameras, Listed(c)', NEW m \in 1 .. Len(Report[c]),
                      Report[c][m] # <<>>
               PROVE  (Known(c, m) \/ IsHandled(c, m) \/ ReportQueued(c, m) \/ queries[c] > 0)'
    BY DEF ReportsInv
  <2>1. /\ catalog # NoLoop /\ mDeviceList' = catalog.deviceListTmp
        /\ Len(catalog.deviceListTmp) = Len(mDeviceList)
        /\ UNCHANGED <<events, queries>>
    BY <1>9 DEF CatalogDone, netVars
  <2>2. Listed(c)
    <3>1. PICK k \in 1 .. Len(mDeviceList) : mDeviceList'[k].cam = c
      BY <2>1 DEF Listed
    <3>2. ListNow[k] = mDeviceList'[k]
      BY <2>1 DEF ListNow
    <3> QED BY <3>1, <3>2 DEF LoopInv, Listed
  <2>3. ~IsHandled(c, m)
    <3>1. Len(mDeviceList) \in Nat
      BY ListNowType
    <3> QED BY <2>1, <3>1 DEF IsHandled
  <2>4. Known(c, m) \/ ReportQueued(c, m) \/ queries[c] > 0
    BY <2>2, <2>3 DEF ReportsInv
  <2> QED BY <1>0, <1>9, <2>1, <2>4 DEF ReportQueued
<1> QED BY <1>1, <1>2, <1>3, <1>4, <1>5, <1>6, <1>7, <1>8, <1>9 DEF Next, SipThread, Camera

\* Where every Catalog message has one item: once all a camera has sent is handled, the
\* server lists every channel the camera reported, however often the camera registered,
\* was asked again or gave up, and however often the server was restarted before.
THEOREM ChannelsGetKnown == OneItemEach /\ Spec => []ReportedChannelsAreKnown
<1> SUFFICES ASSUME OneItemEach PROVE Spec => []ReportedChannelsAreKnown
  OBVIOUS
<1> DEFINE I == TypeOK /\ LoopInv /\ ReportsInv
<1>1. Init => I
  <2> SUFFICES ASSUME Init PROVE ReportsInv
    BY TypeInit, ListInit
  <2>1. Len(mDeviceList) = 0
    BY EmptySeq DEF Init
  <2> QED BY <2>1 DEF ReportsInv, Listed
<1>2. I /\ [Next]_vars => I'
  BY TypeStep, ListSteps, ReportsStep
<1>3. I => ReportedChannelsAreKnown
  <2> SUFFICES ASSUME I, NEW c \in Cameras, Listed(c), queries[c] = 0, events = <<>>,
                      catalog = NoLoop, NEW m \in 1 .. Len(Report[c]),
                      NEW i \in 1 .. Len(Report[c][m])
               PROVE  \E k \in 1 .. Len(mDeviceList) :
                         /\ mDeviceList[k].cam = c
                         /\ \E j \in 1 .. Len(mDeviceList[k].channelList) :
                               channels[mDeviceList[k].channelList[j]].DeviceID
                                   = Report[c][m][i].DeviceID
    BY DEF ReportedChannelsAreKnown
  <2>1. Report[c] \in Seq(Seq(Items))
    BY RegistryAssumption DEF RegistryAssumption
  <2>2. Report[c][m] \in Seq(Items)
    BY <2>1, ElementOfSeq
  <2>3. i = 1 /\ Report[c][m] # <<>>
    <3>1. Len(Report[c][m]) \in Nat /\ Len(Report[c][m]) <= 1
      BY <2>2, LenProperties DEF OneItemEach
    <3>2. i = 1 /\ Len(Report[c][m]) # 0
      BY <3>1
    <3> QED BY <3>2, EmptySeq
  <2>4. Len(events) = 0
    BY EmptySeq
  <2>5. Known(c, m)
    BY <2>3, <2>4 DEF ReportsInv, IsHandled, ReportQueued
  <2> QED BY <2>3, <2>5 DEF Known, ListNow
<1> QED BY <1>1, <1>2, <1>3, PTL DEF Spec
=============================================================================
