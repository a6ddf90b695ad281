--------------------------- MODULE DeviceRegistry ---------------------------
(***************************************************************************)
(* Cameras registering with the server, and what the server and its window *)
(* know of them.  The SIP thread (GB28181Server::run) takes the requests   *)
(* eXosip queues one by one: REGISTER with and without credentials, and the*)
(* MESSAGEs Keepalive, Catalog and others.  It keeps the device list, makes*)
(* a VideoChannel for a catalog item it does not know yet and files it     *)
(* under a new SSRC for the RTP thread, going through the device list      *)
(* entry by entry.  It tells the window by queued Qt signals, from which   *)
(* the UI thread builds its tree.                                          *)
(*                                                                         *)
(* A camera is identified by its DeviceID and the host in its Via header   *)
(* together: that pair is what the server compares everywhere, and one     *)
(* model value stands for it, also as an address.  eXosip repeats lost     *)
(* datagrams and absorbs repeated ones; what is left of the network is that*)
(* a camera may give up waiting (its epoch ends) and start over.  Replies  *)
(* to Catalog messages and to queries change nothing and are left out.     *)
(***************************************************************************)
EXTENDS Integers, Sequences, FiniteSets

CONSTANTS
    Cameras,
    WrongPassword,  \* the cameras whose digest does not match
    ChannelIds,     \* DeviceIDs of channels
    Report,         \* Report[c]: the Catalog messages camera c answers a query
                    \* with, each a sequence of items
    OtherMessages,  \* TRUE if cameras also send MESSAGEs of other CmdTypes
    MaxEpochs,      \* bound: MaxEpochs[c] is how often camera c gives up early or
                    \* registers anew
    MaxClicks,      \* bound: how often the user asks a camera for its catalog
    MaxRestarts     \* bound: how often the user stops and starts the server

Elsewhere == "elsewhere"    \* a reported address that is no camera's Via host
NoAddress == "none"         \* the item has no IPAddress element

Addresses == Cameras \union {Elsewhere}
Items == [DeviceID : ChannelIds, ParentID : Cameras, IPAddress : Addresses \union {NoAddress}]

ASSUME RegistryAssumption ==
    /\ WrongPassword \subseteq Cameras
    /\ Elsewhere \notin Cameras /\ NoAddress \notin Cameras
    /\ Report \in [Cameras -> Seq(Seq(Items))]
    /\ OtherMessages \in BOOLEAN
    /\ MaxEpochs \in [Cameras -> Nat]
    /\ MaxClicks \in Nat /\ MaxRestarts \in Nat

VARIABLES
    camera,         \* camera[c]: what camera c is doing
    epoch,          \* epoch[c]: how often c gave up early or registered anew
    replies,        \* replies on their way, [cam, epoch, code]
    queries,        \* queries[c]: catalog queries on their way to c
    events,         \* eXosip's queue of requests
    lastRemote,     \* eXosip: the sender of the last datagram it received
    mDeviceList,
    catalog,        \* SIP thread: the loop over mDeviceList for a catalog item
    channels,       \* the VideoChannel objects ever made, in the order of their creation
    RtpSSRC,
    mDeviceVideoChannelMap,
    signals,        \* Qt: signals queued for the UI thread
    tree,           \* the items of treeWidget
    clicks, restarts

camVars == <<camera, epoch>>
netVars == <<replies, queries>>
srvVars == <<mDeviceList, catalog, channels, RtpSSRC, mDeviceVideoChannelMap>>
uiVars  == <<tree, clicks, restarts>>
vars == <<camera, epoch, replies, queries, events, lastRemote, mDeviceList, catalog,
          channels, RtpSSRC, mDeviceVideoChannelMap, signals, tree, clicks, restarts>>

-----------------------------------------------------------------------------
\* "off", waiting for the reply to a REGISTER without and with credentials,
\* registered, and waiting for the reply to a Keepalive or another request.
CameraStates == {"off", "asking", "proving", "online", "beating", "notifying"}
Waiting(c) == camera[c] \in {"asking", "proving", "beating", "notifying"}

Kinds == {"Register", "RegisterAuth", "Keepalive", "Catalog", "Other", "Method"}
Requests == [kind : Kinds, cam : Cameras, epoch : Nat, items : Seq(Items)]
Replies == [cam : Cameras, epoch : Nat, code : {200, 401, 403}]

Devices == [cam : Cameras, channelList : Seq(1 .. Len(channels))]
VideoChannels == [RtpSSRC : Nat, DeviceID : ChannelIds, IPAddress : Addresses, parent : Cameras]
Signals == [kind : {"registed", "update"}, node : Devices]

\* The loop has dealt with the first Len(deviceListTmp) entries; remote is what
\* eXosip_event_getUdpSocket gave when the event was taken.
NoLoop == [in |-> "events"]
Loops == {NoLoop} \union [in : {"catalog"}, item : Items, cam : Cameras,
                          remote : Addresses, deviceListTmp : Seq(Devices)]

TypeOK ==
    /\ camera \in [Cameras -> CameraStates]
    /\ epoch \in [Cameras -> Nat]
    /\ replies \subseteq Replies
    /\ queries \in [Cameras -> Nat]
    /\ events \in Seq(Requests)
    /\ lastRemote \in Addresses
    /\ mDeviceList \in Seq(Devices)
    /\ catalog \in Loops
    /\ channels \in Seq(VideoChannels)
    /\ RtpSSRC \in Nat
    /\ DOMAIN mDeviceVideoChannelMap \subseteq Nat
    /\ \A s \in DOMAIN mDeviceVideoChannelMap :
          mDeviceVideoChannelMap[s] \in 1 .. Len(channels)
    /\ signals \in Seq(Signals)
    /\ tree \in Seq(Devices)
    /\ clicks \in 0 .. MaxClicks
    /\ restarts \in 0 .. MaxRestarts

Init ==
    /\ camera = [c \in Cameras |-> "off"]
    /\ epoch = [c \in Cameras |-> 0]
    /\ replies = {}
    /\ queries = [c \in Cameras |-> 0]
    /\ events = <<>>
    /\ lastRemote = Elsewhere
    /\ mDeviceList = <<>>
    /\ catalog = NoLoop
    /\ channels = <<>>
    /\ RtpSSRC = 0
    /\ mDeviceVideoChannelMap = [s \in {} |-> 0]
    /\ signals = <<>>
    /\ tree = <<>>
    /\ clicks = 0
    /\ restarts = 0

-----------------------------------------------------------------------------
(* The cameras.                                                            *)

\* Camera c sends a request; eXosip receives and queues it.
Send(c, kind, items) ==
    /\ events' = Append(events, [kind |-> kind, cam |-> c, epoch |-> epoch[c],
                                 items |-> items])
    /\ lastRemote' = c

Request(c, from, to, kind) ==
    /\ camera[c] = from
    /\ camera' = [camera EXCEPT ![c] = to]
    /\ Send(c, kind, <<>>)
    /\ UNCHANGED <<epoch, netVars, srvVars, signals, uiVars>>

CamRegister(c)  == Request(c, "off", "asking", "Register")
CamKeepalive(c) == Request(c, "online", "beating", "Keepalive")
CamNotify(c)    ==
    /\ OtherMessages
    /\ \E kind \in {"Other", "Method"} : Request(c, "online", "notifying", kind)

\* The camera takes the reply to its request.  A 401 to the first REGISTER
\* makes it send its credentials; after a 403, or a second 401, it is off.
CamTakeReply(c) ==
    \E r \in replies :
        /\ r.cam = c /\ r.epoch = epoch[c]
        /\ replies' = replies \ {r}
        /\ IF r.code = 401 /\ camera[c] = "asking"
           THEN /\ camera' = [camera EXCEPT ![c] = "proving"]
                /\ Send(c, "RegisterAuth", <<>>)
           ELSE /\ camera' = [camera EXCEPT ![c] =
                                 IF r.code = 200 THEN "online" ELSE "off"]
                /\ UNCHANGED <<events, lastRemote>>
        /\ UNCHANGED <<epoch, queries, srvVars, signals, uiVars>>

\* Something that still concerns the camera's request is on its way.
Pending(c) ==
    \/ \E i \in 1 .. Len(events) :
          events[i].cam = c /\ events[i].epoch = epoch[c] /\ events[i].kind # "Catalog"
    \/ \E r \in replies : r.cam = c /\ r.epoch = epoch[c]

\* No reply will come: the server was restarted, or does not answer.  The camera
\* is not registered then, unless all it sent was a MESSAGE of its own.
CamTimeout(c) ==
    /\ Waiting(c)
    /\ ~Pending(c)
    /\ camera' = [camera EXCEPT ![c] = IF @ = "notifying" THEN "online" ELSE "off"]
    /\ UNCHANGED <<epoch, netVars, events, lastRemote, srvVars, signals, uiVars>>

\* The camera gives up early, reboots, or refreshes its registration.  A reply
\* that comes later finds no transaction.
CamStartOver(c) ==
    /\ camera[c] # "off"
    /\ epoch[c] < MaxEpochs[c]
    /\ epoch' = [epoch EXCEPT ![c] = @ + 1]
    /\ camera' = [camera EXCEPT ![c] = "off"]
    /\ replies' = {r \in replies : r.cam # c}
    /\ UNCHANGED <<queries, events, lastRemote, srvVars, signals, uiVars>>

\* The camera answers a query with its Catalog messages.
CamReport(c) ==
    /\ queries[c] > 0
    /\ queries' = [queries EXCEPT ![c] = @ - 1]
    /\ events' = events \o [i \in 1 .. Len(Report[c]) |->
                               [kind |-> "Catalog", cam |-> c, epoch |-> epoch[c],
                                items |-> Report[c][i]]]
    /\ lastRemote' = c
    /\ UNCHANGED <<camVars, replies, srvVars, signals, uiVars>>

-----------------------------------------------------------------------------
(* The SIP thread: one step handles one event, but for the loop over the   *)
(* device list, where one step handles one entry.                          *)

Listed(c) == \E i \in 1 .. Len(mDeviceList) : mDeviceList[i].cam = c

Take(kind) ==
    /\ catalog = NoLoop
    /\ events # <<>>
    /\ Head(events).kind = kind
    /\ events' = Tail(events)

\* Mutant: a 401 is built but not sent.
Answer_No401(e, code) ==
    replies' = IF e.epoch = epoch[e.cam] /\ code # 401
               THEN replies \union {[cam |-> e.cam, epoch |-> e.epoch, code |-> code]}
               ELSE replies

\* eXosip_message_send_answer: a camera that has started over ignores it.
Answer(e, code) ==
    replies' = IF e.epoch = epoch[e.cam]
               THEN replies \union {[cam |-> e.cam, epoch |-> e.epoch, code |-> code]}
               ELSE replies

SendQueryCatalog(c) == queries' = [queries EXCEPT ![c] = @ + 1]

HandleRegister ==
    /\ Take("Register")
    /\ Answer(Head(events), 401)
    /\ UNCHANGED <<camVars, queries, lastRemote, srvVars, signals, uiVars>>

\* Mutant: a camera that is listed already is taken out and not put back.
NewDeviceList_DropsOld(c) ==
    IF Listed(c)
    THEN SelectSeq(mDeviceList, LAMBDA device : device.cam # c)
    ELSE Append(mDeviceList, [cam |-> c, channelList |-> <<>>])

\* mDeviceList.push_back(node)
NewDeviceList(c) == Append(mDeviceList, [cam |-> c, channelList |-> <<>>])

HandleRegisterAuth ==
    LET e == Head(events)
    IN  /\ Take("RegisterAuth")
        /\ IF e.cam \in WrongPassword
           THEN /\ Answer(e, 401)
                /\ UNCHANGED <<queries, mDeviceList, signals>>
           ELSE /\ Answer(e, 200)
                /\ mDeviceList' = NewDeviceList(e.cam)
                /\ signals' = Append(signals, [kind |-> "registed",
                                  node |-> [cam |-> e.cam, channelList |-> <<>>]])
                /\ SendQueryCatalog(e.cam)
        /\ UNCHANGED <<camVars, lastRemote, catalog, channels, RtpSSRC,
                       mDeviceVideoChannelMap, uiVars>>

\* Mutant: an unknown camera is told all is well.
KeepaliveCode_Always200(c) == 200
\* The camera is looked up by DeviceID and Via host; 403 makes it register anew.
KeepaliveCode(c) == IF Listed(c) THEN 200 ELSE 403

HandleKeepalive ==
    LET e == Head(events)
    IN  /\ Take("Keepalive")
        /\ Answer(e, KeepaliveCode(e.cam))
        /\ UNCHANGED <<camVars, queries, lastRemote, srvVars, signals, uiVars>>

\* A MESSAGE whose CmdType is neither Keepalive nor Catalog gets no answer, nor does
\* a BYE that belongs to no call.
HandleOther ==
    /\ Take("Other")
    /\ UNCHANGED <<camVars, netVars, lastRemote, srvVars, signals, uiVars>>

\* A request of any other method gets 200, whoever sent it.
HandleMethod ==
    /\ Take("Method")
    /\ Answer(Head(events), 200)
    /\ UNCHANGED <<camVars, queries, lastRemote, srvVars, signals, uiVars>>

\* Mutant: only the address is compared.
SameChannel_AddressOnly(it, c, o) == channels[o].IPAddress = c

\* Object o is the channel item it names: it has its DeviceID, and the address
\* stored for it is the Via host of the message.
SameChannel(it, c, o) ==
    channels[o].DeviceID = it.DeviceID /\ channels[o].IPAddress = c

\* Mutant: the last channel of the list is not looked at.
Exists_SkipsLast(it, c, device) ==
    \E i \in 1 .. Len(device.channelList) - 1 : SameChannel(it, c, device.channelList[i])

Exists(it, c, device) ==
    \E i \in 1 .. Len(device.channelList) : SameChannel(it, c, device.channelList[i])

\* An entry of the device list is the device item it of camera c belongs to.
IsParent(it, c, device) == device.cam = it.ParentID /\ device.cam = c

\* The Catalog message is taken.  The loop over the items runs
\* mxmlGetRefCount(DeviceListNode) times, which is 1, and takes the first Item of the
\* message each time.
HandleCatalog ==
    LET e == Head(events)
    IN  /\ Take("Catalog")
        /\ catalog' = IF e.items = <<>> THEN NoLoop
                      ELSE [in |-> "catalog", item |-> e.items[1], cam |-> e.cam,
                            remote |-> lastRemote, deviceListTmp |-> <<>>]
        /\ UNCHANGED <<camVars, netVars, lastRemote, mDeviceList, channels, RtpSSRC,
                       mDeviceVideoChannelMap, signals, uiVars>>

\* The entry the loop has reached.
InLoop == catalog # NoLoop /\ Len(catalog.deviceListTmp) < Len(mDeviceList)
deviceNode == mDeviceList[Len(catalog.deviceListTmp) + 1]

\* deviceListTmp.push_back
PushBack(device) ==
    catalog' = [catalog EXCEPT !.deviceListTmp = Append(@, device)]

deviceUpdate(device) == signals' = Append(signals, [kind |-> "update", node |-> device])

\* Another camera's entry is kept as it is.
OtherEntry ==
    /\ InLoop
    /\ ~IsParent(catalog.item, catalog.cam, deviceNode)
    /\ PushBack(deviceNode)
    /\ UNCHANGED <<camVars, netVars, events, lastRemote, mDeviceList, channels, RtpSSRC,
                   mDeviceVideoChannelMap, signals, uiVars>>

\* An entry of the camera that has the channel is announced once more.
KnownChannel ==
    /\ InLoop
    /\ IsParent(catalog.item, catalog.cam, deviceNode)
    /\ Exists(catalog.item, catalog.cam, deviceNode)
    /\ PushBack(deviceNode)
    /\ deviceUpdate(deviceNode)
    /\ UNCHANGED <<camVars, netVars, events, lastRemote, mDeviceList, channels, RtpSSRC,
                   mDeviceVideoChannelMap, uiVars>>

\* Mutant: the missing address is stored as it is.
StoredAddress_AsReported(it, remote) == it.IPAddress
\* The address stored for a new channel: the reported one, or else the sender of
\* the last datagram eXosip had received when the event was taken.
StoredAddress(it, remote) == IF it.IPAddress # NoAddress THEN it.IPAddress ELSE remote

\* Mutant: every channel gets the same number.
NextSSRC_Unset == 1
\* ++RtpSSRC
NextSSRC == RtpSSRC + 1

\* Mutant: the entry is announced and kept with the channel of another entry of the
\* camera, if there is one.
NewObject_Shared ==
    IF \E o \in 1 .. Len(channels) : SameChannel(catalog.item, catalog.cam, o)
    THEN CHOOSE o \in 1 .. Len(channels) : SameChannel(catalog.item, catalog.cam, o)
    ELSE Len(channels) + 1
\* new VideoChannel()
NewObject == Len(channels) + 1

\* Mutant: the entry is announced as it was before.
Announced_Before(device) == deviceNode
Announced(device) == device

\* An entry of the camera that lacks the channel gets a new object, numbered and filed
\* under the next SSRC, and is announced.
NewChannel ==
    LET it == catalog.item
        device == [deviceNode EXCEPT !.channelList = Append(@, NewObject)]
    IN  /\ InLoop
        /\ IsParent(it, catalog.cam, deviceNode)
        /\ ~Exists(it, catalog.cam, deviceNode)
        /\ channels' = Append(channels,
               [RtpSSRC |-> NextSSRC, DeviceID |-> it.DeviceID,
                IPAddress |-> StoredAddress(it, catalog.remote), parent |-> catalog.cam])
        /\ RtpSSRC' = RtpSSRC + 1
        /\ mDeviceVideoChannelMap' =
               [s \in DOMAIN mDeviceVideoChannelMap \union {NextSSRC} |->
                   IF s = NextSSRC THEN NewObject ELSE mDeviceVideoChannelMap[s]]
        /\ PushBack(device)
        /\ deviceUpdate(Announced(device))
        /\ UNCHANGED <<camVars, netVars, events, lastRemote, mDeviceList, uiVars>>

\* mDeviceList = deviceListTmp
CatalogDone ==
    /\ catalog # NoLoop
    /\ Len(catalog.deviceListTmp) = Len(mDeviceList)
    /\ mDeviceList' = catalog.deviceListTmp
    /\ catalog' = NoLoop
    /\ UNCHANGED <<camVars, netVars, events, lastRemote, channels, RtpSSRC,
                   mDeviceVideoChannelMap, signals, uiVars>>

-----------------------------------------------------------------------------
(* The UI thread.                                                          *)

\* slotDeviceRegisted and slotDeviceUpdate.
DeliverSignal ==
    LET s == Head(signals)
    IN  /\ signals # <<>>
        /\ signals' = Tail(signals)
        /\ tree' = IF s.kind = "registed"
                   THEN Append(tree, s.node)
                   ELSE [i \in 1 .. Len(tree) |->
                            IF tree[i].cam = s.node.cam THEN s.node ELSE tree[i]]
        /\ UNCHANGED <<camVars, netVars, events, lastRemote, srvVars, clicks, restarts>>

\* The catalog button, with an item of the tree selected.
ClickCatalog(i) ==
    /\ clicks < MaxClicks
    /\ clicks' = clicks + 1
    /\ SendQueryCatalog(tree[i].cam)
    /\ UNCHANGED <<camVars, replies, events, lastRemote, srvVars, signals, tree, restarts>>

\* Stop and start: stop() waits for the event in hand, the requests that were queued
\* are gone, and a new server object begins with nothing.  The old VideoChannels are
\* never freed, and signals queued before the stop are delivered to the cleared window
\* after it.
Restart ==
    /\ restarts < MaxRestarts
    /\ catalog = NoLoop
    /\ restarts' = restarts + 1
    /\ events' = <<>>
    /\ mDeviceList' = <<>>
    /\ RtpSSRC' = 0
    /\ mDeviceVideoChannelMap' = [s \in {} |-> 0]
    /\ tree' = <<>>
    /\ UNCHANGED <<camVars, netVars, lastRemote, catalog, channels, signals, clicks>>

-----------------------------------------------------------------------------
Camera(c) ==
    \/ CamRegister(c) \/ CamTakeReply(c) \/ CamTimeout(c) \/ CamReport(c)
    \/ CamKeepalive(c)

SipThread ==
    \/ HandleRegister \/ HandleRegisterAuth \/ HandleKeepalive \/ HandleOther
    \/ HandleMethod \/ HandleCatalog
    \/ OtherEntry \/ KnownChannel \/ NewChannel \/ CatalogDone

UiThread == \E i \in 1 .. Len(tree) : ClickCatalog(i)

Next ==
    \/ \E c \in Cameras : Camera(c) \/ CamNotify(c) \/ CamStartOver(c)
    \/ SipThread
    \/ DeliverSignal
    \/ UiThread
    \/ Restart

Spec == Init /\ [][Next]_vars

\* The two threads of the server keep running, and cameras that are switched on
\* register, take replies, notice missing ones and answer queries.  Keepalives come
\* from a timer of the camera, so other messages cannot keep them away for good.
Fairness ==
    /\ WF_vars(SipThread)
    /\ WF_vars(DeliverSignal)
    /\ \A c \in Cameras :
          /\ WF_vars(CamRegister(c))
          /\ WF_vars(CamTakeReply(c))
          /\ WF_vars(CamTimeout(c))
          /\ SF_vars(CamKeepalive(c))
          /\ WF_vars(CamReport(c))

FairSpec == Spec /\ Fairness

-----------------------------------------------------------------------------
(* Properties.                                                             *)

\* Every channel the server or its window lists is the one the RTP thread finds
\* under the SSRC the INVITE for it would announce.
Routed(device) ==
    \A i \in 1 .. Len(device.channelList) :
        LET o == device.channelList[i]
        IN  /\ o \in 1 .. Len(channels)
            /\ channels[o].RtpSSRC \in DOMAIN mDeviceVideoChannelMap
            /\ mDeviceVideoChannelMap[channels[o].RtpSSRC] = o

StreamsAreRouted ==
    /\ \A k \in 1 .. Len(mDeviceList) : Routed(mDeviceList[k])
    /\ \A k \in 1 .. Len(tree) : Routed(tree[k])

\* No two list entries, and no two places of one entry, share a VideoChannel,
\* although CameraDevice is copied by value with its list of pointers.
ChannelsHaveOneOwner ==
    \A k, l \in 1 .. Len(mDeviceList) :
        \A i \in 1 .. Len(mDeviceList[k].channelList),
           j \in 1 .. Len(mDeviceList[l].channelList) :
            mDeviceList[k].channelList[i] = mDeviceList[l].channelList[j]
                => k = l /\ i = j

\* Once the window has worked off its signals it shows the device list: the same
\* cameras in the same order, and the same channels for every camera that is
\* listed once.  It holds between restarts.
WindowShowsDeviceList ==
    signals = <<>> /\ catalog = NoLoop =>
        /\ Len(tree) = Len(mDeviceList)
        /\ \A i \in 1 .. Len(tree) :
              /\ tree[i].cam = mDeviceList[i].cam
              /\ (\A j \in 1 .. Len(tree) : tree[j].cam = tree[i].cam => j = i)
                    => tree[i] = mDeviceList[i]

\* However often a camera reports its catalog, a list entry gets each of its
\* channels once.  It holds where cameras report their own address.
EntriesHaveNoDoubles ==
    \A k \in 1 .. Len(mDeviceList) :
        LET list == mDeviceList[k].channelList
        IN  \A i, j \in 1 .. Len(list) :
                channels[list[i]].DeviceID = channels[list[j]].DeviceID => i = j

\* CameraDevice.h: a camera may have several channels.  Once everything a camera
\* has sent is handled, all channels it reported are listed for it.
ReportedChannelsAreKnown ==
    \A c \in Cameras :
        Listed(c) /\ queries[c] = 0 /\ events = <<>> /\ catalog = NoLoop =>
            \A m \in 1 .. Len(Report[c]) : \A i \in 1 .. Len(Report[c][m]) :
                \E k \in 1 .. Len(mDeviceList) :
                    /\ mDeviceList[k].cam = c
                    /\ \E j \in 1 .. Len(mDeviceList[k].channelList) :
                          channels[mDeviceList[k].channelList[j]].DeviceID
                              = Report[c][m][i].DeviceID

\* The SIP thread answers every request it takes: as long as a camera waits, its
\* request or the reply to it is on its way.  It holds between restarts.
NoRequestForgotten == \A c \in Cameras : Waiting(c) => Pending(c)

\* While the server is not restarted, a camera that believes it is registered is
\* in the list, whatever was given up and repeated: its Keepalives get 200.
RegisteredIsListed ==
    \A c \in Cameras : camera[c] \in {"online", "beating", "notifying"} => Listed(c)

\* Recovery: however often the server is restarted, every camera with the right
\* password ends up listed and shown, with a channel for each Catalog message it
\* sends.  The 403 to the Keepalive of an unknown camera is what brings it back.
CamerasComeBack ==
    \A c \in Cameras \ WrongPassword :
        <>[](/\ Listed(c)
             /\ \E k \in 1 .. Len(tree) :
                   /\ tree[k].cam = c
                   /\ \A m \in 1 .. Len(Report[c]) :
                         \E i \in 1 .. Len(tree[k].channelList) :
                            channels[tree[k].channelList[i]].DeviceID
                                = Report[c][m][1].DeviceID)
=============================================================================
