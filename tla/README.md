# A TLA+ model of GB28181Server

GB28181Server is a Qt program that acts as a GB/T 28181 platform: cameras register
with it over SIP, it asks them for their channel lists, and when the user clicks a
channel it invites the camera to send video, which arrives as an MPEG program stream
over RTP, is put together, decoded and shown. This directory holds TLA+ modules that
model the program's own logic, TLC configurations that check them on small instances,
and TLAPS proofs of the most important invariants for instances of any size.

Paths below are relative to `src/` of the repository, `GS` is
`GB28181Server/src/GB28181Server/GB28181Server.cpp`, `VC` is
`GB28181Server/src/Device/VideoChannel.cpp`, `RR` is
`GB28181Server/src/RtpReciever/RtpReciever.cpp` and `MW` is `src/MainWindow.cpp`. PROJECT.json gives the source lines of every definition.

## 1. The system

### Threads

| thread | code | shares with others |
|---|---|---|
| UI | `MainWindow` slots and buttons | `mCallId` of every channel, `SN`, the flags of the server, the queued signals |
| SIP | `GB28181Server::run` | device list and SSRC map, `mCallId`, `mIsThreadRunning` |
| RTP | `RtpReciever::run` | the SSRC map (reads), the frame queues |
| poll thread of jrtplib | vendored | the packet list, under `BeginDataAccess` |
| one decoding thread per channel | `DataListThread::run` | its frame queue `mList`, under `mMutex` |

eXosip has a thread of its own that queues events for the SIP thread. The SIP and the
decoding threads tell the window by Qt signals that are queued to the UI thread.

### Components

| component | state | operations | must be true | model |
|---|---|---|---|---|
| RTP reception (`RR:183-270`) | packet list of jrtplib | take packets in order of their number, look up the channel | nothing reordered within one data access | RtpAssembly |
| frame assembly (`VC:148-199`) | `mRtpBuffer`, `mLastSequenceNumber`, `mIsCurrentFrameLostPacket` | `inputRtpBuffer` | a frame not marked as damaged is whole; a mark is earned | RtpAssembly |
| decoding thread (`VC:48-146, 201-348`, `Thread/DataListThread.h`) | `mList`, `mIsKeyFrameGetted`, `mIsLastKeyFrameLostPacket`, the decoder | `threadStart`, `run`, `dealwithDataNode`, `decodeH264Buffer` | pictures in order, each once, none without its I frame; recovery at the next clean I frame | VideoPipeline, FrameDisplay |
| call marks (`GS:524-576, 810-899`) | `mCallId` per channel | `SendInvitePlay`, the call events, `setCallFinished` | an answer frees the channel of its call and no other | InvitePlay |
| registration (`GS:161-522`) | `mDeviceList`, channels, `RtpSSRC`, `mDeviceVideoChannelMap` | REGISTER, Keepalive, Catalog, other MESSAGEs | list, channels, map, window and cameras agree; restarts are recovered from | DeviceRegistry |
| main window (`MW:66-285`, `widget/`) | the tree, `mCurrentSelectedItem`, two buttons, two menus, a video window per channel item | `slotDeviceRegisted`, `slotDeviceUpdate`, clicks, `setEventHandle` | shows what the server has; no pointer followed that is dead | MainWindow, DeviceRegistry |
| lookup of streams (`GS:901-911`) | `mDeviceVideoChannelMap` | `getVideoChannel` | a stream reaches the channel it was asked for | MediaRouting |
| start and stop (`GS:43-98, 127-160, 594-601`, `RR:146-216`, `MW:182-218`) | `mIsStop`, `mIsThreadRunning`, `gGB28181Server`, the ports | start, stop, delete | stop returns, start serves, no thread outlives what it uses | ServerLifecycle |
| program stream demultiplexer (`RR:1-136, 272-382`) | none | `GetH264FromPs` | ends, stays inside its buffers, gives the data of the frame | PsDemux, PsAssembly |
| HTTP digest, MD5 | none, a block buffer | `DigestCalcHA1`, `DigestCalcResponse`, `MD5Update` | the digest of RFC 2617 | not modelled |
| AppConfig, Mutex, Cond, CommonThread | | | | not modelled |
| eXosip, osip, mxml, jrtplib, FFmpeg, SDL | | | | external, see section 6 |

### How they meet

* A camera's REGISTER with a matching digest appends an entry to the device list, tells
  the window and sends the camera a catalog query. The Catalog answer makes a
  `VideoChannel` with a new SSRC, which is filed in the map the RTP thread reads, and
  sends the window the new entry by value, pointers to the channels included.
* A click on a channel runs `SendInvitePlay` on the UI thread. It tells the camera the
  SSRC; the SIP thread handles the answer and searches all channels for the mark.
* RTP packets with that SSRC reach the channel's `inputRtpBuffer` on the RTP thread; the
  frames go through `mList` to the channel's decoding thread, which takes the H.264 data
  out of them and hands its pictures to the video window the UI thread has set as the
  channel's event handle.

### What is hard here

`mCallId`, `SN`, the SSRC map and the run flags are shared without a lock. The network
loses and reorders RTP. Cameras give up and register again. The server is stopped and
started under a running network. Cameras, frames and calls are recognised by values
(addresses, sequence numbers, call numbers) that are not always what they are taken for.
The hazards of PROJECT.json list each of these at its line.

## 2. The modules and the code

### RtpAssembly: from the camera to the frame queue

Packets are numbered as the camera sends them; `SequenceNumber(p)` is what is on the wire,
modulo 2^16, from a start the camera chooses. `CameraSend`, `NetLose` and
`PollThreadReceive` are the outside: any packet of `Losable` may vanish, arrival may be out
of order and repeated, and the poll thread files a packet in a sorted list where a double is
dropped (jrtplib). `BeginDataAccess`, `TakePacket` and `EndDataAccess` are the loop of
`RtpReciever::run`; `TakePacket` contains the whole of `inputRtpBuffer`: the gap test in
unsigned arithmetic with its exemption of the number 0, the queueing of the buffer when a
header arrives, the reset, and the copy with the overflow rule. A buffer is the sequence of
packets whose payloads it holds, each of one unit, so that "the frame is whole" can be
said. `closedBy` in a queued node is a history field.

### PsDemux and PsAssembly: from a node to H.264 data

PsDemux is `GetH264FromPs` on one buffer of bytes: the call with the pack header and its
stuffing, one step for each turn of the loop with the length arithmetic of the three section
handlers, and the return. Every `memcpy` is recorded with where it starts and how much it
takes. A size below zero ends in "crashed". PsAssembly composes RtpAssembly with PsDemux: the
decoding thread takes the queued nodes one by one and demultiplexes those that start with a
pack header. `Payload` gives the bytes of each packet and `Video` the data each frame holds.

### VideoPipeline and FrameDisplay: from the queue to the screen

VideoPipeline EXTENDS RtpAssembly with the decoding thread. `threadStart` may come after the
first frames were queued and clears two flags the constructor leaves uninitialised;
`PopNode` is the locked section of `DataListThread::run`; `dealwithDataNode` is the rest of
one round with the I frame logic and `decodeH264Buffer`. The decoder is external. The channel
opens `h264_cuvid`, or a software decoder with eight threads (`VC:208`, `VC:242`), and both return
pictures late: a call takes one buffer and returns any number of pictures, in order, as long as
no more than `DecoderDelay` are kept, and it may refuse a buffer that is no frame. `displayed` is
what was shown, and the history variable `passed` the buffers `decodeH264Buffer` was given as not
damaged; with a delay the two differ, since the mark of one buffer decides on the pictures of
others. FrameDisplay is the abstract promise of what is let pass: frames in order, once each, and
not before their I frame.

### InvitePlay: call marks

`SendInvite` is the part of `SendInvitePlay` under `eXosip_lock`, `SetCallId` the store after
the unlock: two steps, as the SIP thread may run between them. `SendInviteFails` stores the
error code, as the code does. `HandleAnswered`, `CompareCallId`, `ClearCallId` and
`ResponseCallAck` are the handler of `CALL_ANSWERED`, one step for each access to the
unlocked `mCallId`; `HandleOther` stands for the other call events, which leave the channels
alone. Channels are numbered in the order in which the double loop visits them.

### DeviceRegistry: registration, catalog and window

One step of the SIP thread handles one event from eXosip's queue, since the state it changes
belongs to it. The exception is a Catalog message: `HandleCatalog` takes the event and fixes
the remote address, then the loop over the device list takes one step for each entry, which is
another camera's (`OtherEntry`), has the channel (`KnownChannel`) or lacks it (`NewChannel`: an
object, an SSRC and a place in the map). The last two announce the entry at once, while the
list itself is replaced only at the end (`CatalogDone`), as in the code; the RTP thread may look
up and the window may be told of channels that are not in the list yet. Only the first item of
a message is used, because that is what the code does (see the findings).

A camera is one model value for its DeviceID and Via host, the pair the server compares
everywhere. `lastRemote` is eXosip's note of the last sender, which the code takes for the
sender of the event. A MESSAGE of another CmdType gets no answer (`HandleOther`), a request of
another method gets 200 whoever sends it (`HandleMethod`). `DeliverSignal` runs the slots of the
window. The cameras are state machines that register, answer a challenge, send Keepalives,
report catalogs, time out and start over. `Restart` is stop and start between two events: the
queue and the server's data are gone, the old channels and the queued signals are not.

### MediaRouting: from an SSRC to a channel

MediaRouting EXTENDS DeviceRegistry with the INVITEs of the user, who may click any channel the
window shows, and the streams cameras send for them. The server never sends a BYE, so a stream
goes on when the server that asked for it is stopped. `Destination` is `getVideoChannel`.

### MainWindow: tree, selection and video windows

The UI thread takes one step for each statement that another thread can see between: a slot is
called, reaches an item of the tree, deletes its children one by one (`DetachHandle` resets the
handle of the channel, `DeleteWindow` deletes the window) and makes the new ones
(`SetChannelNode`). The decoding thread of a channel tests the handle (`TestHandle`) and then
calls it (`OnDisPlayVideoData`), without a lock. A right click opens a menu whose event loop
delivers signals until it is closed, so slots run between `SlotItemClicked` and `MenuReturns`.
`crashed` is set where a null or dangling pointer is followed: by the decoding thread, by the
two buttons and by the entries of the menus. The server is reduced to its list of entries and
the signals it sends; what they mean is DeviceRegistry's.

### ServerLifecycle: start and stop

`Start` is the start button: the constructor, which sets the global `gGB28181Server`, and
`start()`. `ClickStop` sets `mIsStop`; `StopReturns` is the end of the waiting loop, the
call of `RtpReciever::stop`, which does not wait, and the delete. The SIP thread listens and
then raises `mIsThreadRunning`; the RTP thread opens its port, loops and leaves by
`BYEDestroy`. Servers have addresses from `Objects`, and a deleted one may be given to the
next server; what a thread reads from a deleted server is any value. `eXosip_init`,
`eXosip_listen_addr` and `RTPSession::Create` end the program when they fail, and the system may
refuse each of them at any time, for whatever reason: a port another program holds, no memory, no
buffer of 100 MB. `RTPSession::Create` cannot succeed while another receiver of this program has the
port. The history variable `refused` tells which call the system refused; it is left alone where the
program itself is the cause, by its own earlier receiver or by a thread whose server is deleted.

### How the modules compose

VideoPipeline composes the RTP thread, jrtplib's thread and the decoding thread over `mList`;
PsAssembly the same queue with the demultiplexer. VideoPipeline takes a whole frame as what the
decoder gets, and PsAssembly shows (`FramesAreDemuxed`) that a node not marked as lost gives it
exactly that. DeviceRegistry composes cameras, SIP thread and window; MediaRouting adds users
and streams. InvitePlay takes the channels as given, DeviceRegistry makes them. ServerLifecycle
takes the loops of the two threads as opaque, RtpAssembly and DeviceRegistry are those loops.
MainWindow takes the server's announcements as given, DeviceRegistry makes them.

## 3. The runs

Every passing run was also made to fail, per property, by the mutant of the code listed in
PROJECT.json; the mutants are the operators with an underscore suffix in the modules.

| run | expects | shows |
|---|---|---|
| rtp_lossy | pass | `WholeFrames` with `BufferInv`, which its proof rests on, and `DemuxInv`, `FramesAreDemuxed`, `OnlyLossCrashes`, `DemuxAdvances` of the demultiplexer, under any loss and order, one duplicate, and an overflowing buffer |
| rtp_seqzero | violation | a loss next to sequence number 0 goes unnoticed |
| pipeline_lossy | pass | `FlagsEarned`, the refinement of FrameDisplay, `PicturesInOrder`, `DamageComesLate`, and the recovery `CleanFramesAreShown`, with a decoder that keeps two pictures |
| pipeline_lost_key_header | violation | if the header of an I frame is lost, frames predicted from it pass as undamaged |
| pipeline_decoder_delay | violation | with a decoder that delays, the damage mark is applied to the wrong picture |
| invite_marks | pass | `MarksExplained`, `AnswerClearsOwnChannel`, `TimelyMarkIsRemoved` |
| invite_late_mark | violation | an answer handled before `setCallId` leaves the mark for ever |
| registry_retries | pass | the seven invariants that relate cameras, list, channels, map and window |
| registry_restart | pass | type correctness, `NewStreamsArrive` and `CamerasComeBack` with a stop and start at any moment |
| registry_two_items | violation | of two items in one message one is lost |
| window | pass | the inductive `WindowInv`, its parts `HandlesAreLive` and `ButtonsFitSelection`, and `VideoGoesToLastItem`, `ChannelsHaveWindows`, `CrashExplained` |
| lifecycle | pass | the inductive `LifecycleInv`, `StopAlwaysReturns`, `StartedServerServes`, `SipThreadKeepsServer`, `LookupsFindOwnServer`, `ExitExplained` |

### Bounds

* rtp_lossy: six packets in three frames, the second of three packets, a buffer of three.
  A whole frame can thus lose its first, inner or last packet, run into its neighbour, or
  overflow the buffer with packets of its neighbour; a packet can come after the frame it
  belongs to was queued, once more if it was repeated. The frames have all kinds of sections,
  an empty one, stuffing in the pack header and in sections, and an audio section at the end;
  the cuts between packets are before the stuffing of a video section, behind a pack header
  and inside a payload, so that after a loss the lengths lead into other data, past the end of
  the buffer, and to a rest that is negative.
* rtp_seqzero: packet 1 has number 65535, packet 2 number 0, so that both exemptions of the
  gap test are met.
* pipeline_lossy: six frames of two packets with I frames at 2 and 6 and numbers that wrap at
  packet 7, inside the second I frame. Lost are any of packets 0, 1, 3, 4, 5: frames
  before, inside and after the first I frame. The headers of I frames arrive, because their
  loss is the subject of pipeline_lost_key_header, and number 0 has no lost neighbour,
  because that is the subject of rtp_seqzero. The buffer takes the four packets of two frames
  glued together. The decoder keeps at most two pictures: the marks of both neighbours can then
  decide on a picture. Two whole frames follow the second I frame, so that it has to come out of
  the decoder even if no P frame before it could.
* invite_marks: two channels and two calls, on one channel or on both; a third call adds no
  new pair of steps, since each mark depends on its own call and at most one later.
* registry_retries: two cameras, one with two channels, one of which starts over at any moment
  once, and one extra query. Two list entries of one camera, next to one of another, are the
  case that tells shared from separate channels.
* registry_restart: one restart, at any moment, next to a camera that never gets in. A second
  restart begins in a state like the first, but for signals and streams of older servers, which
  the proof of `NewStreamsArrive` covers. One INVITE: the property speaks of each stream alone,
  and no step of the server depends on a stream.
  registry_retries runs MediaRouting with no INVITE, since a stream changes nothing its properties
  speak of; between them the two runs fire every action of DeviceRegistry.
* window: two devices, two entries (the same device twice, or two devices), two channels, two
  announcements and one stop. Two items of one device that share a channel, an update with
  children already there, an update in the middle of a call of the decoding thread or of a
  menu, and a ghost item after a stop all fit in.
* lifecycle: three starts on two addresses, so that the third server can take the address of
  a server whose thread still runs while a second one was made elsewhere.

Runs without deadlock checking are of finite streams, calls and starts, or end in `exit(1)`;
registry_retries and registry_restart check for deadlock.

### Fairness

* VideoPipeline: weak fairness of the RTP thread, the decoding thread and the arrival of each
  packet. The threads are loops without a condition that could keep them from running.
  The camera is not fair: recovery is promised only once the closing header was sent.
* InvitePlay: weak fairness of the SIP thread. Users and cameras are not fair.
* DeviceRegistry (registry_restart): weak fairness of the SIP thread and of the delivery of
  signals, and of cameras that are switched on: they register, take replies, notice that
  none comes and answer queries. `CamKeepalive` is strongly fair, since it comes from a timer
  of the camera: other MESSAGEs cannot keep it away for ever.
* PsAssembly and MainWindow: none. Their properties are invariants and one action property; that
  the demultiplexer ends follows from `DemuxAdvances`, as the rest of the buffer shrinks.
* ServerLifecycle: weak fairness of the loop of `stop()`, of both threads of every server, but
  not of the exit of a SIP thread whose server is gone: it may read anything.

## 4. What the properties say

* `WholeFrames`: a queued node that starts with a pack header and is not marked is one complete
  frame. `FlagsEarned`: a marked one has a real break. The first is what protects the screen,
  the second what keeps the picture from freezing. `FlagsEarned` is checked with a buffer
  that does not overflow: an overflow empties the buffer and leaves the flag as it is
  (`VC:189-199`), so that it may be charged to the next, clean frame. With `MaxPsBuffer = 2`
  `CleanFramesAreShown` fails for that reason. No comment or test says what should happen, so it
  is stated here and not as a finding.
* `DemuxInv`: in the loop of the demultiplexer the pointer and the remaining length agree, no byte
  is copied twice, all of them are bytes of the buffer, and they fit `mH264buf`; `DemuxAdvances`:
  every turn goes forward. Both hold for any bytes. `FramesAreDemuxed` and `OnlyLossCrashes` need
  the packet path: a node not marked as lost gives its frame's data and never makes the size of a
  `memcpy` negative. After a loss it may become negative (`RR:125`, `RR:308`).
* `PassesWholeFramesInOrder` is the refinement of FrameDisplay by what is let pass as undamaged, for
  frames that have an I frame and for any decoder. What is on the screen is another matter, because
  the decoder delays: `ShownFramesAreWhole` is false (pipeline_decoder_delay). What is left are three
  properties of the screen. `PicturesInOrder`: it never goes back. `DamageComesLate`: a damaged picture
  needs the delay and a later whole frame to get there; with all frames damaged, or with no delay,
  none is shown. `CleanFramesAreShown`: a frame whose I frame and successors, as many as the decoder
  may keep, arrive undamaged is shown in the end.
* `MarksExplained`: a mark left behind has one of three causes: the answer is still to be
  searched for, the call was refused or not answered, or the mark was stored too late. The
  last two are marks that nothing removes, and a refused INVITE keeps its channel marked.
  `AnswerClearsOwnChannel` admits that an answer may remove the mark of a later call of the
  same channel, which the comparison in one step and the assignment in another allow.
* `RegisteredIsListed`, `NoRequestForgotten` and `WindowShowsDeviceList` hold between restarts,
  and are checked in registry_retries, which has none. `CamerasComeBack` says how a restart is
  recovered from: the 403 to a Keepalive makes the camera register.
* `ReportedChannelsAreKnown`: all channels a camera reported are in a list entry of this camera.
  It and `EntriesHaveNoDoubles` hold where a camera sends one item per
  message and reports its own address. With an address of another host, or with none while
  another camera's datagram came last, the comparison at `GS:433` fails for a channel that is
  there, and every Catalog adds it again.
* `NewStreamsArrive` is for channels of the running server. The stream of an old channel goes on
  after a restart, and its SSRC may by then belong to a channel of another camera.
* `HandlesAreLive`: at every moment between two statements of the UI thread, the handle a decoding
  thread may read is null or a window that exists and belongs to its channel, although items of
  the same camera set and reset the handle of the same channel. `VideoGoesToLastItem` says which
  of them gets the video, `ChannelsHaveWindows` that ghost items of an older server take no window
  from a channel of this one.
* `ButtonsFitSelection` makes the casts of `mCurrentSelectedItem` right. That the item still exists is
  not promised: `CrashExplained` lists what has to happen before a bad pointer is followed, and
  each of the three causes does lead there in the model: a handle tested and then used, and a
  selection that outlives its item, after a deletion; buttons left enabled by a stop; a button
  left enabled by a menu entry, which forgets the selection.
* `SipThreadKeepsServer`: a SIP thread that runs has its server, unless a stop came before a SIP
  thread had raised its flag. That case is real: `stop()` then returns at once and the
  thread goes on with a deleted object, or with the next server at the same address.
* `LookupsFindOwnServer` is for receivers that are not stopped. A stopped one may look up
  packets through a pointer to a deleted server, or in the next server's map.
* `ExitExplained`: when the system has refused nothing, the program ends itself only because the
  receiver of a stopped server has or wants the RTP port still, or because of such an early stop.

## 5. Findings

The violation runs, each against a comment of the repository quoted in PROJECT.json:

1. rtp_seqzero: `isLostPacket` is false although a packet is missing (`VC:150`).
2. pipeline_lost_key_header: the frames after a damaged I frame are shown (`VC:133`).
3. pipeline_decoder_delay: the mark of the buffer just sent decides on the picture of an earlier
   one (`VC:323`).
4. invite_late_mark: `mCallId` is not -1 although no INVITE is in progress.
5. registry_two_items: the item loop counts references, not items, and takes the first item each
   time.

Two more behaviours contradict the comment of `mCallId` (`VideoChannel.h:73`: a value other than
-1 says that an INVITE is being sent, and while it is, no other may be sent, "otherwise there will be
problems"). They need no interleaving to be seen, so no run is spent on them; both are in the model:

* Two clicks send two INVITEs for one channel with one SSRC, the second while the first is open:
  nothing reads `mCallId` before sending (`MW:227`, `GS:869`), as `SendInvite` has no guard on it.
* A call that is refused or not answered leaves its mark on the channel (`GS:547`), which
  `MarksExplained` lists among the causes.

Further behaviours met while modelling that contradict no statement of the repository, or are
instances of the same cause:

* A failed send stores its error code as a call number. An answer may remove the mark of a later
  call of the same channel (`GS:888`).
* A camera that registers again gets a second entry, with channels and SSRCs of its own (`GS:277`);
  the old ones stay.
* A MESSAGE of another CmdType is not answered. The branch whose log speaks of a BYE (`GS:497`) is
  taken by every request but a BYE.
* After a loss `GetH264FromPs` may call `memcpy` with a negative size. A section it does not know,
  such as audio, ends it, so that video behind it is lost (`RR:371`).
* A decoding thread tests the handle and then calls it, while the UI thread may delete the window.
* The selected item is kept when an update deletes it. A menu entry sets it to null and a stop
  deletes the server, and both leave the button enabled: the next click follows the pointer.
* After a stop, queued signals bring back items of the old server, and a click on one invites an
  old channel. Streams of old channels land in channels of the new server with the same SSRC.
* The converter and the RGB buffer keep the size of the first picture of a stream (`VC:307`).
* The overflow flag, the addresses and the early stop of section 4.

## 6. What is assumed of the outside

* UDP and cameras: as in the constants of RtpAssembly; a camera numbers packets in sequence.
* jrtplib: the packet list is sorted, doubles in it are dropped, and it is not changed while the
  RTP thread has data access. Its sequence order is that of the camera (extended numbers).
* eXosip: one FIFO of events; call numbers never reused; it repeats lost requests itself and
  absorbs repeated ones; `eXosip_call_send_initial_invite` runs under the lock.
* jrtplib hands out no packet of another source under the same SSRC.
* libavcodec: takes buffers and returns pictures in order, keeps at most `DecoderDelay` of them,
  never refuses a whole frame.
* The system may refuse an eXosip context, a port, memory or a receive buffer at any time.
* Qt: queued signals are delivered once, in order, on the UI thread, also to a window whose tree was
  cleared since; `exec()` of a menu runs the event loop; a context menu keeps the user from the
  rest of the window while it is open.
* Memory: a deleted object's address is not given to the next one in MainWindow, but may be in
  ServerLifecycle, where that makes a difference.

## 7. Proofs

`tlapm` checks RtpAssembly_proofs, PsDemux_proofs, PsAssembly_proofs, VideoPipeline_proofs,
InvitePlay_proofs, DeviceRegistry_proofs, MainWindow_proofs and ServerLifecycle_proofs from the
named ASSUMEs of the modules alone, for all values of the constants. Conditions on them beyond
that are antecedents of the theorems. Every invariant that a passing run checks is proved.

* `RtpTypeCorrect`: `RtpSpec => []RtpTypeOK`.
* `FramesAreWhole`: `NoWrap /\ RtpSpec => []WholeFrames`. `NoWrap` says that no packet has
  number 0 and the numbers do not wrap, which rtp_seqzero shows to be necessary.
  `WholeFrames` alone is not inductive, since it says nothing of the buffer that becomes the
  next node. `BufferInv` adds it: the buffer holds no second header, its last packet is the
  one remembered in `mLastSequenceNumber`, and while the flag is down its packets are
  consecutive. From these, a header that arrives with the flag down and no gap follows the
  last packet directly, so the node is one frame. The proof has one step per action; only
  `TakePacket` touches the buffer, and lemmas treat its gap test, the closed node and the
  copied payload. `BufferIsInvariant` states `BufferInv` itself.
* `FramesAreWholeAcrossZero`: `ZeroKept /\ RtpSpec => []WholeFrames`, for streams that do pass number
  0. `ZeroKept`: the network keeps the order, repeats nothing and loses neither neighbour of a
  packet numbered 0; anything else may be lost. The buffer alone does not say why the
  exemption of number 0 does no harm then: `PacketOrder` and `NothingPassedOver` say that packets
  are taken in the order sent, and one that cannot be lost is not passed over. `GapsAreSeen`,
  used below, is `NoWrap \/ ZeroKept`.
* `FlagsAreEarned`: `RtpSpec /\ []NeverFull => []FlagsEarned`. `FlagInv`: a raised flag has its break
  inside the buffer. An overflow empties the buffer and keeps the flag, hence `NeverFull`, a
  condition on the behaviour and not on the constants: how full the buffer gets depends on losses.
* `DemuxIsInvariant`, `DemuxGoesForward`: `DemuxSpec => []DemuxInv` and `DemuxSpec => DemuxAdvances`, for
  every sequence of bytes; `DemuxInv` is inductive as it stands.
* `FramesComeOut`, `CrashesNeedLoss`: `GapsAreSeen /\ PacksAreSent /\ Spec => []FramesAreDemuxed`, and
  the same for `OnlyLossCrashes`. `PacksAreSent` says that the packets of each complete frame hold a
  pack header and sections whose lengths lead from one to the next up to the end, video before
  unknown ones, with less video data than `mH264buf` takes; it is stated with the places where the
  sections begin and the data of the first i of them, without recursion. (The stream of rtp_lossy
  is of this kind.) `OnTrack` is the invariant: while the loop runs on an unmarked node it
  stands at the beginning of a section and has copied the data of those before it. That needs
  whole frames, hence the invariant of the packet path, and `Glue`, which puts payloads and copied
  pieces one after another. `Glue` is recursive; that the recursion has one solution, and that it
  grows with its last piece, is proved by an induction over an interval, lemma `Climb`, which the
  library's well-founded order of the subsets of a finite set gives without an operator parameter.
* `PathUsesDemuxer`: `Spec => DemuxSpec`, that is, PsAssembly implements PsDemux, from which
  `PathStaysInside` and `PathGoesForward` follow for any packets at all.
* VideoPipeline, for every stream, buffer size and network:
  * `ChannelTypeCorrect`: `Spec => []TypeOK`.
  * `PassedFramesWhole`: `GapsAreSeen /\ Spec => []PassedFramesAreWhole`, that is, no damaged frame
    passes as undamaged. `WholeInv` follows a node from the queue to the decoder.
  * `PicturesStayInOrder` and `DamageIsHeldBack`: `GapsAreSeen /\ ~Reordering /\ Spec => []PicturesInOrder`,
    and the same for `DamageComesLate`. `ScreenInv`: the buffers shown, held by the decoder, being
    dealt with, queued and being collected are in this order of their headers, and a damaged one
    among those shown has a whole one let pass behind it.
  * `ChannelImplementsDisplay`: `Spec => PassesWholeFramesInOrder`, the refinement of FrameDisplay, and
    `KeyFramesPassFirst`: every buffer let pass is a whole frame later than the last one and not before
    its I frame. Besides the conditions above the network does not lose headers of I frames
    (`KindNetwork`), and I frames fit the buffer (`KeyFramesFit`). Runs pipeline_lost_key_header and
    rtp_seqzero show what goes wrong without them. `PipeInv` adds to `WholeInv` that all frames
    pending and let pass are in order (`PendingInOrder`, `PassedInOrder`), and that between a P frame
    and its I frame nothing is skipped that would lower the key flags (`KeysInOrder`).

  None of these has a condition on `DecoderDelay`. What a decoder without delay would grant besides,
  that no damaged picture is shown, is not claimed, because no decoder the code opens is one.
* `InviteTypeCorrect`: `Spec => []TypeOK`.
* `MarksAreExplained`: `Spec => []MarksExplained`. `CallInv` is what induction needs besides: call
  numbers not handed out are in no use, the UI thread holds a call of the channel it is about
  to mark, and the events in the queue tell the outcome the camera gave.
* `AnswersClearOwnChannel`: `Spec => AnswerClearsOwnChannel`. It needs to know where the mark that is
  about to be removed came from: `MatchInv` says that the channel `CompareCallId` found is that of
  the answered call, and that its mark is of that call or of one the UI thread set after it.
* DeviceRegistry: the loop over the device list changes a copy and puts it back at the end, so the
  invariants speak of `ListNow`, the list as it is to become, next to the list as it is. Lemma
  `ListSteps` says once what any step does to the two: nothing, `ListSettles`, `ListGrows`,
  `EntryGrows` or `ListEmptied`; the proofs below split on these five instead of on every action.
  * `RegistryTypeCorrect`: `Spec => []TypeOK`.
  * `StreamsFindTheirChannels`: `MaxRestarts = 0 /\ Spec => []StreamsAreRouted`, and
    `NewStreamsAreRouted`: `MediaSpec => []NewStreamsArrive`, for any number of restarts. `RoutingInv`:
    the channels of the running server are the last `RtpSSRC` ones made, they are numbered
    through from 1, and the map holds these and nothing else.
  * `OwnersAreUnique`: `Spec => []ChannelsHaveOneOwner`, with the same said of `ListNow`.
  * `RegisteredAreListed`: `MaxRestarts = 0 /\ Spec => []RegisteredIsListed`. What may make a camera
    believe it is registered is a 200 on its way, or a request that will get one unseen.
  * `RequestsAreAnswered`: `MaxRestarts = 0 /\ ~OtherMessages /\ Spec => []NoRequestForgotten`. The
    second condition is needed: some MESSAGEs do get no answer.
  * `ChannelsAreListedOnce`: `OwnAddresses /\ Spec => []EntriesHaveNoDoubles`; `OwnAddresses` says that
    cameras report their own address, without which the property does not hold.
  * `WindowCatchesUp`: `MaxRestarts = 0 /\ Spec => []WindowShowsDeviceList`. The window gets copies of
    entries, in order but late, so the invariant is about the signals under way. `TreeInv`: the tree
    is a beginning of the device list, and for the entries behind it there is a function (`Brings`)
    that names, in order, the queued "registed" signal of each. `EntriesInv`: of a camera listed
    once, the entry as it is to become is either on its way as the last signal about the camera,
    or shown with no signal about the camera behind. Lemma `SignalSteps` reduces all actions to
    four: nothing said, a camera said, an entry said, a signal delivered.
  * `ChannelsGetKnown`: `OneItemEach /\ Spec => []ReportedChannelsAreKnown`, for any number of restarts.
    `OneItemEach`: a Catalog message reports at most one channel, with the camera as its parent; run
    registry_two_items shows why. `ReportsInv`: each message of a listed camera has been worked
    off into an entry of the camera, is queued, or will be sent for a query the camera still has.
* MainWindow: `WindowIsInvariant`, `HandlesAreSafe`, `CastsAreSafe`: `WindowInv` is inductive; `DetachInv`
  is what `HandlesAreLive` needs between the two statements of the destructor.
  `CrashesAreExplained`: `Spec => []CrashExplained`, by `QuietInv`: as long as nothing was deleted, a tested
  handle is good and the selected item is in the tree; as long as nothing was stopped, whatever
  can be selected has a server.
  `VideoGoesToTheLastItem`: `Spec => []VideoGoesToLastItem`. Inside a slot the property is false: items
  are deleted and made again one by one. `VideoInv` says how far it holds at each point of the
  loops: `SettledInv`, that of the items the slot has worked off, the last one showing a channel has
  its handle, or gets it before the slot is left. `ChannelsGetWindows`: `Spec =>
  []ChannelsHaveWindows`, by `AnnouncedInv`: every listed device has an item or a "registed" signal in
  the queue, and the last announcement of an entry is queued behind every other signal of its
  device, being worked on by the slot, or shown by an item.
* `LifecycleIsInvariant`, `LookupsAreSafe`, `SipThreadIsSafe`: `LifecycleInv` is inductive and implies
  `LookupsFindOwnServer` and `SipThreadKeepsServer`. `ReceiverInv` says that only the last server,
  and only until its stop returns, has a receiver not told to stop, and that the global points to
  that server. `SipInv` says that without an early stop earlier SIP threads have ended and the flag
  is up while the SIP thread is in its loop; that is why the end of the waiting loop proves the thread
  gone unless it has not begun, which is what makes a stop early. `ExitsAreExplained`: `Spec =>
  []ExitExplained`, step by step from the same invariant: a SIP thread whose call fails while its
  server is there was refused by the system, and one without its server needs an early stop.

Checked by TLC only: every liveness property (`CleanFramesAreShown`, `TimelyMarkIsRemoved`,
`CamerasComeBack`, `StopAlwaysReturns`, `StartedServerServes`), which is out of the prover's reach.

## 8. Not modelled

* Digest and MD5 compute on strings; DeviceRegistry uses only whether the response matches.
* The message table of the main window, which only grows, and painting.
* The size of pictures and the set-up of the codec.
* Malformed SIP requests and XML, and the text of messages.
* The unlocked `std::map` between SIP and RTP thread: its race is undefined behaviour of the
  container; the models check what it holds between steps. `SN` is written by two threads and
  never read back.
* `AppConfig`: directories, and a time stamp nobody reads. `Mutex` and `Cond` wrap the system's
  primitives; `CommonThread` has no subclass.
* Stopping a decoding thread: nothing in the program does it.
* Two sources with one SSRC in jrtplib's session.

Most of the repository's lines are not the program's: `lib/` holds headers of FFmpeg and SDL, and
`库源码/` the sources of eXosip, osip, c-ares, mxml and jrtplib. The program's own code has about
3,800 lines, of which the models cover those that keep or change state. The share of all lines the
map covers is small for that reason and cannot be raised without modelling other people's
libraries, which are external here.

## 9. Plan

Done, in this order: RtpAssembly, VideoPipeline over FrameDisplay, InvitePlay, DeviceRegistry,
ServerLifecycle; then MainWindow, PsDemux and PsAssembly, MediaRouting; then the proofs, by now of
every invariant the runs check, of the refinement of FrameDisplay and of that of PsDemux.

Next, the model:

1. Md5Buffer and Digest: the block buffering of `MD5Update` against concatenation; the order of
   the fields in HA1 and the response.
2. Malformed requests: what the SIP thread does where a header or an XML element is missing.
3. Two cameras that send under one SSRC, as seen by jrtplib's session.

Next, the proofs: what of the above properties holds with weaker conditions, such as
`WindowShowsDeviceList` from the first moment after a restart at which the old signals are
delivered, and the order of the pictures on a network that reorders.
