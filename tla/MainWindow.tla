----------------------------- MODULE MainWindow -----------------------------
(***************************************************************************)
(* The main window: its device tree, the selected item, the buttons and    *)
(* the context menus, and the video windows of the channels.               *)
(*                                                                         *)
(* The SIP thread announces devices and their channels by signals that are *)
(* queued for the UI thread.  For every channel it shows, the UI thread    *)
(* makes a tree item with a video window, and makes that window the        *)
(* channel's event handle; the decoding thread of the channel, without a   *)
(* lock, tests the handle and then calls it.  An update deletes the        *)
(* children of a device and makes new ones, and a stop clears the tree.    *)
(*                                                                         *)
(* The server is taken as DeviceRegistry has it: a list of entries, which  *)
(* grows by a registration, and whose channels grow with the catalog; every*)
(* announcement carries a copy of the entry.  Tree items are numbered in   *)
(* the order they are made; one number stands for a ChannelTreeWidgetItem  *)
(* and its window.                                                         *)
(***************************************************************************)
EXTENDS Integers, Sequences

CONSTANTS
    Devices,
    MaxEntries,     \* bound: how many registrations one server handles
    MaxChannels,    \* bound: how many VideoChannel objects are made
    MaxUpdates,     \* bound: how many announcements of channels are sent
    MaxStops        \* bound: how often the user stops the server

ASSUME WindowAssumption ==
    /\ MaxEntries \in Nat /\ MaxChannels \in Nat
    /\ MaxUpdates \in Nat /\ MaxStops \in Nat

Channels == 1 .. MaxChannels

VARIABLES
    running,        \* mGB28181Server # nullptr
    entries,        \* mDeviceList of the running server
    made,           \* VideoChannel objects made so far
    signals,        \* Qt: signals queued for the UI thread
    tree,           \* the items of treeWidget with their children
    items,          \* tree items made so far
    live,           \* the video windows that exist
    handle,         \* mVideoChannelEventHandle of every channel
    slot,           \* the slot the UI thread is in
    todo,           \* the children this slot has still to delete or to make
    detached,       \* the destructor of Head(todo) has reset the handle
    selected,       \* mCurrentSelectedItem
    catlog, invite, \* pushButton_catlog and pushButton_invite are enabled
    menu,           \* the context menu that is open, or "none"
    call,           \* call[c]: the handle the decoding thread of c has tested
    crashed,        \* a null or dangling pointer was followed
    deleted,        \* history: the deletion of a tree item has begun
    updates, stops

serverVars == <<running, entries, made, updates, stops>>
treeVars   == <<tree, items, live, handle, slot, todo, detached, deleted>>
inputVars  == <<selected, catlog, invite, menu>>
elsewhere  == <<running, entries, made, updates, stops, selected, catlog, invite,
                menu, call, crashed>>    \* what the handling of signals leaves alone
vars == <<running, entries, made, signals, tree, items, live, handle, slot, todo,
          detached, selected, catlog, invite, menu, call, crashed, deleted, updates, stops>>

-----------------------------------------------------------------------------
Entries == [dev : Devices, list : Seq(Channels)]
Signals == [kind : {"registed", "update"}, node : Entries]

\* A ChannelTreeWidgetItem with its window, a DeviceTreeWidgetItem, and nullptr.
ChannelItems == [item : Nat \ {0}, channel : Channels]
DeviceItems == [item : Nat \ {0}, dev : Devices, children : Seq(ChannelItems)]
NoItem == [item |-> 0]

Selections ==
    [item : Nat \ {0}, kind : {"device", "channel"}] \union {[item |-> 0, kind |-> "none"]}
NoSelection == [item |-> 0, kind |-> "none"]

\* What a slot does with one child.
Works == [op : {"drop", "add"}, child : ChannelItems]

\* slotDeviceUpdate with the node it was called with and the index it has reached,
\* the clearing of the tree, or the event loop.
Idle == [in |-> "loop"]
Slots == {Idle, [in |-> "clear"]} \union [in : {"update"}, node : Entries, i : Nat \ {0}]

TypeOK ==
    /\ running \in BOOLEAN
    /\ entries \in Seq(Entries)
    /\ made \in 0 .. MaxChannels
    /\ signals \in Seq(Signals)
    /\ tree \in Seq(DeviceItems)
    /\ items \in Nat
    /\ live \subseteq ChannelItems
    /\ handle \in [Channels -> ChannelItems \union {NoItem}]
    /\ slot \in Slots
    /\ todo \in Seq(Works)
    /\ detached \in BOOLEAN
    /\ selected \in Selections
    /\ catlog \in BOOLEAN /\ invite \in BOOLEAN
    /\ menu \in {"none", "device", "channel"}
    /\ call \in [Channels -> ChannelItems \union {NoItem}]
    /\ crashed \in BOOLEAN /\ deleted \in BOOLEAN
    /\ updates \in Nat /\ stops \in Nat

Init ==
    /\ running = FALSE
    /\ entries = <<>>
    /\ made = 0
    /\ signals = <<>>
    /\ tree = <<>>
    /\ items = 0
    /\ live = {}
    /\ handle = [c \in Channels |-> NoItem]
    /\ slot = Idle
    /\ todo = <<>>
    /\ detached = FALSE
    /\ selected = NoSelection
    /\ catlog = FALSE /\ invite = FALSE
    /\ menu = "none"
    /\ call = [c \in Channels |-> NoItem]
    /\ crashed = FALSE /\ deleted = FALSE
    /\ updates = 0 /\ stops = 0

-----------------------------------------------------------------------------
(* The SIP thread.                                                         *)

Announce(kind, node) == signals' = Append(signals, [kind |-> kind, node |-> node])

\* A REGISTER with the right digest.
DeviceRegisted(d) ==
    /\ running /\ Len(entries) < MaxEntries
    /\ entries' = Append(entries, [dev |-> d, list |-> <<>>])
    /\ Announce("registed", [dev |-> d, list |-> <<>>])
    /\ UNCHANGED <<running, made, updates, stops, treeVars, inputVars, call, crashed>>

\* A catalog item reaches entry k, which may lack its channel and is announced.
DeviceUpdate(k, isNew) ==
    LET node == IF isNew THEN [dev |-> entries[k].dev, list |-> Append(entries[k].list, made + 1)]
                         ELSE entries[k]
    IN  /\ running /\ updates < MaxUpdates
        /\ isNew => made < MaxChannels
        /\ node.list # <<>>
        /\ entries' = [entries EXCEPT ![k] = node]
        /\ made' = IF isNew THEN made + 1 ELSE made
        /\ updates' = updates + 1
        /\ Announce("update", node)
        /\ UNCHANGED <<running, stops, treeVars, inputVars, call, crashed>>

SipThread ==
    \/ \E d \in Devices : DeviceRegisted(d)
    \/ \E k \in 1 .. Len(entries), isNew \in BOOLEAN : DeviceUpdate(k, isNew)

-----------------------------------------------------------------------------
(* The UI thread: slots for the queued signals.                            *)

EventLoop == slot = Idle /\ signals # <<>>

\* slotDeviceRegisted.
SlotDeviceRegisted ==
    /\ EventLoop /\ Head(signals).kind = "registed"
    /\ signals' = Tail(signals)
    /\ items' = items + 1
    /\ tree' = Append(tree, [item |-> items + 1, dev |-> Head(signals).node.dev,
                             children |-> <<>>])
    /\ UNCHANGED <<elsewhere, live, handle, slot, todo, detached, deleted>>

\* slotDeviceUpdate is called; its loop over the items follows.
SlotDeviceUpdate ==
    /\ EventLoop /\ Head(signals).kind = "update"
    /\ signals' = Tail(signals)
    /\ slot' = [in |-> "update", node |-> Head(signals).node, i |-> 1]
    /\ UNCHANGED <<elsewhere, tree, items, live, handle, todo, detached, deleted>>

\* Mutant of Rebuild: the new children are made before the old ones are deleted.
Rebuild_AddsFirst(old, new) ==
    [j \in 1 .. Len(new) |-> [op |-> "add", child |-> new[j]]]
    \o [j \in 1 .. Len(old) |-> [op |-> "drop", child |-> old[j]]]

Drops(children) == [j \in 1 .. Len(children) |-> [op |-> "drop", child |-> children[j]]]
Adds(children)  == [j \in 1 .. Len(children) |-> [op |-> "add", child |-> children[j]]]

\* What happens to the children of an item, in order.
Rebuild(old, new) == Drops(old) \o Adds(new)

\* The children made for the channels of a node, numbered on.
NewChildren(list) == [j \in 1 .. Len(list) |-> [item |-> items + j, channel |-> list[j]]]

\* Mutant: the comparison of the devices is missing.
IsSame_Any(deviceItem, node) == TRUE
\* CameraDevice::operator==
IsSame(deviceItem, node) == deviceItem.dev = node.dev

\* The loop reaches item slot.i: if it is the device of the node, its children are
\* deleted one by one, and new ones are made.
RebuildItem ==
    LET i == slot.i
        new == NewChildren(slot.node.list)
    IN  /\ slot.in = "update" /\ todo = <<>>
        /\ i <= Len(tree)
        /\ slot' = [in |-> "update", node |-> slot.node, i |-> i + 1]
        /\ IF IsSame(tree[i], slot.node)
           THEN /\ tree' = [tree EXCEPT ![i] = [item |-> tree[i].item, dev |-> tree[i].dev,
                                                children |-> new]]
                /\ items' = items + Len(new)
                /\ todo' = Rebuild(tree[i].children, new)
           ELSE UNCHANGED <<tree, items, todo>>
        /\ UNCHANGED <<elsewhere, signals, live, handle, detached, deleted>>

\* The last item is dealt with: the slot returns.
UpdateDone ==
    /\ slot.in = "update" /\ todo = <<>>
    /\ slot.i > Len(tree)
    /\ slot' = Idle
    /\ UNCHANGED <<elsewhere, signals, tree, items, live, handle, todo, detached, deleted>>

-----------------------------------------------------------------------------
(* The UI thread: one child.                                               *)

\* Mutant: an item that goes leaves the handle as it is.
Detach_Missing(c) == UNCHANGED handle
\* Mutant of AttachWindow: a channel that has a handle keeps it.
AttachWindow_KeepsOld(w) ==
    handle' = [handle EXCEPT ![w.channel] = IF @ = NoItem THEN w ELSE @]

\* ChannelTreeWidgetItem::~ChannelTreeWidgetItem, first statement.
Detach(c) == handle' = [handle EXCEPT ![c] = NoItem]

DetachHandle ==
    /\ todo # <<>> /\ Head(todo).op = "drop" /\ ~detached
    /\ Detach(Head(todo).child.channel)
    /\ detached' = TRUE
    /\ deleted' = TRUE
    /\ UNCHANGED <<elsewhere, signals, tree, items, live, slot, todo>>

\* delete mShowVideoWidget
DeleteWindow ==
    /\ todo # <<>> /\ Head(todo).op = "drop" /\ detached
    /\ live' = live \ {Head(todo).child}
    /\ detached' = FALSE
    /\ todo' = Tail(todo)
    /\ UNCHANGED <<elsewhere, signals, tree, items, handle, slot, deleted>>

\* mChannelNode->setEventHandle(mShowVideoWidget)
AttachWindow(w) == handle' = [handle EXCEPT ![w.channel] = w]

\* The constructor of ChannelTreeWidgetItem and setChannelNode.
SetChannelNode ==
    LET w == Head(todo).child
    IN  /\ todo # <<>> /\ Head(todo).op = "add"
        /\ live' = live \union {w}
        /\ AttachWindow(w)
        /\ todo' = Tail(todo)
        /\ UNCHANGED <<elsewhere, signals, tree, items, slot, detached, deleted>>

-----------------------------------------------------------------------------
(* The UI thread: start and stop.                                          *)

UserInput == slot = Idle /\ menu = "none"

ClickStart ==
    /\ UserInput /\ ~running
    /\ running' = TRUE
    /\ UNCHANGED <<entries, made, updates, stops, signals, treeVars, inputVars, call, crashed>>

\* The server is stopped and deleted; treeWidget->clear() follows.  The selection
\* and the two buttons stay as they are.
ClickStop ==
    /\ UserInput /\ running /\ stops < MaxStops
    /\ running' = FALSE
    /\ stops' = stops + 1
    /\ entries' = <<>>
    /\ slot' = [in |-> "clear"]
    /\ UNCHANGED <<made, updates, signals, tree, items, live, handle, todo, detached, deleted,
                   inputVars, call, crashed>>

\* clear() deletes the next item with its children, or is done.
ClearItem ==
    /\ slot.in = "clear" /\ todo = <<>>
    /\ tree # <<>>
    /\ tree' = Tail(tree)
    /\ deleted' = TRUE
    /\ todo' = Drops(Head(tree).children)
    /\ UNCHANGED <<elsewhere, signals, items, live, handle, slot, detached>>

ClearDone ==
    /\ slot.in = "clear" /\ todo = <<>>
    /\ tree = <<>>
    /\ slot' = Idle
    /\ UNCHANGED <<elsewhere, signals, tree, items, live, handle, todo, detached, deleted>>

-----------------------------------------------------------------------------
(* The UI thread: selection, menus and the two buttons.                    *)

\* The items the user sees.
ShownItems ==
    {[item |-> tree[i].item, kind |-> "device"] : i \in 1 .. Len(tree)}
    \union UNION {{[item |-> tree[i].children[j].item, kind |-> "channel"] :
                      j \in 1 .. Len(tree[i].children)} : i \in 1 .. Len(tree)}

\* Mutant: the button of the other kind stays as it was.
Buttons_OnlyOwn(kind) ==
    /\ catlog' = (catlog \/ kind = "device")
    /\ invite' = (invite \/ kind = "channel")
Buttons(kind) == catlog' = (kind = "device") /\ invite' = (kind = "channel")

\* slotItemClicked; with the right button it opens a menu, whose exec() runs the
\* event loop until the menu is closed.
SlotItemClicked(it, rightButton) ==
    /\ UserInput
    /\ selected' = it
    /\ Buttons(it.kind)
    /\ menu' = IF rightButton THEN it.kind ELSE "none"
    /\ UNCHANGED <<serverVars, signals, treeVars, call, crashed>>

\* The menu is closed, and for a channel the rest of slotItemClicked runs.
MenuReturns ==
    /\ slot = Idle /\ menu # "none"
    /\ menu' = "none"
    /\ IF menu = "channel" THEN Buttons("channel") ELSE UNCHANGED <<catlog, invite>>

MenuClosed ==
    /\ MenuReturns
    /\ UNCHANGED <<serverVars, signals, treeVars, selected, call, crashed>>

\* The selected item is cast to the kind the request is for, its node is read, and
\* the server sends the request: all three pointers have to be good.
Request(kind) ==
    crashed' = ~(running /\ selected \in ShownItems /\ selected.kind = kind)

\* The entry of the menu is chosen: slotActionTriggered forgets the selection.
SlotActionTriggered ==
    /\ MenuReturns
    /\ Request(menu)
    /\ selected' = NoSelection
    /\ UNCHANGED <<serverVars, signals, treeVars, call>>

ClickCatlog ==
    /\ UserInput /\ catlog
    /\ Request("device")
    /\ UNCHANGED <<serverVars, signals, treeVars, inputVars, call>>

ClickInvite ==
    /\ UserInput /\ invite
    /\ Request("channel")
    /\ UNCHANGED <<serverVars, signals, treeVars, inputVars, call>>

-----------------------------------------------------------------------------
(* The decoding thread of channel c, whenever it has a picture.            *)

TestHandle(c) ==
    /\ call[c] = NoItem /\ handle[c] # NoItem
    /\ call' = [call EXCEPT ![c] = handle[c]]
    /\ UNCHANGED <<serverVars, signals, treeVars, inputVars, crashed>>

\* The handle is called as it was when tested, or read once more, as the build has it.
OnDisPlayVideoData(c) ==
    /\ call[c] # NoItem
    /\ call' = [call EXCEPT ![c] = NoItem]
    /\ \E window \in {call[c], handle[c]} : crashed' = (window \notin live)
    /\ UNCHANGED <<serverVars, signals, treeVars, inputVars>>

-----------------------------------------------------------------------------
UiThread ==
    \/ SlotDeviceRegisted \/ SlotDeviceUpdate \/ RebuildItem \/ UpdateDone
    \/ DetachHandle \/ DeleteWindow \/ SetChannelNode
    \/ ClickStart \/ ClickStop \/ ClearItem \/ ClearDone
    \/ \E it \in ShownItems, rightButton \in BOOLEAN : SlotItemClicked(it, rightButton)
    \/ MenuClosed \/ SlotActionTriggered \/ ClickCatlog \/ ClickInvite

DecodingThread(c) == TestHandle(c) \/ OnDisPlayVideoData(c)

Next == ~crashed /\ (SipThread \/ UiThread \/ \E c \in Channels : DecodingThread(c))

Spec == Init /\ [][Next]_vars

-----------------------------------------------------------------------------
(* Properties.                                                             *)

\* The handle of a channel is a window that exists and was made for that channel, at
\* every moment the decoding thread may read it, also in the middle of a slot.
HandlesAreLive ==
    \A c \in Channels : handle[c] # NoItem => handle[c] \in live /\ handle[c].channel = c

\* Why: once the destructor of an item has come to its second statement, the handle of
\* the channel is another one.
DetachInv ==
    detached =>
        /\ todo # <<>> /\ Head(todo).op = "drop"
        /\ handle[Head(todo).child.channel] # Head(todo).child

\* The button that is enabled, or the menu that is open, is of the kind of the selected
\* item, so that the cast of mCurrentSelectedItem is right, whatever the event loop
\* inside a menu has done to the item.
ButtonsFitSelection ==
    /\ ~(catlog /\ invite)
    /\ selected # NoSelection =>
          /\ selected.kind = "device" => catlog
          /\ selected.kind = "channel" => invite
    /\ menu # "none" => selected.kind = menu

WindowInv == TypeOK /\ HandlesAreLive /\ DetachInv /\ ButtonsFitSelection

\* Between slots, the video of a channel that is shown goes to the last item that shows
\* it, although the items before it set and reset the same handle.
ShownIn(i, c) == \E j \in 1 .. Len(tree[i].children) : tree[i].children[j].channel = c
VideoGoesToLastItem ==
    slot = Idle =>
        \A i \in 1 .. Len(tree) : \A j \in 1 .. Len(tree[i].children) :
            LET w == tree[i].children[j]
            IN  (\A k \in i + 1 .. Len(tree) : ~ShownIn(k, w.channel))
                    => handle[w.channel] = w

\* Once the window has worked off its signals, every channel of a device that is listed
\* once has a window, whatever items earlier servers and signals have left behind.
ChannelsHaveWindows ==
    running /\ signals = <<>> /\ slot = Idle =>
        \A k \in 1 .. Len(entries) :
            (\A l \in 1 .. Len(entries) : entries[l].dev = entries[k].dev => l = k) =>
                \A j \in 1 .. Len(entries[k].list) : handle[entries[k].list[j]] \in live

\* The window follows a null or dangling pointer only if an item has been deleted, the
\* server was stopped, or the menu was used and one of the buttons clicked after it.
CrashExplained ==
    crashed => deleted \/ stops > 0 \/ selected = NoSelection

\* Why: as long as no item has been deleted, a tested handle is still good, and the
\* selected item is still in the tree unless its deletion is the next thing to come; as
\* long as the server has not been stopped, whatever can be selected has one.
NoDanglingCall ==
    \A c \in Channels : call[c] # NoItem => call[c] \in live /\ handle[c] # NoItem
AboutToDrop == todo # <<>> /\ Head(todo).op = "drop"
QuietInv ==
    /\ detached => deleted
    /\ slot = Idle => todo = <<>>
    /\ ~deleted => NoDanglingCall
    /\ ~deleted /\ selected # NoSelection => selected \in ShownItems \/ AboutToDrop
    /\ stops = 0 /\ (signals # <<>> \/ tree # <<>> \/ selected # NoSelection) => running
=============================================================================
