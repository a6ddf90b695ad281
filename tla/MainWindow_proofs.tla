------------------------- MODULE MainWindow_proofs -------------------------
(***************************************************************************)
(* What holds of the main window for every set of devices and every bound. *)
(*                                                                         *)
(* WindowInv: no handle ever points to a window that is gone or belongs to *)
(* another channel, and no button is enabled for an item of the wrong kind.*)
(* QuietInv: what has to happen before a bad pointer is followed.          *)
(* VideoInv: which of the items that show a channel gets its video.        *)
(* AnnouncedInv: an announcement leads to a window for every channel.      *)
(***************************************************************************)
EXTENDS MainWindow, SequenceTheorems, TLAPS

\* The children of an item, and the work on them, are well typed.
LEMMA NewChildrenType ==
    ASSUME TypeOK, NEW list \in Seq(Channels)
    PROVE  NewChildren(list) \in Seq(ChannelItems) /\ Len(NewChildren(list)) = Len(list)
<1>1. Len(list) \in Nat /\ \A j \in 1 .. Len(list) : list[j] \in Channels
  OBVIOUS
<1>2. \A j \in 1 .. Len(list) :
          [item |-> items + j, channel |-> list[j]] \in ChannelItems
  BY <1>1 DEF TypeOK, ChannelItems
<1> QED
  BY <1>1, <1>2 DEF NewChildren

LEMMA RebuildType ==
    ASSUME NEW old \in Seq(ChannelItems), NEW new \in Seq(ChannelItems)
    PROVE  /\ Rebuild(old, new) \in Seq(Works)
           /\ Drops(old) \in Seq(Works)
<1>1. Drops(old) \in Seq(Works)
  BY DEF Drops, Works
<1>2. Adds(new) \in Seq(Works)
  BY DEF Adds, Works
<1> QED
  BY <1>1, <1>2 DEF Rebuild

LEMMA InitWindowInv == Init => WindowInv
<1> SUFFICES ASSUME Init PROVE WindowInv
  OBVIOUS
<1>1. TypeOK
  <2>1. slot \in Slots
    BY DEF Init, Slots
  <2>2. selected \in Selections
    BY DEF Init, NoSelection, Selections
  <2>3. made \in 0 .. MaxChannels /\ items \in Nat /\ updates \in Nat /\ stops \in Nat
    BY WindowAssumption DEF Init, WindowAssumption
  <2>4. /\ entries \in Seq(Entries) /\ signals \in Seq(Signals)
        /\ tree \in Seq(DeviceItems) /\ todo \in Seq(Works)
    BY DEF Init
  <2>5. handle \in [Channels -> ChannelItems \union {NoItem}] /\ call = handle
    BY DEF Init
  <2> QED BY <2>1, <2>2, <2>3, <2>4, <2>5 DEF Init, TypeOK
<1>2. HandlesAreLive
  BY DEF Init, HandlesAreLive
<1>3. DetachInv /\ ButtonsFitSelection
  BY DEF Init, DetachInv, ButtonsFitSelection
<1> QED
  BY <1>1, <1>2, <1>3 DEF WindowInv

-----------------------------------------------------------------------------
\* The work a slot takes up next, and what is left of it.
LEMMA HeadOfWork ==
    ASSUME TypeOK, todo # <<>>
    PROVE  /\ Head(todo) \in Works /\ Tail(todo) \in Seq(Works)
           /\ Head(todo).child \in ChannelItems /\ Head(todo).child.channel \in Channels
           /\ Head(todo).child # NoItem
<1>1. Head(todo) \in Works /\ Tail(todo) \in Seq(Works)
  BY HeadTailProperties DEF TypeOK
<1>2. Head(todo).child \in ChannelItems
  BY <1>1 DEF Works
<1>3. Head(todo).child.channel \in Channels /\ Head(todo).child # NoItem
  BY <1>2 DEF ChannelItems, NoItem
<1> QED
  BY <1>1, <1>2, <1>3

\* The signal delivered next, and those that stay queued.
LEMMA HeadOfSignals ==
    ASSUME TypeOK, signals # <<>>
    PROVE  /\ Tail(signals) \in Seq(Signals)
           /\ Head(signals).node \in Entries
<1>1. Head(signals) \in Signals /\ Tail(signals) \in Seq(Signals)
  BY HeadTailProperties DEF TypeOK
<1> QED
  BY <1>1 DEF Signals

\* What the user can click on is an item of one of the two kinds.
LEMMA ShownItemsType ==
    ASSUME TypeOK, NEW it \in ShownItems
    PROVE  it \in Selections /\ it.kind \in {"device", "channel"}
<1>1. ASSUME NEW i \in 1 .. Len(tree), it = [item |-> tree[i].item, kind |-> "device"]
      PROVE  it \in Selections /\ it.kind \in {"device", "channel"}
  <2>1. tree[i] \in DeviceItems
    BY DEF TypeOK
  <2> QED BY <1>1, <2>1 DEF DeviceItems, Selections
<1>2. ASSUME NEW i \in 1 .. Len(tree), NEW j \in 1 .. Len(tree[i].children),
             it = [item |-> tree[i].children[j].item, kind |-> "channel"]
      PROVE  it \in Selections /\ it.kind \in {"device", "channel"}
  <2>1. tree[i] \in DeviceItems
    BY DEF TypeOK
  <2>2. tree[i].children[j] \in ChannelItems
    BY <2>1 DEF DeviceItems
  <2> QED BY <1>2, <2>2 DEF ChannelItems, Selections
<1> QED
  BY <1>1, <1>2 DEF ShownItems

-----------------------------------------------------------------------------
\* Type correctness, step by step.
LEMMA SipThreadKeepsType == TypeOK /\ SipThread => TypeOK'
<1> SUFFICES ASSUME TypeOK, SipThread PROVE TypeOK'
  OBVIOUS
<1> USE DEF TypeOK, treeVars, inputVars
<1>1. ASSUME NEW d \in Devices, DeviceRegisted(d) PROVE TypeOK'
  <2>1. [dev |-> d, list |-> <<>>] \in Entries
    BY DEF Entries
  <2>2. /\ entries' = Append(entries, [dev |-> d, list |-> <<>>])
        /\ signals' = Append(signals, [kind |-> "registed",
                                       node |-> [dev |-> d, list |-> <<>>]])
    BY <1>1 DEF DeviceRegisted, Announce
  <2>3. entries' \in Seq(Entries)
    BY <2>1, <2>2, AppendProperties
  <2>4. signals' \in Seq(Signals)
    BY <2>1, <2>2, AppendProperties DEF Signals
  <2> QED BY <1>1, <2>3, <2>4 DEF DeviceRegisted
<1>2. ASSUME NEW k \in 1 .. Len(entries), NEW isNew \in BOOLEAN, DeviceUpdate(k, isNew)
      PROVE  TypeOK'
  <2> DEFINE node == IF isNew THEN [dev |-> entries[k].dev, list |-> Append(entries[k].list, made + 1)]
                              ELSE entries[k]
  <2>0. /\ made' = (IF isNew THEN made + 1 ELSE made) /\ updates' = updates + 1
        /\ isNew => made < MaxChannels
    BY <1>2 DEF DeviceUpdate
  <2>1. made' \in 0 .. MaxChannels /\ updates' \in Nat
    <3>1. made \in 0 .. MaxChannels /\ updates \in Nat /\ MaxChannels \in Nat
      BY WindowAssumption DEF WindowAssumption
    <3> HIDE DEF TypeOK
    <3> QED BY <2>0, <3>1
  <2>2. entries[k] \in Entries
    OBVIOUS
  <2>3. node \in Entries
    <3>1. CASE isNew
      <4>1. made + 1 \in Channels
        <5>1. made \in 0 .. MaxChannels /\ MaxChannels \in Nat
          BY WindowAssumption DEF WindowAssumption
        <5> HIDE DEF TypeOK
        <5> QED BY <2>0, <3>1, <5>1 DEF Channels
      <4>2. Append(entries[k].list, made + 1) \in Seq(Channels)
        BY <2>2, <4>1, AppendProperties DEF Entries
      <4> QED BY <2>2, <3>1, <4>2 DEF Entries
    <3>2. CASE ~isNew
      BY <2>2, <3>2
    <3> QED BY <3>1, <3>2
  <2>4. entries' = [entries EXCEPT ![k] = node]
    BY <1>2 DEF DeviceUpdate
  <2>5. entries' \in Seq(Entries)
    BY <2>3, <2>4, ExceptSeq
  <2>6. signals' = Append(signals, [kind |-> "update", node |-> node])
    BY <1>2 DEF DeviceUpdate, Announce
  <2>7. signals' \in Seq(Signals)
    <3>1. [kind |-> "update", node |-> node] \in Signals
      BY <2>3 DEF Signals
    <3> HIDE DEF node
    <3> QED BY <2>6, <3>1, AppendProperties
  <2> QED BY <1>2, <2>1, <2>5, <2>7 DEF DeviceUpdate
<1> QED BY <1>1, <1>2 DEF SipThread

LEMMA SlotsKeepType ==
    ASSUME TypeOK,
           SlotDeviceRegisted \/ SlotDeviceUpdate \/ RebuildItem \/ UpdateDone
    PROVE  TypeOK'
<1> USE DEF TypeOK, elsewhere
<1>1. CASE SlotDeviceRegisted
  <2> DEFINE it == [item |-> items + 1, dev |-> Head(signals).node.dev, children |-> <<>>]
  <2>1. Tail(signals) \in Seq(Signals) /\ Head(signals).node \in Entries
    BY <1>1, HeadOfSignals DEF SlotDeviceRegisted, EventLoop
  <2>2. it \in DeviceItems
    BY <2>1 DEF DeviceItems, Entries
  <2>3. tree' = Append(tree, it)
    BY <1>1 DEF SlotDeviceRegisted
  <2>4. tree' \in Seq(DeviceItems)
    <3> HIDE DEF it
    <3> QED BY <2>2, <2>3, AppendProperties
  <2>5. items' \in Nat
    BY <1>1 DEF SlotDeviceRegisted
  <2> QED BY <1>1, <2>1, <2>4, <2>5 DEF SlotDeviceRegisted
<1>2. CASE SlotDeviceUpdate
  <2>1. Tail(signals) \in Seq(Signals) /\ Head(signals).node \in Entries
    BY <1>2, HeadOfSignals DEF SlotDeviceUpdate, EventLoop
  <2>2. slot' \in Slots
    BY <1>2, <2>1 DEF SlotDeviceUpdate, Slots
  <2> QED BY <1>2, <2>1, <2>2 DEF SlotDeviceUpdate
<1>3. CASE RebuildItem
  <2> DEFINE new == NewChildren(slot.node.list)
  <2>1. slot \in [in : {"update"}, node : Entries, i : Nat \ {0}]
    BY <1>3 DEF RebuildItem, Slots, Idle
  <2> HIDE DEF TypeOK
  <2>2. slot' \in Slots
    BY <1>3, <2>1 DEF RebuildItem, Slots
  <2> USE DEF TypeOK
  <2>3. new \in Seq(ChannelItems) /\ Len(new) \in Nat
    BY <2>1, NewChildrenType, LenProperties DEF Entries
  <2> HIDE DEF new
  <2>4. CASE UNCHANGED <<tree, items, todo>>
    <3>1. UNCHANGED <<elsewhere, signals, live, handle, detached, deleted>>
      BY <1>3 DEF RebuildItem
    <3> QED BY <2>2, <2>4, <3>1
  <2>5. CASE /\ slot.i <= Len(tree)
             /\ tree' = [tree EXCEPT ![slot.i] = [item |-> tree[slot.i].item,
                                              dev |-> tree[slot.i].dev, children |-> new]]
             /\ items' = items + Len(new)
             /\ todo' = Rebuild(tree[slot.i].children, new)
    <3>1. slot.i \in 1 .. Len(tree)
      BY <2>1, <2>5
    <3>2. tree[slot.i] \in DeviceItems
      BY <3>1
    <3>3. [item |-> tree[slot.i].item, dev |-> tree[slot.i].dev, children |-> new] \in DeviceItems
      BY <2>3, <3>2 DEF DeviceItems
    <3>4. tree' \in Seq(DeviceItems)
      BY <2>5, <3>1, <3>3, ExceptSeq
    <3>5. todo' \in Seq(Works)
      BY <2>3, <2>5, <3>2, RebuildType DEF DeviceItems
    <3>6. items' \in Nat
      BY <2>3, <2>5
    <3> QED BY <1>3, <2>2, <3>4, <3>5, <3>6 DEF RebuildItem
  <2> QED BY <1>3, <2>4, <2>5 DEF RebuildItem, new
<1>4. CASE UpdateDone
  <2>1. slot' \in Slots
    BY <1>4 DEF UpdateDone, Slots
  <2> QED BY <1>4, <2>1 DEF UpdateDone
<1> QED BY <1>1, <1>2, <1>3, <1>4

LEMMA ChildrenKeepType ==
    ASSUME TypeOK, DetachHandle \/ DeleteWindow \/ SetChannelNode
    PROVE  TypeOK'
<1>1. todo # <<>>
  BY DEF DetachHandle, DeleteWindow, SetChannelNode
<1>2. /\ Tail(todo) \in Seq(Works)
      /\ Head(todo).child \in ChannelItems /\ Head(todo).child.channel \in Channels
  BY <1>1, HeadOfWork
<1> USE DEF TypeOK, elsewhere
<1>3. CASE DetachHandle
  BY <1>2, <1>3 DEF DetachHandle, Detach
<1>4. CASE DeleteWindow
  BY <1>2, <1>4 DEF DeleteWindow
<1>5. CASE SetChannelNode
  BY <1>2, <1>5 DEF SetChannelNode, AttachWindow
<1> QED BY <1>3, <1>4, <1>5

LEMMA ButtonsType ==
    ASSUME NEW kind, Buttons(kind)
    PROVE  catlog' \in BOOLEAN /\ invite' \in BOOLEAN
BY DEF Buttons

LEMMA StartStopKeepsType ==
    ASSUME TypeOK, ClickStart \/ ClickStop \/ ClearItem \/ ClearDone
    PROVE  TypeOK'
<1> USE DEF TypeOK, elsewhere, treeVars, inputVars
<1>1. CASE ClickStart
  BY <1>1 DEF ClickStart
<1>2. CASE ClickStop
  <2>1. slot' \in Slots /\ entries' \in Seq(Entries)
    BY <1>2 DEF ClickStop, Slots
  <2>2. /\ running' = FALSE /\ stops' = stops + 1
        /\ UNCHANGED <<made, updates, signals, tree, items, live, handle, todo, detached,
                       deleted, inputVars, call, crashed>>
    BY <1>2 DEF ClickStop
  <2>3. stops' \in Nat
    BY <2>2
  <2> QED BY <2>1, <2>2, <2>3
<1>3. CASE ClearItem
  <2>1. Head(tree) \in DeviceItems /\ Tail(tree) \in Seq(DeviceItems)
    BY <1>3, HeadTailProperties DEF ClearItem
  <2>2. todo' \in Seq(Works)
    BY <1>3, <2>1, RebuildType DEF ClearItem, DeviceItems
  <2> QED BY <1>3, <2>1, <2>2 DEF ClearItem
<1>4. CASE ClearDone
  <2>1. slot' \in Slots
    BY <1>4 DEF ClearDone, Slots
  <2> QED BY <1>4, <2>1 DEF ClearDone
<1> QED BY <1>1, <1>2, <1>3, <1>4

LEMMA InputKeepsType ==
    ASSUME TypeOK,
           \/ \E it \in ShownItems, rightButton \in BOOLEAN : SlotItemClicked(it, rightButton)
           \/ MenuClosed \/ SlotActionTriggered \/ ClickCatlog \/ ClickInvite
           \/ \E c \in Channels : DecodingThread(c)
    PROVE  TypeOK'
<1> USE DEF TypeOK, serverVars, treeVars, inputVars
<1>1. ASSUME NEW it \in ShownItems, NEW rightButton \in BOOLEAN,
             SlotItemClicked(it, rightButton)
      PROVE  TypeOK'
  <2>1. it \in Selections /\ it.kind \in {"device", "channel"}
    BY ShownItemsType
  <2>2. catlog' \in BOOLEAN /\ invite' \in BOOLEAN
    BY <1>1, ButtonsType DEF SlotItemClicked
  <2>3. menu' \in {"none", "device", "channel"}
    BY <1>1, <2>1 DEF SlotItemClicked
  <2> QED BY <1>1, <2>1, <2>2, <2>3 DEF SlotItemClicked
<1>2. ASSUME MenuReturns PROVE menu' = "none" /\ catlog' \in BOOLEAN /\ invite' \in BOOLEAN
  <2>1. CASE menu = "channel"
    BY <1>2, <2>1, ButtonsType DEF MenuReturns
  <2>2. CASE menu # "channel"
    BY <1>2, <2>2 DEF MenuReturns
  <2> QED BY <1>2, <2>1, <2>2 DEF MenuReturns
<1>3. CASE MenuClosed
  BY <1>2, <1>3 DEF MenuClosed
<1>4. CASE SlotActionTriggered
  <2>1. selected' \in Selections
    BY <1>4 DEF SlotActionTriggered, Selections, NoSelection
  <2>2. crashed' \in BOOLEAN
    BY <1>4 DEF SlotActionTriggered, Request
  <2> QED BY <1>2, <1>4, <2>1, <2>2 DEF SlotActionTriggered
<1>5. CASE ClickCatlog
  BY <1>5 DEF ClickCatlog, Request
<1>6. CASE ClickInvite
  BY <1>6 DEF ClickInvite, Request
<1>7. ASSUME NEW c \in Channels, DecodingThread(c) PROVE TypeOK'
  <2>1. CASE TestHandle(c)
    BY <2>1 DEF TestHandle
  <2>2. CASE OnDisPlayVideoData(c)
    <3>1. crashed' \in BOOLEAN
      BY <2>2 DEF OnDisPlayVideoData
    <3> QED BY <2>2, <3>1 DEF OnDisPlayVideoData
  <2> QED BY <1>7, <2>1, <2>2 DEF DecodingThread
<1> QED BY <1>1, <1>3, <1>4, <1>5, <1>6, <1>7

LEMMA TypeInductive == TypeOK /\ [Next]_vars => TypeOK'
<1> SUFFICES ASSUME TypeOK, [Next]_vars PROVE TypeOK'
  OBVIOUS
<1>1. CASE Next
  BY <1>1, SipThreadKeepsType, SlotsKeepType, ChildrenKeepType, StartStopKeepsType,
     InputKeepsType DEF Next, UiThread
<1>2. CASE UNCHANGED vars
  BY <1>2 DEF vars, TypeOK
<1> QED BY <1>1, <1>2

-----------------------------------------------------------------------------
\* The handles: only the work on a child and the decoding threads come near them.
LEMMA HandlesInductive ==
    ASSUME TypeOK, HandlesAreLive, DetachInv, [Next]_vars
    PROVE  HandlesAreLive' /\ DetachInv'
<1>1. CASE DetachHandle
  <2>1. Head(todo).child # NoItem /\ Head(todo).child.channel \in Channels
    BY <1>1, HeadOfWork DEF DetachHandle
  <2> QED BY <1>1, <2>1 DEF DetachHandle, Detach, elsewhere, HandlesAreLive, DetachInv, TypeOK
<1>2. CASE DeleteWindow
  <2>1. ASSUME NEW c \in Channels, handle[c] # NoItem PROVE handle[c] # Head(todo).child
    BY <1>2, <2>1 DEF DeleteWindow, HandlesAreLive, DetachInv
  <2> QED BY <1>2, <2>1 DEF DeleteWindow, HandlesAreLive, DetachInv
<1>3. CASE SetChannelNode
  <2>1. ~detached
    BY <1>3 DEF SetChannelNode, DetachInv
  <2>2. Head(todo).child.channel \in Channels
    BY <1>3, HeadOfWork DEF SetChannelNode
  <2> QED BY <1>3, <2>1, <2>2 DEF SetChannelNode, AttachWindow, HandlesAreLive, DetachInv, TypeOK
<1>4. CASE UNCHANGED <<live, handle, detached>> /\ (detached => UNCHANGED todo)
  BY <1>4 DEF HandlesAreLive, DetachInv
<1>5. ASSUME RebuildItem \/ ClearItem PROVE ~detached
  BY <1>5 DEF RebuildItem, ClearItem, DetachInv
<1>6. DetachHandle \/ DeleteWindow \/ SetChannelNode
         \/ (UNCHANGED <<live, handle, detached>> /\ (detached => UNCHANGED todo))
  BY <1>5 DEF Next, vars, SipThread, DeviceRegisted, DeviceUpdate, UiThread,
       SlotDeviceRegisted, SlotDeviceUpdate, RebuildItem, UpdateDone, ClickStart, ClickStop,
       ClearItem, ClearDone, SlotItemClicked, MenuClosed, SlotActionTriggered, ClickCatlog,
       ClickInvite, DecodingThread, TestHandle, OnDisPlayVideoData, treeVars
<1> QED BY <1>1, <1>2, <1>3, <1>4, <1>6

\* The buttons and menus: only the user's clicks come near them.
LEMMA ButtonsInductive ==
    ASSUME TypeOK, ButtonsFitSelection, [Next]_vars
    PROVE  ButtonsFitSelection'
<1>1. ASSUME NEW it \in ShownItems, NEW rightButton \in BOOLEAN,
             SlotItemClicked(it, rightButton)
      PROVE  ButtonsFitSelection'
  <2>1. it.kind \in {"device", "channel"}
    BY ShownItemsType
  <2> QED BY <1>1, <2>1 DEF SlotItemClicked, Buttons, ButtonsFitSelection
<1>2. CASE MenuClosed
  BY <1>2 DEF MenuClosed, MenuReturns, Buttons, ButtonsFitSelection
<1>3. CASE SlotActionTriggered
  BY <1>3 DEF SlotActionTriggered, MenuReturns, Buttons, ButtonsFitSelection, NoSelection
<1>4. CASE UNCHANGED inputVars
  BY <1>4 DEF inputVars, ButtonsFitSelection
<1>5. \/ \E it \in ShownItems, rightButton \in BOOLEAN : SlotItemClicked(it, rightButton)
      \/ MenuClosed \/ SlotActionTriggered \/ UNCHANGED inputVars
  BY DEF Next, vars, SipThread, DeviceRegisted, DeviceUpdate, UiThread,
       SlotDeviceRegisted, SlotDeviceUpdate, RebuildItem, UpdateDone, ClickStart, ClickStop,
       ClearItem, ClearDone, ClickCatlog, ClickInvite, DecodingThread, TestHandle,
       OnDisPlayVideoData, DetachHandle, DeleteWindow, SetChannelNode, elsewhere, inputVars
<1> QED BY <1>1, <1>2, <1>3, <1>4, <1>5

\* WindowInv is an invariant of the main window, whatever the cameras announce, the
\* user clicks on and the decoding threads do.
THEOREM WindowIsInvariant == Spec => []WindowInv
<1>1. WindowInv /\ [Next]_vars => WindowInv'
  BY TypeInductive, HandlesInductive, ButtonsInductive DEF WindowInv
<1> QED BY <1>1, InitWindowInv, PTL DEF Spec

\* The handle of a channel is at every moment nullptr or a window of that channel that
\* exists: setEventHandle and the two statements of the destructor are in the right order.
THEOREM HandlesAreSafe == Spec => []HandlesAreLive
<1>1. WindowInv => HandlesAreLive
  BY DEF WindowInv
<1> QED BY <1>1, WindowIsInvariant, PTL

\* The cast a button or a menu entry makes of the selected item is of the right kind.
THEOREM CastsAreSafe == Spec => []ButtonsFitSelection
<1>1. WindowInv => ButtonsFitSelection
  BY DEF WindowInv
<1> QED BY <1>1, WindowIsInvariant, PTL

-----------------------------------------------------------------------------
\* An item that is shown stays shown when another one is added at the end.
LEMMA ShownAfterAppend ==
    ASSUME TypeOK, SlotDeviceRegisted, NEW it \in ShownItems
    PROVE  it \in ShownItems'
<1> DEFINE new == [item |-> items + 1, dev |-> Head(signals).node.dev, children |-> <<>>]
<1>1. tree' = Append(tree, new)
  BY DEF SlotDeviceRegisted
<1>2. Head(signals).node \in Entries
  BY HeadOfSignals DEF SlotDeviceRegisted, EventLoop
<1>3. new \in DeviceItems
  BY <1>2 DEF TypeOK, DeviceItems, Entries
<1> HIDE DEF new
<1>4. /\ Len(tree) \in Nat /\ Len(tree') = Len(tree) + 1
      /\ \A i \in 1 .. Len(tree) : tree'[i] = tree[i]
  BY <1>1, <1>3, AppendProperties DEF TypeOK
<1>5. \A i \in 1 .. Len(tree) : i \in 1 .. Len(tree')
  BY <1>4
<1> QED BY <1>4, <1>5 DEF ShownItems

\* A child that is shown when the loop rebuilds its device is about to be deleted, or it
\* is a child of another device.
LEMMA ShownAfterRebuild ==
    ASSUME TypeOK, RebuildItem, NEW it \in ShownItems
    PROVE  it \in ShownItems' \/ AboutToDrop'
<1> DEFINE k == slot.i
           new == NewChildren(slot.node.list)
<1>1. CASE UNCHANGED tree
  BY <1>1 DEF ShownItems
<1>2. CASE ~(UNCHANGED tree)
  <2>1. /\ k <= Len(tree)
        /\ tree' = [tree EXCEPT ![k] = [item |-> tree[k].item, dev |-> tree[k].dev,
                                        children |-> new]]
        /\ todo' = Rebuild(tree[k].children, new)
    BY <1>2 DEF RebuildItem
  <2>2. slot \in [in : {"update"}, node : Entries, i : Nat \ {0}]
    BY DEF RebuildItem, TypeOK, Slots, Idle
  <2>3. k \in 1 .. Len(tree) /\ tree \in Seq(DeviceItems)
    BY <2>1, <2>2 DEF TypeOK
  <2>4. tree[k] \in DeviceItems
    BY <2>3
  <2>5. new \in Seq(ChannelItems)
    BY <2>2, NewChildrenType DEF Entries
  <2> HIDE DEF new, k
  <2>6. /\ Len(tree') = Len(tree)
        /\ \A i \in 1 .. Len(tree) : i # k => tree'[i] = tree[i]
        /\ tree'[k].item = tree[k].item
    BY <2>1, <2>3
  <2>7. CASE tree[k].children # <<>>
    <3>1. tree[k].children \in Seq(ChannelItems)
      BY <2>4 DEF DeviceItems
    <3>2. /\ Drops(tree[k].children) \in Seq(Works)
          /\ Drops(tree[k].children) # <<>>
          /\ Drops(tree[k].children)[1].op = "drop"
      <4>1. Len(tree[k].children) \in Nat /\ Len(tree[k].children) # 0
        BY <2>7, <3>1, EmptySeq
      <4> QED BY <3>1, <4>1, RebuildType DEF Drops
    <3>3. Adds(new) \in Seq(Works)
      BY <2>5 DEF Adds, Works
    <3>4. todo' # <<>> /\ Head(todo') = Drops(tree[k].children)[1]
      <4>1. todo' = Drops(tree[k].children) \o Adds(new)
        BY <2>1 DEF Rebuild
      <4> HIDE <2>1
      <4> QED BY <3>2, <3>3, <4>1
    <3> QED BY <3>2, <3>4 DEF AboutToDrop
  <2>8. CASE tree[k].children = <<>>
    <3>1. ASSUME NEW i \in 1 .. Len(tree), it = [item |-> tree[i].item, kind |-> "device"]
          PROVE  it \in ShownItems'
      <4>1. it = [item |-> tree'[i].item, kind |-> "device"] /\ i \in 1 .. Len(tree')
        BY <2>6, <3>1
      <4> QED BY <4>1 DEF ShownItems
    <3>2. ASSUME NEW i \in 1 .. Len(tree), NEW j \in 1 .. Len(tree[i].children),
                 it = [item |-> tree[i].children[j].item, kind |-> "channel"]
          PROVE  it \in ShownItems'
      <4>1. i # k
        BY <2>8, <3>2, EmptySeq
      <4>2. tree'[i] = tree[i] /\ i \in 1 .. Len(tree')
        BY <2>6, <4>1
      <4> QED BY <3>2, <4>2 DEF ShownItems
    <3> QED BY <3>1, <3>2 DEF ShownItems
  <2> QED BY <2>7, <2>8
<1> QED BY <1>1, <1>2

\* The first two parts of QuietInv: a deletion is remembered, and a slot returns only
\* when its work is done.
LEMMA WorkInductive ==
    ASSUME TypeOK, QuietInv, DetachInv, [Next]_vars
    PROVE  (detached' => deleted') /\ (slot' = Idle => todo' = <<>>)
<1>1. CASE DetachHandle
  BY <1>1 DEF DetachHandle, elsewhere, QuietInv
<1>2. CASE DeleteWindow
  BY <1>2 DEF DeleteWindow, elsewhere, QuietInv
<1>3. CASE SetChannelNode
  BY <1>3 DEF SetChannelNode, elsewhere, QuietInv
<1>4. CASE RebuildItem
  BY <1>4 DEF RebuildItem, elsewhere, QuietInv, Idle
<1>5. CASE ClearItem
  BY <1>5 DEF ClearItem, elsewhere, QuietInv, Idle, DetachInv
<1>6. CASE UNCHANGED <<detached, deleted, todo>> /\ (slot' = Idle => slot = Idle \/ todo = <<>>)
  BY <1>6 DEF QuietInv
<1>7. CASE SlotDeviceUpdate \/ UpdateDone \/ ClickStop \/ ClearDone
  BY <1>6, <1>7 DEF SlotDeviceUpdate, UpdateDone, ClickStop, ClearDone, EventLoop, UserInput
<1>8. \/ DetachHandle \/ DeleteWindow \/ SetChannelNode \/ RebuildItem \/ ClearItem
      \/ SlotDeviceUpdate \/ UpdateDone \/ ClickStop \/ ClearDone
      \/ UNCHANGED <<detached, deleted, todo, slot>>
  BY DEF Next, vars, SipThread, DeviceRegisted, DeviceUpdate, UiThread,
       SlotDeviceRegisted, ClickStart, SlotItemClicked, MenuClosed, SlotActionTriggered,
       ClickCatlog, ClickInvite, DecodingThread, TestHandle, OnDisPlayVideoData, treeVars
<1> QED BY <1>1, <1>2, <1>3, <1>4, <1>5, <1>6, <1>7, <1>8

\* Handles that were tested stay good as long as nothing is deleted.
LEMMA CallsInductive ==
    ASSUME TypeOK, HandlesAreLive, DetachInv, QuietInv, [Next]_vars, ~deleted'
    PROVE  NoDanglingCall'
<1>1. ~deleted /\ ~DetachHandle /\ ~DeleteWindow
  BY DEF Next, vars, SipThread, DeviceRegisted, DeviceUpdate, UiThread,
       SlotDeviceRegisted, SlotDeviceUpdate, RebuildItem, UpdateDone, ClickStart, ClickStop,
       ClearItem, ClearDone, SlotItemClicked, MenuClosed, SlotActionTriggered, ClickCatlog,
       ClickInvite, DecodingThread, TestHandle, OnDisPlayVideoData, treeVars,
       DetachHandle, DeleteWindow, SetChannelNode, QuietInv
<1>2. NoDanglingCall
  BY <1>1 DEF QuietInv
<1>3. CASE SetChannelNode
  <2>1. Head(todo).child # NoItem /\ Head(todo).child.channel \in Channels
    BY <1>3, HeadOfWork DEF SetChannelNode
  <2> QED BY <1>2, <1>3, <2>1 DEF SetChannelNode, AttachWindow, elsewhere, NoDanglingCall, TypeOK
<1>4. ASSUME NEW c \in Channels, DecodingThread(c) PROVE NoDanglingCall'
  BY <1>2, <1>4 DEF DecodingThread, TestHandle, OnDisPlayVideoData, treeVars,
       NoDanglingCall, HandlesAreLive, TypeOK
<1>5. CASE UNCHANGED <<call, live, handle>>
  BY <1>2, <1>5 DEF NoDanglingCall
<1>6. \/ SetChannelNode \/ \E c \in Channels : DecodingThread(c)
      \/ UNCHANGED <<call, live, handle>>
  BY <1>1 DEF Next, vars, SipThread, DeviceRegisted, DeviceUpdate, UiThread,
       SlotDeviceRegisted, SlotDeviceUpdate, RebuildItem, UpdateDone, ClickStart, ClickStop,
       ClearItem, ClearDone, SlotItemClicked, MenuClosed, SlotActionTriggered, ClickCatlog,
       ClickInvite, treeVars, elsewhere
<1> QED BY <1>3, <1>4, <1>5, <1>6

\* The selected item stays in the tree until the deletion of items begins.
LEMMA SelectionInductive ==
    ASSUME TypeOK, QuietInv, [Next]_vars, ~deleted', selected' # NoSelection
    PROVE  selected' \in ShownItems' \/ AboutToDrop'
<1>1. ~deleted /\ ~DetachHandle /\ ~DeleteWindow /\ ~ClearItem
  BY DEF Next, vars, SipThread, DeviceRegisted, DeviceUpdate, UiThread,
       SlotDeviceRegisted, SlotDeviceUpdate, RebuildItem, UpdateDone, ClickStart, ClickStop,
       ClearItem, ClearDone, SlotItemClicked, MenuClosed, SlotActionTriggered, ClickCatlog,
       ClickInvite, DecodingThread, TestHandle, OnDisPlayVideoData, treeVars,
       DetachHandle, DeleteWindow, SetChannelNode, QuietInv
<1>2. ASSUME NEW it \in ShownItems, NEW rightButton \in BOOLEAN,
             SlotItemClicked(it, rightButton)
      PROVE  selected' \in ShownItems'
  BY <1>2 DEF SlotItemClicked, treeVars, ShownItems
<1>3. CASE SlotActionTriggered
  BY <1>3 DEF SlotActionTriggered
<1>4. ASSUME UNCHANGED selected
      PROVE  selected \in ShownItems \/ AboutToDrop
  BY <1>1, <1>4 DEF QuietInv
<1>5. CASE SlotDeviceRegisted
  <2>1. UNCHANGED <<selected, todo>>
    BY <1>5 DEF SlotDeviceRegisted, elsewhere
  <2> QED BY <1>4, <1>5, <2>1, ShownAfterAppend DEF AboutToDrop
<1>6. CASE RebuildItem
  <2>1. UNCHANGED selected /\ todo = <<>>
    BY <1>6 DEF RebuildItem, elsewhere
  <2> QED BY <1>4, <1>6, <2>1, ShownAfterRebuild DEF AboutToDrop
<1>7. CASE SetChannelNode
  <2>1. UNCHANGED <<selected, tree>> /\ Head(todo).op = "add"
    BY <1>7 DEF SetChannelNode, elsewhere
  <2> QED BY <1>4, <2>1 DEF AboutToDrop, ShownItems
<1>8. CASE UNCHANGED <<selected, tree, todo>>
  BY <1>4, <1>8 DEF AboutToDrop, ShownItems
<1>9. \/ \E it \in ShownItems, rightButton \in BOOLEAN : SlotItemClicked(it, rightButton)
      \/ SlotActionTriggered \/ SlotDeviceRegisted \/ RebuildItem \/ SetChannelNode
      \/ UNCHANGED <<selected, tree, todo>>
  BY <1>1 DEF Next, vars, SipThread, DeviceRegisted, DeviceUpdate, UiThread,
       SlotDeviceUpdate, UpdateDone, ClickStart, ClickStop, ClearDone, MenuClosed,
       ClickCatlog, ClickInvite, DecodingThread, TestHandle, OnDisPlayVideoData,
       treeVars, inputVars, elsewhere
<1> QED BY <1>2, <1>3, <1>5, <1>6, <1>7, <1>8, <1>9

\* Until the first stop, whatever can be selected has a server.
LEMMA ServerInductive ==
    ASSUME TypeOK, QuietInv, [Next]_vars, stops' = 0,
           signals' # <<>> \/ tree' # <<>> \/ selected' # NoSelection
    PROVE  running'
<1>1. ClickStart \/ ClickStop \/ UNCHANGED <<running, stops>>
  BY DEF Next, vars, SipThread, DeviceRegisted, DeviceUpdate, UiThread,
       SlotDeviceRegisted, SlotDeviceUpdate, RebuildItem, UpdateDone, ClearItem, ClearDone,
       SlotItemClicked, MenuClosed, SlotActionTriggered, ClickCatlog, ClickInvite,
       DecodingThread, TestHandle, OnDisPlayVideoData, serverVars, elsewhere,
       DetachHandle, DeleteWindow, SetChannelNode
<1>2. stops = 0 /\ (running => running')
  <2>1. stops \in Nat
    BY DEF TypeOK
  <2> QED BY <1>1, <2>1 DEF ClickStart, ClickStop
<1>3. CASE signals # <<>> \/ tree # <<>> \/ selected # NoSelection
  BY <1>2, <1>3 DEF QuietInv
<1>4. CASE signals = <<>> /\ tree = <<>> /\ selected = NoSelection
  <2>1. ShownItems = {}
    BY <1>4, EmptySeq DEF ShownItems
  <2>2. ~EventLoop
    BY <1>4 DEF EventLoop
  <2>3. ~RebuildItem /\ ~ClearItem
    <3>1. slot.in = "update" => slot.i > 0 /\ slot.i \in Nat
      BY DEF TypeOK, Slots, Idle
    <3> QED BY <1>4, <3>1, EmptySeq DEF RebuildItem, ClearItem
  <2>4. SipThread \/ UNCHANGED <<signals, tree>>
    BY <2>1, <2>2, <2>3 DEF Next, vars, UiThread, SlotDeviceRegisted, SlotDeviceUpdate,
       UpdateDone, ClickStart, ClickStop, ClearDone, SlotItemClicked, MenuClosed,
       SlotActionTriggered, ClickCatlog, ClickInvite, DecodingThread, TestHandle,
       OnDisPlayVideoData, serverVars, treeVars, elsewhere, DetachHandle, DeleteWindow,
       SetChannelNode
  <2>5. selected' = NoSelection
    BY <1>4, <2>1, <2>2, <2>3 DEF Next, vars, SipThread, DeviceRegisted, DeviceUpdate, UiThread,
       SlotDeviceRegisted, SlotDeviceUpdate, UpdateDone, ClickStart, ClickStop, ClearDone,
       SlotItemClicked, MenuClosed, SlotActionTriggered, ClickCatlog, ClickInvite,
       DecodingThread, TestHandle, OnDisPlayVideoData, inputVars, elsewhere,
       DetachHandle, DeleteWindow, SetChannelNode
  <2>6. SipThread
    BY <1>4, <2>4, <2>5
  <2>7. running
    BY <2>6 DEF SipThread, DeviceRegisted, DeviceUpdate
  <2> QED BY <1>2, <2>7
<1> QED BY <1>3, <1>4

\* A request the user makes, and a picture that is shown, follow good pointers before
\* the first deletion and the first stop.
LEMMA CrashInductive ==
    ASSUME TypeOK, HandlesAreLive, ButtonsFitSelection, QuietInv, CrashExplained, [Next]_vars
    PROVE  CrashExplained'
<1> SUFFICES ASSUME crashed', ~deleted', stops' = 0, selected' # NoSelection
             PROVE  FALSE
  <2>1. stops' \in Nat
    BY TypeInductive DEF TypeOK
  <2> QED BY <2>1 DEF CrashExplained
<1>1. CASE UNCHANGED crashed
  <2>1. crashed /\ ~Next
    BY <1>1 DEF Next
  <2>2. ~deleted /\ stops = 0 /\ selected # NoSelection
    BY <2>1 DEF vars
  <2> QED BY <2>1, <2>2 DEF CrashExplained
<1>2. ASSUME UNCHANGED <<serverVars, treeVars, selected>>, slot = Idle,
             selected.kind \in {"device", "channel"} => Request(selected.kind)
      PROVE  FALSE
  <2>1. selected # NoSelection /\ selected \in ShownItems
    BY <1>2 DEF QuietInv, AboutToDrop, treeVars
  <2>2. selected.kind \in {"device", "channel"}
    BY <2>1, ShownItemsType
  <2>3. running
    BY <1>2, <2>1 DEF QuietInv, serverVars
  <2> QED BY <1>2, <2>1, <2>2, <2>3 DEF Request
<1>3. CASE ClickCatlog
  <2>1. selected.kind \in {"device", "channel"} => selected.kind = "device"
    BY <1>3 DEF ClickCatlog, ButtonsFitSelection, inputVars
  <2> QED BY <1>2, <1>3, <2>1 DEF ClickCatlog, UserInput, inputVars
<1>4. CASE ClickInvite
  <2>1. selected.kind \in {"device", "channel"} => selected.kind = "channel"
    BY <1>4 DEF ClickInvite, ButtonsFitSelection, inputVars
  <2> QED BY <1>2, <1>4, <2>1 DEF ClickInvite, UserInput, inputVars
<1>5. CASE SlotActionTriggered
  BY <1>5 DEF SlotActionTriggered
<1>6. ASSUME NEW c \in Channels, OnDisPlayVideoData(c) PROVE FALSE
  <2>1. ~deleted
    BY <1>6 DEF OnDisPlayVideoData, treeVars
  <2>2. call[c] \in live /\ handle[c] \in live
    BY <1>6, <2>1 DEF OnDisPlayVideoData, QuietInv, NoDanglingCall, HandlesAreLive
  <2> QED BY <1>6, <2>2 DEF OnDisPlayVideoData
<1>7. \/ UNCHANGED crashed \/ ClickCatlog \/ ClickInvite \/ SlotActionTriggered
      \/ \E c \in Channels : OnDisPlayVideoData(c)
  BY DEF Next, vars, SipThread, DeviceRegisted, DeviceUpdate, UiThread,
       SlotDeviceRegisted, SlotDeviceUpdate, RebuildItem, UpdateDone, ClickStart, ClickStop,
       ClearItem, ClearDone, SlotItemClicked, MenuClosed, DecodingThread, TestHandle,
       elsewhere, DetachHandle, DeleteWindow, SetChannelNode
<1> QED BY <1>1, <1>3, <1>4, <1>5, <1>6, <1>7

\* Null and dangling pointers are followed only after an item was deleted, the server
\* was stopped, or the selection was forgotten: whatever else the user, the cameras and
\* the decoding threads do, in any number.
THEOREM CrashesAreExplained == Spec => []CrashExplained
<1>1. Init => WindowInv /\ QuietInv /\ CrashExplained
  BY InitWindowInv DEF Init, QuietInv, NoDanglingCall, CrashExplained
<1>2. WindowInv /\ QuietInv /\ CrashExplained /\ [Next]_vars
          => (WindowInv /\ QuietInv /\ CrashExplained)'
  <2> SUFFICES ASSUME WindowInv, QuietInv, CrashExplained, [Next]_vars
               PROVE  (WindowInv /\ QuietInv /\ CrashExplained)'
    OBVIOUS
  <2>1. WindowInv'
    BY TypeInductive, HandlesInductive, ButtonsInductive DEF WindowInv
  <2>2. QuietInv'
    BY WorkInductive, CallsInductive, SelectionInductive, ServerInductive
       DEF QuietInv, WindowInv
  <2>3. CrashExplained'
    BY CrashInductive DEF WindowInv
  <2> QED BY <2>1, <2>2, <2>3
<1> QED BY <1>1, <1>2, PTL DEF Spec

-----------------------------------------------------------------------------
(* Whose video goes where.                                                 *)

Updating == slot.in = "update"
Listed(n, c) == \E j \in 1 .. Len(n.list) : n.list[j] = c

\* Channel c is known as one of device d.
Belongs(c, d) ==
    \/ \E k \in 1 .. Len(entries) : entries[k].dev = d /\ Listed(entries[k], c)
    \/ \E m \in 1 .. Len(signals) : signals[m].node.dev = d /\ Listed(signals[m].node, c)
    \/ Updating /\ slot.node.dev = d /\ Listed(slot.node, c)
    \/ \E i \in 1 .. Len(tree) : tree[i].dev = d /\ ShownIn(i, c)

\* A channel is one of a single device, and in a list at most once: channels are made
\* for one entry, and never made again.
NoDoubles(list) == \A i, j \in 1 .. Len(list) : list[i] = list[j] => i = j
OwnerInv ==
    /\ \A c \in Channels, d \in Devices : Belongs(c, d) => c <= made
    /\ \A c \in Channels, d, e \in Devices : Belongs(c, d) /\ Belongs(c, e) => d = e
    /\ \A k \in 1 .. Len(entries) : NoDoubles(entries[k].list)
    /\ \A m \in 1 .. Len(signals) : NoDoubles(signals[m].node.list)
    /\ Updating => NoDoubles(slot.node.list)
    /\ \A i \in 1 .. Len(tree) : \A j, k \in 1 .. Len(tree[i].children) :
          tree[i].children[j].channel = tree[i].children[k].channel => j = k

\* The items whose children are as the slot leaves them.
Settled(i) == Updating => i < slot.i \/ tree[i].dev # slot.node.dev

\* The items the slot has rebuilt show the channels of its node.
RebuiltInv ==
    Updating =>
        \A i \in 1 .. Len(tree) : i < slot.i /\ tree[i].dev = slot.node.dev =>
            /\ Len(tree[i].children) = Len(slot.node.list)
            /\ \A j \in 1 .. Len(slot.node.list) :
                  tree[i].children[j].channel = slot.node.list[j]

\* The handle of channel c is w once the work of the slot is done.
WillBe(c, w) ==
    \/ /\ handle[c] = w
       /\ \A m \in 1 .. Len(todo) : todo[m].child.channel # c
    \/ \E n \in 1 .. Len(todo) :
          /\ todo[n] = [op |-> "add", child |-> w] /\ w.channel = c
          /\ \A m \in n + 1 .. Len(todo) : todo[m].child.channel # c

\* Among the settled items that show a channel, the last one has the handle.
LastHasHandle(c) ==
    \E i \in 1 .. Len(tree) :
        /\ Settled(i)
        /\ \E j \in 1 .. Len(tree[i].children) :
              tree[i].children[j].channel = c /\ WillBe(c, tree[i].children[j])
        /\ \A k \in i + 1 .. Len(tree) : Settled(k) => ~ShownIn(k, c)
SettledInv ==
    slot.in # "clear" =>
        \A c \in Channels : \A i \in 1 .. Len(tree) :
            Settled(i) /\ ShownIn(i, c) => LastHasHandle(c)

VideoInv == OwnerInv /\ RebuiltInv /\ SettledInv

-----------------------------------------------------------------------------
(* What becomes of an announcement.                                        *)

HasItem(d) == \E i \in 1 .. Len(tree) : tree[i].dev = d
RegistedBefore(d, n) ==
    \E m \in 1 .. n - 1 : signals[m].kind = "registed" /\ signals[m].node.dev = d
NoSignalFrom(d, n) == \A m \in n .. Len(signals) : signals[m].node.dev # d

\* Device d has an item, or is about to get one.
GetsItem(d) == HasItem(d) \/ RegistedBefore(d, Len(signals) + 1)

\* The node was the last announcement of its device.  It is still queued, and will find
\* an item there; or the slot works on it; or an item shows all its channels.
StillQueued(node) ==
    \E n \in 1 .. Len(signals) :
        /\ signals[n].kind = "update" /\ signals[n].node = node
        /\ NoSignalFrom(node.dev, n + 1)
        /\ HasItem(node.dev) \/ RegistedBefore(node.dev, n)
BeingShown(node) ==
    /\ Updating /\ slot.node = node
    /\ NoSignalFrom(node.dev, 1)
    /\ HasItem(node.dev)
Displayed(node) ==
    /\ Updating => slot.node.dev # node.dev
    /\ NoSignalFrom(node.dev, 1)
    /\ \E i \in 1 .. Len(tree) :
          /\ tree[i].dev = node.dev
          /\ \A j \in 1 .. Len(node.list) : ShownIn(i, node.list[j])
OnItsWay(node) == StillQueued(node) \/ BeingShown(node) \/ Displayed(node)

\* Entry k is the only one of its device.
Sole(k) == \A l \in 1 .. Len(entries) : entries[l].dev = entries[k].dev => l = k

AnnouncedInv ==
    /\ entries # <<>> => running
    /\ running => slot.in # "clear"
    /\ \A k \in 1 .. Len(entries) :
          /\ GetsItem(entries[k].dev)
          /\ Sole(k) /\ entries[k].list # <<>> => OnItsWay(entries[k])

-----------------------------------------------------------------------------
\* The steps that these invariants can notice.
LEMMA StepKinds ==
    ASSUME [Next]_vars
    PROVE  \/ \E d \in Devices : DeviceRegisted(d)
           \/ \E k \in 1 .. Len(entries), isNew \in BOOLEAN : DeviceUpdate(k, isNew)
           \/ SlotDeviceRegisted \/ SlotDeviceUpdate \/ RebuildItem \/ UpdateDone
           \/ DetachHandle \/ DeleteWindow \/ SetChannelNode
           \/ ClickStart \/ ClickStop \/ ClearItem \/ ClearDone
           \/ UNCHANGED <<running, entries, made, signals, tree, handle, slot, todo>>
BY DEF Next, vars, SipThread, UiThread, SlotItemClicked, MenuClosed, SlotActionTriggered,
     ClickCatlog, ClickInvite, DecodingThread, TestHandle, OnDisPlayVideoData, treeVars,
     serverVars

\* The first signal, and the others.
LEMMA SignalsAfterHead ==
    ASSUME TypeOK, signals # <<>>, signals' = Tail(signals)
    PROVE  /\ Len(signals) \in Nat /\ 1 \in 1 .. Len(signals) /\ Head(signals) = signals[1]
           /\ Len(signals') = Len(signals) - 1
           /\ \A m \in 1 .. Len(signals') :
                 m + 1 \in 1 .. Len(signals) /\ signals'[m] = signals[m + 1]
<1>1. /\ Len(signals) \in Nat /\ Len(signals) # 0 /\ Head(signals) = signals[1]
      /\ Len(Tail(signals)) = Len(signals) - 1
      /\ \A m \in 1 .. Len(signals) - 1 : Tail(signals)[m] = signals[m + 1]
  BY EmptySeq, HeadTailProperties DEF TypeOK
<1> QED BY <1>1

\* A signal is added behind the others.
LEMMA SignalsAfterAnnounce ==
    ASSUME TypeOK, NEW kind, NEW node \in Entries, Announce(kind, node)
    PROVE  /\ Len(signals) \in Nat /\ Len(signals') = Len(signals) + 1
           /\ \A m \in 1 .. Len(signals) : signals'[m] = signals[m]
           /\ signals'[Len(signals) + 1].kind = kind /\ signals'[Len(signals) + 1].node = node
<1>1. /\ Len(signals') = Len(signals) + 1
      /\ \A m \in 1 .. Len(signals) : signals'[m] = signals[m]
      /\ signals'[Len(signals) + 1] = [kind |-> kind, node |-> node]
  BY AppendProperties DEF TypeOK, Announce
<1> QED BY <1>1 DEF TypeOK

\* What is known of the items and nodes.
LEMMA KnownTypes ==
    ASSUME TypeOK
    PROVE  /\ Len(entries) \in Nat /\ Len(signals) \in Nat /\ Len(tree) \in Nat
           /\ \A k \in 1 .. Len(entries) : entries[k] \in Entries
           /\ \A m \in 1 .. Len(signals) : signals[m].node \in Entries
           /\ Updating => slot.node \in Entries /\ slot.i \in Nat \ {0}
           /\ \A i \in 1 .. Len(tree) :
                 /\ tree[i] \in DeviceItems /\ tree[i].dev \in Devices
                 /\ tree[i].children \in Seq(ChannelItems)
                 /\ Len(tree[i].children) \in Nat
                 /\ \A j \in 1 .. Len(tree[i].children) :
                       tree[i].children[j].channel \in Channels
<1>1. Len(entries) \in Nat /\ Len(signals) \in Nat /\ Len(tree) \in Nat
  BY DEF TypeOK
<1>2. \A k \in 1 .. Len(entries) : entries[k] \in Entries
  BY DEF TypeOK
<1>3. ASSUME NEW m \in 1 .. Len(signals) PROVE signals[m].node \in Entries
  <2>1. signals[m] \in Signals
    BY DEF TypeOK
  <2> QED BY <2>1 DEF Signals
<1>4. Updating => slot.node \in Entries /\ slot.i \in Nat \ {0}
  BY DEF TypeOK, Slots, Idle, Updating
<1>5. ASSUME NEW i \in 1 .. Len(tree)
      PROVE  /\ tree[i] \in DeviceItems /\ tree[i].dev \in Devices
             /\ tree[i].children \in Seq(ChannelItems)
             /\ Len(tree[i].children) \in Nat
             /\ \A j \in 1 .. Len(tree[i].children) :
                   tree[i].children[j].channel \in Channels
  <2>1. tree[i] \in DeviceItems
    BY DEF TypeOK
  <2>2. tree[i].dev \in Devices /\ tree[i].children \in Seq(ChannelItems)
    BY <2>1 DEF DeviceItems
  <2>3. ASSUME NEW j \in 1 .. Len(tree[i].children)
        PROVE  tree[i].children[j].channel \in Channels
    <3>1. tree[i].children[j] \in ChannelItems
      BY <2>2
    <3> QED BY <3>1 DEF ChannelItems
  <2> QED BY <2>1, <2>2, <2>3
<1> QED BY <1>1, <1>2, <1>3, <1>4, <1>5

LEMMA EntryType ==
    ASSUME NEW e \in Entries
    PROVE  /\ e.dev \in Devices /\ e.list \in Seq(Channels) /\ Len(e.list) \in Nat
           /\ \A j \in 1 .. Len(e.list) : e.list[j] \in Channels
BY DEF Entries

\* The loop reaches an item.
LEMMA TreeAfterRebuild ==
    ASSUME TypeOK, RebuildItem
    PROVE  /\ Updating /\ todo = <<>> /\ slot.i \in 1 .. Len(tree)
           /\ slot' = [in |-> "update", node |-> slot.node, i |-> slot.i + 1]
           /\ UNCHANGED <<running, entries, made, signals, handle>>
           /\ Len(tree') = Len(tree)
           /\ \A i \in 1 .. Len(tree) :
                 /\ tree'[i].dev = tree[i].dev
                 /\ i # slot.i \/ tree[i].dev # slot.node.dev => tree'[i] = tree[i]
           /\ tree[slot.i].dev # slot.node.dev => UNCHANGED <<tree, todo>>
           /\ tree[slot.i].dev = slot.node.dev =>
                 /\ tree'[slot.i].children = NewChildren(slot.node.list)
                 /\ todo' = Rebuild(tree[slot.i].children, NewChildren(slot.node.list))
<1> DEFINE k == slot.i
           new == NewChildren(slot.node.list)
<1>1. Updating /\ todo = <<>> /\ k <= Len(tree)
  BY DEF RebuildItem, Updating
<1>2. k \in 1 .. Len(tree)
  BY <1>1, KnownTypes
<1>3. /\ slot' = [in |-> "update", node |-> slot.node, i |-> slot.i + 1]
      /\ UNCHANGED <<running, entries, made, signals, handle>>
  BY DEF RebuildItem, elsewhere
<1>4. CASE tree[k].dev # slot.node.dev
  <2>1. UNCHANGED <<tree, todo>>
    BY <1>4 DEF RebuildItem, IsSame
  <2> QED BY <1>1, <1>2, <1>3, <1>4, <2>1
<1>5. CASE tree[k].dev = slot.node.dev
  <2>1. /\ tree' = [tree EXCEPT ![k] = [item |-> tree[k].item, dev |-> tree[k].dev,
                                        children |-> new]]
        /\ todo' = Rebuild(tree[k].children, new)
    BY <1>5 DEF RebuildItem, IsSame
  <2>2. tree \in Seq(DeviceItems)
    BY DEF TypeOK
  <2> HIDE DEF new
  <2>3. /\ Len(tree') = Len(tree)
        /\ \A i \in 1 .. Len(tree) : i # k => tree'[i] = tree[i]
        /\ tree'[k].dev = tree[k].dev /\ tree'[k].children = new
    BY <1>2, <2>1, <2>2
  <2> QED BY <1>1, <1>2, <1>3, <1>5, <2>1, <2>3 DEF new
<1> QED BY <1>4, <1>5

LEMMA NewChildrenOf ==
    ASSUME NEW list, Len(list) \in Nat
    PROVE  /\ Len(NewChildren(list)) = Len(list)
           /\ \A j \in 1 .. Len(list) : NewChildren(list)[j].channel = list[j]
BY DEF NewChildren

\* A catalog item reaches an entry: the node that is announced is the entry, which may
\* have got the channel made last.
LEMMA NodeAfterUpdate ==
    ASSUME TypeOK, NEW k \in 1 .. Len(entries), NEW isNew \in BOOLEAN, DeviceUpdate(k, isNew)
    PROVE  \E node \in Entries :
             /\ node.dev = entries[k].dev /\ node.list # <<>>
             /\ Announce("update", node)
             /\ Len(entries') = Len(entries) /\ entries'[k] = node
             /\ \A l \in 1 .. Len(entries) : l # k => entries'[l] = entries[l]
             /\ running
             /\ UNCHANGED <<running, tree, handle, slot, todo>>
             /\ \/ node = entries[k] /\ made' = made
                \/ /\ made' = made + 1 /\ made + 1 \in Channels
                   /\ Len(node.list) = Len(entries[k].list) + 1
                   /\ \A j \in 1 .. Len(entries[k].list) : node.list[j] = entries[k].list[j]
                   /\ node.list[Len(entries[k].list) + 1] = made + 1
<1> DEFINE old == entries[k]
           node == IF isNew THEN [dev |-> old.dev, list |-> Append(old.list, made + 1)]
                            ELSE old
<1>1. /\ running /\ node.list # <<>>
      /\ entries' = [entries EXCEPT ![k] = node]
      /\ made' = (IF isNew THEN made + 1 ELSE made)
      /\ isNew => made < MaxChannels
      /\ Announce("update", node)
      /\ UNCHANGED <<running, tree, handle, slot, todo>>
  BY DEF DeviceUpdate, treeVars
<1>2. old \in Entries /\ old.dev \in Devices /\ old.list \in Seq(Channels)
  BY KnownTypes, EntryType
<1>3. made \in Nat /\ MaxChannels \in Nat
  BY WindowAssumption DEF TypeOK, WindowAssumption
<1>4. entries \in Seq(Entries)
  BY DEF TypeOK
<1>5. CASE isNew
  <2>1. made + 1 \in Channels
    BY <1>1, <1>3, <1>5 DEF Channels
  <2>2. /\ Append(old.list, made + 1) \in Seq(Channels)
        /\ Len(Append(old.list, made + 1)) = Len(old.list) + 1
        /\ \A j \in 1 .. Len(old.list) : Append(old.list, made + 1)[j] = old.list[j]
        /\ Append(old.list, made + 1)[Len(old.list) + 1] = made + 1
    BY <1>2, <2>1, AppendProperties
  <2>3. node = [dev |-> old.dev, list |-> Append(old.list, made + 1)]
    BY <1>5
  <2>4. node \in Entries /\ node.dev = old.dev
    BY <1>2, <2>2, <2>3 DEF Entries
  <2>5. /\ Len(node.list) = Len(old.list) + 1
        /\ \A j \in 1 .. Len(old.list) : node.list[j] = old.list[j]
        /\ node.list[Len(old.list) + 1] = made + 1
    BY <2>2, <2>3
  <2>6. made' = made + 1
    BY <1>1, <1>5
  <2> HIDE DEF node
  <2>7. /\ Len(entries') = Len(entries) /\ entries'[k] = node
        /\ \A l \in 1 .. Len(entries) : l # k => entries'[l] = entries[l]
    BY <1>1, <1>4
  <2> QED BY <1>1, <2>1, <2>4, <2>5, <2>6, <2>7
<1>6. CASE ~isNew
  <2>1. node = old /\ made' = made
    BY <1>1, <1>6
  <2> HIDE DEF node
  <2>2. /\ Len(entries') = Len(entries) /\ entries'[k] = node
        /\ \A l \in 1 .. Len(entries) : l # k => entries'[l] = entries[l]
    BY <1>1, <1>4
  <2> QED BY <1>1, <1>2, <2>1, <2>2
<1> QED BY <1>5, <1>6

LEMMA EntriesAfterRegisted ==
    ASSUME TypeOK, NEW d \in Devices, DeviceRegisted(d)
    PROVE  /\ [dev |-> d, list |-> <<>>] \in Entries
           /\ Announce("registed", [dev |-> d, list |-> <<>>])
           /\ Len(entries') = Len(entries) + 1
           /\ \A k \in 1 .. Len(entries) : entries'[k] = entries[k]
           /\ entries'[Len(entries) + 1] = [dev |-> d, list |-> <<>>]
           /\ running
           /\ UNCHANGED <<running, made, tree, handle, slot, todo>>
<1> DEFINE e == [dev |-> d, list |-> <<>>]
<1>1. e \in Entries
  BY DEF Entries
<1>2. entries \in Seq(Entries) /\ entries' = Append(entries, e)
  BY DEF TypeOK, DeviceRegisted
<1>3. /\ Len(entries') = Len(entries) + 1
      /\ \A k \in 1 .. Len(entries) : entries'[k] = entries[k]
      /\ entries'[Len(entries) + 1] = e
  <2> HIDE DEF e
  <2> QED BY <1>1, <1>2, AppendProperties
<1> QED BY <1>1, <1>3 DEF DeviceRegisted, treeVars

LEMMA TreeAfterRegisted ==
    ASSUME TypeOK, SlotDeviceRegisted
    PROVE  /\ Head(signals).kind = "registed" /\ signals # <<>> /\ signals' = Tail(signals)
           /\ slot = Idle
           /\ Len(tree') = Len(tree) + 1
           /\ \A i \in 1 .. Len(tree) : tree'[i] = tree[i]
           /\ tree'[Len(tree) + 1].dev = Head(signals).node.dev
           /\ tree'[Len(tree) + 1].children = <<>>
           /\ UNCHANGED <<running, entries, made, handle, slot, todo>>
<1> DEFINE e == [item |-> items + 1, dev |-> Head(signals).node.dev, children |-> <<>>]
<1>1. /\ Head(signals).kind = "registed" /\ signals # <<>> /\ signals' = Tail(signals)
      /\ slot = Idle /\ tree' = Append(tree, e)
      /\ UNCHANGED <<running, entries, made, handle, slot, todo>>
  BY DEF SlotDeviceRegisted, EventLoop, elsewhere
<1>2. e \in DeviceItems
  BY <1>1, HeadOfSignals DEF TypeOK, DeviceItems, Entries
<1>3. e.dev = Head(signals).node.dev /\ e.children = <<>>
  OBVIOUS
<1>4. /\ Len(tree') = Len(tree) + 1
      /\ \A i \in 1 .. Len(tree) : tree'[i] = tree[i]
      /\ tree'[Len(tree) + 1] = e
  <2> HIDE DEF e
  <2> QED BY <1>1, <1>2, AppendProperties DEF TypeOK
<1> QED BY <1>1, <1>3, <1>4

LEMMA TreeAfterClear ==
    ASSUME TypeOK, ClearItem
    PROVE  /\ slot.in = "clear" /\ UNCHANGED <<running, entries, made, signals, slot>>
           /\ Len(tree') = Len(tree) - 1
           /\ \A i \in 1 .. Len(tree') : i + 1 \in 1 .. Len(tree) /\ tree'[i] = tree[i + 1]
<1>1. tree \in Seq(DeviceItems) /\ tree # <<>> /\ tree' = Tail(tree)
  BY DEF TypeOK, ClearItem
<1>2. /\ Len(tree) \in Nat /\ Len(tree) # 0 /\ Len(tree') = Len(tree) - 1
      /\ \A i \in 1 .. Len(tree) - 1 : tree'[i] = tree[i + 1]
  BY <1>1, EmptySeq, HeadTailProperties
<1> QED BY <1>2 DEF ClearItem, elsewhere

-----------------------------------------------------------------------------
\* OwnerInv: the channels of an announcement are those of its entry, and what an item
\* shows was announced for its device.
LEMMA OwnerAfterRegisted ==
    ASSUME TypeOK, OwnerInv, NEW d \in Devices, DeviceRegisted(d)
    PROVE  OwnerInv'
<1> DEFINE e == [dev |-> d, list |-> <<>>]
<1>1. /\ Len(entries) \in Nat /\ Len(entries') = Len(entries) + 1
      /\ \A k \in 1 .. Len(entries) : entries'[k] = entries[k]
      /\ entries'[Len(entries) + 1] = e
      /\ UNCHANGED <<made, tree, slot>>
  BY EntriesAfterRegisted, KnownTypes
<1>2. /\ Len(signals) \in Nat /\ Len(signals') = Len(signals) + 1
      /\ \A m \in 1 .. Len(signals) : signals'[m] = signals[m]
      /\ signals'[Len(signals) + 1].node = e
  BY EntriesAfterRegisted, SignalsAfterAnnounce
<1>3. e.list = <<>> /\ Len(e.list) = 0
  OBVIOUS
<1> HIDE DEF e
<1>4. \A c : ~Listed(e, c)
  BY <1>3 DEF Listed
<1>5. ASSUME NEW c \in Channels, NEW f \in Devices, Belongs(c, f)' PROVE Belongs(c, f)
  <2>1. CASE \E k \in 1 .. Len(entries') : entries'[k].dev = f /\ Listed(entries'[k], c)
    BY <1>1, <1>4, <2>1 DEF Belongs
  <2>2. CASE \E m \in 1 .. Len(signals') :
                signals'[m].node.dev = f /\ Listed(signals'[m].node, c)
    BY <1>2, <1>4, <2>2 DEF Belongs
  <2>3. CASE ~(\E k \in 1 .. Len(entries') : entries'[k].dev = f /\ Listed(entries'[k], c))
             /\ ~(\E m \in 1 .. Len(signals') :
                     signals'[m].node.dev = f /\ Listed(signals'[m].node, c))
    BY <1>1, <1>5, <2>3 DEF Belongs, Updating, ShownIn, Listed
  <2> QED BY <2>1, <2>2, <2>3
<1>6. NoDoubles(e.list)
  BY <1>3 DEF NoDoubles
<1>7. \A k \in 1 .. Len(entries') : NoDoubles(entries'[k].list)
  BY <1>1, <1>6 DEF OwnerInv
<1>8. \A m \in 1 .. Len(signals') : NoDoubles(signals'[m].node.list)
  BY <1>2, <1>6 DEF OwnerInv
<1>9. /\ \A c \in Channels, f \in Devices : Belongs(c, f)' => c <= made'
      /\ \A c \in Channels, f, g \in Devices : Belongs(c, f)' /\ Belongs(c, g)' => f = g
  BY <1>1, <1>5 DEF OwnerInv
<1>10. /\ Updating' => NoDoubles(slot'.node.list)
       /\ \A i \in 1 .. Len(tree') : \A j, k \in 1 .. Len(tree'[i].children) :
             tree'[i].children[j].channel = tree'[i].children[k].channel => j = k
  BY <1>1 DEF OwnerInv, Updating
<1> QED BY <1>7, <1>8, <1>9, <1>10 DEF OwnerInv, NoDoubles

LEMMA OwnerAfterUpdate ==
    ASSUME TypeOK, OwnerInv, NEW k \in 1 .. Len(entries), NEW isNew \in BOOLEAN,
           DeviceUpdate(k, isNew)
    PROVE  OwnerInv'
<1>1. PICK node \in Entries :
             /\ node.dev = entries[k].dev /\ node.list # <<>>
             /\ Announce("update", node)
             /\ Len(entries') = Len(entries) /\ entries'[k] = node
             /\ \A l \in 1 .. Len(entries) : l # k => entries'[l] = entries[l]
             /\ running
             /\ UNCHANGED <<running, tree, handle, slot, todo>>
             /\ \/ node = entries[k] /\ made' = made
                \/ /\ made' = made + 1 /\ made + 1 \in Channels
                   /\ Len(node.list) = Len(entries[k].list) + 1
                   /\ \A j \in 1 .. Len(entries[k].list) : node.list[j] = entries[k].list[j]
                   /\ node.list[Len(entries[k].list) + 1] = made + 1
  BY NodeAfterUpdate
<1>2. /\ Len(signals) \in Nat /\ Len(signals') = Len(signals) + 1
      /\ \A m \in 1 .. Len(signals) : signals'[m] = signals[m]
      /\ signals'[Len(signals) + 1].node = node
  BY <1>1, SignalsAfterAnnounce
<1>3. /\ entries[k].dev \in Devices /\ Len(entries[k].list) \in Nat
      /\ \A j \in 1 .. Len(entries[k].list) : entries[k].list[j] \in Channels
      /\ made \in Nat
  BY KnownTypes, EntryType DEF TypeOK
<1>4. ASSUME NEW c, Listed(node, c)
      PROVE  Listed(entries[k], c) \/ (made' = made + 1 /\ c = made + 1)
  BY <1>1, <1>3, <1>4 DEF Listed
<1>5. ASSUME NEW c \in Channels, NEW f \in Devices, Belongs(c, f)'
      PROVE  Belongs(c, f) \/ (made' = made + 1 /\ c = made + 1 /\ f = entries[k].dev)
  <2>1. CASE \E l \in 1 .. Len(entries') : entries'[l].dev = f /\ Listed(entries'[l], c)
    BY <1>1, <1>4, <2>1 DEF Belongs
  <2>2. CASE \E m \in 1 .. Len(signals') :
                signals'[m].node.dev = f /\ Listed(signals'[m].node, c)
    BY <1>1, <1>2, <1>4, <2>2 DEF Belongs
  <2>3. CASE ~(\E l \in 1 .. Len(entries') : entries'[l].dev = f /\ Listed(entries'[l], c))
             /\ ~(\E m \in 1 .. Len(signals') :
                     signals'[m].node.dev = f /\ Listed(signals'[m].node, c))
    BY <1>1, <1>5, <2>3 DEF Belongs, Updating, ShownIn, Listed
  <2> QED BY <2>1, <2>2, <2>3
<1>6. \A c \in Channels : c \in Nat
  BY WindowAssumption DEF Channels, WindowAssumption
<1>7. /\ \A c \in Channels, f \in Devices : Belongs(c, f) => c <= made
      /\ \A c \in Channels, f, g \in Devices : Belongs(c, f) /\ Belongs(c, g) => f = g
  BY DEF OwnerInv
<1>8. made' = made \/ made' = made + 1
  BY <1>1
<1>9. \A c \in Channels, f \in Devices : Belongs(c, f)' => c <= made'
  BY <1>3, <1>5, <1>6, <1>7, <1>8
<1>10. ASSUME NEW c \in Channels, NEW f \in Devices, NEW g \in Devices,
              Belongs(c, f)', Belongs(c, g)'
       PROVE  f = g
  <2>1. c \in Nat /\ (c <= made => c # made + 1)
    BY <1>3, <1>6
  <2> QED BY <1>5, <1>7, <1>10, <2>1
<1>11. NoDoubles(node.list)
  <2>1. NoDoubles(entries[k].list)
    BY DEF OwnerInv
  <2>2. CASE node = entries[k]
    BY <2>1, <2>2
  <2>3. CASE /\ made' = made + 1 /\ made + 1 \in Channels
             /\ Len(node.list) = Len(entries[k].list) + 1
             /\ \A j \in 1 .. Len(entries[k].list) : node.list[j] = entries[k].list[j]
             /\ node.list[Len(entries[k].list) + 1] = made + 1
    <3>1. ASSUME NEW j \in 1 .. Len(entries[k].list) PROVE entries[k].list[j] # made + 1
      <4>1. Belongs(entries[k].list[j], entries[k].dev)
        BY DEF Belongs, Listed
      <4>2. entries[k].list[j] \in Channels /\ entries[k].list[j] \in Nat
        BY <1>3, <1>6
      <4>3. entries[k].list[j] <= made
        BY <1>3, <1>7, <4>1, <4>2
      <4> QED BY <1>3, <4>2, <4>3
    <3>2. ASSUME NEW i \in 1 .. Len(node.list), NEW j \in 1 .. Len(node.list),
                 node.list[i] = node.list[j]
          PROVE  i = j
      <4>1. CASE i \in 1 .. Len(entries[k].list) /\ j \in 1 .. Len(entries[k].list)
        BY <2>1, <2>3, <3>2, <4>1 DEF NoDoubles
      <4>2. CASE i = Len(entries[k].list) + 1
        BY <1>3, <2>3, <3>1, <3>2, <4>2
      <4>3. CASE j = Len(entries[k].list) + 1
        BY <1>3, <2>3, <3>1, <3>2, <4>3
      <4> QED BY <1>3, <2>3, <4>1, <4>2, <4>3
    <3> QED BY <3>2 DEF NoDoubles
  <2> QED BY <1>1, <2>2, <2>3
<1>12. \A l \in 1 .. Len(entries') : NoDoubles(entries'[l].list)
  BY <1>1, <1>11 DEF OwnerInv
<1>13. \A m \in 1 .. Len(signals') : NoDoubles(signals'[m].node.list)
  BY <1>2, <1>11 DEF OwnerInv
<1>14. /\ Updating' => NoDoubles(slot'.node.list)
       /\ \A i \in 1 .. Len(tree') : \A j, l \in 1 .. Len(tree'[i].children) :
             tree'[i].children[j].channel = tree'[i].children[l].channel => j = l
  BY <1>1 DEF OwnerInv, Updating
<1> QED BY <1>9, <1>10, <1>12, <1>13, <1>14 DEF OwnerInv, NoDoubles

LEMMA OwnerAfterRebuild ==
    ASSUME TypeOK, OwnerInv, RebuildItem
    PROVE  OwnerInv'
<1> DEFINE s == slot.i
           new == NewChildren(slot.node.list)
<1>1. /\ Updating /\ s \in 1 .. Len(tree)
      /\ slot' = [in |-> "update", node |-> slot.node, i |-> slot.i + 1]
      /\ UNCHANGED <<entries, made, signals>>
      /\ Len(tree') = Len(tree)
      /\ \A i \in 1 .. Len(tree) :
            /\ tree'[i].dev = tree[i].dev
            /\ i # s \/ tree[i].dev # slot.node.dev => tree'[i] = tree[i]
      /\ tree[s].dev = slot.node.dev => tree'[s].children = new
  BY TreeAfterRebuild
<1>2. Updating' /\ slot'.node = slot.node
  BY <1>1 DEF Updating
<1>3. /\ Len(new) = Len(slot.node.list)
      /\ \A j \in 1 .. Len(slot.node.list) : new[j].channel = slot.node.list[j]
  BY <1>1, KnownTypes, EntryType, NewChildrenOf
<1> HIDE DEF new, s
<1>4. ASSUME NEW c \in Channels, NEW f \in Devices, Belongs(c, f)' PROVE Belongs(c, f)
  <2>1. ASSUME NEW i \in 1 .. Len(tree), tree'[i].dev = f, ShownIn(i, c)'
        PROVE  Belongs(c, f)
    <3>1. CASE tree'[i] = tree[i]
      BY <2>1, <3>1 DEF ShownIn, Belongs
    <3>2. CASE i = s /\ tree[s].dev = slot.node.dev
      <4>1. slot.node.dev = f /\ Listed(slot.node, c)
        BY <1>1, <1>3, <2>1, <3>2 DEF ShownIn, Listed
      <4> QED BY <1>1, <4>1 DEF Belongs
    <3> QED BY <1>1, <3>1, <3>2
  <2>2. CASE \E i \in 1 .. Len(tree') : tree'[i].dev = f /\ ShownIn(i, c)'
    BY <1>1, <2>1, <2>2
  <2>3. CASE ~(\E i \in 1 .. Len(tree') : tree'[i].dev = f /\ ShownIn(i, c)')
    BY <1>1, <1>2, <1>4, <2>3 DEF Belongs, Listed
  <2> QED BY <2>2, <2>3
<1>5. ASSUME NEW i \in 1 .. Len(tree')
      PROVE  \A j, k \in 1 .. Len(tree'[i].children) :
                tree'[i].children[j].channel = tree'[i].children[k].channel => j = k
  <2>1. CASE tree'[i] = tree[i]
    BY <1>1, <2>1 DEF OwnerInv
  <2>2. CASE i = s /\ tree[s].dev = slot.node.dev
    BY <1>1, <1>3, <2>2 DEF OwnerInv, NoDoubles
  <2> QED BY <1>1, <2>1, <2>2
<1>6. /\ \A c \in Channels, f \in Devices : Belongs(c, f)' => c <= made'
      /\ \A c \in Channels, f, g \in Devices : Belongs(c, f)' /\ Belongs(c, g)' => f = g
  BY <1>1, <1>4 DEF OwnerInv
<1>7. /\ \A k \in 1 .. Len(entries') : NoDoubles(entries'[k].list)
      /\ \A m \in 1 .. Len(signals') : NoDoubles(signals'[m].node.list)
      /\ NoDoubles(slot'.node.list)
  BY <1>1, <1>2 DEF OwnerInv
<1> QED BY <1>5, <1>6, <1>7 DEF OwnerInv, NoDoubles

\* Nodes and items that are passed on, or dropped, bring nothing new.
LEMMA OwnerPassedOn ==
    ASSUME OwnerInv, made' = made,
           \A k \in 1 .. Len(entries') : \E l \in 1 .. Len(entries) : entries'[k] = entries[l],
           \A m \in 1 .. Len(signals') : \E l \in 1 .. Len(signals) : signals'[m] = signals[l],
           Updating' => \/ Updating /\ slot'.node = slot.node
                        \/ \E m \in 1 .. Len(signals) : slot'.node = signals[m].node,
           \A i \in 1 .. Len(tree') :
              tree'[i].children = <<>> \/ \E l \in 1 .. Len(tree) : tree'[i] = tree[l]
    PROVE  OwnerInv'
<1>1. ASSUME NEW c \in Channels, NEW f \in Devices, Belongs(c, f)' PROVE Belongs(c, f)
  <2>1. CASE \E k \in 1 .. Len(entries') : entries'[k].dev = f /\ Listed(entries'[k], c)
    BY <2>1 DEF Belongs
  <2>2. CASE \E m \in 1 .. Len(signals') :
                signals'[m].node.dev = f /\ Listed(signals'[m].node, c)
    BY <2>2 DEF Belongs
  <2>3. CASE Updating' /\ slot'.node.dev = f /\ Listed(slot'.node, c)
    BY <2>3 DEF Belongs
  <2>4. ASSUME NEW i \in 1 .. Len(tree'), tree'[i].dev = f, ShownIn(i, c)'
        PROVE  Belongs(c, f)
    <3>1. tree'[i].children # <<>>
      BY <2>4 DEF ShownIn
    <3>2. PICK l \in 1 .. Len(tree) : tree'[i] = tree[l]
      BY <3>1
    <3>3. tree[l].dev = f /\ ShownIn(l, c)
      BY <2>4, <3>2 DEF ShownIn
    <3> QED BY <3>3 DEF Belongs
  <2> QED BY <1>1, <2>1, <2>2, <2>3, <2>4 DEF Belongs, Listed, Updating
<1>2. /\ \A c \in Channels, f \in Devices : Belongs(c, f)' => c <= made'
      /\ \A c \in Channels, f, g \in Devices : Belongs(c, f)' /\ Belongs(c, g)' => f = g
  BY <1>1 DEF OwnerInv
<1>3. /\ \A k \in 1 .. Len(entries') : NoDoubles(entries'[k].list)
      /\ \A m \in 1 .. Len(signals') : NoDoubles(signals'[m].node.list)
      /\ Updating' => NoDoubles(slot'.node.list)
  BY DEF OwnerInv
<1>4. ASSUME NEW i \in 1 .. Len(tree')
      PROVE  \A j, k \in 1 .. Len(tree'[i].children) :
                tree'[i].children[j].channel = tree'[i].children[k].channel => j = k
  <2>1. CASE tree'[i].children = <<>>
    BY <2>1
  <2>2. CASE \E l \in 1 .. Len(tree) : tree'[i] = tree[l]
    BY <2>2 DEF OwnerInv
  <2> QED BY <2>1, <2>2
<1> QED BY <1>2, <1>3, <1>4 DEF OwnerInv, NoDoubles

LEMMA OwnerInductive ==
    ASSUME TypeOK, OwnerInv, [Next]_vars
    PROVE  OwnerInv'
<1>1. /\ Len(entries) \in Nat /\ Len(signals) \in Nat /\ Len(tree) \in Nat
  BY KnownTypes
<1>2. CASE SlotDeviceRegisted
  <2>1. /\ made' = made /\ entries' = entries /\ slot' = Idle
        /\ signals # <<>> /\ signals' = Tail(signals)
        /\ Len(tree') = Len(tree) + 1
        /\ \A i \in 1 .. Len(tree) : tree'[i] = tree[i]
        /\ tree'[Len(tree) + 1].children = <<>>
    BY <1>2, TreeAfterRegisted
  <2>2. ~Updating'
    BY <2>1 DEF Updating, Idle
  <2>3. \A m \in 1 .. Len(signals') : \E l \in 1 .. Len(signals) : signals'[m] = signals[l]
    BY <2>1, SignalsAfterHead
  <2>4. \A i \in 1 .. Len(tree') :
           tree'[i].children = <<>> \/ \E l \in 1 .. Len(tree) : tree'[i] = tree[l]
    BY <1>1, <2>1
  <2> QED BY <2>1, <2>2, <2>3, <2>4, OwnerPassedOn
<1>3. CASE SlotDeviceUpdate
  <2>1. /\ UNCHANGED <<made, entries, tree>> /\ signals # <<>> /\ signals' = Tail(signals)
        /\ slot'.node = Head(signals).node
    BY <1>3 DEF SlotDeviceUpdate, EventLoop, elsewhere
  <2>2. /\ Head(signals) = signals[1] /\ 1 \in 1 .. Len(signals)
        /\ \A m \in 1 .. Len(signals') : \E l \in 1 .. Len(signals) : signals'[m] = signals[l]
    BY <2>1, SignalsAfterHead
  <2> QED BY <2>1, <2>2, OwnerPassedOn
<1>4. CASE UpdateDone \/ ClickStop \/ ClearDone
  <2>1. /\ UNCHANGED <<made, signals, tree>>
        /\ entries' = entries \/ entries' = <<>>
        /\ slot' \in {Idle, [in |-> "clear"]}
    BY <1>4 DEF UpdateDone, ClickStop, ClearDone, elsewhere
  <2>2. ~Updating'
    BY <2>1 DEF Updating, Idle
  <2>3. \A k \in 1 .. Len(entries') : \E l \in 1 .. Len(entries) : entries'[k] = entries[l]
    BY <2>1
  <2>4. /\ \A m \in 1 .. Len(signals') : \E l \in 1 .. Len(signals) : signals'[m] = signals[l]
        /\ \A i \in 1 .. Len(tree') : \E l \in 1 .. Len(tree) : tree'[i] = tree[l]
    BY <2>1
  <2> QED BY <2>1, <2>2, <2>3, <2>4, OwnerPassedOn
<1>5. CASE ClearItem
  <2>1. /\ UNCHANGED <<made, signals, entries, slot>>
        /\ \A i \in 1 .. Len(tree') : \E l \in 1 .. Len(tree) : tree'[i] = tree[l]
    BY <1>5, TreeAfterClear
  <2> QED BY <2>1, OwnerPassedOn DEF Updating
<1>6. CASE UNCHANGED <<entries, made, signals, tree, slot>>
  BY <1>6, OwnerPassedOn DEF Updating
<1>7. CASE DetachHandle \/ DeleteWindow \/ SetChannelNode \/ ClickStart
  BY <1>6, <1>7 DEF DetachHandle, DeleteWindow, SetChannelNode, ClickStart, elsewhere, treeVars
<1> QED BY <1>2, <1>3, <1>4, <1>5, <1>6, <1>7, StepKinds, OwnerAfterRegisted, OwnerAfterUpdate,
           OwnerAfterRebuild

-----------------------------------------------------------------------------
\* RebuiltInv: the loop leaves an item of its device with the channels of its node.
LEMMA RebuiltInductive ==
    ASSUME TypeOK, RebuiltInv, [Next]_vars
    PROVE  RebuiltInv'
<1>1. CASE RebuildItem
  <2> DEFINE s == slot.i
  <2>1. /\ Updating /\ s \in 1 .. Len(tree)
        /\ slot' = [in |-> "update", node |-> slot.node, i |-> s + 1]
        /\ Len(tree') = Len(tree)
        /\ \A i \in 1 .. Len(tree) :
              /\ tree'[i].dev = tree[i].dev
              /\ i # s \/ tree[i].dev # slot.node.dev => tree'[i] = tree[i]
        /\ tree[s].dev = slot.node.dev => tree'[s].children = NewChildren(slot.node.list)
    BY <1>1, TreeAfterRebuild
  <2>2. /\ Len(NewChildren(slot.node.list)) = Len(slot.node.list)
        /\ \A j \in 1 .. Len(slot.node.list) :
              NewChildren(slot.node.list)[j].channel = slot.node.list[j]
    BY <2>1, KnownTypes, EntryType, NewChildrenOf
  <2>3. slot'.node = slot.node /\ slot'.i = s + 1 /\ s \in Nat /\ Len(tree) \in Nat
    BY <2>1, KnownTypes
  <2> HIDE DEF s
  <2>4. ASSUME NEW i \in 1 .. Len(tree'), i < slot'.i, tree'[i].dev = slot'.node.dev
        PROVE  /\ Len(tree'[i].children) = Len(slot'.node.list)
               /\ \A j \in 1 .. Len(slot'.node.list) :
                     tree'[i].children[j].channel = slot'.node.list[j]
    <3>1. CASE i = s
      BY <2>1, <2>2, <2>3, <2>4, <3>1
    <3>2. CASE i # s
      <4>1. i < s /\ tree'[i] = tree[i] /\ i \in 1 .. Len(tree)
        BY <2>1, <2>3, <2>4, <3>2
      <4> QED BY <2>1, <2>3, <2>4, <4>1 DEF RebuiltInv, s
    <3> QED BY <3>1, <3>2
  <2> QED BY <2>4 DEF RebuiltInv
<1>2. CASE SlotDeviceUpdate
  <2>1. slot'.i = 1 /\ Len(tree) \in Nat /\ tree' = tree
    BY <1>2, KnownTypes DEF SlotDeviceUpdate, elsewhere
  <2> QED BY <2>1 DEF RebuiltInv
<1>3. CASE slot' \in {Idle, [in |-> "clear"]}
  BY <1>3 DEF RebuiltInv, Updating, Idle
<1>4. CASE SlotDeviceRegisted \/ UpdateDone \/ ClickStop \/ ClearDone
  BY <1>3, <1>4, TreeAfterRegisted DEF UpdateDone, ClickStop, ClearDone
<1>5. CASE ClearItem
  <2>1. ~Updating'
    BY <1>5, TreeAfterClear DEF Updating
  <2> QED BY <2>1 DEF RebuiltInv
<1>6. CASE UNCHANGED <<tree, slot>>
  BY <1>6 DEF RebuiltInv, Updating
<1>7. CASE DetachHandle \/ DeleteWindow \/ SetChannelNode \/ ClickStart
  BY <1>6, <1>7 DEF DetachHandle, DeleteWindow, SetChannelNode, ClickStart, elsewhere, treeVars
<1>8. CASE SipThread
  BY <1>6, <1>8 DEF SipThread, DeviceRegisted, DeviceUpdate, treeVars
<1> QED BY <1>1, <1>2, <1>4, <1>5, <1>6, <1>7, <1>8, StepKinds DEF SipThread

\* The work that is left says where the handle goes, as it is done step by step.
LEMMA WorkInOrder ==
    ASSUME TypeOK, DetachHandle \/ DeleteWindow \/ SetChannelNode,
           NEW c \in Channels, NEW w \in ChannelItems, WillBe(c, w)
    PROVE  WillBe(c, w)'
<1>1. /\ todo # <<>> /\ todo \in Seq(Works)
      /\ Head(todo).op \in {"drop", "add"}
  BY DEF DetachHandle, DeleteWindow, SetChannelNode, TypeOK
<1>2. /\ Len(todo) \in Nat /\ Len(todo) # 0 /\ Head(todo) = todo[1]
      /\ Len(Tail(todo)) = Len(todo) - 1
      /\ \A m \in 1 .. Len(todo) - 1 : Tail(todo)[m] = todo[m + 1]
  BY <1>1, EmptySeq, HeadTailProperties
<1>3. /\ Head(todo).child.channel \in Channels
      /\ handle \in [Channels -> ChannelItems \union {NoItem}]
  BY <1>1, HeadOfWork DEF TypeOK
<1>4. ASSUME todo' = Tail(todo), handle'[c] = handle[c],
             todo[1].op = "drop" \/ todo[1].child.channel # c
      PROVE  WillBe(c, w)'
  <2>1. CASE handle[c] = w /\ \A m \in 1 .. Len(todo) : todo[m].child.channel # c
    BY <1>2, <1>4, <2>1 DEF WillBe
  <2>2. ASSUME NEW n \in 1 .. Len(todo),
               todo[n] = [op |-> "add", child |-> w], w.channel = c,
               \A m \in n + 1 .. Len(todo) : todo[m].child.channel # c
        PROVE  WillBe(c, w)'
    <3>1. todo[n].op = "add" /\ todo[n].child = w
      BY <2>2
    <3>2. n # 1
      BY <1>4, <2>2, <3>1
    <3>3. /\ n - 1 \in 1 .. Len(todo') /\ todo'[n - 1] = todo[n]
          /\ \A m \in (n - 1) + 1 .. Len(todo') :
                m + 1 \in n + 1 .. Len(todo) /\ todo'[m] = todo[m + 1]
      BY <1>2, <1>4, <3>2
    <3> QED BY <2>2, <3>3 DEF WillBe
  <2> QED BY <2>1, <2>2 DEF WillBe
<1>5. CASE DetachHandle
  <2>1. /\ todo' = todo /\ todo[1].op = "drop"
        /\ \A e \in Channels : e # todo[1].child.channel => handle'[e] = handle[e]
    BY <1>2, <1>3, <1>5 DEF DetachHandle, Detach
  <2>2. CASE todo[1].child.channel # c
    BY <2>1, <2>2 DEF WillBe
  <2>3. CASE todo[1].child.channel = c
    <3>1. 1 \in 1 .. Len(todo)
      BY <1>2
    <3> QED BY <2>1, <2>3, <3>1 DEF WillBe
  <2> QED BY <2>2, <2>3
<1>6. CASE DeleteWindow
  BY <1>2, <1>4, <1>6 DEF DeleteWindow
<1>7. CASE SetChannelNode
  <2>1. /\ todo' = Tail(todo)
        /\ handle' = [handle EXCEPT ![todo[1].child.channel] = todo[1].child]
    BY <1>2, <1>7 DEF SetChannelNode, AttachWindow
  <2>2. CASE todo[1].child.channel # c
    BY <1>3, <1>4, <2>1, <2>2
  <2>3. CASE todo[1].child.channel = c
    <3>1. PICK n \in 1 .. Len(todo) :
             /\ todo[n] = [op |-> "add", child |-> w] /\ w.channel = c
             /\ \A m \in n + 1 .. Len(todo) : todo[m].child.channel # c
      <4>1. 1 \in 1 .. Len(todo)
        BY <1>2
      <4> QED BY <2>3, <4>1 DEF WillBe
    <3>2. CASE n = 1
      <4>1. handle'[c] = w
        BY <1>2, <1>3, <2>1, <2>3, <3>1, <3>2
      <4>2. \A m \in 1 .. Len(todo') : todo'[m].child.channel # c
        BY <1>2, <2>1, <3>1, <3>2
      <4> QED BY <4>1, <4>2 DEF WillBe
    <3>3. CASE n # 1
      <4>1. /\ n - 1 \in 1 .. Len(todo') /\ todo'[n - 1] = todo[n]
            /\ \A m \in (n - 1) + 1 .. Len(todo') :
                  m + 1 \in n + 1 .. Len(todo) /\ todo'[m] = todo[m + 1]
        BY <1>2, <2>1, <3>3
      <4> QED BY <3>1, <4>1 DEF WillBe
    <3> QED BY <3>2, <3>3
  <2> QED BY <2>2, <2>3
<1> QED BY <1>5, <1>6, <1>7

\* SettledInv while the children of an item are deleted and made.
LEMMA SettledAfterWork ==
    ASSUME TypeOK, SettledInv, DetachHandle \/ DeleteWindow \/ SetChannelNode
    PROVE  SettledInv'
<1>1. UNCHANGED <<tree, slot>>
  BY DEF DetachHandle, DeleteWindow, SetChannelNode
<1> SUFFICES ASSUME slot.in # "clear", NEW c \in Channels, NEW i0 \in 1 .. Len(tree),
                    Settled(i0), ShownIn(i0, c)
             PROVE  LastHasHandle(c)'
  BY <1>1 DEF SettledInv, Settled, Updating, ShownIn
<1>2. PICK i \in 1 .. Len(tree) :
        /\ Settled(i)
        /\ \E j \in 1 .. Len(tree[i].children) :
              tree[i].children[j].channel = c /\ WillBe(c, tree[i].children[j])
        /\ \A k \in i + 1 .. Len(tree) : Settled(k) => ~ShownIn(k, c)
  BY DEF SettledInv, LastHasHandle
<1>3. PICK j \in 1 .. Len(tree[i].children) :
        tree[i].children[j].channel = c /\ WillBe(c, tree[i].children[j])
  BY <1>2
<1>4. tree[i].children[j] \in ChannelItems
  BY KnownTypes
<1> DEFINE w == tree[i].children[j]
<1>5. WillBe(c, w)'
  <2>1. ASSUME NEW x \in ChannelItems, WillBe(c, x) PROVE WillBe(c, x)'
    BY <2>1, WorkInOrder
  <2>2. \A x \in ChannelItems : WillBe(c, x) => WillBe(c, x)'
    BY <2>1
  <2>3. w' = w
    BY <1>1
  <2> QED BY <1>3, <1>4, <2>2, <2>3 DEF WillBe
<1>6. Settled(i)' /\ \A k \in i + 1 .. Len(tree') : Settled(k)' => ~ShownIn(k, c)'
  BY <1>1, <1>2 DEF Settled, Updating, ShownIn
<1> QED BY <1>1, <1>3, <1>5, <1>6 DEF LastHasHandle

\* Rebuilding deletes the old children and then makes the new ones.
LEMMA RebuildWork ==
    ASSUME NEW old \in Seq(ChannelItems), NEW new \in Seq(ChannelItems)
    PROVE  /\ Len(old) \in Nat /\ Len(new) \in Nat
           /\ Len(Rebuild(old, new)) = Len(old) + Len(new)
           /\ \A m \in 1 .. Len(old) : Rebuild(old, new)[m] = [op |-> "drop", child |-> old[m]]
           /\ \A j \in 1 .. Len(new) :
                 Rebuild(old, new)[Len(old) + j] = [op |-> "add", child |-> new[j]]
           /\ \A m \in 1 .. Len(old) + Len(new) :
                 \/ m \in 1 .. Len(old)
                 \/ \E j \in 1 .. Len(new) : m = Len(old) + j
<1> DEFINE D == Drops(old)
           A == Adds(new)
<1>1. /\ D \in Seq(Works) /\ Len(D) = Len(old)
      /\ \A m \in 1 .. Len(old) : D[m] = [op |-> "drop", child |-> old[m]]
  BY DEF Drops, Works
<1>2. /\ A \in Seq(Works) /\ Len(A) = Len(new)
      /\ \A j \in 1 .. Len(new) : A[j] = [op |-> "add", child |-> new[j]]
  BY DEF Adds, Works
<1>3. Len(old) \in Nat /\ Len(new) \in Nat
  OBVIOUS
<1>4. Rebuild(old, new) = D \o A
  BY DEF Rebuild
<1> HIDE DEF D, A
<1>5. /\ Len(D \o A) = Len(D) + Len(A)
      /\ \A m \in 1 .. Len(D) : (D \o A)[m] = D[m]
      /\ \A j \in 1 .. Len(A) : (D \o A)[Len(D) + j] = A[j]
  <2>1. /\ Len(D \o A) = Len(D) + Len(A)
        /\ \A m \in 1 .. Len(D) + Len(A) :
              (D \o A)[m] = IF m <= Len(D) THEN D[m] ELSE A[m - Len(D)]
    BY <1>1, <1>2
  <2>2. Len(D) \in Nat /\ Len(A) \in Nat
    BY <1>1, <1>2, <1>3
  <2> QED BY <2>1, <2>2
<1>6. ASSUME NEW m \in 1 .. Len(old) + Len(new), m \notin 1 .. Len(old)
      PROVE  m - Len(old) \in 1 .. Len(new) /\ m = Len(old) + (m - Len(old))
  BY <1>3, <1>6
<1>7. \A m \in 1 .. Len(old) + Len(new) :
         m \in 1 .. Len(old) \/ \E j \in 1 .. Len(new) : m = Len(old) + j
  BY <1>6
<1> QED BY <1>1, <1>2, <1>3, <1>4, <1>5, <1>7

\* When the loop rebuilds an item of its device, the channels of the node go to its new
\* children, and those of other devices stay where they are.
LEMMA SettledAfterRebuild ==
    ASSUME TypeOK, OwnerInv, RebuiltInv, SettledInv, RebuildItem
    PROVE  SettledInv'
<1>0. PICK s, new : s = slot.i /\ new = NewChildren(slot.node.list)
  OBVIOUS
<1>1. /\ Updating /\ todo = <<>> /\ s \in 1 .. Len(tree)
      /\ slot' = [in |-> "update", node |-> slot.node, i |-> s + 1]
      /\ handle' = handle
      /\ Len(tree') = Len(tree)
      /\ \A i \in 1 .. Len(tree) :
            /\ tree'[i].dev = tree[i].dev
            /\ i # s \/ tree[i].dev # slot.node.dev => tree'[i] = tree[i]
      /\ tree[s].dev # slot.node.dev => UNCHANGED <<tree, todo>>
      /\ tree[s].dev = slot.node.dev =>
            /\ tree'[s].children = new
            /\ todo' = Rebuild(tree[s].children, new)
  BY <1>0, TreeAfterRebuild
<1>2. /\ Updating' /\ slot'.node = slot.node /\ slot'.i = s + 1
      /\ s \in Nat /\ Len(tree) \in Nat /\ slot.in # "clear"
  BY <1>1, KnownTypes DEF Updating
<1>3. /\ slot.node.dev \in Devices /\ slot.node.list \in Seq(Channels)
      /\ Len(slot.node.list) \in Nat
      /\ \A j \in 1 .. Len(slot.node.list) : slot.node.list[j] \in Channels
  BY <1>1, KnownTypes, EntryType
<1>4. /\ Len(new) = Len(slot.node.list)
      /\ \A j \in 1 .. Len(slot.node.list) : new[j].channel = slot.node.list[j]
      /\ new \in Seq(ChannelItems)
  BY <1>0, <1>3, NewChildrenOf, NewChildrenType
<1>5. ASSUME NEW c \in Channels, NEW i \in 1 .. Len(tree), ShownIn(i, c)
      PROVE  Belongs(c, tree[i].dev) /\ tree[i].dev \in Devices
  BY <1>5, KnownTypes DEF Belongs
<1>6. ASSUME NEW c \in Channels, Listed(slot.node, c)
      PROVE  Belongs(c, slot.node.dev)
  BY <1>1, <1>6 DEF Belongs
<1>7. CASE tree[s].dev # slot.node.dev
  <2>1. \A i \in 1 .. Len(tree) : Settled(i)' <=> Settled(i)
    BY <1>0, <1>1, <1>2, <1>7 DEF Settled
  <2>2. \A c \in Channels : LastHasHandle(c) => LastHasHandle(c)'
    BY <1>1, <1>7, <2>1 DEF LastHasHandle, WillBe, ShownIn
  <2> QED BY <1>1, <1>2, <1>7, <2>1, <2>2 DEF SettledInv, ShownIn
<1>8. CASE tree[s].dev = slot.node.dev
  <2>0. PICK old : old = tree[s].children
    OBVIOUS
  <2>1. /\ old \in Seq(ChannelItems) /\ Len(old) \in Nat
        /\ tree'[s].children = new /\ todo' = Rebuild(old, new)
    BY <1>1, <1>8, <2>0, KnownTypes
  <2>2. /\ Len(new) \in Nat /\ Len(todo') = Len(old) + Len(new)
        /\ \A m \in 1 .. Len(old) : todo'[m] = [op |-> "drop", child |-> old[m]]
        /\ \A j \in 1 .. Len(new) :
              todo'[Len(old) + j] = [op |-> "add", child |-> new[j]]
        /\ \A m \in 1 .. Len(todo') :
              \/ m \in 1 .. Len(old)
              \/ \E j \in 1 .. Len(new) : m = Len(old) + j
    <3>1. /\ Len(new) \in Nat /\ Len(Rebuild(old, new)) = Len(old) + Len(new)
          /\ \A m \in 1 .. Len(old) :
                Rebuild(old, new)[m] = [op |-> "drop", child |-> old[m]]
          /\ \A j \in 1 .. Len(new) :
                Rebuild(old, new)[Len(old) + j] = [op |-> "add", child |-> new[j]]
          /\ \A m \in 1 .. Len(old) + Len(new) :
                \/ m \in 1 .. Len(old)
                \/ \E j \in 1 .. Len(new) : m = Len(old) + j
      BY <1>4, <2>1, RebuildWork
    <3> QED BY <2>1, <3>1
  <2>3. /\ \A m \in 1 .. Len(old) : todo'[m].child = old[m]
        /\ \A j \in 1 .. Len(new) : todo'[Len(old) + j].child = new[j]
    <3>1. ASSUME NEW m \in 1 .. Len(old) PROVE todo'[m].child = old[m]
      <4>1. todo'[m] = [op |-> "drop", child |-> old[m]]
        BY <2>2
      <4> QED BY <4>1
    <3>2. ASSUME NEW j \in 1 .. Len(new) PROVE todo'[Len(old) + j].child = new[j]
      <4>1. todo'[Len(old) + j] = [op |-> "add", child |-> new[j]]
        BY <2>2
      <4> QED BY <4>1
    <3> QED BY <3>1, <3>2
  <2>4. \A i \in 1 .. Len(tree) :
           Settled(i)' <=> (i < s + 1 \/ tree[i].dev # slot.node.dev)
    BY <1>1, <1>2 DEF Settled
  <2> SUFFICES ASSUME NEW c \in Channels, NEW i0 \in 1 .. Len(tree),
                      Settled(i0)', ShownIn(i0, c)'
               PROVE  LastHasHandle(c)'
    BY <1>1 DEF SettledInv
  <2>5. CASE \E j \in 1 .. Len(new) : new[j].channel = c
    <3>1. PICK j \in 1 .. Len(new) : new[j].channel = c
      BY <2>5
    <3>2. Belongs(c, slot.node.dev)
      BY <1>3, <1>4, <1>6, <3>1 DEF Listed
    <3>3. WillBe(c, new[j])'
      <4>1. /\ Len(old) + j \in 1 .. Len(todo')
            /\ todo'[Len(old) + j] = [op |-> "add", child |-> new[j]]
        BY <2>1, <2>2
      <4>2. ASSUME NEW m \in Len(old) + j + 1 .. Len(todo') PROVE todo'[m].child.channel # c
        <5>1. PICK l \in 1 .. Len(new) : l # j /\ m = Len(old) + l
          BY <2>1, <2>2
        <5>2. todo'[m].child = new[l]
          BY <2>3, <5>1
        <5>3. new[l].channel # new[j].channel
          <6>1. NoDoubles(slot.node.list)
            BY <1>1 DEF OwnerInv
          <6>2. l \in 1 .. Len(slot.node.list) /\ j \in 1 .. Len(slot.node.list)
            BY <1>4
          <6> QED BY <1>4, <5>1, <6>1, <6>2 DEF NoDoubles
        <5> QED BY <3>1, <5>2, <5>3
      <4> QED BY <3>1, <4>1, <4>2 DEF WillBe
    <3>4. ASSUME NEW k \in s + 1 .. Len(tree'), Settled(k)' PROVE ~ShownIn(k, c)'
      <4>1. /\ k \in 1 .. Len(tree) /\ k # s /\ tree[k].dev # slot.node.dev
            /\ tree'[k] = tree[k]
        BY <1>1, <1>2, <2>4, <3>4
      <4>2. ~ShownIn(k, c)
        BY <1>3, <1>5, <3>2, <4>1 DEF OwnerInv
      <4> QED BY <4>1, <4>2 DEF ShownIn
    <3>5. Settled(s)' /\ s \in 1 .. Len(tree')
      BY <1>1, <1>2, <2>4
    <3>6. \E l \in 1 .. Len(tree'[s].children) :
             tree'[s].children[l].channel = c /\ WillBe(c, tree[s].children[l])'
      <4>1. PICK w : w = new[j]
        OBVIOUS
      <4>2. w = tree'[s].children[j] /\ w.channel = c /\ j \in 1 .. Len(tree'[s].children)
        BY <2>1, <3>1, <4>1
      <4> QED BY <3>3, <4>1, <4>2 DEF WillBe
    <3> QED BY <3>4, <3>5, <3>6 DEF LastHasHandle
  <2>6. CASE \A j \in 1 .. Len(new) : new[j].channel # c
    <3>1. i0 # s
      BY <2>1, <2>6 DEF ShownIn
    <3>2. tree'[i0] = tree[i0] /\ ShownIn(i0, c)
      BY <1>1, <3>1 DEF ShownIn
    <3>3. tree[i0].dev # slot.node.dev
      <4>1. SUFFICES ASSUME tree[i0].dev = slot.node.dev PROVE FALSE
        OBVIOUS
      <4>2. i0 < s
        BY <1>2, <2>4, <3>1, <4>1
      <4>3. /\ Len(tree[i0].children) = Len(slot.node.list)
            /\ \A j \in 1 .. Len(slot.node.list) :
                  tree[i0].children[j].channel = slot.node.list[j]
        BY <1>0, <1>1, <4>1, <4>2 DEF RebuiltInv
      <4> QED BY <1>4, <2>6, <3>2, <4>3 DEF ShownIn
    <3>4. Settled(i0)
      BY <3>3 DEF Settled
    <3>5. PICK i \in 1 .. Len(tree) :
            /\ Settled(i)
            /\ \E j \in 1 .. Len(tree[i].children) :
                  tree[i].children[j].channel = c /\ WillBe(c, tree[i].children[j])
            /\ \A k \in i + 1 .. Len(tree) : Settled(k) => ~ShownIn(k, c)
      BY <1>2, <3>2, <3>4 DEF SettledInv, LastHasHandle
    <3>6. ASSUME NEW k \in 1 .. Len(tree), ShownIn(k, c)
          PROVE  k # s /\ tree[k].dev # slot.node.dev /\ tree'[k] = tree[k]
      <4>1. tree[k].dev = tree[i0].dev
        BY <1>5, <3>2, <3>6 DEF OwnerInv
      <4> QED BY <1>1, <1>8, <3>3, <4>1
    <3>7. ShownIn(i, c)
      BY <3>5 DEF ShownIn
    <3>8. tree'[i] = tree[i] /\ Settled(i)'
      BY <2>4, <3>6, <3>7
    <3>9. \A m \in 1 .. Len(todo') : todo'[m].child.channel # c
      <4>1. \A m \in 1 .. Len(old) : old[m].channel # c
        BY <1>1, <2>0, <3>6 DEF ShownIn
      <4>2. ASSUME NEW m \in 1 .. Len(todo') PROVE todo'[m].child.channel # c
        <5>1. CASE m \in 1 .. Len(old)
          BY <2>3, <4>1, <5>1
        <5>2. ASSUME NEW j \in 1 .. Len(new), m = Len(old) + j
              PROVE  todo'[m].child.channel # c
          BY <2>3, <2>6, <5>2
        <5> QED BY <2>2, <5>1, <5>2
      <4> QED BY <4>2
    <3>10. \E j \in 1 .. Len(tree'[i].children) :
             tree'[i].children[j].channel = c /\ WillBe(c, tree[i].children[j])'
      <4>1. PICK j \in 1 .. Len(tree[i].children) :
              tree[i].children[j].channel = c /\ WillBe(c, tree[i].children[j])
        BY <3>5
      <4>2. PICK w : w = tree[i].children[j]
        OBVIOUS
      <4>3. handle'[c] = w
        BY <1>1, <4>1, <4>2 DEF WillBe
      <4>4. w = tree'[i].children[j]
        BY <3>8, <4>2
      <4> QED BY <3>8, <3>9, <4>1, <4>3, <4>4 DEF WillBe
    <3>11. ASSUME NEW k \in i + 1 .. Len(tree'), Settled(k)' PROVE ~ShownIn(k, c)'
      <4>1. k \in 1 .. Len(tree)
        BY <1>1, <1>2
      <4>2. CASE k = s
        BY <2>1, <2>6, <4>2 DEF ShownIn
      <4>3. CASE k # s
        <5>1. tree'[k] = tree[k]
          BY <1>1, <4>1, <4>3
        <5>2. ASSUME ShownIn(k, c) PROVE FALSE
          <6>1. Settled(k)
            BY <3>6, <4>1, <5>2 DEF Settled
          <6> QED BY <1>1, <3>5, <5>2, <6>1
        <5> QED BY <5>1, <5>2 DEF ShownIn
      <4> QED BY <4>2, <4>3
    <3> QED BY <1>1, <3>5, <3>8, <3>10, <3>11 DEF LastHasHandle
  <2> QED BY <2>5, <2>6
<1> QED BY <1>7, <1>8

\* An item that is added shows nothing yet.
LEMMA SettledAfterRegisted ==
    ASSUME TypeOK, SettledInv, SlotDeviceRegisted
    PROVE  SettledInv'
<1>1. /\ slot = Idle
      /\ Len(tree') = Len(tree) + 1 /\ Len(tree) \in Nat
      /\ \A i \in 1 .. Len(tree) : tree'[i] = tree[i]
      /\ tree'[Len(tree) + 1].children = <<>>
      /\ UNCHANGED <<handle, slot, todo>>
  BY TreeAfterRegisted, KnownTypes
<1>2. ~Updating /\ ~Updating' /\ slot.in # "clear"
  BY <1>1 DEF Updating, Idle
<1>3. ASSUME NEW c \in Channels, NEW i \in 1 .. Len(tree'), ShownIn(i, c)'
      PROVE  i \in 1 .. Len(tree) /\ ShownIn(i, c)
  <2>1. i # Len(tree) + 1
    BY <1>1, <1>3 DEF ShownIn
  <2>2. i \in 1 .. Len(tree)
    BY <1>1, <2>1
  <2> QED BY <1>1, <1>3, <2>2 DEF ShownIn
<1>4. ASSUME NEW c \in Channels, LastHasHandle(c) PROVE LastHasHandle(c)'
  <2>1. PICK i \in 1 .. Len(tree) :
          /\ \E j \in 1 .. Len(tree[i].children) :
                tree[i].children[j].channel = c /\ WillBe(c, tree[i].children[j])
          /\ \A k \in i + 1 .. Len(tree) : ~ShownIn(k, c)
    BY <1>2, <1>4 DEF LastHasHandle, Settled
  <2>2. i \in 1 .. Len(tree') /\ tree'[i] = tree[i]
    BY <1>1
  <2>3. \A k \in i + 1 .. Len(tree') : ~ShownIn(k, c)'
    <3>1. ASSUME NEW k \in i + 1 .. Len(tree'), ShownIn(k, c)' PROVE FALSE
      <4>1. k \in 1 .. Len(tree')
        BY <1>1
      <4>2. k \in 1 .. Len(tree) /\ ShownIn(k, c)
        BY <1>3, <3>1, <4>1
      <4> QED BY <1>1, <2>1, <4>2
    <3> QED BY <3>1
  <2>4. \E j \in 1 .. Len(tree'[i].children) :
           tree'[i].children[j].channel = c /\ WillBe(c, tree[i].children[j])'
    BY <1>1, <2>1, <2>2 DEF WillBe
  <2> QED BY <1>2, <2>2, <2>3, <2>4 DEF LastHasHandle, Settled
<1>5. ASSUME NEW c \in Channels, NEW i \in 1 .. Len(tree'), ShownIn(i, c)'
      PROVE  LastHasHandle(c)'
  <2>1. LastHasHandle(c)
    BY <1>2, <1>3, <1>5 DEF SettledInv, Settled
  <2> QED BY <1>4, <2>1
<1> QED BY <1>5 DEF SettledInv

\* At the beginning of an update, the items of its device are no longer settled.
LEMMA SettledAtUpdate ==
    ASSUME TypeOK, OwnerInv, SettledInv, SlotDeviceUpdate
    PROVE  SettledInv'
<1>1. /\ slot = Idle /\ slot' = [in |-> "update", node |-> Head(signals).node, i |-> 1]
      /\ UNCHANGED <<tree, handle, todo>> /\ Len(tree) \in Nat
  BY KnownTypes DEF SlotDeviceUpdate, EventLoop, elsewhere
<1>2. ~Updating /\ slot.in # "clear" /\ Updating' /\ slot'.i = 1
  BY <1>1 DEF Updating, Idle
<1>3. PICK d : d = slot'.node.dev
  OBVIOUS
<1>4. \A i \in 1 .. Len(tree) : Settled(i)' <=> tree[i].dev # d
  BY <1>1, <1>2, <1>3 DEF Settled
<1> SUFFICES ASSUME NEW c \in Channels, NEW i0 \in 1 .. Len(tree),
                    Settled(i0)', ShownIn(i0, c)
             PROVE  LastHasHandle(c)'
  BY <1>1 DEF SettledInv, ShownIn
<1>5. PICK i \in 1 .. Len(tree) :
        /\ \E j \in 1 .. Len(tree[i].children) :
              tree[i].children[j].channel = c /\ WillBe(c, tree[i].children[j])
        /\ \A k \in i + 1 .. Len(tree) : ~ShownIn(k, c)
  BY <1>2 DEF SettledInv, LastHasHandle, Settled
<1>6. Belongs(c, tree[i].dev) /\ Belongs(c, tree[i0].dev)
  BY <1>5 DEF Belongs, ShownIn
<1>7. tree[i].dev = tree[i0].dev
  BY <1>6, KnownTypes DEF OwnerInv
<1>8. Settled(i)'
  BY <1>4, <1>7
<1>9. /\ \E j \in 1 .. Len(tree'[i].children) :
            tree'[i].children[j].channel = c /\ WillBe(c, tree[i].children[j])'
      /\ \A k \in i + 1 .. Len(tree') : ~ShownIn(k, c)'
  BY <1>1, <1>5 DEF WillBe, ShownIn
<1> QED BY <1>1, <1>8, <1>9 DEF LastHasHandle

LEMMA SettledInductive ==
    ASSUME TypeOK, OwnerInv, RebuiltInv, SettledInv, [Next]_vars
    PROVE  SettledInv'
<1>1. CASE UpdateDone
  <2>1. /\ Updating /\ ~Updating' /\ slot.in # "clear" /\ slot.i > Len(tree)
        /\ UNCHANGED <<tree, handle, todo>>
    BY <1>1 DEF UpdateDone, Updating, Idle, elsewhere
  <2>2. \A i \in 1 .. Len(tree) : Settled(i) /\ Settled(i)'
    BY <2>1, KnownTypes DEF Settled
  <2>3. \A c \in Channels : LastHasHandle(c) => LastHasHandle(c)'
    BY <2>1, <2>2 DEF LastHasHandle, WillBe, ShownIn
  <2> QED BY <2>1, <2>2, <2>3 DEF SettledInv, ShownIn
<1>2. CASE ClickStop
  BY <1>2 DEF ClickStop, SettledInv
<1>3. CASE ClearItem
  BY <1>3, TreeAfterClear DEF SettledInv
<1>4. CASE ClearDone
  <2>1. tree' = <<>>
    BY <1>4 DEF ClearDone
  <2> QED BY <2>1 DEF SettledInv
<1>5. CASE UNCHANGED <<tree, slot, handle, todo>>
  BY <1>5 DEF SettledInv, LastHasHandle, WillBe, ShownIn, Settled, Updating
<1>6. CASE ClickStart \/ SipThread
  BY <1>5, <1>6 DEF ClickStart, SipThread, DeviceRegisted, DeviceUpdate, treeVars
<1> QED BY <1>1, <1>2, <1>3, <1>4, <1>5, <1>6, StepKinds, SettledAfterRegisted,
           SettledAtUpdate, SettledAfterRebuild, SettledAfterWork DEF SipThread

\* What the items show when the window is idle is what the handles are set to.
LEMMA IdleHandles ==
    ASSUME TypeOK, SettledInv, slot = Idle, todo = <<>>,
           NEW c \in Channels, NEW k \in 1 .. Len(tree), ShownIn(k, c)
    PROVE  \E i \in 1 .. Len(tree) :
             /\ \E j \in 1 .. Len(tree[i].children) :
                   tree[i].children[j].channel = c /\ handle[c] = tree[i].children[j]
             /\ \A l \in i + 1 .. Len(tree) : ~ShownIn(l, c)
<1>1. slot.in # "clear" /\ \A i : Settled(i)
  BY DEF Settled, Updating, Idle
<1>2. \A w : WillBe(c, w) => handle[c] = w
  BY DEF WillBe
<1> QED BY <1>1, <1>2 DEF SettledInv, LastHasHandle

LEMMA VideoInitially == Init => VideoInv
<1> SUFFICES ASSUME Init PROVE VideoInv
  OBVIOUS
<1>1. entries = <<>> /\ signals = <<>> /\ tree = <<>> /\ ~Updating
  BY DEF Init, Updating, Idle
<1> QED BY <1>1 DEF VideoInv, OwnerInv, RebuiltInv, SettledInv, Belongs

LEMMA VideoStep ==
    ASSUME WindowInv, QuietInv, VideoInv, [Next]_vars
    PROVE  WindowInv' /\ QuietInv' /\ VideoInv'
<1>1. WindowInv' /\ QuietInv'
  BY TypeInductive, HandlesInductive, ButtonsInductive, WorkInductive, CallsInductive,
     SelectionInductive, ServerInductive DEF QuietInv, WindowInv
<1>2. VideoInv'
  BY OwnerInductive, RebuiltInductive, SettledInductive DEF WindowInv, VideoInv
<1> QED BY <1>1, <1>2

\* Between the slots, the video of every channel goes to the last item that shows it:
\* for every set of devices and every bound, whatever is announced, in whatever order,
\* and however often the server is stopped.
THEOREM VideoGoesToTheLastItem == Spec => []VideoGoesToLastItem
<1> DEFINE Inv == WindowInv /\ QuietInv /\ VideoInv
<1>1. Init => Inv
  BY InitWindowInv, VideoInitially DEF Init, QuietInv, NoDanglingCall
<1>2. Inv /\ [Next]_vars => Inv'
  BY VideoStep
<1>3. Inv => VideoGoesToLastItem
  <2> SUFFICES ASSUME Inv, slot = Idle, NEW k \in 1 .. Len(tree),
                      NEW j \in 1 .. Len(tree[k].children),
                      \A l \in k + 1 .. Len(tree) : ~ShownIn(l, tree[k].children[j].channel)
               PROVE  handle[tree[k].children[j].channel] = tree[k].children[j]
    BY DEF VideoGoesToLastItem
  <2> DEFINE c == tree[k].children[j].channel
  <2>1. TypeOK /\ OwnerInv /\ SettledInv /\ todo = <<>> /\ Len(tree) \in Nat
    BY KnownTypes DEF WindowInv, VideoInv, QuietInv
  <2>2. c \in Channels /\ ShownIn(k, c)
    BY <2>1, KnownTypes DEF ShownIn
  <2>3. PICK i \in 1 .. Len(tree) :
          /\ \E l \in 1 .. Len(tree[i].children) :
                tree[i].children[l].channel = c /\ handle[c] = tree[i].children[l]
          /\ \A l \in i + 1 .. Len(tree) : ~ShownIn(l, c)
    BY <2>1, <2>2, IdleHandles
  <2>4. ShownIn(i, c)
    BY <2>3 DEF ShownIn
  <2>5. i = k
    BY <2>1, <2>2, <2>3, <2>4
  <2> QED BY <2>1, <2>3, <2>5 DEF OwnerInv
<1> QED BY <1>1, <1>2, <1>3, PTL DEF Spec

-----------------------------------------------------------------------------
\* What becomes of an announcement when another device is announced behind it.
LEMMA AnnounceBehind ==
    ASSUME TypeOK, NEW kind, NEW other \in Entries, Announce(kind, other),
           UNCHANGED <<slot, tree>>, NEW node \in Entries
    PROVE  /\ GetsItem(node.dev) => GetsItem(node.dev)'
           /\ OnItsWay(node) /\ other.dev # node.dev => OnItsWay(node)'
<1>1. /\ Len(signals) \in Nat /\ Len(signals') = Len(signals) + 1
      /\ \A m \in 1 .. Len(signals) : signals'[m] = signals[m]
      /\ signals'[Len(signals) + 1].node = other
  BY SignalsAfterAnnounce
<1>2. HasItem(node.dev)' = HasItem(node.dev)
  BY DEF HasItem
<1>3. GetsItem(node.dev) => GetsItem(node.dev)'
  BY <1>1, <1>2 DEF GetsItem, RegistedBefore
<1>4. ASSUME other.dev # node.dev, OnItsWay(node) PROVE OnItsWay(node)'
  <2>1. ASSUME NEW n \in Nat \ {0}, NoSignalFrom(node.dev, n)
        PROVE  NoSignalFrom(node.dev, n)'
    <3>1. ASSUME NEW m \in n .. Len(signals') PROVE signals'[m].node.dev # node.dev
      <4>1. CASE m = Len(signals) + 1
        BY <1>1, <1>4, <4>1
      <4>2. CASE m # Len(signals) + 1
        <5>1. m \in 1 .. Len(signals) /\ m \in n .. Len(signals)
          BY <1>1, <4>2
        <5> QED BY <1>1, <2>1, <5>1 DEF NoSignalFrom
      <4> QED BY <4>1, <4>2
    <3> QED BY <3>1 DEF NoSignalFrom
  <2>2. CASE StillQueued(node)
    <3>1. PICK n \in 1 .. Len(signals) :
            /\ signals[n].kind = "update" /\ signals[n].node = node
            /\ NoSignalFrom(node.dev, n + 1)
            /\ HasItem(node.dev) \/ RegistedBefore(node.dev, n)
      BY <2>2 DEF StillQueued
    <3>2. n + 1 \in Nat \ {0} /\ n \in 1 .. Len(signals') /\ signals'[n] = signals[n]
      BY <1>1
    <3>3. NoSignalFrom(node.dev, n + 1)'
      BY <2>1, <3>1, <3>2
    <3>4. RegistedBefore(node.dev, n) => RegistedBefore(node.dev, n)'
      BY <1>1 DEF RegistedBefore
    <3> QED BY <1>2, <3>1, <3>2, <3>3, <3>4 DEF OnItsWay, StillQueued
  <2>3. CASE BeingShown(node)
    BY <1>2, <2>1, <2>3 DEF OnItsWay, BeingShown, Updating
  <2>4. CASE Displayed(node)
    BY <2>1, <2>4 DEF OnItsWay, Displayed, Updating, ShownIn
  <2> QED BY <1>4, <2>2, <2>3, <2>4 DEF OnItsWay
<1> QED BY <1>3, <1>4

LEMMA AnnouncedBySip ==
    ASSUME TypeOK, AnnouncedInv, SipThread
    PROVE  AnnouncedInv'
<1>1. ASSUME NEW d \in Devices, DeviceRegisted(d) PROVE AnnouncedInv'
  <2> DEFINE e == [dev |-> d, list |-> <<>>]
  <2>1. /\ Len(entries) \in Nat /\ Len(entries') = Len(entries) + 1
        /\ \A k \in 1 .. Len(entries) : entries'[k] = entries[k] /\ entries[k] \in Entries
        /\ entries'[Len(entries) + 1] = e /\ e \in Entries
        /\ running /\ UNCHANGED <<running, tree, slot>>
        /\ Announce("registed", e)
    BY <1>1, EntriesAfterRegisted, KnownTypes
  <2>2. e.list = <<>> /\ e.dev = d
    OBVIOUS
  <2> HIDE DEF e
  <2>3. ASSUME NEW k \in 1 .. Len(entries')
        PROVE  /\ GetsItem(entries[k].dev)'
               /\ Sole(k)' /\ entries'[k].list # <<>> => OnItsWay(entries[k])'
    <3>1. CASE k = Len(entries) + 1
      <4>1. /\ Len(signals) \in Nat /\ Len(signals') = Len(signals) + 1
            /\ signals'[Len(signals) + 1].kind = "registed"
            /\ signals'[Len(signals) + 1].node = e
        BY <2>1, SignalsAfterAnnounce
      <4> QED BY <2>1, <2>2, <3>1, <4>1 DEF GetsItem, RegistedBefore
    <3>2. CASE k \in 1 .. Len(entries)
      <4>1. PICK node \in Entries : node = entries[k] /\ node = entries'[k]
        BY <2>1, <3>2
      <4>2. GetsItem(node.dev)'
        BY <2>1, <3>2, <4>1, AnnounceBehind DEF AnnouncedInv
      <4>3. ASSUME Sole(k)', node.list # <<>> PROVE OnItsWay(node)'
        <5>1. Sole(k) /\ node.dev # d
          BY <2>1, <2>2, <3>2, <4>1, <4>3 DEF Sole
        <5>2. OnItsWay(node)
          BY <3>2, <4>1, <4>3, <5>1 DEF AnnouncedInv
        <5> QED BY <2>1, <2>2, <5>1, <5>2, AnnounceBehind
      <4> QED BY <4>1, <4>2, <4>3 DEF GetsItem, HasItem, RegistedBefore, OnItsWay, StillQueued,
                 BeingShown, Displayed, NoSignalFrom
    <3> QED BY <2>1, <3>1, <3>2
  <2> QED BY <2>1, <2>3 DEF AnnouncedInv
<1>2. ASSUME NEW k0 \in 1 .. Len(entries), NEW isNew \in BOOLEAN, DeviceUpdate(k0, isNew)
      PROVE  AnnouncedInv'
  <2>1. PICK new \in Entries :
          /\ new.dev = entries[k0].dev /\ new.list # <<>>
          /\ Announce("update", new)
          /\ Len(entries') = Len(entries) /\ entries'[k0] = new
          /\ \A l \in 1 .. Len(entries) : l # k0 => entries'[l] = entries[l]
          /\ running
          /\ UNCHANGED <<running, tree, slot>>
    BY <1>2, NodeAfterUpdate
  <2>2. \A k \in 1 .. Len(entries) : entries'[k].dev = entries[k].dev
    BY <2>1
  <2>3. ASSUME NEW k \in 1 .. Len(entries')
        PROVE  /\ GetsItem(entries[k].dev)'
               /\ Sole(k)' /\ entries'[k].list # <<>> => OnItsWay(entries[k])'
    <3>1. k \in 1 .. Len(entries) /\ entries[k] \in Entries
      BY <2>1, KnownTypes
    <3>2. PICK node \in Entries : node = entries'[k]
      BY <2>1, <3>1
    <3>3. GetsItem(node.dev)
      BY <2>2, <3>1, <3>2 DEF AnnouncedInv
    <3>4. GetsItem(node.dev)'
      BY <2>1, <3>3, AnnounceBehind
    <3>5. ASSUME Sole(k)', node.list # <<>> PROVE OnItsWay(node)'
      <4>1. CASE k = k0
        <5>1. /\ Len(signals) \in Nat /\ Len(signals') = Len(signals) + 1
              /\ \A m \in 1 .. Len(signals) : signals'[m] = signals[m]
              /\ signals'[Len(signals) + 1].kind = "update"
              /\ signals'[Len(signals) + 1].node = new
          BY <2>1, SignalsAfterAnnounce
        <5>2. node = new
          BY <2>1, <3>2, <4>1
        <5>3. HasItem(node.dev)' \/ RegistedBefore(node.dev, Len(signals) + 1)
          BY <2>1, <3>3 DEF GetsItem, HasItem
        <5>4. RegistedBefore(node.dev, Len(signals) + 1) =>
                 \E m \in 1 .. Len(signals') - 1 :
                    signals'[m].kind = "registed" /\ signals'[m].node.dev = node.dev
          BY <5>1 DEF RegistedBefore
        <5>5. \A m \in Len(signals') + 1 .. Len(signals') : FALSE
          BY <5>1
        <5>6. Len(signals') \in 1 .. Len(signals')
          BY <5>1
        <5> QED BY <5>1, <5>2, <5>3, <5>4, <5>5, <5>6
                DEF OnItsWay, StillQueued, NoSignalFrom, RegistedBefore
      <4>2. CASE k # k0
        <5>1. node = entries[k] /\ new.dev # node.dev /\ Sole(k)
          BY <2>1, <2>2, <3>1, <3>2, <3>5, <4>2 DEF Sole
        <5>2. OnItsWay(node)
          BY <3>1, <3>5, <5>1 DEF AnnouncedInv
        <5> QED BY <2>1, <5>1, <5>2, AnnounceBehind
      <4> QED BY <4>1, <4>2
    <3> QED BY <3>2, <3>4, <3>5 DEF GetsItem, HasItem, RegistedBefore, OnItsWay, StillQueued,
               BeingShown, Displayed, NoSignalFrom
  <2> QED BY <2>1, <2>3 DEF AnnouncedInv
<1> QED BY <1>1, <1>2 DEF SipThread

\* A signal is delivered: the first of the queue goes, and the others move up.
LEMMA SignalsMoveUp ==
    ASSUME TypeOK, signals # <<>>, signals' = Tail(signals), NEW d
    PROVE  /\ \A n \in 1 .. Len(signals) : NoSignalFrom(d, n + 1) => NoSignalFrom(d, n)'
           /\ NoSignalFrom(d, 1) => NoSignalFrom(d, 1)' /\ Head(signals).node.dev # d
           /\ \A n \in 1 .. Len(signals) + 1 : RegistedBefore(d, n) =>
                 \/ n # 1 /\ RegistedBefore(d, n - 1)'
                 \/ Head(signals).kind = "registed" /\ Head(signals).node.dev = d
<1>1. /\ Len(signals) \in Nat /\ 1 \in 1 .. Len(signals) /\ Head(signals) = signals[1]
      /\ Len(signals') = Len(signals) - 1
      /\ \A m \in 1 .. Len(signals') :
            m + 1 \in 1 .. Len(signals) /\ signals'[m] = signals[m + 1]
  BY SignalsAfterHead
<1>2. ASSUME NEW n \in 1 .. Len(signals), NoSignalFrom(d, n + 1) PROVE NoSignalFrom(d, n)'
  <2>1. ASSUME NEW m \in n .. Len(signals') PROVE signals'[m].node.dev # d
    <3>1. m \in 1 .. Len(signals') /\ m + 1 \in n + 1 .. Len(signals)
      BY <1>1
    <3> QED BY <1>1, <1>2, <3>1 DEF NoSignalFrom
  <2> QED BY <2>1 DEF NoSignalFrom
<1>3. ASSUME NoSignalFrom(d, 1) PROVE NoSignalFrom(d, 1)' /\ Head(signals).node.dev # d
  <2>1. NoSignalFrom(d, 1 + 1)
    BY <1>3 DEF NoSignalFrom
  <2> QED BY <1>1, <1>2, <1>3, <2>1 DEF NoSignalFrom
<1>4. ASSUME NEW n \in 1 .. Len(signals) + 1, RegistedBefore(d, n),
             ~(Head(signals).kind = "registed" /\ Head(signals).node.dev = d)
      PROVE  n # 1 /\ RegistedBefore(d, n - 1)'
  <2>1. PICK m \in 1 .. n - 1 : signals[m].kind = "registed" /\ signals[m].node.dev = d
    BY <1>4 DEF RegistedBefore
  <2>2. m # 1
    BY <1>1, <1>4, <2>1
  <2>3. m - 1 \in 1 .. (n - 1) - 1 /\ m - 1 \in 1 .. Len(signals') /\ (m - 1) + 1 = m
    BY <1>1, <2>2
  <2>4. signals'[m - 1] = signals[m]
    BY <1>1, <2>3
  <2> QED BY <1>1, <2>1, <2>3, <2>4 DEF RegistedBefore
<1> QED BY <1>2, <1>3, <1>4

LEMMA AnnouncedAfterRegisted ==
    ASSUME TypeOK, SlotDeviceRegisted, NEW node \in Entries
    PROVE  /\ GetsItem(node.dev) => GetsItem(node.dev)'
           /\ OnItsWay(node) => OnItsWay(node)'
<1>1. /\ Head(signals).kind = "registed" /\ signals # <<>> /\ signals' = Tail(signals)
      /\ slot = Idle /\ slot' = slot
      /\ Len(tree') = Len(tree) + 1 /\ Len(tree) \in Nat
      /\ \A i \in 1 .. Len(tree) : tree'[i] = tree[i]
      /\ tree'[Len(tree) + 1].dev = Head(signals).node.dev
  BY TreeAfterRegisted, KnownTypes
<1>2. /\ Len(signals) \in Nat /\ Head(signals) = signals[1]
      /\ Len(signals') = Len(signals) - 1 /\ Len(signals) >= 1
      /\ \A m \in 1 .. Len(signals') : signals'[m] = signals[m + 1]
  BY <1>1, SignalsAfterHead
<1>3. ~Updating /\ ~Updating'
  BY <1>1 DEF Updating, Idle
<1>4. /\ HasItem(node.dev) => HasItem(node.dev)'
      /\ Head(signals).node.dev = node.dev => HasItem(node.dev)'
  BY <1>1 DEF HasItem
<1>5. ASSUME NEW n \in 1 .. Len(signals) + 1, HasItem(node.dev) \/ RegistedBefore(node.dev, n)
      PROVE  HasItem(node.dev)' \/ (n # 1 /\ RegistedBefore(node.dev, n - 1)')
  BY <1>1, <1>4, <1>5, SignalsMoveUp
<1>6. GetsItem(node.dev) => GetsItem(node.dev)'
  <2>1. /\ Len(signals) + 1 \in 1 .. Len(signals) + 1
        /\ (Len(signals) + 1) - 1 = Len(signals') + 1
    BY <1>2
  <2>2. ASSUME RegistedBefore(node.dev, (Len(signals) + 1) - 1)'
        PROVE  RegistedBefore(node.dev, Len(signals) + 1)'
    BY <1>2, <2>2 DEF RegistedBefore
  <2>3. ASSUME GetsItem(node.dev)
        PROVE  HasItem(node.dev)'
                  \/ \E m \in 1 .. Len(signals') :
                        signals'[m].kind = "registed" /\ signals'[m].node.dev = node.dev
    <3>1. PICK n : n = Len(signals) + 1
      OBVIOUS
    <3>2. HasItem(node.dev)' \/ (n # 1 /\ RegistedBefore(node.dev, n - 1)')
      BY <1>5, <2>1, <2>3, <3>1 DEF GetsItem
    <3>3. 1 .. (n - 1) - 1 = 1 .. Len(signals')
      BY <1>2, <3>1
    <3> QED BY <3>2, <3>3 DEF RegistedBefore
  <2>4. (Len(signals') + 1) - 1 = Len(signals')
    BY <1>2
  <2> QED BY <2>3, <2>4 DEF GetsItem, RegistedBefore
<1>7. ASSUME StillQueued(node) PROVE StillQueued(node)'
  <2>1. PICK n \in 1 .. Len(signals) :
          /\ signals[n].kind = "update" /\ signals[n].node = node
          /\ NoSignalFrom(node.dev, n + 1)
          /\ HasItem(node.dev) \/ RegistedBefore(node.dev, n)
    BY <1>7 DEF StillQueued
  <2>2. n # 1
    BY <1>1, <1>2, <2>1
  <2>3. /\ n - 1 \in 1 .. Len(signals') /\ n \in 1 .. Len(signals) + 1
        /\ (n - 1) + 1 = n
    BY <1>2, <2>2
  <2>4. signals'[n - 1] = signals[n]
    BY <1>2, <2>3
  <2>5. NoSignalFrom(node.dev, n)'
    BY <1>1, <2>1, SignalsMoveUp
  <2>6. HasItem(node.dev)' \/ RegistedBefore(node.dev, n - 1)'
    BY <1>5, <2>1, <2>3
  <2> QED BY <2>1, <2>3, <2>4, <2>5, <2>6 DEF StillQueued
<1>8. ASSUME Displayed(node) PROVE Displayed(node)'
  <2>1. NoSignalFrom(node.dev, 1)'
    BY <1>1, <1>8, SignalsMoveUp DEF Displayed
  <2>2. \E i \in 1 .. Len(tree') :
          /\ tree'[i].dev = node.dev
          /\ \A j \in 1 .. Len(node.list) : ShownIn(i, node.list[j])'
    <3>1. PICK i \in 1 .. Len(tree) :
            /\ tree[i].dev = node.dev
            /\ \A j \in 1 .. Len(node.list) : ShownIn(i, node.list[j])
      BY <1>8 DEF Displayed
    <3>2. i \in 1 .. Len(tree') /\ tree'[i] = tree[i]
      BY <1>1
    <3> QED BY <3>1, <3>2 DEF ShownIn
  <2> QED BY <1>3, <2>1, <2>2 DEF Displayed
<1> QED BY <1>3, <1>6, <1>7, <1>8 DEF OnItsWay, BeingShown

LEMMA AnnouncedAtUpdate ==
    ASSUME TypeOK, SlotDeviceUpdate, NEW node \in Entries
    PROVE  /\ GetsItem(node.dev) => GetsItem(node.dev)'
           /\ OnItsWay(node) => OnItsWay(node)'
<1>1. /\ Head(signals).kind = "update" /\ signals # <<>> /\ signals' = Tail(signals)
      /\ slot = Idle /\ Updating' /\ slot'.node = Head(signals).node
      /\ tree' = tree
  BY DEF SlotDeviceUpdate, EventLoop, elsewhere, Updating
<1>2. /\ Len(signals) \in Nat /\ Head(signals) = signals[1]
      /\ Len(signals') = Len(signals) - 1 /\ Len(signals) >= 1
      /\ \A m \in 1 .. Len(signals') : signals'[m] = signals[m + 1]
  BY <1>1, SignalsAfterHead
<1>3. ~Updating
  BY <1>1 DEF Updating, Idle
<1>4. HasItem(node.dev) <=> HasItem(node.dev)'
  BY <1>1 DEF HasItem
<1>5. ASSUME NEW n \in 1 .. Len(signals) + 1, HasItem(node.dev) \/ RegistedBefore(node.dev, n)
      PROVE  HasItem(node.dev)' \/ (n # 1 /\ RegistedBefore(node.dev, n - 1)')
  BY <1>1, <1>4, <1>5, SignalsMoveUp
<1>6. GetsItem(node.dev) => GetsItem(node.dev)'
  <2>1. ASSUME GetsItem(node.dev)
        PROVE  HasItem(node.dev)'
                  \/ \E m \in 1 .. Len(signals') :
                        signals'[m].kind = "registed" /\ signals'[m].node.dev = node.dev
    <3>1. PICK n : n = Len(signals) + 1
      OBVIOUS
    <3>2. n \in 1 .. Len(signals) + 1 /\ 1 .. (n - 1) - 1 = 1 .. Len(signals')
      BY <1>2, <3>1
    <3>3. HasItem(node.dev)' \/ (n # 1 /\ RegistedBefore(node.dev, n - 1)')
      BY <1>5, <2>1, <3>1, <3>2 DEF GetsItem
    <3> QED BY <3>2, <3>3 DEF RegistedBefore
  <2>2. (Len(signals') + 1) - 1 = Len(signals')
    BY <1>2
  <2> QED BY <2>1, <2>2 DEF GetsItem, RegistedBefore
<1>7. ASSUME StillQueued(node) PROVE OnItsWay(node)'
  <2>1. PICK n \in 1 .. Len(signals) :
          /\ signals[n].kind = "update" /\ signals[n].node = node
          /\ NoSignalFrom(node.dev, n + 1)
          /\ HasItem(node.dev) \/ RegistedBefore(node.dev, n)
    BY <1>7 DEF StillQueued
  <2>2. NoSignalFrom(node.dev, n)'
    BY <1>1, <2>1, SignalsMoveUp
  <2>3. n \in 1 .. Len(signals) + 1
    BY <1>2
  <2>4. CASE n = 1
    <3>1. HasItem(node.dev)'
      BY <1>5, <2>1, <2>3, <2>4
    <3>2. slot'.node = node /\ NoSignalFrom(node.dev, 1)'
      BY <1>1, <1>2, <2>1, <2>2, <2>4
    <3> QED BY <1>1, <3>1, <3>2 DEF OnItsWay, BeingShown
  <2>5. CASE n # 1
    <3>1. n - 1 \in 1 .. Len(signals') /\ (n - 1) + 1 = n
      BY <1>2, <2>5
    <3>2. signals'[n - 1] = signals[n]
      BY <1>2, <3>1
    <3>3. HasItem(node.dev)' \/ RegistedBefore(node.dev, n - 1)'
      BY <1>5, <2>1, <2>3
    <3> QED BY <2>1, <2>2, <3>1, <3>2, <3>3 DEF OnItsWay, StillQueued
  <2> QED BY <2>4, <2>5
<1>8. ASSUME Displayed(node) PROVE Displayed(node)'
  <2>1. NoSignalFrom(node.dev, 1)' /\ slot'.node.dev # node.dev
    BY <1>1, <1>8, SignalsMoveUp DEF Displayed
  <2> QED BY <1>1, <1>8, <2>1 DEF Displayed, ShownIn
<1> QED BY <1>3, <1>6, <1>7, <1>8 DEF OnItsWay, BeingShown

LEMMA AnnouncedAfterRebuild ==
    ASSUME TypeOK, RebuildItem, NEW node \in Entries
    PROVE  /\ GetsItem(node.dev) => GetsItem(node.dev)'
           /\ OnItsWay(node) => OnItsWay(node)'
<1>1. /\ Updating /\ signals' = signals /\ Len(tree') = Len(tree)
      /\ slot' = [in |-> "update", node |-> slot.node, i |-> slot.i + 1]
      /\ \A i \in 1 .. Len(tree) :
            /\ tree'[i].dev = tree[i].dev
            /\ tree[i].dev # slot.node.dev => tree'[i] = tree[i]
  BY TreeAfterRebuild
<1>2. Updating' /\ slot'.node = slot.node
  BY <1>1 DEF Updating
<1>3. HasItem(node.dev) <=> HasItem(node.dev)'
  BY <1>1 DEF HasItem
<1>4. GetsItem(node.dev) => GetsItem(node.dev)'
  BY <1>1, <1>3 DEF GetsItem, RegistedBefore
<1>5. StillQueued(node) => StillQueued(node)'
  BY <1>1, <1>3 DEF StillQueued, RegistedBefore, NoSignalFrom
<1>6. BeingShown(node) => BeingShown(node)'
  BY <1>1, <1>2, <1>3 DEF BeingShown, NoSignalFrom
<1>7. ASSUME Displayed(node) PROVE Displayed(node)'
  <2>1. PICK i \in 1 .. Len(tree) :
          /\ tree[i].dev = node.dev
          /\ \A j \in 1 .. Len(node.list) : ShownIn(i, node.list[j])
    BY <1>7 DEF Displayed
  <2>2. tree'[i] = tree[i] /\ slot.node.dev # node.dev
    BY <1>1, <1>7, <2>1 DEF Displayed
  <2>3. \A j \in 1 .. Len(node.list) : ShownIn(i, node.list[j])'
    BY <2>1, <2>2 DEF ShownIn
  <2> QED BY <1>1, <1>2, <1>7, <2>1, <2>2, <2>3 DEF Displayed, NoSignalFrom
<1> QED BY <1>4, <1>5, <1>6, <1>7 DEF OnItsWay

\* At the end of an update, an item shows what the slot was called with.
LEMMA AnnouncedAfterUpdate ==
    ASSUME TypeOK, RebuiltInv, UpdateDone, NEW node \in Entries
    PROVE  /\ GetsItem(node.dev) => GetsItem(node.dev)'
           /\ OnItsWay(node) => OnItsWay(node)'
<1>1. /\ Updating /\ ~Updating' /\ slot.i > Len(tree) /\ slot.i \in Nat /\ Len(tree) \in Nat
      /\ UNCHANGED <<signals, tree>>
  BY KnownTypes DEF UpdateDone, Updating, Idle, elsewhere
<1>2. GetsItem(node.dev) => GetsItem(node.dev)'
  BY <1>1 DEF GetsItem, HasItem, RegistedBefore
<1>3. StillQueued(node) => StillQueued(node)'
  BY <1>1 DEF StillQueued, HasItem, RegistedBefore, NoSignalFrom
<1>4. Displayed(node) => Displayed(node)'
  BY <1>1 DEF Displayed, NoSignalFrom, ShownIn
<1>5. ASSUME BeingShown(node) PROVE Displayed(node)'
  <2>1. PICK i \in 1 .. Len(tree) : tree[i].dev = node.dev
    BY <1>5 DEF BeingShown, HasItem
  <2>2. /\ Len(tree[i].children) = Len(node.list)
        /\ \A j \in 1 .. Len(node.list) : tree[i].children[j].channel = node.list[j]
    BY <1>1, <1>5, <2>1 DEF RebuiltInv, BeingShown
  <2>3. \A j \in 1 .. Len(node.list) : ShownIn(i, node.list[j])
    BY <2>2 DEF ShownIn
  <2> QED BY <1>1, <1>5, <2>1, <2>3 DEF Displayed, BeingShown, NoSignalFrom, ShownIn
<1> QED BY <1>2, <1>3, <1>4, <1>5 DEF OnItsWay

LEMMA AnnouncedInductive ==
    ASSUME TypeOK, QuietInv, RebuiltInv, AnnouncedInv, [Next]_vars
    PROVE  AnnouncedInv'
<1>1. ASSUME UNCHANGED entries, running => running', running' => slot'.in # "clear",
             \A node \in Entries : GetsItem(node.dev) => GetsItem(node.dev)',
             \A node \in Entries : OnItsWay(node) => OnItsWay(node)'
      PROVE  AnnouncedInv'
  <2>1. ASSUME NEW k \in 1 .. Len(entries)
        PROVE  /\ GetsItem(entries[k].dev)'
               /\ Sole(k)' /\ entries'[k].list # <<>> => OnItsWay(entries[k])'
    <3>1. PICK node \in Entries : node = entries[k] /\ node = entries'[k]
      BY <1>1, KnownTypes
    <3>2. GetsItem(node.dev) /\ GetsItem(node.dev)'
      BY <1>1, <3>1 DEF AnnouncedInv
    <3>3. Sole(k)' /\ node.list # <<>> => OnItsWay(node)'
      BY <1>1, <3>1 DEF AnnouncedInv, Sole
    <3> QED BY <3>1, <3>2, <3>3 DEF GetsItem, HasItem, RegistedBefore, OnItsWay, StillQueued,
               BeingShown, Displayed, NoSignalFrom
  <2> QED BY <1>1, <2>1 DEF AnnouncedInv
<1>2. CASE SlotDeviceRegisted
  <2>1. UNCHANGED <<entries, running, slot>>
    BY <1>2, TreeAfterRegisted
  <2> QED BY <1>1, <1>2, <2>1, AnnouncedAfterRegisted DEF AnnouncedInv
<1>3. CASE SlotDeviceUpdate
  <2>1. UNCHANGED <<entries, running>> /\ slot'.in = "update"
    BY <1>3 DEF SlotDeviceUpdate, elsewhere
  <2> QED BY <1>1, <1>3, <2>1, AnnouncedAtUpdate
<1>4. CASE RebuildItem
  <2>1. UNCHANGED <<entries, running>> /\ slot'.in = "update"
    BY <1>4, TreeAfterRebuild
  <2> QED BY <1>1, <1>4, <2>1, AnnouncedAfterRebuild
<1>5. CASE UpdateDone
  <2>1. UNCHANGED <<entries, running>> /\ slot'.in = "loop"
    BY <1>5 DEF UpdateDone, elsewhere, Idle
  <2> QED BY <1>1, <1>5, <2>1, AnnouncedAfterUpdate
<1>6. CASE UNCHANGED <<entries, signals, tree, slot>> /\ (running => running')
           /\ (running' => slot.in # "clear")
  <2>1. \A node \in Entries :
           /\ GetsItem(node.dev) => GetsItem(node.dev)'
           /\ OnItsWay(node) => OnItsWay(node)'
    BY <1>6 DEF GetsItem, HasItem, RegistedBefore, OnItsWay, StillQueued, BeingShown,
         Displayed, NoSignalFrom, Updating, ShownIn
  <2> QED BY <1>1, <1>6, <2>1
<1>7. CASE ClickStart
  BY <1>6, <1>7 DEF ClickStart, UserInput, Idle, treeVars
<1>8. CASE DetachHandle \/ DeleteWindow \/ SetChannelNode
           \/ UNCHANGED <<running, entries, signals, tree, slot>>
  BY <1>6, <1>8 DEF DetachHandle, DeleteWindow, SetChannelNode, elsewhere, AnnouncedInv
<1>9. CASE ClickStop \/ ClearItem \/ ClearDone
  <2>1. slot.in = "clear" => ~running /\ entries = <<>>
    BY DEF AnnouncedInv
  <2>2. entries' = <<>> /\ ~running'
    BY <1>9, <2>1 DEF ClickStop, ClearItem, ClearDone, elsewhere
  <2> QED BY <2>2 DEF AnnouncedInv
<1> QED BY <1>2, <1>3, <1>4, <1>5, <1>7, <1>8, <1>9, StepKinds, AnnouncedBySip DEF SipThread

\* Once the window has worked off its signals, every channel of a device that is listed
\* once has a window: for every set of devices and every bound, whatever items earlier
\* servers and signals have left in the tree.
THEOREM ChannelsGetWindows == Spec => []ChannelsHaveWindows
<1> DEFINE Inv == WindowInv /\ QuietInv /\ VideoInv /\ AnnouncedInv
<1>1. Init => Inv
  <2> SUFFICES ASSUME Init PROVE Inv
    OBVIOUS
  <2>1. AnnouncedInv
    BY DEF Init, AnnouncedInv
  <2> QED BY <2>1, InitWindowInv, VideoInitially DEF Init, QuietInv, NoDanglingCall
<1>2. Inv /\ [Next]_vars => Inv'
  BY VideoStep, AnnouncedInductive DEF WindowInv, VideoInv
<1>3. Inv => ChannelsHaveWindows
  <2> SUFFICES ASSUME Inv, running, signals = <<>>, slot = Idle, NEW k \in 1 .. Len(entries),
                      Sole(k), NEW j \in 1 .. Len(entries[k].list)
               PROVE  handle[entries[k].list[j]] \in live
    BY DEF ChannelsHaveWindows, Sole
  <2> DEFINE c == entries[k].list[j]
  <2>1. /\ TypeOK /\ SettledInv /\ HandlesAreLive /\ AnnouncedInv /\ todo = <<>>
        /\ entries[k] \in Entries /\ c \in Channels
    BY KnownTypes, EntryType DEF WindowInv, VideoInv, QuietInv
  <2>2. entries[k].list # <<>>
    OBVIOUS
  <2>3. OnItsWay(entries[k])
    BY <2>1, <2>2 DEF AnnouncedInv
  <2>4. Displayed(entries[k])
    BY <2>3 DEF OnItsWay, StillQueued, BeingShown, Updating, Idle
  <2>5. PICK i \in 1 .. Len(tree) : ShownIn(i, c)
    BY <2>4 DEF Displayed
  <2>6. PICK l \in 1 .. Len(tree) : \E m \in 1 .. Len(tree[l].children) :
           tree[l].children[m].channel = c /\ handle[c] = tree[l].children[m]
    BY <2>1, <2>5, IdleHandles
  <2>7. handle[c] \in ChannelItems
    BY <2>1, <2>6, KnownTypes
  <2>8. handle[c] # NoItem
    BY <2>7 DEF ChannelItems, NoItem
  <2> QED BY <2>1, <2>8 DEF HandlesAreLive
<1> QED BY <1>1, <1>2, <1>3, PTL DEF Spec
=============================================================================
