---------------------------- MODULE LiveSession ----------------------------
(***************************************************************************)
(* The session in live mode, seen by the two threads that share it.  The   *)
(* capture thread runs append_packet() while the user interface filters,   *)
(* selects and clears; no operation of SessionModel but                    *)
(* poll_new_packets() takes the session mutex, and append_packet() never   *)
(* does, so the steps of the two threads interleave freely.                *)
(*                                                                         *)
(* A step is one access to a shared vector or to filter_node_.  Within a   *)
(* step a vector operation is taken to be atomic and to see the latest     *)
(* values; the C++ program has data races there, so what is shown to go    *)
(* wrong here goes wrong in the program, and what holds here holds only as *)
(* long as the vectors do not move or tear.                                *)
(*                                                                         *)
(* A filter node is a heap object owned by filter_node_ alone: serial      *)
(* tells the nodes apart, and a node that filter_node_ no longer points to *)
(* has been freed.  A write outside of a vector either does no harm or     *)
(* breaks the memory, after which nothing is claimed.                      *)
(***************************************************************************)
EXTENDS PacketStore

CONSTANT MaxPackets   \* bound: packets captured

\* At most two nodes matter at a time, the one filter_node_ owns and the one
\* the capture thread holds: three serial numbers tell a new one apart.
Node == [serial : 1..3, accepts : Filter]

ASSUME LiveAssumption == MaxPackets \in Nat /\ NoFilter \notin Node

VARIABLES rawCount,       \* raw_bytes_.size()
          filterNode,     \* filter_node_: a node, or NoFilter
          selectedIndex,  \* selected_index_ + 1
          intact,         \* no write went outside of the vectors' memory
          cap,            \* the capture thread: pc and locals of append_packet()
          ui,             \* the user's thread: pc and locals of its operation
          overlapped      \* history: the packets appended, at least in part,
                          \* during the user's latest operation

sharedVars == <<packets, sortField, sortDir, rawCount, view, filterNode, intact>>
vars == <<sharedVars, selectedIndex, cap, ui, overlapped>>

\* What evaluate() of a node, or the trivial predicate, says of p.
Evaluates(node, p) == IF node = NoFilter THEN TRUE ELSE p \in node.accepts

CapLocals == [pc : {"idle", "node", "push", "evaluate", "show"},
              packet : Packet, node : Node \cup {NoFilter}, index : Nat]

UiLocals == [pc : {"idle", "clear", "loop", "sort", "resize", "fill", "select"}, i : Nat]

TypeOK ==
    /\ StoreTypeOK
    /\ rawCount \in Nat
    /\ filterNode \in Node \cup {NoFilter}
    /\ selectedIndex \in Nat \ {0}
    /\ intact \in BOOLEAN
    /\ cap \in CapLocals
    /\ ui \in UiLocals
    /\ overlapped \in SUBSET Nat

Init ==
    /\ StoreInit
    /\ rawCount = 0
    /\ filterNode = NoFilter
    /\ selectedIndex = 1
    /\ cap \in [pc : {"idle"}, packet : Packet, node : {NoFilter}, index : {0}]
    /\ ui = [pc |-> "idle", i |-> 0]
    /\ intact = TRUE
    /\ overlapped = {}

-----------------------------------------------------------------------------
(* append_packet() and PacketStore::append() on the capture thread. *)

CapGoto(pc) == cap' = [cap EXCEPT !.pc = pc]

\* The packet whose append_packet() has begun and has not returned, by index.
Appending ==
    CASE cap.pc = "idle" -> {}
      [] cap.pc \in {"node", "push"} -> {Len(packets) + 1}
      [] cap.pc \in {"evaluate", "show"} -> {Len(packets)}

\* A packet whose append begins inside an operation of the user overlaps it.
NoteOverlap ==
    overlapped' = IF ui.pc = "idle" THEN overlapped ELSE overlapped \cup {Len(packets) + 1}

\* Mutant of PushRaw: the bytes are kept only for packets the filter shows.
PushRawShownOnly(p) ==
    /\ cap.pc = "idle" /\ Len(packets) < MaxPackets
    /\ rawCount' = IF Evaluates(filterNode, p) THEN rawCount + 1 ELSE rawCount
    /\ cap' = [cap EXCEPT !.pc = "node", !.packet = p]
    /\ NoteOverlap
    /\ UNCHANGED <<storeVars, filterNode, selectedIndex, intact, ui>>

\* raw_bytes_.push_back() of the packet just dissected.
PushRaw(p) ==
    /\ cap.pc = "idle" /\ Len(packets) < MaxPackets
    /\ rawCount' = rawCount + 1
    /\ cap' = [cap EXCEPT !.pc = "node", !.packet = p]
    /\ NoteOverlap
    /\ UNCHANGED <<storeVars, filterNode, selectedIndex, intact, ui>>

\* The thread takes the raw pointer of the filter.
ReadNode ==
    /\ cap.pc = "node"
    /\ cap' = [cap EXCEPT !.pc = "push", !.node = filterNode, !.index = Len(packets) + 1]
    /\ UNCHANGED <<sharedVars, selectedIndex, ui, overlapped>>

\* packets_.push_back()
PushPacket ==
    /\ cap.pc = "push"
    /\ packets' = Append(packets, cap.packet)
    /\ CapGoto("evaluate")
    /\ UNCHANGED <<view, sortField, sortDir, rawCount, filterNode, intact, selectedIndex, ui,
                   overlapped>>

\* The node the capture thread holds is no longer owned by filter_node_.
NodeIsFreed == cap.node # NoFilter /\ cap.node # filterNode

\* What the predicate may answer: a freed node answers anything.
Answers == IF NodeIsFreed THEN BOOLEAN ELSE {Evaluates(cap.node, packets[cap.index])}

\* The predicate is evaluated on the new packet.
Evaluate ==
    /\ cap.pc = "evaluate"
    /\ \E shown \in Answers : CapGoto(IF shown THEN "show" ELSE "idle")
    /\ UNCHANGED <<sharedVars, selectedIndex, ui, overlapped>>

\* view_.push_back()
PushView ==
    /\ cap.pc = "show"
    /\ view' = Append(view, cap.index)
    /\ CapGoto("idle")
    /\ UNCHANGED <<packets, sortField, sortDir, rawCount, filterNode, intact, selectedIndex, ui,
                   overlapped>>

Capture == (\E p \in Packet : PushRaw(p)) \/ ReadNode \/ PushPacket \/ Evaluate \/ PushView

-----------------------------------------------------------------------------
(* The user's thread. *)

UiGoto(pc, i) == ui' = [pc |-> pc, i |-> i]

\* A serial number no node in sight has.
NewSerial == CHOOSE n \in 1..3 : \A node \in {filterNode, cap.node} \ {NoFilter} : node.serial # n

\* apply_filter(): the new node replaces the old one, which is freed.
ApplyFilter(accepts) ==
    /\ ui.pc = "idle"
    /\ filterNode' = [serial |-> NewSerial, accepts |-> accepts]
    /\ UiGoto("clear", 0)
    /\ overlapped' = Appending
    /\ UNCHANGED <<storeVars, rawCount, intact, selectedIndex, cap>>

\* view_.clear()
ClearView ==
    /\ ui.pc = "clear"
    /\ view' = <<>>
    /\ UiGoto("loop", 1)
    /\ UNCHANGED <<packets, sortField, sortDir, rawCount, filterNode, intact, selectedIndex, cap,
                   overlapped>>

\* One round of the loop over packets_, whose size is read anew each time.
FilterOne ==
    /\ ui.pc = "loop"
    /\ IF ui.i <= Len(packets)
       THEN /\ view' = IF Evaluates(filterNode, packets[ui.i]) THEN Append(view, ui.i) ELSE view
            /\ UiGoto("loop", ui.i + 1)
       ELSE /\ UNCHANGED view
            /\ UiGoto("sort", 0)
    /\ UNCHANGED <<packets, sortField, sortDir, rawCount, filterNode, intact, selectedIndex, cap,
                   overlapped>>

\* clear_filter(): the node is freed.
ClearFilter ==
    /\ ui.pc = "idle"
    /\ filterNode' = NoFilter
    /\ UiGoto("resize", 0)
    /\ overlapped' = Appending
    /\ UNCHANGED <<storeVars, rawCount, intact, selectedIndex, cap>>

\* view_.resize(packets_.size()): new elements are index 0, that is 1 here.
ResizeView ==
    /\ ui.pc = "resize"
    /\ view' = [i \in 1..Len(packets) |-> IF i \in DOMAIN view THEN view[i] ELSE 1]
    /\ UiGoto("fill", 1)
    /\ UNCHANGED <<packets, sortField, sortDir, rawCount, filterNode, intact, selectedIndex, cap,
                   overlapped>>

\* Mutant of FillOne: the loop ends one short of the last packet.
FillOneShort ==
    /\ ui.pc = "fill"
    /\ IF ui.i < Len(packets)
       THEN /\ view' = IF ui.i \in DOMAIN view THEN [view EXCEPT ![ui.i] = ui.i] ELSE view
            /\ UiGoto("fill", ui.i + 1)
       ELSE /\ UNCHANGED view
            /\ UiGoto("sort", 0)
    /\ UNCHANGED <<packets, sortField, sortDir, rawCount, filterNode, intact, selectedIndex, cap,
                   overlapped>>

\* One round of the loop of reset_view().  It runs up to packets_.size(), read
\* anew, and not view_.size(): past the end of the view the write is to spare
\* capacity, where the next push_back() replaces it, or to somebody's memory.
FillOne ==
    /\ ui.pc = "fill"
    /\ \/ /\ ui.i <= Len(packets) /\ ui.i \in DOMAIN view
          /\ view' = [view EXCEPT ![ui.i] = ui.i]
          /\ UiGoto("fill", ui.i + 1)
          /\ UNCHANGED intact
       \/ /\ ui.i <= Len(packets) /\ ui.i \notin DOMAIN view
          /\ intact' \in BOOLEAN
          /\ UiGoto("fill", ui.i + 1)
          /\ UNCHANGED view
       \/ /\ ui.i > Len(packets)
          /\ UiGoto("sort", 0)
          /\ UNCHANGED <<view, intact>>
    /\ UNCHANGED <<packets, sortField, sortDir, rawCount, filterNode, selectedIndex, cap,
                   overlapped>>

\* The sort at the end of both.
SortView ==
    /\ ui.pc = "sort"
    /\ Sort(sortField, sortDir)
    /\ UiGoto("select", 0)
    /\ UNCHANGED <<rawCount, filterNode, intact, selectedIndex, cap, overlapped>>

\* Mutant of Reselect: the selection is not clamped to the new view.
ReselectUnclamped ==
    /\ ui.pc = "select"
    /\ UiGoto("idle", 0)
    /\ UNCHANGED <<sharedVars, selectedIndex, cap, overlapped>>

\* The selection is clamped to the new view.  On an empty view apply_filter()
\* resets it; clear_filter() leaves it, which is the same as packets_ is empty.
Reselect ==
    /\ ui.pc = "select"
    /\ selectedIndex' = CASE view = <<>> -> IF filterNode = NoFilter THEN selectedIndex ELSE 1
                          [] view # <<>> /\ selectedIndex > Len(view) -> Len(view)
                          [] OTHER -> selectedIndex
    /\ UiGoto("idle", 0)
    /\ UNCHANGED <<sharedVars, cap, overlapped>>

\* select() of a row the panel found in the view.
Select(i) ==
    /\ ui.pc = "idle" /\ i \in DOMAIN view
    /\ selectedIndex' = i
    /\ UNCHANGED <<sharedVars, cap, ui, overlapped>>

User == \/ \E accepts \in Filter : ApplyFilter(accepts)
        \/ ClearView \/ FilterOne
        \/ ClearFilter \/ ResizeView \/ FillOne
        \/ SortView \/ Reselect
        \/ \E i \in DOMAIN view : Select(i)

\* The memory is broken: the program may do anything, the model does nothing.
Broken == ~intact /\ UNCHANGED vars

Next == (intact /\ (Capture \/ User)) \/ Broken

Spec == Init /\ [][Next]_vars

-----------------------------------------------------------------------------
\* Every packet in the store has its bytes, and at most the one being appended
\* has its bytes already: selected_raw_bytes() and export_to_pcap() index
\* raw_bytes_ with what they find in the view, unchecked, at any moment.
BytesAreThere == intact => rawCount - Len(packets) \in {0, 1}

\* The view only names packets the store holds: packet_at() of a row stays
\* inside packets_.
RowsExist == Range(view) \subseteq DOMAIN packets

OneRow(i) == \E j \in DOMAIN view : view[j] = i /\ \A k \in DOMAIN view : view[k] = i => k = j

\* Packet i has its row if the filter accepts it, no second one, and none at
\* all if the filter rejects it.
RightlyShown(i) ==
    IF Evaluates(filterNode, packets[i]) THEN OneRow(i) ELSE i \notin Range(view)

\* The packets whose append did not overlap the latest operation of the user.
Settled == DOMAIN packets \ (overlapped \cup Appending)

\* What two operations at once may spoil, and what not.  Memory breaks only
\* when packets were appended during the operation; while it is intact every
\* row exists, however the threads interleave, and between two operations of
\* the user exactly the packets appended during the last one may be missing,
\* doubled or shown against the filter: all others are shown rightly, those
\* appended since then too.
OverlapsAreContained ==
    /\ intact \/ overlapped # {}
    /\ intact => RowsExist
    /\ (intact /\ ui.pc = "idle") => \A i \in Settled : RightlyShown(i)

\* Whenever the user's thread is between operations and there are rows, the
\* selected row is one of them, whatever the capture thread appended during
\* the last operation: only this thread ever shortens the view.
SelectedRowExists ==
    (intact /\ ui.pc = "idle" /\ view # <<>>) => selectedIndex \in DOMAIN view

\* The capture thread evaluates no node that was freed: append_packet() claims
\* that apply_filter() and clear_filter() cannot run while it does.
NodeIsAlive == cap.pc = "evaluate" => ~NodeIsFreed
=============================================================================
