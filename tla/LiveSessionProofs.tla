------------------------- MODULE LiveSessionProofs --------------------------
(***************************************************************************)
(* What survives the missing lock, proved for every set of packets, every  *)
(* filter set and every number of packets: rows name packets that exist,   *)
(* packets have their bytes, the selected row exists, and what goes wrong  *)
(* is confined to the packets appended during an operation of the user.    *)
(***************************************************************************)
EXTENDS LiveSession, PacketStoreProofs

\* Where the capture thread is tells how far rawCount is ahead and what its
\* index means; the packets only grow.
CaptureInv ==
    /\ rawCount = Len(packets) + (IF cap.pc \in {"node", "push"} THEN 1 ELSE 0)
    /\ cap.pc = "push" => cap.index = Len(packets) + 1
    /\ cap.pc \in {"evaluate", "show"} => cap.index = Len(packets) /\ packets # <<>>

\* Where the user's thread is tells which filter is being installed; an empty
\* view that clear_filter() leaves alone has the selection it started with.
UserInv ==
    /\ ui.pc \in {"clear", "loop"} => filterNode # NoFilter
    /\ ui.pc \in {"loop", "fill"} => ui.i # 0
    /\ packets = <<>> => selectedIndex = 1
    /\ (ui.pc \in {"fill", "sort", "select"} /\ filterNode = NoFilter /\ view = <<>>)
            => selectedIndex = 1
    /\ ui.pc = "idle" =>
            IF view = <<>> THEN selectedIndex = 1 ELSE selectedIndex \in DOMAIN view

LiveInv == TypeOK /\ CaptureInv /\ UserInv /\ RowsExist

-----------------------------------------------------------------------------
\* A new node has a serial number of its own.
LEMMA NewSerialFact ==
    ASSUME TypeOK
    PROVE  NewSerial \in 1..3
<1> DEFINE Taken(n) == \E node \in {filterNode, cap.node} \ {NoFilter} : node.serial = n
<1>1. \E n \in 1..3 : ~Taken(n)
  <2>1. \A n : Taken(n) => n = filterNode.serial \/ n = cap.node.serial
    OBVIOUS
  <2>2. 1 \in 1..3 /\ 2 \in 1..3 /\ 3 \in 1..3
    OBVIOUS
  <2>3. ~Taken(1) \/ ~Taken(2) \/ ~Taken(3)
    BY <2>1
  <2> QED
    BY <2>2, <2>3
<1>2. \E n \in 1..3 : \A node \in {filterNode, cap.node} \ {NoFilter} : node.serial # n
  BY <1>1
<1> QED
  BY <1>2 DEF NewSerial

\* The view stays a sequence of indices that exist when one that exists is
\* pushed to its back.
LEMMA PushFacts ==
    ASSUME view \in Seq(Nat), NEW S \in SUBSET Nat, Range(view) \subseteq S, NEW x \in S
    PROVE  /\ Append(view, x) \in Seq(Nat)
           /\ Append(view, x) # <<>>
           /\ DOMAIN view \subseteq DOMAIN Append(view, x)
           /\ Range(Append(view, x)) \subseteq S
<1>1. /\ Append(view, x) \in Seq(Nat)
      /\ Len(Append(view, x)) = Len(view) + 1
      /\ \A i \in 1..Len(view) : Append(view, x)[i] = view[i]
      /\ Append(view, x)[Len(view) + 1] = x
  BY AppendProperties
<1>2. /\ DOMAIN Append(view, x) = 1..(Len(view) + 1)
      /\ DOMAIN view = 1..Len(view) /\ Len(view) \in Nat
  BY <1>1, SeqIndices
<1>3. \A i \in DOMAIN view : view[i] \in S
  BY DEF Range
<1>4. \A i \in DOMAIN Append(view, x) : Append(view, x)[i] \in S
  BY <1>1, <1>2, <1>3
<1>5. 1 \in DOMAIN Append(view, x)
  BY <1>2
<1>6. Append(view, x) # <<>>
  BY <1>1, <1>5, SeqIndices
<1> QED
  BY <1>1, <1>2, <1>4, <1>6 DEF Range

LEMMA LiveInit == Init => LiveInv
<1> SUFFICES ASSUME Init PROVE LiveInv
  OBVIOUS
<1>1. StoreTypeOK /\ Len(packets) = 0 /\ Range(view) = {}
  BY EmptySeq DEF Init, StoreInit, StoreTypeOK, SortField, SortDirection, Range
<1>2. cap \in CapLocals /\ cap.pc = "idle"
  BY DEF Init, CapLocals
<1>3. ui \in UiLocals /\ ui.pc = "idle"
  BY DEF Init, UiLocals
<1> QED
  BY <1>1, <1>2, <1>3 DEF Init, StoreInit, LiveInv, TypeOK, CaptureInv, UserInv, RowsExist

-----------------------------------------------------------------------------
(* The steps of the capture thread. *)

\* The packet being appended is named by an index.
LEMMA AppendingFact ==
    ASSUME LiveInv
    PROVE  /\ Appending \in SUBSET Nat
           /\ cap.pc = "idle" => Appending = {}
           /\ cap.pc \in {"node", "push"} => Appending = {Len(packets) + 1}
           /\ cap.pc \in {"evaluate", "show"} => Appending = {Len(packets)}
<1>1. Len(packets) \in Nat
  BY DEF LiveInv, TypeOK, StoreTypeOK
<1>2. cap.pc \in {"idle", "node", "push", "evaluate", "show"}
  BY DEF LiveInv, TypeOK, CapLocals
<1> QED
  BY <1>1, <1>2 DEF Appending

LEMMA PushRawInv ==
    ASSUME LiveInv, NEW p \in Packet, PushRaw(p)
    PROVE  LiveInv'
<1> USE DEF LiveInv
<1>1. /\ packets \in Seq(Packet) /\ cap \in CapLocals
      /\ rawCount = Len(packets) /\ Len(packets) \in Nat
  BY DEF TypeOK, StoreTypeOK, CaptureInv, PushRaw
<1>2. /\ cap' \in CapLocals /\ cap'.pc = "node" /\ rawCount' = Len(packets) + 1
      /\ UNCHANGED <<packets, view, sortField, sortDir, filterNode, selectedIndex, intact, ui>>
  BY <1>1 DEF PushRaw, CapLocals, storeVars
<1>3. overlapped' \in SUBSET Nat
  BY <1>1 DEF PushRaw, NoteOverlap, TypeOK
<1> QED
  BY <1>1, <1>2, <1>3 DEF TypeOK, StoreTypeOK, CaptureInv, UserInv, RowsExist

LEMMA ReadNodeInv ==
    ASSUME LiveInv, ReadNode
    PROVE  LiveInv'
BY DEF LiveInv, TypeOK, StoreTypeOK, CapLocals, CaptureInv, UserInv, RowsExist,
   ReadNode, sharedVars

LEMMA EvaluateInv ==
    ASSUME LiveInv, Evaluate
    PROVE  LiveInv'
BY DEF LiveInv, TypeOK, StoreTypeOK, CapLocals, CaptureInv, UserInv, RowsExist,
   Evaluate, CapGoto, sharedVars

LEMMA PushPacketInv ==
    ASSUME LiveInv, PushPacket
    PROVE  LiveInv'
<1> USE DEF LiveInv
<1>1. packets \in Seq(Packet) /\ cap \in CapLocals /\ cap.packet \in Packet
  BY DEF TypeOK, StoreTypeOK, CapLocals
<1>2. /\ packets' \in Seq(Packet) /\ Len(packets') = Len(packets) + 1
      /\ packets' # <<>> /\ DOMAIN packets \subseteq DOMAIN packets'
  <2>1. packets' \in Seq(Packet) /\ Len(packets') = Len(packets) + 1
    BY <1>1, AppendProperties DEF PushPacket
  <2> QED
    BY <1>1, <2>1, SeqIndices, EmptySeq
<1>3. /\ cap' \in CapLocals /\ cap'.pc = "evaluate" /\ cap'.index = cap.index /\ cap.pc = "push"
      /\ UNCHANGED <<view, sortField, sortDir, rawCount, filterNode, selectedIndex, ui, intact,
                     overlapped>>
  BY <1>1 DEF PushPacket, CapGoto, CapLocals
<1> QED
  BY <1>1, <1>2, <1>3 DEF TypeOK, StoreTypeOK, CaptureInv, UserInv, RowsExist

LEMMA PushViewInv ==
    ASSUME LiveInv, PushView
    PROVE  LiveInv'
<1> USE DEF LiveInv
<1>1. /\ view' = Append(view, cap.index) /\ cap.pc = "show"
      /\ UNCHANGED <<packets, sortField, sortDir, rawCount, filterNode, selectedIndex, ui, intact,
                     overlapped>>
  BY DEF PushView
<1>2. packets \in Seq(Packet) /\ view \in Seq(Nat) /\ cap \in CapLocals
  BY DEF TypeOK, StoreTypeOK
<1>3. cap.index \in DOMAIN packets /\ DOMAIN packets \in SUBSET Nat
  BY <1>1, <1>2, SeqIndices DEF CaptureInv
<1>4. /\ view' \in Seq(Nat) /\ view' # <<>> /\ DOMAIN view \subseteq DOMAIN view'
      /\ Range(view') \subseteq DOMAIN packets
  BY <1>1, <1>2, <1>3, PushFacts DEF RowsExist
<1>5. cap' \in CapLocals /\ cap'.pc = "idle"
  BY <1>2 DEF PushView, CapGoto, CapLocals
<1>6. view = <<>> => 1 \in DOMAIN view'
  BY <1>4, SeqIndices
<1> QED
  BY <1>1, <1>2, <1>4, <1>5, <1>6 DEF TypeOK, StoreTypeOK, CaptureInv, UserInv, RowsExist

-----------------------------------------------------------------------------
(* The steps of the user's thread. *)

\* Where a step of the user's thread leaves what the capture thread relies on.
LEMMA UserFrame ==
    ASSUME LiveInv, UNCHANGED <<packets, rawCount, cap>>
    PROVE  CaptureInv'
BY DEF LiveInv, CaptureInv

LEMMA ApplyFilterInv ==
    ASSUME LiveInv, NEW accepts \in Filter, ApplyFilter(accepts)
    PROVE  LiveInv'
<1> USE DEF LiveInv
<1>1. /\ UNCHANGED <<packets, view, sortField, sortDir, rawCount, selectedIndex, cap, intact>>
      /\ ui' = [pc |-> "clear", i |-> 0]
      /\ filterNode' = [serial |-> NewSerial, accepts |-> accepts]
  BY DEF ApplyFilter, UiGoto, storeVars
<1>2. filterNode' \in Node /\ filterNode' # NoFilter
  BY <1>1, NewSerialFact, LiveAssumption DEF Node
<1>3. ui' \in UiLocals /\ ui'.pc = "clear"
  BY <1>1 DEF UiLocals
<1>4. overlapped' \in SUBSET Nat
  BY AppendingFact DEF ApplyFilter
<1> QED
  BY <1>1, <1>2, <1>3, <1>4, UserFrame DEF TypeOK, StoreTypeOK, UserInv, RowsExist

LEMMA ClearViewInv ==
    ASSUME LiveInv, ClearView
    PROVE  LiveInv'
<1> USE DEF LiveInv
<1>1. /\ UNCHANGED <<packets, sortField, sortDir, rawCount, filterNode, selectedIndex, cap, intact,
                     overlapped>>
      /\ view' = <<>> /\ ui.pc = "clear"
  BY DEF ClearView
<1>2. ui' \in UiLocals /\ ui'.pc = "loop" /\ ui'.i = 1
  BY DEF ClearView, UiGoto, UiLocals
<1>3. view' \in Seq(Nat) /\ Range(view') = {}
  BY <1>1, EmptySeq DEF Range
<1> QED
  BY <1>1, <1>2, <1>3, UserFrame DEF TypeOK, StoreTypeOK, UserInv, RowsExist

LEMMA FilterOneInv ==
    ASSUME LiveInv, FilterOne
    PROVE  LiveInv'
<1> USE DEF LiveInv
<1>1. /\ UNCHANGED <<packets, sortField, sortDir, rawCount, filterNode, selectedIndex, cap, intact,
                     overlapped>>
      /\ ui.pc = "loop" /\ ui \in UiLocals /\ ui.i \in Nat \ {0} /\ filterNode # NoFilter
      /\ packets \in Seq(Packet) /\ view \in Seq(Nat)
  BY DEF FilterOne, TypeOK, StoreTypeOK, UserInv, UiLocals
<1>2. ui' \in UiLocals /\ ui'.pc \in {"loop", "sort"} /\ (ui'.pc = "loop" => ui'.i # 0)
  BY <1>1 DEF FilterOne, UiGoto, UiLocals
<1>3. view' \in Seq(Nat) /\ Range(view') \subseteq DOMAIN packets
  <2>1. CASE view' = view
    BY <1>1, <2>1 DEF RowsExist
  <2>2. CASE ui.i <= Len(packets) /\ view' = Append(view, ui.i)
    <3>1. ui.i \in DOMAIN packets /\ DOMAIN packets \in SUBSET Nat
      BY <1>1, <2>2, SeqIndices
    <3> QED
      BY <1>1, <2>2, <3>1, PushFacts DEF RowsExist
  <2> QED
    BY <2>1, <2>2 DEF FilterOne
<1> QED
  BY <1>1, <1>2, <1>3, UserFrame DEF TypeOK, StoreTypeOK, UserInv, RowsExist

LEMMA ClearFilterInv ==
    ASSUME LiveInv, ClearFilter
    PROVE  LiveInv'
<1> USE DEF LiveInv
<1>1. /\ UNCHANGED <<packets, view, sortField, sortDir, rawCount, selectedIndex, cap, intact>>
      /\ filterNode' = NoFilter
  BY DEF ClearFilter, storeVars
<1>2. ui' \in UiLocals /\ ui'.pc = "resize"
  BY DEF ClearFilter, UiGoto, UiLocals
<1>3. overlapped' \in SUBSET Nat
  BY AppendingFact DEF ClearFilter
<1> QED
  BY <1>1, <1>2, <1>3, UserFrame DEF TypeOK, StoreTypeOK, UserInv, RowsExist

LEMMA ResizeViewInv ==
    ASSUME LiveInv, ResizeView
    PROVE  LiveInv'
<1> USE DEF LiveInv
<1>1. /\ UNCHANGED <<packets, sortField, sortDir, rawCount, filterNode, selectedIndex, cap, intact,
                     overlapped>>
      /\ view' = [i \in 1..Len(packets) |-> IF i \in DOMAIN view THEN view[i] ELSE 1]
      /\ packets \in Seq(Packet) /\ view \in Seq(Nat)
  BY DEF ResizeView, TypeOK, StoreTypeOK
<1>2. ui' \in UiLocals /\ ui'.pc = "fill" /\ ui'.i = 1
  BY DEF ResizeView, UiGoto, UiLocals
<1>3. /\ Len(packets) \in Nat /\ DOMAIN packets = 1..Len(packets)
      /\ \A i \in DOMAIN view : view[i] \in DOMAIN packets
  BY <1>1, SeqIndices DEF RowsExist, Range
<1>4. \A i \in 1..Len(packets) : (IF i \in DOMAIN view THEN view[i] ELSE 1) \in 1..Len(packets)
  BY <1>3
<1>5. view' \in [1..Len(packets) -> 1..Len(packets)]
  BY <1>1, <1>4
<1>6. view' \in Seq(Nat) /\ Len(view') = Len(packets)
  <2>1. view' \in [1..Len(packets) -> Nat]
    BY <1>5
  <2> QED
    BY <1>3, <2>1
<1>7. Range(view') \subseteq DOMAIN packets
  BY <1>3, <1>5 DEF Range
<1>8. view' = <<>> => packets = <<>>
  BY <1>1, <1>6, EmptySeq
<1> QED
  BY <1>1, <1>2, <1>6, <1>7, <1>8, UserFrame DEF TypeOK, StoreTypeOK, UserInv, RowsExist

LEMMA FillOneInv ==
    ASSUME LiveInv, FillOne
    PROVE  LiveInv'
<1> USE DEF LiveInv
<1>1. /\ UNCHANGED <<packets, sortField, sortDir, rawCount, filterNode, selectedIndex, cap,
                     overlapped>>
      /\ intact' \in BOOLEAN /\ ui.pc = "fill" /\ ui \in UiLocals /\ ui.i \in Nat \ {0}
      /\ packets \in Seq(Packet) /\ view \in Seq(Nat)
  BY DEF FillOne, TypeOK, StoreTypeOK, UserInv, UiLocals
<1>2. ui' \in UiLocals /\ ui'.pc \in {"fill", "sort"} /\ (ui'.pc = "fill" => ui'.i # 0)
  BY <1>1 DEF FillOne, UiGoto, UiLocals
<1>3. /\ view' \in Seq(Nat) /\ (view' = <<>> => view = <<>>)
      /\ Range(view') \subseteq DOMAIN packets
  <2>1. CASE view' = view
    BY <1>1, <2>1 DEF RowsExist
  <2>2. CASE ui.i <= Len(packets) /\ view' = [view EXCEPT ![ui.i] = ui.i]
    <3>1. ui.i \in DOMAIN packets
      BY <1>1, <2>2, SeqIndices
    <3>2. DOMAIN view = 1..Len(view) /\ Len(view) \in Nat
      BY <1>1, SeqIndices
    <3>3. DOMAIN view' = DOMAIN view /\ \A i \in DOMAIN view : view'[i] \in Nat
      BY <1>1, <2>2
    <3>4. view' \in [1..Len(view) -> Nat]
      BY <2>2, <3>2, <3>3
    <3>5. view' \in Seq(Nat)
      BY <3>2, <3>4
    <3>6. \A i \in DOMAIN view : view'[i] \in DOMAIN packets
      BY <2>2, <3>1 DEF RowsExist, Range
    <3> QED
      BY <1>1, <3>3, <3>5, <3>6, SeqIndices DEF Range
  <2> QED
    BY <2>1, <2>2 DEF FillOne
<1> QED
  BY <1>1, <1>2, <1>3, UserFrame DEF TypeOK, StoreTypeOK, UserInv, RowsExist

LEMMA SortViewInv ==
    ASSUME LiveInv, SortView
    PROVE  LiveInv'
<1> USE DEF LiveInv
<1>1. /\ UNCHANGED <<packets, rawCount, filterNode, selectedIndex, cap, intact, overlapped>>
      /\ ui.pc = "sort" /\ view \in Seq(Nat)
      /\ view' \in Sorts(packets, view, sortField, sortDir)
      /\ sortField' = sortField /\ sortDir' = sortDir
  BY DEF SortView, Sort, TypeOK, StoreTypeOK
<1>2. ui' \in UiLocals /\ ui'.pc = "select"
  BY DEF SortView, UiGoto, UiLocals
<1>3. view' \in Seq(Nat) /\ Range(view') = Range(view) /\ DOMAIN view' = DOMAIN view
  BY <1>1, SortsFacts
<1>4. view' = <<>> => view = <<>>
  BY <1>1, <1>3, SeqIndices
<1> QED
  BY <1>1, <1>2, <1>3, <1>4, UserFrame DEF TypeOK, StoreTypeOK, UserInv, RowsExist

LEMMA ReselectInv ==
    ASSUME LiveInv, Reselect
    PROVE  LiveInv'
<1> USE DEF LiveInv
<1>1. /\ UNCHANGED <<packets, view, sortField, sortDir, rawCount, filterNode, cap, intact,
                     overlapped>>
      /\ packets \in Seq(Packet) /\ view \in Seq(Nat) /\ selectedIndex \in Nat \ {0}
  BY DEF Reselect, sharedVars, TypeOK, StoreTypeOK
<1>2. ui' \in UiLocals /\ ui'.pc = "idle"
  BY DEF Reselect, UiGoto, UiLocals
<1>3. DOMAIN view = 1..Len(view) /\ Len(view) \in Nat
  BY <1>1, SeqIndices
<1>4. CASE view = <<>>
  <2>1. selectedIndex' = 1
    BY <1>4 DEF Reselect, UserInv
  <2> QED
    BY <1>1, <1>2, <1>4, <2>1, UserFrame DEF TypeOK, StoreTypeOK, UserInv, RowsExist
<1>5. CASE view # <<>>
  <2>1. selectedIndex' = IF selectedIndex > Len(view) THEN Len(view) ELSE selectedIndex
    BY <1>5 DEF Reselect
  <2>2. 1 \in DOMAIN view /\ Range(view) # {} /\ packets # <<>>
    BY <1>1, <1>5, SeqIndices DEF RowsExist
  <2>3. selectedIndex' \in DOMAIN view /\ selectedIndex' \in Nat \ {0}
    BY <1>1, <1>3, <2>1, <2>2
  <2> QED
    BY <1>1, <1>2, <1>5, <2>2, <2>3, UserFrame DEF TypeOK, StoreTypeOK, UserInv, RowsExist
<1> QED
  BY <1>4, <1>5

LEMMA SelectInv ==
    ASSUME LiveInv, NEW i \in DOMAIN view, Select(i)
    PROVE  LiveInv'
<1> USE DEF LiveInv
<1>1. /\ UNCHANGED <<packets, view, sortField, sortDir, rawCount, filterNode, cap, ui, intact,
                     overlapped>>
      /\ packets \in Seq(Packet) /\ view \in Seq(Nat)
      /\ selectedIndex' = i /\ ui.pc = "idle"
  BY DEF Select, sharedVars, TypeOK, StoreTypeOK
<1>2. view # <<>> /\ Range(view) # {} /\ packets # <<>> /\ i \in Nat \ {0}
  BY <1>1, SeqIndices DEF RowsExist
<1> QED
  BY <1>1, <1>2, UserFrame DEF TypeOK, StoreTypeOK, UserInv, RowsExist

-----------------------------------------------------------------------------
\* LiveInv is an invariant of every interleaving of append_packet() with the
\* user's operations, for as long as no write of reset_view() breaks the memory:
\* with one that lands in spare capacity, too.
THEOREM LiveInvariant == Spec => []LiveInv
<1>1. LiveInv /\ [Next]_vars => LiveInv'
  <2> SUFFICES ASSUME LiveInv, [Next]_vars PROVE LiveInv'
    OBVIOUS
  <2>1. CASE Capture
    BY <2>1, PushRawInv, ReadNodeInv, PushPacketInv, EvaluateInv, PushViewInv DEF Capture
  <2>2. CASE User
    BY <2>2, ApplyFilterInv, ClearViewInv, FilterOneInv, ClearFilterInv, ResizeViewInv,
       FillOneInv, SortViewInv, ReselectInv, SelectInv DEF User
  <2>3. CASE UNCHANGED vars
    BY <2>3 DEF vars, sharedVars, LiveInv, TypeOK, StoreTypeOK, CaptureInv, UserInv, RowsExist
  <2> QED
    BY <2>1, <2>2, <2>3 DEF Next, Broken
<1> QED
  BY <1>1, LiveInit, PTL DEF Spec

\* Without the lock append_packet() still keeps raw_bytes_ no more than one
\* ahead of packets_ (SessionModel.cpp, PacketStore::append()).
THEOREM BytesAreAlwaysThere == Spec => []BytesAreThere
<1>1. LiveInv => BytesAreThere
  <2> SUFFICES ASSUME LiveInv PROVE BytesAreThere
    OBVIOUS
  <2>1. packets \in Seq(Packet) /\ Len(packets) \in Nat
    BY DEF LiveInv, TypeOK, StoreTypeOK
  <2> QED
    BY <2>1 DEF LiveInv, CaptureInv, BytesAreThere
<1> QED
  BY <1>1, LiveInvariant, PTL

\* Between the user's operations the selected row is a row of the view, as
\* apply_filter() and clear_filter() clamp it and arrivals only add rows.
THEOREM SelectedRowAlwaysExists == Spec => []SelectedRowExists
<1>1. LiveInv => SelectedRowExists
  BY DEF LiveInv, UserInv, SelectedRowExists
<1> QED
  BY <1>1, LiveInvariant, PTL

-----------------------------------------------------------------------------
(* What happens to the packets whose append did not overlap.  In the       *)
(* middle of an operation the view is right as far as it has come.         *)

\* While the user's thread is in an operation, a packet being appended
\* overlaps it.
AppendOverlaps == ui.pc # "idle" => Appending \subseteq overlapped

\* A packet being appended between two operations is judged by the filter that
\* is active, and gets its first row last.
AppendIsRight ==
    (Appending # {} /\ ~(Appending \subseteq overlapped)) =>
        /\ cap.pc \in {"push", "evaluate", "show"} => cap.node = filterNode
        /\ cap.pc \in {"evaluate", "show"} => cap.index \notin Range(view)
        /\ cap.pc = "show" => Evaluates(filterNode, packets[cap.index])

\* The loop of apply_filter() has dealt with the packets below ui.i.
LoopIsRight ==
    ui.pc = "loop" => \A i \in Settled :
        IF i < ui.i THEN RightlyShown(i) ELSE i \notin Range(view)

\* The loop of reset_view() has put the packets below ui.i where they belong;
\* what else has a row was appended meanwhile.
FillIsRight ==
    /\ ui.pc \in {"resize", "fill"} => filterNode = NoFilter
    /\ ui.pc = "fill" =>
         /\ \A j \in DOMAIN view : j < ui.i => view[j] = j \/ view[j] \in overlapped
         /\ \A j \in DOMAIN view : j > Len(packets) => view[j] \in overlapped
         /\ \A i \in Settled : i \in DOMAIN view /\ (i < ui.i => view[i] = i)

\* With the loops over, and between the operations, the packets are settled.
RestIsRight == ui.pc \in {"idle", "sort", "select"} => \A i \in Settled : RightlyShown(i)

SettledInv ==
    /\ AppendOverlaps /\ AppendIsRight
    /\ LoopIsRight /\ FillIsRight /\ RestIsRight
    /\ intact \/ overlapped # {}

-----------------------------------------------------------------------------
\* What is in the view once x has been pushed to its back.
LEMMA PushedRows ==
    ASSUME view \in Seq(Nat), NEW x \in Nat, view' = Append(view, x)
    PROVE  /\ DOMAIN view' = DOMAIN view \cup {Len(view) + 1} /\ Len(view) + 1 \notin DOMAIN view
           /\ view'[Len(view) + 1] = x /\ \A j \in DOMAIN view : view'[j] = view[j]
           /\ Range(view') = Range(view) \cup {x}
           /\ x \notin Range(view) => OneRow(x)'
           /\ \A i : i # x => (OneRow(i) => OneRow(i)')
<1>1. /\ Len(view') = Len(view) + 1 /\ view' \in Seq(Nat)
      /\ \A j \in 1..Len(view) : view'[j] = view[j]
      /\ view'[Len(view) + 1] = x
  BY AppendProperties
<1>2. DOMAIN view = 1..Len(view) /\ DOMAIN view' = 1..(Len(view) + 1) /\ Len(view) \in Nat
  BY <1>1, SeqIndices
<1>3. /\ DOMAIN view' = DOMAIN view \cup {Len(view) + 1} /\ Len(view) + 1 \notin DOMAIN view
      /\ view'[Len(view) + 1] = x /\ \A j \in DOMAIN view : view'[j] = view[j]
  BY <1>1, <1>2
<1>4. Range(view') = Range(view) \cup {x}
  BY <1>3 DEF Range
<1>5. x \notin Range(view) => OneRow(x)'
  BY <1>3 DEF Range, OneRow
<1>6. \A i : i # x => (OneRow(i) => OneRow(i)')
  BY <1>3 DEF OneRow
<1> QED
  BY <1>3, <1>4, <1>5, <1>6

\* Sorting moves rows, and neither adds nor removes one.
LEMMA SortedRows ==
    ASSUME view \in Seq(Nat), view' \in Sorts(packets, view, sortField, sortDir)
    PROVE  Range(view') = Range(view) /\ \A i : OneRow(i) => OneRow(i)'
<1>1. PICK q \in Bijection(DOMAIN view, DOMAIN view) : view' = [j \in DOMAIN view |-> view[q[j]]]
  BY DEF Sorts
<1>2. /\ q \in [DOMAIN view -> DOMAIN view]
      /\ \A j, k \in DOMAIN view : q[j] = q[k] => j = k
      /\ \A k \in DOMAIN view : \E j \in DOMAIN view : q[j] = k
  BY DEF Bijection, Injection, Surjection, IsInjective
<1>3. ASSUME NEW i, OneRow(i) PROVE OneRow(i)'
  <2>1. PICK k \in DOMAIN view : view[k] = i /\ \A l \in DOMAIN view : view[l] = i => l = k
    BY <1>3 DEF OneRow
  <2>2. PICK j \in DOMAIN view : q[j] = k
    BY <1>2
  <2>3. view'[j] = i /\ DOMAIN view' = DOMAIN view
    BY <1>1, <2>1, <2>2
  <2>4. ASSUME NEW l \in DOMAIN view, view'[l] = i PROVE l = j
    BY <1>1, <1>2, <2>1, <2>2, <2>4
  <2> QED
    BY <2>3, <2>4 DEF OneRow
<1> QED
  BY <1>3, SortsFacts

\* A packet is shown as it was when its row, the filter and the packet stay.
LEMMA ShownAsBefore ==
    ASSUME NEW i, UNCHANGED filterNode, packets'[i] = packets[i],
           OneRow(i) => OneRow(i)', i \notin Range(view) => i \notin Range(view'),
           RightlyShown(i)
    PROVE  RightlyShown(i)'
BY DEF RightlyShown, Evaluates

LEMMA SettledInit == Init => SettledInv
<1> SUFFICES ASSUME Init PROVE SettledInv
  OBVIOUS
<1>1. cap.pc = "idle" /\ ui.pc = "idle" /\ intact /\ packets = <<>>
  BY DEF Init, StoreInit
<1>2. Settled = {} /\ Appending = {}
  BY <1>1 DEF Settled, Appending
<1> QED
  BY <1>1, <1>2 DEF SettledInv, AppendOverlaps, AppendIsRight, LoopIsRight, FillIsRight, RestIsRight

-----------------------------------------------------------------------------
(* The steps of the capture thread. *)

\* What the places of the capture thread mean for the packets it appends.
LEMMA CaptureFacts ==
    ASSUME LiveInv, SettledInv
    PROVE  /\ packets \in Seq(Packet) /\ Len(packets) \in Nat
           /\ DOMAIN packets = 1..Len(packets)
           /\ view \in Seq(Nat) /\ cap \in CapLocals /\ Range(view) \subseteq DOMAIN packets
           /\ cap.pc = "push" => cap.index = Len(packets) + 1
           /\ cap.pc \in {"evaluate", "show"} => cap.index = Len(packets) /\ Len(packets) # 0
           /\ ui.pc # "idle" => Settled = DOMAIN packets \ overlapped
BY SeqIndices, EmptySeq
   DEF LiveInv, TypeOK, StoreTypeOK, CaptureInv, RowsExist, SettledInv, AppendOverlaps, Settled

LEMMA PushRawSettled ==
    ASSUME LiveInv, SettledInv, NEW p \in Packet, PushRaw(p)
    PROVE  SettledInv'
<1>1. /\ UNCHANGED <<packets, view, filterNode, ui, intact>>
      /\ cap.pc = "idle" /\ cap'.pc = "node"
      /\ overlapped' = IF ui.pc = "idle" THEN overlapped ELSE overlapped \cup {Len(packets) + 1}
  BY CaptureFacts DEF PushRaw, NoteOverlap, storeVars, CapLocals
<1>2. Appending = {} /\ Appending' = {Len(packets) + 1}
  BY <1>1 DEF Appending
<1>3. Len(packets) + 1 \notin DOMAIN packets
  BY CaptureFacts
<1>4. Settled' = Settled
  BY <1>1, <1>2, <1>3 DEF Settled
<1>5. \A i : RightlyShown(i) => RightlyShown(i)'
  BY <1>1 DEF RightlyShown, Evaluates, OneRow
<1>6. AppendOverlaps' /\ AppendIsRight'
  BY <1>1, <1>2 DEF AppendOverlaps, AppendIsRight
<1>7. LoopIsRight' /\ RestIsRight'
  BY <1>1, <1>4, <1>5 DEF SettledInv, LoopIsRight, RestIsRight
<1>8. FillIsRight'
  BY <1>1, <1>4 DEF SettledInv, FillIsRight
<1> QED
  BY <1>1, <1>6, <1>7, <1>8 DEF SettledInv

LEMMA ReadNodeSettled ==
    ASSUME LiveInv, SettledInv, ReadNode
    PROVE  SettledInv'
<1>1. /\ UNCHANGED <<packets, view, filterNode, ui, intact, overlapped>>
      /\ cap.pc = "node" /\ cap'.pc = "push" /\ cap'.node = filterNode
  BY CaptureFacts DEF ReadNode, sharedVars, CapLocals
<1>2. Appending' = Appending
  BY <1>1 DEF Appending
<1>3. Settled' = Settled
  BY <1>1, <1>2 DEF Settled
<1>4. \A i : RightlyShown(i) => RightlyShown(i)'
  BY <1>1 DEF RightlyShown, Evaluates, OneRow
<1>5. AppendOverlaps' /\ AppendIsRight'
  BY <1>1, <1>2 DEF SettledInv, AppendOverlaps, AppendIsRight
<1>6. LoopIsRight' /\ RestIsRight' /\ FillIsRight'
  BY <1>1, <1>3, <1>4 DEF SettledInv, LoopIsRight, RestIsRight, FillIsRight
<1> QED
  BY <1>1, <1>5, <1>6 DEF SettledInv

LEMMA PushPacketSettled ==
    ASSUME LiveInv, SettledInv, PushPacket
    PROVE  SettledInv'
<1>1. /\ UNCHANGED <<view, filterNode, ui, intact, overlapped>>
      /\ cap.pc = "push" /\ cap'.pc = "evaluate" /\ cap'.node = cap.node
      /\ cap'.index = cap.index /\ cap.packet \in Packet
      /\ packets' = Append(packets, cap.packet)
  BY CaptureFacts DEF PushPacket, CapGoto, CapLocals
<1>2. /\ Len(packets') = Len(packets) + 1 /\ \A i \in 1..Len(packets) : packets'[i] = packets[i]
      /\ DOMAIN packets' = 1..(Len(packets) + 1)
  BY <1>1, CaptureFacts, AppendProperties
<1>3. Appending = {Len(packets) + 1} /\ Appending' = {Len(packets) + 1}
  BY <1>1, <1>2 DEF Appending
<1>4. Settled' = Settled
  BY <1>2, <1>3, <1>1, CaptureFacts DEF Settled
<1>5. \A i \in Settled : RightlyShown(i) => RightlyShown(i)'
  BY <1>1, <1>2, CaptureFacts DEF Settled, RightlyShown, Evaluates, OneRow
<1>6. AppendOverlaps'
  BY <1>1, <1>3 DEF SettledInv, AppendOverlaps
<1>7. AppendIsRight'
  <2>1. cap.index \notin Range(view)
    BY <1>1, CaptureFacts
  <2> QED
    BY <1>1, <1>3, <2>1 DEF SettledInv, AppendIsRight
<1>8. LoopIsRight' /\ RestIsRight'
  BY <1>1, <1>4, <1>5 DEF SettledInv, LoopIsRight, RestIsRight
<1>9. FillIsRight'
  <2>1. \A j \in DOMAIN view : j > Len(packets') => j > Len(packets)
    BY <1>2, CaptureFacts, SeqIndices
  <2> QED
    BY <1>1, <1>4, <2>1 DEF SettledInv, FillIsRight
<1> QED
  BY <1>1, <1>6, <1>7, <1>8, <1>9 DEF SettledInv

LEMMA EvaluateSettled ==
    ASSUME LiveInv, SettledInv, Evaluate
    PROVE  SettledInv'
<1>1. /\ UNCHANGED <<packets, view, filterNode, ui, intact, overlapped>>
      /\ cap.pc = "evaluate" /\ cap'.pc \in {"show", "idle"}
      /\ cap'.node = cap.node /\ cap'.index = cap.index
      /\ \E shown \in Answers : cap'.pc = IF shown THEN "show" ELSE "idle"
  BY CaptureFacts DEF Evaluate, CapGoto, sharedVars, CapLocals
<1>2. /\ Appending = {Len(packets)} /\ cap.index = Len(packets) /\ Len(packets) \in DOMAIN packets
      /\ Appending' = IF cap'.pc = "show" THEN {Len(packets)} ELSE {}
  BY <1>1, CaptureFacts DEF Appending
<1>3. \A i : RightlyShown(i)' <=> RightlyShown(i)
  BY <1>1 DEF RightlyShown, Evaluates, OneRow
<1>4. CASE Len(packets) \in overlapped
  <2>1. Settled' = Settled
    BY <1>1, <1>2, <1>4 DEF Settled
  <2>2. AppendOverlaps' /\ AppendIsRight'
    BY <1>1, <1>2, <1>4 DEF AppendOverlaps, AppendIsRight
  <2>3. LoopIsRight' /\ RestIsRight' /\ FillIsRight'
    BY <1>1, <1>3, <2>1 DEF SettledInv, LoopIsRight, RestIsRight, FillIsRight
  <2> QED
    BY <1>1, <2>2, <2>3 DEF SettledInv
<1>5. CASE Len(packets) \notin overlapped
  <2>1. /\ ui.pc = "idle" /\ cap.node = filterNode /\ cap.index \notin Range(view)
    BY <1>1, <1>2, <1>5 DEF SettledInv, AppendOverlaps, AppendIsRight
  <2>2. cap'.pc = "show" <=> Evaluates(filterNode, packets[cap.index])
    <3>1. Answers = {Evaluates(filterNode, packets[cap.index])}
      BY <2>1 DEF Answers, NodeIsFreed
    <3> QED
      BY <1>1, <3>1
  <2>3. AppendOverlaps' /\ LoopIsRight' /\ FillIsRight'
    BY <1>1, <2>1 DEF AppendOverlaps, LoopIsRight, FillIsRight
  <2>4. AppendIsRight'
    <3>1. cap'.pc = "show" => Evaluates(filterNode, packets[cap.index])'
      BY <1>1, <2>2 DEF Evaluates
    <3> QED
      BY <1>1, <2>1, <3>1 DEF AppendIsRight
  <2>5. RestIsRight'
    <3>1. \A i \in Settled : RightlyShown(i)
      BY <2>1 DEF SettledInv, RestIsRight
    <3>2. cap'.pc = "idle" => RightlyShown(Len(packets))
      BY <1>2, <2>1, <2>2 DEF RightlyShown
    <3>3. Settled' \subseteq Settled \cup (IF cap'.pc = "idle" THEN {Len(packets)} ELSE {})
      BY <1>1, <1>2 DEF Settled
    <3> QED
      BY <1>3, <3>1, <3>2, <3>3 DEF RestIsRight
  <2> QED
    BY <1>1, <2>3, <2>4, <2>5 DEF SettledInv
<1> QED
  BY <1>4, <1>5

LEMMA PushViewSettled ==
    ASSUME LiveInv, SettledInv, PushView
    PROVE  SettledInv'
<1>1. /\ UNCHANGED <<packets, filterNode, ui, intact, overlapped>>
      /\ cap.pc = "show" /\ cap'.pc = "idle"
      /\ view' = Append(view, cap.index)
  BY CaptureFacts DEF PushView, CapGoto, CapLocals
<1>2. /\ Appending = {Len(packets)} /\ Appending' = {}
      /\ cap.index = Len(packets) /\ Len(packets) \in Nat
  BY <1>1, CaptureFacts DEF Appending
<1>3. PICK x \in Nat : x = Len(packets)
  BY <1>2
<1>4. /\ DOMAIN view' = DOMAIN view \cup {Len(view) + 1} /\ Len(view) + 1 \notin DOMAIN view
      /\ view'[Len(view) + 1] = x /\ \A j \in DOMAIN view : view'[j] = view[j]
      /\ Range(view') = Range(view) \cup {x}
      /\ x \notin Range(view) => OneRow(x)'
      /\ \A i : i # x => (OneRow(i) => OneRow(i)')
  BY <1>1, <1>2, <1>3, CaptureFacts, PushedRows
<1>5. \A i \in Settled : i # x
  BY <1>2, <1>3 DEF Settled
<1>6. \A i \in Settled : RightlyShown(i) => RightlyShown(i)'
  BY <1>1, <1>4, <1>5 DEF RightlyShown, Evaluates
<1>7. \A i \in Settled : i \notin Range(view) => i \notin Range(view')
  BY <1>4, <1>5
<1>8. AppendOverlaps' /\ AppendIsRight'
  BY <1>2 DEF AppendOverlaps, AppendIsRight
<1>9. CASE Len(packets) \in overlapped
  <2>1. Settled' = Settled
    BY <1>1, <1>2, <1>9 DEF Settled
  <2>2. LoopIsRight' /\ RestIsRight'
    BY <1>1, <1>7, <1>6, <2>1 DEF SettledInv, LoopIsRight, RestIsRight
  <2>3. FillIsRight'
    BY <1>1, <1>4, <1>9, <1>3, <2>1 DEF SettledInv, FillIsRight
  <2> QED
    BY <1>1, <1>8, <2>2, <2>3 DEF SettledInv
<1>10. CASE Len(packets) \notin overlapped
  <2>1. /\ ui.pc = "idle" /\ x \notin Range(view) /\ Evaluates(filterNode, packets[x])
    BY <1>1, <1>2, <1>10, <1>3 DEF SettledInv, AppendOverlaps, AppendIsRight
  <2>2. LoopIsRight' /\ FillIsRight'
    BY <1>1, <2>1 DEF LoopIsRight, FillIsRight
  <2>3. RightlyShown(x)'
    BY <1>1, <1>4, <2>1 DEF RightlyShown, Evaluates
  <2>4. Settled' \subseteq Settled \cup {x}
    BY <1>1, <1>2, <1>3 DEF Settled
  <2>5. RestIsRight'
    BY <1>6, <2>1, <2>3, <2>4 DEF SettledInv, RestIsRight
  <2> QED
    BY <1>1, <1>8, <2>2, <2>5 DEF SettledInv
<1> QED
  BY <1>9, <1>10

-----------------------------------------------------------------------------
(* The steps of the user's thread. *)

\* A new operation makes the packet being appended the only one to overlap.
LEMMA BeginSettled ==
    ASSUME LiveInv, SettledInv, intact,
           (\E accepts \in Filter : ApplyFilter(accepts)) \/ ClearFilter
    PROVE  SettledInv'
<1>1. /\ UNCHANGED <<packets, intact, cap>> /\ overlapped' = Appending
      /\ \/ ui'.pc = "clear"
         \/ ui'.pc = "resize" /\ filterNode' = NoFilter
  <2>1. CASE \E accepts \in Filter : ApplyFilter(accepts)
    BY <2>1 DEF ApplyFilter, UiGoto, storeVars
  <2>2. CASE ClearFilter
    BY <2>2 DEF ClearFilter, UiGoto, storeVars
  <2> QED
    BY <2>1, <2>2
<1>2. Appending' = Appending
  BY <1>1 DEF Appending
<1> QED
  BY <1>1, <1>2 DEF SettledInv, AppendOverlaps, AppendIsRight, LoopIsRight, FillIsRight, RestIsRight

\* What the steps inside an operation have in common.
LEMMA InsideFacts ==
    ASSUME LiveInv, SettledInv, ui.pc # "idle",
           UNCHANGED <<packets, filterNode, cap, overlapped>>
    PROVE  /\ Settled' = Settled /\ Settled \in SUBSET (Nat \ {0})
           /\ AppendOverlaps' /\ AppendIsRight'
           /\ \A i \in Settled : i \notin overlapped /\ i \in DOMAIN packets
<1>1. Appending' = Appending
  BY DEF Appending
<1>2. Appending \subseteq overlapped
  BY DEF SettledInv, AppendOverlaps
<1>3. Settled' = Settled
  BY <1>1 DEF Settled
<1>4. AppendOverlaps' /\ AppendIsRight'
  BY <1>1, <1>2 DEF AppendOverlaps, AppendIsRight
<1>5. Settled \in SUBSET (Nat \ {0})
  BY CaptureFacts DEF Settled
<1>6. \A i \in Settled : i \notin overlapped /\ i \in DOMAIN packets
  BY DEF Settled
<1> QED
  BY <1>3, <1>4, <1>5, <1>6

LEMMA ClearViewSettled ==
    ASSUME LiveInv, SettledInv, ClearView
    PROVE  SettledInv'
<1>1. /\ UNCHANGED <<packets, filterNode, intact, cap, overlapped>> /\ view' = <<>>
      /\ ui.pc = "clear" /\ ui'.pc = "loop" /\ ui'.i = 1
  BY DEF ClearView, UiGoto
<1>2. Range(view') = {}
  BY <1>1 DEF Range
<1>3. /\ Settled' = Settled /\ Settled \in SUBSET (Nat \ {0})
      /\ AppendOverlaps' /\ AppendIsRight'
  BY <1>1, InsideFacts
<1>4. LoopIsRight'
  <2>1. \A i \in Settled : ~(i < 1)
    BY <1>3
  <2> QED
    BY <1>1, <1>2, <1>3, <2>1 DEF LoopIsRight
<1>5. FillIsRight' /\ RestIsRight'
  BY <1>1 DEF FillIsRight, RestIsRight
<1> QED
  BY <1>1, <1>3, <1>4, <1>5 DEF SettledInv

LEMMA FilterOneSettled ==
    ASSUME LiveInv, SettledInv, FilterOne
    PROVE  SettledInv'
<1>1. /\ UNCHANGED <<packets, filterNode, intact, cap, overlapped>> /\ ui.pc = "loop"
      /\ ui.i \in Nat /\ view \in Seq(Nat) /\ Len(packets) \in Nat
      /\ DOMAIN packets = 1..Len(packets)
  BY CaptureFacts DEF FilterOne, LiveInv, TypeOK, UiLocals
<1>2. /\ Settled' = Settled /\ Settled \in SUBSET (Nat \ {0})
      /\ AppendOverlaps' /\ AppendIsRight'
      /\ \A i \in Settled : i \in DOMAIN packets
  BY <1>1, InsideFacts
<1>3. \A i \in Settled : IF i < ui.i THEN RightlyShown(i) ELSE i \notin Range(view)
  BY <1>1 DEF SettledInv, LoopIsRight
<1>4. CASE ui.i <= Len(packets)
  <2>1. /\ ui'.pc = "loop" /\ ui'.i = ui.i + 1
        /\ view' = IF Evaluates(filterNode, packets[ui.i]) THEN Append(view, ui.i) ELSE view
    BY <1>4 DEF FilterOne, UiGoto
  <2>2. PICK x \in Nat : x = ui.i
    BY <1>1
  <2>3. ASSUME Evaluates(filterNode, packets[x]) PROVE LoopIsRight'
    <3>1. /\ Range(view') = Range(view) \cup {x}
          /\ x \notin Range(view) => OneRow(x)'
          /\ \A i : i # x => (OneRow(i) => OneRow(i)')
      BY <1>1, <2>1, <2>2, <2>3, PushedRows
    <3>2. \A i \in Settled : i # x /\ RightlyShown(i) => RightlyShown(i)'
      BY <1>1, <3>1 DEF RightlyShown, Evaluates
    <3>3. x \in Settled => RightlyShown(x)'
      <4>1. x \in Settled => x \notin Range(view)
        BY <1>3, <2>2
      <4> QED
        BY <1>1, <2>3, <3>1, <4>1 DEF RightlyShown, Evaluates
    <3>4. ASSUME NEW i \in Settled
          PROVE  IF i < x + 1 THEN RightlyShown(i)' ELSE i \notin Range(view')
      <4>1. CASE i = x
        BY <3>3, <4>1
      <4>2. CASE i # x /\ i < x + 1
        <5>1. i < x
          BY <1>2, <4>2
        <5> QED
          BY <1>3, <2>2, <3>2, <4>2, <5>1
      <4>3. CASE i # x /\ ~(i < x + 1)
        <5>1. ~(i < x)
          BY <1>2, <4>3
        <5> QED
          BY <1>3, <2>2, <3>1, <4>3, <5>1
      <4> QED
        BY <4>1, <4>2, <4>3
    <3> QED
      BY <1>2, <2>1, <2>2, <3>4 DEF LoopIsRight
  <2>4. ASSUME ~Evaluates(filterNode, packets[x]) PROVE LoopIsRight'
    <3>1. view' = view
      BY <2>1, <2>2, <2>4
    <3>2. \A i : RightlyShown(i) => RightlyShown(i)'
      BY <1>1, <3>1 DEF RightlyShown, Evaluates, OneRow
    <3>3. x \in Settled => RightlyShown(x)
      BY <1>3, <2>2, <2>4 DEF RightlyShown
    <3>4. ASSUME NEW i \in Settled
          PROVE  IF i < x + 1 THEN RightlyShown(i)' ELSE i \notin Range(view')
      <4>1. i = x \/ (i < x + 1 <=> i < x)
        BY <1>2
      <4> QED
        BY <1>3, <2>2, <3>1, <3>2, <3>3, <4>1
    <3> QED
      BY <1>2, <2>1, <2>2, <3>4 DEF LoopIsRight
  <2>5. LoopIsRight'
    BY <2>3, <2>4
  <2>6. FillIsRight' /\ RestIsRight'
    BY <2>1 DEF FillIsRight, RestIsRight
  <2> QED
    BY <1>1, <1>2, <2>5, <2>6 DEF SettledInv
<1>5. CASE ~(ui.i <= Len(packets))
  <2>1. ui'.pc = "sort" /\ UNCHANGED view
    BY <1>5 DEF FilterOne, UiGoto
  <2>2. \A i \in Settled : i < ui.i
    BY <1>1, <1>2, <1>5
  <2>3. \A i \in Settled : RightlyShown(i)'
    BY <1>1, <1>3, <2>1, <2>2 DEF RightlyShown, Evaluates, OneRow
  <2>4. LoopIsRight' /\ FillIsRight' /\ RestIsRight'
    BY <1>2, <2>1, <2>3 DEF LoopIsRight, FillIsRight, RestIsRight
  <2> QED
    BY <1>1, <1>2, <2>4 DEF SettledInv
<1> QED
  BY <1>4, <1>5

LEMMA ResizeViewSettled ==
    ASSUME LiveInv, SettledInv, ResizeView
    PROVE  SettledInv'
<1>1. /\ UNCHANGED <<packets, filterNode, intact, cap, overlapped>>
      /\ ui.pc = "resize" /\ ui'.pc = "fill" /\ ui'.i = 1
      /\ DOMAIN view' = 1..Len(packets)
      /\ DOMAIN packets = 1..Len(packets) /\ Len(packets) \in Nat
  BY CaptureFacts DEF ResizeView, UiGoto
<1>2. /\ Settled' = Settled /\ Settled \in SUBSET (Nat \ {0})
      /\ AppendOverlaps' /\ AppendIsRight'
      /\ \A i \in Settled : i \in DOMAIN packets
  BY <1>1, InsideFacts
<1>3. FillIsRight'
  <2>1. filterNode' = NoFilter
    BY <1>1 DEF SettledInv, FillIsRight
  <2>2. \A j \in 1..Len(packets) : ~(j < 1) /\ ~(j > Len(packets))
    BY <1>1
  <2>3. \A i \in Settled : i \in DOMAIN view' /\ ~(i < 1)
    BY <1>1, <1>2
  <2> QED
    BY <1>1, <1>2, <2>1, <2>2, <2>3 DEF FillIsRight
<1>4. LoopIsRight' /\ RestIsRight'
  BY <1>1 DEF LoopIsRight, RestIsRight
<1> QED
  BY <1>1, <1>2, <1>3, <1>4 DEF SettledInv

LEMMA FillOneSettled ==
    ASSUME LiveInv, SettledInv, FillOne
    PROVE  SettledInv'
<1>1. /\ UNCHANGED <<packets, filterNode, cap, overlapped>> /\ ui.pc = "fill"
      /\ ui.i \in Nat /\ view \in Seq(Nat) /\ DOMAIN view \subseteq Nat /\ Len(packets) \in Nat
      /\ DOMAIN packets = 1..Len(packets)
  BY CaptureFacts, SeqIndices DEF FillOne, LiveInv, TypeOK, UiLocals
<1>2. /\ Settled' = Settled /\ Settled \in SUBSET (Nat \ {0})
      /\ AppendOverlaps' /\ AppendIsRight'
      /\ \A i \in Settled : i \notin overlapped /\ i \in DOMAIN packets
  BY <1>1, InsideFacts
<1>3. /\ filterNode = NoFilter
      /\ \A j \in DOMAIN view : j < ui.i => view[j] = j \/ view[j] \in overlapped
      /\ \A j \in DOMAIN view : j > Len(packets) => view[j] \in overlapped
      /\ \A i \in Settled : i \in DOMAIN view /\ (i < ui.i => view[i] = i)
      /\ intact \/ overlapped # {}
  BY <1>1 DEF SettledInv, FillIsRight
<1>4. CASE ui.i <= Len(packets) /\ ui.i \in DOMAIN view
  <2>1. /\ ui'.pc = "fill" /\ ui'.i = ui.i + 1 /\ UNCHANGED intact
        /\ view' = [view EXCEPT ![ui.i] = ui.i]
    BY <1>1, <1>4 DEF FillOne, UiGoto
  <2>2. \A j \in DOMAIN view : j < ui.i + 1 => j < ui.i \/ j = ui.i
    BY <1>1
  <2>3. DOMAIN view' = DOMAIN view /\ view'[ui.i] = ui.i
        /\ \A j \in DOMAIN view : j # ui.i => view'[j] = view[j]
    BY <1>4, <2>1
  <2>4. FillIsRight'
    <3>1. \A j \in DOMAIN view : j < ui.i + 1 => view'[j] = j \/ view'[j] \in overlapped
      BY <1>3, <2>2, <2>3
    <3>2. \A j \in DOMAIN view : j > Len(packets) => view'[j] \in overlapped
      BY <1>1, <1>3, <1>4, <2>3
    <3>3. \A i \in Settled : i \in DOMAIN view /\ (i < ui.i + 1 => view'[i] = i)
      BY <1>3, <2>2, <2>3
    <3> QED
      BY <1>1, <1>2, <1>3, <2>1, <2>3, <3>1, <3>2, <3>3 DEF FillIsRight
  <2>5. LoopIsRight' /\ RestIsRight'
    BY <2>1 DEF LoopIsRight, RestIsRight
  <2> QED
    BY <1>1, <1>2, <1>3, <2>1, <2>4, <2>5 DEF SettledInv
<1>5. CASE ui.i <= Len(packets) /\ ui.i \notin DOMAIN view
  <2>1. ui'.pc = "fill" /\ ui'.i = ui.i + 1 /\ UNCHANGED view
    BY <1>1, <1>5 DEF FillOne, UiGoto
  <2>2. \A j \in DOMAIN view : j < ui.i + 1 => j < ui.i
    BY <1>1, <1>5
  <2>3. overlapped # {}
    <3>1. ui.i # 0
      BY <1>1 DEF LiveInv, UserInv
    <3>2. ui.i \in DOMAIN packets /\ ui.i \notin Settled
      BY <1>1, <1>3, <1>5, <3>1
    <3> QED
      BY <1>1, <3>2, CaptureFacts
  <2>4. FillIsRight'
    BY <1>1, <1>2, <1>3, <2>1, <2>2 DEF FillIsRight
  <2>5. LoopIsRight' /\ RestIsRight'
    BY <2>1 DEF LoopIsRight, RestIsRight
  <2> QED
    BY <1>1, <1>2, <2>3, <2>4, <2>5 DEF SettledInv
<1>6. CASE ui.i > Len(packets)
  <2>1. ui'.pc = "sort" /\ UNCHANGED <<view, intact>>
    BY <1>1, <1>6 DEF FillOne, UiGoto
  <2>2. ASSUME NEW i \in Settled PROVE OneRow(i)
    <3>1. i \in DOMAIN view /\ view[i] = i /\ i \notin overlapped
      BY <1>1, <1>2, <1>3, <1>6
    <3>2. ASSUME NEW k \in DOMAIN view, view[k] = i PROVE k = i
      <4>1. k < ui.i \/ k > Len(packets)
        BY <1>1, <1>6
      <4> QED
        BY <1>3, <3>1, <3>2, <4>1
    <3> QED
      BY <3>1, <3>2 DEF OneRow
  <2>3. \A i \in Settled : RightlyShown(i)'
    BY <1>1, <1>3, <2>1, <2>2 DEF RightlyShown, Evaluates, OneRow
  <2>4. LoopIsRight' /\ FillIsRight' /\ RestIsRight'
    BY <1>2, <2>1, <2>3 DEF LoopIsRight, FillIsRight, RestIsRight
  <2> QED
    BY <1>1, <1>2, <1>3, <2>1, <2>4 DEF SettledInv
<1> QED
  BY <1>1, <1>4, <1>5, <1>6

LEMMA SortViewSettled ==
    ASSUME LiveInv, SettledInv, SortView
    PROVE  SettledInv'
<1>1. /\ UNCHANGED <<packets, filterNode, intact, cap, overlapped>>
      /\ ui.pc = "sort" /\ ui'.pc = "select"
      /\ view' \in Sorts(packets, view, sortField, sortDir) /\ view \in Seq(Nat)
  BY CaptureFacts DEF SortView, Sort, UiGoto
<1>2. Settled' = Settled /\ AppendOverlaps' /\ AppendIsRight'
  BY <1>1, InsideFacts
<1>3. Range(view') = Range(view) /\ \A i : OneRow(i) => OneRow(i)'
  BY <1>1, SortedRows
<1>4. \A i \in Settled : RightlyShown(i)'
  <2>1. \A i \in Settled : RightlyShown(i)
    BY <1>1 DEF SettledInv, RestIsRight
  <2> QED
    BY <1>1, <1>3, <2>1 DEF RightlyShown, Evaluates
<1>5. LoopIsRight' /\ FillIsRight' /\ RestIsRight'
  BY <1>1, <1>2, <1>4 DEF LoopIsRight, FillIsRight, RestIsRight
<1> QED
  BY <1>1, <1>2, <1>5 DEF SettledInv

LEMMA SelectSettled ==
    ASSUME LiveInv, SettledInv, Reselect \/ \E i \in DOMAIN view : Select(i)
    PROVE  SettledInv'
<1>1. /\ UNCHANGED <<packets, view, filterNode, intact, cap, overlapped>> /\ ui'.pc = "idle"
      /\ ui.pc \in {"idle", "select"}
  BY DEF Reselect, Select, UiGoto, sharedVars
<1>2. Appending' = Appending
  BY <1>1 DEF Appending
<1>3. Settled' = Settled
  BY <1>1, <1>2 DEF Settled
<1>4. \A i \in Settled : RightlyShown(i)'
  <2>1. \A i \in Settled : RightlyShown(i)
    BY <1>1 DEF SettledInv, RestIsRight
  <2> QED
    BY <1>1, <2>1 DEF RightlyShown, Evaluates, OneRow
<1>5. AppendOverlaps' /\ AppendIsRight'
  BY <1>1, <1>2 DEF SettledInv, AppendOverlaps, AppendIsRight, Evaluates
<1>6. LoopIsRight' /\ FillIsRight' /\ RestIsRight'
  BY <1>1, <1>3, <1>4 DEF LoopIsRight, FillIsRight, RestIsRight
<1> QED
  BY <1>1, <1>5, <1>6 DEF SettledInv

-----------------------------------------------------------------------------
\* However append_packet() falls between the steps of apply_filter() and
\* clear_filter(): only packets appended during an operation can be shown
\* wrongly after it, or break the memory in reset_view(); no row is without
\* its packet (SessionModel.cpp, append_packet(); PacketStore.cpp, append(),
\* apply_filter(), clear_filter(), reset_view()).
THEOREM OverlapsStayContained == Spec => []OverlapsAreContained
<1>1. LiveInv /\ SettledInv /\ [Next]_vars => SettledInv'
  <2> SUFFICES ASSUME LiveInv, SettledInv, [Next]_vars PROVE SettledInv'
    OBVIOUS
  <2>1. CASE Capture
    BY <2>1, PushRawSettled, ReadNodeSettled, PushPacketSettled, EvaluateSettled, PushViewSettled
       DEF Capture
  <2>2. CASE intact /\ User
    BY <2>2, BeginSettled, ClearViewSettled, FilterOneSettled, ResizeViewSettled, FillOneSettled,
       SortViewSettled, SelectSettled DEF User
  <2>3. CASE UNCHANGED vars
    <3>1. UNCHANGED <<packets, view, filterNode, intact, cap, ui, overlapped>>
      BY <2>3 DEF vars, sharedVars
    <3>2. Appending' = Appending
      BY <3>1 DEF Appending
    <3>3. Settled' = Settled
      BY <3>1, <3>2 DEF Settled
    <3>4. \A i : RightlyShown(i) => RightlyShown(i)'
      BY <3>1 DEF RightlyShown, Evaluates, OneRow
    <3>5. AppendOverlaps' /\ AppendIsRight'
      BY <3>1, <3>2 DEF SettledInv, AppendOverlaps, AppendIsRight, Evaluates
    <3>6. LoopIsRight' /\ FillIsRight' /\ RestIsRight'
      BY <3>1, <3>3, <3>4 DEF SettledInv, LoopIsRight, FillIsRight, RestIsRight
    <3> QED
      BY <3>1, <3>5, <3>6 DEF SettledInv
  <2> QED
    BY <2>1, <2>2, <2>3 DEF Next, Broken
<1>2. LiveInv /\ SettledInv => OverlapsAreContained
  BY DEF LiveInv, SettledInv, RestIsRight, OverlapsAreContained
<1> QED
  BY <1>1, <1>2, SettledInit, LiveInvariant, PTL DEF Spec
=============================================================================
