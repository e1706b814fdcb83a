---------------------------- MODULE SessionModel ----------------------------
(***************************************************************************)
(* The session (session/SessionModel.h, session/SessionModel.cpp): the     *)
(* packet store, the raw bytes of every packet, the active filter, the     *)
(* selected row with its dissected tree, and the export.  Each public      *)
(* operation is one action: this module is the contract of the class when  *)
(* its calls come one at a time.                                           *)
(*                                                                         *)
(* In file mode the program loads the file once and then serves the user;  *)
(* in live mode it never loads, and packets arrive between the user's      *)
(* operations.  live says which of the two this process runs.              *)
(*                                                                         *)
(* The raw bytes of a packet and the tree they dissect to are identified   *)
(* with the packet they parse to, so rawBytes[i] = packets[i] says that    *)
(* the bytes stored at i are those of packet i.  last_polled_count_, which *)
(* the code writes and never reads, is left out.                           *)
(***************************************************************************)
EXTENDS PacketStore

CONSTANTS Expr,        \* non-empty filter expressions
          Parse,       \* Parse[e]: the node parse_filter builds, or Malformed
          Malformed,   \* a ParseResult that is not ok()
          NoExpr,      \* the empty filter_expr_
          EmptyTree,   \* ProtocolTree{}
          MaxPackets   \* bound: packets captured in one behaviour

ASSUME ParseAssumption ==
    /\ Parse \in [Expr -> Filter \cup {Malformed}]
    /\ Malformed \notin Filter \cup {NoFilter}
    /\ NoExpr \notin Expr
    /\ EmptyTree \notin Packet
    /\ MaxPackets \in Nat

VARIABLES live,            \* live_mode_ of the application
          loaded,          \* loaded_
          rawBytes,        \* raw_bytes_
          filterNode,      \* filter_node_
          filterExpr,      \* filter_expr_
          filterError,     \* filter_error_ is not empty
          selectedIndex,   \* selected_index_ + 1
          selectedTree,    \* selected_tree_
          exported,        \* the records of the capture file written last
          exportError      \* error_ is not empty

filterVars == <<filterNode, filterExpr, filterError>>
selectVars == <<selectedIndex, selectedTree>>
exportVars == <<exported, exportError>>
vars == <<storeVars, live, loaded, rawBytes, filterVars, selectVars, exportVars>>

Record == [bytes : Packet, meta : Packet]

TypeOK ==
    /\ StoreTypeOK
    /\ live \in BOOLEAN
    /\ loaded \in BOOLEAN
    /\ rawBytes \in Seq(Packet)
    /\ filterNode \in Filter \cup {NoFilter}
    /\ filterExpr \in Expr \cup {NoExpr}
    /\ filterError \in BOOLEAN
    /\ selectedIndex \in Nat \ {0}
    /\ selectedTree \in Packet \cup {EmptyTree}
    /\ exported \in Seq(Record)
    /\ exportError \in BOOLEAN

-----------------------------------------------------------------------------
Init ==
    /\ StoreInit
    /\ live \in BOOLEAN
    /\ loaded = FALSE
    /\ rawBytes = <<>>
    /\ filterNode = NoFilter
    /\ filterExpr = NoExpr
    /\ filterError = FALSE
    /\ selectedIndex = 1
    /\ selectedTree = EmptyTree
    /\ exported = <<>>
    /\ exportError = FALSE

\* The user can only reach the session once the file is loaded, or live.
Ready == live \/ loaded

\* build_tree_for(raw_index)
TreeFor(raw, i) == IF i \in DOMAIN raw THEN raw[i] ELSE EmptyTree

\* select(i) of a row of the view as it is after the step.
SelectRow(i) ==
    /\ selectedIndex' = i
    /\ selectedTree' = TreeFor(rawBytes', view'[i])

\* The clamp of clear_filter() and reapply_filter(), then select().
Reselect ==
    SelectRow(IF selectedIndex > Len(view') THEN Len(view') ELSE selectedIndex)

\* Mutant of SelectNothing: the clamp to the last row also when there is none.
SelectLastOfNone == selectedIndex' = Len(view') /\ selectedTree' = EmptyTree

\* reapply_filter() when the filter accepts no packet.
SelectNothing == selectedIndex' = 1 /\ selectedTree' = EmptyTree

-----------------------------------------------------------------------------
\* load(): the provider yields the packets of the file one by one.  An empty
\* file leaves the store and the selection as they are.
Load(log) ==
    /\ ~live /\ ~loaded
    /\ loaded' = TRUE
    /\ rawBytes' = log
    /\ IF log = <<>>
       THEN UNCHANGED <<storeVars, selectVars>>
       ELSE /\ LoadFromVector(log)
            /\ SelectRow(1)
    /\ exportError' = FALSE
    /\ UNCHANGED <<live, filterVars, exported>>

\* append_packet(): the capture thread delivers a packet.
AppendPacket(p) ==
    /\ live /\ Len(packets) < MaxPackets
    /\ rawBytes' = Append(rawBytes, p)
    /\ StoreAppend(p, filterNode)
    /\ UNCHANGED <<live, loaded, filterVars, selectVars, exportVars>>

\* select(): past the end of the view it returns at once and changes nothing.
Select(i) ==
    /\ Ready /\ i \in DOMAIN view
    /\ UNCHANGED <<storeVars, live, loaded, rawBytes, filterVars, exportVars>>
    /\ SelectRow(i)

\* Mutant of ClearFilter: the selection is not renewed.
ClearFilterStale ==
    /\ Ready
    /\ filterNode' = NoFilter
    /\ filterExpr' = NoExpr
    /\ filterError' = FALSE
    /\ StoreClearFilter
    /\ UNCHANGED <<live, loaded, rawBytes, selectVars, exportVars>>

\* clear_filter(), also what apply_filter() does with an empty expression.
ClearFilter ==
    /\ Ready
    /\ filterNode' = NoFilter
    /\ filterExpr' = NoExpr
    /\ filterError' = FALSE
    /\ StoreClearFilter
    /\ UNCHANGED <<live, loaded, rawBytes, exportVars>>
    /\ IF view' # <<>> THEN Reselect ELSE UNCHANGED selectVars

\* apply_filter() of an expression that parses, with reapply_filter().
ApplyFilter(e) ==
    /\ Ready /\ Parse[e] # Malformed
    /\ filterNode' = Parse[e]
    /\ filterExpr' = e
    /\ filterError' = FALSE
    /\ StoreApplyFilter(Parse[e])
    /\ UNCHANGED <<live, loaded, rawBytes, exportVars>>
    /\ IF view' # <<>> THEN Reselect
       ELSE SelectNothing

\* Mutant of RejectFilter: the expression is stored before it is known to parse.
RejectFilterStored(e) ==
    /\ Ready /\ Parse[e] = Malformed
    /\ filterExpr' = e
    /\ filterError' = TRUE
    /\ UNCHANGED <<storeVars, live, loaded, rawBytes, filterNode,
                   selectVars, exportVars>>

\* apply_filter() of an expression that does not parse.
RejectFilter(e) ==
    /\ Ready /\ Parse[e] = Malformed
    /\ filterError' = TRUE
    /\ UNCHANGED <<storeVars, live, loaded, rawBytes, filterNode, filterExpr,
                   selectVars, exportVars>>

\* set_sort(field, dir): sort the view, then select its first row.
SetSort(f, d) ==
    /\ Ready
    /\ Sort(f, d)
    /\ UNCHANGED <<live, loaded, rawBytes, filterVars, exportVars>>
    /\ IF view' # <<>> THEN SelectRow(1) ELSE UNCHANGED selectVars

NextField(f) == CASE f = "Time" -> "Size"
                  [] f = "Size" -> "Protocol"
                  [] f = "Protocol" -> "Time"

Flipped(d) == IF d = "Ascending" THEN "Descending" ELSE "Ascending"

CycleSortField == SetSort(NextField(sortField), sortDir)

ToggleSortDirection == SetSort(sortField, Flipped(sortDir))

\* Mutant of ExportRecord: the row number is used as the index of the bytes.
ExportRecordByRow(i) == [bytes |-> rawBytes[i], meta |-> packets[view[i]]]

\* The record export_to_pcap() writes for row i of the view.
ExportRecord(i) == [bytes |-> rawBytes[view[i]], meta |-> packets[view[i]]]

\* export_to_pcap() when PcapWriter opens the file: records of all rows, of
\* which the first n are in the file if the disk is full then.
ExportToPcap ==
    /\ Ready
    /\ \E n \in 0..Len(view) : exported' = [i \in 1..n |-> ExportRecord(i)]
    /\ exportError' = FALSE
    /\ UNCHANGED <<storeVars, live, loaded, rawBytes, filterVars, selectVars>>

\* export_to_pcap() when PcapWriter cannot open the file.
ExportFails ==
    /\ Ready
    /\ exportError' = TRUE
    /\ UNCHANGED <<storeVars, live, loaded, rawBytes, filterVars, selectVars, exported>>

Captures == UNION {[1..n -> Packet] : n \in 0..MaxPackets}

Next ==
    \/ \E log \in Captures : Load(log)
    \/ \E p \in Packet : AppendPacket(p)
    \/ \E i \in DOMAIN view : Select(i)
    \/ ClearFilter
    \/ \E e \in Expr : ApplyFilter(e) \/ RejectFilter(e)
    \/ CycleSortField
    \/ ToggleSortDirection
    \/ ExportToPcap
    \/ ExportFails

Spec == Init /\ [][Next]_vars

-----------------------------------------------------------------------------
\* The bytes, the packet list and the trees agree: the bytes stored at an
\* index are those of the packet stored there (append_packet pushes to both
\* vectors, "must stay in sync").
RawInSync == rawBytes = packets

\* The view shows each packet the active filter accepts exactly once, and no
\* other, through any sequence of filters, sorts and arrivals.
ViewExact ==
    /\ Range(view) = Matching(packets, filterNode)
    /\ IsInjective(view)

\* What the expression in the header says, if parsed.
Displayed == IF filterExpr = NoExpr THEN NoFilter ELSE Parse[filterExpr]

FilterIsDisplayed == filterNode = Displayed

\* The rows are the packets that the expression in the header accepts: also when
\* others were rejected since, one after the other, and packets arrived meanwhile,
\* which are filtered by the node and not by the expression.
RowsMatchHeader ==
    /\ Displayed # Malformed
    /\ Range(view) = Matching(packets, Displayed)

\* The selected row exists whenever there is a row: selected_raw_bytes() and
\* the panels index the view with it unchecked.
SelectionInView ==
    IF view = <<>> THEN selectedIndex = 1 ELSE selectedIndex \in DOMAIN view

\* The detail panel never shows the tree of a packet other than the selected
\* one, whatever was filtered, sorted or appended since it was built.
TreeIsOfSelection ==
    selectedTree # EmptyTree =>
        view # <<>> /\ selectedTree = rawBytes[view[selectedIndex]]

\* In file mode a table with rows always shows the tree of one of them.
FileTreeIsBuilt ==
    (~live /\ view # <<>>) => selectedTree # EmptyTree

\* What the detail panel gets is the selected packet's tree: never another's,
\* and nothing only where select() may be still to come, in live mode or
\* without a row.
TreeIsTheSelected == TreeIsOfSelection /\ FileTreeIsBuilt

\* Packets arrived in the order of their timestamps.
Chronological ==
    \A i, j \in DOMAIN packets : i < j => KeyAt(packets, "Time", i) <= KeyAt(packets, "Time", j)

\* When the order in the header can be relied on: always in file mode, and in
\* live mode for the default order as long as packets arrive in time order (what
\* append() relies on when it pushes to the back).
OrderIsKept ==
    ~live \/ (Chronological /\ sortField = "Time" /\ sortDir = "Ascending")

\* The view is in the order the header announces.
ViewInOrder == OrderIsKept => Sorted(packets, view, sortField, sortDir)

\* What an export writes is the beginning of the table, all of it unless the disk
\* is full: packets the filter accepts, each at most once and none passed over, in
\* the order announced, and each with its own bytes under its own timestamp and
\* length.
ExportIsFaithful ==
    [][exported' # exported =>
        \E table \in Bijection(DOMAIN view, Matching(packets, filterNode)) :
            /\ OrderIsKept => Sorted(packets, table, sortField, sortDir)
            /\ DOMAIN exported' \subseteq DOMAIN table
            /\ \A i \in DOMAIN exported' :
                  LET p == packets[table[i]] IN exported'[i] = [bytes |-> p, meta |-> p]]_vars

-----------------------------------------------------------------------------
\* The session as a table of rows with a cursor on one of them.
Table == INSTANCE PacketTable WITH
            captured <- packets,
            filter   <- filterNode,
            shown    <- Range(view),
            cursor   <- IF view = <<>> THEN 0 ELSE view[selectedIndex]

\* The session implements the table: filtering, sorting, selecting and
\* arrivals show exactly the accepted packets, and no arrival moves the
\* cursor off the packet it is on.
ImplementsTable == Table!TableSpec
=============================================================================
