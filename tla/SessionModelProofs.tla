------------------------- MODULE SessionModelProofs -------------------------
(***************************************************************************)
(* Proofs about the session model, for every set of packets, every filter  *)
(* set, every sort key and every number of packets.                        *)
(***************************************************************************)
EXTENDS SessionModel, PacketStoreProofs

-----------------------------------------------------------------------------
\* The inductive invariant: every part needs the others.  The view is only
\* known to index the packets by ViewExact, the tree is only known to be of
\* the selected packet by SelectionInView and RawInSync, and an empty view is
\* left alone by clear_filter() and set_sort() because the selection is
\* already that of an empty view.  load() is right only because the user
\* cannot reach the session before it: it neither clears the store when the
\* file is empty nor drops a filter.
BeforeLoad == ~Ready => packets = <<>> /\ filterNode = NoFilter

SessionInv ==
    /\ TypeOK
    /\ BeforeLoad
    /\ RawInSync
    /\ ViewExact
    /\ FilterIsDisplayed
    /\ SelectionInView
    /\ TreeIsOfSelection
    /\ FileTreeIsBuilt
    /\ ViewInOrder

Selection == SelectionInView /\ TreeIsOfSelection /\ FileTreeIsBuilt

SelectionTyped ==
    /\ selectedIndex \in Nat \ {0}
    /\ selectedTree \in Packet \cup {EmptyTree}

\* Selecting a row that exists makes the selection right whatever it was.
LEMMA SelectRowFacts ==
    ASSUME packets' \in Seq(Packet), view' \in Seq(Nat), RawInSync', ViewExact',
           NEW i \in DOMAIN view', SelectRow(i)
    PROVE  Selection' /\ SelectionTyped'
<1>1. view'[i] \in DOMAIN packets'
  BY DEF ViewExact, Matching, Range
<1>2. selectedIndex' = i /\ selectedTree' = packets'[view'[i]]
  BY <1>1 DEF SelectRow, TreeFor, RawInSync
<1>3. packets'[view'[i]] \in Packet /\ i \in Nat \ {0} /\ view' # <<>>
  BY <1>1
<1>4. EmptyTree \notin Packet
  BY ParseAssumption
<1> QED
  BY <1>2, <1>3, <1>4 DEF Selection, SelectionTyped, SelectionInView,
     TreeIsOfSelection, FileTreeIsBuilt, RawInSync

\* Before and after a step an empty view has the selection it started with.
LEMMA EmptyViewFacts ==
    ASSUME SelectionInView, TreeIsOfSelection, SelectionTyped, view = <<>>,
           view' = <<>>, UNCHANGED selectVars
    PROVE  Selection' /\ SelectionTyped'
BY DEF Selection, SelectionTyped, SelectionInView, TreeIsOfSelection,
   FileTreeIsBuilt, selectVars

-----------------------------------------------------------------------------
\* The parts of the invariant the initial state establishes.
LEMMA InitInv == Init => SessionInv
<1> SUFFICES ASSUME Init PROVE SessionInv
  OBVIOUS
<1>1. packets = <<>> /\ view = <<>> /\ Range(view) = {} /\ DOMAIN packets = {}
  BY DEF Init, StoreInit, Range
<1>2. TypeOK
  <2>1. StoreTypeOK
    BY DEF Init, StoreInit, StoreTypeOK, SortField, SortDirection
  <2>2. live \in BOOLEAN /\ loaded \in BOOLEAN /\ filterError \in BOOLEAN /\ exportError \in BOOLEAN
    BY Zenon DEF Init
  <2>3. /\ rawBytes \in Seq(Packet) /\ exported \in Seq(Record)
        /\ filterNode \in Filter \cup {NoFilter} /\ filterExpr \in Expr \cup {NoExpr}
        /\ selectedIndex \in Nat \ {0} /\ selectedTree \in Packet \cup {EmptyTree}
    BY DEF Init
  <2> QED
    BY <2>1, <2>2, <2>3 DEF TypeOK
<1>3. ViewExact
  BY <1>1 DEF ViewExact, Matching, IsInjective
<1>4. ViewInOrder
  BY <1>1 DEF ViewInOrder, OrderIsKept, Sorted
<1> QED
  BY <1>1, <1>2, <1>3, <1>4 DEF Init, SessionInv, BeforeLoad, RawInSync, FilterIsDisplayed,
     Displayed, SelectionInView, TreeIsOfSelection, FileTreeIsBuilt

\* Loading a file, empty or not.
LEMMA LoadInv ==
    ASSUME SessionInv, NEW log \in Captures, Load(log)
    PROVE  SessionInv'
<1> USE DEF SessionInv
<1>1. log \in Seq(Packet)
  BY ParseAssumption DEF Captures
<1>2. packets = <<>> /\ filterNode = NoFilter /\ rawBytes = <<>>
  BY DEF Load, BeforeLoad, Ready, RawInSync
<1>3. /\ rawBytes' = log /\ loaded' = TRUE /\ exportError' = FALSE
      /\ UNCHANGED <<live, filterVars, exported>>
  BY DEF Load
<1>4. packets' = log
  BY <1>2 DEF Load, LoadFromVector, storeVars
<1>5. /\ view' \in Seq(Nat)
      /\ ViewExact'
      /\ Sorted(packets', view', sortField', sortDir')
      /\ sortField' \in SortField /\ sortDir' \in SortDirection
  <2>1. CASE log = <<>>
    <3>1. UNCHANGED storeVars
      BY <2>1 DEF Load
    <3>2. DOMAIN packets = {} /\ Range(view) = {}
      BY <1>2 DEF ViewExact, Matching
    <3>3. DOMAIN view = {}
      BY <3>2 DEF Range
    <3> QED
      BY <1>3, <3>1, <3>3 DEF storeVars, filterVars, TypeOK, StoreTypeOK,
         ViewExact, Matching, Sorted
  <2>2. CASE log # <<>>
    <3>1. Rebuild(log, NoFilter)
      BY <2>2 DEF Load, LoadFromVector
    <3> QED
      BY <1>1, <1>2, <1>3, <1>4, <3>1, RebuildFacts
         DEF ViewExact, filterVars, TypeOK, StoreTypeOK
  <2> QED
    BY <2>1, <2>2
<1>6. Selection' /\ SelectionTyped'
  <2>1. CASE log = <<>>
    <3>1. UNCHANGED <<view, selectVars>>
      BY <2>1 DEF Load, storeVars
    <3>2. view = <<>>
      <4>1. Range(view) = {} /\ view \in Seq(Nat)
        BY <1>2 DEF ViewExact, Matching, TypeOK, StoreTypeOK
      <4> QED
        BY ONLY <4>1, SeqIndices
    <3> QED
      BY <3>1, <3>2, EmptyViewFacts DEF TypeOK, SelectionTyped
  <2>2. CASE log # <<>>
    <3>1. SelectRow(1)
      BY <2>2 DEF Load
    <3>2. RawInSync' /\ packets' \in Seq(Packet)
      BY <1>1, <1>3, <1>4 DEF RawInSync
    <3>3. Range(view') = DOMAIN log
      BY <1>2, <1>3, <1>4, <1>5 DEF ViewExact, Matching, Accepts, filterVars
    <3>4. 1 \in DOMAIN view'
      <4>1. DOMAIN log # {}
        BY <1>1, <2>2, SeqIndices
      <4>2. view' # <<>>
        BY <1>5, <3>3, <4>1, SeqIndices
      <4> QED
        BY <1>5, <4>2, SeqIndices
    <3> QED
      BY <1>5, <3>1, <3>2, <3>4, SelectRowFacts
  <2> QED
    BY <2>1, <2>2
<1>7. TypeOK'
  BY <1>1, <1>3, <1>4, <1>5, <1>6 DEF TypeOK, StoreTypeOK, SelectionTyped, filterVars
<1> QED
  BY <1>1, <1>3, <1>4, <1>5, <1>6, <1>7 DEF BeforeLoad, Ready, RawInSync,
     FilterIsDisplayed, Displayed, Selection, ViewInOrder, OrderIsKept, filterVars

\* A packet arrives.
LEMMA AppendPacketInv ==
    ASSUME SessionInv, NEW p \in Packet, AppendPacket(p)
    PROVE  SessionInv'
<1> USE DEF SessionInv
<1> DEFINE n == Len(packets)
<1>1. /\ packets \in Seq(Packet) /\ view \in Seq(Nat) /\ n \in Nat
      /\ Range(view) \subseteq 1..n
  BY DEF TypeOK, StoreTypeOK, ViewExact, Matching
<1>2. /\ packets' = Append(packets, p) /\ rawBytes' = packets'
      /\ view' = IF Accepts(filterNode, p) THEN Append(view, n + 1) ELSE view
      /\ UNCHANGED <<sortField, sortDir, live, loaded, filterVars, selectVars, exportVars>>
      /\ live
  BY DEF AppendPacket, StoreAppend, RawInSync
<1>3. /\ packets' \in Seq(Packet) /\ Len(packets') = n + 1
      /\ \A i \in 1..n : packets'[i] = packets[i]
      /\ packets'[n + 1] = p
  BY <1>1, <1>2
<1>4. /\ view' \in Seq(Nat)
      /\ DOMAIN view \subseteq DOMAIN view'
      /\ \A i \in DOMAIN view : view'[i] = view[i]
      /\ \A i \in DOMAIN view' \ DOMAIN view : view'[i] = n + 1 /\ i = Len(view) + 1
  BY <1>1, <1>2
<1>5. ViewExact'
  <2>1. Matching(packets', filterNode) =
          Matching(packets, filterNode) \cup (IF Accepts(filterNode, p) THEN {n + 1} ELSE {})
    <3>1. DOMAIN packets' = DOMAIN packets \cup {n + 1} /\ DOMAIN packets = 1..n
      BY <1>1, <1>3
    <3> QED
      BY <1>3, <3>1 DEF Matching
  <2>2. Range(view') = Range(view) \cup (IF Accepts(filterNode, p) THEN {n + 1} ELSE {})
    <3>1. CASE Accepts(filterNode, p)
      <4>1. DOMAIN view' = DOMAIN view \cup {Len(view) + 1} /\ view'[Len(view) + 1] = n + 1
        BY <1>1, <1>2, <3>1
      <4> QED
        BY <1>4, <3>1, <4>1 DEF Range
    <3>2. CASE ~Accepts(filterNode, p)
      BY <1>2, <3>2
    <3> QED
      BY <3>1, <3>2
  <2>3. IsInjective(view')
    <3>1. \A i \in DOMAIN view : view[i] \in 1..n
      BY <1>1 DEF Range
    <3>2. \A i \in DOMAIN view' : \/ i \in DOMAIN view /\ view'[i] \in 1..n
                                  \/ i = Len(view) + 1 /\ view'[i] = n + 1
      BY <1>4, <3>1
    <3>3. \A i, j \in DOMAIN view : view[i] = view[j] => i = j
      BY DEF ViewExact, IsInjective
    <3> SUFFICES ASSUME NEW i \in DOMAIN view', NEW j \in DOMAIN view', view'[i] = view'[j]
                 PROVE  i = j
      BY DEF IsInjective
    <3>4. CASE view'[i] = n + 1
      <4>1. n + 1 \notin 1..n /\ view'[j] = n + 1
        BY <1>1, <3>4
      <4> QED
        BY <3>2, <3>4, <4>1
    <3>5. CASE view'[i] # n + 1
      <4>1. i \in DOMAIN view /\ j \in DOMAIN view
        BY <3>2, <3>5
      <4> QED
        BY <1>4, <3>3, <4>1
    <3> QED
      BY <3>4, <3>5
  <2> QED
    BY <1>2, <2>1, <2>2, <2>3 DEF ViewExact, filterVars
<1>6. SelectionInView' /\ TreeIsOfSelection' /\ FileTreeIsBuilt'
  <2>1. CASE view = <<>>
    <3>1. selectedIndex = 1 /\ selectedTree = EmptyTree
      BY <2>1 DEF SelectionInView, TreeIsOfSelection
    <3>2. view' # <<>> => 1 \in DOMAIN view'
      BY <1>4, SeqIndices
    <3> QED
      BY <1>2, <3>1, <3>2 DEF SelectionInView, TreeIsOfSelection, FileTreeIsBuilt, selectVars
  <2>2. CASE view # <<>>
    <3>1. selectedIndex \in DOMAIN view /\ selectedIndex \in DOMAIN view' /\ view' # <<>>
      BY <1>1, <1>4, <2>2, SeqIndices DEF SelectionInView
    <3>2. view'[selectedIndex] = view[selectedIndex] /\ view[selectedIndex] \in 1..n
      BY <1>1, <1>4, <3>1 DEF Range
    <3>3. rawBytes'[view'[selectedIndex]] = rawBytes[view[selectedIndex]]
      BY <1>2, <1>3, <3>2 DEF RawInSync
    <3> QED
      BY <1>2, <2>2, <3>1, <3>3 DEF SelectionInView, TreeIsOfSelection, FileTreeIsBuilt, selectVars
  <2> QED
    BY <2>1, <2>2
<1>7. ViewInOrder'
  <2> SUFFICES ASSUME Chronological', sortField = "Time", sortDir = "Ascending"
               PROVE  Sorted(packets', view', "Time", "Ascending")
    BY <1>2 DEF ViewInOrder, OrderIsKept
  <2>1. Chronological
    <3>1. DOMAIN packets = 1..n /\ \A i \in 1..n : i \in DOMAIN packets'
      BY <1>1, <1>3
    <3> QED
      BY <1>3, <3>1 DEF Chronological, KeyAt
  <2>2. Sorted(packets, view, "Time", "Ascending")
    BY <2>1 DEF ViewInOrder, OrderIsKept
  <2> SUFFICES ASSUME NEW i \in DOMAIN view', NEW j \in DOMAIN view', i < j
               PROVE  KeyAt(packets', "Time", view'[i]) <= KeyAt(packets', "Time", view'[j])
    BY DEF Sorted
  <2>3. i \in DOMAIN view /\ view[i] \in 1..n /\ view'[i] = view[i]
    <3>1. i \in DOMAIN view
      BY <1>1, <1>2
    <3> QED
      BY <1>1, <1>4, <3>1 DEF Range
  <2>4. CASE j \in DOMAIN view
    <3>1. view[j] \in 1..n /\ view'[j] = view[j]
      BY <1>1, <1>4, <2>4 DEF Range
    <3>2. KeyAt(packets, "Time", view[i]) <= KeyAt(packets, "Time", view[j])
      BY <2>2, <2>3, <2>4 DEF Sorted
    <3> QED
      BY <1>3, <2>3, <3>1, <3>2 DEF KeyAt
  <2>5. CASE j \notin DOMAIN view
    <3>1. /\ view'[j] = n + 1 /\ view[i] < n + 1
          /\ n + 1 \in DOMAIN packets' /\ view[i] \in DOMAIN packets'
      BY <1>1, <1>3, <1>4, <2>3, <2>5
    <3> QED
      BY <2>3, <3>1 DEF Chronological
  <2> QED
    BY <2>4, <2>5
<1>8. TypeOK'
  BY <1>2, <1>3, <1>4 DEF TypeOK, StoreTypeOK, filterVars, selectVars, exportVars
<1> QED
  BY <1>2, <1>5, <1>6, <1>7, <1>8 DEF BeforeLoad, Ready, RawInSync,
     FilterIsDisplayed, Displayed, filterVars, exportVars

-----------------------------------------------------------------------------
\* A step of the user that leaves the packets alone keeps the invariant when
\* the new view is exact and in order and the selection is right for it.
LEMMA UserStepInv ==
    ASSUME SessionInv, Ready,
           UNCHANGED <<packets, live, loaded, rawBytes, exportVars>>,
           view' \in Seq(Nat), ViewExact',
           Sorted(packets', view', sortField', sortDir'),
           sortField' \in SortField, sortDir' \in SortDirection,
           filterNode' \in Filter \cup {NoFilter}, filterExpr' \in Expr \cup {NoExpr},
           filterError' \in BOOLEAN, FilterIsDisplayed',
           Selection', SelectionTyped'
    PROVE  SessionInv'
<1>1. TypeOK'
  <2>1. StoreTypeOK'
    BY DEF SessionInv, TypeOK, StoreTypeOK
  <2>2. live' \in BOOLEAN /\ loaded' \in BOOLEAN /\ exportError' \in BOOLEAN
    BY DEF SessionInv, TypeOK, exportVars
  <2>3. rawBytes' \in Seq(Packet) /\ exported' \in Seq(Record)
    BY DEF SessionInv, TypeOK, exportVars
  <2> QED
    BY <2>1, <2>2, <2>3 DEF TypeOK, SelectionTyped
<1> QED
  BY <1>1 DEF SessionInv, BeforeLoad, Ready, RawInSync, ViewInOrder, OrderIsKept, Selection,
     exportVars

\* The row the clamp chooses exists.
LEMMA ReselectFacts ==
    ASSUME packets' \in Seq(Packet), view' \in Seq(Nat), RawInSync', ViewExact',
           view' # <<>>, selectedIndex \in Nat \ {0}, Reselect
    PROVE  Selection' /\ SelectionTyped'
<1> DEFINE i == IF selectedIndex > Len(view') THEN Len(view') ELSE selectedIndex
<1>1. DOMAIN view' = 1..Len(view') /\ Len(view') \in Nat /\ Len(view') \in DOMAIN view'
  BY SeqIndices
<1>2. i \in DOMAIN view'
  BY <1>1
<1>3. SelectRow(i)
  BY DEF Reselect
<1> QED
  BY <1>2, <1>3, SelectRowFacts

\* The selection moves to another row.
LEMMA SelectInv ==
    ASSUME SessionInv, NEW i \in DOMAIN view, Select(i)
    PROVE  SessionInv'
<1> USE DEF SessionInv
<1>1. /\ UNCHANGED <<storeVars, live, loaded, rawBytes, filterVars, exportVars>>
      /\ SelectRow(i)
  BY DEF Select
<1>2. packets' \in Seq(Packet) /\ view' \in Seq(Nat) /\ RawInSync' /\ ViewExact'
  BY <1>1 DEF storeVars, filterVars, TypeOK, StoreTypeOK, RawInSync, ViewExact, Matching
<1>3. Selection' /\ SelectionTyped'
  BY <1>1, <1>2, SelectRowFacts DEF storeVars
<1>4. TypeOK'
  BY <1>1, <1>3 DEF storeVars, filterVars, exportVars, TypeOK, StoreTypeOK, SelectionTyped
<1> QED
  BY <1>1, <1>2, <1>3, <1>4 DEF BeforeLoad, Ready, FilterIsDisplayed, Displayed, Selection,
     ViewInOrder, OrderIsKept, Chronological, storeVars, filterVars, exportVars

\* The filter is dropped.
LEMMA ClearFilterInv ==
    ASSUME SessionInv, ClearFilter
    PROVE  SessionInv'
<1> USE DEF SessionInv
<1>1. /\ Ready /\ UNCHANGED <<packets, live, loaded, rawBytes, exportVars>>
      /\ filterNode' = NoFilter /\ filterExpr' = NoExpr /\ filterError' = FALSE
      /\ Rebuild(packets, NoFilter)
      /\ IF view' # <<>> THEN Reselect ELSE UNCHANGED selectVars
  BY DEF ClearFilter, StoreClearFilter
<1>2. packets \in Seq(Packet) /\ view \in Seq(Nat) /\ SelectionTyped
  BY DEF TypeOK, StoreTypeOK, SelectionTyped
<1>3. /\ view' \in Seq(Nat) /\ ViewExact' /\ RawInSync'
      /\ Sorted(packets', view', sortField', sortDir')
      /\ sortField' \in SortField /\ sortDir' \in SortDirection
  <2>1. sortField \in SortField /\ sortDir \in SortDirection
    BY DEF TypeOK, StoreTypeOK
  <2> QED
    BY <1>1, <1>2, <2>1, RebuildFacts DEF ViewExact, RawInSync
<1>4. Selection' /\ SelectionTyped'
  <2>1. CASE view' # <<>>
    BY <1>1, <1>2, <1>3, <2>1, ReselectFacts DEF SelectionTyped
  <2>2. CASE view' = <<>>
    <3>1. DOMAIN packets = {}
      BY <1>1, <1>3, <2>2, SeqIndices DEF ViewExact, Matching, Accepts
    <3>2. view = <<>>
      BY <1>2, <3>1, SeqIndices DEF ViewExact, Matching
    <3> QED
      BY <1>1, <1>2, <2>2, <3>2, EmptyViewFacts
  <2> QED
    BY <2>1, <2>2
<1>5. FilterIsDisplayed'
  BY <1>1 DEF FilterIsDisplayed, Displayed
<1> QED
  BY <1>1, <1>3, <1>4, <1>5, UserStepInv

\* A filter that parses is applied.
LEMMA ApplyFilterInv ==
    ASSUME SessionInv, NEW e \in Expr, ApplyFilter(e)
    PROVE  SessionInv'
<1> USE DEF SessionInv
<1>1. /\ Ready /\ UNCHANGED <<packets, live, loaded, rawBytes, exportVars>>
      /\ filterNode' = Parse[e] /\ filterExpr' = e /\ filterError' = FALSE
      /\ Rebuild(packets, Parse[e])
      /\ IF view' # <<>> THEN Reselect ELSE SelectNothing
  BY DEF ApplyFilter, StoreApplyFilter
<1>2. packets \in Seq(Packet) /\ SelectionTyped
  BY DEF TypeOK, StoreTypeOK, SelectionTyped
<1>3. /\ view' \in Seq(Nat) /\ ViewExact' /\ RawInSync'
      /\ Sorted(packets', view', sortField', sortDir')
      /\ sortField' \in SortField /\ sortDir' \in SortDirection
  <2>1. sortField \in SortField /\ sortDir \in SortDirection
    BY DEF TypeOK, StoreTypeOK
  <2> QED
    BY <1>1, <1>2, <2>1, RebuildFacts DEF ViewExact, RawInSync
<1>4. Selection' /\ SelectionTyped'
  <2>1. CASE view' # <<>>
    BY <1>1, <1>2, <1>3, <2>1, ReselectFacts DEF SelectionTyped
  <2>2. CASE view' = <<>>
    BY <1>1, <2>2 DEF SelectNothing, Selection, SelectionTyped, SelectionInView,
       TreeIsOfSelection, FileTreeIsBuilt
  <2> QED
    BY <2>1, <2>2
<1>5. /\ filterNode' \in Filter \cup {NoFilter} /\ filterExpr' \in Expr \cup {NoExpr}
      /\ FilterIsDisplayed'
  <2>1. Parse[e] \in Filter \cup {Malformed} /\ Parse[e] # Malformed /\ e # NoExpr
    BY ParseAssumption DEF ApplyFilter
  <2> QED
    BY <1>1, <2>1 DEF FilterIsDisplayed, Displayed
<1> QED
  BY <1>1, <1>3, <1>4, <1>5, UserStepInv

\* The view is put in another order.
LEMMA SetSortInv ==
    ASSUME SessionInv, NEW f \in SortField, NEW d \in SortDirection, SetSort(f, d)
    PROVE  SessionInv'
<1> USE DEF SessionInv
<1>1. /\ Ready /\ UNCHANGED <<packets, live, loaded, rawBytes, filterVars, exportVars>>
      /\ view' \in Sorts(packets, view, f, d) /\ sortField' = f /\ sortDir' = d
      /\ IF view' # <<>> THEN SelectRow(1) ELSE UNCHANGED selectVars
  BY DEF SetSort, Sort
<1>2. packets \in Seq(Packet) /\ view \in Seq(Nat) /\ SelectionTyped
  BY DEF TypeOK, StoreTypeOK, SelectionTyped
<1>3. /\ view' \in Seq(Nat) /\ Range(view') = Range(view)
      /\ ViewExact' /\ RawInSync'
      /\ Sorted(packets', view', sortField', sortDir')
  BY <1>1, <1>2, SortsFacts DEF ViewExact, RawInSync, filterVars
<1>4. Selection' /\ SelectionTyped'
  <2>1. CASE view' # <<>>
    <3>1. 1 \in DOMAIN view' /\ SelectRow(1)
      BY <1>1, <1>3, <2>1, SeqIndices
    <3> QED
      BY <1>1, <1>2, <1>3, <3>1, SelectRowFacts
  <2>2. CASE view' = <<>>
    <3>1. view = <<>>
      BY <1>2, <1>3, <2>2, SeqIndices
    <3> QED
      BY <1>1, <1>2, <2>2, <3>1, EmptyViewFacts
  <2> QED
    BY <2>1, <2>2
<1>5. /\ filterNode' \in Filter \cup {NoFilter} /\ filterExpr' \in Expr \cup {NoExpr}
      /\ filterError' \in BOOLEAN /\ FilterIsDisplayed'
  BY <1>1 DEF TypeOK, FilterIsDisplayed, Displayed, filterVars
<1> QED
  BY <1>1, <1>3, <1>4, <1>5, UserStepInv

\* The visible packets are written to a file, or the file cannot be opened.
LEMMA ExportInv ==
    ASSUME SessionInv, ExportToPcap \/ ExportFails
    PROVE  SessionInv'
<1> USE DEF SessionInv
<1>1. UNCHANGED <<storeVars, live, loaded, rawBytes, filterVars, selectVars>>
  BY DEF ExportToPcap, ExportFails
<1>2. exported' \in Seq(Record) /\ exportError' \in BOOLEAN
  <2>1. CASE ExportToPcap
    <3>1. DOMAIN view = 1..Len(view) /\ Len(view) \in Nat
      BY SeqIndices DEF TypeOK, StoreTypeOK
    <3>2. \A i \in DOMAIN view : view[i] \in DOMAIN packets
      BY DEF ViewExact, Matching, Range
    <3>3. \A i \in DOMAIN view : packets[view[i]] \in Packet
      BY <3>2 DEF TypeOK, StoreTypeOK
    <3>4. \A i \in 1..Len(view) : ExportRecord(i) \in Record
      BY <3>1, <3>3 DEF ExportRecord, Record, RawInSync
    <3>5. PICK n \in 0..Len(view) : /\ exported' = [i \in 1..n |-> ExportRecord(i)]
                                    /\ exportError' = FALSE
      BY <2>1 DEF ExportToPcap
    <3>6. exported' \in [1..n -> Record]
      BY <3>1, <3>4, <3>5
    <3>7. exported' \in Seq(Record) /\ DOMAIN exported' = 1..n /\ 1..n \subseteq 1..Len(view)
      BY <3>1, <3>5, <3>6
    <3>8. exportError' \in BOOLEAN
      BY <3>5
    <3> QED
      BY <3>7, <3>8
  <2>2. CASE ExportFails
    BY <2>2 DEF ExportFails, TypeOK
  <2> QED
    BY <2>1, <2>2
<1>3. TypeOK'
  BY <1>1, <1>2 DEF TypeOK, StoreTypeOK, storeVars, filterVars, selectVars
<1> QED
  BY <1>1, <1>2, <1>3 DEF BeforeLoad, Ready, RawInSync, ViewExact, Matching,
     FilterIsDisplayed, Displayed, SelectionInView, TreeIsOfSelection, FileTreeIsBuilt,
     ViewInOrder, OrderIsKept, Chronological, storeVars, filterVars, selectVars

\* The invariant is inductive.
LEMMA NextInv == SessionInv /\ [Next]_vars => SessionInv'
<1> SUFFICES ASSUME SessionInv, [Next]_vars PROVE SessionInv'
  OBVIOUS
<1>1. ASSUME NEW log \in Captures, Load(log) PROVE SessionInv'
  BY <1>1, LoadInv
<1>2. ASSUME NEW p \in Packet, AppendPacket(p) PROVE SessionInv'
  BY <1>2, AppendPacketInv
<1>3. ASSUME NEW i \in DOMAIN view, Select(i) PROVE SessionInv'
  BY <1>3, SelectInv
<1>4. CASE ClearFilter
  BY <1>4, ClearFilterInv
<1>5. ASSUME NEW e \in Expr, ApplyFilter(e) PROVE SessionInv'
  BY <1>5, ApplyFilterInv
<1>6. ASSUME NEW e \in Expr, RejectFilter(e) PROVE SessionInv'
  BY <1>6 DEF RejectFilter, SessionInv, TypeOK, StoreTypeOK, BeforeLoad, Ready, RawInSync,
     ViewExact, Matching, FilterIsDisplayed, Displayed, SelectionInView, TreeIsOfSelection,
     FileTreeIsBuilt, ViewInOrder, OrderIsKept, Chronological,
     storeVars, selectVars, exportVars
<1>7. ASSUME CycleSortField \/ ToggleSortDirection PROVE SessionInv'
  <2>1. sortField \in SortField /\ sortDir \in SortDirection
    BY DEF SessionInv, TypeOK, StoreTypeOK
  <2>2. NextField(sortField) \in SortField /\ Flipped(sortDir) \in SortDirection
    BY <2>1 DEF NextField, Flipped, SortField, SortDirection
  <2> QED
    BY <1>7, <2>1, <2>2, SetSortInv DEF CycleSortField, ToggleSortDirection
<1>8. CASE ExportToPcap \/ ExportFails
  BY <1>8, ExportInv
<1>9. CASE UNCHANGED vars
  BY <1>9 DEF SessionInv, TypeOK, StoreTypeOK, BeforeLoad, Ready, RawInSync,
     ViewExact, Matching, FilterIsDisplayed, Displayed, SelectionInView, TreeIsOfSelection,
     FileTreeIsBuilt, ViewInOrder, OrderIsKept, Chronological,
     vars, storeVars, filterVars, selectVars, exportVars
<1> QED
  BY <1>1, <1>2, <1>3, <1>4, <1>5, <1>6, <1>7, <1>8, <1>9 DEF Next

-----------------------------------------------------------------------------
\* In every reachable state of every instance the session's vectors agree, the
\* view shows exactly the packets the displayed filter accepts, in order, and
\* the selection and its tree are those of a row that exists.
THEOREM SessionInvariant == Spec => []SessionInv
<1>1. SessionInv /\ [Next]_vars => SessionInv'
  BY NextInv
<1> QED
  BY InitInv, <1>1, PTL DEF Spec

\* Type correctness.
THEOREM TypeCorrect == Spec => []TypeOK
<1>1. SessionInv => TypeOK
  BY DEF SessionInv
<1> QED
  BY <1>1, SessionInvariant, PTL

\* Any sequence of filters, sorts and arrivals leaves in the view exactly the
\* packets the active filter accepts, each of them once.
THEOREM ViewIsExact == Spec => []ViewExact
<1>1. SessionInv => ViewExact
  BY DEF SessionInv
<1> QED
  BY <1>1, SessionInvariant, PTL

\* The panels may index the view with the selected row whenever it has rows.
THEOREM SelectionIsInView == Spec => []SelectionInView
<1>1. SessionInv => SelectionInView
  BY DEF SessionInv
<1> QED
  BY <1>1, SessionInvariant, PTL

\* The detail panel never shows a tree of another packet than the selected, and
\* in file mode none only without rows.
THEOREM TreeIsAlwaysTheSelected == Spec => []TreeIsTheSelected
<1>1. SessionInv => TreeIsTheSelected
  BY DEF SessionInv, TreeIsTheSelected
<1> QED
  BY <1>1, SessionInvariant, PTL

\* The order announced is the order shown, in file mode and for live captures
\* in time order.
THEOREM ViewIsInOrder == Spec => []ViewInOrder
<1>1. SessionInv => ViewInOrder
  BY DEF SessionInv
<1> QED
  BY <1>1, SessionInvariant, PTL

\* Whatever filters were tried and rejected, the rows are those the header names.
THEOREM RowsAlwaysMatchHeader == Spec => []RowsMatchHeader
<1>1. SessionInv => RowsMatchHeader
  <2> SUFFICES ASSUME SessionInv PROVE RowsMatchHeader
    OBVIOUS
  <2>1. filterNode = Displayed /\ Range(view) = Matching(packets, filterNode)
    BY DEF SessionInv, FilterIsDisplayed, ViewExact
  <2>2. Displayed # Malformed
    BY <2>1, ParseAssumption DEF SessionInv, TypeOK
  <2> QED
    BY <2>1, <2>2 DEF RowsMatchHeader
<1> QED
  BY <1>1, SessionInvariant, PTL

\* The bytes stored at an index, in the hex view or an export, are those of the
\* packet there.
THEOREM BytesStayInSync == Spec => []RawInSync
<1>1. SessionInv => RawInSync
  BY DEF SessionInv
<1> QED
  BY <1>1, SessionInvariant, PTL

\* The view is a table as an export has to write it.
LEMMA ViewIsTable ==
    ASSUME SessionInv
    PROVE  /\ view \in Bijection(DOMAIN view, Matching(packets, filterNode))
           /\ OrderIsKept => Sorted(packets, view, sortField, sortDir)
           /\ \A i \in DOMAIN view : view[i] \in DOMAIN packets
<1>1. Range(view) = Matching(packets, filterNode) /\ IsInjective(view)
  BY DEF SessionInv, ViewExact
<1>2. /\ view \in [DOMAIN view -> Range(view)]
      /\ \A k \in Range(view) : \E i \in DOMAIN view : view[i] = k
  BY DEF SessionInv, TypeOK, StoreTypeOK, Range
<1>3. view \in Bijection(DOMAIN view, Matching(packets, filterNode))
  BY <1>1, <1>2 DEF Bijection, Injection, Surjection
<1> QED
  BY <1>1, <1>2, <1>3 DEF SessionInv, ViewInOrder, Matching

\* Whatever was filtered and sorted before, an export writes the beginning of the
\* table and pairs every packet's bytes with its own timestamp and length.
THEOREM ExportIsAlwaysFaithful == Spec => ExportIsFaithful
<1> DEFINE Faithful ==
      exported' # exported =>
        \E table \in Bijection(DOMAIN view, Matching(packets, filterNode)) :
            /\ OrderIsKept => Sorted(packets, table, sortField, sortDir)
            /\ DOMAIN exported' \subseteq DOMAIN table
            /\ \A i \in DOMAIN exported' :
                  LET p == packets[table[i]] IN exported'[i] = [bytes |-> p, meta |-> p]
<1>1. SessionInv /\ [Next]_vars => [Faithful]_vars
  <2> SUFFICES ASSUME SessionInv, Next PROVE Faithful
    OBVIOUS
  <2>1. ExportToPcap \/ exported' = exported
    BY DEF Next, Load, AppendPacket, Select, ClearFilter, ApplyFilter, RejectFilter,
       CycleSortField, ToggleSortDirection, SetSort, ExportFails, exportVars
  <2>2. CASE ExportToPcap
    <3>1. PICK n \in 0..Len(view) : exported' = [i \in 1..n |-> ExportRecord(i)]
      BY <2>2 DEF ExportToPcap
    <3>2. DOMAIN view = 1..Len(view) /\ Len(view) \in Nat
      BY SeqIndices DEF SessionInv, TypeOK, StoreTypeOK
    <3>3. DOMAIN exported' = 1..n /\ 1..n \subseteq DOMAIN view
      BY <3>1, <3>2
    <3>4. \A i \in 1..n : exported'[i] = [bytes |-> packets[view[i]], meta |-> packets[view[i]]]
      BY <3>1 DEF ExportRecord, SessionInv, RawInSync
    <3> QED
      BY <3>3, <3>4, ViewIsTable
  <2> QED
    BY <2>1, <2>2
<1> QED
  BY <1>1, SessionInvariant, PTL DEF Spec, ExportIsFaithful

-----------------------------------------------------------------------------
Cursor == IF view = <<>> THEN 0 ELSE view[selectedIndex]

\* The session as the table sees it: its rows are those the filter passes, and
\* its cursor is on one of them whenever there is one.
TableInv ==
    /\ Cursor \in IF Range(view) = {} THEN {0} ELSE Range(view)
    /\ Range(view) = Table!RowsOf(packets, filterNode)
    /\ packets \in Seq(Packet) /\ view \in Seq(Nat)
    /\ view = <<>> <=> Range(view) = {}

LEMMA TableInvHolds == SessionInv => TableInv
<1> SUFFICES ASSUME SessionInv PROVE TableInv
  OBVIOUS
<1>1. packets \in Seq(Packet) /\ view \in Seq(Nat)
  BY DEF SessionInv, TypeOK, StoreTypeOK
<1>2. view = <<>> <=> Range(view) = {}
  BY <1>1, SeqIndices
<1>3. Range(view) = Table!RowsOf(packets, filterNode)
  BY DEF SessionInv, ViewExact, Matching, Accepts, Table!RowsOf, Table!Passes
<1>4. view # <<>> => view[selectedIndex] \in Range(view)
  BY DEF SessionInv, SelectionInView, Range
<1> QED
  BY <1>1, <1>2, <1>3, <1>4 DEF Cursor, TableInv

\* A step of the user that keeps the filter and the rows moves the cursor at
\* most.
LEMMA MoveStep ==
    ASSUME TableInv, TableInv', UNCHANGED <<packets, filterNode>>, Range(view') = Range(view)
    PROVE  [Table!TableNext]_(Table!tableVars)
<1>1. CASE Range(view) = {}
  BY <1>1 DEF TableInv, Cursor, Table!tableVars
<1>2. CASE Range(view) # {}
  BY <1>2 DEF TableInv, Cursor, Table!TableNext, Table!Move
<1> QED
  BY <1>1, <1>2

\* Opening a file opens the table, or leaves it empty.
LEMMA OpenStep ==
    ASSUME SessionInv, TableInv, TableInv', NEW log \in Captures, Load(log)
    PROVE  [Table!TableNext]_(Table!tableVars)
<1>1. packets = <<>> /\ filterNode' = filterNode
  BY DEF SessionInv, BeforeLoad, Ready, Load, filterVars
<1>2. Table!Open
  BY <1>1 DEF TableInv, Cursor, Table!Open, Table!PutCursor
<1> QED
  BY <1>2 DEF Table!TableNext

\* A packet that arrives adds a row if it passes, and the cursor stays.
LEMMA ArriveStep ==
    ASSUME SessionInv, TableInv, TableInv', NEW p \in Packet, AppendPacket(p)
    PROVE  [Table!TableNext]_(Table!tableVars)
<1> DEFINE n == Len(packets)
<1>1. /\ packets' = Append(packets, p)
      /\ view' = IF Accepts(filterNode, p) THEN Append(view, n + 1) ELSE view
      /\ UNCHANGED <<filterNode, selectedIndex>>
  BY DEF AppendPacket, StoreAppend, filterVars, selectVars
<1>2. packets \in Seq(Packet) /\ view \in Seq(Nat) /\ n \in Nat
  BY DEF TableInv
<1>3. /\ DOMAIN packets' = DOMAIN packets \cup {n + 1}
      /\ \A i \in DOMAIN packets : packets'[i] = packets[i]
      /\ packets'[n + 1] = p
  BY <1>1, <1>2
<1>4. Range(view') = Range(view) \cup {i \in {n + 1} : Table!Passes(filterNode, packets'[i])}
  BY <1>1, <1>3 DEF TableInv, Table!RowsOf, Table!Passes
<1>5. CASE Range(view) = {}
  <2>1. Table!Arrive
    BY <1>1, <1>4, <1>5 DEF TableInv, Cursor, Table!Arrive, Table!PutCursor
  <2> QED
    BY <2>1 DEF Table!TableNext
<1>6. CASE Range(view) # {}
  <2>1. view # <<>> /\ selectedIndex \in DOMAIN view
    BY <1>6 DEF TableInv, SessionInv, SelectionInView
  <2>2. view' # <<>> /\ view'[selectedIndex] = view[selectedIndex]
    BY <1>1, <1>2, <2>1
  <2>3. Cursor' = Cursor
    BY <1>1, <2>1, <2>2 DEF Cursor
  <2>4. Table!Arrive
    BY <1>1, <1>4, <1>6, <2>3 DEF Cursor, Table!Arrive
  <2> QED
    BY <2>4 DEF Table!TableNext
<1> QED
  BY <1>5, <1>6

\* Every step of the session is a step of the table or leaves the table alone.
LEMMA StepImplementsTable ==
    SessionInv /\ TableInv /\ TableInv' /\ [Next]_vars => [Table!TableNext]_(Table!tableVars)
<1> SUFFICES ASSUME SessionInv, TableInv, TableInv', [Next]_vars
             PROVE  [Table!TableNext]_(Table!tableVars)
  OBVIOUS
<1>1. ASSUME NEW log \in Captures, Load(log) PROVE [Table!TableNext]_(Table!tableVars)
  BY <1>1, OpenStep
<1>2. ASSUME NEW p \in Packet, AppendPacket(p) PROVE [Table!TableNext]_(Table!tableVars)
  BY <1>2, ArriveStep
<1>3. ASSUME NEW i \in DOMAIN view, Select(i) PROVE [Table!TableNext]_(Table!tableVars)
  BY <1>3, MoveStep DEF Select, storeVars, filterVars
<1>4. ASSUME UNCHANGED packets, filterNode' \in Filter \cup {NoFilter}
      PROVE  Table!TableNext
  BY <1>4 DEF TableInv, Cursor, Table!Refilter, Table!PutCursor, Table!TableNext
<1>5. CASE ClearFilter
  BY <1>4, <1>5 DEF ClearFilter, StoreClearFilter
<1>6. ASSUME NEW e \in Expr, ApplyFilter(e) PROVE Table!TableNext
  <2>1. Parse[e] \in Filter
    BY <1>6, ParseAssumption DEF ApplyFilter
  <2> QED
    BY <1>4, <1>6, <2>1 DEF ApplyFilter, StoreApplyFilter
<1>7. CASE CycleSortField \/ ToggleSortDirection
  <2>1. PICK f, d : SetSort(f, d)
    BY <1>7 DEF CycleSortField, ToggleSortDirection
  <2>2. /\ UNCHANGED <<packets, filterNode>>
        /\ view' \in Sorts(packets, view, f, d) /\ view \in Seq(Nat)
    BY <2>1 DEF SetSort, Sort, filterVars, TableInv
  <2> QED
    BY <2>2, SortsFacts, MoveStep
<1>8. ASSUME UNCHANGED <<storeVars, filterNode, selectVars>>
      PROVE  [Table!TableNext]_(Table!tableVars)
  BY <1>8 DEF storeVars, selectVars, Table!tableVars
<1>9. CASE ExportToPcap \/ ExportFails
  BY <1>8, <1>9 DEF ExportToPcap, ExportFails, filterVars
<1>10. ASSUME NEW e \in Expr, RejectFilter(e) PROVE [Table!TableNext]_(Table!tableVars)
  BY <1>8, <1>10 DEF RejectFilter
<1>11. CASE UNCHANGED vars
  BY <1>8, <1>11 DEF vars, filterVars
<1> QED
  BY <1>1, <1>2, <1>3, <1>5, <1>6, <1>7, <1>9, <1>10, <1>11 DEF Next

\* The session implements the table: it shows exactly the accepted packets
\* with the cursor on one of them, and no arrival moves the cursor.
THEOREM SessionImplementsTable == Spec => ImplementsTable
<1>1. Init => Table!TableInit
  BY DEF Init, StoreInit, Table!TableInit, Range
<1>2. SessionInv => TableInv
  BY TableInvHolds
<1>3. SessionInv /\ TableInv /\ TableInv' /\ [Next]_vars => [Table!TableNext]_(Table!tableVars)
  BY StepImplementsTable
<1> QED
  BY <1>1, <1>2, <1>3, SessionInvariant, PTL DEF Spec, ImplementsTable, Table!TableSpec
=============================================================================
