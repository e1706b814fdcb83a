---------------------------- MODULE PacketStore ----------------------------
(***************************************************************************)
(* The packet store (model/PacketStore.h, model/PacketStore.cpp): every    *)
(* packet that was captured, in arrival order, and the view, the sequence  *)
(* of indices of the packets the user sees.                                *)
(*                                                                         *)
(* The operations are written as actions over the store's own variables,   *)
(* for the modules that own a store (SessionModel) to conjoin.  Positions  *)
(* are 1-based: index i of a C++ vector is i + 1 here.                     *)
(*                                                                         *)
(* A packet is an element of Packet.  What the store tells apart in it is  *)
(* the key each sort field compares (timestamp, length_orig and top_proto) *)
(* and which filters accept it: a filter node is the set of the packets    *)
(* its evaluate() returns true for.                                        *)
(***************************************************************************)
EXTENDS Integers, Sequences, FiniteSets, Functions

CONSTANTS Packet,    \* parsed packets
          Key,       \* Key[f][p]: the number the comparator of field f reads in p
          Filter,    \* the filter nodes the parser can build
          NoFilter   \* the null filter_node_

SortField     == {"Time", "Size", "Protocol"}
SortDirection == {"Ascending", "Descending"}

ASSUME KeyAssumption == Key \in [SortField -> [Packet -> Int]]

ASSUME FilterAssumption ==
    /\ Filter \subseteq SUBSET Packet
    /\ NoFilter \notin Filter

VARIABLES packets,    \* packets_: all packets, in arrival order
          view,       \* view_: indices into packets_
          sortField,  \* sort_field_
          sortDir     \* sort_dir_

storeVars == <<packets, view, sortField, sortDir>>

StoreTypeOK ==
    /\ packets \in Seq(Packet)
    /\ view \in Seq(Nat)
    /\ sortField \in SortField
    /\ sortDir \in SortDirection

-----------------------------------------------------------------------------
Accepts(node, p) == node = NoFilter \/ p \in node

\* The packets of log that node lets through, by index.
Matching(log, node) == {i \in DOMAIN log : Accepts(node, log[i])}

KeyAt(log, f, i) == Key[f][log[i]]

\* w shows the packets of log in the order of field f and direction d.
Sorted(log, w, f, d) ==
    \A i, j \in DOMAIN w : i < j =>
        IF d = "Ascending" THEN KeyAt(log, f, w[i]) <= KeyAt(log, f, w[j])
                           ELSE KeyAt(log, f, w[i]) >= KeyAt(log, f, w[j])

(***************************************************************************)
(* What stable_sort may leave in the view when it held v: a permutation of *)
(* v in order.  Ascending, packets with equal keys keep their order.  The  *)
(* comparator of the descending sort is the negation of "less than", which *)
(* is true of a packet and itself, so it is no strict weak ordering; what  *)
(* happens to packets with equal keys is up to the library, and any order  *)
(* among them is allowed here.                                             *)
(***************************************************************************)
Sorts(log, v, f, d) ==
    LET Permuted(perm) == [i \in DOMAIN v |-> v[perm[i]]]
        KeepsTies(perm) == \A i, j \in DOMAIN v :
            (i < j /\ KeyAt(log, f, v[perm[i]]) = KeyAt(log, f, v[perm[j]]))
                => perm[i] < perm[j]
    IN  {Permuted(perm) : perm \in
            {q \in Bijection(DOMAIN v, DOMAIN v) :
                /\ Sorted(log, Permuted(q), f, d)
                /\ d = "Ascending" => KeepsTies(q)}}

(***************************************************************************)
(* The loops that rebuild the view push indices in increasing order:       *)
(* reset_view() all of them, apply_filter() those the filter accepts.      *)
(***************************************************************************)
Increasing(S) ==
    {v \in [1..Cardinality(S) -> S] :
        /\ \A i, j \in DOMAIN v : i < j => v[i] < v[j]
        /\ Range(v) = S}

-----------------------------------------------------------------------------
StoreInit ==
    /\ packets = <<>>
    /\ view = <<>>
    /\ sortField = "Time"
    /\ sortDir = "Ascending"

\* sort(): reorders the view and remembers the order for the next rebuild.
Sort(f, d) ==
    /\ view' \in Sorts(packets, view, f, d)
    /\ sortField' = f
    /\ sortDir' = d
    /\ UNCHANGED packets

\* Mutant of Rebuild: the final sort() is forgotten.
RebuildUnsorted(log, node) ==
    /\ view' \in Increasing(Matching(log, node))
    /\ UNCHANGED <<sortField, sortDir>>

\* The view becomes what node accepts of log, in the current order.
Rebuild(log, node) ==
    /\ \E v \in Increasing(Matching(log, node)) :
            view' \in Sorts(log, v, sortField, sortDir)
    /\ UNCHANGED <<sortField, sortDir>>

\* apply_filter(pred), with the predicate of node.
StoreApplyFilter(node) ==
    /\ UNCHANGED packets
    /\ Rebuild(packets, node)

\* clear_filter(): reset_view() to every packet, then sort.
StoreClearFilter ==
    /\ UNCHANGED packets
    /\ Rebuild(packets, NoFilter)

\* load_from_vector(log)
LoadFromVector(log) ==
    /\ packets' = log
    /\ Rebuild(log, NoFilter)

\* Mutant of StoreAppend: the filter is not consulted.
StoreAppendUnfiltered(p, node) ==
    /\ packets' = Append(packets, p)
    /\ view' = Append(view, Len(packets) + 1)
    /\ UNCHANGED <<sortField, sortDir>>

\* Mutant of StoreAppend: the newest packet goes to the front of the view.
StoreAppendInFront(p, node) ==
    /\ packets' = Append(packets, p)
    /\ view' = IF Accepts(node, p) THEN <<Len(packets) + 1>> \o view ELSE view
    /\ UNCHANGED <<sortField, sortDir>>

\* append(p, pred), with the predicate of node: the new index goes to the
\* back of the view whatever the current order is.
StoreAppend(p, node) ==
    /\ packets' = Append(packets, p)
    /\ view' = IF Accepts(node, p) THEN Append(view, Len(packets) + 1) ELSE view
    /\ UNCHANGED <<sortField, sortDir>>
=============================================================================
