------------------------- MODULE PacketStoreProofs --------------------------
(***************************************************************************)
(* What the operations of the packet store leave in the view, for the      *)
(* proofs about the modules that own a store.                              *)
(***************************************************************************)
EXTENDS PacketStore, SequenceTheorems, FiniteSetTheorems, TLAPS

\* A sequence is empty exactly when it has no index; otherwise it has a first
\* and a last one.
LEMMA SeqIndices ==
    ASSUME NEW T, NEW s \in Seq(T)
    PROVE  /\ s = <<>> <=> DOMAIN s = {}
           /\ s = <<>> <=> Range(s) = {}
           /\ s # <<>> => 1 \in DOMAIN s /\ Len(s) \in DOMAIN s
           /\ DOMAIN s = 1..Len(s) /\ Len(s) \in Nat
<1>1. DOMAIN s = 1..Len(s) /\ Len(s) \in Nat
  OBVIOUS
<1>2. s = <<>> <=> Len(s) = 0
  BY EmptySeq
<1>3. Len(s) = 0 <=> DOMAIN s = {}
  <2>1. 1..0 = {}
    OBVIOUS
  <2>2. Len(s) # 0 => 1 \in DOMAIN s
    BY <1>1
  <2> QED
    BY <1>1, <2>1, <2>2
<1>4. Range(s) = {} <=> DOMAIN s = {}
  BY DEF Range
<1>5. Len(s) # 0 => 1 \in DOMAIN s /\ Len(s) \in DOMAIN s
  BY <1>1
<1> QED
  BY <1>1, <1>2, <1>3, <1>4, <1>5

\* A sort permutes the view: the result has the view's length, shows the same
\* indices, shows none twice if the view did not, and is in order.
LEMMA SortsFacts ==
    ASSUME NEW log, NEW v \in Seq(Nat), NEW f, NEW d,
           NEW w \in Sorts(log, v, f, d)
    PROVE  /\ w \in Seq(Nat)
           /\ DOMAIN w = DOMAIN v
           /\ Len(w) = Len(v)
           /\ Range(w) = Range(v)
           /\ IsInjective(v) => IsInjective(w)
           /\ Sorted(log, w, f, d)
<1>1. PICK q \in Bijection(DOMAIN v, DOMAIN v) :
          /\ w = [i \in DOMAIN v |-> v[q[i]]]
          /\ Sorted(log, w, f, d)
  BY DEF Sorts
<1>2. /\ q \in [DOMAIN v -> DOMAIN v]
      /\ \A i, j \in DOMAIN v : q[i] = q[j] => i = j
      /\ \A j \in DOMAIN v : \E i \in DOMAIN v : q[i] = j
  BY DEF Bijection, Injection, Surjection, IsInjective
<1>3. v \in [1..Len(v) -> Nat] /\ Len(v) \in Nat /\ DOMAIN v = 1..Len(v)
  OBVIOUS
<1>4. w \in [1..Len(v) -> Nat]
  <2>1. \A i \in 1..Len(v) : v[q[i]] \in Nat
    BY <1>2, <1>3
  <2>2. w = [i \in 1..Len(v) |-> v[q[i]]]
    BY <1>1, <1>3
  <2> QED
    BY <2>1, <2>2
<1>5. w \in Seq(Nat) /\ Len(w) = Len(v) /\ DOMAIN w = DOMAIN v
  BY <1>3, <1>4
<1>6. Range(w) = Range(v)
  BY <1>1, <1>2 DEF Range
<1>7. IsInjective(v) => IsInjective(w)
  BY <1>1, <1>2 DEF IsInjective
<1> QED
  BY <1>1, <1>5, <1>6, <1>7

\* The rebuilt view, before it is sorted: a sequence of the indices in S, each
\* of them once.
LEMMA IncreasingFacts ==
    ASSUME NEW n \in Nat, NEW S \in SUBSET (1..n), NEW v \in Increasing(S)
    PROVE  /\ v \in Seq(Nat)
           /\ Range(v) = S
           /\ IsInjective(v)
           /\ v = <<>> => S = {}
<1>1. IsFiniteSet(S)
  <2>1. IsFiniteSet(1..n)
    BY FS_Interval
  <2> QED
    BY <2>1, FS_Subset
<1>2. Cardinality(S) \in Nat
  BY <1>1, FS_CardinalityType
<1>3. /\ v \in [1..Cardinality(S) -> S]
      /\ \A i, j \in DOMAIN v : i < j => v[i] < v[j]
      /\ Range(v) = S
  BY DEF Increasing
<1>4. v \in [1..Cardinality(S) -> Nat] /\ v \in Seq(Nat)
  <2>1. S \subseteq Nat
    OBVIOUS
  <2>2. v \in [1..Cardinality(S) -> Nat]
    BY <1>3, <2>1
  <2> QED
    BY <1>2, <2>2
<1>5. IsInjective(v)
  <2>1. \A i, j \in DOMAIN v : i < j \/ i = j \/ j < i
    BY <1>2, <1>3
  <2>2. \A i \in DOMAIN v : v[i] \in Nat
    BY <1>4
  <2> QED
    BY <1>3, <2>1, <2>2 DEF IsInjective
<1>6. v = <<>> => S = {}
  BY <1>3 DEF Range
<1> QED
  BY <1>3, <1>4, <1>5, <1>6

\* Rebuilding the view for a filter node shows exactly the packets the node
\* accepts, each once, in the current order.
LEMMA RebuildFacts ==
    ASSUME NEW log \in Seq(Packet), NEW node, Rebuild(log, node)
    PROVE  /\ view' \in Seq(Nat)
           /\ Range(view') = Matching(log, node)
           /\ IsInjective(view')
           /\ Sorted(log, view', sortField, sortDir)
           /\ sortField' = sortField /\ sortDir' = sortDir
<1>1. PICK v \in Increasing(Matching(log, node)) :
          view' \in Sorts(log, v, sortField, sortDir)
  BY DEF Rebuild
<1>2. Matching(log, node) \in SUBSET (1..Len(log)) /\ Len(log) \in Nat
  BY DEF Matching
<1>3. /\ v \in Seq(Nat)
      /\ Range(v) = Matching(log, node)
      /\ IsInjective(v)
  BY <1>2, IncreasingFacts
<1>4. /\ view' \in Seq(Nat)
      /\ Range(view') = Range(v)
      /\ IsInjective(v) => IsInjective(view')
      /\ Sorted(log, view', sortField, sortDir)
  BY <1>1, <1>3, SortsFacts
<1>5. sortField' = sortField /\ sortDir' = sortDir
  BY DEF Rebuild
<1> QED
  BY <1>3, <1>4, <1>5
=============================================================================
