---------------------------- MODULE DissectProofs ----------------------------
(***************************************************************************)
(* No dissector reads beyond the captured bytes or describes any: the      *)
(* place of a call and the length it is given always add up to the packet, *)
(* and a loop's position stays within that length.  From these (IInv)      *)
(* follow the properties of reads, offsets and fields.                     *)
(*                                                                         *)
(* What the tree holds and what the summary says belong together at every  *)
(* step, not only at the end: which layers are there when a dissector is   *)
(* called, and what it has called the packet when it returns (TreeInv).    *)
(* From these follow the properties of the finished dissection.            *)
(***************************************************************************)
EXTENDS Dissect, TLAPS

LEMMA Distribute ==
    ASSUME NEW s \in Int, NEW x \in Int, NEW y \in Int
    PROVE  s * (x + y) = s * x + s * y
OBVIOUS

LEMMA RemainderIsUnique ==
    ASSUME NEW s \in Nat \ {0}, NEW q \in Int, NEW r \in 0..s - 1,
           NEW p \in Int, NEW t \in 0..s - 1, s * q + r = s * p + t
    PROVE  r = t
<1>1. CASE q < p
  <2>1. s * (p - q) >= s  BY <1>1
  <2>2. s * (p - q) = s * p - s * q  OBVIOUS
  <2> QED  BY <2>1, <2>2
<1>2. CASE p < q
  <2>1. s * (q - p) >= s  BY <1>2
  <2>2. s * (q - p) = s * q - s * p  OBVIOUS
  <2> QED  BY <2>1, <2>2
<1> QED  BY <1>1, <1>2

LEMMA Regroup ==
    ASSUME NEW x \in Int, NEW r \in Nat, NEW a \in Nat, NEW n \in Nat, a = x + r
    PROVE  r + n \in Nat /\ a + n \in Nat /\ a + n = x + (r + n)
OBVIOUS

LEMMA Division ==
    ASSUME NEW s \in Nat \ {0}, NEW a \in Nat
    PROVE  \E q \in Int : a = s * q + (a % s) /\ a % s \in 0..s - 1
<1>1. a = s * (a \div s) + (a % s) /\ a \div s \in Int /\ a % s \in 0..s - 1
  OBVIOUS
<1> QED  BY <1>1

LEMMA ModIsNat ==
    ASSUME NEW s \in Nat \ {0}, NEW a \in Nat
    PROVE  a % s \in Nat
OBVIOUS

\* Offsets may be cut to their width at each step.
LEMMA ModAdd ==
    ASSUME NEW s \in Nat \ {0}, NEW a \in Nat, NEW n \in Nat
    PROVE  ((a % s) + n) % s = (a + n) % s
<1>1. PICK q \in Int : a = s * q + (a % s) /\ a % s \in 0..s - 1
  BY Division
<1> DEFINE b == (a % s) + n
           c == a + n
<1>2. b \in Nat /\ c \in Nat /\ c = s * q + b
  <2> DEFINE m == s * q
             r == a % s
  <2>1. m \in Int /\ r \in Nat /\ a = m + r  BY <1>1
  <2> HIDE DEF m, r
  <2>2. r + n \in Nat /\ a + n \in Nat /\ a + n = m + (r + n)
    BY <2>1, Regroup
  <2> QED  BY ONLY <2>2 DEF m, r
<1> HIDE DEF b, c
<1>3. PICK p \in Int : b = s * p + (b % s) /\ b % s \in 0..s - 1
  BY <1>2, Division
<1>4. PICK t \in Int : c = s * t + (c % s) /\ c % s \in 0..s - 1
  BY <1>2, Division
<1>5. s * (q + p) = s * q + s * p  BY Distribute
<1>6. s * (q + p) + (b % s) = s * t + (c % s)
  BY <1>2, <1>3, <1>4, <1>5
<1>7. q + p \in Int  OBVIOUS
<1> HIDE DEF b, c
<1>8. b % s = c % s
  BY ONLY <1>3, <1>4, <1>6, <1>7, RemainderIsUnique
<1> QED  BY <1>8 DEF b, c

-----------------------------------------------------------------------------
(* The trees a dissection makes: t may have p as its innermost layer.      *)

Fits(t) == \A i \in DOMAIN t : t[i].proto # "HTTP" => t[i].fields # "beyond"

Tree(t) == t \in Seq(Layer) /\ t # <<>> /\ Fits(t)

LEMMA LayerFacts ==
    /\ Unset \in Layer /\ Unset.fields # "beyond"
    /\ \A p \in Proto : [proto |-> p, fields |-> "none"] \in Layer
    /\ \A p \in Proto, n \in Int : [proto |-> p, fields |-> Extent(n)] \in Layer
BY DEF Unset, Layer, Proto, Extent

LEMMA ChildFits ==
    ASSUME NEW t, Tree(t), NEW l \in Layer, l.proto # "HTTP" => l.fields # "beyond"
    PROVE  /\ Tree(Append(t, l))
           /\ Len(Append(t, l)) = Len(t) + 1
           /\ Append(t, l)[Len(t) + 1] = l
BY DEF Tree, Fits

LEMMA InnermostFits ==
    ASSUME NEW t, Tree(t), NEW l \in Layer, l.proto # "HTTP" => l.fields # "beyond"
    PROVE  /\ Tree([t EXCEPT ![Len(t)] = l])
           /\ Len([t EXCEPT ![Len(t)] = l]) = Len(t)
           /\ [t EXCEPT ![Len(t)] = l][Len(t)] = l
BY DEF Tree, Fits

LEMMA NamedFits ==
    ASSUME Tree(tree), NEW p \in Proto
    PROVE  Tree(Named(p)) /\ Len(Named(p)) = Len(tree)
BY InnermostFits, LayerFacts DEF Named

LEMMA FilledFits ==
    ASSUME Tree(tree), NEW p \in Proto, NEW n \in Int, p = "HTTP" \/ data + n <= raw.cap
    PROVE  /\ Tree(Filled(p, n)) /\ Len(Filled(p, n)) = Len(tree)
           /\ Filled(p, n)[Len(tree)].proto = p
<1> DEFINE l == [proto |-> p, fields |-> Extent(n)]
<1>1. l \in Layer /\ (l.proto # "HTTP" => l.fields # "beyond")
  BY LayerFacts DEF Extent
<1>2. l.proto = p  OBVIOUS
<1> HIDE DEF l
<1>3. Filled(p, n) = [tree EXCEPT ![Len(tree)] = l]  BY DEF Filled, l
<1> QED  BY <1>1, <1>2, <1>3, InnermostFits

LEMMA DescribedFits ==
    ASSUME Tree(tree), NEW n \in Int,
           tree[Len(tree)].proto = "HTTP" \/ data + n <= raw.cap
    PROVE  /\ Tree(Described(n)) /\ Len(Described(n)) = Len(tree)
           /\ Described(n)[Len(tree)].proto = tree[Len(tree)].proto
<1> DEFINE o == tree[Len(tree)]
           f == IF o.fields = "beyond" THEN o.fields ELSE Extent(n)
           l == [proto |-> o.proto, fields |-> f]
<1>1. o \in Layer /\ (o.proto # "HTTP" => o.fields # "beyond")
  BY DEF Tree, Fits
<1>2. l \in Layer /\ (l.proto # "HTTP" => l.fields # "beyond") /\ l.proto = o.proto
  BY <1>1 DEF Extent, Layer
<1>3. Described(n) = [tree EXCEPT ![Len(tree)] = l]
  <2>1. [o EXCEPT !.fields = f] = l  BY <1>1 DEF Layer
  <2>2. Described(n) = [tree EXCEPT ![Len(tree)] = [o EXCEPT !.fields = f]]
    BY DEF Described, Tree
  <2> QED  BY <2>1, <2>2
<1> HIDE DEF l
<1> QED  BY <1>2, <1>3, InnermostFits

LEMMA FrontFits ==
    ASSUME Tree(tree), Len(tree) >= 2
    PROVE  Tree(Front) /\ Len(Front) = Len(tree) - 1
<1>1. tree \in Seq(Layer) /\ Len(tree) - 1 \in 1..Len(tree)  BY DEF Tree
<1>2. /\ Front \in Seq(Layer) /\ Len(Front) = Len(tree) - 1
      /\ \A i \in 1..Len(tree) - 1 : Front[i] = tree[i]
  BY <1>1 DEF Front
<1> QED  BY <1>1, <1>2 DEF Tree, Fits

-----------------------------------------------------------------------------
(* The inductive invariant.                                                *)

\* The call: what it was given ends where the packet ends.
Call ==
    /\ raw \in Frame /\ data \in Nat /\ len \in Nat /\ data + len = raw.cap
    /\ offset = data % OffsetSpan
    /\ reads = "within"

\* The loops: those that trust pos to be in the packet.
Loop ==
    /\ pos \in Nat /\ ptr \in Nat /\ count \in Nat
    /\ pc \in {"labels", "records", "name", "record", "option", "header"} => pos <= len
    /\ pc = "route" => pos = 0

\* The layer an application fills is inside others; header fields are HTTP's.
Innermost ==
    /\ pc \in {"dns", "dhcp", "ntp", "http", "ftp", "smtp", "tls", "ssh"} => Len(tree) >= 2
    /\ pc = "header" => tree[Len(tree)].proto = "HTTP"

IInv ==
    /\ pc \in Place /\ arg \in Argument /\ pkt \in Packet
    /\ Call /\ Loop /\ Tree(tree) /\ Innermost

LEMMA CapFact ==
    ASSUME raw \in Frame
    PROVE  raw.cap \in Nat
BY FrameAssumption

LEMMA PortsFact ==
    ASSUME raw \in Frame
    PROVE  raw.ports \in SUBSET PortNumber
BY FrameAssumption

LEMMA PlaceFacts ==
    /\ DOMAIN Minimum = {"ethernet", "arp", "ipv4", "ipv6", "icmp", "icmpv6", "tcp", "udp"}
    /\ DOMAIN AppMinimum = {"dns", "dhcp", "ntp"}
    /\ DOMAIN Text = {"http", "ftp", "smtp"}
BY DEF Minimum, AppMinimum, Text

LEMMA MinimumFacts ==
    /\ Minimum["ethernet"] = 14 /\ Minimum["arp"] = 8 /\ Minimum["ipv4"] = 20
    /\ Minimum["ipv6"] = 40 /\ Minimum["icmp"] = 4 /\ Minimum["icmpv6"] = 4
    /\ Minimum["tcp"] = 20 /\ Minimum["udp"] = 8
    /\ AppMinimum["dns"] = 12 /\ AppMinimum["dhcp"] = 236 /\ AppMinimum["ntp"] = 48
BY DEF Minimum, AppMinimum

\* A call by which pointer, length and offset move together, n bytes on.  That
\* the three expressions of each caller do so is what the steps below show.
PassBy(next, n) == Pass(next, data + n, len - n, offset + n)

\* The payload behind a header of n bytes, its length guarded,
LEMMA BehindMoves ==
    ASSUME Call, NEW n \in Nat, n <= len, NEW next,
           Pass(next, data + n, Behind(n), offset + n)
    PROVE  PassBy(next, n)
<1>1. Behind(n) = len - n  BY DEF Behind, Call
<1> QED  BY <1>1 DEF PassBy

\* the arguments as they came,
LEMMA SameMoves ==
    ASSUME Call, NEW next, Pass(next, data, len, offset)
    PROVE  PassBy(next, 0)
<1>1. offset \in Nat /\ data \in Nat /\ len \in Nat
  BY LayersAssumption, ModIsNat DEF Call
<1>2. data + 0 = data /\ len - 0 = len /\ offset + 0 = offset  BY <1>1
<1> QED  BY <1>2 DEF PassBy

\* and an extension header, whose length is cut before it is added.
LEMMA CutMoves ==
    ASSUME Call, NEW n \in Nat, NEW next,
           Pass(next, data + n, len - n, offset + (n % OffsetSpan))
    PROVE  PassBy(next, n)
<1>1. OffsetSpan \in Nat \ {0}  BY LayersAssumption
<1>2. offset \in Nat  BY <1>1, ModIsNat DEF Call
<1>3. n % OffsetSpan \in Nat  BY <1>1, ModIsNat
<1>4. (offset + (n % OffsetSpan)) % OffsetSpan = (offset + n) % OffsetSpan
  <2>1. offset + (n % OffsetSpan) = (n % OffsetSpan) + offset /\ offset + n = n + offset
    BY <1>2, <1>3
  <2> QED  BY <1>1, <1>2, <2>1, ModAdd
<1> QED  BY <1>4 DEF PassBy, Pass

\* Handing on what follows n of the bytes keeps the account.
LEMMA PassKeeps ==
    ASSUME Call, raw' = raw, reads' = "within", NEW n \in Nat, n <= len, NEW next,
           PassBy(next, n)
    PROVE  /\ Call' /\ pc' = next
           /\ pos' = 0 /\ ptr' = 0 /\ count' = 0 /\ pos' \in Nat /\ ptr' \in Nat /\ count' \in Nat
<1>1. OffsetSpan \in Nat \ {0}  BY LayersAssumption
<1>2. raw.cap \in Nat  BY CapFact DEF Call
<1>3. offset' = data' % OffsetSpan
  BY <1>1, ModAdd DEF Call, PassBy, Pass
<1> QED  BY <1>2, <1>3 DEF Call, PassBy, Pass

\* Reading up to n of the bytes.
LEMMA ReadsKeeps ==
    ASSUME Call, NEW n \in Nat, n <= len, Reads(n)
    PROVE  reads' = "within" /\ data + n <= raw.cap
BY CapFact DEF Call, Reads, Extent

LEMMA ReturnKeeps ==
    ASSUME IInv, Return, raw' = raw, reads' = "within", pkt' \in Packet, Tree(tree')
    PROVE  IInv'
<1>1. pc' = "done" /\ arg' = "none" /\ pc' \in Place /\ arg' \in Argument
  BY DEF Return, Place, Argument
<1>2. Call' /\ Loop' /\ Innermost'
  BY <1>1 DEF IInv, Call, Loop, Innermost, Return, callVars, loopVars
<1> QED  BY <1>1, <1>2 DEF IInv

\* A dissector that returns with a layer called p and fields up to n.
LEMMA FillReturns ==
    ASSUME IInv, Return, raw' = raw, NEW n \in Nat, n <= len, Reads(n), pkt' \in Packet,
           NEW p \in Proto, NEW m \in Nat, m <= len \/ p = "HTTP", tree' = Filled(p, m)
    PROVE  IInv'
<1>1. reads' = "within"  BY ReadsKeeps DEF IInv
<1>2. data + m <= raw.cap \/ p = "HTTP"  BY CapFact DEF IInv, Call
<1>3. Tree(tree')  BY <1>2, FilledFits DEF IInv
<1> QED  BY <1>1, <1>3, ReturnKeeps

LEMMA DescribeReturns ==
    ASSUME IInv, Return, raw' = raw, NEW n \in Nat, n <= len, Reads(n), pkt' = pkt,
           NEW m \in Nat, m <= len, tree' = Described(m)
    PROVE  IInv'
<1>1. reads' = "within"  BY ReadsKeeps DEF IInv
<1>2. data + m <= raw.cap  BY CapFact DEF IInv, Call
<1>3. Tree(tree')  BY <1>2, DescribedFits DEF IInv
<1>4. pkt' \in Packet  BY DEF IInv
<1> QED  BY <1>1, <1>3, <1>4, ReturnKeeps

\* A call of the next dissector.
LEMMA CallKeeps ==
    ASSUME IInv, raw' = raw, reads' = "within",
           NEW n \in Nat, n <= len, NEW next \in Place, PassBy(next, n),
           next \notin {"labels", "records", "name", "record", "option", "header"},
           arg' \in Argument, pkt' \in Packet, Tree(tree'),
           next \in {"dns", "dhcp", "ntp", "http", "ftp", "smtp", "tls", "ssh"}
              => Len(tree') >= 2
    PROVE  IInv'
<1>2. /\ Call' /\ pc' = next /\ pos' \in Nat /\ ptr' \in Nat /\ count' \in Nat
      /\ pos' = 0
  BY PassKeeps DEF IInv
<1>3. Loop' /\ Innermost'  BY <1>2 DEF Loop, Innermost
<1> QED  BY <1>2, <1>3 DEF IInv

\* A dissector that goes on within its call.
LEMMA GoKeeps ==
    ASSUME IInv, raw' = raw, reads' = "within", NEW next \in Place, Goto(next),
           next \notin {"route", "dns", "dhcp", "ntp", "http", "ftp", "smtp", "tls", "ssh"},
           pos' \in Nat, ptr' \in Nat, count' \in Nat,
           next \in {"labels", "records", "name", "record", "option", "header"}
              => pos' <= len,
           arg' \in Argument, pkt' \in Packet, Tree(tree'),
           next = "header" => tree'[Len(tree')].proto = "HTTP"
    PROVE  IInv'
<1>2. Call' /\ pc' = next /\ len' = len
  BY DEF IInv, Call, Goto, callVars
<1>3. Loop' /\ Innermost'  BY <1>2 DEF Loop, Innermost
<1> QED  BY <1>2, <1>3 DEF IInv

LEMMA TopKeeps ==
    ASSUME pkt \in Packet, NEW p \in TopProto, Is(p)
    PROVE  pkt' \in Packet
BY DEF Packet, Is

-----------------------------------------------------------------------------
LEMMA PlaceHas ==
    /\ {"route", "labels", "headers", "ethernet", "arp", "ipv4", "ipv6", "icmp", "icmpv6",
        "tcp", "udp"} \subseteq Place
    /\ {"records", "name", "record", "option", "header", "session", "ciphers",
        "compression", "extensions", "extension", "dns", "dhcp", "ntp", "http", "ftp",
        "smtp", "tls", "ssh"} \subseteq Place
BY PlaceFacts DEF Place, AppPlace

LEMMA ArgumentHas ==
    /\ EtherType \subseteq Argument /\ NextHeader \subseteq Argument
    /\ {"ipv4", "ipv6", "more", "bottom", "both", "question", "answer", "none"}
          \subseteq Argument
BY DEF Argument, EtherType

LEMMA OwnFits ==
    ASSUME Tree(tree), NEW p \in Proto, NEW f \in {"none", "within"}
    PROVE  Tree(OwnLayer(p, f)) /\ Len(OwnLayer(p, f)) = Len(tree) + 1
<1>1. /\ [proto |-> p, fields |-> f] \in Layer
      /\ [proto |-> p, fields |-> f].fields # "beyond"
  BY DEF Layer
<1> QED  BY <1>1, ChildFits DEF OwnLayer

LEMMA LengthFacts ==
    /\ Nibble \subseteq Nat /\ Byte \subseteq Nat /\ Word \subseteq Nat
    /\ Line \subseteq Nat /\ 0 \notin Line
BY LayersAssumption

LEMMA ReadsStay ==
    ASSUME IInv
    PROVE  /\ reads = "within"
           /\ \A n \in Nat : n <= len /\ Reads(n) => reads' = "within"
           /\ len \in Nat /\ data \in Nat /\ raw.cap \in Nat /\ data + len = raw.cap
           /\ pkt \in Packet /\ Tree(tree) /\ arg \in Argument
BY ReadsKeeps, CapFact DEF IInv, Call

LEMMA ServeKeeps ==
    ASSUME IInv, raw' = raw, reads' = "within", NEW n \in Nat, n <= len,
           NEW plain \in TopProto, NEW t, Tree(t), Len(t) >= 1,
           NEW services,
           \A i \in DOMAIN services :
              /\ services[i].empty \in TopProto
              /\ services[i].app
                    \in {"dns", "dhcp", "ntp", "http", "ftp", "smtp", "tls", "ssh"},
           Serve(services, plain, data + n, Behind(n), offset + n, t)
    PROVE  IInv'
<1> DEFINE found == Matches(services, raw.ports)
           ported == [pkt EXCEPT !.ports = raw.ports]
<1>1. /\ ported \in Packet /\ \A q \in TopProto : [ported EXCEPT !.top = q] \in Packet
      /\ found \subseteq DOMAIN services
  <2>1. raw.ports \in SUBSET PortNumber  BY PortsFact DEF IInv, Call
  <2>2. pkt \in Packet  BY DEF IInv
  <2> QED  BY <2>1, <2>2 DEF Packet, Matches
<1>2. \/ Return /\ tree' = t /\ pkt' = [ported EXCEPT !.top = plain]
      \/ \E i \in found : /\ Return /\ tree' = t
                          /\ pkt' = [ported EXCEPT !.top = services[i].empty]
      \/ \E i \in found : /\ Pass(services[i].app, data + n, Behind(n), offset + n)
                          /\ tree' = WithChild(t)
                          /\ pkt' = ported /\ arg' = "none"
  BY Zenon DEF Serve
<1> HIDE DEF found, ported
<1>3. CASE Return /\ tree' = t /\ pkt' = [ported EXCEPT !.top = plain]
  BY <1>1, <1>3, ReturnKeeps
<1>4. ASSUME NEW i \in found, Return, tree' = t,
             pkt' = [ported EXCEPT !.top = services[i].empty]
      PROVE  IInv'
  BY <1>1, <1>4, ReturnKeeps
<1>5. ASSUME NEW i \in found, Pass(services[i].app, data + n, Behind(n), offset + n),
             tree' = WithChild(t), pkt' = ported, arg' = "none"
      PROVE  IInv'
  <2>1. Tree(tree') /\ Len(tree') >= 2
    BY <1>5, ChildFits, LayerFacts DEF WithChild
  <2>2. services[i].app \in {"dns", "dhcp", "ntp", "http", "ftp", "smtp", "tls", "ssh"}
    BY <1>1
  <2>3. arg' \in Argument /\ pkt' \in Packet  BY <1>1, <1>5, ArgumentHas
  <2>4. PassBy(services[i].app, n)  BY <1>5, BehindMoves DEF IInv
  <2> QED  BY ONLY IInv, raw' = raw, reads' = "within", n \in Nat, n <= len, PlaceHas,
              <2>1, <2>2, <2>3, <2>4, CallKeeps
<1> QED  BY <1>2, <1>3, <1>4, <1>5

LEMMA ServiceFacts ==
    /\ \A i \in DOMAIN TcpServices :
          /\ TcpServices[i].empty \in TopProto
          /\ TcpServices[i].app \in {"http", "tls", "dns", "ssh", "ftp", "smtp"}
    /\ \A i \in DOMAIN UdpServices :
          /\ UdpServices[i].empty \in TopProto
          /\ UdpServices[i].app \in {"dns", "dhcp", "ntp"}
BY DEF TcpServices, UdpServices, TopProto, Proto

LEMMA Fill ==
    ASSUME IInv, NEW n \in Nat, n <= len, NEW p \in Proto
    PROVE  Tree(Filled(p, n))
BY ReadsStay, FilledFits

LEMMA Describe ==
    ASSUME IInv, NEW n \in Nat, n <= len
    PROVE  Tree(Described(n))
BY ReadsStay, DescribedFits

LEMMA NetworkKeeps ==
    ASSUME IInv, NetworkNext
    PROVE  IInv'
<1> USE ReadsStay, MinimumFacts, PlaceHas, ArgumentHas DEF At
<1>1. CASE Truncated
  BY <1>1, ReturnKeeps DEF Truncated
<1>2. CASE Ethernet
  <2> USE <1>2 DEF Ethernet
  <2>1. reads' = "within"  OBVIOUS
  <2>2. Tree(tree')
    <3>1. 14 <= len /\ tree' = Filled("Ethernet", 14)  OBVIOUS
    <3> QED  BY ONLY IInv, <3>1, Fill DEF Proto
  <2>3. 14 <= len /\ raw' = raw /\ arg' \in Argument /\ pkt' \in Packet
    OBVIOUS
  <2>4. PassBy("route", 14)  BY DEF PassBy
  <2> QED  BY ONLY IInv, PlaceHas, <2>1, <2>2, <2>3, <2>4, CallKeeps
<1>3. CASE RouteNetwork
  <2> USE <1>3 DEF RouteNetwork
  <2>1. Tree(tree')  BY ChildFits, LayerFacts DEF WithChild
  <2>2. len \in Nat /\ raw' = raw /\ arg' \in Argument /\ pkt' \in Packet
        /\ arg \in {"ipv4", "ipv6", "arp"} /\ reads' = "within"
    OBVIOUS
  <2>4. PassBy(arg, 0)  BY SameMoves DEF IInv
  <2> QED  BY ONLY IInv, PlaceHas, <2>1, <2>2, <2>4, CallKeeps
<1>4. CASE RouteOther
  <2>1. pkt' \in Packet  BY <1>4, TopKeeps DEF RouteOther, TopProto, Proto
  <2> QED  BY <1>4, <2>1, ReturnKeeps DEF RouteOther
<1>5. CASE RouteTruncated
  <2>1. pkt' \in Packet  BY <1>5, TopKeeps DEF RouteTruncated, TopProto, Proto
  <2> QED  BY <1>5, <2>1, ReturnKeeps DEF RouteTruncated
<1>6. CASE Vlan
  <2> USE <1>6 DEF Vlan
  <2>1. reads' = "within" /\ 4 <= len /\ raw' = raw /\ PassBy("route", 4)
    BY DEF PassBy
  <2>2. Tree(tree')  BY OwnFits DEF Proto, Extent
  <2>3. pkt' \in Packet  BY TopKeeps DEF TopProto, Proto
  <2>4. arg' \in Argument  BY DEF Inner
  <2> QED  BY ONLY IInv, PlaceHas, <2>1, <2>2, <2>3, <2>4, CallKeeps
<1>7. CASE Mpls
  <2> USE <1>7 DEF Mpls
  <2>1. Tree(tree')  BY OwnFits DEF Proto
  <2>2. pos' = 0 /\ ptr' \in Nat /\ count' \in Nat /\ len \in Nat
    BY DEF IInv, Loop, loopVars
  <2>3. raw' = raw /\ reads' = "within" /\ Goto("labels") /\ arg' \in Argument
        /\ pkt' \in Packet
    OBVIOUS
  <2> QED  BY ONLY IInv, PlaceHas, <2>1, <2>2, <2>3, GoKeeps
<1>8. CASE Label
  <2> USE <1>8 DEF Label, MoreLabels
  <2>1. pos \in Nat /\ ptr' \in Nat /\ count' \in Nat  BY DEF IInv, Loop
  <2>2. pos' = pos + 4 /\ pos' \in Nat /\ pos' <= len  BY <2>1
  <2>3. reads' = "within"  BY <2>1
  <2>4. Tree(tree')  BY <2>1, DescribedFits
  <2>5. raw' = raw /\ Goto("labels") /\ arg' \in Argument /\ pkt' \in Packet
    OBVIOUS
  <2> QED  BY ONLY IInv, PlaceHas, <2>1, <2>2, <2>3, <2>4, <2>5, GoKeeps
<1>9. CASE Unlabelled
  <2> USE <1>9 DEF Unlabelled
  <2>1. pos \in Nat /\ pos <= len  BY DEF IInv, Loop
  <2>2. pkt' \in Packet  BY TopKeeps DEF TopProto, Proto
  <2>3. reads' = "within" /\ raw' = raw /\ Tree(tree')  BY <2>1
  <2>4. CASE Return  BY <2>2, <2>3, <2>4, ReturnKeeps
  <2>5. CASE arg' \in {"ipv4", "ipv6"} /\ PassBy("route", pos)
    <3>1. arg' \in Argument  BY <2>5
    <3> QED  BY ONLY IInv, PlaceHas, <3>1, <2>1, <2>2, <2>3, <2>5, CallKeeps
  <2> QED  BY <2>4, <2>5 DEF PassBy
<1>10. CASE \E h, p \in Byte : Arp(h + p)
  <2>1. PICK h, p \in Byte : Arp(h + p)  BY <1>10
  <2> DEFINE s == h + p
  <2>2. s \in Nat
    <3>1. h \in Nat /\ p \in Nat  BY LengthFacts
    <3> QED  BY <3>1
  <2> HIDE DEF s
  <2>3. Arp(s)  BY <2>1 DEF s
  <2> USE <2>2, <2>3 DEF Arp
  <2>4. reads' = "within" /\ raw' = raw  OBVIOUS
  <2>5. pkt' \in Packet
    <3>1. CASE Is("ARP")  BY <3>1, TopKeeps DEF TopProto, Proto
    <3>2. CASE pkt' = [pkt EXCEPT !.top = "ARP", !.addressed = TRUE]
      BY <3>2 DEF Packet, TopProto, Proto
    <3> QED  BY <3>1, <3>2
  <2>6. Tree(tree')
    <3>1. CASE tree' = Named("ARP")  BY <3>1, NamedFits DEF Proto
    <3>2. 8 <= len  OBVIOUS
    <3>3. Tree(Filled("ARP", 8))  BY ONLY IInv, <3>2, Fill DEF Proto
    <3>4. CASE tree' = Filled("ARP", 8)  BY ONLY <3>3, <3>4
    <3>5. CASE len >= 28 /\ tree' = Filled("ARP", 28)
      <4>1. Tree(Filled("ARP", 28))  BY ONLY IInv, <3>5, Fill DEF Proto
      <4> QED  BY ONLY <3>5, <4>1
    <3> QED  BY <3>1, <3>4, <3>5
  <2>7. Return  OBVIOUS
  <2> QED  BY ONLY IInv, <2>4, <2>5, <2>6, <2>7, ReturnKeeps
<1>11. CASE \E n \in Nibble : IPv4BadHeader(n)
  <2>1. tree' = Named("IPv4") /\ Return /\ raw' = raw /\ pkt' = pkt /\ Reads(1) /\ 1 <= len
    BY <1>11 DEF IPv4BadHeader
  <2>2. Tree(tree')  BY <2>1, NamedFits DEF Proto
  <2> QED  BY <2>1, <2>2, ReturnKeeps
<1>12. CASE \E n \in Nibble : IPv4(n)
  <2>1. PICK n \in Nibble : IPv4(n)  BY <1>12
  <2> DEFINE h == 4 * n
  <2> USE <2>1 DEF IPv4, IPv4Header
  <2>2. n \in Nat  BY LengthFacts
  <2>3. reads' = "within" /\ raw' = raw /\ 4 * n \in Nat /\ 4 * n <= len
    BY <2>2
  <2>4. pkt' \in Packet
    <3>1. CASE pkt' = [pkt EXCEPT !.addressed = TRUE]  BY <3>1 DEF Packet
    <3>2. CASE pkt' = [pkt EXCEPT !.addressed = TRUE, !.top = "IPv4"]
      BY <3>2 DEF Packet, TopProto, Proto
    <3> QED  BY <3>1, <3>2
  <2>5. Tree(Filled("IPv4", 20))
    <3>1. 20 <= len  BY <2>2
    <3> QED  BY ONLY IInv, <3>1, Fill DEF Proto
  <2>6. CASE tree' = Filled("IPv4", 20) /\ Return
    BY <2>3, <2>4, <2>5, <2>6, ReturnKeeps
  <2>7. CASE /\ tree' = WithChild(Filled("IPv4", 20)) /\ arg' = "none"
             /\ \E p \in {"tcp", "udp", "icmp"} : Pass(p, data + h, Behind(h), offset + h)
    <3>1. Tree(tree')  BY <2>5, <2>7, ChildFits, LayerFacts DEF WithChild
    <3>2. PICK p \in {"tcp", "udp", "icmp"} : Pass(p, data + h, Behind(h), offset + h)
      BY <2>7
    <3>3. arg' \in Argument  BY <2>7
    <3>4. PassBy(p, h)  BY ONLY IInv, <2>3, <3>2, BehindMoves DEF IInv
    <3> QED  BY ONLY IInv, PlaceHas, <2>3, <2>4, <3>1, <3>3, <3>4, CallKeeps
  <2> QED  BY <2>6, <2>7
<1>13. CASE \E n \in Nibble : TcpBadHeader(n)
  <2>1. tree' = Named("TCP") /\ Return /\ raw' = raw /\ pkt' = pkt /\ Reads(13) /\ 13 <= len
    BY <1>13 DEF TcpBadHeader
  <2>2. Tree(tree')  BY <2>1, NamedFits DEF Proto
  <2> QED  BY <2>1, <2>2, ReturnKeeps
<1>14. CASE \E n \in Nibble : Tcp(n)
  <2>1. PICK n \in Nibble : Tcp(n)  BY <1>14
  <2> USE <2>1 DEF Tcp
  <2>2. 4 * n \in Nat /\ 4 * n <= len  BY LengthFacts
  <2>3. reads' = "within" /\ raw' = raw  OBVIOUS
  <2>4. PICK t : Serve(TcpServices, "TCP", data + 4 * n, Behind(4 * n), offset + 4 * n, t)
                 /\ \E m \in Nat : m <= len /\ t = Filled("TCP", m)
    BY <2>2
  <2>5. Tree(t) /\ Len(t) >= 1
    BY ONLY IInv, ReadsStay, <2>4, FilledFits DEF Proto, Tree
  <2> QED  BY ONLY IInv, <2>2, <2>3, <2>4, <2>5, ServiceFacts, ServeKeeps
           DEF TopProto, Proto
<1>15. CASE IPv6
  <2> USE <1>15 DEF IPv6
  <2>1. reads' = "within" /\ raw' = raw /\ 40 <= len /\ arg' \in Argument
        /\ Pass("headers", data + 40, Behind(40), offset + 40)
    OBVIOUS
  <2>2. Tree(tree')
    <3>1. 40 <= len /\ tree' = Filled("IPv6", 40)  OBVIOUS
    <3> QED  BY ONLY IInv, <3>1, Fill DEF Proto
  <2>3. pkt' \in Packet  BY DEF Packet, TopProto, Proto
  <2>4. PassBy("headers", 40)  BY ONLY IInv, <2>1, BehindMoves DEF IInv
  <2> QED  BY ONLY IInv, PlaceHas, <2>1, <2>2, <2>3, <2>4, CallKeeps
<1>16. CASE UpperLayer
  <2> USE <1>16 DEF UpperLayer
  <2>1. Tree(tree')  BY ChildFits, LayerFacts DEF WithChild
  <2>2. len \in Nat /\ raw' = raw /\ arg' \in Argument /\ pkt' \in Packet
        /\ arg \in {"tcp", "udp", "icmpv6"} /\ reads' = "within"
    OBVIOUS
  <2>3. PassBy(arg, 0)  BY SameMoves DEF IInv
  <2> QED  BY ONLY IInv, PlaceHas, <2>1, <2>2, <2>3, CallKeeps
<1>17. CASE HeadersEnd
  <2> USE <1>17 DEF HeadersEnd
  <2>1. reads' = "within"  OBVIOUS
  <2> QED  BY <2>1, ReturnKeeps
<1>18. CASE \E b \in Byte : ExtensionHeader(b + 1)
  <2>1. PICK b \in Byte : ExtensionHeader(b + 1)  BY <1>18
  <2> DEFINE n == b + 1
  <2>2. n \in Nat /\ n >= 1
    <3>1. b \in Nat  BY LengthFacts
    <3> QED  BY <3>1
  <2> HIDE DEF n
  <2>3. ExtensionHeader(n)  BY <2>1 DEF n
  <2> USE <2>2, <2>3 DEF ExtensionHeader
  <2>4. 8 * n \in Nat /\ 8 * n <= len /\ 2 <= len /\ raw' = raw /\ pkt' \in Packet
        /\ arg' \in Argument /\ Tree(tree')
    OBVIOUS
  <2>5. reads' = "within"  BY <2>4
  <2>6. PassBy("headers", 8 * n)  BY CutMoves DEF IInv
  <2> QED  BY ONLY IInv, PlaceHas, <2>4, <2>5, <2>6, CallKeeps
<1>19. CASE Icmp
  <2> USE <1>19 DEF Icmp
  <2>1. pkt' \in Packet  BY TopKeeps DEF TopProto, Proto
  <2>2. reads' = "within" /\ raw' = raw /\ Return  OBVIOUS
  <2>3. Tree(tree')
    <3>1. \A n \in Nat : n <= len => Tree(Filled("ICMP", n))  BY ONLY IInv, Fill DEF Proto
    <3> QED  BY <3>1
  <2> QED  BY <2>1, <2>2, <2>3, ReturnKeeps
<1>20. CASE Icmpv6
  <2> USE <1>20 DEF Icmpv6
  <2>1. pkt' \in Packet  BY TopKeeps DEF TopProto, Proto
  <2>2. reads' = "within" /\ raw' = raw /\ Return  OBVIOUS
  <2>3. Tree(tree')
    <3>1. \A n \in Nat : n <= len => Tree(Filled("ICMPv6", n))  BY ONLY IInv, Fill DEF Proto
    <3> QED  BY <3>1
  <2> QED  BY <2>1, <2>2, <2>3, ReturnKeeps
<1>21. CASE Udp
  <2> USE <1>21 DEF Udp
  <2>1. reads' = "within" /\ raw' = raw /\ 8 <= len  OBVIOUS
  <2>2. PICK t : /\ Serve(UdpServices, "UDP", data + 8, Behind(8), offset + 8, t)
                 /\ t = Filled("UDP", 8)
    OBVIOUS
  <2>3. Tree(t) /\ Len(t) >= 1
    BY ONLY IInv, ReadsStay, <2>1, <2>2, FilledFits DEF Proto, Tree
  <2> QED  BY ONLY IInv, <2>1, <2>2, <2>3, ServiceFacts, ServeKeeps DEF TopProto, Proto
<1> QED  BY <1>1, <1>2, <1>3, <1>4, <1>5, <1>6, <1>7, <1>8, <1>9, <1>10, <1>11, <1>12,
            <1>13, <1>14, <1>15, <1>16, <1>17, <1>18, <1>19, <1>20, <1>21 DEF NetworkNext

-----------------------------------------------------------------------------
LEMMA AppPlaceFacts ==
    ASSUME IInv
    PROVE  /\ pos \in Nat /\ ptr \in Nat /\ count \in Nat
           /\ pc \in {"labels", "records", "name", "record", "option", "header"} => pos <= len
           /\ pc \in {"dns", "dhcp", "ntp", "http", "ftp", "smtp", "tls", "ssh"}
                 => Tree(Front)
           /\ pc = "header" => tree[Len(tree)].proto = "HTTP"
BY FrontFits DEF IInv, Loop, Innermost

LEMMA DnsKeeps ==
    ASSUME IInv, Dns \/ Records \/ NameEnds \/ Question \/ Answer
                 \/ (\E n \in Byte : NamePart(n)) \/ (\E to \in Word : NamePointer(to))
    PROVE  IInv'
<1> USE ReadsStay, MinimumFacts, PlaceFacts, PlaceHas, ArgumentHas, AppPlaceFacts
        DEF AppAt, Within
<1>1. CASE Dns
  <2> USE <1>1 DEF Dns
  <2>1. reads' = "within" /\ raw' = raw /\ Goto("records") /\ pos' = 12 /\ 12 <= len
        /\ ptr' \in Nat /\ count' \in Nat /\ arg' \in Argument
    OBVIOUS
  <2>2. pkt' \in Packet  BY TopKeeps DEF TopProto, Proto
  <2>3. Tree(tree')  BY Fill DEF Proto
  <2> QED  BY ONLY IInv, PlaceHas, <2>1, <2>2, <2>3, GoKeeps
<1>2. CASE Records
  <2> USE <1>2 DEF Records
  <2>1. reads' = "within" /\ raw' = raw /\ pkt' \in Packet /\ Tree(tree')  OBVIOUS
  <2>2. CASE Return  BY <2>1, <2>2, ReturnKeeps
  <2>3. CASE ~Return
    <3>1. /\ Goto("name") /\ pos' = pos /\ ptr' = pos /\ count' = 0 /\ arg' \in Argument
          /\ pos <= len /\ pos' \in Nat /\ ptr' \in Nat /\ count' \in Nat
      BY <2>3
    <3> QED  BY ONLY IInv, PlaceHas, <2>1, <3>1, GoKeeps
  <2> QED  BY <2>2, <2>3
<1>3. CASE NameEnds
  <2> USE <1>3 DEF NameEnds, Outermost
  <2>1. reads' = "within"  OBVIOUS
  <2>2. pos' \in Nat /\ pos' <= len  OBVIOUS
  <2>3. /\ raw' = raw /\ pkt' \in Packet /\ Tree(tree') /\ Goto("record")
        /\ ptr' \in Nat /\ count' \in Nat /\ arg' \in Argument
    OBVIOUS
  <2> QED  BY ONLY IInv, PlaceHas, <2>1, <2>2, <2>3, GoKeeps
<1>4. CASE \E n \in Byte : NamePart(n)
  <2>1. PICK n \in Nat : NamePart(n)  BY <1>4, LengthFacts
  <2> USE <2>1 DEF NamePart, Outermost
  <2>2. reads' = "within" /\ pos' \in Nat /\ pos' <= len /\ ptr' \in Nat  OBVIOUS
  <2>3. /\ raw' = raw /\ pkt' \in Packet /\ Tree(tree') /\ Goto("name")
        /\ count' \in Nat /\ arg' \in Argument
    OBVIOUS
  <2> QED  BY ONLY IInv, PlaceHas, <2>2, <2>3, GoKeeps
<1>5. CASE \E to \in Word : NamePointer(to)
  <2>1. PICK to \in Nat : NamePointer(to)  BY <1>5, LengthFacts
  <2> USE <2>1 DEF NamePointer, Outermost
  <2>2. reads' = "within" /\ pos' \in Nat /\ pos' <= len /\ ptr' \in Nat  OBVIOUS
  <2>3. /\ raw' = raw /\ pkt' \in Packet /\ Tree(tree') /\ Goto("name")
        /\ count' \in Nat /\ arg' \in Argument
    OBVIOUS
  <2> QED  BY ONLY IInv, PlaceHas, <2>2, <2>3, GoKeeps
<1>6. CASE Question
  <2> USE <1>6 DEF Question
  <2>1. reads' = "within" /\ pos' \in Nat /\ pos' <= len  OBVIOUS
  <2>2. Tree(tree')  BY Describe
  <2>3. /\ raw' = raw /\ pkt' \in Packet /\ Goto("records")
        /\ ptr' \in Nat /\ count' \in Nat /\ arg' \in Argument
    OBVIOUS
  <2> QED  BY ONLY IInv, PlaceHas, <2>1, <2>2, <2>3, GoKeeps
<1>7. CASE Answer
  <2> USE <1>7 DEF Answer
  <2>1. reads' = "within"  OBVIOUS
  <2>2. Tree(tree')  BY Describe
  <2> QED  BY <2>1, <2>2, ReturnKeeps
<1> QED  BY <1>1, <1>2, <1>3, <1>4, <1>5, <1>6, <1>7

LEMMA DhcpKeeps ==
    ASSUME IInv, Dhcp \/ Pad \/ OptionsEnd \/ \E n \in Byte : Option(n)
    PROVE  IInv'
<1> USE ReadsStay, MinimumFacts, PlaceFacts, PlaceHas, ArgumentHas, AppPlaceFacts
        DEF AppAt, Within
<1>1. CASE Dhcp
  <2> USE <1>1 DEF Dhcp
  <2>1. reads' = "within" /\ raw' = raw  OBVIOUS
  <2>2. pkt' \in Packet  BY TopKeeps DEF TopProto, Proto
  <2>3. Tree(tree')  BY Fill DEF Proto
  <2>4. CASE Return  BY <2>1, <2>2, <2>3, <2>4, ReturnKeeps
  <2>5. CASE ~Return
    <3>1. /\ Goto("option") /\ pos' = 240 /\ 240 <= len /\ arg' \in Argument
          /\ ptr' \in Nat /\ count' \in Nat
      BY <2>5
    <3> QED  BY ONLY IInv, PlaceHas, <2>1, <2>2, <2>3, <3>1, GoKeeps
  <2> QED  BY <2>4, <2>5
<1>2. CASE Pad
  <2> USE <1>2 DEF Pad
  <2>1. reads' = "within" /\ pos' \in Nat /\ pos' <= len  OBVIOUS
  <2>2. /\ raw' = raw /\ pkt' \in Packet /\ Goto("option") /\ Tree(tree')
        /\ ptr' \in Nat /\ count' \in Nat /\ arg' \in Argument
    OBVIOUS
  <2> QED  BY ONLY IInv, PlaceHas, <2>1, <2>2, GoKeeps
<1>3. CASE OptionsEnd
  <2> USE <1>3 DEF OptionsEnd
  <2>1. reads' = "within"  OBVIOUS
  <2> QED  BY <2>1, ReturnKeeps
<1>4. CASE \E n \in Byte : Option(n)
  <2>1. PICK n \in Nat : Option(n)  BY <1>4, LengthFacts
  <2> USE <2>1 DEF Option
  <2>2. pos' \in Nat /\ pos' <= len  OBVIOUS
  <2>3. reads' = "within"  OBVIOUS
  <2>4. Tree(tree')  BY Describe
  <2>5. /\ raw' = raw /\ pkt' \in Packet /\ Goto("option")
        /\ ptr' \in Nat /\ count' \in Nat /\ arg' \in Argument
    OBVIOUS
  <2> QED  BY ONLY IInv, PlaceHas, <2>2, <2>3, <2>4, <2>5, GoKeeps
<1> QED  BY <1>1, <1>2, <1>3, <1>4

LEMMA TextKeeps ==
    ASSUME IInv, NotText \/ HeadersOver
                 \/ \E n \in Line : Http(n) \/ TextLine(n) \/ Header(n) \/ Ssh(n)
    PROVE  IInv'
<1> USE ReadsStay, PlaceFacts, PlaceHas, ArgumentHas, AppPlaceFacts DEF AppAt, Within
<1>a. \A d \in {"http", "ftp", "smtp"} : Text[d] \in Proto /\ Text[d] \in TopProto
  BY DEF Text, Proto, TopProto
<1>1. CASE NotText
  <2> USE <1>1 DEF NotText
  <2>1. pc \in {"http", "ftp", "smtp"} /\ raw' = raw /\ Return /\ reads' = "within"
    OBVIOUS
  <2>2. pkt' \in Packet /\ Tree(tree')  BY <2>1, <1>a, TopKeeps
  <2> QED  BY <2>1, <2>2, ReturnKeeps
<1>2. CASE HeadersOver
  <2> USE <1>2 DEF HeadersOver
  <2>1. reads' = "within"  BY LengthFacts
  <2> QED  BY <2>1, ReturnKeeps
<1>3. CASE \E n \in Line : Http(n)
  <2>1. PICK n \in Nat : Http(n)  BY <1>3, LengthFacts
  <2> USE <2>1 DEF Http
  <2>2. reads' = "within" /\ raw' = raw /\ pos' = n /\ n <= len  OBVIOUS
  <2>3. pkt' \in Packet  BY TopKeeps DEF TopProto, Proto
  <2>4. Tree(tree') /\ tree'[Len(tree')].proto = "HTTP"
    BY ONLY <2>1, IInv, ReadsStay, FilledFits DEF Http, Proto
  <2>5. Goto("header") /\ ptr' \in Nat /\ count' \in Nat /\ arg' \in Argument
    OBVIOUS
  <2> QED  BY ONLY IInv, PlaceHas, <2>2, <2>3, <2>4, <2>5, GoKeeps
<1>4. CASE \E n \in Line : TextLine(n)
  <2>1. PICK n \in Nat : TextLine(n)  BY <1>4, LengthFacts
  <2> USE <2>1 DEF TextLine
  <2>2. reads' = "within" /\ raw' = raw  OBVIOUS
  <2>3. pkt' \in Packet /\ Tree(tree')  BY <1>a, TopKeeps, Fill
  <2> QED  BY <2>2, <2>3, ReturnKeeps
<1>5. CASE \E n \in Line : Header(n)
  <2>1. PICK n \in Nat : Header(n)  BY <1>5, LengthFacts
  <2> USE <2>1 DEF Header
  <2>2. /\ reads' = "within" /\ pos' \in Nat /\ pos' <= len /\ count' \in Nat
    <3>1. pos' = pos + n /\ count' = count + 1 /\ pos + n <= len  OBVIOUS
    <3>2. pos' \in Nat /\ count' \in Nat  BY <3>1 DEF IInv, Loop
    <3>3. reads' = "within"  OBVIOUS
    <3> QED  BY ONLY <3>1, <3>2, <3>3
  <2>3. Tree(tree') /\ tree'[Len(tree')].proto = "HTTP"
    <3>1. tree[Len(tree)].proto = "HTTP"  OBVIOUS
    <3>2. CASE tree' = tree  BY <3>1, <3>2
    <3>3. ASSUME NEW e \in 0..2, tree' = Described(pos + n + n - e)
          PROVE  Tree(tree') /\ tree'[Len(tree')].proto = "HTTP"
      <4>1. pos + n + n - e \in Int  OBVIOUS
      <4>2. Tree(Described(pos + n + n - e))
            /\ Described(pos + n + n - e)[Len(Described(pos + n + n - e))].proto = "HTTP"
        BY ONLY <3>1, <4>1, ReadsStay, IInv, DescribedFits
      <4> QED  BY ONLY <3>3, <4>2
    <3>4. tree' = tree \/ \E e \in 0..2 : tree' = Described(pos + n + n - e)
      OBVIOUS
    <3> QED  BY ONLY <3>2, <3>3, <3>4
  <2>4. /\ raw' = raw /\ pkt' \in Packet /\ Goto("header") /\ ptr' \in Nat
        /\ arg' \in Argument
    OBVIOUS
  <2> QED  BY ONLY IInv, PlaceHas, <2>2, <2>3, <2>4, GoKeeps
<1>6. CASE \E n \in Line : Ssh(n)
  <2>1. PICK n \in Nat : Ssh(n)  BY <1>6, LengthFacts
  <2> USE <2>1 DEF Ssh
  <2>2. reads' = "within" /\ raw' = raw  OBVIOUS
  <2>3. pkt' \in Packet  BY TopKeeps DEF TopProto, Proto
  <2>4. Tree(tree')  BY Fill DEF Proto
  <2> QED  BY <2>2, <2>3, <2>4, ReturnKeeps
<1> QED  BY <1>1, <1>2, <1>3, <1>4, <1>5, <1>6

LEMMA TlsKeeps ==
    ASSUME IInv, NoTls \/ Tls \/ SkipParts \/ Extensions \/ ExtensionsEnd
                 \/ (\E n \in Word : Extension(n)) \/ \E n, name \in Word : ServerName(n, name)
    PROVE  IInv'
<1> USE ReadsStay, PlaceFacts, PlaceHas, ArgumentHas, AppPlaceFacts DEF AppAt, Within
<1>a. Secure \in TopProto  BY DEF Secure, TopProto, Proto
<1>1. CASE NoTls
  <2> USE <1>1 DEF NoTls
  <2>1. reads' = "within" /\ raw' = raw /\ Tree(tree') /\ Return  OBVIOUS
  <2>2. pkt' \in Packet  BY <1>a, TopKeeps DEF TopProto, Proto
  <2> QED  BY <2>1, <2>2, ReturnKeeps
<1>2. CASE Tls
  <2> USE <1>2 DEF Tls
  <2>1. reads' = "within" /\ raw' = raw  OBVIOUS
  <2>2. pkt' \in Packet  BY <1>a, TopKeeps
  <2>3. Tree(tree')  BY Fill DEF Proto
  <2>4. CASE Return  BY <2>1, <2>2, <2>3, <2>4, ReturnKeeps
  <2>5. CASE ~Return
    <3>1. /\ Goto("session") /\ pos' \in Nat /\ arg' \in Argument
          /\ ptr' \in Nat /\ count' \in Nat
      BY <2>5
    <3> QED  BY ONLY IInv, PlaceHas, <2>1, <2>2, <2>3, <3>1, GoKeeps
  <2> QED  BY <2>4, <2>5
<1>3. CASE SkipParts
  <2>1. ASSUME NEW part, NEW w \in Nat, NEW n \in Nat,
               NEW next \in {"ciphers", "compression", "extensions"}, SkipPart(part, w, n, next)
        PROVE  IInv'
    <3> USE <2>1 DEF SkipPart
    <3>1. pos \in Nat  OBVIOUS
    <3>2. reads' = "within" /\ pos' \in Nat  OBVIOUS
    <3>3. /\ raw' = raw /\ pkt' \in Packet /\ Tree(tree') /\ Goto(next)
          /\ ptr' \in Nat /\ count' \in Nat /\ arg' \in Argument
      OBVIOUS
    <3> QED  BY ONLY IInv, PlaceHas, <2>1, <3>2, <3>3, GoKeeps
  <2>2. CASE \E n \in Byte : SkipPart("session", 1, n, "ciphers")
    BY <2>1, <2>2, LengthFacts
  <2>3. CASE \E n \in Word : SkipPart("ciphers", 2, n, "compression")
    BY <2>1, <2>3, LengthFacts
  <2>4. CASE \E n \in Byte : SkipPart("compression", 1, n, "extensions")
    BY <2>1, <2>4, LengthFacts
  <2> QED  BY <1>3, <2>2, <2>3, <2>4 DEF SkipParts
<1>4. CASE Extensions
  <2> USE <1>4 DEF Extensions
  <2>1. reads' = "within" /\ raw' = raw /\ pkt' \in Packet /\ Tree(tree')  OBVIOUS
  <2>2. CASE Return  BY <2>1, <2>2, ReturnKeeps
  <2>3. CASE ~Return
    <3>1. /\ Goto("extension") /\ pos' \in Nat /\ arg' \in Argument
          /\ ptr' \in Nat /\ count' \in Nat
      BY <2>3, LengthFacts
    <3> QED  BY ONLY IInv, PlaceHas, <2>1, <3>1, GoKeeps
  <2> QED  BY <2>2, <2>3
<1>5. CASE ExtensionsEnd
  BY <1>5, ReturnKeeps DEF ExtensionsEnd
<1>6. CASE \E n \in Word : Extension(n)
  <2>1. PICK n \in Nat : Extension(n)  BY <1>6, LengthFacts
  <2> USE <2>1 DEF Extension, MoreExtensions
  <2>2. reads' = "within" /\ pos' \in Nat  OBVIOUS
  <2>3. /\ raw' = raw /\ pkt' \in Packet /\ Tree(tree') /\ Goto("extension")
        /\ ptr' \in Nat /\ count' \in Nat /\ arg' \in Argument
    OBVIOUS
  <2> QED  BY ONLY IInv, PlaceHas, <2>2, <2>3, GoKeeps
<1>7. CASE \E n, name \in Word : ServerName(n, name)
  <2>1. PICK n \in Nat, name \in Nat : ServerName(n, name)  BY <1>7, LengthFacts
  <2> USE <2>1 DEF ServerName, MoreExtensions
  <2>2. reads' = "within" /\ raw' = raw /\ pkt' \in Packet /\ Return  OBVIOUS
  <2>3. Tree(tree')  BY Describe
  <2> QED  BY <2>2, <2>3, ReturnKeeps
<1> QED  BY <1>1, <1>2, <1>3, <1>4, <1>5, <1>6, <1>7

LEMMA AppKeeps ==
    ASSUME IInv, AppNext
    PROVE  IInv'
<1> USE ReadsStay, MinimumFacts, PlaceFacts, PlaceHas, AppPlaceFacts DEF AppAt
<1>1. CASE AppTruncated
  BY <1>1, ReturnKeeps DEF AppTruncated
<1>2. CASE Ntp
  <2> USE <1>2 DEF Ntp
  <2>1. reads' = "within" /\ raw' = raw /\ Return  OBVIOUS
  <2>2. pkt' \in Packet  BY TopKeeps DEF TopProto, Proto
  <2>3. Tree(tree')  BY Fill DEF Proto
  <2> QED  BY <2>1, <2>2, <2>3, ReturnKeeps
<1> QED  BY <1>1, <1>2, DnsKeeps, DhcpKeeps, TextKeeps, TlsKeeps DEF AppNext

-----------------------------------------------------------------------------
\* The invariant holds of every dissection.
THEOREM Invariance == Spec => []IInv
<1>1. Init => IInv
  <2> SUFFICES ASSUME Init PROVE IInv
    OBVIOUS
  <2> USE DEF Init
  <2>1. pc \in Place /\ arg \in Argument  BY PlaceHas, ArgumentHas
  <2>2. pkt \in Packet  BY DEF EmptyPacket, Packet, TopProto, Proto
  <2>3. Call
    <3>1. OffsetSpan \in Nat \ {0} /\ 0 % OffsetSpan = 0  BY LayersAssumption
    <3> QED  BY <3>1, CapFact DEF Call
  <2>4. Loop /\ Innermost  BY DEF Loop, Innermost
  <2>5. Tree(tree)  BY LayerFacts DEF Tree, Fits
  <2> QED  BY <2>1, <2>2, <2>3, <2>4, <2>5 DEF IInv
<1>2. IInv /\ [Next]_vars => IInv'
  <2> SUFFICES ASSUME IInv, [Next]_vars PROVE IInv'
    OBVIOUS
  <2>1. CASE UNCHANGED vars
    BY <2>1 DEF vars, callVars, loopVars, IInv, Call, Loop, Innermost
  <2> QED  BY <2>1, NetworkKeeps, AppKeeps DEF Next, Finished
<1> QED  BY <1>1, <1>2, PTL DEF Spec

\* Every variable keeps its type.
THEOREM TypeCorrect == Spec => []TypeOK
<1>1. IInv => TypeOK
  <2> SUFFICES ASSUME IInv PROVE TypeOK
    OBVIOUS
  <2>1. offset \in 0..OffsetSpan - 1  BY LayersAssumption DEF IInv, Call
  <2> QED  BY <2>1 DEF IInv, Call, Loop, Tree, TypeOK
<1> QED  BY <1>1, Invariance, PTL

\* Whatever the bytes say, only captured ones are read.
THEOREM ReadsStayInside == Spec => []ReadsInside
<1>1. IInv => ReadsInside  BY DEF IInv, Call, ReadsInside
<1> QED  BY <1>1, Invariance, PTL

\* The offset is the place, cut to its width, through every call.
THEOREM OffsetsAreRight == Spec => []OffsetIsPlace
<1>1. IInv => OffsetIsPlace  BY DEF IInv, Call, OffsetIsPlace
<1> QED  BY <1>1, Invariance, PTL

\* The fields of every layer but HTTP lie in the packet.
THEOREM FieldsLieInPacket == Spec => []FieldsDescribeBytes
<1>1. IInv => FieldsDescribeBytes
  BY DEF IInv, Tree, Fits, FieldsDescribeBytes
<1> QED  BY <1>1, Invariance, PTL

-----------------------------------------------------------------------------
(* What the tree holds, and what the summary says of it.                   *)

Starts == {"ethernet", "arp", "ipv4", "ipv6", "icmp", "icmpv6", "tcp", "udp"}
Apps == {"dns", "dhcp", "ntp", "http", "ftp", "smtp", "tls", "ssh"}
Network == Starts \cup {"route", "labels", "headers"}

Last(t) == t[Len(t)]

\* The protocols of the layers that have fields.
HeldIn(t) == {t[i].proto : i \in {j \in DOMAIN t : t[j].fields # "none"}}

Held == HeldIn(tree)

\* Every layer but the innermost one has fields.
Closed(t) == \A i \in 1..Len(t) - 1 : t[i].fields # "none"

\* The innermost layer is an Unset one for the dissector that begins, and has
\* fields later on, but for the MPLS layer before its first label.
Shape ==
    /\ Closed(tree)
    /\ pc \in Starts \cup Apps => Last(tree) = Unset
    /\ pc \in {"route", "headers"} \cup AppPlace => Last(tree).fields # "none"
    /\ pc = "route" => count = 0
    /\ pc = "labels" => /\ Last(tree).proto = "MPLS"
                        /\ \/ Last(tree).fields # "none" /\ pos > 0
                           \/ len >= 4 /\ pos = 0 /\ count = 0 /\ arg = "more"
    /\ pc = "done" /\ Last(tree).fields = "none" => Held \cap {"TCP", "UDP"} = {}

\* Outside of TCP and UDP: neither is held, and the summary names at most a
\* tag, a label or IPv6.
Outside ==
    /\ pc \in Network => /\ Held \cap {"TCP", "UDP"} = {} /\ pkt.ports = {}
                         /\ pkt.top \in {"Unknown", "VLAN", "MPLS", "IPv6"}
    /\ pc \in Network \ {"ethernet"} => "Ethernet" \in Held
    /\ pc = "icmp" => "IPv4" \in Held
    /\ pc \in {"icmpv6", "headers"} => "IPv6" \in Held

\* A dissector of an application over UDP gives up on as few bytes as these.
Short == \E i \in Matches(UdpServices, pkt.ports) : len < AppMinimum[UdpServices[i].app]

\* The names the dissectors of applications have for the packet.
Names == [dns |-> {"DNS"}, dhcp |-> {"DHCP"}, ntp |-> {"NTP"}, http |-> {"HTTP"}, ftp |-> {"FTP"},
          smtp |-> {"SMTP"}, tls |-> {"TLS", "HTTPS"}, ssh |-> {"SSH"}]

\* Inside of one of them: which of the two a dissector is called by, and that
\* it has named the packet by the time it loops or returns.
Inside ==
    /\ pc \in {"http", "tls", "ssh", "ftp", "smtp"} => "TCP" \in Held /\ "UDP" \notin Held
    /\ pc = "dns" => 53 \in pkt.ports /\ Held \cap {"TCP", "UDP"} # {}
    /\ pc \in {"dhcp", "ntp"} =>
          /\ "UDP" \in Held /\ "TCP" \notin Held
          /\ \E i \in Matches(UdpServices, pkt.ports) : UdpServices[i].app = pc
    /\ pc \in AppPlace \cup {"done"} =>
          /\ "TCP" \in Held => pkt.top \in {"TCP"} \cup OverTcp \/ 53 \in pkt.ports
          /\ "UDP" \in Held => pkt.top \in {"UDP"} \cup OverUdp \/ Short

\* Whatever top_proto names is held, or the layer that carries it is.
Carried ==
    /\ pkt.top \in {"TCP"} \cup OverTcp => "TCP" \in Held
    /\ pkt.top = "DNS" => 53 \in pkt.ports /\ Held \cap {"TCP", "UDP"} # {}
    /\ pkt.top \in {"UDP", "DHCP", "NTP"} => "UDP" \in Held
    /\ pkt.top \in {"IPv6", "ICMPv6"} => "IPv6" \in Held
    /\ pkt.top = "ICMP" => "IPv4" \in Held
    /\ pkt.top = "ARP" => "Ethernet" \in Held
    /\ pkt.top \in {"VLAN", "MPLS"} => pkt.top \in Held \/ (pc = "done" /\ len < 4)

\* The same of its addresses, ports and version.
Summary ==
    /\ pkt.addressed => Held \cap {"IPv4", "ARP"} # {}
    /\ pkt.ports # {} => Held \cap {"TCP", "UDP"} # {}
    /\ pkt.six <=> "IPv6" \in Held

TreeInv == Shape /\ Outside /\ Inside /\ Carried /\ Summary

-----------------------------------------------------------------------------
(* How a step changes what is held.                                        *)

AddsTo(l) == IF l.fields = "none" THEN {} ELSE {l.proto}

\* A layer inside the innermost one.
LEMMA HeldInside ==
    ASSUME NEW t \in Seq(Layer), t # <<>>, Closed(t), Last(t).fields # "none",
           NEW l \in Layer, NEW u, u = Append(t, l)
    PROVE  Closed(u) /\ HeldIn(u) = HeldIn(t) \cup AddsTo(l) /\ Last(u) = l
<1>1. /\ u \in Seq(Layer) /\ Len(u) = Len(t) + 1 /\ u[Len(t) + 1] = l
      /\ \A i \in 1..Len(t) : u[i] = t[i]
      /\ DOMAIN u = DOMAIN t \cup {Len(t) + 1} /\ Len(t) \in Nat \ {0} /\ DOMAIN t = 1..Len(t)
  OBVIOUS
<1>2. ASSUME NEW p PROVE p \in HeldIn(u) <=> p \in HeldIn(t) \cup AddsTo(l)
  BY ONLY <1>1 DEF HeldIn, AddsTo
<1>3. Closed(u)  BY <1>1 DEF Closed, Last
<1> QED  BY <1>1, <1>2, <1>3 DEF Last

\* The innermost layer, which held nothing or is only added to, becomes l.
LEMMA HeldFilled ==
    ASSUME NEW t \in Seq(Layer), t # <<>>, Closed(t), NEW l \in Layer,
           Last(t).fields = "none" \/ (l.fields # "none" /\ l.proto = Last(t).proto),
           NEW u, u = [t EXCEPT ![Len(t)] = l]
    PROVE  /\ u \in Seq(Layer) /\ u # <<>>
           /\ Closed(u) /\ HeldIn(u) = HeldIn(t) \cup AddsTo(l) /\ Last(u) = l
<1>1. /\ u \in Seq(Layer) /\ Len(u) = Len(t) /\ u[Len(t)] = l
      /\ \A i \in 1..Len(t) - 1 : u[i] = t[i]
      /\ DOMAIN u = DOMAIN t /\ Len(t) \in Nat \ {0} /\ DOMAIN t = 1..Len(t)
  OBVIOUS
<1>2. ASSUME NEW p PROVE p \in HeldIn(u) <=> p \in HeldIn(t) \cup AddsTo(l)
  BY ONLY <1>1, Last(t).fields = "none" \/ (l.fields # "none" /\ l.proto = Last(t).proto)
     DEF HeldIn, AddsTo, Last
<1>3. Closed(u) /\ u # <<>>  BY ONLY <1>1, Closed(t) DEF Closed
<1> QED  BY <1>1, <1>2, <1>3 DEF Last

\* It is dropped, having held nothing.
LEMMA FrontHolds ==
    ASSUME tree \in Seq(Layer), Len(tree) >= 2, Closed(tree), Last(tree) = Unset
    PROVE  Closed(Front) /\ HeldIn(Front) = Held /\ Last(Front).fields # "none"
<1>1. /\ Len(tree) \in Nat /\ Front \in Seq(Layer) /\ Len(Front) = Len(tree) - 1
      /\ \A i \in 1..Len(tree) - 1 : Front[i] = tree[i]
      /\ DOMAIN Front = 1..Len(tree) - 1 /\ DOMAIN tree = 1..Len(tree)
  BY DEF Front
<1>2. tree[Len(tree)].fields = "none"  BY DEF Last, Unset
<1>3. ASSUME NEW p PROVE p \in HeldIn(Front) <=> p \in Held
  BY <1>1, <1>2 DEF HeldIn, Held
<1>4. Closed(Front) /\ Last(Front).fields # "none"  BY <1>1 DEF Closed, Last
<1> QED  BY <1>3, <1>4

\* The operations of Layers on a tree whose outer layers all have fields.
LEMMA FilledHolds ==
    ASSUME tree \in Seq(Layer), tree # <<>>, Closed(tree), Last(tree) = Unset,
           NEW p \in Proto, NEW n \in Int, NEW t, t = Filled(p, n)
    PROVE  /\ t \in Seq(Layer) /\ t # <<>> /\ Closed(t)
           /\ HeldIn(t) = Held \cup {p} /\ Last(t).fields # "none"
<1> DEFINE l == [proto |-> p, fields |-> Extent(n)]
<1>1. l \in Layer /\ AddsTo(l) = {p} /\ l.fields # "none"
  BY LayerFacts DEF Extent, AddsTo
<1>2. Last(tree).fields = "none"  BY DEF Unset
<1> HIDE DEF l
<1>3. t = [tree EXCEPT ![Len(tree)] = l]  BY DEF Filled, l
<1> QED  BY ONLY tree \in Seq(Layer), tree # <<>>, Closed(tree), <1>1, <1>2, <1>3, HeldFilled
         DEF Held

LEMMA NamedHolds ==
    ASSUME tree \in Seq(Layer), tree # <<>>, Closed(tree), Last(tree) = Unset, NEW p \in Proto,
           NEW t, t = Named(p)
    PROVE  Closed(t) /\ HeldIn(t) = Held
<1> DEFINE l == [proto |-> p, fields |-> "none"]
<1>1. l \in Layer /\ AddsTo(l) = {}  BY LayerFacts DEF AddsTo
<1>2. Last(tree).fields = "none"  BY DEF Unset
<1> HIDE DEF l
<1>3. t = [tree EXCEPT ![Len(tree)] = l]  BY DEF Named, l
<1>4. Closed(t) /\ HeldIn(t) = HeldIn(tree) \cup AddsTo(l)
  BY ONLY tree \in Seq(Layer), tree # <<>>, Closed(tree), <1>1, <1>2, <1>3, HeldFilled
<1>5. HeldIn(tree) \cup {} = Held  BY DEF Held
<1> QED  BY <1>1, <1>4, <1>5

LEMMA ChildHolds ==
    ASSUME NEW t \in Seq(Layer), t # <<>>, Closed(t), Last(t).fields # "none",
           NEW u, u = WithChild(t)
    PROVE  Closed(u) /\ HeldIn(u) = HeldIn(t) /\ Last(u) = Unset
<1>1. Unset \in Layer /\ AddsTo(Unset) = {}  BY LayerFacts DEF AddsTo, Unset
<1>2. u = Append(t, Unset)  BY DEF WithChild
<1>3. Closed(u) /\ Last(u) = Unset /\ HeldIn(u) = HeldIn(t) \cup AddsTo(Unset)
  BY <1>1, <1>2, HeldInside
<1>4. HeldIn(t) \cup {} = HeldIn(t)  OBVIOUS
<1> QED  BY <1>1, <1>3, <1>4

LEMMA OwnHolds ==
    ASSUME tree \in Seq(Layer), tree # <<>>, Closed(tree), Last(tree).fields # "none",
           NEW p \in Proto, NEW f \in {"none", "within", "beyond"}, NEW t, t = OwnLayer(p, f)
    PROVE  /\ Closed(t) /\ Last(t) = [proto |-> p, fields |-> f]
           /\ HeldIn(t) = Held \cup IF f = "none" THEN {} ELSE {p}
<1> DEFINE l == [proto |-> p, fields |-> f]
<1>1. l \in Layer /\ AddsTo(l) = IF f = "none" THEN {} ELSE {p}  BY DEF Layer, AddsTo
<1>2. t = Append(tree, l)  BY DEF OwnLayer
<1> HIDE DEF l
<1>3. /\ Closed(t) /\ Last(t) = l /\ HeldIn(t) = Held \cup AddsTo(l)
  BY <1>1, <1>2, HeldInside DEF Held
<1> QED  BY <1>1, <1>3 DEF l

LEMMA DescribedHolds ==
    ASSUME tree \in Seq(Layer), tree # <<>>, Closed(tree), NEW n \in Int,
           NEW t, t = Described(n)
    PROVE  /\ Closed(t) /\ HeldIn(t) = Held \cup {Last(tree).proto}
           /\ Last(t).proto = Last(tree).proto /\ Last(t).fields # "none"
<1> DEFINE o == tree[Len(tree)]
           f == IF o.fields = "beyond" THEN o.fields ELSE Extent(n)
           l == [proto |-> o.proto, fields |-> f]
<1>1. o \in Layer /\ o = Last(tree)  BY DEF Last
<1>2. /\ l \in Layer /\ l.fields # "none" /\ l.proto = Last(tree).proto
      /\ AddsTo(l) = {Last(tree).proto}
  BY <1>1 DEF Extent, Layer, AddsTo
<1>3. t = [tree EXCEPT ![Len(tree)] = l]
  <2>1. [o EXCEPT !.fields = f] = l  BY <1>1 DEF Layer
  <2>2. t = [tree EXCEPT ![Len(tree)] = [o EXCEPT !.fields = f]]
    BY DEF Described
  <2> QED  BY <2>1, <2>2
<1> HIDE DEF l, o
<1> QED  BY ONLY tree \in Seq(Layer), tree # <<>>, Closed(tree), <1>2, <1>3, HeldFilled
         DEF Held

-----------------------------------------------------------------------------
(* The dissectors of applications: they fill their layer or drop it, name  *)
(* the packet, and then only add to the layer.                             *)

LEMMA TreeFacts ==
    ASSUME IInv
    PROVE  tree \in Seq(Layer) /\ tree # <<>> /\ (pc \in Apps => Len(tree) >= 2)
           /\ pkt \in Packet /\ len \in Nat
BY DEF IInv, Tree, Innermost, Apps, Call

LEMMA LastHeld ==
    ASSUME NEW t \in Seq(Layer), t # <<>>, Last(t).fields # "none"
    PROVE  Last(t).proto \in HeldIn(t)
<1>1. Len(t) \in DOMAIN t /\ t[Len(t)].fields # "none"  BY DEF Last
<1> QED  BY <1>1 DEF HeldIn, Last

\* A round of a loop in one of them.
LEMMA LoopHolds ==
    ASSUME IInv, TreeInv, pc \in AppPlace, pc' \in AppPlace \cup {"done"}, len' = len,
           pkt' = pkt, tree' = tree \/ \E n \in Int : tree' = Described(n)
    PROVE  TreeInv'
<1>1. Closed(tree') /\ Held' = Held /\ Last(tree').fields # "none"
  <2>1. Closed(tree) /\ Last(tree).fields # "none"  BY DEF TreeInv, Shape
  <2>2. CASE tree' = tree  BY <2>1, <2>2 DEF Held
  <2>3. ASSUME NEW n \in Int, tree' = Described(n)
        PROVE  Closed(tree') /\ Held' = Held /\ Last(tree').fields # "none"
    <3>1. /\ Closed(tree') /\ HeldIn(tree') = Held \cup {Last(tree).proto}
          /\ Last(tree').fields # "none"
      BY <2>1, <2>3, TreeFacts, DescribedHolds
    <3>2. Last(tree).proto \in Held  BY <2>1, TreeFacts, LastHeld DEF Held
    <3>3. Held \cup {Last(tree).proto} = Held  BY <3>2
    <3> QED  BY <3>1, <3>3 DEF Held
  <2> QED  BY <2>2, <2>3
<1>2. pc' \notin Network \cup Apps /\ pc \notin Network \cup Apps /\ pc # "done"
  BY DEF AppPlace, Network, Starts, Apps
<1>3. Shape'
  BY <1>1, <1>2 DEF Shape, Network
<1>4. Outside'  BY <1>2 DEF Outside, Network, Starts
<1>5. Inside'  BY <1>1, <1>2 DEF TreeInv, Inside, Short, Apps
<1>6. Carried' /\ Summary'  BY <1>1, <1>2 DEF TreeInv, Carried, Summary
<1> QED  BY <1>3, <1>4, <1>5, <1>6 DEF TreeInv

\* The layer is filled or dropped, and the packet named.
LEMMA AppHolds ==
    ASSUME IInv, TreeInv, pc \in Apps, pc' \in AppPlace \cup {"done"}, len' = len,
           NEW top \in Names[pc], Is(top),
           \/ tree' = Front /\ pc' = "done"
           \/ \E p \in Proto \ {"Ethernet", "TCP", "UDP", "IPv4", "IPv6", "ARP"}, n \in Int :
                 tree' = Filled(p, n)
    PROVE  TreeInv'
<1> DEFINE Others == Proto \ {"Ethernet", "TCP", "UDP", "IPv4", "IPv6", "ARP"}
           Kept == /\ Closed(tree') /\ Last(tree').fields # "none"
                   /\ \E new \in SUBSET Others : Held' = Held \cup new
<1>a. Kept
  <2>1. Closed(tree) /\ Last(tree) = Unset  BY DEF TreeInv, Shape
  <2>2. CASE tree' = Front
    <3>1. Closed(tree') /\ Last(tree').fields # "none" /\ Held' = Held
      BY <2>1, <2>2, TreeFacts, FrontHolds DEF Held
    <3>2. Held = Held \cup {} /\ {} \in SUBSET Others  OBVIOUS
    <3> QED  BY <3>1, <3>2
  <2>3. ASSUME NEW p \in Others, NEW n \in Int, tree' = Filled(p, n)
        PROVE  Kept
    <3>1. Closed(tree') /\ Last(tree').fields # "none" /\ Held' = Held \cup {p}
      BY <2>1, <2>3, TreeFacts, FilledHolds DEF Held
    <3> QED  BY <3>1
  <2> QED  BY <2>2, <2>3
<1> HIDE DEF Kept
<1>1. /\ Closed(tree') /\ Last(tree').fields # "none" /\ Held \subseteq Held'
      /\ \A p \in {"Ethernet", "TCP", "UDP", "IPv4", "IPv6", "ARP"} : p \in Held' => p \in Held
  BY <1>a DEF Kept
<1>2. pc' \notin Network \cup Apps /\ pc \notin Network /\ pc # "done"
  BY DEF AppPlace, Network, Starts, Apps
<1>3. /\ pkt'.top = top /\ pkt'.ports = pkt.ports /\ pkt'.six = pkt.six
      /\ pkt'.addressed = pkt.addressed
  BY TreeFacts DEF Is, Packet
<1>4. Shape'
  BY <1>1, <1>2 DEF Shape, Network
<1>5. Outside'  BY <1>2 DEF Outside, Network, Starts
<1>6. Inside
  BY DEF TreeInv
<1>7. ASSUME pc \in {"http", "tls", "ssh", "ftp", "smtp"} PROVE Inside' /\ Carried'
  <2>1. top \in OverTcp  BY <1>7 DEF Names, OverTcp
  <2>2. "TCP" \in Held' /\ "UDP" \notin Held'  BY <1>1, <1>6, <1>7 DEF Inside
  <2>3. Inside'  BY <1>2, <1>3, <2>1, <2>2 DEF Inside, Apps
  <2>4. Carried'  BY <1>3, <2>1, <2>2 DEF Carried, OverTcp
  <2> QED  BY <2>3, <2>4
<1>8. ASSUME pc = "dns" PROVE Inside' /\ Carried'
  <2>1. top = "DNS"  BY <1>8 DEF Names
  <2>2. 53 \in pkt'.ports /\ Held' \cap {"TCP", "UDP"} # {}
    BY <1>1, <1>3, <1>6, <1>8 DEF Inside
  <2>3. Inside'  BY <1>2, <1>3, <2>1, <2>2 DEF Inside, Apps, OverUdp
  <2>4. Carried'  BY <1>3, <2>1, <2>2 DEF Carried, OverTcp
  <2> QED  BY <2>3, <2>4
<1>9. ASSUME pc \in {"dhcp", "ntp"} PROVE Inside' /\ Carried'
  <2>1. top \in {"DHCP", "NTP"}  BY <1>9 DEF Names
  <2>2. "UDP" \in Held' /\ "TCP" \notin Held'  BY <1>1, <1>6, <1>9 DEF Inside
  <2>3. Inside'  BY <1>2, <1>3, <2>1, <2>2 DEF Inside, Apps, OverUdp
  <2>4. Carried'  BY <1>3, <2>1, <2>2 DEF Carried, OverTcp
  <2> QED  BY <2>3, <2>4
<1>10. Summary'  BY <1>1, <1>3 DEF TreeInv, Summary
<1> QED  BY <1>4, <1>5, <1>7, <1>8, <1>9, <1>10 DEF TreeInv, Apps

LEMMA UdpDnsFact ==
    DOMAIN UdpServices = 1..3 /\ UdpServices[1].app = "dns" /\ UdpServices[1].ports = {53}
BY DEF UdpServices

\* One that gives up: DNS, DHCP or NTP on too few bytes.
LEMMA AppTruncatedHolds ==
    ASSUME IInv, TreeInv, AppTruncated
    PROVE  TreeInv'
<1> USE DEF AppTruncated, Return
<1>1. /\ pc \in {"dns", "dhcp", "ntp"} /\ len < AppMinimum[pc] /\ len' = len /\ pkt' = pkt
      /\ pc' = "done" /\ tree' = Front
  BY PlaceFacts DEF callVars
<1>2. Closed(tree') /\ Held' = Held /\ Last(tree').fields # "none"
  <2>1. Closed(tree) /\ Last(tree) = Unset  BY <1>1 DEF TreeInv, Shape, Apps
  <2> QED  BY <1>1, <2>1, TreeFacts, FrontHolds DEF Held, Apps
<1>3. Shape'  BY <1>1, <1>2 DEF Shape, Starts, Apps, AppPlace
<1>4. Outside'  BY <1>1 DEF Outside, Network, Starts
<1>5. Inside'
  <2>1. Inside  BY DEF TreeInv
  <2>2. "UDP" \in Held => Short'
    <3>1. CASE pc = "dns"
      <4>1. 1 \in Matches(UdpServices, pkt.ports)
        BY <2>1, <3>1, UdpDnsFact DEF Inside, Matches
      <4> QED  BY <1>1, <3>1, <4>1, UdpDnsFact DEF Short
    <3>2. CASE pc \in {"dhcp", "ntp"}
      BY <1>1, <2>1, <3>2 DEF Inside, Short
    <3> QED  BY <1>1, <3>1, <3>2
  <2>3. "TCP" \in Held => 53 \in pkt.ports  BY <1>1, <2>1 DEF Inside
  <2> QED  BY <1>1, <1>2, <2>2, <2>3 DEF Inside
<1>6. Carried' /\ Summary'  BY <1>1, <1>2 DEF TreeInv, Carried, Summary
<1> QED  BY <1>3, <1>4, <1>5, <1>6 DEF TreeInv

LEMMA AppStepsHold ==
    ASSUME IInv, TreeInv, AppNext
    PROVE  TreeInv'
<1> USE DEF callVars, Return, Goto
<1>a. pos \in Nat  BY DEF IInv, Loop
<1>b. ASSUME NEW n \in Byte \cup Word \cup Line PROVE n \in Nat  BY <1>b, LengthFacts
<1>1. CASE AppTruncated  BY <1>1, AppTruncatedHolds
<1>2. CASE Records \/ NameEnds \/ Question \/ Answer
  <2>1. /\ pc \in AppPlace /\ pc' \in AppPlace \cup {"done"} /\ len' = len /\ pkt' = pkt
    BY <1>2 DEF Records, NameEnds, Question, Answer, Within, AppPlace
  <2>2. tree' = tree \/ \E n \in Int : tree' = Described(n)
    BY <1>2, <1>a DEF Records, NameEnds, Question, Answer, Within
  <2> QED  BY <2>1, <2>2, LoopHolds
<1>3. CASE (\E n \in Byte : NamePart(n)) \/ (\E to \in Word : NamePointer(to))
  <2>1. /\ pc \in AppPlace /\ pc' \in AppPlace \cup {"done"} /\ len' = len /\ pkt' = pkt
        /\ tree' = tree
    BY <1>3 DEF NamePart, NamePointer, Within, AppPlace
  <2> QED  BY <2>1, LoopHolds
<1>4. CASE Pad \/ OptionsEnd \/ \E n \in Byte : Option(n)
  <2>1. /\ pc \in AppPlace /\ pc' \in AppPlace \cup {"done"} /\ len' = len /\ pkt' = pkt
    BY <1>4 DEF Pad, OptionsEnd, Option, Within, AppPlace
  <2>2. tree' = tree \/ \E n \in Int : tree' = Described(n)
    BY <1>4, <1>a DEF Pad, OptionsEnd, Option
  <2> QED  BY <2>1, <2>2, LoopHolds
<1>5. CASE HeadersOver \/ \E n \in Line : Header(n)
  <2>1. /\ pc \in AppPlace /\ pc' \in AppPlace \cup {"done"} /\ len' = len /\ pkt' = pkt
    BY <1>5 DEF HeadersOver, Header, Within, AppPlace
  <2>2. tree' = tree \/ \E n \in Int : tree' = Described(n)
    BY <1>5, <1>a, <1>b DEF HeadersOver, Header
  <2> QED  BY <2>1, <2>2, LoopHolds
<1>6. CASE SkipParts \/ Extensions \/ ExtensionsEnd \/ \E n \in Word : Extension(n)
  <2>1. /\ pc \in AppPlace /\ pc' \in AppPlace \cup {"done"} /\ len' = len /\ pkt' = pkt
        /\ tree' = tree
    BY <1>6 DEF SkipParts, SkipPart, Extensions, ExtensionsEnd, Extension, Within, AppPlace
  <2> QED  BY <2>1, LoopHolds
<1>7. CASE \E n, name \in Word : ServerName(n, name)
  <2>1. PICK n \in Word, name \in Word : ServerName(n, name)  BY <1>7
  <2>2. /\ pc \in AppPlace /\ pc' \in AppPlace \cup {"done"} /\ len' = len /\ pkt' = pkt
    BY <2>1 DEF ServerName, Within, AppPlace
  <2>3. tree' = tree \/ \E m \in Int : tree' = Described(m)
    BY <2>1, <1>a, <1>b DEF ServerName
  <2> QED  BY <2>2, <2>3, LoopHolds
<1> DEFINE Filling ==
              \E p \in Proto \ {"Ethernet", "TCP", "UDP", "IPv4", "IPv6", "ARP"}, n \in Int :
                 tree' = Filled(p, n)
           Begins == pc \in Apps /\ pc' \in AppPlace \cup {"done"} /\ len' = len
<1>8. CASE Dns
  <2>1. Begins /\ Filling /\ Is("DNS") /\ "DNS" \in Names[pc]
    BY <1>8 DEF Dns, AppAt, Apps, AppPlace, Names, Proto
  <2> QED  BY <2>1, AppHolds
<1>9. CASE Dhcp
  <2>1. Begins /\ Filling /\ Is("DHCP") /\ "DHCP" \in Names[pc]
    BY <1>9 DEF Dhcp, AppAt, Apps, AppPlace, Names, Proto
  <2> QED  BY <2>1, AppHolds
<1>10. CASE Ntp
  <2>1. Begins /\ Filling /\ Is("NTP") /\ "NTP" \in Names[pc]
    BY <1>10 DEF Ntp, AppAt, Apps, AppPlace, Names, Proto
  <2> QED  BY <2>1, AppHolds
<1>11. CASE NotText
  <2>1. Begins /\ tree' = Front /\ pc' = "done" /\ Is(Text[pc]) /\ Text[pc] \in Names[pc]
    BY <1>11, PlaceFacts DEF NotText, Apps, AppPlace, Names, Text
  <2> QED  BY <2>1, AppHolds
<1>12. CASE \E n \in Line : TextLine(n)
  <2>1. Begins /\ Filling /\ Is(Text[pc]) /\ Text[pc] \in Names[pc]
    BY <1>12, <1>b, PlaceFacts DEF TextLine, Apps, AppPlace, Names, Text, Proto
  <2> QED  BY <2>1, AppHolds
<1>13. CASE \E n \in Line : Http(n)
  <2>1. Begins /\ Filling /\ Is("HTTP") /\ "HTTP" \in Names[pc]
    BY <1>13, <1>b DEF Http, AppAt, Apps, AppPlace, Names, Proto
  <2> QED  BY <2>1, AppHolds
<1>14. CASE \E n \in Line : Ssh(n)
  <2>1. Begins /\ (Filling \/ (tree' = Front /\ pc' = "done")) /\ Is("SSH") /\ "SSH" \in Names[pc]
    BY <1>14, <1>b, TreeFacts DEF Ssh, AppAt, Apps, AppPlace, Names, Proto
  <2> QED  BY <2>1, AppHolds
<1>c. Secure \in {"TLS", "HTTPS"}  BY DEF Secure
<1>15. CASE NoTls
  <2>1. PICK top \in {"TLS", "HTTPS"} : Is(top)  BY <1>15, <1>c DEF NoTls
  <2>2. Begins /\ tree' = Front /\ pc' = "done" /\ top \in Names[pc]
    BY <1>15 DEF NoTls, AppAt, Apps, AppPlace, Names
  <2> QED  BY <2>1, <2>2, AppHolds
<1>16. CASE Tls
  <2>1. Begins /\ Filling /\ Is(Secure) /\ Secure \in Names[pc]
    BY <1>16, <1>c DEF Tls, AppAt, Apps, AppPlace, Names, Proto
  <2> QED  BY <2>1, AppHolds
<1> QED  BY <1>1, <1>2, <1>3, <1>4, <1>5, <1>6, <1>7, <1>8, <1>9, <1>10, <1>11, <1>12,
            <1>13, <1>14, <1>15, <1>16 DEF AppNext

-----------------------------------------------------------------------------
(* The dissectors outside of TCP and UDP.                                  *)

\* What a step of one of them may do: it hands a layer on to another one,
\* goes on in its own, or returns; the packet is named after a layer that is
\* held, or for good.
LEMMA OutsideHolds ==
    ASSUME TreeInv, pc \in Network, pc' \in (Network \ {"ethernet"}) \cup {"done"},
           NEW new \in SUBSET (Proto \ {"TCP", "UDP"}), Held' = Held \cup new, Closed(tree'),
           \/ pc' = "done"
           \/ pc' \in Starts /\ Last(tree') = Unset
           \/ pc' \in {"route", "headers"} /\ Last(tree').fields # "none" /\ count' = 0
           \/ /\ pc' = "labels" /\ Last(tree').proto = "MPLS"
              /\ \/ Last(tree').fields # "none" /\ pos' > 0
                 \/ len' >= 4 /\ pos' = 0 /\ count' = 0 /\ arg' = "more",
           pkt'.ports = pkt.ports,
           pkt'.addressed => pkt.addressed \/ new \cap {"IPv4", "ARP"} # {},
           pkt'.six <=> pkt.six \/ "IPv6" \in new,
           \/ pkt'.top = pkt.top
           \/ pkt'.top \in {"Unknown"} \cup (Held' \cap {"VLAN", "MPLS", "IPv6"})
           \/ /\ pc' = "done"
              /\ \/ pkt'.top = "IPv4"
                 \/ pkt'.top = "ICMP" /\ pc = "icmp"
                 \/ pkt'.top = "ICMPv6" /\ pc = "icmpv6"
                 \/ pkt'.top = "ARP" /\ pc = "arp"
                 \/ pkt'.top \in {"VLAN", "MPLS"} /\ len' < 4,
           pc = "ethernet" => pc' = "done" \/ "Ethernet" \in new,
           pc' = "icmp" => "IPv4" \in new,
           pc' \in {"icmpv6", "headers"} => pc = "headers" \/ "IPv6" \in new
    PROVE  TreeInv'
<1>1. /\ Held' \cap {"TCP", "UDP"} = {} /\ pkt'.ports = {} /\ Held \subseteq Held'
      /\ pkt.top \in {"Unknown", "VLAN", "MPLS", "IPv6"}
  BY DEF TreeInv, Outside
<1>2. pc \notin Apps \cup AppPlace \cup {"done"} /\ pc' \notin Apps \cup AppPlace
  BY DEF Network, Starts, Apps, AppPlace
<1>3. Shape'  BY <1>1, <1>2 DEF Shape, Starts
<1>4. Outside'
  <2>1. pc' \in Network => pkt'.top \in {"Unknown", "VLAN", "MPLS", "IPv6"}
    BY <1>1 DEF Network, Starts
  <2>2. pc' \in Network \ {"ethernet"} => "Ethernet" \in Held'
    BY <1>1 DEF TreeInv, Outside, Network, Starts
  <2>3. pc' = "icmp" => "IPv4" \in Held'  OBVIOUS
  <2>4. pc' \in {"icmpv6", "headers"} => "IPv6" \in Held'
    BY <1>1 DEF TreeInv, Outside
  <2> QED  BY <1>1, <2>1, <2>2, <2>3, <2>4 DEF Outside
<1>5. Inside'  BY <1>1, <1>2 DEF Inside, Apps
<1>6. Carried'
  <2>1. CASE pkt'.top = pkt.top
    BY <1>1, <1>2, <2>1 DEF TreeInv, Carried, OverTcp
  <2>2. CASE pkt'.top \in {"Unknown"} \cup (Held' \cap {"VLAN", "MPLS", "IPv6"})
    BY <2>2 DEF Carried, OverTcp
  <2>3. CASE /\ pc' = "done"
             /\ \/ pkt'.top = "IPv4"
                \/ pkt'.top = "ICMP" /\ pc = "icmp"
                \/ pkt'.top = "ICMPv6" /\ pc = "icmpv6"
                \/ pkt'.top = "ARP" /\ pc = "arp"
                \/ pkt'.top \in {"VLAN", "MPLS"} /\ len' < 4
    <3>1. /\ (pc = "icmp" => "IPv4" \in Held') /\ (pc = "icmpv6" => "IPv6" \in Held')
          /\ pc = "arp" => "Ethernet" \in Held'
      BY <1>1 DEF TreeInv, Outside, Network, Starts
    <3> QED  BY <2>3, <3>1 DEF Carried, OverTcp
  <2> QED  BY <2>1, <2>2, <2>3
<1>7. Summary'
  <2>1. Summary  BY DEF TreeInv
  <2>2. pkt'.addressed => Held' \cap {"IPv4", "ARP"} # {}  BY <2>1 DEF Summary
  <2>3. pkt'.six <=> "IPv6" \in Held'  BY <2>1 DEF Summary
  <2> QED  BY <1>1, <2>2, <2>3 DEF Summary
<1> QED  BY <1>3, <1>4, <1>5, <1>6, <1>7 DEF TreeInv

LEMMA IsFacts ==
    ASSUME IInv
    PROVE  /\ \A p : Is(p) => /\ pkt'.top = p /\ pkt'.ports = pkt.ports
                              /\ pkt'.addressed = pkt.addressed /\ pkt'.six = pkt.six
           /\ \A p, q \in BOOLEAN : pkt' = [pkt EXCEPT !.top = p, !.addressed = q]
                 => /\ pkt'.top = p /\ pkt'.ports = pkt.ports
                    /\ pkt'.addressed = q /\ pkt'.six = pkt.six
           /\ \A q : pkt' = [pkt EXCEPT !.addressed = q]
                 => /\ pkt'.top = pkt.top /\ pkt'.ports = pkt.ports
                    /\ pkt'.addressed = q /\ pkt'.six = pkt.six
           /\ \A p : pkt' = [pkt EXCEPT !.top = p, !.six = TRUE, !.addressed = FALSE]
                 => /\ pkt'.top = p /\ pkt'.ports = pkt.ports
                    /\ pkt'.addressed = FALSE /\ pkt'.six = TRUE
BY TreeFacts DEF Is, Packet

\* What the layer at work is.
LEMMA WorkFacts ==
    ASSUME IInv, TreeInv
    PROVE  /\ tree \in Seq(Layer) /\ tree # <<>> /\ Closed(tree)
           /\ pc \in Starts => Last(tree) = Unset
           /\ pc \in {"route", "headers"} => Last(tree).fields # "none"
           /\ pc = "route" => count = 0 /\ pos = 0
           /\ pc = "labels" => Last(tree).proto = "MPLS"
           /\ len \in Nat /\ pos \in Nat /\ Held = Held \cup {} /\ Held = HeldIn(tree)
           /\ \A t : t = tree' => Held' = HeldIn(t)
BY TreeFacts DEF TreeInv, Shape, IInv, Loop, Held

\* A dissector returns and adds no field.
LEMMA ReturnHolds ==
    ASSUME IInv, TreeInv, pc \in Network, Return,
           tree' = tree \/ (pc \in Starts /\ \E p \in Proto : tree' = Named(p)),
           pkt' = pkt \/ (Is("ARP") /\ pc = "arp") \/ Is("Unknown")
              \/ \E p \in {"VLAN", "MPLS"} : Is(p) /\ (p \in Held \/ len < 4)
    PROVE  TreeInv'
<1>1. Closed(tree') /\ Held' = Held \cup {}
  <2>1. CASE tree' = tree  BY <2>1, WorkFacts
  <2>2. ASSUME NEW p \in Proto, pc \in Starts, tree' = Named(p)
        PROVE  Closed(tree') /\ HeldIn(tree') = Held
    BY <2>2, WorkFacts, NamedHolds
  <2> QED  BY <2>1, <2>2, WorkFacts
<1>2. /\ pkt'.ports = pkt.ports /\ pkt'.addressed = pkt.addressed /\ pkt'.six = pkt.six
      /\ pc' = "done" /\ len' = len
  BY IsFacts DEF Return, callVars
<1>3. \/ pkt'.top = pkt.top
      \/ pkt'.top \in {"Unknown"} \cup (Held' \cap {"VLAN", "MPLS", "IPv6"})
      \/ pkt'.top = "ARP" /\ pc = "arp"
      \/ pkt'.top \in {"VLAN", "MPLS"} /\ len' < 4
  BY <1>1, <1>2, IsFacts
<1>4. {} \in SUBSET (Proto \ {"TCP", "UDP"})  OBVIOUS
<1> QED  BY <1>1, <1>2, <1>3, <1>4, OutsideHolds

\* A dissector calls the next one, after the layer at work has its fields.
LEMMA CallHolds ==
    ASSUME IInv, TreeInv, pc \in Network, NEW next \in Starts \ {"ethernet"}, pc' = next,
           NEW new \in SUBSET (Proto \ {"TCP", "UDP"}),
           NEW t \in Seq(Layer), t # <<>>, Closed(t), Last(t).fields # "none",
           HeldIn(t) = Held \cup new, tree' = WithChild(t),
           pkt' = pkt \/ ("IPv4" \in new /\ pkt' = [pkt EXCEPT !.addressed = TRUE]),
           pc # "ethernet",
           next = "icmp" => "IPv4" \in new, next = "icmpv6" => pc = "headers",
           "IPv6" \notin new
    PROVE  TreeInv'
<1>1. Closed(tree') /\ Last(tree') = Unset /\ Held' = Held \cup new
  BY ChildHolds, WorkFacts
<1>2. /\ pkt'.ports = pkt.ports /\ pkt'.six = pkt.six /\ pkt'.top = pkt.top
      /\ pkt'.addressed => pkt.addressed \/ new \cap {"IPv4", "ARP"} # {}
  BY IsFacts
<1>3. pc' \in (Network \ {"ethernet"}) \cup {"done"} /\ pc' \in Starts /\ pc' # "headers"
  BY DEF Network, Starts
<1> QED  BY <1>1, <1>2, <1>3, OutsideHolds

LEMMA RouteHolds ==
    ASSUME IInv, TreeInv, RouteNetwork \/ RouteOther \/ RouteTruncated \/ Vlan
    PROVE  TreeInv'
<1>a. pc = "route" /\ pc \in Network
  BY DEF RouteNetwork, RouteOther, RouteTruncated, Vlan, Network
<1>1. CASE RouteNetwork
  <2>1. /\ arg \in {"ipv4", "ipv6", "arp"} /\ pc' = arg /\ tree' = WithChild(tree)
        /\ pkt' = pkt /\ arg \in Starts \ {"ethernet"}
    BY <1>1 DEF RouteNetwork, Pass, Starts
  <2>2. {} \in SUBSET (Proto \ {"TCP", "UDP"}) /\ "IPv6" \notin {}  OBVIOUS
  <2> QED  BY <1>a, <2>1, <2>2, WorkFacts, CallHolds
<1>2. CASE RouteOther  BY <1>a, <1>2, ReturnHolds DEF RouteOther
<1>3. CASE RouteTruncated  BY <1>a, <1>3, ReturnHolds DEF RouteTruncated
<1>4. CASE Vlan
  <2>1. /\ tree' = OwnLayer("VLAN", Extent(4)) /\ Is("VLAN") /\ pc' = "route" /\ count' = 0
        /\ Extent(4) \in {"within", "beyond"} /\ "VLAN" \in Proto \ {"TCP", "UDP"}
    BY <1>4 DEF Vlan, Pass, Extent, Proto
  <2>2. Closed(tree') /\ Last(tree').fields # "none" /\ Held' = Held \cup {"VLAN"}
    BY <1>a, <2>1, WorkFacts, OwnHolds
  <2>3. /\ pkt'.ports = pkt.ports /\ pkt'.six = pkt.six /\ pkt'.top = "VLAN"
        /\ pkt'.addressed = pkt.addressed
    BY <2>1, IsFacts
  <2>4. pc' \in (Network \ {"ethernet"}) \cup {"done"}  BY <2>1 DEF Network, Starts
  <2>5. {"VLAN"} \in SUBSET (Proto \ {"TCP", "UDP"})  BY <2>1
  <2> QED  BY <1>a, <2>1, <2>2, <2>3, <2>4, <2>5, OutsideHolds
<1> QED  BY <1>1, <1>2, <1>3, <1>4

LEMMA LabelsHold ==
    ASSUME IInv, TreeInv, Mpls \/ Label \/ Unlabelled
    PROVE  TreeInv'
<1>a. /\ "MPLS" \in Proto /\ {"MPLS"} \in SUBSET (Proto \ {"TCP", "UDP"})
      /\ {} \in SUBSET (Proto \ {"TCP", "UDP"})
      /\ "route" \in Network /\ "labels" \in Network
  BY DEF Proto, Network
<1>1. CASE Mpls
  <2>1. /\ tree' = OwnLayer("MPLS", "none") /\ pkt' = pkt /\ pc = "route" /\ pc' = "labels"
        /\ len >= 4 /\ len' = len /\ pos' = pos /\ count' = count /\ arg' = "more"
    BY <1>1 DEF Mpls, Goto, callVars, loopVars
  <2>2. Closed(tree') /\ Last(tree').proto = "MPLS" /\ Held' = Held \cup {}
    BY <1>a, <2>1, WorkFacts, OwnHolds
  <2>3. pc' \in (Network \ {"ethernet"}) \cup {"done"}  BY <2>1 DEF Network, Starts
  <2>4. pos' = 0 /\ count' = 0  BY <2>1, WorkFacts
  <2> QED  BY <1>a, <2>1, <2>2, <2>3, <2>4, OutsideHolds
<1>2. CASE Label
  <2>1. /\ tree' = Described(pos + 4) /\ pkt' = pkt /\ pc = "labels" /\ pc' = "labels"
        /\ pos' > 0
    BY <1>2, WorkFacts DEF Label, Goto
  <2>2. /\ Closed(tree') /\ Last(tree').proto = "MPLS" /\ Last(tree').fields # "none"
        /\ Held' = Held \cup {"MPLS"}
    <3>1. pos + 4 \in Int  BY WorkFacts
    <3> QED  BY <2>1, <3>1, WorkFacts, DescribedHolds
  <2>3. pc' \in (Network \ {"ethernet"}) \cup {"done"}  BY <2>1 DEF Network, Starts
  <2> QED  BY <1>a, <2>1, <2>2, <2>3, OutsideHolds
<1>3. CASE Unlabelled
  <2>1. pc = "labels" /\ ~MoreLabels /\ tree' = tree /\ Is("MPLS")  BY <1>3 DEF Unlabelled
  <2>2. Last(tree).fields # "none" /\ pos > 0
    <3>1. \/ Last(tree).fields # "none" /\ pos > 0
          \/ len >= 4 /\ pos = 0 /\ count = 0 /\ arg = "more"
      BY <2>1 DEF TreeInv, Shape
    <3> QED  BY <2>1, <3>1, WorkFacts DEF MoreLabels
  <2>3. "MPLS" \in Held  BY <2>1, <2>2, WorkFacts, LastHeld
  <2>4. CASE Return  BY <1>a, <2>1, <2>3, <2>4, ReturnHolds
  <2>5. CASE Pass("route", data + pos, len - pos, offset + pos)
    <3>1. pc' = "route" /\ count' = 0  BY <2>5 DEF Pass
    <3>2. pc' \in (Network \ {"ethernet"}) \cup {"done"}  BY <3>1 DEF Network, Starts
    <3>3. /\ pkt'.ports = pkt.ports /\ pkt'.six = pkt.six /\ pkt'.top = "MPLS"
          /\ pkt'.addressed = pkt.addressed
      BY <2>1, IsFacts
    <3>4. Closed(tree') /\ Held' = Held \cup {}  BY <2>1, WorkFacts
    <3> QED  BY <1>a, <2>1, <2>2, <2>3, <3>1, <3>2, <3>3, <3>4, OutsideHolds
  <2> QED  BY <1>3, <2>4, <2>5 DEF Unlabelled
<1> QED  BY <1>1, <1>2, <1>3

\* A dissector fills its layer and returns, or goes on behind it.
LEMMA FilledOnHolds ==
    ASSUME IInv, TreeInv, pc \in Starts,
           NEW p \in Proto \ {"TCP", "UDP"}, NEW n \in Int, tree' = Filled(p, n),
           \/ pc' = "done"
           \/ pc' = "route" /\ p = "Ethernet" /\ count' = 0
           \/ pc' = "headers" /\ p = "IPv6" /\ count' = 0 /\ pc # "ethernet",
           pkt'.ports = pkt.ports,
           pkt'.addressed => pkt.addressed \/ p \in {"IPv4", "ARP"},
           pkt'.six <=> pkt.six \/ p = "IPv6",
           \/ pkt'.top = pkt.top
           \/ p = "IPv6" /\ pkt'.top = p
           \/ /\ pc' = "done"
              /\ \/ p = "IPv4" /\ pkt'.top = p
                 \/ p = "ICMP" /\ pkt'.top = p /\ pc = "icmp"
                 \/ p = "ICMPv6" /\ pkt'.top = p /\ pc = "icmpv6"
                 \/ p = "ARP" /\ pkt'.top = p /\ pc = "arp"
    PROVE  TreeInv'
<1>1. Closed(tree') /\ Last(tree').fields # "none" /\ Held' = Held \cup {p}
  BY WorkFacts, FilledHolds
<1>2. pc \in Network /\ pc' \in (Network \ {"ethernet"}) \cup {"done"}
  BY DEF Network, Starts
<1>3. {p} \in SUBSET (Proto \ {"TCP", "UDP"})  OBVIOUS
<1> QED  BY <1>1, <1>2, <1>3, OutsideHolds

\* Which applications there are over each of the two.
LEMMA TcpServiceFacts ==
    \A i \in DOMAIN TcpServices :
       /\ \/ TcpServices[i].empty \in OverTcp
          \/ TcpServices[i].empty = "DNS" /\ TcpServices[i].ports = {53}
       /\ \/ TcpServices[i].app \in {"http", "tls", "ssh", "ftp", "smtp"}
          \/ TcpServices[i].app = "dns" /\ TcpServices[i].ports = {53}
BY DEF TcpServices, OverTcp

LEMMA UdpServiceFacts ==
    \A i \in DOMAIN UdpServices :
       /\ \/ UdpServices[i].empty \in {"DHCP", "NTP"}
          \/ UdpServices[i].empty = "DNS" /\ UdpServices[i].ports = {53}
       /\ \/ UdpServices[i].app \in {"dhcp", "ntp"}
          \/ UdpServices[i].app = "dns" /\ UdpServices[i].ports = {53}
BY DEF UdpServices

\* TCP or UDP fills its layer; what its ports say names the packet or is
\* called with the payload.
LEMMA ServeHolds ==
    ASSUME IInv, TreeInv, NEW p \in {"TCP", "UDP"}, pc \in {"tcp", "udp"}, raw' = raw,
           NEW services, services = IF p = "TCP" THEN TcpServices ELSE UdpServices,
           NEW payload, NEW left, NEW off,
           NEW m \in Int, NEW t, t = Filled(p, m), Serve(services, p, payload, left, off, t)
    PROVE  TreeInv'
<1> DEFINE ported == [pkt EXCEPT !.ports = raw.ports]
           found == Matches(services, raw.ports)
<1>1. /\ Closed(t) /\ HeldIn(t) = Held \cup {p} /\ Last(t).fields # "none"
      /\ t \in Seq(Layer) /\ t # <<>>
  <2>1. p \in Proto /\ pc \in Starts  BY DEF Proto, Starts
  <2> QED  BY <2>1, WorkFacts, FilledHolds
<1>2. raw.ports # {}  BY FrameAssumption DEF IInv, Call
<1>3. /\ ported.top = pkt.top /\ ported.six = pkt.six /\ ported.addressed = pkt.addressed
      /\ ported.ports = raw.ports
      /\ \A top : /\ [ported EXCEPT !.top = top].top = top
                  /\ [ported EXCEPT !.top = top].six = pkt.six
                  /\ [ported EXCEPT !.top = top].addressed = pkt.addressed
                  /\ [ported EXCEPT !.top = top].ports = raw.ports
  BY TreeFacts DEF Packet
<1>4. \/ Return /\ tree' = t /\ pkt' = [ported EXCEPT !.top = p]
      \/ \E i \in found : /\ Return /\ tree' = t
                          /\ pkt' = [ported EXCEPT !.top = services[i].empty]
      \/ \E i \in found : /\ pc' = services[i].app /\ tree' = WithChild(t)
                          /\ pkt' = ported
  BY Zenon DEF Serve, Pass
<1>5. /\ found \subseteq DOMAIN services
      /\ \A i \in found : services[i].ports = {53} => 53 \in raw.ports
  BY DEF Matches
<1>6. /\ Held \cap {"TCP", "UDP"} = {} /\ pkt.top \in {"Unknown", "VLAN", "MPLS", "IPv6"}
      /\ pc \notin {"done"} \cup AppPlace
  BY DEF TreeInv, Outside, Network, Starts, AppPlace
<1> HIDE DEF ported
<1>7. ASSUME Return, tree' = t, pkt'.six = pkt.six, pkt'.addressed = pkt.addressed,
             pkt'.ports = raw.ports,
             \/ pkt'.top = p
             \/ p = "TCP" /\ pkt'.top \in OverTcp
             \/ p = "UDP" /\ pkt'.top \in {"DHCP", "NTP"}
             \/ pkt'.top = "DNS" /\ 53 \in raw.ports
      PROVE  TreeInv'
  <2>1. Closed(tree') /\ Held' = Held \cup {p} /\ Last(tree').fields # "none" /\ pc' = "done"
    BY <1>1, <1>7, WorkFacts DEF Return
  <2>2. Shape'  BY <2>1 DEF Shape, Starts, Apps, AppPlace
  <2>3. Outside'  BY <2>1 DEF Outside, Network, Starts
  <2>4. Inside'  BY <1>6, <1>7, <2>1 DEF Inside, OverUdp
  <2>5. Carried'  BY <1>6, <1>7, <2>1 DEF TreeInv, Carried, OverTcp
  <2>6. Summary'  BY <1>7, <2>1 DEF TreeInv, Summary
  <2> QED  BY <2>2, <2>3, <2>4, <2>5, <2>6 DEF TreeInv
<1>8. ASSUME NEW i \in found, pc' = services[i].app, tree' = WithChild(t), pkt' = ported
      PROVE  TreeInv'
  <2>1. Closed(tree') /\ Held' = Held \cup {p} /\ Last(tree') = Unset
    BY <1>1, <1>8, ChildHolds, WorkFacts
  <2>2. \/ p = "TCP" /\ pc' \in {"http", "tls", "ssh", "ftp", "smtp"}
        \/ pc' = "dns" /\ 53 \in raw.ports
        \/ p = "UDP" /\ pc' \in {"dhcp", "ntp"}
    BY <1>5, <1>8, TcpServiceFacts, UdpServiceFacts
  <2>3. /\ pc' \notin Network \cup AppPlace \cup {"done"}
    BY <2>2 DEF Network, Starts, AppPlace
  <2>4. /\ pkt'.six = pkt.six /\ pkt'.addressed = pkt.addressed
        /\ pkt'.ports = raw.ports /\ pkt'.top = pkt.top
    BY <1>3, <1>8
  <2>5. Shape'  BY <2>1, <2>3 DEF Shape, Network
  <2>6. Outside'  BY <2>3 DEF Outside, Network, Starts
  <2>7. Inside'
    <3>1. pc' \in {"dhcp", "ntp"}
             => \E j \in Matches(UdpServices, pkt'.ports) : UdpServices[j].app = pc'
      BY <1>8, <2>2, <2>4
    <3> QED  BY <1>6, <2>1, <2>2, <2>3, <2>4, <3>1 DEF Inside
  <2>8. Carried'  BY <1>6, <2>1, <2>4 DEF TreeInv, Carried, OverTcp
  <2>9. Summary'  BY <2>1, <2>4 DEF TreeInv, Summary
  <2> QED  BY <2>5, <2>6, <2>7, <2>8, <2>9 DEF TreeInv
<1>9. CASE Return /\ tree' = t /\ pkt' = [ported EXCEPT !.top = p]
  BY <1>3, <1>7, <1>9
<1>10. ASSUME NEW i \in found, Return, tree' = t, pkt' = [ported EXCEPT !.top = services[i].empty]
       PROVE  TreeInv'
  <2>1. /\ pkt'.top = services[i].empty /\ pkt'.six = pkt.six
        /\ pkt'.addressed = pkt.addressed /\ pkt'.ports = raw.ports
    BY <1>3, <1>10
  <2>2. \/ p = "TCP" /\ pkt'.top \in OverTcp
        \/ p = "UDP" /\ pkt'.top \in {"DHCP", "NTP"}
        \/ pkt'.top = "DNS" /\ 53 \in raw.ports
    BY <1>5, <1>10, <2>1, TcpServiceFacts, UdpServiceFacts
  <2> QED  BY <1>7, <1>10, <2>1, <2>2
<1> QED  BY <1>4, <1>8, <1>9, <1>10

LEMMA NetworkStepsHold ==
    ASSUME IInv, TreeInv, NetworkNext
    PROVE  TreeInv'
<1> USE DEF At
<1>a. Starts \subseteq Network  BY DEF Network
<1>b. {"Ethernet", "ARP", "IPv4", "IPv6", "ICMP", "ICMPv6"} \subseteq Proto \ {"TCP", "UDP"}
  BY DEF Proto
<1>1. CASE Truncated
  <2>1. pc \in Starts  BY <1>1, PlaceFacts DEF Truncated, Starts
  <2> QED  BY <1>1, <1>a, <2>1, ReturnHolds DEF Truncated
<1>2. CASE Ethernet
  <2>1. /\ pc = "ethernet" /\ pc \in Starts /\ tree' = Filled("Ethernet", 14)
        /\ pc' = "route" /\ count' = 0 /\ pkt' = pkt
    BY <1>2 DEF Ethernet, Pass, Starts
  <2> QED  BY <1>b, <2>1, FilledOnHolds
<1>3. CASE RouteNetwork \/ RouteOther \/ RouteTruncated \/ Vlan  BY <1>3, RouteHolds
<1>4. CASE Mpls \/ Label \/ Unlabelled  BY <1>4, LabelsHold
<1>5. ASSUME NEW s, Arp(s) PROVE TreeInv'
  <2>1. pc = "arp" /\ pc \in Starts /\ Return /\ pc' = "done"  BY <1>5 DEF Arp, Starts, Return
  <2>2. CASE tree' = Named("ARP") /\ Is("ARP")  BY <1>a, <1>b, <2>1, <2>2, ReturnHolds
  <2>3. ASSUME NEW n \in Int, tree' = Filled("ARP", n),
               pkt'.top = "ARP", pkt'.ports = pkt.ports, pkt'.six = pkt.six
        PROVE  TreeInv'
    BY <1>b, <2>1, <2>3, FilledOnHolds
  <2>4. CASE tree' = Filled("ARP", 8) /\ Is("ARP")
    <3>1. 8 \in Int /\ pkt'.top = "ARP" /\ pkt'.ports = pkt.ports /\ pkt'.six = pkt.six
      BY <2>4, TreeFacts DEF Is, Packet
    <3> QED  BY <2>3, <2>4, <3>1
  <2>5. CASE tree' = Filled("ARP", 28) /\ pkt' = [pkt EXCEPT !.top = "ARP", !.addressed = TRUE]
    <3>1. 28 \in Int /\ pkt'.top = "ARP" /\ pkt'.ports = pkt.ports /\ pkt'.six = pkt.six
      BY <2>5, TreeFacts DEF Packet
    <3> QED  BY <2>3, <2>5, <3>1
  <2> QED  BY <1>5, <2>2, <2>4, <2>5 DEF Arp
<1>6. ASSUME NEW n, IPv4BadHeader(n) PROVE TreeInv'
  <2>1. pc \in Starts /\ tree' = Named("IPv4") /\ Return /\ pkt' = pkt
    BY <1>6 DEF IPv4BadHeader, Starts
  <2> QED  BY <1>a, <1>b, <2>1, ReturnHolds
<1>7. ASSUME NEW n, IPv4(n) PROVE TreeInv'
  <2>1. pc = "ipv4" /\ pc \in Starts  BY <1>7 DEF IPv4, Starts
  <2>2. CASE /\ pkt' = [pkt EXCEPT !.addressed = TRUE, !.top = "IPv4"]
             /\ tree' = Filled("IPv4", 20) /\ Return
    <3>1. /\ pkt'.top = "IPv4" /\ pkt'.ports = pkt.ports /\ pkt'.six = pkt.six
          /\ pc' = "done"
      BY <2>2, TreeFacts DEF Packet, Return
    <3> QED  BY <1>b, <2>1, <2>2, <3>1, FilledOnHolds
  <2>3. ASSUME NEW p \in {"tcp", "udp", "icmp"}, NEW payload, NEW left, NEW off,
               Pass(p, payload, left, off),
               pkt' = [pkt EXCEPT !.addressed = TRUE], tree' = WithChild(Filled("IPv4", 20))
        PROVE  TreeInv'
    <3>1. PICK t : t = Filled("IPv4", 20)  OBVIOUS
    <3>2. /\ t \in Seq(Layer) /\ t # <<>> /\ Closed(t) /\ Last(t).fields # "none"
          /\ HeldIn(t) = Held \cup {"IPv4"}
      <4>1. "IPv4" \in Proto /\ 20 \in Int  BY <1>b
      <4>2. tree \in Seq(Layer) /\ tree # <<>> /\ Closed(tree) /\ Last(tree) = Unset
        BY <2>1, WorkFacts
      <4> QED  BY ONLY <3>1, <4>1, <4>2, FilledHolds
    <3>3. /\ pc' = p /\ p \in Starts \ {"ethernet"} /\ tree' = WithChild(t)
      BY <2>3, <3>1 DEF Pass, Starts
    <3>4. {"IPv4"} \in SUBSET (Proto \ {"TCP", "UDP"})  BY <1>b
    <3>5. /\ pc \in Network /\ pc # "ethernet" /\ p # "icmpv6" /\ "IPv4" \in {"IPv4"}
          /\ "IPv6" \notin {"IPv4"}
      BY <1>a, <2>1
    <3> QED  BY ONLY IInv, TreeInv, <2>3, <3>2, <3>3, <3>4, <3>5, CallHolds
  <2> QED  BY <1>7, <2>2, <2>3 DEF IPv4, IPv4Header
<1>8. CASE IPv6
  <2>1. /\ pc = "ipv6" /\ pc \in Starts /\ tree' = Filled("IPv6", 40) /\ pc' = "headers"
        /\ count' = 0 /\ pkt' = [pkt EXCEPT !.top = "IPv6", !.six = TRUE, !.addressed = FALSE]
    BY <1>8 DEF IPv6, Pass, Starts
  <2>2. /\ pkt'.top = "IPv6" /\ pkt'.ports = pkt.ports /\ pkt'.six = TRUE
        /\ pkt'.addressed = FALSE
    BY <2>1, IsFacts
  <2> QED  BY <1>b, <2>1, <2>2, FilledOnHolds
<1>9. CASE UpperLayer
  <2>1. /\ pc = "headers" /\ arg \in {"tcp", "udp", "icmpv6"} /\ pc' = arg
        /\ tree' = WithChild(tree) /\ pkt' = pkt
        /\ arg \in Starts \ {"ethernet"} /\ pc \in Network
    BY <1>9 DEF UpperLayer, Pass, Starts, Network
  <2>2. {} \in SUBSET (Proto \ {"TCP", "UDP"}) /\ "IPv6" \notin {}  OBVIOUS
  <2> QED  BY <2>1, <2>2, WorkFacts, CallHolds
<1>10. ASSUME NEW n, ExtensionHeader(n) PROVE TreeInv'
  <2>1. /\ pc = "headers" /\ pc' = "headers" /\ pc \in Network /\ tree' = tree /\ pkt' = pkt
        /\ count' = 0 /\ pc' \in (Network \ {"ethernet"}) \cup {"done"}
    BY <1>10 DEF ExtensionHeader, Pass, Network, Starts
  <2>2. Closed(tree') /\ Held' = Held \cup {} /\ Last(tree').fields # "none"
    BY <2>1, WorkFacts
  <2>3. {} \in SUBSET (Proto \ {"TCP", "UDP"})  OBVIOUS
  <2> QED  BY <2>1, <2>2, <2>3, OutsideHolds
<1>11. CASE HeadersEnd
  <2>1. pc \in Network /\ Return /\ tree' = tree /\ pkt' = pkt
    BY <1>11 DEF HeadersEnd, Network
  <2> QED  BY <2>1, ReturnHolds
<1>12. CASE Icmp
  <2>1. pc = "icmp" /\ pc \in Starts /\ pc' = "done" /\ Is("ICMP")
    BY <1>12 DEF Icmp, Return, Starts
  <2>2. PICK n \in Int : tree' = Filled("ICMP", n)  BY <1>12, TreeFacts DEF Icmp
  <2> QED  BY <1>b, <2>1, <2>2, IsFacts, FilledOnHolds
<1>13. CASE Icmpv6
  <2>1. pc = "icmpv6" /\ pc \in Starts /\ pc' = "done" /\ Is("ICMPv6")
    BY <1>13 DEF Icmpv6, Return, Starts
  <2>2. PICK n \in Int : tree' = Filled("ICMPv6", n)  BY <1>13 DEF Icmpv6
  <2> QED  BY <1>b, <2>1, <2>2, IsFacts, FilledOnHolds
<1>14. ASSUME NEW n, TcpBadHeader(n) PROVE TreeInv'
  <2>1. pc \in Starts /\ tree' = Named("TCP") /\ Return /\ pkt' = pkt
    BY <1>14 DEF TcpBadHeader, Starts
  <2>2. "TCP" \in Proto  BY DEF Proto
  <2> QED  BY <1>a, <2>1, <2>2, ReturnHolds
<1>15. ASSUME NEW n \in Nibble, Tcp(n) PROVE TreeInv'
  <2>1. PICK m : /\ m = IF Matches(TcpServices, raw.ports) = {} THEN len ELSE 4 * n
                 /\ Serve(TcpServices, "TCP", data + 4 * n, Behind(4 * n), offset + 4 * n,
                          Filled("TCP", m))
    BY <1>15 DEF Tcp
  <2>2. m \in Int
    <3>1. n \in Nat /\ len \in Nat  BY LengthFacts, TreeFacts
    <3> QED  BY <2>1, <3>1
  <2>3. pc = "tcp" /\ raw' = raw  BY <1>15 DEF Tcp
  <2> QED  BY <2>1, <2>2, <2>3, ServeHolds
<1>16. CASE Udp
  <2>1. /\ pc = "udp" /\ raw' = raw
        /\ Serve(UdpServices, "UDP", data + 8, Behind(8), offset + 8, Filled("UDP", 8))
    BY <1>16 DEF Udp
  <2> QED  BY <2>1, ServeHolds
<1> QED  BY <1>1, <1>2, <1>3, <1>4, <1>5, <1>6, <1>7, <1>8, <1>9, <1>10, <1>11, <1>12,
            <1>13, <1>14, <1>15, <1>16 DEF NetworkNext

-----------------------------------------------------------------------------
LEMMA HeldHolds ==
    ASSUME NEW protos
    PROVE  Holds(protos) <=> Held \cap protos # {}
BY DEF Holds, Held, HeldIn

\* The tree and the summary belong together throughout every dissection.
THEOREM TreeInvariance == Spec => []TreeInv
<1>1. Init => TreeInv
  <2> SUFFICES ASSUME Init PROVE TreeInv
    OBVIOUS
  <2> USE DEF Init
  <2>1. tree = <<Unset>> /\ Len(tree) = 1 /\ DOMAIN tree = 1..1 /\ tree[1] = Unset
        /\ Unset.fields = "none"
    BY DEF Unset
  <2>2. Closed(tree) /\ Last(tree) = Unset  BY <2>1 DEF Closed, Last
  <2>3. Held = {}  BY <2>1 DEF Held, HeldIn
  <2>4. pkt.top = "Unknown" /\ pkt.ports = {} /\ ~pkt.addressed /\ ~pkt.six
    BY DEF EmptyPacket
  <2>5. pc \notin Apps \cup AppPlace  BY DEF Apps, AppPlace
  <2>6. Shape  BY <2>2, <2>5 DEF Shape
  <2>7. Outside /\ Inside  BY <2>3, <2>4, <2>5 DEF Outside, Inside, Apps
  <2>8. Carried /\ Summary  BY <2>3, <2>4 DEF Carried, Summary, OverTcp
  <2> QED  BY <2>6, <2>7, <2>8 DEF TreeInv
<1>2. IInv /\ TreeInv /\ [Next]_vars => TreeInv'
  <2> SUFFICES ASSUME IInv, TreeInv, [Next]_vars PROVE TreeInv'
    OBVIOUS
  <2>1. CASE UNCHANGED vars
    <3>1. /\ pc' = pc /\ arg' = arg /\ len' = len /\ pos' = pos /\ count' = count
          /\ pkt' = pkt /\ tree' = tree /\ Held' = Held
      BY <2>1 DEF vars, callVars, loopVars, Held
    <3>2. Shape' /\ Outside'  BY <3>1 DEF TreeInv, Shape, Outside
    <3>3. Inside'  BY <3>1 DEF TreeInv, Inside, Short
    <3>4. Carried' /\ Summary'  BY <3>1 DEF TreeInv, Carried, Summary
    <3> QED  BY <3>2, <3>3, <3>4 DEF TreeInv
  <2> QED  BY <2>1, NetworkStepsHold, AppStepsHold DEF Next, Finished
<1> QED  BY <1>1, <1>2, Invariance, PTL DEF Spec

\* A finished tree lacks fields in its innermost layer at most, and there not
\* inside of TCP or UDP.
THEOREM LayersHaveFields == Spec => []LayersAreFilled
<1>1. IInv /\ TreeInv => LayersAreFilled
  <2> SUFFICES ASSUME IInv, TreeInv, NEW i \in DOMAIN tree, pc = "done",
                      tree[i].fields = "none"
               PROVE  /\ i = Len(tree)
                      /\ i > 1 => tree[i - 1].proto \notin {"TCP", "UDP"}
    BY DEF LayersAreFilled
  <2>1. tree \in Seq(Layer) /\ Closed(tree) /\ i \in 1..Len(tree) /\ Len(tree) \in Nat
    BY TreeFacts DEF TreeInv, Shape
  <2>2. i = Len(tree)  BY <2>1 DEF Closed
  <2>3. ASSUME i > 1 PROVE tree[i - 1].proto \in Held
    <3>1. i - 1 \in DOMAIN tree /\ tree[i - 1].fields # "none"  BY <2>1, <2>2, <2>3 DEF Closed
    <3> QED  BY <3>1 DEF Held, HeldIn
  <2>4. Held \cap {"TCP", "UDP"} = {}  BY <2>2 DEF TreeInv, Shape, Last
  <2> QED  BY <2>2, <2>3, <2>4
<1> QED  BY <1>1, Invariance, TreeInvariance, PTL

\* Addresses, ports and version come from layers the tree shows.
THEOREM SummaryIsFromLayers == Spec => []SummaryMatchesLayers
<1>1. TreeInv => SummaryMatchesLayers
  BY HeldHolds DEF TreeInv, Summary, SummaryMatchesLayers
<1> QED  BY <1>1, TreeInvariance, PTL

\* A one-word filter accepts no packet without a layer to show for it, but for
\* a tag or label that was cut off.
THEOREM AcceptedHasLayer == Spec => []AcceptedIsCarried
<1>1. TreeInv => AcceptedIsCarried
  <2> SUFFICES ASSUME TreeInv, NEW w \in FilterWord, pc = "done", pkt.top \in Family[w]
               PROVE  Held \cap Carriers(w) # {} \/ (w \in {"VLAN", "MPLS"} /\ len < 4)
    BY HeldHolds DEF AcceptedIsCarried, ProtoNode
  <2> USE DEF FilterWord
  <2>1. Carried  BY DEF TreeInv
  <2>2. CASE w = "TCP"
    <3>1. Carriers(w) = {"TCP"} /\ pkt.top \in {"TCP"} \cup OverTcp
      BY <2>2 DEF Carriers, Family, OverTcp
    <3> QED  BY <2>1, <3>1 DEF Carried
  <2>3. CASE w \in OverTcp
    <3>1. Carriers(w) = {"TCP"} /\ pkt.top = w  BY <2>3 DEF Carriers, Family, OverTcp
    <3> QED  BY <2>1, <2>3, <3>1 DEF Carried
  <2>4. CASE w = "UDP"
    <3>1. /\ pkt.top \in {"UDP", "DNS", "DHCP", "NTP"}
          /\ Carriers(w) = IF 53 \in pkt.ports THEN {"TCP", "UDP"} ELSE {"UDP"}
      BY <2>4 DEF Carriers, Family, OverUdp, OverTcp
    <3> QED  BY <2>1, <3>1 DEF Carried
  <2>5. CASE w = "DNS"
    <3>1. Carriers(w) = {"TCP", "UDP"} /\ pkt.top = w  BY <2>5 DEF Carriers, Family, OverTcp
    <3> QED  BY <2>1, <2>5, <3>1 DEF Carried
  <2>6. CASE w \in {"DHCP", "NTP"}
    <3>1. Carriers(w) = {"UDP"} /\ pkt.top = w  BY <2>6 DEF Carriers, Family, OverTcp
    <3> QED  BY <2>1, <2>6, <3>1 DEF Carried
  <2>7. CASE w \in {"IPv6", "ICMPv6"}
    <3>1. Carriers(w) = {"IPv6"} /\ pkt.top \in {"IPv6", "ICMPv6"}
      BY <2>7 DEF Carriers, Family, OverTcp
    <3> QED  BY <2>1, <3>1 DEF Carried
  <2>8. CASE w = "ICMP"
    <3>1. Carriers(w) = {"IPv4"} /\ pkt.top = w  BY <2>8 DEF Carriers, Family, OverTcp
    <3> QED  BY <2>1, <2>8, <3>1 DEF Carried
  <2>9. CASE w = "ARP"
    <3>1. Carriers(w) = {"Ethernet"} /\ pkt.top = w  BY <2>9 DEF Carriers, Family, OverTcp
    <3> QED  BY <2>1, <2>9, <3>1 DEF Carried
  <2>10. CASE w \in {"VLAN", "MPLS"}
    <3>1. Carriers(w) = {w} /\ pkt.top = w  BY <2>10 DEF Carriers, Family, OverTcp
    <3> QED  BY <2>1, <2>10, <3>1 DEF Carried
  <2> QED  BY <2>2, <2>3, <2>4, <2>5, <2>6, <2>7, <2>8, <2>9, <2>10 DEF OverTcp
<1> QED  BY <1>1, TreeInvariance, PTL

\* `tcp` accepts what holds TCP, unless it is DNS, and `udp` what holds UDP,
\* unless an application found it too short.
THEOREM TransportIsAccepted == Spec => []TransportIsFound
<1>1. TreeInv => TransportIsFound
  <2> SUFFICES ASSUME TreeInv, pc = "done"
               PROVE  /\ "TCP" \in Held => ProtoNode("TCP", pkt) \/ 53 \in pkt.ports
                      /\ "UDP" \in Held => ProtoNode("UDP", pkt) \/ Short
    BY HeldHolds DEF TransportIsFound, Short
  <2>1. /\ "TCP" \in Held => pkt.top \in {"TCP"} \cup OverTcp \/ 53 \in pkt.ports
        /\ "UDP" \in Held => pkt.top \in {"UDP"} \cup OverUdp \/ Short
    BY DEF TreeInv, Inside
  <2>2. Family["TCP"] = {"TCP"} \cup OverTcp /\ Family["UDP"] = {"UDP"} \cup OverUdp
    BY DEF Family, FilterWord
  <2> QED  BY <2>1, <2>2 DEF ProtoNode
<1> QED  BY <1>1, TreeInvariance, PTL

-----------------------------------------------------------------------------
(* Why a dissection ends: every step makes the measure of what remains     *)
(* smaller.  Most of them enter a later phase; those of a loop stay in     *)
(* theirs with fewer bytes, names, pointers or rounds ahead.               *)

Measures ==
    /\ pc = "ethernet" => Phase = 7
    /\ pc \in {"route", "labels"} => Phase = 6
    /\ pc \in {"arp", "ipv4", "ipv6"} => Phase = 5
    /\ pc = "headers" => Phase = 4
    /\ pc \in {"icmp", "icmpv6", "tcp", "udp"} => Phase = 3
    /\ pc \in {"dns", "dhcp", "ntp", "http", "ftp", "smtp", "tls", "ssh"} => Phase = 2
    /\ pc \in AppPlace => Phase = 1
    /\ pc = "done" => Phase = 0
    /\ pc \in {"route", "labels", "headers"} => Rounds = len
    /\ pc = "records" => Rounds = 3 * NamesLeft + 2
    /\ pc = "name" => Rounds = 3 * NamesLeft + 1
    /\ pc = "record" => Rounds = 3 * NamesLeft
    /\ pc = "header" => Rounds = Minus(16, count)
    /\ pc = "session" => Rounds = 4
    /\ pc = "ciphers" => Rounds = 3
    /\ pc = "compression" => Rounds = 2
    /\ pc = "extensions" => Rounds = 1
    /\ pc \in {"option", "extension"} => Rounds = 0
    /\ pc = "name" => Pointers = Minus(11, count) /\ Ahead = Minus(len, ptr)
    /\ pc # "name" => Pointers = 0
    /\ pc = "route" => Ahead = len + 1
    /\ pc \in {"labels", "option", "extension"} => Ahead = Minus(len, pos)

LEMMA MeasureFacts == Measures
BY DEF Measures, Phase, Rounds, Pointers, Ahead, AppPlace

LEMMA MeasureFactsAfter == Measures'
BY MeasureFacts, PTL

LEMMA PhaseOrder == IInv => Phase \in 0..7 /\ (pc # "done" => Phase > 0)
BY MeasureFacts, PlaceFacts DEF IInv, Place, Measures

LEMMA MinusFacts ==
    \A m, n \in Nat : /\ Minus(m, n) \in Nat
                     /\ \A k \in Nat : n < m /\ n < k => Minus(m, k) < Minus(m, n)
BY DEF Minus

LEMMA NamesFacts ==
    /\ NamesLeft \in Nat
    /\ arg = "both" => NamesLeft = 2
    /\ arg \in {"question", "answer"} => NamesLeft = 1
    /\ arg = "none" => NamesLeft = 0
BY DEF NamesLeft

\* What is compared are numbers.
Numbered == Phase \in Nat /\ Rounds \in Nat /\ Pointers \in Nat /\ Ahead \in Nat

LEMMA MeasuresAreNumbers == IInv => Numbered
<1> SUFFICES ASSUME IInv PROVE Numbered
  OBVIOUS
<1>1. Phase \in Nat  BY PhaseOrder
<1>2. len \in Nat /\ pos \in Nat /\ ptr \in Nat /\ count \in Nat /\ 11 \in Nat /\ 16 \in Nat
  BY DEF IInv, Call, Loop
<1>3. /\ Minus(16, count) \in Nat /\ Minus(11, count) \in Nat
      /\ Minus(len, pos) \in Nat /\ Minus(len, ptr) \in Nat
  BY <1>2, MinusFacts
<1>4. Rounds \in Nat  BY <1>2, <1>3, NamesFacts DEF Rounds
<1>5. Pointers \in Nat  BY <1>3 DEF Pointers
<1>6. Ahead \in Nat  BY <1>2, <1>3 DEF Ahead
<1> QED  BY <1>1, <1>4, <1>5, <1>6 DEF Numbered

Falls == Precedes(Remaining', Remaining)

LEMMA FallsByPhase ==
    ASSUME Phase' < Phase
    PROVE  Falls
BY DEF Falls, Precedes, Remaining

LEMMA FallsByRounds ==
    ASSUME Phase' = Phase, Rounds' < Rounds
    PROVE  Falls
BY DEF Falls, Precedes, Remaining

LEMMA FallsByPointers ==
    ASSUME Phase' = Phase, Rounds' = Rounds, Pointers' < Pointers
    PROVE  Falls
BY DEF Falls, Precedes, Remaining

LEMMA FallsByAhead ==
    ASSUME Phase' = Phase, Rounds' = Rounds, Pointers' = Pointers, Ahead' < Ahead
    PROVE  Falls
BY DEF Falls, Precedes, Remaining

LEMMA ReturnFalls ==
    ASSUME IInv, pc # "done", pc' = "done"
    PROVE  Falls
<1>1. Phase > 0 /\ Phase \in Nat /\ Phase' = 0
  BY PhaseOrder, MeasureFactsAfter DEF Measures
<1> QED  BY <1>1, FallsByPhase

\* What the steps below have at hand.
LEMMA Ranges ==
    ASSUME IInv
    PROVE  /\ len \in Nat /\ pos \in Nat /\ ptr \in Nat /\ count \in Nat
           /\ Phase \in Nat /\ Rounds \in Nat /\ Pointers \in Nat /\ Ahead \in Nat
           /\ pc = "labels" => pos <= len
BY MeasuresAreNumbers DEF IInv, Call, Loop, Numbered

\* The layers around each other.
LEMMA RouteFalls ==
    ASSUME IInv, TreeInv, RouteNetwork \/ RouteOther \/ RouteTruncated \/ Vlan \/ Mpls
                          \/ Label \/ Unlabelled
    PROVE  Falls
<1>1. ASSUME pc \in {"route", "labels"}, pc' \in {"route", "labels"}
      PROVE  /\ Phase' = Phase /\ Rounds = len /\ Rounds' = len'
             /\ Pointers = 0 /\ Pointers' = 0
  BY <1>1, MeasureFacts, MeasureFactsAfter DEF Measures
<1>2. CASE RouteNetwork
  <2>1. pc = "route" /\ pc' \in {"arp", "ipv4", "ipv6"}  BY <1>2 DEF RouteNetwork, Pass
  <2>2. Phase = 6 /\ Phase' = 5
    BY <2>1, MeasureFacts, MeasureFactsAfter DEF Measures
  <2> QED  BY <2>2, FallsByPhase
<1>3. CASE RouteOther \/ RouteTruncated
  BY <1>3, ReturnFalls DEF RouteOther, RouteTruncated, Return
<1>4. CASE Vlan
  <2>1. pc = "route" /\ pc' = "route" /\ len' = len - 4  BY <1>4 DEF Vlan, Pass
  <2>2. len' < len  BY <2>1, Ranges
  <2> QED  BY <1>1, <2>1, <2>2, FallsByRounds
<1>5. CASE Mpls
  <2>1. pc = "route" /\ pc' = "labels" /\ len' = len /\ pos' = pos
    BY <1>5 DEF Mpls, Goto, callVars, loopVars
  <2>2. pos = 0  BY <2>1 DEF IInv, Loop
  <2>3. Ahead = len + 1 /\ Ahead' = Minus(len', pos')
    BY <2>1, MeasureFacts, MeasureFactsAfter DEF Measures
  <2>4. Ahead' < Ahead  BY <2>1, <2>2, <2>3, Ranges DEF Minus
  <2> QED  BY <1>1, <2>1, <2>4, FallsByAhead
<1>6. CASE Label
  <2>1. /\ pc = "labels" /\ pc' = "labels" /\ len' = len /\ pos' = pos + 4 /\ pos + 4 <= len
    BY <1>6 DEF Label, MoreLabels, Goto, callVars
  <2>2. Ahead = Minus(len, pos) /\ Ahead' = Minus(len, pos')
    BY <2>1, MeasureFacts, MeasureFactsAfter DEF Measures
  <2>3. Ahead' < Ahead  BY <2>1, <2>2, Ranges DEF Minus
  <2> QED  BY <1>1, <2>1, <2>3, FallsByAhead
<1>7. CASE Unlabelled
  <2>1. /\ pc = "labels" /\ ~MoreLabels
        /\ Return \/ Pass("route", data + pos, len - pos, offset + pos)
    BY <1>7 DEF Unlabelled
  <2>2. pos > 0
    BY <2>1, Ranges DEF TreeInv, Shape, MoreLabels
  <2>3. CASE Return  BY <2>1, <2>3, ReturnFalls DEF Return
  <2>4. CASE Pass("route", data + pos, len - pos, offset + pos)
    <3>1. pc' = "route" /\ len' = len - pos  BY <2>4 DEF Pass
    <3>2. len' < len  BY <2>2, <3>1, Ranges
    <3> QED  BY <1>1, <2>1, <3>1, <3>2, FallsByRounds
  <2> QED  BY <2>1, <2>3, <2>4
<1> QED  BY <1>2, <1>3, <1>4, <1>5, <1>6, <1>7

\* A call into a later phase.
LEMMA CallFalls ==
    ASSUME IInv,
           \/ pc = "ethernet" /\ pc' = "route"
           \/ pc = "ipv4" /\ pc' \in {"tcp", "udp", "icmp"}
           \/ pc = "ipv6" /\ pc' = "headers"
           \/ pc = "headers" /\ pc' \in {"tcp", "udp", "icmpv6"}
           \/ /\ pc \in {"tcp", "udp"}
              /\ pc' \in {"dns", "dhcp", "ntp", "http", "ftp", "smtp", "tls", "ssh"}
           \/ /\ pc \in {"dns", "dhcp", "http", "tls"}
              /\ pc' \in {"records", "option", "header", "session"}
    PROVE  Falls
<1>1. \/ Phase = 7 /\ Phase' = 6
      \/ Phase = 5 /\ Phase' = 3
      \/ Phase = 5 /\ Phase' = 4
      \/ Phase = 4 /\ Phase' = 3
      \/ Phase = 3 /\ Phase' = 2
      \/ Phase = 2 /\ Phase' = 1
  BY MeasureFacts, MeasureFactsAfter DEF Measures, AppPlace
<1> QED  BY <1>1, FallsByPhase

LEMMA NetworkFalls ==
    ASSUME IInv, TreeInv, NetworkNext
    PROVE  Falls
<1>1. CASE Return
  <2>1. pc # "done"
    BY PlaceFacts DEF NetworkNext, Truncated, Ethernet, RouteNetwork, RouteOther, RouteTruncated,
       Vlan, Mpls, Label, Unlabelled, Arp, IPv4BadHeader, IPv4, TcpBadHeader, Tcp, IPv6,
       UpperLayer, HeadersEnd, ExtensionHeader, Icmp, Icmpv6, Udp, At
  <2> QED  BY <1>1, <2>1, ReturnFalls DEF Return
<1>2. CASE Ethernet  BY <1>2, CallFalls DEF Ethernet, At, Pass
<1>3. CASE RouteNetwork \/ RouteOther \/ RouteTruncated \/ Vlan \/ Mpls \/ Label \/ Unlabelled
  BY <1>3, RouteFalls
<1>4. ASSUME NEW n, IPv4(n) PROVE Falls
  <2>1. pc = "ipv4" /\ (Return \/ pc' \in {"tcp", "udp", "icmp"})
    BY <1>4 DEF IPv4, IPv4Header, At, Pass
  <2> QED  BY <1>1, <2>1, CallFalls
<1>5. CASE IPv6  BY <1>5, CallFalls DEF IPv6, At, Pass
<1>6. CASE UpperLayer
  <2>1. pc = "headers" /\ pc' \in {"tcp", "udp", "icmpv6"}  BY <1>6 DEF UpperLayer, Pass
  <2> QED  BY <2>1, CallFalls
<1>7. ASSUME NEW n \in Nat, n >= 1, ExtensionHeader(n) PROVE Falls
  <2>1. pc = "headers" /\ pc' = "headers" /\ len' = len - 8 * n
    BY <1>7 DEF ExtensionHeader, Pass
  <2>2. Phase' = Phase /\ Rounds = len /\ Rounds' = len'
    BY <2>1, MeasureFacts, MeasureFactsAfter DEF Measures
  <2>3. len' < len  BY <1>7, <2>1, Ranges
  <2> QED  BY <2>2, <2>3, FallsByRounds
<1>8. ASSUME NEW services \in {TcpServices, UdpServices}, NEW plain, NEW payload, NEW left,
             NEW off, NEW t, pc \in {"tcp", "udp"},
             Serve(services, plain, payload, left, off, t)
      PROVE  Falls
  <2>1. \/ Return
        \/ \E i \in Matches(services, raw.ports) :
              Pass(services[i].app, payload, left, off)
    BY <1>8, Zenon DEF Serve
  <2>2. ASSUME NEW i \in Matches(services, raw.ports),
               Pass(services[i].app, payload, left, off)
        PROVE  pc' \in {"dns", "dhcp", "ntp", "http", "ftp", "smtp", "tls", "ssh"}
    BY <2>2, ServiceFacts DEF Matches, Pass
  <2> QED  BY <1>1, <1>8, <2>1, <2>2, CallFalls
<1>9. CASE \E n \in Nibble : Tcp(n)
  BY <1>8, <1>9 DEF Tcp, At
<1>10. CASE Udp  BY <1>8, <1>10 DEF Udp, At
<1>11. CASE \/ Truncated \/ HeadersEnd \/ Icmp \/ Icmpv6
            \/ \E h, p \in Byte : Arp(h + p)
            \/ \E n \in Nibble : IPv4BadHeader(n) \/ TcpBadHeader(n)
  BY <1>1, <1>11 DEF Truncated, HeadersEnd, Icmp, Icmpv6, Arp, IPv4BadHeader, TcpBadHeader
<1>12. \A b \in Byte : b + 1 \in Nat /\ b + 1 >= 1  BY LengthFacts
<1> QED  BY <1>2, <1>3, <1>4, <1>5, <1>6, <1>7, <1>9, <1>10, <1>11, <1>12 DEF NetworkNext

\* The walk over a name, and what is around it.
LEMMA NamesFall ==
    ASSUME IInv, \/ Records \/ NameEnds \/ Question
                 \/ \E n \in Byte : NamePart(n)
                 \/ \E to \in Word : NamePointer(to)
    PROVE  Falls
<1>1. ASSUME pc \in {"records", "name", "record"}, pc' \in {"records", "name", "record"}
      PROVE  Phase = 1 /\ Phase' = 1
  BY <1>1, MeasureFacts, MeasureFactsAfter DEF Measures, AppPlace
<1>2. ASSUME arg' = arg PROVE NamesLeft' = NamesLeft
  BY <1>2 DEF NamesLeft
<1>3. NamesLeft \in Nat  BY NamesFacts
<1>4. CASE Records
  <2>1. CASE Return  BY <1>4, <2>1, ReturnFalls DEF Records, Within, Return
  <2>2. CASE ~Return
    <3>1. pc = "records" /\ pc' = "name" /\ arg' = arg
      BY <1>4, <2>2 DEF Records, Within, Goto
    <3>2. Rounds = 3 * NamesLeft + 2 /\ Rounds' = 3 * NamesLeft' + 1
      BY <3>1, MeasureFacts, MeasureFactsAfter DEF Measures
    <3>3. Rounds' < Rounds  BY <1>2, <1>3, <3>1, <3>2
    <3> QED  BY <1>1, <3>1, <3>3, FallsByRounds
  <2> QED  BY <2>1, <2>2
<1>5. CASE NameEnds
  <2>1. pc = "name" /\ pc' = "record" /\ arg' = arg
    BY <1>5 DEF NameEnds, Within, Goto
  <2>2. Rounds = 3 * NamesLeft + 1 /\ Rounds' = 3 * NamesLeft'
    BY <2>1, MeasureFacts, MeasureFactsAfter DEF Measures
  <2>3. Rounds' < Rounds  BY <1>2, <1>3, <2>1, <2>2
  <2> QED  BY <1>1, <2>1, <2>3, FallsByRounds
<1>6. CASE Question
  <2>1. /\ pc = "record" /\ pc' = "records" /\ arg \in {"both", "question"}
        /\ arg' = IF arg = "both" THEN "answer" ELSE "none"
    BY <1>6 DEF Question, Within, Goto
  <2>2. Rounds = 3 * NamesLeft /\ Rounds' = 3 * NamesLeft' + 2
    BY <2>1, MeasureFacts, MeasureFactsAfter DEF Measures
  <2>3. /\ arg = "both" => NamesLeft = 2 /\ NamesLeft' = 1
        /\ arg = "question" => NamesLeft = 1 /\ NamesLeft' = 0
    BY <2>1 DEF NamesLeft
  <2>4. Rounds' < Rounds  BY <2>1, <2>2, <2>3
  <2> QED  BY <1>1, <2>1, <2>4, FallsByRounds
<1>7. ASSUME pc = "name", pc' = "name", arg' = arg
      PROVE  /\ Phase' = Phase /\ Rounds' = Rounds
             /\ Pointers = Minus(11, count) /\ Pointers' = Minus(11, count')
             /\ Ahead = Minus(len, ptr) /\ Ahead' = Minus(len', ptr')
  BY <1>1, <1>2, <1>7, MeasureFacts, MeasureFactsAfter DEF Measures
<1>8. ASSUME NEW n \in Byte, NamePart(n) PROVE Falls
  <2>1. /\ pc = "name" /\ pc' = "name" /\ arg' = arg /\ count' = count /\ len' = len
        /\ n \in 1..191 /\ ptr' = ptr + 1 + n /\ ptr + 1 + n <= len
    BY <1>8 DEF NamePart, Within, Goto, callVars
  <2>2. Pointers' = Pointers  BY <1>7, <2>1
  <2>3. Minus(len, ptr') < Minus(len, ptr)  BY <2>1, Ranges DEF Minus
  <2> QED  BY <1>7, <2>1, <2>2, <2>3, FallsByAhead
<1>9. ASSUME NEW to \in Word, NamePointer(to) PROVE Falls
  <2>1. pc = "name" /\ pc' = "name" /\ arg' = arg /\ count' = count + 1 /\ count <= 10
    BY <1>9 DEF NamePointer, Within, Goto
  <2>2. Minus(11, count') < Minus(11, count)  BY <2>1, Ranges DEF Minus
  <2> QED  BY <1>7, <2>1, <2>2, FallsByPointers
<1> QED  BY <1>4, <1>5, <1>6, <1>8, <1>9

\* The loops over options, headers and extensions.
LEMMA LoopsFall ==
    ASSUME IInv, \/ Pad \/ \E n \in Byte : Option(n)
                 \/ \E n \in Line : Header(n)
                 \/ SkipParts \/ Extensions
                 \/ \E n \in Word : Extension(n)
    PROVE  Falls
<1>1. ASSUME pc \in AppPlace, pc' \in AppPlace
      PROVE  Phase = 1 /\ Phase' = 1
  BY <1>1, MeasureFacts, MeasureFactsAfter DEF Measures
<1>2. {"option", "header", "session", "ciphers", "compression", "extensions", "extension"}
         \subseteq AppPlace
  BY DEF AppPlace
<1>3. ASSUME pc \in {"option", "extension"}, pc' = pc, len' = len,
             pos \in Nat, pos' \in Nat, pos < len, pos < pos'
      PROVE  Falls
  <2>1. /\ Rounds = 0 /\ Rounds' = 0 /\ Pointers = 0 /\ Pointers' = 0
        /\ Ahead = Minus(len, pos) /\ Ahead' = Minus(len, pos')
    BY <1>3, MeasureFacts, MeasureFactsAfter DEF Measures
  <2>2. Minus(len, pos') < Minus(len, pos)
    BY <1>3, Ranges, MinusFacts
  <2> QED  BY <1>1, <1>2, <1>3, <2>1, <2>2, FallsByAhead
<1>4. CASE Pad
  <2>1. pc = "option" /\ pc' = "option" /\ len' = len /\ pos' = pos + 1 /\ pos < len
    BY <1>4 DEF Pad, Within, Goto, callVars
  <2>2. pos \in Nat /\ pos' \in Nat /\ pos < pos'  BY <2>1, Ranges
  <2> QED  BY <1>3, <2>1, <2>2
<1>5. ASSUME NEW n \in Byte, Option(n) PROVE Falls
  <2>1. pc = "option" /\ pc' = "option" /\ len' = len /\ pos' = pos + 2 + n /\ pos + 1 < len
    BY <1>5 DEF Option, Within, Goto, callVars
  <2>2. pos \in Nat /\ pos' \in Nat /\ pos < pos' /\ pos < len
    BY <2>1, Ranges, LengthFacts
  <2> QED  BY <1>3, <2>1, <2>2
<1>6. ASSUME NEW n \in Line, Header(n) PROVE Falls
  <2>1. pc = "header" /\ pc' = "header" /\ count < 16 /\ count' = count + 1
    BY <1>6 DEF Header, Within, Goto
  <2>2. Rounds = Minus(16, count) /\ Rounds' = Minus(16, count')
    BY <2>1, MeasureFacts, MeasureFactsAfter DEF Measures
  <2>3. Rounds' < Rounds  BY <2>1, <2>2, Ranges DEF Minus
  <2> QED  BY <1>1, <1>2, <2>1, <2>3, FallsByRounds
<1>7. CASE SkipParts
  <2>1. \/ pc = "session" /\ pc' = "ciphers"
        \/ pc = "ciphers" /\ pc' = "compression"
        \/ pc = "compression" /\ pc' = "extensions"
    BY <1>7 DEF SkipParts, SkipPart, Within, Goto
  <2>2. \/ Rounds = 4 /\ Rounds' = 3
        \/ Rounds = 3 /\ Rounds' = 2
        \/ Rounds = 2 /\ Rounds' = 1
    BY <2>1, MeasureFacts, MeasureFactsAfter DEF Measures
  <2> QED  BY <1>1, <1>2, <2>1, <2>2, FallsByRounds
<1>8. CASE Extensions
  <2>1. pc = "extensions" /\ (Return \/ pc' = "extension")
    BY <1>8 DEF Extensions, Within, Goto
  <2>2. CASE Return  BY <2>1, <2>2, ReturnFalls DEF Return
  <2>3. CASE pc' = "extension"
    <3>1. Rounds = 1 /\ Rounds' = 0
      BY <2>1, <2>3, MeasureFacts, MeasureFactsAfter DEF Measures
    <3> QED  BY <1>1, <1>2, <2>1, <2>3, <3>1, FallsByRounds
  <2> QED  BY <2>1, <2>2, <2>3
<1>9. ASSUME NEW n \in Word, Extension(n) PROVE Falls
  <2>1. /\ pc = "extension" /\ pc' = "extension" /\ len' = len /\ pos' = pos + 4 + n
        /\ pos + 4 <= len
    BY <1>9 DEF Extension, MoreExtensions, Within, Goto, callVars
  <2>2. pos \in Nat /\ pos' \in Nat /\ pos < pos' /\ pos < len
    BY <2>1, Ranges, LengthFacts
  <2> QED  BY <1>3, <2>1, <2>2
<1> QED  BY <1>4, <1>5, <1>6, <1>7, <1>8, <1>9

LEMMA AppFalls ==
    ASSUME IInv, AppNext
    PROVE  Falls
<1>1. CASE Return
  <2>1. pc # "done"
    BY PlaceFacts DEF AppNext, AppTruncated, Dns, Records, NameEnds, Question, Answer, NamePart,
       NamePointer, Dhcp, Pad, OptionsEnd, Option, NotText, Http, TextLine, Header, Ssh,
       HeadersOver, NoTls, Tls, SkipParts, SkipPart, Extensions, ExtensionsEnd, Extension,
       ServerName, Ntp, Within, AppAt
  <2> QED  BY <1>1, <2>1, ReturnFalls DEF Return
<1>2. CASE \/ Records \/ NameEnds \/ Question
           \/ \E n \in Byte : NamePart(n)
           \/ \E to \in Word : NamePointer(to)
  BY <1>2, NamesFall
<1>3. CASE \/ Pad \/ \E n \in Byte : Option(n)
           \/ \E n \in Line : Header(n)
           \/ SkipParts \/ Extensions
           \/ \E n \in Word : Extension(n)
  BY <1>3, LoopsFall
<1>4. CASE Dns  BY <1>4, CallFalls DEF Dns, AppAt, Goto
<1>5. CASE Dhcp
  <2>1. pc = "dhcp" /\ (Return \/ pc' = "option")  BY <1>5 DEF Dhcp, AppAt, Goto
  <2> QED  BY <1>1, <2>1, CallFalls
<1>6. ASSUME NEW n, Http(n) PROVE Falls
  BY <1>6, CallFalls DEF Http, AppAt, Goto
<1>7. CASE Tls
  <2>1. pc = "tls" /\ (Return \/ pc' = "session")  BY <1>7 DEF Tls, AppAt, Goto
  <2> QED  BY <1>1, <2>1, CallFalls
<1>8. CASE \/ AppTruncated \/ Answer \/ OptionsEnd \/ NotText \/ HeadersOver \/ NoTls
           \/ ExtensionsEnd \/ Ntp
           \/ \E n \in Line : TextLine(n) \/ Ssh(n)
           \/ \E n, name \in Word : ServerName(n, name)
  BY <1>1, <1>8 DEF AppTruncated, Answer, OptionsEnd, NotText, HeadersOver, NoTls, ExtensionsEnd,
     Ntp, TextLine, Ssh, ServerName
<1> QED  BY <1>2, <1>3, <1>4, <1>5, <1>6, <1>7, <1>8 DEF AppNext

\* Every step of a dissection leaves less to do, whatever the packet's lengths,
\* tags, labels and pointers say, and what is left is counted by natural
\* numbers: so there is no dissection without an end.
THEOREM EveryStepIsProgress == Spec => EveryStepCounts /\ []Numbered
<1>1. IInv /\ TreeInv /\ [Next]_vars => [pc # "done" => Precedes(Remaining', Remaining)]_vars
  <2> SUFFICES ASSUME IInv, TreeInv, [Next]_vars, ~UNCHANGED vars
               PROVE  Falls
    BY DEF Falls
  <2> QED  BY NetworkFalls, AppFalls DEF Next, Finished
<1>2. IInv => Numbered  BY MeasuresAreNumbers
<1> QED  BY <1>1, <1>2, Invariance, TreeInvariance, PTL DEF Spec, EveryStepCounts
=============================================================================
