------------------------------- MODULE Dissect -------------------------------
(***************************************************************************)
(* The dissection of one packet, dissect() in DissectorRegistry.cpp, from  *)
(* the first byte to the last call, for every packet there can be; and     *)
(* what the words of a filter then say of it.                              *)
(*                                                                         *)
(* The same dissection runs for a packet that is stored, where only the    *)
(* ParsedPacket is kept, and for one that is selected, where only the tree *)
(* is; so the two must agree, or a filter shows packets whose details say  *)
(* something else.                                                         *)
(***************************************************************************)
EXTENDS NetworkLayers, AppLayers, FilterNodes

Init ==
    /\ raw \in Frame
    /\ pc = "ethernet" /\ arg = "none"
    /\ data = 0 /\ len = raw.cap /\ offset = 0
    /\ pos = 0 /\ ptr = 0 /\ count = 0
    /\ pkt = EmptyPacket
    /\ tree = <<Unset>>
    /\ reads = "within"

\* dissect() has returned.
Finished == pc = "done" /\ UNCHANGED vars

Next == NetworkNext \/ AppNext \/ Finished

Spec == Init /\ [][Next]_vars

-----------------------------------------------------------------------------
AppPlace == {"records", "name", "record", "option", "header", "session", "ciphers",
             "compression", "extensions", "extension"}

Place == DOMAIN Minimum \cup {"route", "labels", "headers", "done"}
         \cup DOMAIN AppMinimum \cup DOMAIN Text \cup {"tls", "ssh"} \cup AppPlace

Argument == EtherType \cup NextHeader
            \cup {"more", "bottom", "both", "question", "answer", "none"}

\* Every variable keeps its type; lengths and places never become negative.
TypeOK ==
    /\ raw \in Frame /\ pc \in Place /\ arg \in Argument
    /\ data \in Nat /\ len \in Nat /\ offset \in 0..OffsetSpan - 1
    /\ pos \in Nat /\ ptr \in Nat /\ count \in Nat
    /\ pkt \in Packet
    /\ tree \in Seq(Layer) /\ tree # <<>>
    /\ reads \in {"within", "beyond"}

\* No dissector reads behind the captured bytes: each checks, with its own
\* arithmetic on len and pos, what it is about to read.
ReadsInside == reads = "within"

\* data and offset are two accounts of the same place.  Every caller computes
\* them by separate expressions (payload and payload_off), and the second wraps;
\* however deep the layers nest, they agree.
OffsetIsPlace == offset = data % OffsetSpan

\* ProtocolTree.h gives a field its offset and length in the packet.  Those of
\* every layer lie in it, but for HTTP, whose headers are given from the line
\* behind; the lengths are partly taken from the packet itself.
FieldsDescribeBytes ==
    \A i \in DOMAIN tree : tree[i].proto # "HTTP" => tree[i].fields # "beyond"

\* Only the innermost layer of a finished tree may lack fields or the name of
\* its protocol, and never as the application inside TCP or UDP: a reader of
\* the tree meets an unnamed Node in this one place.
LayersAreFilled ==
    \A i \in DOMAIN tree :
        pc = "done" /\ tree[i].fields = "none" =>
            /\ i = Len(tree)
            /\ i > 1 => tree[i - 1].proto \notin {"TCP", "UDP"}

Holds(protos) == \E i \in DOMAIN tree : tree[i].proto \in protos /\ tree[i].fields # "none"

\* The addresses, ports and version of the summary come from layers that the
\* tree shows: no filter by address or port accepts a packet for bytes that
\* were taken for something else.
SummaryMatchesLayers ==
    /\ pkt.addressed => Holds({"IPv4", "ARP"})
    /\ pkt.ports # {} => Holds({"TCP", "UDP"})
    /\ pkt.six <=> Holds({"IPv6"})

\* The layers, one of which a packet must have for the word w to accept it.
\* `udp` stands for DNS too, and so for DNS over TCP.
Carriers(w) ==
    CASE w \in {"TCP"} \cup OverTcp      -> {"TCP"}
      [] w = "DNS"                       -> {"TCP", "UDP"}
      [] w = "UDP"                       -> IF 53 \in pkt.ports THEN {"TCP", "UDP"} ELSE {"UDP"}
      [] w \in {"DHCP", "NTP"}           -> {"UDP"}
      [] w = "ICMPv6"                    -> {"IPv6"}
      [] w = "ICMP"                      -> {"IPv4"}
      [] w \in {"VLAN", "MPLS", "IPv6"}  -> {w}
      [] w = "ARP"                       -> {"Ethernet"}

\* A filter of one word accepts only packets that hold what it names, but for
\* a tag or label that was cut off.
AcceptedIsCarried ==
    \A w \in FilterWord :
        pc = "done" /\ ProtoNode(w, pkt) =>
            Holds(Carriers(w)) \/ (w \in {"VLAN", "MPLS"} /\ len < 4)

\* A packet with a complete TCP header is accepted by `tcp`, unless it is DNS.
\* One with a complete UDP header is accepted by `udp`, unless it belongs to an
\* application whose dissector found it too short; it is then shown as whatever
\* the layers around it were.
TransportIsFound ==
    pc = "done" =>
        /\ Holds({"TCP"}) => ProtoNode("TCP", pkt) \/ 53 \in pkt.ports
        /\ Holds({"UDP"}) =>
              \/ ProtoNode("UDP", pkt)
              \/ \E i \in Matches(UdpServices, pkt.ports) :
                    len < AppMinimum[UdpServices[i].app]

-----------------------------------------------------------------------------
(* Why a dissection ends. *)

Minus(m, n) == IF n <= m THEN m - n ELSE 0

\* What is left to do.  Calls go one way only,
Phase ==
    CASE pc = "ethernet"                          -> 7
      [] pc \in {"route", "labels"}               -> 6
      [] pc \in {"arp", "ipv4", "ipv6"}           -> 5
      [] pc = "headers"                           -> 4
      [] pc \in {"icmp", "icmpv6", "tcp", "udp"}  -> 3
      [] pc \in AppPlace                          -> 1
      [] pc = "done"                              -> 0
      [] OTHER                                    -> 2

\* each loop around others by what is shorter or fewer in every round,
NamesLeft == CASE arg = "both" -> 2 [] arg \in {"question", "answer"} -> 1 [] OTHER -> 0

Rounds ==
    CASE pc \in {"route", "labels", "headers"}  -> len
      [] pc = "records"                         -> 3 * NamesLeft + 2
      [] pc = "name"                            -> 3 * NamesLeft + 1
      [] pc = "record"                          -> 3 * NamesLeft
      [] pc = "header"                          -> Minus(16, count)
      [] pc = "session"                         -> 4
      [] pc = "ciphers"                         -> 3
      [] pc = "compression"                     -> 2
      [] pc = "extensions"                      -> 1
      [] OTHER                                  -> 0

\* pointers in names by their number, and the rest by the bytes ahead.
Pointers == IF pc = "name" THEN Minus(11, count) ELSE 0

Ahead ==
    CASE pc = "route"                             -> len + 1
      [] pc \in {"labels", "option", "extension"} -> Minus(len, pos)
      [] pc = "name"                              -> Minus(len, ptr)
      [] OTHER                                    -> 0

Remaining == <<Phase, Rounds, Pointers, Ahead>>

\* The order of a dictionary.
Precedes(a, b) == \E i \in 1..4 : a[i] < b[i] /\ \A j \in 1..i - 1 : a[j] = b[j]

\* Every packet is dissected in a finite number of steps, whatever pointers,
\* lengths and tags it has; the capture thread and the user wait for it.  No step
\* but the last is without a successor, and every step leaves less to do, in a
\* measure that cannot go on to fall for ever: a length of zero, a stack of labels
\* without one, a pointer back or to itself, nothing takes a loop round for free.
EveryStepCounts == [][pc # "done" => Precedes(Remaining', Remaining)]_vars
=============================================================================
