--------------------------- MODULE NetworkLayers ----------------------------
(***************************************************************************)
(* From the frame to the ports: Ethernet with VLAN tags and MPLS labels,   *)
(* ARP, IPv4, IPv6 with its extension headers, ICMP, TCP and UDP.  None of *)
(* them looks at the lengths the headers announce for their payload: a     *)
(* layer gets all that was captured behind the one around it.              *)
(***************************************************************************)
EXTENDS Layers

EtherType == {"ipv4", "ipv6", "arp", "vlan", "mpls", "other"}
NextHeader == {"tcp", "udp", "icmpv6", "options", "fragment", "other"}

\* The dissectors that give up when fewer than this many bytes are left, and
\* then leave packet and layer as they are.
Minimum == [ethernet |-> 14, arp |-> 8, ipv4 |-> 20, ipv6 |-> 40, icmp |-> 4, icmpv6 |-> 4,
            tcp |-> 20, udp |-> 8]

Truncated ==
    /\ pc \in DOMAIN Minimum /\ len < Minimum[pc]
    /\ Return
    /\ UNCHANGED <<raw, pkt, tree, reads>>

At(dissector) == pc = dissector /\ len >= Minimum[dissector] /\ UNCHANGED raw

-----------------------------------------------------------------------------
\* dissect_ethernet()
Ethernet ==
    /\ At("ethernet")
    /\ Reads(14)
    /\ tree' = Filled("Ethernet", 14)
    /\ arg' \in EtherType
    /\ Pass("route", data + 14, len - 14, offset + 14)
    /\ UNCHANGED pkt

\* route_ethertype() of a network protocol.
RouteNetwork ==
    /\ pc = "route" /\ arg \in {"ipv4", "ipv6", "arp"}
    /\ Pass(arg, data, len, offset)
    /\ arg' = "none"
    /\ tree' = WithChild(tree)
    /\ UNCHANGED <<raw, pkt, reads>>

RouteOther ==
    /\ pc = "route" /\ arg = "other"
    /\ Is("Unknown")
    /\ Return
    /\ UNCHANGED <<raw, tree, reads>>

\* A tag or label that is not all there gives its name to the packet, but no
\* layer.
RouteTruncated ==
    /\ pc = "route" /\ arg \in {"vlan", "mpls"} /\ len < 4
    /\ Is(IF arg = "vlan" THEN "VLAN" ELSE "MPLS")
    /\ Return
    /\ UNCHANGED <<raw, tree, reads>>

\* The layer of a tag or of the labels is made here, not by another dissector.
OwnLayer(p, fields) == Append(tree, [proto |-> p, fields |-> fields])

\* What is inside may be another one, but for the bound.
Inner == IF Len(tree) < MaxTags THEN EtherType ELSE EtherType \ {"vlan", "mpls"}

\* A VLAN tag, around what its inner ethertype says.
Vlan ==
    /\ pc = "route" /\ arg = "vlan" /\ len >= 4
    /\ Reads(4)
    /\ tree' = OwnLayer("VLAN", Extent(4))
    /\ Is("VLAN")
    /\ arg' \in Inner
    /\ Pass("route", data + 4, len - 4, offset + 4)
    /\ UNCHANGED raw

Mpls ==
    /\ pc = "route" /\ arg = "mpls" /\ len >= 4
    /\ tree' = OwnLayer("MPLS", "none")
    /\ Goto("labels") /\ arg' = "more"
    /\ UNCHANGED <<raw, loopVars, pkt, reads>>

\* Mutant of MoreLabels: a label is read wherever a byte is left.
MoreLabelsOfAnySize == pos < len /\ arg = "more" /\ count < 8

\* The loop over the labels goes on: there is room, and the bottom of the
\* stack was not reached within eight.
MoreLabels == pos + 4 <= len /\ arg = "more" /\ count < 8

Label ==
    /\ pc = "labels" /\ MoreLabels
    /\ Reads(pos + 4)
    /\ tree' = Described(pos + 4)
    /\ Goto("labels") /\ arg' \in {"more", "bottom"}
    /\ pos' = pos + 4 /\ count' = count + 1
    /\ UNCHANGED <<raw, ptr, pkt>>

\* Behind the labels the first four bits tell what follows.
Unlabelled ==
    /\ pc = "labels" /\ ~MoreLabels
    /\ Is("MPLS")
    /\ \/ /\ pos = len
          /\ Return /\ UNCHANGED reads
       \/ /\ pos < len
          /\ Reads(pos + 1)
          /\ Return
       \/ /\ pos < len
          /\ Reads(pos + 1)
          /\ arg' \in {"ipv4", "ipv6"}
          /\ Pass("route", data + pos, len - pos, offset + pos)
    /\ UNCHANGED <<raw, tree>>

-----------------------------------------------------------------------------
\* dissect_arp(): s is hlen + plen.
Arp(s) ==
    /\ At("arp")
    /\ IF len < 8 + 2 * s
       THEN /\ Reads(8)
            /\ tree' = Named("ARP")
            /\ Is("ARP")
       ELSE \/ /\ Reads(8)
               /\ tree' = Filled("ARP", 8)
               /\ Is("ARP")
            \/ /\ s = 6 + 4
               /\ Reads(28)
               /\ tree' = Filled("ARP", 28)
               /\ pkt' = [pkt EXCEPT !.top = "ARP", !.addressed = TRUE]
    /\ Return

\* dissect_ipv4() of a header that is too short or longer than the packet.
IPv4BadHeader(ihl) ==
    /\ At("ipv4") /\ (ihl < 5 \/ 4 * ihl > len)
    /\ Reads(1)
    /\ tree' = Named("IPv4")
    /\ Return
    /\ UNCHANGED pkt

\* Its header is read; what follows is passed on from the place given or unknown.
IPv4Header(payload, left, off) ==
    /\ Reads(20)
    /\ \/ /\ pkt' = [pkt EXCEPT !.addressed = TRUE]
          /\ arg' = "none"
          /\ \E p \in {"tcp", "udp", "icmp"} : Pass(p, payload, left, off)
          /\ tree' = WithChild(Filled("IPv4", 20))
       \/ /\ pkt' = [pkt EXCEPT !.addressed = TRUE, !.top = "IPv4"]
          /\ tree' = Filled("IPv4", 20)
          /\ Return

\* Mutant of IPv4: the offset of the payload forgets the options.
IPv4OptionsForgotten(ihl) ==
    /\ At("ipv4") /\ ihl >= 5 /\ 4 * ihl <= len
    /\ IPv4Header(data + 4 * ihl, Behind(4 * ihl), offset + 20)

IPv4(ihl) ==
    /\ At("ipv4") /\ ihl >= 5 /\ 4 * ihl <= len
    /\ IPv4Header(data + 4 * ihl, Behind(4 * ihl), offset + 4 * ihl)

\* Mutant of IPv6: the packet is not marked as one of IPv6.
IPv6Unmarked ==
    /\ At("ipv6")
    /\ Reads(40)
    /\ tree' = Filled("IPv6", 40)
    /\ pkt' = [pkt EXCEPT !.top = "IPv6", !.addressed = FALSE]
    /\ arg' \in NextHeader
    /\ Pass("headers", data + 40, Behind(40), offset + 40)

\* dissect_ipv6()
IPv6 ==
    /\ At("ipv6")
    /\ Reads(40)
    /\ tree' = Filled("IPv6", 40)
    /\ pkt' = [pkt EXCEPT !.top = "IPv6", !.six = TRUE, !.addressed = FALSE]
    /\ arg' \in NextHeader
    /\ Pass("headers", data + 40, Behind(40), offset + 40)

\* The walk over extension headers ends in a protocol,
UpperLayer ==
    /\ pc = "headers" /\ len > 0 /\ arg \in {"tcp", "udp", "icmpv6"}
    /\ Pass(arg, data, len, offset)
    /\ arg' = "none"
    /\ tree' = WithChild(tree)
    /\ UNCHANGED <<raw, pkt, reads>>

\* Mutant of ExtensionHeader: the length it claims is not checked.
ExtensionHeaderTrusted(n) ==
    /\ pc = "headers" /\ 8 <= len
    /\ arg = "options" \/ (arg = "fragment" /\ n = 1)
    /\ Reads(2)
    /\ arg' \in NextHeader
    /\ Pass("headers", data + 8 * n, len - 8 * n, offset + 8 * n)
    /\ UNCHANGED <<raw, pkt, tree>>

\* goes on behind a header of n times eight bytes, a length that is cut to the
\* width of the offset before it is added,
ExtensionHeader(n) ==
    /\ pc = "headers" /\ 8 * n <= len
    /\ arg = "options" \/ (arg = "fragment" /\ n = 1)
    /\ Reads(2)
    /\ arg' \in NextHeader
    /\ Pass("headers", data + 8 * n, len - 8 * n, offset + ((8 * n) % OffsetSpan))
    /\ UNCHANGED <<raw, pkt, tree>>

\* or stops: no bytes, no header known, or one that is not all there.
HeadersEnd ==
    /\ pc = "headers"
    /\ \/ /\ len = 0 \/ arg = "other" \/ (arg \in {"options", "fragment"} /\ len < 8)
          /\ UNCHANGED reads
       \/ /\ arg = "options" /\ len >= 8
          /\ \E b \in Byte : 8 * (b + 1) > len
          /\ Reads(2)
    /\ Return
    /\ UNCHANGED <<raw, pkt, tree>>

-----------------------------------------------------------------------------
\* dissect_icmp(): echoes have two more fields, errors quote the packet.
Icmp ==
    /\ At("icmp")
    /\ Is("ICMP")
    /\ \/ Reads(4) /\ tree' = Filled("ICMP", 4)
       \/ len >= 8 /\ Reads(8) /\ tree' = Filled("ICMP", 8)
       \/ len >= 8 /\ Reads(4) /\ tree' = Filled("ICMP", len)
    /\ Return

\* dissect_icmpv6(): echoes, and neighbours with an address.
Icmpv6 ==
    /\ At("icmpv6")
    /\ Is("ICMPv6")
    /\ \E n \in {4} \cup {m \in {8, 24} : len >= m} :
          Reads(n) /\ tree' = Filled("ICMPv6", n)
    /\ Return

-----------------------------------------------------------------------------
(* The ports decide what is inside TCP and UDP, the first match wins.  A   *)
(* segment without payload is given the protocol of its port.              *)

TcpServices == <<
    [ports |-> {80, 8080, 8000},           app |-> "http", empty |-> "HTTP"],
    [ports |-> {443, 8443},                app |-> "tls",  empty |-> "HTTPS"],
    [ports |-> {993, 465, 587, 990, 636},  app |-> "tls",  empty |-> "TLS"],
    [ports |-> {53},                       app |-> "dns",  empty |-> "DNS"],
    [ports |-> {22},                       app |-> "ssh",  empty |-> "SSH"],
    [ports |-> {21},                       app |-> "ftp",  empty |-> "FTP"],
    [ports |-> {25, 587, 2525},            app |-> "smtp", empty |-> "SMTP"] >>

UdpServices == <<
    [ports |-> {53},     app |-> "dns",  empty |-> "DNS"],
    [ports |-> {67, 68}, app |-> "dhcp", empty |-> "DHCP"],
    [ports |-> {123},    app |-> "ntp",  empty |-> "NTP"] >>

Matches(services, ports) == {i \in DOMAIN services : services[i].ports \cap ports # {}}

\* The part of both that chooses; t is the tree with the header in it, and the
\* payload is given by its place, its length and its offset.
Serve(services, plain, payload, left, off, t) ==
    LET found == Matches(services, raw.ports)
        ported == [pkt EXCEPT !.ports = raw.ports]
    IN  \/ /\ found = {}
           /\ pkt' = [ported EXCEPT !.top = plain]
           /\ Return
           /\ tree' = t
        \/ \E i \in found :
           /\ \A j \in found : i <= j
           /\ IF left = 0
              THEN /\ pkt' = [ported EXCEPT !.top = services[i].empty]
                   /\ Return
                   /\ tree' = t
              ELSE /\ pkt' = ported
                   /\ arg' = "none"
                   /\ Pass(services[i].app, payload, left, off)
                   /\ tree' = WithChild(t)

\* dissect_tcp() of a header that is too short or longer than the packet.
TcpBadHeader(words) ==
    /\ At("tcp") /\ (words < 5 \/ 4 * words > len)
    /\ Reads(13)
    /\ tree' = Named("TCP")
    /\ Return
    /\ UNCHANGED pkt

\* Otherwise its fields are the header and its options, or reach to the end
\* of a payload that no other dissector takes.
Tcp(words) ==
    LET header == 4 * words
        plain  == Matches(TcpServices, raw.ports) = {}
    IN  /\ At("tcp") /\ words >= 5 /\ header <= len
        /\ Reads(20)
        /\ Serve(TcpServices, "TCP", data + header, Behind(header), offset + header,
                 Filled("TCP", IF plain THEN len ELSE header))

\* dissect_udp()
Udp ==
    /\ At("udp") /\ Reads(8)
    /\ Serve(UdpServices, "UDP", data + 8, Behind(8), offset + 8, Filled("UDP", 8))

-----------------------------------------------------------------------------
NetworkNext ==
    \/ Truncated \/ Ethernet
    \/ RouteNetwork \/ RouteOther \/ RouteTruncated \/ Vlan \/ Mpls \/ Label \/ Unlabelled
    \/ \E h, p \in Byte : Arp(h + p)
    \/ \E n \in Nibble : IPv4BadHeader(n) \/ IPv4(n) \/ TcpBadHeader(n) \/ Tcp(n)
    \/ IPv6 \/ UpperLayer \/ HeadersEnd
    \/ \E b \in Byte : ExtensionHeader(b + 1)
    \/ Icmp \/ Icmpv6 \/ Udp
=============================================================================
