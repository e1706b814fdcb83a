---------------------------- MODULE FilterNodes -----------------------------
(***************************************************************************)
(* What the words of a filter say of a packet (ProtoNode, FilterNodes.h):  *)
(* a word stands for a family of protocols, and only top_proto is asked.   *)
(***************************************************************************)
\* The protocols a filter can name; the parser makes no ProtoNode of IPv4.
FilterWord == {"TCP", "UDP", "DNS", "HTTP", "HTTPS", "TLS", "ICMP", "ICMPv6", "ARP", "IPv6",
         "SSH", "FTP", "SMTP", "NTP", "DHCP", "VLAN", "MPLS"}

\* Mutant of OverTcp: an application is forgotten.
OverTcpWithoutSmtp == {"HTTP", "HTTPS", "TLS", "SSH", "FTP"}

OverTcp == {"HTTP", "HTTPS", "TLS", "SSH", "FTP", "SMTP"}
OverUdp == {"DNS", "DHCP", "NTP"}

\* Mutant of Family: DNS for both.
FamilyOfBoth == [w \in FilterWord |->
    {w} \cup CASE w = "TCP"  -> OverTcp \cup {"DNS"}
              [] w = "UDP"  -> OverUdp
              [] w = "IPv6" -> {"ICMPv6"}
              [] OTHER      -> {}]

Family == [w \in FilterWord |->
    {w} \cup CASE w = "TCP"  -> OverTcp
              [] w = "UDP"  -> OverUdp
              [] w = "IPv6" -> {"ICMPv6"}
              [] OTHER      -> {}]

ProtoNode(w, p) == p.top \in Family[w]
=============================================================================
