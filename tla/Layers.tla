------------------------------- MODULE Layers -------------------------------
(***************************************************************************)
(* What the dissectors (dissectors/*.cpp) share: the call in progress, the *)
(* flat packet they fill (ParsedPacket) and the tree of layers they build. *)
(*                                                                         *)
(* A dissection is one chain of calls, each with the rest of the packet,   *)
(* and a layer has at most one layer inside; so the tree is a sequence, a  *)
(* layer is on it from the call that fills it on, and what a caller does   *)
(* after the call is only to keep or drop the layer.  The bytes themselves *)
(* are arbitrary: a step chooses what it finds where it reads, and all     *)
(* places and lengths are numbers.                                         *)
(***************************************************************************)
EXTENDS Integers, Sequences

CONSTANTS Frame,       \* the packets: what was captured, and which ports it has
          OffsetSpan,  \* 2^16: offsets are uint16_t
          Nibble,      \* header lengths in words
          Byte,        \* values of a byte that is a length
          Word,        \* values of two
          Line,        \* lengths of lines of text
          MaxTags      \* bound: VLAN tags and MPLS stacks around each other

PortNumber == 0..65535

ASSUME FrameAssumption ==
    \A f \in Frame : f.cap \in Nat /\ f.ports # {} /\ f.ports \subseteq PortNumber

ASSUME LayersAssumption ==
    /\ OffsetSpan \in Nat \ {0}
    /\ Nibble \subseteq Nat /\ Byte \subseteq Nat /\ Word \subseteq Nat
    /\ Line \subseteq Nat \ {0} /\ MaxTags \in Nat

VARIABLES raw,     \* the packet
          pc,      \* the dissector at work, or a loop in it
          arg,     \* what it goes by: an ethertype, a next header, what is left
          data,    \* its argument data, as a place in the packet
          len,     \* its argument len
          offset,  \* its argument offset
          pos,     \* its local pos
          ptr,     \* a second position of a loop in it
          count,   \* rounds of a loop, or calls of it within each other
          pkt,     \* the ParsedPacket
          tree,    \* the layers, the root first
          reads    \* whether only captured bytes were read (history)

callVars == <<data, len, offset>>
loopVars == <<pos, ptr, count>>
vars == <<raw, pc, arg, callVars, loopVars, pkt, tree, reads>>

\* The layers the root may hold, from the outside in; "unset" is a Node whose
\* protocol nobody assigned.
Proto == {"unset", "Ethernet", "VLAN", "MPLS", "ARP", "IPv4", "IPv6", "ICMP", "ICMPv6",
          "TCP", "UDP", "DNS", "DHCP", "NTP", "HTTP", "TLS", "SSH", "FTP", "SMTP"}

\* top_proto says HTTPS for TLS on port 443.
TopProto == (Proto \ {"unset", "Ethernet"}) \cup {"Unknown", "HTTPS"}

\* ParsedPacket: addressed says that src_ip and dst_ip are from a header, ports
\* are those of src_port and dst_port that are.
Packet == [top : TopProto, addressed : BOOLEAN, ports : SUBSET PortNumber, six : BOOLEAN]

EmptyPacket == [top |-> "Unknown", addressed |-> FALSE, ports |-> {}, six |-> FALSE]

\* A layer: its protocol, and whether it has no fields, fields that all lie in
\* the packet, or a field that reaches beyond it.
Layer == [proto : Proto, fields : {"none", "within", "beyond"}]

Unset == [proto |-> "unset", fields |-> "none"]

-----------------------------------------------------------------------------
\* Where the first n bytes of the layer end, or were read to.
Extent(n) == IF data + n <= raw.cap THEN "within" ELSE "beyond"

Reads(n) == reads' = IF reads = "beyond" THEN reads ELSE Extent(n)

\* The layer at work is called p and has no fields,
Named(p) == [tree EXCEPT ![Len(tree)] = [proto |-> p, fields |-> "none"]]

\* or fields that end at n.
Filled(p, n) == [tree EXCEPT ![Len(tree)] = [proto |-> p, fields |-> Extent(n)]]

\* More of its fields: they end at n or further on.
Described(n) ==
    [tree EXCEPT ![Len(tree)].fields = IF @ = "beyond" THEN @ ELSE Extent(n)]

\* What is left behind a header of n bytes, where the code guards against less.
Behind(n) == IF len > n THEN len - n ELSE 0

\* A call of the next dissector: pointer, length and offset are three arguments,
\* each with an expression of the caller's, and the last is cut to its width.
Pass(next, payload, left, off) ==
    /\ pc' = next
    /\ data' = payload /\ len' = left /\ offset' = off % OffsetSpan
    /\ pos' = 0 /\ ptr' = 0 /\ count' = 0

\* Node child: a layer inside those of t.
WithChild(t) == Append(t, Unset)

\* The dissector returns, and so do its callers, which do nothing more.
Return == pc' = "done" /\ arg' = "none" /\ UNCHANGED <<callVars, loopVars>>

\* The dissector goes on with another part of its work.
Goto(next) == pc' = next /\ UNCHANGED callVars

Is(p) == pkt' = [pkt EXCEPT !.top = p]
=============================================================================
