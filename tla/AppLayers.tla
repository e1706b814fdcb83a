----------------------------- MODULE AppLayers ------------------------------
(***************************************************************************)
(* What is inside TCP and UDP (AppDissectors.cpp): DNS, DHCP, HTTP, TLS,   *)
(* SSH, FTP, SMTP and NTP.  Their caller keeps the layer only if it got a  *)
(* field.                                                                  *)
(***************************************************************************)
EXTENDS Layers

Front == SubSeq(tree, 1, Len(tree) - 1)

\* The dissectors that give up on fewer bytes, and leave the packet as it is.
AppMinimum == [dns |-> 12, dhcp |-> 236, ntp |-> 48]

\* Mutant of AppTruncated: the layer stays, with nothing in it.
AppTruncatedKept ==
    /\ pc \in DOMAIN AppMinimum /\ len < AppMinimum[pc]
    /\ Return
    /\ UNCHANGED <<raw, pkt, tree, reads>>

AppTruncated ==
    /\ pc \in DOMAIN AppMinimum /\ len < AppMinimum[pc]
    /\ tree' = Front
    /\ Return
    /\ UNCHANGED <<raw, pkt, reads>>

AppAt(dissector) ==
    /\ pc = dissector
    /\ dissector \in DOMAIN AppMinimum => len >= AppMinimum[dissector]
    /\ UNCHANGED raw

Within(dissector) == pc = dissector /\ UNCHANGED <<raw, pkt>>

-----------------------------------------------------------------------------
(* dissect_dns(): the header, then a name and a record for the question    *)
(* and for the answer.                                                     *)

Dns ==
    /\ AppAt("dns")
    /\ Reads(12)
    /\ Is("DNS")
    /\ tree' = Filled("DNS", 8)
    /\ arg' \in {"both", "question", "answer", "none"}
    /\ Goto("records")
    /\ pos' = 12 /\ UNCHANGED <<ptr, count>>

Records ==
    /\ Within("records")
    /\ IF arg # "none" /\ pos < len
       THEN /\ Goto("name") /\ ptr' = pos /\ count' = 0
            /\ UNCHANGED <<pos, arg>>
       ELSE Return
    /\ UNCHANGED <<tree, reads>>

(* dns_decode_name(): ptr walks, in count calls within each other; pos     *)
(* stays with it until the first pointer.                                  *)
Outermost(n) == pos' = IF count = 0 THEN n ELSE pos

\* The walk is over: at the end of the packet, too deep, at the end of the
\* name, or at a pointer or label that is not all there.
NameEnds ==
    /\ Within("name")
    /\ \/ (ptr >= len \/ count > 10) /\ UNCHANGED <<pos, reads>>
       \/ /\ ptr < len /\ count <= 10
          /\ Reads(ptr + 1)
          /\ \/ Outermost(ptr + 1)
             \/ ptr + 1 >= len /\ UNCHANGED pos
    /\ Goto("record")
    /\ UNCHANGED <<arg, ptr, count, tree>>

NamePart(n) ==
    /\ Within("name") /\ n \in 1..191
    /\ count <= 10 /\ ptr + 1 + n <= len
    /\ Reads(ptr + 1 + n)
    /\ ptr' = ptr + 1 + n /\ Outermost(ptr + 1 + n)
    /\ Goto("name")
    /\ UNCHANGED <<arg, count, tree>>

\* Mutant of NamePointer: no limit to the depth.
NamePointerUncounted(to) ==
    /\ Within("name") /\ to < 64 * 256
    /\ count <= 10 /\ ptr + 1 < len
    /\ Reads(ptr + 2)
    /\ ptr' = to /\ Outermost(ptr + 2)
    /\ Goto("name")
    /\ count' = IF count = 0 THEN 1 ELSE count
    /\ UNCHANGED <<arg, tree>>

NamePointer(to) ==
    /\ Within("name") /\ to < 64 * 256
    /\ count <= 10 /\ ptr + 1 < len
    /\ Reads(ptr + 2)
    /\ ptr' = to /\ Outermost(ptr + 2)
    /\ Goto("name") /\ count' = count + 1
    /\ UNCHANGED <<arg, tree>>

\* Behind the name of the question are four bytes, if they are there.
Question ==
    /\ Within("record") /\ arg \in {"both", "question"}
    /\ IF pos + 4 <= len
       THEN pos' = pos + 4 /\ Reads(pos + 4) /\ tree' = Described(pos + 4)
       ELSE UNCHANGED <<pos, reads, tree>>
    /\ arg' = IF arg = "both" THEN "answer" ELSE "none"
    /\ Goto("records")
    /\ UNCHANGED <<ptr, count>>

\* Behind that of the answer ten, and four of an address.
Answer ==
    /\ Within("record") /\ arg = "answer"
    /\ \/ pos + 10 > len /\ UNCHANGED <<reads, tree>>
       \/ pos + 10 <= len /\ Reads(pos + 10) /\ tree' = Described(pos + 8)
       \/ pos + 14 <= len /\ Reads(pos + 14) /\ tree' = Described(pos + 14)
    /\ Return

-----------------------------------------------------------------------------
\* dissect_dhcp(): the fixed header, and options behind the magic cookie.
Dhcp ==
    /\ AppAt("dhcp")
    /\ Is("DHCP")
    /\ tree' = Filled("DHCP", 34)
    /\ \/ Reads(IF len < 240 THEN 34 ELSE 240) /\ Return
       \/ /\ len >= 240
          /\ Reads(240)
          /\ pos' = 240 /\ UNCHANGED <<ptr, count, arg>>
          /\ Goto("option")

Pad ==
    /\ Within("option") /\ pos < len
    /\ Reads(pos + 1)
    /\ pos' = pos + 1
    /\ Goto("option")
    /\ UNCHANGED <<arg, ptr, count, tree>>

\* An option of n bytes; those of interest have one or four.
Option(n) ==
    /\ Within("option") /\ pos + 1 < len /\ pos + 2 + n <= len
    /\ \/ Reads(pos + 2) /\ UNCHANGED tree
       \/ \E f \in {1, 4} :
             /\ n = f \/ (f = 4 /\ n > 4)
             /\ Reads(pos + 2 + f)
             /\ tree' = Described(pos + 2 + f)
    /\ pos' = pos + 2 + n
    /\ Goto("option")
    /\ UNCHANGED <<arg, ptr, count>>

\* The end: of the packet, as the option 255, or in an option cut off.
OptionsEnd ==
    /\ Within("option")
    /\ \/ pos >= len /\ UNCHANGED reads
       \/ pos < len /\ Reads(pos + 1)
       \/ pos + 1 < len /\ (\E n \in Byte : pos + 2 + n > len) /\ Reads(pos + 2)
    /\ Return
    /\ UNCHANGED tree

-----------------------------------------------------------------------------
Text == [http |-> "HTTP", ftp |-> "FTP", smtp |-> "SMTP"]

\* A payload that does not begin with a printable character.
NotText ==
    /\ pc \in DOMAIN Text
    /\ Reads(IF len = 0 THEN 0 ELSE 1)
    /\ Is(Text[pc])
    /\ tree' = Front
    /\ Return
    /\ UNCHANGED raw

\* dissect_ftp(), dissect_smtp(): the first line is n bytes without its end.
TextLine(n) ==
    /\ pc \in {"ftp", "smtp"} /\ n <= len
    /\ Reads(n)
    /\ Is(Text[pc])
    /\ tree' = Filled(Text[pc], n)
    /\ Return
    /\ UNCHANGED raw

\* dissect_http(): the first line is n bytes with its end.  A response has a
\* version; its field is eight bytes long if it is "HTTP/".
Http(n) ==
    /\ AppAt("http") /\ n <= len
    /\ Reads(n)
    /\ Is("HTTP")
    /\ \/ tree' = Filled("HTTP", n)
       \/ n \in 6..7 /\ tree' = Filled("HTTP", 8)
    /\ pos' = n /\ UNCHANGED <<arg, ptr, count>>
    /\ Goto("header")

\* A line of n bytes, of which the last ones, two at most, are its end.  The
\* field of a header of interest is given from where the next line begins.
Header(n) ==
    /\ Within("header") /\ count < 16 /\ pos + n <= len
    /\ Reads(pos + n)
    /\ \/ UNCHANGED tree
       \/ \E ended \in 0..2 :
             /\ n - ended >= 5 /\ (ended = 0 => pos + n = len)
             /\ tree' = Described(pos + n + n - ended)
    /\ pos' = pos + n /\ count' = count + 1
    /\ Goto("header")
    /\ UNCHANGED <<arg, ptr>>

\* Enough headers, no more bytes, or a line that is no header.
HeadersOver ==
    /\ Within("header")
    /\ \/ (pos >= len \/ count >= 16) /\ UNCHANGED reads
       \/ \E n \in Line : pos + n <= len /\ count < 16 /\ Reads(pos + n)
    /\ Return
    /\ UNCHANGED tree

-----------------------------------------------------------------------------
Secure == IF 443 \in pkt.ports THEN "HTTPS" ELSE "TLS"

\* dissect_tls() of what is no record: too short, or of no version 3.
NoTls ==
    /\ AppAt("tls")
    /\ \/ len < 5 /\ Is(Secure) /\ UNCHANGED reads
       \/ len >= 5 /\ Is("TLS") /\ Reads(5)
    /\ tree' = Front
    /\ Return

\* A record, a handshake, or one that is a ClientHello.
Tls ==
    /\ AppAt("tls") /\ len >= 5
    /\ Is(Secure)
    /\ \/ Reads(5) /\ tree' = Filled("TLS", 5) /\ Return
       \/ /\ len >= 6
          /\ Reads(6) /\ tree' = Filled("TLS", 6)
          /\ \/ Return
             \/ /\ len >= 43
                /\ pos' = 43 /\ UNCHANGED <<ptr, count, arg>>
                /\ Goto("session")

\* What is behind its random bytes: a part of n bytes after a length, which is
\* of some bytes itself.  pos may leave the packet here.
SkipPart(part, width, n, next) ==
    /\ Within(part)
    /\ IF pos + width <= len
       THEN Reads(pos + width) /\ pos' = pos + width + n
       ELSE UNCHANGED <<reads, pos>>
    /\ Goto(next)
    /\ UNCHANGED <<arg, ptr, count, tree>>

SkipParts ==
    \/ \E n \in Byte : SkipPart("session", 1, n, "ciphers")
    \/ \E n \in Word : SkipPart("ciphers", 2, n, "compression")
    \/ \E n \in Byte : SkipPart("compression", 1, n, "extensions")

Extensions ==
    /\ Within("extensions")
    /\ IF pos + 2 <= len
       THEN /\ Reads(pos + 2)
            /\ pos' = pos + 2 /\ \E total \in Word : ptr' = pos + 2 + total
            /\ UNCHANGED <<count, arg>>
            /\ Goto("extension")
       ELSE Return /\ UNCHANGED reads
    /\ UNCHANGED tree

MoreExtensions == pos + 4 <= len /\ pos < ptr

Extension(n) ==
    /\ Within("extension") /\ MoreExtensions
    /\ Reads(pos + 4)
    /\ pos' = pos + 4 + n
    /\ Goto("extension")
    /\ UNCHANGED <<arg, ptr, count, tree>>

\* Mutant of ServerName: the length of the name is trusted.
ServerNameTrusted(n, name) ==
    /\ Within("extension") /\ MoreExtensions
    /\ n >= 5 /\ pos + 4 + n <= len
    /\ Reads(pos + 9 + name) /\ tree' = Described(pos + 9 + name)
    /\ Return

\* The extension with the name of the server ends the search.
ServerName(n, name) ==
    /\ Within("extension") /\ MoreExtensions
    /\ n >= 5 /\ pos + 4 + n <= len
    /\ IF pos + 9 + name <= len
       THEN Reads(pos + 9 + name) /\ tree' = Described(pos + 9 + name)
       ELSE Reads(pos + 9) /\ UNCHANGED tree
    /\ Return

ExtensionsEnd ==
    /\ Within("extension") /\ ~MoreExtensions
    /\ Return
    /\ UNCHANGED <<tree, reads>>

-----------------------------------------------------------------------------
\* dissect_ssh(): a version string of n bytes, a packet, or too little of one.
Ssh(n) ==
    /\ AppAt("ssh")
    /\ Is("SSH")
    /\ \/ n \in 4..len /\ Reads(n) /\ tree' = Filled("SSH", n)
       \/ len >= 6 /\ Reads(6) /\ tree' = Filled("SSH", 6)
       \/ len < 6 /\ tree' = Front /\ UNCHANGED reads
    /\ Return

\* dissect_ntp()
Ntp ==
    /\ AppAt("ntp")
    /\ Reads(48)
    /\ Is("NTP")
    /\ \E last \in {16, 48} : tree' = Filled("NTP", last)
    /\ Return

-----------------------------------------------------------------------------
AppNext ==
    \/ AppTruncated
    \/ Dns \/ Records \/ NameEnds \/ Question \/ Answer
    \/ \E n \in Byte : NamePart(n)
    \/ \E to \in Word : NamePointer(to)
    \/ Dhcp \/ Pad \/ OptionsEnd
    \/ \E n \in Byte : Option(n)
    \/ NotText
    \/ \E n \in Line : Http(n) \/ TextLine(n) \/ Header(n) \/ Ssh(n)
    \/ HeadersOver
    \/ NoTls \/ Tls \/ SkipParts \/ Extensions \/ ExtensionsEnd
    \/ \E n \in Word : Extension(n)
    \/ \E n, name \in Word : ServerName(n, name)
    \/ Ntp
=============================================================================
