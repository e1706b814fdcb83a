----------------------------- MODULE MCDissect ------------------------------
(***************************************************************************)
(* Packets cut at and around the borders of the headers, with a span of    *)
(* offsets that the longest ones exceed.                                   *)
(***************************************************************************)
EXTENDS Dissect

Cut(caps, ports) == [cap : caps, ports : ports]

MCFrame ==
    \* headers only, all the ways they nest
    Cut({13, 14, 17, 18, 21, 33, 34, 38, 41, 42, 45, 53, 54, 58, 62}, {{9}})
    \* a few bytes for an application
    \cup Cut({54, 55, 59, 62, 64},
             {{80}, {443}, {443, 53}, {22, 9}, {21, 9}, {587, 25}, {25}, {67}, {123}})
    \cup Cut({54, 55, 66, 70}, {{53, 9}})
    \cup Cut({75, 78}, {{8080, 9}})
    \cup Cut({97, 103, 113}, {{443, 9}, {993, 9}})
    \cup Cut({89, 90}, {{123, 9}})
    \cup Cut({277, 278, 282, 290, 297}, {{67, 68}})

MCByte == {0, 1, 5}
MCWord == {0, 1, 5, 20}
MCLine == {1, 5, 6}
MCNibble == {4, 5, 6}
=============================================================================
