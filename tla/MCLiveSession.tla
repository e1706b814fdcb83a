--------------------------- MODULE MCLiveSession ----------------------------
(* A small instance of LiveSession for TLC. *)
EXTENDS LiveSession, TLC

CONSTANTS p1, p2

\* Packets that arrived within the same microsecond.
MCKey == [f \in SortField |-> (p1 :> 1 @@ p2 :> 1)]

MCFilter == {{p1}, {}}
=============================================================================
