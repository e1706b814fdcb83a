--------------------------- MODULE MCSessionModel ---------------------------
(* Small instances of SessionModel for TLC. *)
EXTENDS SessionModel, TLC

CONSTANTS p1, p2, p3

MCKey == [f \in SortField |->
            CASE f = "Time"     -> (p1 :> 1 @@ p2 :> 2 @@ p3 :> 2)
              [] f = "Size"     -> (p1 :> 2 @@ p2 :> 1 @@ p3 :> 2)
              [] f = "Protocol" -> (p1 :> 1 @@ p2 :> 1 @@ p3 :> 0)]

MCFilter == {{p1, p3}, {}}

MCExpr == {"few", "none", "bad"}

MCParse == [e \in MCExpr |-> CASE e = "few"  -> {p1, p3}
                               [] e = "none" -> {}
                               [] OTHER      -> Malformed]
=============================================================================
