--------------------------- MODULE MCDetailPanel ----------------------------
(***************************************************************************)
(* Panels of one, two and four lines; packets without bytes, without a     *)
(* tree, that fit into some of the panels, and that fit into none.         *)
(***************************************************************************)
EXTENDS DetailPanel

Of(l, f, s) == [layers |-> l, fields |-> f, size |-> s]

MCPacket == {Of(1, 0, 0), Of(1, 0, 13), Of(2, 1, 16), Of(2, 3, 17), Of(3, 4, 80)}
MCHeights == {3, 4, 6}
=============================================================================
