---------------------------- MODULE PacketTable ----------------------------
(***************************************************************************)
(* What the session promises its user: a table whose rows are exactly the  *)
(* captured packets the filter accepts, with a cursor that is on a row     *)
(* whenever there is one.  A packet that arrives never moves the cursor    *)
(* off its row.  The order of the rows is left open.                       *)
(***************************************************************************)
EXTENDS Integers, Sequences

CONSTANTS Packet, Filter, NoFilter

VARIABLES captured,  \* the packets captured so far
          filter,    \* the active filter
          shown,     \* the indices of the captured packets that have a row
          cursor     \* the index of the packet under the cursor, 0 for none

tableVars == <<captured, filter, shown, cursor>>

Passes(f, p) == f = NoFilter \/ p \in f

RowsOf(log, f) == {i \in DOMAIN log : Passes(f, log[i])}

PutCursor(rows) == cursor' \in IF rows = {} THEN {0} ELSE rows

TableInit ==
    /\ captured = <<>>
    /\ filter = NoFilter
    /\ shown = {}
    /\ cursor = 0

\* A whole capture is opened.
Open ==
    /\ captured = <<>>
    /\ captured' \in Seq(Packet)
    /\ shown' = RowsOf(captured', filter)
    /\ PutCursor(shown')
    /\ UNCHANGED filter

\* One more packet: a new last row if it passes; the cursor stays put, and
\* takes the new row only when there was none.
Arrive ==
    /\ \E p \in Packet : captured' = Append(captured, p)
    /\ shown' = shown \cup {i \in {Len(captured) + 1} : Passes(filter, captured'[i])}
    /\ IF shown = {} THEN PutCursor(shown') ELSE cursor' = cursor
    /\ UNCHANGED filter

\* Another filter: the rows are recomputed, the cursor lands on some row.
Refilter ==
    /\ filter' \in Filter \cup {NoFilter}
    /\ shown' = RowsOf(captured, filter')
    /\ PutCursor(shown')
    /\ UNCHANGED captured

\* The cursor moves, because the user moved it or reordered the rows.
Move ==
    /\ cursor' \in shown
    /\ UNCHANGED <<captured, filter, shown>>

TableNext == Open \/ Arrive \/ Refilter \/ Move

TableSpec == TableInit /\ [][TableNext]_tableVars
=============================================================================
