----------------------------- MODULE ListPanel -----------------------------
(***************************************************************************)
(* The packet list of the user interface (PacketListPanel.cpp): which rows *)
(* of the view are on the screen, and how navigation moves the selection.  *)
(* The session behind it is seen through two of its numbers: how many rows *)
(* the view has and which one is selected.  Rows count from 0, as in the   *)
(* code.                                                                   *)
(***************************************************************************)
EXTENDS Integers, Keys

CONSTANT Heights   \* the heights layout() may give the panel

\* layout() gives the list at least three lines, one of them its header.
ASSUME HeightsAssumption == Heights \subseteq Nat \ 0..2 /\ Heights # {}

VARIABLES shown,     \* filtered_count(): rows of the view
          selected,  \* selected_index_
          offset,    \* scroll_offset_: the row at the top of the screen
          height,    \* height of the panel's window
          drawn      \* rows the last render() put on the screen

listVars == <<shown, selected, offset, height, drawn>>

ListTypeOK ==
    /\ shown \in Nat
    /\ selected \in Nat
    /\ offset \in Nat
    /\ height \in Heights
    /\ drawn \in Nat

ListInit ==
    /\ selected = 0
    /\ offset = 0
    /\ height \in Heights
    /\ drawn = 0

\* Rows there is room for below the header line.
Visible == height - 1

\* A page is one row shorter, so that a row stays in sight.
Page == height - 2

Smaller(a, b) == IF a <= b THEN a ELSE b

-----------------------------------------------------------------------------
\* The offset nearest to off that has the selection among the visible rows.
ScrolledToSelection(off) ==
    IF selected < off THEN selected
    ELSE IF selected >= off + Visible THEN selected - Visible + 1
    ELSE off

\* Mutant of RenderList: the selection may sit one row below the last.
RenderListOneBelow ==
    LET off == IF selected > offset + Visible THEN selected - Visible + 1
               ELSE Smaller(offset, selected)
    IN  /\ offset' = off
        /\ drawn' = IF off < shown THEN Smaller(Visible, shown - off) ELSE 0

\* render(): scroll, then draw rows until the screen or the view is full.
RenderList ==
    LET off == ScrolledToSelection(offset)
    IN  /\ offset' = off
        /\ drawn' = IF off < shown THEN Smaller(Visible, shown - off) ELSE 0

\* The last row is on the screen, or would be if it were rendered now.
AtBottom == shown = 0 \/ offset + Visible >= shown

\* scroll_to_bottom(): select the last row and put it at the bottom.
ScrollToBottom ==
    IF shown = 0
    THEN UNCHANGED <<selected, offset>>
    ELSE /\ selected' = shown - 1
         /\ offset' = IF shown > Visible THEN shown - Visible ELSE 0

-----------------------------------------------------------------------------
\* Mutant of Target: the first row is not the limit.
TargetUnguarded(k) ==
    CASE k = "up"       -> selected - 1
      [] k = "down"     -> IF selected + 1 < shown THEN selected + 1 ELSE selected
      [] k = "pageUp"   -> IF selected > Page THEN selected - Page ELSE 0
      [] k = "pageDown" -> Smaller(selected + Page, shown - 1)
      [] k = "home"     -> 0
      [] k = "end"      -> shown - 1
      [] OTHER          -> selected

\* The row a key selects when there is one.
Target(k) ==
    CASE k = "up"       -> IF selected > 0 THEN selected - 1 ELSE selected
      [] k = "down"     -> IF selected + 1 < shown THEN selected + 1 ELSE selected
      [] k = "pageUp"   -> IF selected > Page THEN selected - Page ELSE 0
      [] k = "pageDown" -> Smaller(selected + Page, shown - 1)
      [] k = "home"     -> 0
      [] k = "end"      -> shown - 1
      [] OTHER          -> selected

\* handle_key(): the offset stays until the next render().
ListKey(k) ==
    /\ selected' = IF shown = 0 THEN selected ELSE Target(k)
    /\ UNCHANGED <<shown, offset, height, drawn>>
=============================================================================
