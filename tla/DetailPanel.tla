---------------------------- MODULE DetailPanel -----------------------------
(***************************************************************************)
(* The detail panel (DetailPanel.cpp): the selected packet as a tree of    *)
(* its layers or as a hex dump, scrolled by the user, inside the event     *)
(* loop that selects packets, follows new ones and renders after each key. *)
(*                                                                         *)
(* The scroll positions are kept when another packet is selected, keys     *)
(* move them without a look at what is shown, and render() puts them right *)
(* later; the module says what the user sees of that.  A packet is what    *)
(* its two views are long: layers and fields of its tree, and bytes.       *)
(***************************************************************************)
EXTENDS Integers

CONSTANTS Packet,     \* packets that may be selected
          NoPacket,   \* the selection while the view has no rows
          Heights,    \* the heights layout() may give the panel
          MaxScroll   \* bound: how far keys scroll while nothing is shown

ASSUME PacketAssumption ==
    /\ \A p \in Packet : p.layers \in Nat \ {0} /\ p.fields \in Nat /\ p.size \in Nat
    /\ NoPacket \notin Packet

\* layout() gives the panel at least three lines, two of them its border.
ASSUME PanelAssumption ==
    Heights \subseteq Nat \ 0..2 /\ Heights # {} /\ MaxScroll \in Nat

VARIABLES live,           \* live_mode_ of the application
          packet,         \* the packet at selected_index()
          dissected,      \* selected_tree() is its tree, not ProtocolTree{}
          focused,        \* focus_ == Focus::Detail
          height,         \* height of the window
          hexMode,        \* hex_mode_
          hexScroll,      \* hex_scroll_
          treeScroll,     \* tree_scroll_
          totalTreeLines, \* total_tree_lines_
          pc,             \* where the event loop is
          key,            \* the key the panel handled last in this round, or "none"
          top,            \* first line the last render() drew,
          drawn,          \* and how many
          moved           \* another packet or height since then, but by no key (history)

sessionVars == <<live, packet, dissected>>
scrollVars == <<hexMode, hexScroll, treeScroll>>
screenVars == <<top, drawn>>
vars == <<sessionVars, focused, height, scrollVars, totalTreeLines, pc, key, screenVars, moved>>

PanelKey == {"up", "down", "pageUp", "pageDown", "home", "end"}

Init ==
    /\ live \in BOOLEAN
    /\ packet \in IF live THEN {NoPacket} ELSE Packet \cup {NoPacket}
    /\ dissected = (packet # NoPacket)
    /\ focused = FALSE /\ height \in Heights
    /\ hexMode = FALSE /\ hexScroll = 0 /\ treeScroll = 0 /\ totalTreeLines = 0
    /\ pc = "render" /\ key = "none"
    /\ top = 0 /\ drawn = 0 /\ moved = FALSE

-----------------------------------------------------------------------------
\* flatten_node(): a line for every layer and one for every field.
TreeLines == IF dissected THEN packet.layers + packet.fields ELSE 1

\* ProtocolTree::empty(): a root without fields and children.
TreeEmpty == ~dissected \/ (packet.layers = 1 /\ packet.fields = 0)

\* A row shows sixteen bytes.
HexRows == (packet.size + 15) \div 16

\* Lines inside the border; also what a page key scrolls by.
Visible == height - 2

Smaller(a, b) == IF a <= b THEN a ELSE b
UpTo(n) == IF n > 0 THEN n ELSE 0

-----------------------------------------------------------------------------
(* The rest of the loop. *)

\* getch() returns; in live mode tick_live() comes before the key.
Getch ==
    /\ pc = "getch"
    /\ pc' = IF live THEN "tick" ELSE "key"
    /\ UNCHANGED <<sessionVars, focused, height, scrollVars, totalTreeLines, key, screenVars, moved>>

\* It returns after a resize, when only file mode renders before the key.
Resize ==
    /\ pc = "getch"
    /\ height' \in Heights
    /\ moved' = TRUE
    /\ pc' = IF live THEN "tick" ELSE "redraw"
    /\ UNCHANGED <<sessionVars, focused, scrollVars, totalTreeLines, key, screenVars>>

\* The first row of a live view is selected without being dissected.
Arrive ==
    /\ live /\ packet = NoPacket
    /\ packet' \in Packet /\ dissected' = FALSE
    /\ moved' = TRUE
    /\ UNCHANGED <<live, focused, height, scrollVars, totalTreeLines, pc, key, screenVars>>

\* tick_live() selects a packet that came in, or it does not.
Tick ==
    /\ pc = "tick"
    /\ \/ /\ packet # NoPacket
          /\ packet' \in Packet /\ dissected' = TRUE
          /\ moved' = TRUE
       \/ UNCHANGED <<packet, dissected, moved>>
    /\ pc' = "key"
    /\ UNCHANGED <<live, focused, height, scrollVars, totalTreeLines, key, screenVars>>

Handled(k) == pc' = "render" /\ key' = k /\ UNCHANGED <<screenVars, moved>>

\* No key, or one that changes nothing here.
Ignore ==
    /\ pc = "key" /\ Handled("none")
    /\ UNCHANGED <<sessionVars, focused, height, scrollVars, totalTreeLines>>

\* The list, the filter or the sort selects another packet, or none is left.
SelectElsewhere ==
    /\ pc = "key" /\ Handled("none")
    /\ packet' \in Packet \cup {NoPacket} /\ dissected' = (packet' # NoPacket)
    /\ UNCHANGED <<live, focused, height, scrollVars, totalTreeLines>>

SwitchFocus ==
    /\ pc = "key" /\ Handled("none")
    /\ focused' = ~focused
    /\ UNCHANGED <<sessionVars, height, scrollVars, totalTreeLines>>

-----------------------------------------------------------------------------
(* handle_key() *)

\* h, whichever panel has the focus.
SwitchMode ==
    /\ pc = "key" /\ Handled("hex")
    /\ hexMode' = ~hexMode /\ hexScroll' = 0 /\ treeScroll' = 0
    /\ UNCHANGED <<sessionVars, focused, height, totalTreeLines>>

\* Where KEY_END goes: the tree has the length that was rendered last.
EndOf(page) ==
    IF hexMode THEN UpTo((IF packet = NoPacket THEN 0 ELSE HexRows) - page)
    ELSE UpTo(totalTreeLines - page)

\* Mutant of Scrolled: a page up is not stopped at the first line.
ScrolledAbove(k, s) ==
    CASE k = "up"       -> UpTo(s - 1)
      [] k = "down"     -> s + 1
      [] k = "pageUp"   -> s - Visible
      [] k = "pageDown" -> s + Visible
      [] k = "home"     -> 0
      [] k = "end"      -> EndOf(Visible)

\* What a key makes of the position s of the view it is for.
Scrolled(k, s) ==
    CASE k = "up"       -> UpTo(s - 1)
      [] k = "down"     -> s + 1
      [] k = "pageUp"   -> UpTo(s - Visible)
      [] k = "pageDown" -> s + Visible
      [] k = "home"     -> 0
      [] k = "end"      -> EndOf(Visible)

Scroll(k) ==
    /\ pc = "key" /\ focused /\ Handled(k)
    /\ LET s == IF hexMode THEN hexScroll ELSE treeScroll
       IN  /\ Scrolled(k, s) <= MaxScroll \/ drawn > 0
           /\ IF hexMode THEN hexScroll' = Scrolled(k, s) /\ UNCHANGED treeScroll
              ELSE treeScroll' = Scrolled(k, s) /\ UNCHANGED hexScroll
    /\ UNCHANGED <<sessionVars, focused, height, hexMode, totalTreeLines>>

-----------------------------------------------------------------------------
(* render() *)

\* s is the first of n lines to be drawn.
Draw(s, n) == top' = s /\ drawn' = Smaller(Visible, n - s)

\* There is a packet, and bytes or a tree of it.
Shown == packet # NoPacket /\ IF hexMode THEN packet.size > 0 ELSE ~TreeEmpty

\* "no packets", "no dissection available" or "no data": nothing is counted,
\* and no position put right.
RenderNothing ==
    /\ ~Shown
    /\ top' = 0 /\ drawn' = 0
    /\ UNCHANGED <<scrollVars, totalTreeLines>>

\* The last position of the tree that leaves no line of the panel empty.
MaxTreeScroll == UpTo(TreeLines - Visible)

\* Mutant of RenderTree: the lines are only counted once.
RenderTreeCountedOnce ==
    /\ Shown /\ ~hexMode
    /\ totalTreeLines' = IF totalTreeLines = 0 THEN TreeLines ELSE totalTreeLines
    /\ treeScroll' = Smaller(treeScroll, MaxTreeScroll)
    /\ Draw(treeScroll', TreeLines)
    /\ UNCHANGED <<hexMode, hexScroll>>

\* Mutant of RenderTree: what is drawn is put right, and the position is not.
RenderTreeForgetting ==
    /\ Shown /\ ~hexMode
    /\ totalTreeLines' = TreeLines
    /\ Draw(Smaller(treeScroll, MaxTreeScroll), TreeLines)
    /\ UNCHANGED scrollVars

\* Mutant of RenderTree: the position is limited to the lines, as in the dump.
RenderTreeToLastLine ==
    /\ Shown /\ ~hexMode
    /\ totalTreeLines' = TreeLines
    /\ treeScroll' = Smaller(treeScroll, TreeLines - 1)
    /\ Draw(treeScroll', TreeLines)
    /\ UNCHANGED <<hexMode, hexScroll>>

RenderTree ==
    /\ Shown /\ ~hexMode
    /\ totalTreeLines' = TreeLines
    /\ treeScroll' = Smaller(treeScroll, MaxTreeScroll)
    /\ Draw(treeScroll', TreeLines)
    /\ UNCHANGED <<hexMode, hexScroll>>

\* The dump may end above the last line of the panel.
RenderHex ==
    /\ Shown /\ hexMode
    /\ hexScroll' = Smaller(hexScroll, HexRows - 1)
    /\ Draw(hexScroll', HexRows)
    /\ UNCHANGED <<hexMode, treeScroll, totalTreeLines>>

Render ==
    /\ pc \in {"render", "redraw"}
    /\ RenderNothing \/ RenderTree \/ RenderHex
    /\ pc' = IF pc = "render" THEN "getch" ELSE "key"
    /\ key' = "none" /\ moved' = FALSE
    /\ UNCHANGED <<sessionVars, focused, height>>

-----------------------------------------------------------------------------
Next ==
    \/ Getch \/ Resize \/ Arrive \/ Tick
    \/ Ignore \/ SelectElsewhere \/ SwitchFocus
    \/ SwitchMode \/ \E k \in PanelKey : Scroll(k)
    \/ Render

Spec == Init /\ [][Next]_vars

-----------------------------------------------------------------------------
\* Every variable keeps its type; no position ever becomes negative.
TypeOK ==
    /\ live \in BOOLEAN /\ packet \in Packet \cup {NoPacket}
    /\ dissected \in BOOLEAN /\ (dissected => packet # NoPacket)
    /\ focused \in BOOLEAN /\ height \in Heights
    /\ hexMode \in BOOLEAN /\ hexScroll \in Nat /\ treeScroll \in Nat /\ totalTreeLines \in Nat
    /\ pc \in {"getch", "tick", "key", "redraw", "render"}
    /\ key \in PanelKey \cup {"hex", "none"}
    /\ top \in Nat /\ drawn \in Nat /\ moved \in BOOLEAN

\* Switching between tree and dump always starts at the top, as h says it does
\* by resetting both: the view that is not shown keeps no position.
HiddenViewIsAtTop == IF hexMode THEN treeScroll = 0 ELSE hexScroll = 0

Rendered == pc \in {"render", "redraw"} /\ pc' # pc

\* "never show blank space at the bottom" (render_tree): whatever was scrolled
\* in longer packets, higher windows or with nothing on the screen, the tree
\* fills the panel or is there as a whole.  The dump may end earlier, but shows
\* bytes of every packet that has any.
NoBlankBelow ==
    [][Rendered /\ Shown =>
          IF hexMode THEN drawn' > 0 ELSE drawn' = Smaller(Visible, TreeLines)]_vars

\* "Jump to bottom of detail or hex view" (README.md): KEY_END is followed by
\* a rendering that ends with the last line, unless live mode selected another
\* packet, or resized the window, since the rendering the user saw.
EndShowsLastLine ==
    [][Rendered /\ key = "end" /\ ~moved /\ drawn' > 0
          => top' + drawn' = IF hexMode THEN HexRows ELSE TreeLines]_vars

\* No press of KEY_UP is lost to a position beyond what is shown, and no
\* press of either key moves what is shown by more than a line.
UpAndDownMoveTheView ==
    [][Rendered /\ ~moved /\ drawn' > 0 =>
          /\ key = "up"   => top' = UpTo(top - 1)
          /\ key = "down" => top' \in {top, top + 1}]_vars
=============================================================================
