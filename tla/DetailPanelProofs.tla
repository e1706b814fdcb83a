-------------------------- MODULE DetailPanelProofs --------------------------
(***************************************************************************)
(* Theorems about the detail panel, for all packets and heights.           *)
(***************************************************************************)
EXTENDS DetailPanel, TLAPS

\* The position of the view that is shown, and the last one render() allows.
Position == IF hexMode THEN hexScroll ELSE treeScroll
Limit == IF hexMode THEN HexRows - 1 ELSE MaxTreeScroll

\* While nothing else changed since the last rendering, the position is where
\* the screen begins, and the lines that were counted are those of the tree.
OnScreen ==
    pc \in {"getch", "tick", "key"} /\ moved = FALSE /\ Shown =>
        /\ top = Position /\ top <= Limit
        /\ hexMode = FALSE => totalTreeLines = TreeLines

\* A key was handled: where it went from there.
Pressed ==
    pc = "render" /\ moved = FALSE /\ Shown =>
        /\ key \in {"up", "down"} => top <= Limit
        /\ key = "up" => Position = UpTo(top - 1)
        /\ key = "down" => Position = top + 1
        /\ key = "end" => Position = UpTo((IF hexMode THEN HexRows ELSE TreeLines) - Visible)

\* A resize in file mode is rendered as one.
Redrawn == pc = "redraw" => moved = TRUE

IInv == TypeOK /\ HiddenViewIsAtTop /\ OnScreen /\ Pressed /\ Redrawn

LEMMA HeightFacts ==
    ASSUME height \in Heights
    PROVE  height \in Nat /\ height >= 3 /\ Visible \in Nat /\ Visible >= 1
BY PanelAssumption DEF Visible

LEMMA LineFacts ==
    ASSUME packet \in Packet, dissected \in BOOLEAN
    PROVE  /\ TreeLines \in Nat /\ TreeLines >= 1
           /\ HexRows \in Nat /\ (packet.size > 0 => HexRows >= 1)
<1>1. packet.layers \in Nat /\ packet.layers >= 1 /\ packet.fields \in Nat /\ packet.size \in Nat
  BY PacketAssumption
<1>2. TreeLines \in Nat /\ TreeLines >= 1  BY <1>1 DEF TreeLines
<1>3. HexRows \in Nat /\ (packet.size > 0 => HexRows >= 1)  BY <1>1 DEF HexRows
<1> QED  BY <1>2, <1>3

LEMMA Typed ==
    ASSUME TypeOK, [Next]_vars
    PROVE  TypeOK'
<1>0. Visible \in Nat  BY HeightFacts DEF TypeOK
<1>1. CASE Getch  BY <1>1 DEF Getch, TypeOK, sessionVars, scrollVars, screenVars
<1>2. CASE Resize  BY <1>2 DEF Resize, TypeOK, sessionVars, scrollVars, screenVars
<1>3. CASE Arrive  BY <1>3 DEF Arrive, TypeOK, scrollVars, screenVars
<1>4. CASE Tick
  <2>1. \/ packet' \in Packet /\ dissected' = TRUE /\ moved' = TRUE
        \/ UNCHANGED <<packet, dissected, moved>>
    BY <1>4 DEF Tick
  <2>2. /\ packet' \in Packet \cup {NoPacket} /\ dissected' \in BOOLEAN
        /\ dissected' => packet' # NoPacket
    <3>1. NoPacket \notin Packet  BY PacketAssumption
    <3>2. CASE packet' \in Packet /\ dissected' = TRUE  BY <3>1, <3>2, Zenon
    <3>3. CASE UNCHANGED <<packet, dissected>>  BY <3>3 DEF TypeOK
    <3> QED  BY <2>1, <3>2, <3>3
  <2>3. moved' \in BOOLEAN
    BY <2>1 DEF TypeOK
  <2> QED  BY <1>4, <2>2, <2>3 DEF Tick, TypeOK, scrollVars, screenVars
<1>5. CASE Ignore  BY <1>5 DEF Ignore, Handled, TypeOK, sessionVars, scrollVars, screenVars
<1>6. CASE SelectElsewhere
  <2>1. dissected' \in BOOLEAN /\ (dissected' => packet' # NoPacket)
    BY <1>6, Zenon DEF SelectElsewhere
  <2> QED
    BY <1>6, <2>1 DEF SelectElsewhere, Handled, TypeOK, scrollVars, screenVars
<1>7. CASE SwitchFocus
  BY <1>7 DEF SwitchFocus, Handled, TypeOK, sessionVars, scrollVars, screenVars
<1>8. CASE SwitchMode
  BY <1>8 DEF SwitchMode, Handled, TypeOK, sessionVars, screenVars
<1>9. CASE \E k \in PanelKey : Scroll(k)
  <2>1. PICK k \in PanelKey : Scroll(k)  BY <1>9
  <2>2. \A s \in Nat : Scrolled(k, s) \in Nat
    BY <1>0, LineFacts DEF Scrolled, EndOf, UpTo, PanelKey, TypeOK
  <2> QED
    BY <2>1, <2>2 DEF Scroll, Handled, TypeOK, sessionVars, screenVars
<1>10. CASE Render
  <2>1. /\ UNCHANGED <<live, packet, dissected, focused, height>>
        /\ pc' \in {"getch", "key"} /\ key' = "none" /\ moved' = FALSE
    BY <1>10 DEF Render, sessionVars
  <2>2. CASE RenderNothing
    BY <2>1, <2>2 DEF RenderNothing, TypeOK, scrollVars
  <2>3. CASE RenderTree
    <3>1. TreeLines \in Nat /\ TreeLines >= 1 /\ MaxTreeScroll \in Nat
      BY <2>3, <1>0, LineFacts DEF RenderTree, Shown, TypeOK, MaxTreeScroll, UpTo
    <3>2. MaxTreeScroll <= TreeLines
      BY <3>1, <1>0 DEF MaxTreeScroll, UpTo
    <3>3. treeScroll \in Nat  BY DEF TypeOK
    <3>4. treeScroll' \in Nat /\ treeScroll' <= TreeLines
      BY <2>3, <3>1, <3>2, <3>3 DEF RenderTree, Smaller
    <3>5. /\ top' \in Nat /\ drawn' \in Nat
      BY <2>3, <3>1, <3>4, <1>0 DEF RenderTree, Draw, Smaller
    <3> QED  BY <2>1, <2>3, <3>1, <3>4, <3>5 DEF RenderTree, TypeOK
  <2>4. CASE RenderHex
    <3>1. HexRows \in Nat /\ HexRows >= 1
      BY <2>4, LineFacts DEF RenderHex, Shown, TypeOK
    <3>2. hexScroll \in Nat  BY DEF TypeOK
    <3>3. hexScroll' \in Nat /\ hexScroll' <= HexRows
      BY <2>4, <3>1, <3>2 DEF RenderHex, Smaller
    <3>4. top' \in Nat /\ drawn' \in Nat
      BY <2>4, <3>1, <3>3, <1>0 DEF RenderHex, Draw, Smaller
    <3> QED  BY <2>1, <2>4, <3>3, <3>4 DEF RenderHex, TypeOK
  <2> QED  BY <1>10, <2>2, <2>3, <2>4 DEF Render
<1>11. CASE UNCHANGED vars
  BY <1>11 DEF vars, TypeOK, sessionVars, scrollVars, screenVars
<1> QED
  BY <1>1, <1>2, <1>3, <1>4, <1>5, <1>6, <1>7, <1>8, <1>9, <1>10, <1>11 DEF Next

-----------------------------------------------------------------------------
\* What the invariant says of the lines depends on these alone.
LEMMA SameView ==
    ASSUME UNCHANGED <<packet, dissected, height, hexMode, hexScroll, treeScroll>>
    PROVE  /\ Shown' = Shown /\ TreeLines' = TreeLines /\ HexRows' = HexRows
           /\ Visible' = Visible /\ Position' = Position /\ Limit' = Limit
BY DEF Shown, TreeEmpty, TreeLines, HexRows, Visible, Position, Limit, MaxTreeScroll, UpTo

LEMMA Inductive ==
    ASSUME IInv, [Next]_vars
    PROVE  IInv'
<1> USE DEF IInv
<1>0. TypeOK'  BY Typed
<1>1. CASE Getch
  BY <1>0, <1>1, SameView
     DEF Getch, HiddenViewIsAtTop, OnScreen, Pressed, Redrawn, sessionVars, scrollVars, screenVars
<1>2. CASE Resize
  BY <1>0, <1>2
     DEF Resize, HiddenViewIsAtTop, OnScreen, Pressed, Redrawn, sessionVars, scrollVars, screenVars
<1>3. CASE Arrive
  BY <1>0, <1>3
     DEF Arrive, HiddenViewIsAtTop, OnScreen, Pressed, Redrawn, sessionVars, scrollVars, screenVars
<1>4. CASE Tick
  BY <1>0, <1>4, SameView
     DEF Tick, HiddenViewIsAtTop, OnScreen, Pressed, Redrawn, scrollVars, screenVars
<1>5. CASE Ignore \/ SelectElsewhere \/ SwitchFocus \/ SwitchMode
  BY <1>0, <1>5
     DEF Ignore, SelectElsewhere, SwitchFocus, SwitchMode, Handled, HiddenViewIsAtTop, OnScreen,
         Pressed, Redrawn, sessionVars, scrollVars, screenVars
<1>6. CASE \E k \in PanelKey : Scroll(k)
  <2>1. PICK k \in PanelKey : Scroll(k)  BY <1>6
  <2>2. /\ pc = "key" /\ pc' = "render" /\ key' = k
        /\ UNCHANGED <<packet, dissected, height, hexMode, top, moved, totalTreeLines>>
        /\ Position' = Scrolled(k, Position)
    BY <2>1 DEF Scroll, Handled, sessionVars, screenVars, Position
  <2>3. HiddenViewIsAtTop'  BY <2>1 DEF Scroll, HiddenViewIsAtTop
  <2>4. Shown' = Shown /\ TreeLines' = TreeLines /\ HexRows' = HexRows
        /\ Visible' = Visible /\ Limit' = Limit
    BY <2>2 DEF Shown, TreeEmpty, TreeLines, HexRows, Visible, Limit, MaxTreeScroll, UpTo
  <2>5. Pressed'
    BY <2>2, <2>4 DEF OnScreen, Pressed, Scrolled, EndOf, UpTo, Shown
  <2> QED  BY <1>0, <2>2, <2>3, <2>5 DEF OnScreen, Redrawn
<1>7. CASE Render
  <2>1. /\ UNCHANGED <<live, packet, dissected, focused, height, hexMode>>
        /\ pc' \in {"getch", "key"} /\ key' = "none" /\ moved' = FALSE
    BY <1>7
       DEF Render, RenderNothing, RenderTree, RenderHex, sessionVars, scrollVars
  <2>2. /\ Shown' = Shown /\ TreeLines' = TreeLines /\ HexRows' = HexRows
        /\ Visible' = Visible /\ Limit' = Limit
    BY <2>1 DEF Shown, TreeEmpty, TreeLines, HexRows, Visible, Limit, MaxTreeScroll, UpTo
  <2>3. HiddenViewIsAtTop'
    BY <1>7
       DEF Render, RenderNothing, RenderTree, RenderHex, HiddenViewIsAtTop, scrollVars
  <2>4. OnScreen'
    <3>1. CASE RenderNothing  BY <3>1, <2>2 DEF RenderNothing, OnScreen
    <3>2. CASE RenderTree
      <4>1. /\ hexMode = FALSE /\ Limit = MaxTreeScroll /\ Position' = treeScroll'
            /\ treeScroll' = Smaller(treeScroll, MaxTreeScroll)
            /\ top' = treeScroll' /\ totalTreeLines' = TreeLines
        BY <3>2, <2>1 DEF RenderTree, Position, Limit, Draw, TypeOK
      <4>2. treeScroll \in Nat /\ MaxTreeScroll \in Int
        BY <3>2, LineFacts, HeightFacts DEF RenderTree, Shown, TypeOK, MaxTreeScroll, UpTo
      <4>3. Smaller(treeScroll, MaxTreeScroll) <= MaxTreeScroll  BY <4>2 DEF Smaller
      <4> QED  BY <4>1, <4>3, <2>2 DEF OnScreen
    <3>3. CASE RenderHex
      <4>1. /\ hexMode /\ Limit = HexRows - 1 /\ Position' = hexScroll'
            /\ hexScroll' = Smaller(hexScroll, HexRows - 1) /\ top' = hexScroll'
        BY <3>3, <2>1 DEF RenderHex, Position, Limit, Draw
      <4>2. hexScroll \in Nat /\ HexRows - 1 \in Int
        BY <3>3, LineFacts DEF RenderHex, Shown, TypeOK
      <4>3. Smaller(hexScroll, HexRows - 1) <= HexRows - 1  BY <4>2 DEF Smaller
      <4> QED  BY <4>1, <4>3, <2>1, <2>2 DEF OnScreen
    <3> QED  BY <1>7, <3>1, <3>2, <3>3 DEF Render
  <2> QED  BY <1>0, <2>1, <2>3, <2>4 DEF Pressed, Redrawn
<1>8. CASE UNCHANGED vars
  BY <1>0, <1>8, SameView
     DEF vars, HiddenViewIsAtTop, OnScreen, Pressed, Redrawn, sessionVars, scrollVars, screenVars
<1> QED
  BY <1>1, <1>2, <1>3, <1>4, <1>5, <1>6, <1>7, <1>8 DEF Next

\* The first rendering is of a panel at its top.
THEOREM Invariance == Spec => []IInv
<1>1. Init => IInv
  <2> SUFFICES ASSUME Init PROVE IInv
    OBVIOUS
  <2>1. dissected \in BOOLEAN /\ (dissected => packet # NoPacket)
    BY Zenon DEF Init
  <2>2. TypeOK  BY <2>1, PanelAssumption DEF Init, TypeOK
  <2> QED  BY <2>2 DEF Init, IInv, HiddenViewIsAtTop, OnScreen, Pressed, Redrawn
<1>2. IInv /\ [Next]_vars => IInv'  BY Inductive
<1> QED  BY <1>1, <1>2, PTL DEF Spec

\* No key, no packet and no window size makes a position negative.
THEOREM TypeCorrect == Spec => []TypeOK
<1>1. IInv => TypeOK  BY DEF IInv
<1> QED  BY <1>1, Invariance, PTL

\* The view that is not shown is at its top.
THEOREM HiddenAtTop == Spec => []HiddenViewIsAtTop
<1>1. IInv => HiddenViewIsAtTop  BY DEF IInv
<1> QED  BY <1>1, Invariance, PTL

\* What a rendering draws of a view that is shown, for the properties of one.
LEMMA Drawing ==
    ASSUME IInv, Rendered, [Next]_vars, Shown
    PROVE  /\ UNCHANGED <<packet, hexMode>>
           /\ Position \in Nat /\ Limit \in Nat
           /\ top' = Smaller(Position, Limit)
           /\ hexMode = FALSE => drawn' = Smaller(Visible, TreeLines - top')
           /\ hexMode => drawn' = Smaller(Visible, HexRows - top')
<1>1. Render
  BY DEF IInv, TypeOK, Rendered, Next, Getch, Resize, Arrive, Tick, Ignore, SelectElsewhere,
         SwitchFocus, SwitchMode, Scroll, Handled, vars
<1>2. UNCHANGED <<packet, hexMode>>
  BY <1>1 DEF Render, RenderNothing, RenderTree, RenderHex, sessionVars, scrollVars
<1>3. hexMode \in BOOLEAN /\ treeScroll \in Nat /\ hexScroll \in Nat  BY DEF IInv, TypeOK
<1>4. /\ TreeLines \in Nat /\ TreeLines >= 1 /\ HexRows \in Nat
      /\ packet.size > 0 => HexRows >= 1
  BY LineFacts DEF Shown, IInv, TypeOK
<1>5. Visible \in Nat  BY HeightFacts DEF IInv, TypeOK
<1>6. packet.size \in Nat  BY PacketAssumption DEF Shown, IInv, TypeOK
<1>7. CASE RenderTree
  <2>1. /\ hexMode = FALSE /\ Limit = MaxTreeScroll /\ Position = treeScroll
        /\ treeScroll' = Smaller(treeScroll, MaxTreeScroll)
        /\ top' = treeScroll' /\ drawn' = Smaller(Visible, TreeLines - treeScroll')
    BY <1>3, <1>7 DEF RenderTree, Position, Limit, Draw
  <2>2. MaxTreeScroll \in Nat  BY <1>4, <1>5 DEF MaxTreeScroll, UpTo
  <2> QED  BY <1>2, <1>3, <2>1, <2>2
<1>8. CASE RenderHex
  <2>1. /\ hexMode /\ Limit = HexRows - 1 /\ Position = hexScroll
        /\ hexScroll' = Smaller(hexScroll, HexRows - 1)
        /\ top' = hexScroll' /\ drawn' = Smaller(Visible, HexRows - hexScroll')
    BY <1>8 DEF RenderHex, Position, Limit, Draw
  <2>2. HexRows - 1 \in Nat  BY <1>4, <1>6, <1>8 DEF RenderHex, Shown
  <2> QED  BY <1>2, <1>3, <2>1, <2>2
<1> QED  BY <1>1, <1>7, <1>8 DEF Render, RenderNothing
LEMMA NothingDrawn ==
    ASSUME IInv, Rendered, [Next]_vars, drawn' > 0
    PROVE  Shown
<1>1. Render
  BY DEF IInv, TypeOK, Rendered, Next, Getch, Resize, Arrive, Tick, Ignore, SelectElsewhere,
         SwitchFocus, SwitchMode, Scroll, Handled, vars
<1> QED  BY <1>1 DEF Render, RenderNothing, RenderTree, RenderHex

\* The lines of the view that is shown.
Whole == IF hexMode THEN HexRows ELSE TreeLines

LEMMA ShownFacts ==
    ASSUME IInv, Rendered, [Next]_vars, Shown
    PROVE  /\ hexMode \in BOOLEAN /\ top \in Nat /\ Position \in Nat
           /\ Whole \in Nat /\ Whole >= 1 /\ Visible \in Nat /\ Visible >= 1
           /\ hexMode => Limit = Whole - 1
           /\ ~hexMode => Limit = UpTo(Whole - Visible)
           /\ top' = Smaller(Position, Limit)
           /\ drawn' = Smaller(Visible, Whole - top')
<1>1. packet \in Packet /\ dissected \in BOOLEAN /\ hexMode \in BOOLEAN /\ top \in Nat
  BY DEF Shown, IInv, TypeOK
<1>2. packet.size \in Nat /\ (hexMode => packet.size > 0)
  BY <1>1, PacketAssumption DEF Shown
<1>3. height \in Heights  BY DEF IInv, TypeOK
<1>4. Whole \in Nat /\ Whole >= 1  BY <1>1, <1>2, LineFacts DEF Whole
<1>5. (hexMode => Limit = Whole - 1) /\ (~hexMode => Limit = UpTo(Whole - Visible))
  BY DEF Limit, MaxTreeScroll, Whole
<1>6. drawn' = Smaller(Visible, Whole - top')  BY <1>1, Drawing DEF Whole
<1> QED  BY <1>1, <1>3, <1>4, <1>5, <1>6, Drawing, HeightFacts

\* Every rendering of a tree fills the panel or shows all of it, and one of a
\* dump shows some of it.
THEOREM PanelIsFilled == Spec => NoBlankBelow
<1>1. ASSUME IInv, [Next]_vars, Rendered, Shown
      PROVE  IF hexMode THEN drawn' > 0 ELSE drawn' = Smaller(Visible, TreeLines)
  <2>1. /\ Position \in Nat /\ Whole \in Nat /\ Whole >= 1 /\ Visible \in Nat /\ Visible >= 1
        /\ hexMode => Limit = Whole - 1
        /\ ~hexMode => Limit = UpTo(Whole - Visible)
        /\ top' = Smaller(Position, Limit) /\ drawn' = Smaller(Visible, Whole - top')
    BY <1>1, ShownFacts
  <2>2. CASE hexMode
    <3>1. drawn' > 0  BY ONLY <2>1, <2>2 DEF Smaller
    <3> QED  BY <2>2, <3>1
  <2>3. CASE ~hexMode
    <3>1. drawn' = Smaller(Visible, Whole)  BY ONLY <2>1, <2>3 DEF Smaller, UpTo
    <3> QED  BY <2>3, <3>1 DEF Whole
  <2> QED  BY <2>2, <2>3
<1> QED  BY <1>1, Invariance, PTL DEF Spec, NoBlankBelow

\* KEY_END reaches the last line, although it counts on an old number.
THEOREM EndReachesTheEnd == Spec => EndShowsLastLine
<1>1. ASSUME IInv, [Next]_vars, Rendered, key = "end", ~moved, drawn' > 0
      PROVE  top' + drawn' = IF hexMode THEN HexRows ELSE TreeLines
  <2>1. Shown  BY <1>1, NothingDrawn
  <2>2. pc = "render" /\ moved = FALSE
    BY <1>1 DEF IInv, TypeOK, Redrawn, Rendered
  <2>3. Position = UpTo(Whole - Visible)
    BY <1>1, <2>1, <2>2 DEF IInv, Pressed, Whole
  <2>4. /\ Whole \in Nat /\ Whole >= 1 /\ Visible \in Nat /\ Visible >= 1
        /\ Limit = Whole - 1 \/ Limit = UpTo(Whole - Visible)
        /\ top' = Smaller(Position, Limit) /\ drawn' = Smaller(Visible, Whole - top')
    BY <1>1, <2>1, ShownFacts
  <2>5. top' + drawn' = Whole  BY ONLY <2>3, <2>4 DEF Smaller, UpTo
  <2> QED  BY <2>5 DEF Whole
<1> QED  BY <1>1, Invariance, PTL DEF Spec, EndShowsLastLine

\* KEY_UP and KEY_DOWN move what is shown, by a line.
THEOREM KeysMoveTheView == Spec => UpAndDownMoveTheView
<1>1. ASSUME IInv, [Next]_vars, Rendered, ~moved, drawn' > 0
      PROVE  /\ key = "up"   => top' = UpTo(top - 1)
             /\ key = "down" => top' \in {top, top + 1}
  <2>1. Shown  BY <1>1, NothingDrawn
  <2>2. pc = "render" /\ moved = FALSE
    BY <1>1 DEF IInv, TypeOK, Redrawn, Rendered
  <2>3. /\ key \in {"up", "down"} => top <= Limit
        /\ key = "up" => Position = UpTo(top - 1)
        /\ key = "down" => Position = top + 1
    BY <1>1, <2>1, <2>2 DEF IInv, Pressed
  <2>4. /\ top \in Nat /\ Whole \in Nat /\ Visible \in Nat
        /\ Limit = Whole - 1 \/ Limit = UpTo(Whole - Visible)
        /\ top' = Smaller(Position, Limit)
    BY <1>1, <2>1, ShownFacts
  <2> QED  BY ONLY <2>3, <2>4 DEF Smaller, UpTo
<1> QED  BY <1>1, Invariance, PTL DEF Spec, UpAndDownMoveTheView
=============================================================================
