----------------------------- MODULE AppProofs ------------------------------
(***************************************************************************)
(* The event loop's safety, proved for every number of packets, every set  *)
(* of window heights and every set of file names.                          *)
(***************************************************************************)
EXTENDS App, TLAPS

\* The selected row exists, or is the first of an empty view.
SelectionExists == IF shown = 0 THEN selected = 0 ELSE selected < shown

\* What the loop has counted is never more than what there is.
CountsInOrder ==
    /\ lastCount <= total
    /\ polled <= total
    /\ pc = "tick" => polled >= lastCount

\* A paused display does not poll.
PollIsUnpaused == pc \in {"poll", "tick"} => ~paused

\* A status is that of an export with a name, and is put away before the next.
\* While an export is under way it has a name, and the leave to write it; the
\* rows counted are still in the view, and in file mode are all of it.
ExportUnderWay ==
    /\ status # "none" => exportState = "done" /\ exportInput \in FileName
    /\ exportState = "confirm" => exportInput \in FileName
    /\ pc = "export" =>
           /\ exportInput \in FileName
           /\ exportState = "confirm" \/ (exportState = "input" /\ disk[exportInput] = "absent")
           /\ count <= shown
           /\ ~liveMode => count = shown

AppInv ==
    /\ TypeOK
    /\ SelectionExists
    /\ CountsInOrder
    /\ PollIsUnpaused
    /\ UnseenOnlyWhenReviewing
    /\ ExportUnderWay
    /\ StatusIsTrue

-----------------------------------------------------------------------------
\* No step of the loop, the clock or the capture thread ends the invariant.
LEMMA StepInv ==
    ASSUME AppInv, [Next]_vars
    PROVE  AppInv'
<1> USE AppAssumption, HeightsAssumption, NameAssumption
<1> USE DEF AppInv, TypeOK, ListTypeOK, ExportTypeOK, SelectionExists, CountsInOrder,
            PollIsUnpaused, UnseenOnlyWhenReviewing, ExportUnderWay,
            StatusIsTrue, Content, vars, listVars, exportVars, sessionVars,
            liveVars, loopVars, ToRender, Handling
<1>1. CASE Arrive
  BY <1>1 DEF Arrive
<1>2. CASE Getch
  BY <1>2 DEF Getch, AfterGetch
<1>3. CASE Resize
  BY <1>3 DEF Resize, AfterGetch
<1>4. CASE Poll
  BY <1>4 DEF Poll
<1>5. CASE Tick
  BY <1>5 DEF Tick, ScrollToBottom, Visible
<1>6. CASE NoKey
  BY <1>6 DEF NoKey
<1>7. CASE OpenFilter
  BY <1>7 DEF OpenFilter, Command, ExportActive
<1>8. CASE OpenExport
  BY <1>8 DEF OpenExport, Command, ExportActive, ExportActivate
<1>9. CASE Quit
  BY <1>9 DEF Quit, Command, ExportActive
<1>10. CASE EscapeFilter
  <2> USE <1>10 DEF EscapeFilter, Command, ExportActive, ClearFilter, ShowRows
  <2>1. ListTypeOK'
    OBVIOUS
  <2>2. ExportTypeOK'
    OBVIOUS
  <2>3. TypeOK'
    <3>1. filtered' \in BOOLEAN
      OBVIOUS
    <3>2. shown' <= total'
      OBVIOUS
    <3> QED
      BY <2>1, <2>2, <3>1, <3>2
  <2>4. SelectionExists' /\ CountsInOrder' /\ PollIsUnpaused' /\ UnseenOnlyWhenReviewing'
    OBVIOUS
  <2>5. ExportUnderWay' /\ StatusIsTrue'
    OBVIOUS
  <2> QED
    BY <2>3, <2>4, <2>5 DEF AppInv
<1>11. CASE CycleSort
  <2> USE <1>11 DEF CycleSort, SelectFirst, Command, ExportActive
  <2>1. ListTypeOK'
    OBVIOUS
  <2>2. ExportTypeOK'
    OBVIOUS
  <2>3. TypeOK'
    <3>1. byTime' \in 0..2
      OBVIOUS
    <3>2. autoScroll' \in BOOLEAN
      OBVIOUS
    <3> QED
      BY <2>1, <2>2, <3>1, <3>2
  <2>4. SelectionExists' /\ CountsInOrder' /\ PollIsUnpaused' /\ UnseenOnlyWhenReviewing'
    OBVIOUS
  <2>5. ExportUnderWay' /\ StatusIsTrue'
    OBVIOUS
  <2> QED
    BY <2>3, <2>4, <2>5 DEF AppInv
<1>12. CASE SwitchFocus
  BY <1>12 DEF SwitchFocus, Command, ExportActive
<1>13. CASE Pause
  BY <1>13 DEF Pause, Command, ExportActive
<1>14. CASE Resume
  <2> USE <1>14 DEF Resume, Command, ExportActive, ScrollToBottom, Visible
  <2>1. ListTypeOK'
    OBVIOUS
  <2>2. ExportTypeOK'
    OBVIOUS
  <2>3. TypeOK'
    BY <2>1, <2>2
  <2>4. SelectionExists' /\ CountsInOrder' /\ PollIsUnpaused' /\ UnseenOnlyWhenReviewing'
    OBVIOUS
  <2>5. ExportUnderWay' /\ StatusIsTrue'
    OBVIOUS
  <2> QED
    BY <2>3, <2>4, <2>5 DEF AppInv
<1>15. CASE NoPause
  BY <1>15 DEF NoPause, Command
<1>16. CASE Follow
  BY <1>16 DEF Follow, Command, ExportActive, ScrollToBottom, Visible
<1>17. CASE FinishExport
  <2> USE <1>17 DEF FinishExport, Export
  <2>1. ListTypeOK'
    OBVIOUS
  <2>2. ExportTypeOK'
    <3>1. disk' \in [FileName -> Content]
      OBVIOUS
    <3>2. status' \in {"none", "failed", "fewer", "right", "more"}
      OBVIOUS
    <3> QED
      BY <3>1, <3>2
  <2>3. TypeOK'
    BY <2>1, <2>2
  <2>4. SelectionExists' /\ CountsInOrder' /\ PollIsUnpaused' /\ UnseenOnlyWhenReviewing'
    OBVIOUS
  <2>5. ExportUnderWay' /\ StatusIsTrue'
    OBVIOUS
  <2> QED
    BY <2>3, <2>4, <2>5 DEF AppInv
<1>18. CASE Navigate
  BY <1>18 DEF Navigate, ListKey, Target, Page, Smaller, Visible
<1>19. CASE CheckBottom
  <2> USE <1>19 DEF CheckBottom, AtBottom, Visible
  <2>1. ListTypeOK'
    OBVIOUS
  <2>2. ExportTypeOK'
    OBVIOUS
  <2>3. TypeOK'
    <3>1. autoScroll' \in BOOLEAN /\ newSince' \in Nat
      <4>1. CASE wasBottom /\ ~AtBottom
        <5>1. autoScroll' = FALSE /\ newSince' = 0
          BY ONLY <1>19, <4>1, Zenon DEF CheckBottom
        <5> QED
          BY ONLY <5>1
      <4>2. CASE ~(wasBottom /\ ~AtBottom)
        BY <4>2
      <4> QED
        BY <4>1, <4>2
    <3>2. key' \in Key
      BY DEF Key
    <3>3. wasBottom' \in BOOLEAN /\ pc' = "render"
      OBVIOUS
    <3> QED
      BY <2>1, <2>2, <3>1, <3>2, <3>3
  <2>4. SelectionExists' /\ CountsInOrder' /\ PollIsUnpaused' /\ UnseenOnlyWhenReviewing'
    OBVIOUS
  <2>5. ExportUnderWay' /\ StatusIsTrue'
    OBVIOUS
  <2> QED
    BY <2>3, <2>4, <2>5 DEF AppInv
<1>20. CASE RenderAll
  <2> USE <1>20 DEF RenderAll, RenderPanels, RenderList, ScrolledToSelection, Visible, Smaller,
              RenderExport, PutAway
  <2>1. ListTypeOK'
    OBVIOUS
  <2>2. ExportTypeOK'
    OBVIOUS
  <2>3. TypeOK'
    BY <2>1, <2>2
  <2>4. SelectionExists' /\ CountsInOrder' /\ PollIsUnpaused' /\ UnseenOnlyWhenReviewing'
    OBVIOUS
  <2>5. ExportUnderWay' /\ StatusIsTrue'
    OBVIOUS
  <2> QED
    BY <2>3, <2>4, <2>5 DEF AppInv
<1>21. CASE Redraw
  <2> USE <1>21 DEF Redraw, RenderPanels, RenderList, ScrolledToSelection, Visible, Smaller,
              RenderExport, PutAway
  <2>1. ListTypeOK'
    OBVIOUS
  <2>2. ExportTypeOK'
    OBVIOUS
  <2>3. TypeOK'
    BY <2>1, <2>2
  <2>4. SelectionExists' /\ CountsInOrder' /\ PollIsUnpaused' /\ UnseenOnlyWhenReviewing'
    OBVIOUS
  <2>5. ExportUnderWay' /\ StatusIsTrue'
    OBVIOUS
  <2> QED
    BY <2>3, <2>4, <2>5 DEF AppInv
<1>22. CASE Clock
  BY <1>22 DEF Clock, TwoSecondsPass
<1>23. CASE Finished
  BY <1>23 DEF Finished
<1>24. ASSUME NEW k \in Key, KeyToExport(k) PROVE AppInv'
  <2> USE <1>24 DEF KeyToExport, ExportKey, ExportType, ExportErase, ExportIgnore, ExportGiveUp,
              ExportCancel, AskOverwrite, RefuseOverwrite, DismissStatus,
              PutAway, ExportActive
  <2>1. ListTypeOK'
    OBVIOUS
  <2>2. ExportTypeOK'
    OBVIOUS
  <2>3. TypeOK'
    BY <2>1, <2>2
  <2>4. SelectionExists' /\ CountsInOrder' /\ PollIsUnpaused' /\ UnseenOnlyWhenReviewing'
    OBVIOUS
  <2>5. ExportUnderWay' /\ StatusIsTrue'
    OBVIOUS
  <2> QED
    BY <2>3, <2>4, <2>5 DEF AppInv
<1>25. ASSUME NEW k \in Key, StartExport(k) PROVE AppInv'
  <2> USE <1>25 DEF StartExport, MayExport, CountRows
  <2>1. ListTypeOK'
    OBVIOUS
  <2>2. ExportTypeOK'
    OBVIOUS
  <2>3. TypeOK'
    BY <2>1, <2>2
  <2>4. SelectionExists' /\ CountsInOrder' /\ PollIsUnpaused' /\ UnseenOnlyWhenReviewing'
    OBVIOUS
  <2>5. ExportUnderWay' /\ StatusIsTrue'
    OBVIOUS
  <2> QED
    BY <2>3, <2>4, <2>5 DEF AppInv
<1>26. ASSUME NEW k \in Key, KeyToFilter(k) PROVE AppInv'
  <2> USE <1>26 DEF KeyToFilter, ClearFilter, ShowRows
  <2>1. ListTypeOK'
    OBVIOUS
  <2>2. ExportTypeOK'
    OBVIOUS
  <2>3. TypeOK'
    <3>1. filtered' \in BOOLEAN
      OBVIOUS
    <3>2. shown' <= total' /\ total' \in Nat
      OBVIOUS
    <3>3. filterBar' \in {"passive", "empty", "text"}
      OBVIOUS
    <3>4. UNCHANGED <<liveMode, byTime, listFocus, liveVars, running, key, polled, wasBottom>>
             /\ pc' = "render"
      OBVIOUS
    <3> QED
      BY <2>1, <2>2, <3>1, <3>2, <3>3, <3>4
  <2>4. SelectionExists' /\ CountsInOrder' /\ PollIsUnpaused' /\ UnseenOnlyWhenReviewing'
    OBVIOUS
  <2>5. ExportUnderWay' /\ StatusIsTrue'
    OBVIOUS
  <2> QED
    BY <2>3, <2>4, <2>5 DEF AppInv
<1>27. ASSUME NEW k \in Key, PanelKey(k) PROVE AppInv'
  BY <1>27 DEF PanelKey, Command, ListKey, Target, Page, Smaller, PanelKeys
<1>28. ASSUME NEW k \in Key, StartNavigation(k) PROVE AppInv'
  BY <1>28 DEF StartNavigation, Command, AtBottom, PanelKeys
<1>29. CASE ReverseSort
  BY <1>29 DEF ReverseSort, SelectFirst, Command, ExportActive
<1>30. CASE SwitchHex
  BY <1>30 DEF SwitchHex, Command
<1>31. CASE UNCHANGED vars
  BY <1>31
<1> QED
  BY <1>1, <1>2, <1>3, <1>4, <1>5, <1>6, <1>7, <1>8, <1>9, <1>10, <1>11, <1>12, <1>13,
     <1>14, <1>15, <1>16, <1>17, <1>18, <1>19, <1>20, <1>21, <1>22, <1>23, <1>24,
     <1>25, <1>26, <1>27, <1>28, <1>29, <1>30, <1>31 DEF Next, Round, Commands, HandleKey

\* Whatever is loaded, and whatever files are there, the loop starts in it.
LEMMA InitInv == Init => AppInv
<1> SUFFICES ASSUME Init PROVE AppInv
  OBVIOUS
<1>1. ListTypeOK /\ shown = total /\ total \in Nat
  BY AppAssumption DEF Init, ListInit, ListTypeOK
<1>2. ExportTypeOK /\ status = "none" /\ exportState = "passive"
  BY DEF Init, ExportInit, ExportTypeOK, Content
<1>3. TypeOK
  <2>1. liveMode \in BOOLEAN /\ filtered \in BOOLEAN /\ listFocus \in BOOLEAN /\ paused \in BOOLEAN
           /\ autoScroll \in BOOLEAN /\ running \in BOOLEAN /\ wasBottom \in BOOLEAN
    BY Zenon DEF Init
  <2>2. key \in Key /\ filterBar = "passive" /\ pc = "render"
    BY DEF Init, Key
  <2>3. shown <= total /\ byTime \in 0..2 /\ lastCount \in Nat /\ newSince \in Nat /\ polled \in Nat
    BY <1>1 DEF Init, ListTypeOK
  <2> QED
    BY <1>1, <1>2, <2>1, <2>2, <2>3 DEF TypeOK
<1>4. SelectionExists /\ CountsInOrder /\ PollIsUnpaused /\ UnseenOnlyWhenReviewing
  BY <1>1 DEF Init, ListInit, SelectionExists, CountsInOrder, PollIsUnpaused,
             UnseenOnlyWhenReviewing
<1>5. ExportUnderWay /\ StatusIsTrue
  BY <1>2 DEF Init, ExportUnderWay, StatusIsTrue
<1> QED
  BY <1>1, <1>2, <1>3, <1>4, <1>5 DEF AppInv

\* The invariant of the event loop: what it counts, selects and exports fits
\* together between any two of its steps.
THEOREM AppInvariant == Spec => []AppInv
BY InitInv, StepInv, PTL DEF Spec

\* Every variable of the event loop keeps its type; in particular no position
\* in the list, which the code keeps unsigned, goes below zero.
THEOREM TypeCorrect == Spec => []TypeOK
BY AppInvariant, PTL DEF AppInv

\* The header's "+N new" counts only while the list does not follow the tail.
THEOREM UnseenCounts == Spec => []UnseenOnlyWhenReviewing
BY AppInvariant, PTL DEF AppInv

\* The unsigned subtraction of tick_live() never wraps around.
THEOREM NoWrapAround == Spec => []PollNeverShrinks
<1>1. AppInv => PollNeverShrinks
  BY DEF AppInv, CountsInOrder, PollNeverShrinks
<1> QED
  BY <1>1, AppInvariant, PTL

\* The status of an export never names more packets than were written.
THEOREM StatusTrue == Spec => []StatusIsTrue
BY AppInvariant, PTL DEF AppInv

-----------------------------------------------------------------------------
\* Every rendering puts the selected row on the screen, for every height the
\* panel may have and every number of rows.
THEOREM SelectionShown == Spec => SelectionOnScreen
<1> DEFINE Shown == (pc \in {"render", "refresh", "redraw"} /\ pc' # pc /\ shown > 0)
                       => selected \in offset'..(offset' + drawn' - 1)
<1>1. ASSUME AppInv, [Next]_vars PROVE Shown
  <2> SUFFICES ASSUME pc \in {"render", "refresh", "redraw"}, pc' # pc, shown > 0
               PROVE  selected \in offset'..(offset' + drawn' - 1)
    OBVIOUS
  <2>1. RenderAll \/ Redraw
    BY <1>1 DEF Next, Round, Commands, HandleKey, vars, listVars, loopVars, liveVars,
       Arrive, Getch, Resize, Poll, Tick, NoKey, OpenFilter, OpenExport,
       Quit, EscapeFilter, CycleSort, ReverseSort, SwitchFocus, SwitchHex, Pause, Resume, NoPause,
       Follow, Command,
       Handling, KeyToExport, StartExport, KeyToFilter, PanelKey, StartNavigation,
       FinishExport, Navigate, CheckBottom, Clock, Finished
  <2>2. RenderList
    BY <2>1 DEF RenderAll, Redraw, RenderPanels
  <2>3. /\ selected < shown
        /\ selected \in Nat /\ shown \in Nat /\ offset \in Nat /\ height \in Nat \ 0..2
    BY <1>1, HeightsAssumption DEF AppInv, TypeOK, ListTypeOK, SelectionExists
  <2> QED
    BY <2>2, <2>3 DEF RenderList, ScrolledToSelection, Visible, Smaller
<1>2. [Next]_vars /\ AppInv => [Shown]_vars
  BY <1>1
<1> QED
  BY <1>2, AppInvariant, PTL DEF Spec, SelectionOnScreen

\* While the display is paused, or does not follow the tail, only a key of the
\* user moves the selection, whatever arrives.
THEOREM PlaceKept == Spec => PlaceIsKept
<1> DEFINE Kept == selected' # selected
                      => pc \in {"key", "resized", "navigate"} \/ (autoScroll /\ ~paused)
<1>1. ASSUME AppInv, [Next]_vars PROVE Kept
  <2> SUFFICES ASSUME selected' # selected, pc \notin {"key", "resized", "navigate"}
               PROVE  autoScroll /\ ~paused
    OBVIOUS
  <2>1. Tick
    BY <1>1 DEF Next, Round, Commands, HandleKey, vars, listVars, Arrive, Getch, Resize, Poll,
       NoKey, OpenFilter, OpenExport, Quit, EscapeFilter, CycleSort, ReverseSort,
       SwitchFocus, SwitchHex, Pause, Resume,
       NoPause, Follow, Command, Handling, KeyToExport, StartExport, KeyToFilter, PanelKey,
       StartNavigation, FinishExport, Navigate, CheckBottom, RenderAll, Redraw, RenderPanels,
       Clock, Finished
  <2>2. pc = "tick" /\ autoScroll
    BY <2>1 DEF Tick
  <2> QED
    BY <2>2, <1>1 DEF AppInv, PollIsUnpaused
<1>2. [Next]_vars /\ AppInv => [Kept]_vars
  BY <1>1
<1> QED
  BY <1>2, AppInvariant, PTL DEF Spec, PlaceIsKept

\* No file that was there before is written over without a yes to the question
\* that names it, through whatever else happens to the bar in between.
THEOREM OverwriteConfirmed == Spec => OverwriteIsConfirmed
<1> DEFINE Confirmed == \A f \in FileName : (disk[f] = "foreign" /\ disk'[f] # disk[f])
                           => exportState = "confirm" /\ exportInput = f
<1>1. ASSUME AppInv, [Next]_vars PROVE Confirmed
  <2> SUFFICES ASSUME NEW f \in FileName, disk[f] = "foreign", disk'[f] # disk[f]
               PROVE  exportState = "confirm" /\ exportInput = f
    OBVIOUS
  <2>1. FinishExport
    BY <1>1 DEF Next, Round, Commands, HandleKey, vars, exportVars, Arrive, Getch, Resize, Poll,
       Tick, NoKey, OpenFilter, OpenExport, ExportActivate, Quit, EscapeFilter, CycleSort,
       ReverseSort, SwitchFocus, SwitchHex, Pause, Resume, NoPause, Follow, Command,
       Handling, KeyToExport, ExportKey,
       ExportType, ExportErase, ExportIgnore, ExportGiveUp, ExportCancel, AskOverwrite,
       RefuseOverwrite, DismissStatus, PutAway, StartExport, CountRows, KeyToFilter, PanelKey,
       StartNavigation, Navigate, CheckBottom, RenderAll, Redraw, RenderPanels, RenderExport,
       Clock, TwoSecondsPass, Finished
  <2>2. pc = "export" /\ f = exportInput
    BY <1>1, <2>1 DEF FinishExport, Export, AppInv, TypeOK, ExportTypeOK
  <2> QED
    BY <1>1, <2>2 DEF AppInv, ExportUnderWay
<1>2. [Next]_vars /\ AppInv => [Confirmed]_vars
  BY <1>1
<1> QED
  BY <1>2, AppInvariant, PTL DEF Spec, OverwriteIsConfirmed
=============================================================================
