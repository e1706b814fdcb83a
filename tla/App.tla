-------------------------------- MODULE App ---------------------------------
(***************************************************************************)
(* The application's event loop (App.cpp) in both modes, with the list,    *)
(* the filter bar and the export bar it dispatches keys to; in live mode   *)
(* the capture thread appends packets between any two of its steps.        *)
(*                                                                         *)
(* The session is seen through the numbers the user interface asks it for: *)
(* packets in all, rows of the view, selected row.  What a filter accepts  *)
(* is any number of rows.  One step of the loop reads or writes a shared   *)
(* number at most once, except that reapplying a filter and the end of a   *)
(* pause are taken to be atomic here (LiveSession has the filter's steps). *)
(***************************************************************************)
EXTENDS ListPanel, ExportBar

CONSTANT MaxPackets   \* bound: packets in all

ASSUME AppAssumption == MaxPackets \in Nat

VARIABLES liveMode,   \* live_mode_, set once
          total,      \* packet_count() of the session
          filtered,   \* a filter is active
          byTime,     \* 0 when sorted by time, 1 by size, 2 by protocol
          filterBar,  \* the filter bar: "passive", "empty" or "text" typed
          listFocus,  \* the list has the keyboard, not the detail panel
          paused,     \* paused_
          autoScroll, \* auto_scroll_
          lastCount,  \* last_packet_count_
          newSince,   \* new_since_scroll_
          running,    \* running_
          pc,         \* where the loop is
          key,        \* ch, while handle_key() is between two steps
          polled,     \* new_count of tick_live()
          wasBottom   \* was_at_bottom of handle_key()

sessionVars == <<liveMode, total, filtered, byTime>>
liveVars == <<paused, autoScroll, lastCount, newSince>>
loopVars == <<running, pc, key, polled, wasBottom>>
vars == <<listVars, exportVars, sessionVars, filterBar, listFocus, liveVars, loopVars>>

TypeOK ==
    /\ ListTypeOK /\ ExportTypeOK
    /\ liveMode \in BOOLEAN
    /\ total \in Nat /\ shown <= total /\ filtered \in BOOLEAN /\ byTime \in 0..2
    /\ filterBar \in {"passive", "empty", "text"}
    /\ listFocus \in BOOLEAN
    /\ paused \in BOOLEAN /\ autoScroll \in BOOLEAN
    /\ lastCount \in Nat /\ newSince \in Nat /\ polled \in Nat
    /\ running \in BOOLEAN
    /\ pc \in {"getch", "redraw", "poll", "tick", "key", "resized", "navigate", "check",
              "export", "refresh", "render", "done"}
    /\ key \in Key /\ wasBottom \in BOOLEAN

\* A file is loaded before the loop starts, a capture starts empty; the first
\* rendering comes before the first key.
Init ==
    /\ ListInit /\ ExportInit
    /\ liveMode \in BOOLEAN
    /\ total \in IF liveMode THEN {0} ELSE 0..MaxPackets
    /\ shown = total
    /\ filtered = FALSE /\ byTime = 0
    /\ filterBar = "passive" /\ listFocus = TRUE
    /\ paused = FALSE /\ autoScroll = TRUE
    /\ lastCount = 0 /\ newSince = 0
    /\ running = TRUE /\ pc = "render" /\ key = "none" /\ polled = 0 /\ wasBottom = FALSE

-----------------------------------------------------------------------------
(* The capture thread, and waiting for a key. *)

\* A packet is appended; a filter may reject it.
Arrive ==
    /\ liveMode /\ pc # "done" /\ total < MaxPackets
    /\ total' = total + 1
    /\ shown' \in IF filtered THEN {shown, shown + 1} ELSE {shown + 1}
    /\ UNCHANGED <<selected, offset, height, drawn, exportVars, liveMode, filtered, byTime,
                   filterBar, listFocus, liveVars, loopVars>>

\* Mutant of AfterGetch: the pause is forgotten.
AfterGetchUnpaused == IF liveMode THEN "poll" ELSE "key"

\* Where the loop goes once getch() has returned.
AfterGetch == IF liveMode /\ ~paused THEN "poll" ELSE "key"

\* getch() returns, in live mode after 100 ms at the latest.  What it returned
\* is chosen where it is first looked at.
Getch ==
    /\ pc = "getch"
    /\ pc' = AfterGetch
    /\ UNCHANGED <<listVars, exportVars, sessionVars, filterBar, listFocus, liveVars,
                   running, key, polled, wasBottom>>

\* The terminal was resized: getch() returned early with ERR, or some key was
\* pressed first.  File mode also renders before it goes on.
Resize ==
    /\ pc = "getch"
    /\ height' \in Heights
    /\ pc' = IF liveMode THEN AfterGetch ELSE "redraw"
    /\ UNCHANGED <<shown, selected, offset, drawn, exportVars, sessionVars, filterBar,
                   listFocus, liveVars, running, key, polled, wasBottom>>

-----------------------------------------------------------------------------
(* tick_live() *)

\* poll_new_packets()
Poll ==
    /\ pc = "poll"
    /\ polled' = total /\ pc' = "tick"
    /\ UNCHANGED <<listVars, exportVars, sessionVars, filterBar, listFocus, liveVars,
                   running, key, wasBottom>>

\* Mutant of Tick: packets are only noticed when the list follows them.
TickForgets ==
    /\ pc = "tick"
    /\ IF polled # lastCount /\ autoScroll
       THEN ScrollToBottom /\ lastCount' = polled /\ newSince' = 0
       ELSE UNCHANGED <<selected, offset, lastCount, newSince>>
    /\ pc' = "key" /\ polled' = 0
    /\ UNCHANGED <<shown, height, drawn, exportVars, sessionVars, filterBar, listFocus,
                   paused, autoScroll, running, key, wasBottom>>

\* The rest of it: new packets are followed, or counted as unseen.
Tick ==
    /\ pc = "tick"
    /\ lastCount' = polled
    /\ IF polled # lastCount /\ autoScroll
       THEN ScrollToBottom /\ newSince' = 0
       ELSE /\ newSince' = newSince + (polled - lastCount)
            /\ UNCHANGED <<selected, offset>>
    /\ pc' = "key" /\ polled' = 0
    /\ UNCHANGED <<shown, height, drawn, exportVars, sessionVars, filterBar, listFocus,
                   paused, autoScroll, running, key, wasBottom>>

-----------------------------------------------------------------------------
(* handle_key() *)

\* handle_key(k) is called: in live mode with a key only, in file mode with
\* ERR, too, after a resize.
Handling(k) ==
    /\ pc \in {"key", "resized"}
    /\ k = "none" => pc = "resized"

ToRender == pc' = "render" /\ UNCHANGED <<running, key, polled, wasBottom>>

\* In live mode ERR is not handled at all.
NoKey ==
    /\ pc = "key" /\ liveMode
    /\ pc' = "refresh"
    /\ UNCHANGED <<listVars, exportVars, sessionVars, filterBar, listFocus, liveVars,
                   running, key, polled, wasBottom>>

\* The export bar has the keyboard while it is active.
KeyToExport(k) ==
    /\ Handling(k) /\ ExportActive
    /\ ExportKey(k)
    /\ ToRender
    /\ UNCHANGED <<listVars, sessionVars, filterBar, listFocus, liveVars>>

\* Mutant of StartExport: the packets are counted, not the rows.
StartExportOfAll(k) ==
    /\ Handling(k) /\ MayExport(k)
    /\ CountRows(total)
    /\ pc' = "export"
    /\ UNCHANGED <<listVars, sessionVars, filterBar, listFocus, liveVars,
                   running, key, polled, wasBottom>>

\* do_export() starts: the rows are counted for the status message.
StartExport(k) ==
    /\ Handling(k) /\ MayExport(k)
    /\ CountRows(shown)
    /\ pc' = "export"
    /\ UNCHANGED <<listVars, sessionVars, filterBar, listFocus, liveVars,
                   running, key, polled, wasBottom>>

FinishExport ==
    /\ pc = "export"
    /\ Export(shown)
    /\ ToRender
    /\ UNCHANGED <<listVars, sessionVars, filterBar, listFocus, liveVars>>

\* reapply_filter(): the selection stays, or moves to the last row left.
ShowRows(rows) ==
    /\ shown' = rows
    /\ selected' = IF rows = 0 THEN 0
                   ELSE IF selected >= rows THEN rows - 1 ELSE selected
    /\ UNCHANGED <<liveMode, total, byTime, offset, height, drawn>>

\* clear_filter()
ClearFilter == filtered' = FALSE /\ ShowRows(total)

\* The filter bar is next.
KeyToFilter(k) ==
    /\ Handling(k) /\ ~ExportActive /\ filterBar # "passive"
    /\ \/ /\ k = "enter" /\ filterBar = "empty"
          /\ ClearFilter /\ filterBar' = "passive"
       \/ /\ k = "enter" /\ filterBar = "text"
          /\ \E rows \in 0..total : filtered' = TRUE /\ ShowRows(rows)
          /\ filterBar' = "passive"
       \/ /\ k \in {"enter", "escape"}
          /\ k = "enter" => filterBar = "text"   \* the text is no filter
          /\ filterBar' = "passive"
          /\ UNCHANGED <<listVars, sessionVars>>
       \/ /\ k \in Characters
          /\ filterBar' = "text"
          /\ UNCHANGED <<listVars, sessionVars>>
       \/ /\ k = "backspace"
          /\ filterBar' \in {"empty", filterBar}
          /\ UNCHANGED <<listVars, sessionVars>>
       \/ /\ k \notin Characters \cup {"enter", "escape", "backspace"}
          /\ UNCHANGED <<listVars, sessionVars, filterBar>>
    /\ ToRender
    /\ UNCHANGED <<exportVars, listFocus, liveVars>>

\* No bar is active: the key is a command, or for one of the panels.
Command(k) == Handling(k) /\ ~ExportActive /\ filterBar = "passive"

OpenFilter ==
    /\ Command("slash")
    /\ filterBar' = IF filtered THEN "text" ELSE "empty"
    /\ ToRender
    /\ UNCHANGED <<listVars, exportVars, sessionVars, listFocus, liveVars>>

OpenExport ==
    /\ Command("write")
    /\ ExportActivate
    /\ ToRender
    /\ UNCHANGED <<listVars, sessionVars, filterBar, listFocus, liveVars>>

\* The loop ends after one more rendering.
Quit ==
    /\ Command("quit")
    /\ running' = FALSE /\ pc' = "render"
    /\ UNCHANGED <<listVars, exportVars, sessionVars, filterBar, listFocus, liveVars,
                   key, polled, wasBottom>>

EscapeFilter ==
    /\ Command("escape")
    /\ ClearFilter
    /\ ToRender
    /\ UNCHANGED <<exportVars, filterBar, listFocus, liveVars>>

\* set_sort() ends by selecting the first row, if there is one; the list
\* scrolls there when it is rendered.
SelectFirst ==
    /\ selected' = IF shown = 0 THEN selected ELSE 0
    /\ UNCHANGED <<shown, offset, height, drawn>>

\* A sort by something else than time ends auto-scroll.
CycleSort ==
    /\ Command("sort")
    /\ byTime' = (byTime + 1) % 3
    /\ SelectFirst
    /\ autoScroll' = IF liveMode /\ byTime' # 0 THEN FALSE ELSE autoScroll
    /\ ToRender
    /\ UNCHANGED <<exportVars, liveMode, total, filtered, filterBar, listFocus,
                   paused, lastCount, newSince>>

\* The direction of the sort is turned around; auto-scroll goes on.
ReverseSort ==
    /\ Command("reverse")
    /\ SelectFirst
    /\ ToRender
    /\ UNCHANGED <<exportVars, sessionVars, filterBar, listFocus, liveVars>>

SwitchFocus ==
    /\ Command("tab")
    /\ listFocus' = ~listFocus
    /\ ToRender
    /\ UNCHANGED <<listVars, exportVars, sessionVars, filterBar, liveVars>>

Pause ==
    /\ Command("space") /\ liveMode /\ ~paused
    /\ paused' = TRUE
    /\ ToRender
    /\ UNCHANGED <<listVars, exportVars, sessionVars, filterBar, listFocus,
                   autoScroll, lastCount, newSince>>

\* Mutant of Resume: what arrived during the pause stays counted as unseen.
ResumeStillCounting ==
    /\ Command("space") /\ liveMode /\ paused
    /\ paused' = FALSE /\ autoScroll' = TRUE
    /\ lastCount' = total /\ newSince' = newSince + (total - lastCount)
    /\ ScrollToBottom
    /\ ToRender
    /\ UNCHANGED <<shown, height, drawn, exportVars, sessionVars, filterBar, listFocus>>

\* The end of a pause catches up with the packets.
Resume ==
    /\ Command("space") /\ liveMode /\ paused
    /\ paused' = FALSE /\ autoScroll' = TRUE
    /\ lastCount' = total /\ newSince' = 0
    /\ ScrollToBottom
    /\ ToRender
    /\ UNCHANGED <<shown, height, drawn, exportVars, sessionVars, filterBar, listFocus>>

\* G in live mode, whichever panel has the focus.
Follow ==
    /\ Command("end") /\ liveMode
    /\ ScrollToBottom
    /\ autoScroll' = TRUE /\ newSince' = 0
    /\ ToRender
    /\ UNCHANGED <<shown, height, drawn, exportVars, sessionVars, filterBar, listFocus,
                   paused, lastCount>>

\* h goes to the detail panel, whichever panel has the focus.
SwitchHex ==
    /\ Command("hex")
    /\ ToRender
    /\ UNCHANGED <<listVars, exportVars, sessionVars, filterBar, listFocus, liveVars>>

\* What no command takes goes to the panel with the focus, except that G in
\* file mode goes to the list always.  Nothing the detail panel does shows here.
PanelKeys == Key \ {"slash", "write", "quit", "escape", "sort", "reverse", "tab", "hex", "space"}

PanelKey(k) ==
    /\ k \in PanelKeys /\ Command(k)
    /\ ~liveMode \/ (~listFocus /\ k # "end")
    /\ IF listFocus \/ k = "end" THEN ListKey(k) ELSE UNCHANGED listVars
    /\ ToRender
    /\ UNCHANGED <<exportVars, sessionVars, filterBar, listFocus, liveVars>>

\* A space in file mode.
NoPause ==
    /\ Command("space") /\ ~liveMode
    /\ ToRender
    /\ UNCHANGED <<listVars, exportVars, sessionVars, filterBar, listFocus, liveVars>>

\* In live mode the list is asked before and after whether it is at the
\* bottom, while packets arrive.
StartNavigation(k) ==
    /\ k \in PanelKeys \ {"end"} /\ Command(k)
    /\ liveMode /\ listFocus
    /\ wasBottom' = AtBottom /\ key' = k /\ pc' = "navigate"
    /\ UNCHANGED <<listVars, exportVars, sessionVars, filterBar, listFocus, liveVars,
                   running, polled>>

Navigate ==
    /\ pc = "navigate"
    /\ ListKey(key)
    /\ pc' = "check"
    /\ UNCHANGED <<exportVars, sessionVars, filterBar, listFocus, liveVars,
                   running, key, polled, wasBottom>>

CheckBottom ==
    /\ pc = "check"
    /\ IF wasBottom /\ ~AtBottom
       THEN autoScroll' = FALSE /\ newSince' = 0
       ELSE UNCHANGED <<autoScroll, newSince>>
    /\ pc' = "render" /\ key' = "none" /\ wasBottom' = FALSE
    /\ UNCHANGED <<listVars, exportVars, sessionVars, filterBar, listFocus,
                   paused, lastCount, running, polled>>

-----------------------------------------------------------------------------
\* render_all()
RenderPanels ==
    /\ RenderList
    /\ RenderExport
    /\ UNCHANGED <<shown, selected, height, sessionVars, filterBar, listFocus, liveVars,
                   running, key, polled, wasBottom>>

\* The end of a round: the next one waits for a key, unless q was pressed.
RenderAll ==
    /\ pc \in {"render", "refresh"}
    /\ RenderPanels
    /\ pc' = IF running THEN "getch" ELSE "done"

\* The rendering of file mode after a resize, before the key is handled.
Redraw ==
    /\ pc = "redraw"
    /\ RenderPanels
    /\ pc' = "resized"

\* The status line of the export bar grows old.
Clock ==
    /\ pc # "done" /\ TwoSecondsPass
    /\ UNCHANGED <<listVars, sessionVars, filterBar, listFocus, liveVars, loopVars>>

HandleKey(k) == \/ KeyToExport(k) \/ StartExport(k) \/ KeyToFilter(k)
                \/ PanelKey(k) \/ StartNavigation(k)

Commands == \/ OpenFilter \/ OpenExport \/ Quit \/ EscapeFilter \/ CycleSort \/ ReverseSort
            \/ SwitchFocus \/ SwitchHex \/ Pause \/ Resume \/ NoPause \/ Follow

\* What the loop does by itself once getch() returned.
Round == \/ Poll \/ Tick \/ NoKey
         \/ Commands \/ (\E k \in Key : HandleKey(k))
         \/ FinishExport \/ Navigate \/ CheckBottom
         \/ RenderAll \/ Redraw

\* In live mode getch() returns by itself.
Loop == Round \/ (liveMode /\ Getch)

Finished == pc = "done" /\ UNCHANGED vars

Next == Arrive \/ Getch \/ Resize \/ Round \/ Clock \/ Finished

\* The loop's thread runs and getch() times out (halfdelay) in live mode;
\* the clock goes on.  Nobody has to press a key, and no packet has to come.
Spec == Init /\ [][Next]_vars /\ WF_vars(Loop) /\ WF_vars(Clock)

-----------------------------------------------------------------------------
\* Whatever keys, filters, arrivals and new window sizes came before, a
\* rendering puts the selected row on the screen (scroll_to_selection()).
SelectionOnScreen ==
    [][(pc \in {"render", "refresh", "redraw"} /\ pc' # pc /\ shown > 0)
            => selected \in offset'..(offset' + drawn' - 1)]_vars

\* The "+N new" of the header counts only while the list does not follow the
\* tail, through sorts, pauses and G.
UnseenOnlyWhenReviewing == autoScroll => newSince = 0

\* new_count - last_packet_count_ never goes below zero, where the unsigned
\* subtraction would wrap around: filters change rows, not packets.
PollNeverShrinks == pc = "tick" => polled >= lastCount

\* Packets that come in move the selection only while the list follows them
\* and the display is not paused; otherwise only a key does.
PlaceIsKept ==
    [][selected' # selected => pc \in {"key", "resized", "navigate"} \/ (autoScroll /\ ~paused)]_vars

\* A file that was there before is only written over after y was answered to
\* the question that names it.
OverwriteIsConfirmed ==
    [][\A f \in FileName : (disk[f] = "foreign" /\ disk'[f] # disk[f])
            => exportState = "confirm" /\ exportInput = f]_vars

\* Every packet captured is noticed by the loop, unless the display is paused.
ArrivalsNoticed ==
    \A n \in 1..MaxPackets : (liveMode /\ total >= n) ~> (lastCount >= n \/ paused \/ pc = "done")

\* In live mode, where the loop renders all the time, the status of an export
\* goes away by itself.
StatusIsDismissed == (liveMode /\ exportState = "done") ~> exportState # "done"

\* The status of an export names more packets than are in the file only if the
\* disk was full, and in file mode never fewer: do_export() counts before it
\* writes, so in live mode packets may arrive in between.
StatusIsTrue ==
    /\ status = "more" => disk[exportInput] = "short"
    /\ status = "fewer" => liveMode

\* A key that leaves the selection above the screen, so that the list scrolls
\* up, ends auto-scroll (README.md: "Scrolling up pauses it").
ScrollingUpPauses ==
    [][(pc = "check" /\ key \in UpKeys /\ selected < offset) => ~autoScroll']_vars
=============================================================================
