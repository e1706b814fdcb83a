----------------------------- MODULE ExportBar -----------------------------
(***************************************************************************)
(* The export dialog (ExportBar.cpp) and the files it writes.              *)
(***************************************************************************)
EXTENDS Integers, Keys

CONSTANTS FileName,  \* file names a user may type
          NoName     \* the empty input

ASSUME NameAssumption == NoName \notin FileName

VARIABLES exportState,  \* "passive" when not active_, else state_
          exportInput,  \* input_
          expired,      \* two seconds have gone by since the status was set
          count,        \* the rows do_export() counted before it writes
          status,       \* status_message_: "none", "failed", or that of an export
                        \* that names "fewer" packets than were written, "more"
                        \* or the "right" number
          disk          \* what is in the files

exportVars == <<exportState, exportInput, expired, count, status, disk>>

\* A file that was there before, all rows of an export, or only the first ones.
Content == {"absent", "foreign", "exported", "short"}

ExportTypeOK ==
    /\ exportState \in {"passive", "input", "confirm", "done"}
    /\ exportInput \in FileName \cup {NoName}
    /\ expired \in BOOLEAN
    /\ count \in Nat
    /\ status \in {"none", "failed", "fewer", "right", "more"}
    /\ disk \in [FileName -> Content]

ExportInit ==
    /\ exportState = "passive"
    /\ exportInput = NoName
    /\ expired = FALSE
    /\ count = 0
    /\ status = "none"
    /\ disk \in [FileName -> {"absent", "foreign"}]

ExportActive == exportState # "passive"

-----------------------------------------------------------------------------
\* activate()
ExportActivate ==
    /\ exportState' = "input"
    /\ exportInput' = NoName
    /\ UNCHANGED <<expired, count, status, disk>>

\* cancel()
ExportCancel ==
    /\ exportState' = "passive"
    /\ exportInput' = NoName
    /\ UNCHANGED <<expired, count, status, disk>>

\* A character is added: the result may be any name.
ExportType(k) ==
    /\ exportState = "input" /\ k \in Characters
    /\ exportInput' \in FileName
    /\ UNCHANGED <<exportState, expired, count, status, disk>>

\* The last character is taken back, if there is one.
ExportErase(k) ==
    /\ exportState = "input" /\ k = "backspace"
    /\ exportInput' \in IF exportInput = NoName THEN {NoName} ELSE FileName \cup {NoName}
    /\ UNCHANGED <<exportState, expired, count, status, disk>>

\* Arrow keys, Tab and ERR change nothing.
ExportIgnore(k) ==
    /\ exportState = "input" /\ k \notin Characters \cup {"enter", "escape", "backspace"}
    /\ UNCHANGED exportVars

\* Escape, or Enter on an empty name.
ExportGiveUp(k) ==
    /\ exportState = "input"
    /\ k = "escape" \/ (k = "enter" /\ exportInput = NoName)
    /\ ExportCancel

\* attempt_export() of a file that exists.
AskOverwrite(k) ==
    /\ exportState = "input" /\ k = "enter" /\ exportInput # NoName
    /\ disk[exportInput] # "absent"
    /\ exportState' = "confirm"
    /\ UNCHANGED <<exportInput, expired, count, status, disk>>

\* Every key but y, no key at all included, takes the question back.
RefuseOverwrite(k) ==
    /\ exportState = "confirm" /\ k # "yes"
    /\ ExportCancel

\* The status is put away.  What input_, the message and its time keep then is
\* read by nobody before the next activate() and do_export() set them.
PutAway ==
    /\ exportState' = "passive"
    /\ exportInput' = NoName
    /\ expired' = FALSE
    /\ status' = "none"
    /\ UNCHANGED <<count, disk>>

\* Any key does.
DismissStatus == exportState = "done" /\ PutAway

\* Mutant of MayExport: the file is written whether it exists or not.
MayExportAlways(k) ==
    \/ exportState = "input" /\ k = "enter" /\ exportInput # NoName
    \/ exportState = "confirm" /\ k = "yes"

\* attempt_export() of a new file, or the confirmation.
MayExport(k) ==
    \/ exportState = "input" /\ k = "enter" /\ exportInput # NoName
          /\ disk[exportInput] = "absent"
    \/ exportState = "confirm" /\ k = "yes"

\* do_export() counts the rows first.
CountRows(rows) ==
    /\ count' = rows
    /\ UNCHANGED <<exportState, exportInput, expired, status, disk>>

\* Then export_to_pcap() goes through the view and writes every row of it, or
\* it cannot open the file.  Only the first n rows get into the file when the
\* disk is full, which write_packet() does not notice.
Export(rows) ==
    /\ \/ \E n \in 0..rows :
             /\ disk' = [disk EXCEPT ![exportInput] = IF n = rows THEN "exported" ELSE "short"]
             /\ status' = CASE count < n -> "fewer" [] count = n -> "right"
                            [] count > n -> "more"
       \/ /\ status' = "failed"
          /\ UNCHANGED disk
    /\ exportState' = "done"
    /\ expired' = FALSE /\ count' = 0
    /\ UNCHANGED exportInput

\* handle_key(), but for the export itself.
ExportKey(k) == \/ ExportType(k) \/ ExportErase(k) \/ ExportIgnore(k) \/ ExportGiveUp(k)
                \/ AskOverwrite(k) \/ RefuseOverwrite(k) \/ DismissStatus

\* The clock of the status message.
TwoSecondsPass ==
    /\ exportState = "done" /\ ~expired
    /\ expired' = TRUE
    /\ UNCHANGED <<exportState, exportInput, count, status, disk>>

\* Mutant of RenderExport: a status that has expired stays.
RenderExportForever == UNCHANGED exportVars

\* render(): a status that has expired is put away.
RenderExport ==
    IF exportState = "done" /\ expired THEN PutAway ELSE UNCHANGED exportVars
=============================================================================
