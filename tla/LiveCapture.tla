---------------------------- MODULE LiveCapture ----------------------------
(***************************************************************************)
(* The life of a live capture: the capture thread (CaptureThread.cpp), the *)
(* provider it reads from (LiveCaptureProvider.cpp), libpcap below it, and *)
(* the part of the application that starts, stops and joins the thread     *)
(* (App::run_live).  The session is only seen through what is appended to  *)
(* it last.                                                                *)
(*                                                                         *)
(* The thread's run() is cut where another thread can act in between: the  *)
(* test of the stop flag, pcap_next_ex(), the second test after a timeout, *)
(* the copy of the bytes, and the append.                                  *)
(***************************************************************************)
EXTENDS Integers

VARIABLES app,            \* where run_live() is
          handle,         \* handle_: "none", "open" or "closed"
          stopRequested,  \* stop_requested_
          providerError,  \* error_ of the provider: "none", a "warning" or "fatal"
          pc,             \* where the capture thread is
          raw,            \* what the thread's RawPacket points to
          hasError,       \* has_error_ of the thread
          captureError,   \* capture_error_ of the application is not empty
          header,         \* what the header shows: "status" or the "error"
          appended,       \* what the packet appended last was made from
          afterStop       \* appends since stop(), counted up to 2

vars == <<app, handle, stopRequested, providerError, pc, raw, hasError,
          captureError, header, appended, afterStop>>

Content == {"uninitialised", "packet", "stale"}

TypeOK ==
    /\ app \in {"opening", "loop", "stopping", "joining", "unwinding", "exited", "crashed"}
    /\ handle \in {"none", "open", "closed"}
    /\ stopRequested \in BOOLEAN
    /\ providerError \in {"none", "warning", "fatal"}
    /\ pc \in {"unstarted", "next", "pcap", "timeout", "copy", "append", "done"}
    /\ raw \in Content
    /\ hasError \in BOOLEAN
    /\ captureError \in BOOLEAN
    /\ header \in {"status", "error"}
    /\ appended \in Content \cup {"nothing"}
    /\ afterStop \in 0..2

Init ==
    /\ app = "opening"
    /\ handle = "none"
    /\ stopRequested = FALSE
    /\ providerError = "none"
    /\ pc = "unstarted"
    /\ raw = "uninitialised"
    /\ hasError = FALSE
    /\ captureError = FALSE
    /\ header = "status"
    /\ appended = "nothing"
    /\ afterStop = 0

appVars == <<app, handle, stopRequested, captureError, header>>
threadVars == <<pc, raw, hasError, appended, afterStop>>

-----------------------------------------------------------------------------
(* The application. *)

\* The provider opens the interface, with or without a warning kept in
\* error_, and run_live() starts the thread.
Open ==
    /\ app = "opening"
    /\ handle' = "open"
    /\ providerError' \in {"none", "warning"}
    /\ app' = "loop"
    /\ pc' = "next"
    /\ UNCHANGED <<stopRequested, captureError, header, raw, hasError, appended, afterStop>>

\* pcap_open_live() fails: run_live() prints the error and returns.
OpenFails ==
    /\ app = "opening"
    /\ providerError' = "fatal"
    /\ app' = "exited"
    /\ UNCHANGED <<handle, stopRequested, captureError, header, threadVars>>

\* An iteration of the event loop: tick_live() stores nothing about the
\* thread, and render_header() shows capture_error_ if it is not empty.
Render ==
    /\ app = "loop"
    /\ header' = IF captureError THEN "error" ELSE "status"
    /\ UNCHANGED <<app, handle, stopRequested, captureError, providerError, threadVars>>

\* 'q': running_ is cleared and the loop ends.
Quit ==
    /\ app = "loop"
    /\ app' = "stopping"
    /\ UNCHANGED <<handle, stopRequested, captureError, header, providerError, threadVars>>

\* provider.stop()
Stop ==
    /\ app = "stopping"
    /\ stopRequested' = TRUE
    /\ app' = "joining"
    /\ UNCHANGED <<handle, captureError, header, providerError, threadVars>>

\* Mutant of Join: the application does not wait for the thread.
JoinDetached ==
    /\ app = "joining"
    /\ app' = "unwinding"
    /\ UNCHANGED <<handle, stopRequested, captureError, header, providerError, threadVars>>

\* capture.join() returns once run() has returned.
Join ==
    /\ app = "joining" /\ pc = "done"
    /\ app' = "unwinding"
    /\ UNCHANGED <<handle, stopRequested, captureError, header, providerError, threadVars>>

\* run_live() returns: the locals are destroyed, the provider among them.
Close ==
    /\ app = "unwinding"
    /\ handle' = "closed"
    /\ app' = "exited"
    /\ UNCHANGED <<stopRequested, captureError, header, providerError, threadVars>>

-----------------------------------------------------------------------------
(* The capture thread; it makes no step once the process is gone. *)

Alive == app # "crashed"

\* Mutant of CheckStop: the stop flag is not tested before pcap_next_ex().
CheckStopNever ==
    /\ Alive /\ pc = "next"
    /\ pc' = "pcap"
    /\ raw' = IF raw = "packet" THEN "stale" ELSE raw
    /\ UNCHANGED <<appVars, providerError, hasError, appended, afterStop>>

\* next_packet() up to the call of pcap_next_ex(), which invalidates the bytes
\* the last call returned.
CheckStop ==
    /\ Alive /\ pc = "next"
    /\ IF stopRequested
       THEN pc' = "done" /\ UNCHANGED raw
       ELSE /\ pc' = "pcap"
            /\ raw' = IF raw = "packet" THEN "stale" ELSE raw
    /\ UNCHANGED <<appVars, providerError, hasError, appended, afterStop>>

\* pcap_next_ex() returns 1: a packet.
PcapPacket ==
    /\ Alive /\ pc = "pcap"
    /\ raw' = "packet"
    /\ pc' = "copy"
    /\ UNCHANGED <<appVars, providerError, hasError, appended, afterStop>>

\* pcap_next_ex() returns 0: the read timed out; out is left as it was.
PcapTimeout ==
    /\ Alive /\ pc = "pcap"
    /\ pc' = "timeout"
    /\ UNCHANGED <<appVars, providerError, raw, hasError, appended, afterStop>>

\* pcap_next_ex() returns -1: the thread's loop ends.
PcapError ==
    /\ Alive /\ pc = "pcap"
    /\ providerError' = "fatal"
    /\ pc' = "done"
    /\ UNCHANGED <<appVars, raw, hasError, appended, afterStop>>

\* Mutant of AfterTimeout: a timeout ends the loop.
AfterTimeoutGivesUp ==
    /\ Alive /\ pc = "timeout"
    /\ pc' = "done"
    /\ UNCHANGED <<appVars, providerError, raw, hasError, appended, afterStop>>

\* After a timeout next_packet() returns whether to go on, and run() treats
\* "go on" like a packet.
AfterTimeout ==
    /\ Alive /\ pc = "timeout"
    /\ pc' = IF stopRequested THEN "done" ELSE "copy"
    /\ UNCHANGED <<appVars, providerError, raw, hasError, appended, afterStop>>

\* The bytes RawPacket points to are copied and dissected.
Copy ==
    /\ Alive /\ pc = "copy"
    /\ pc' = "append"
    /\ UNCHANGED <<appVars, providerError, raw, hasError, appended, afterStop>>

\* Copying throws: memory is exhausted, or an uninitialised length is absurd.
\* So may the append.  run() catches it, remembers it and returns.
Throw ==
    /\ Alive /\ pc \in {"copy", "append"}
    /\ hasError' = TRUE
    /\ pc' = "done"
    /\ UNCHANGED <<appVars, providerError, raw, appended, afterStop>>

\* Reading through a pointer that is uninitialised, or into a buffer libpcap
\* has taken back, may also end the process.
Fault ==
    /\ Alive /\ pc = "copy" /\ raw # "packet"
    /\ app' = "crashed"
    /\ UNCHANGED <<handle, stopRequested, captureError, header, providerError, threadVars>>

\* model_.append_packet()
Append ==
    /\ Alive /\ pc = "append"
    /\ appended' = raw
    /\ afterStop' = IF stopRequested /\ afterStop < 2 THEN afterStop + 1 ELSE afterStop
    /\ pc' = "next"
    /\ UNCHANGED <<appVars, providerError, raw, hasError>>

-----------------------------------------------------------------------------
Thread == CheckStop \/ PcapPacket \/ PcapTimeout \/ PcapError \/ AfterTimeout
             \/ Copy \/ Throw \/ Append

ShutDown == Stop \/ Join \/ Close

Finished == app \in {"exited", "crashed"} /\ UNCHANGED vars

Next == Open \/ OpenFails \/ Render \/ Quit \/ ShutDown \/ Thread \/ Fault \/ Finished

\* The operating system runs the thread, and pcap_next_ex() comes back within
\* its timeout; the event loop wakes up every 100 ms (halfdelay), and the
\* shutdown is straight-line code.  Nothing makes the user
\* quit, packets arrive, or anything fail.
Fairness == WF_vars(Thread) /\ WF_vars(ShutDown) /\ WF_vars(Render)

Spec == Init /\ [][Next]_vars /\ Fairness

-----------------------------------------------------------------------------
\* After stop() the session still gets at most the packet already in flight.
AtMostOneAfterStop == afterStop <= 1

\* The thread ends only because it was told to or because of an error that was
\* recorded: a timeout alone never ends the capture.
NoSilentEnd == (pc = "done" /\ ~stopRequested) => (hasError \/ providerError = "fatal")

\* The handle is open whenever the thread uses it, and once run_live() returns
\* nothing touches the provider or the session any more.
NothingAfterExit ==
    /\ pc \notin {"unstarted", "done"} => handle = "open"
    /\ app = "exited" => pc \in {"unstarted", "done"}

\* Quitting always gets out: stop() ends the thread within one read timeout,
\* also under a stream of packets that never lets a read time out.
QuitEnds == app = "stopping" ~> app \in {"exited", "crashed"}

\* A packet appended to the session is one the interface delivered, still
\* valid: what "pulls packets from a LiveCaptureProvider" promises.
OnlyPacketsAppended == appended \in {"nothing", "packet"}
=============================================================================
