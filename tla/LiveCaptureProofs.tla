------------------------- MODULE LiveCaptureProofs --------------------------
(***************************************************************************)
(* The shutdown of a live capture, proved: it gets on with every step,     *)
(* nothing runs on after it, and no end of the thread goes unrecorded.     *)
(* The module has no parameters; the proof says why the protocol works     *)
(* where TLC only says that it does.                                       *)
(***************************************************************************)
EXTENDS LiveCapture, TLAPS

\* A thread that runs has the provider it reads from: the application has
\* started it and has not yet passed join().
ThreadHasProvider ==
    /\ pc \notin {"unstarted", "done"} =>
           app \in {"loop", "stopping", "joining", "crashed"} /\ handle = "open"
    /\ app = "opening" => pc = "unstarted"

\* What is appended after stop() was in flight when it came: the thread sees
\* the flag at the next test.
LastInFlight ==
    /\ ~stopRequested => afterStop = 0
    /\ afterStop = 1 => pc \in {"next", "done"}
    /\ afterStop <= 1

\* Whoever waits for the thread has started it and told it to stop.
StopIsRequested ==
    /\ app \in {"loop", "stopping", "joining"} => pc # "unstarted"
    /\ app \in {"joining", "unwinding"} => stopRequested

CaptureLife == TypeOK /\ ThreadHasProvider /\ LastInFlight /\ StopIsRequested /\ NoSilentEnd

\* The application has called stop(), and waits or cleans up.
Ending == app \in {"joining", "unwinding"}

\* The steps the thread has left then, and those of both.
ThreadSteps == CASE pc = "pcap" -> 4 [] pc = "copy" -> 3 [] pc = "append" -> 2
                 [] pc \in {"next", "timeout"} -> 1 [] OTHER -> 0

StepsLeft == CASE app = "joining" -> ThreadSteps + 2 [] app = "unwinding" -> 1 [] OTHER -> 0

-----------------------------------------------------------------------------
\* No step of the thread or the application ends the invariant.
LEMMA StepLife ==
    ASSUME CaptureLife, [Next]_vars
    PROVE  CaptureLife'
<1> USE DEF CaptureLife, TypeOK, Content, ThreadHasProvider, LastInFlight, StopIsRequested,
            NoSilentEnd, appVars, threadVars, Alive
<1>1. CASE Open
  BY <1>1 DEF Open
<1>2. CASE OpenFails
  BY <1>2 DEF OpenFails
<1>3. CASE Render
  BY <1>3 DEF Render
<1>4. CASE Quit
  BY <1>4 DEF Quit
<1>5. CASE Stop
  BY <1>5 DEF Stop
<1>6. CASE Join
  BY <1>6 DEF Join
<1>7. CASE Close
  BY <1>7 DEF Close
<1>8. CASE CheckStop
  BY <1>8 DEF CheckStop
<1>9. CASE PcapPacket
  BY <1>9 DEF PcapPacket
<1>10. CASE PcapTimeout
  BY <1>10 DEF PcapTimeout
<1>11. CASE PcapError
  BY <1>11 DEF PcapError
<1>12. CASE AfterTimeout
  BY <1>12 DEF AfterTimeout
<1>13. CASE Copy
  BY <1>13 DEF Copy
<1>14. CASE Throw
  BY <1>14 DEF Throw
<1>15. CASE Append
  BY <1>15 DEF Append
<1>16. CASE Fault
  BY <1>16 DEF Fault
<1>17. CASE UNCHANGED vars
  BY <1>17 DEF vars
<1> QED
  BY <1>1, <1>2, <1>3, <1>4, <1>5, <1>6, <1>7, <1>8, <1>9, <1>10, <1>11, <1>12, <1>13,
     <1>14, <1>15, <1>16, <1>17 DEF Next, Thread, ShutDown, Finished

\* The invariant of a live capture's life.
THEOREM CaptureInvariant == Spec => []CaptureLife
<1>1. Init => CaptureLife
  <2> SUFFICES ASSUME Init PROVE CaptureLife
    OBVIOUS
  <2>1. stopRequested \in BOOLEAN /\ hasError \in BOOLEAN /\ captureError \in BOOLEAN
    BY Zenon DEF Init
  <2>2. TypeOK
    BY <2>1 DEF Init, TypeOK, Content
  <2>3. ThreadHasProvider /\ LastInFlight /\ StopIsRequested /\ NoSilentEnd
    BY DEF Init, ThreadHasProvider, LastInFlight, StopIsRequested, NoSilentEnd
  <2> QED
    BY <2>2, <2>3 DEF CaptureLife
<1> QED
  BY <1>1, StepLife, PTL DEF Spec

\* After stop() the session gets at most the packet that was in flight.
THEOREM OneAfterStop == Spec => []AtMostOneAfterStop
<1>1. CaptureLife => AtMostOneAfterStop
  BY DEF CaptureLife, LastInFlight, AtMostOneAfterStop
<1> QED
  BY <1>1, CaptureInvariant, PTL

\* The capture never ends by itself without a recorded error.
THEOREM EndsAreRecorded == Spec => []NoSilentEnd
BY CaptureInvariant, PTL DEF CaptureLife

\* The provider outlives every use of it, and nothing runs on after run_live().
THEOREM ProviderOutlivesThread == Spec => []NothingAfterExit
<1>1. CaptureLife => NothingAfterExit
  BY DEF CaptureLife, ThreadHasProvider, NothingAfterExit, TypeOK
<1> QED
  BY <1>1, CaptureInvariant, PTL

\* After stop() every step, of either thread, leaves fewer to go, of which
\* there are at most six, whatever the interface delivers: a stream of packets
\* cannot keep join() waiting, and someone always has the next step.  The only
\* wait is the read timeout of one pcap_next_ex() (CaptureThread.cpp:33-62,
\* LiveCaptureProvider.cpp:60-95).
THEOREM ShutdownIsProgress ==
    Spec => /\ [][Ending => StepsLeft' < StepsLeft]_vars
            /\ [](StepsLeft \in 0..6)
            /\ [](app = "joining" => pc # "unstarted")
<1>1. /\ pc = "pcap" => ThreadSteps = 4
      /\ pc = "copy" => ThreadSteps = 3
      /\ pc = "append" => ThreadSteps = 2
      /\ pc \in {"next", "timeout"} => ThreadSteps = 1
      /\ pc = "done" => ThreadSteps = 0
      /\ ThreadSteps \in 0..4
  BY DEF ThreadSteps
<1>2. /\ app = "joining" => StepsLeft = ThreadSteps + 2
      /\ app = "unwinding" => StepsLeft = 1
      /\ app \notin {"joining", "unwinding"} => StepsLeft = 0
  BY DEF StepsLeft
<1>3. (/\ pc = "pcap" => ThreadSteps = 4
       /\ pc = "copy" => ThreadSteps = 3
       /\ pc = "append" => ThreadSteps = 2
       /\ pc \in {"next", "timeout"} => ThreadSteps = 1
       /\ pc = "done" => ThreadSteps = 0
       /\ ThreadSteps \in 0..4)'
  BY DEF ThreadSteps
<1>4. (/\ app = "joining" => StepsLeft = ThreadSteps + 2
       /\ app = "unwinding" => StepsLeft = 1
       /\ app \notin {"joining", "unwinding"} => StepsLeft = 0)'
  BY DEF StepsLeft
<1>5. StepsLeft \in 0..6
  BY <1>1, <1>2
<1>6. CaptureLife => (app = "joining" => pc # "unstarted")
  BY DEF CaptureLife, StopIsRequested
<1>7. CaptureLife /\ [Next]_vars => [Ending => StepsLeft' < StepsLeft]_vars
  <2> SUFFICES ASSUME CaptureLife, Next, Ending, ~UNCHANGED vars
               PROVE  StepsLeft' < StepsLeft
    OBVIOUS
  <2>1. /\ stopRequested
        /\ app \in {"joining", "unwinding"}
        /\ app = "unwinding" => pc \in {"unstarted", "done"}
    BY DEF CaptureLife, ThreadHasProvider, StopIsRequested, Ending
  <2>2. CASE Join \/ Close
    BY <1>1, <1>2, <1>4, <2>2 DEF Join, Close, threadVars
  <2>3. ASSUME app' = app,
               \/ pc = "next" /\ pc' = "done"
               \/ pc = "pcap" /\ pc' \in {"copy", "timeout", "done"}
               \/ pc = "timeout" /\ pc' = "done"
               \/ pc = "copy" /\ pc' \in {"append", "done"}
               \/ pc = "append" /\ pc' \in {"next", "done"}
        PROVE  StepsLeft' < StepsLeft
    <3>1. app = "joining" /\ app' = "joining"  BY <2>1, <2>3
    <3>2. ThreadSteps' < ThreadSteps  BY <1>1, <1>3, <2>3
    <3>3. ThreadSteps \in Nat /\ ThreadSteps' \in Nat  BY <1>1, <1>3
    <3>4. ThreadSteps' + 2 < ThreadSteps + 2
      <4>1. \A a, b \in Nat : a < b => a + 2 < b + 2  OBVIOUS
      <4> QED  BY <3>2, <3>3, <4>1
    <3> QED  BY <1>2, <1>4, <3>1, <3>4
  <2>4. CASE Thread
    <3>1. CASE CheckStop \/ PcapPacket \/ PcapTimeout \/ PcapError
      BY <2>1, <2>3, <3>1 DEF CheckStop, PcapPacket, PcapTimeout, PcapError, appVars
    <3>2. CASE AfterTimeout \/ Copy \/ Throw \/ Append
      BY <2>1, <2>3, <3>2 DEF AfterTimeout, Copy, Throw, Append, appVars
    <3> QED
      BY <2>4, <3>1, <3>2 DEF Thread
  <2>5. CASE Fault
    BY <1>1, <1>2, <1>4, <2>1, <2>5 DEF Fault
  <2> QED
    BY <2>1, <2>2, <2>4, <2>5 DEF Next, Open, OpenFails, Render, Quit, ShutDown, Stop, Finished
<1> QED
  BY <1>5, <1>6, <1>7, CaptureInvariant, PTL DEF Spec
=============================================================================
