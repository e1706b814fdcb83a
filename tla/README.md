# pktlens: a TLA+ model of the packet viewer

pktlens shows packets in a terminal, from a capture file or live from a network
interface.  This directory holds TLA+ modules that model its session, its
capture thread, its event loop and panels, its dissectors and its filter
language, TLC configurations that check them on small instances, and proofs
that TLAPS checks for every value of the parameters.  `src/` stands for the
repository below; paths such as `ui/App.cpp` are relative to `src/src/`.

    tlc -config MCApp.cfg MCApp.tla        model-check one configuration
    tlapm AppProofs.tla                    check the proofs of one module

## 1. The system

| Component | State it keeps | Operations | What makes it correct |
|---|---|---|---|
| `PacketStore` (model/) | packets in order of arrival, the view (indices of the rows shown), sort field and direction | append, load_from_vector, apply_filter, clear_filter, sort, reset_view | the view lists the accepted packets, each once, in the announced order |
| `SessionModel` (session/) | the store, raw bytes per packet, filter node, expression and error, selected row and its tree | load, append_packet, select, apply_filter, clear_filter, sort operations, export_to_pcap | bytes, packets and tree agree; the selected row exists; a bad filter changes nothing; an export writes what is shown |
| `CaptureThread`, `LiveCaptureProvider` (capture/) | pcap handle, stop flag, errors, a `RawPacket` reused for every read | start, run, next_packet, stop, join, destructor | only delivered packets are appended; stop ends the thread; the provider outlives it; an end is recorded |
| `App` (ui/) | mode, focus, paused, auto-scroll, packets counted, unseen packets, running | run, run_live, tick_live, toggle_pause, handle_key, layout, render_all | arrivals are noticed; they do not disturb a user who reads; keys go to one component |
| `PacketListPanel` | scroll offset | navigation keys, render, scroll_to_bottom, is_at_bottom | the selected row is on the screen after every rendering |
| `ExportBar` | dialog state, file name, status line and its time | activate, handle_key, attempt_export, do_export, render | no silent overwrite; the status is true and goes away |
| `FilterBar` | whether active, text, cursor, error | activate, handle_key, render | Enter applies, clears or reports; Escape leaves everything |
| filter language (filter/) | none | tokenize, parse_filter, evaluate | the parser accepts the grammar, builds the left-to-right tree, never throws |
| `DetailPanel` | hex or tree mode, two scroll positions, lines counted at the last rendering | keys, render | the panel is filled, each key moves what is seen as it says |
| `PcapFileProvider`, `PcapWriter` | a pcap handle | next_packet, write_packet | every record of the file once; write errors reported |
| dissectors | the flat packet and the tree they fill | dissect, one call inside another for each layer | no read past the captured length; tree, summary and filters agree; they end |
| `Window`, `TerminalGuard`, `main` | ncurses and its cleanup | - | - |

How they interact.  `App::run()` loads a file into the session and then
alternates between a blocking `getch()`, `handle_key()` and `render_all()`.
`App::run_live()` opens the provider, starts the capture thread and does the
same with a `getch()` that times out after 100 ms, `tick_live()` in between.
`handle_key()` gives a key to the export bar, the filter bar, the commands and
the focused panel, in this order; all of them call the session.  The capture
thread calls `append_packet()` on the same session.  Comments in the session
and the store rely on a mutex for that; no code has one.

What is hard here:

- *two threads without a lock*: `append_packet()` runs between any two steps of
  the user's operations (LiveSession) and of the event loop (App);
- *shutdown*: stop flag, a blocking read and `join()` (LiveCapture);
- *errors of one thread that the other should show* (LiveCapture);
- *values cached between steps*: selected row and tree under a view that
  shrinks (SessionModel), a scroll offset that only rendering moves, packet
  counts taken by one round and used by the next (App);
- *time*: the export's status line, `getch()` with and without timeout (App);
- *scroll positions kept over what they are positions in*: another packet,
  another height, a panel that shows nothing (DetailPanel);
- *arithmetic on lengths that the packet itself gives*, different in each
  dissector, and one variable (`top_proto`) that all of them write (Dissect);
- *a recursive parser* fed with half-typed text (FilterParser).

## 2. Modules

| Module | Models | Uses |
|---|---|---|
| `PacketTable` | abstract: a table of the accepted packets with a cursor | - |
| `PacketStore` | `model/PacketStore` | - |
| `SessionModel` | `session/SessionModel`, one call at a time | PacketStore; refines PacketTable |
| `LiveSession` | the session under two threads, step by step | PacketStore |
| `LiveCapture` | `capture/CaptureThread`, `capture/LiveCaptureProvider`, start and end of `App::run_live` | - |
| `Keys` | the keys told apart | - |
| `ListPanel` | `ui/PacketListPanel` | Keys |
| `ExportBar` | `ui/ExportBar` and the files | Keys |
| `App` | `ui/App` in both modes, `ui/FilterBar` | ListPanel, ExportBar |
| `DetailPanel` | `ui/DetailPanel` in the event loop | - |
| `Layers` | what the dissectors share: the call, `ParsedPacket`, `ProtocolTree` | - |
| `NetworkLayers` | `EthernetDissector` to `UdpDissector` | Layers |
| `AppLayers` | `AppDissectors` | Layers |
| `FilterNodes` | `ProtoNode` of `filter/FilterNodes` | - |
| `Dissect` | `dissect()`, from the first byte to the last call | NetworkLayers, AppLayers, FilterNodes |
| `FilterParser` | `filter/FilterParser`, `AndNode`, `OrNode`, `NotNode` | - |
| `FilterGrammar` | reference: all that the grammar derives of a text, with the trees | FilterParser |
| `*Proofs` | theorems of the module they are named after | that module |
| `MC*` | instances for TLC | that module |

### Session

`packets`, `view`, `sortField`, `sortDir` are the store's members.  Indices
count from 1, so `selectedIndex` is `selected_index_ + 1`.  A packet stands for
its bytes, its parsed form and its tree at once; `Key[f][p]` is what the
comparator of sort field `f` reads of it.  A filter node is the set of packets
it accepts, `Parse[e]` what an expression parses to, `Malformed` for one that
does not.  Each public operation is one action with all it calls: `ApplyFilter`
is parse, node, `reapply_filter()`, the sort inside and the selection at its
end.  `StoreAppend` is the push to the back whatever the order, as in the code.
The descending comparator negates *less*, so equal packets compare less both
ways; `Sorts` lets them come in any order, stable or not.  The header shows the
expression last accepted; `RowsMatchHeader` holds the rows against what that
expression parses to, not against the node.  `ExportIsFaithful` is about the
file as a whole: a part of it is the beginning of a table that lists every
accepted packet once, in the announced order.

`PacketTable` is the promise: rows are the accepted packets, the cursor is on
one of them, and an arrival does not move it.  `ImplementsTable` maps a row to
the index of its packet and the cursor to `view[selectedIndex]`.

### Session under two threads

`LiveSession` cuts `append_packet()` after the push of the bytes, the read of
the node pointer, the push of the packet, the evaluation and the push to the
view (`PushRaw`, `ReadNode`, `PushPacket`, `Evaluate`, `PushView`), and
`apply_filter()` and `clear_filter()` into the release of the node, the start
of the rebuild, each round of its loop, the sort and the selection.  `cap` and
`ui` are the two threads' program counters and locals.  A node carries a serial
number, so that a freed one can be told from a new one; evaluating a freed node
may answer anything.  The loop of `reset_view()` goes up to `packets_.size()`,
read anew in each round, over a view sized before: `FillOne` may write behind
the view's end.  Such a write either hits spare capacity and does no harm or
breaks the memory (`intact`), after which nothing is claimed.
`overlapped` is a history variable: the packets whose append overlapped the
user's latest operation.  `OverlapsAreContained` says that the damage is limited
to those.  It is as much as holds: the packets it excepts are shown wrongly, and
the write behind the end happens, in behaviours of this model.  Sorting by a key
is not a step of this module (the sort inside a rebuild is).  That vectors are
reallocated under a reader is not modelled: it is one more way for the missing
lock to go wrong, and not needed to see the ones found.

### Capture

`LiveCapture` has the application's place in `run_live()` (`app`), the thread's
place in `run()` and `next_packet()` (`pc`), the flags between them, and what
the reused `RawPacket` points to: a packet, nothing yet, or bytes libpcap has
taken back since (`raw`).

### Event loop

`App` sees the session through the numbers the interface asks it for: packets,
rows, selected row.  A filter may accept any number of rows.  `pc` is the place
in the loop: `getch`, then in live mode `poll` and `tick`, then `key`, the
steps of a key that packets may arrive between (`navigate`, `check`, `export`),
then `render`.  The keys `s` and `r` both sort and, by `set_sort()`, select the
first row (`SelectFirst`): in a scrolled list a jump that the next rendering has
to follow.  `h` reaches the detail panel from either focus.  `Arrive` may happen at any of them.  Keys are those the program
tells apart (`Keys`); `Resize` is the signal that makes `getch()` return early,
after which file mode renders once more and passes ERR on (`resized`).
`liveMode` is chosen at the start, so that every run covers both modes.  An
export is two steps, the count for the message and the writing, and its status
is known as right, naming fewer or more packets than were written.  A file is
absent, foreign (there before), exported, or short: `write_packet()` does not
notice a full disk, so the writing may stop after any row.  `SessionModel` has
the same fault.

### Detail panel

A packet is what its two views are long: layers and fields of the tree, bytes
of the dump.  `hexScroll`, `treeScroll`, `totalTreeLines` are the members;
`top` and `drawn` are what the last rendering put on the screen.  `pc` is the
place in the loop, as in `App`: a resize makes file mode render before the key
(`redraw`), `tick_live()` may select a packet between the screen the user saw
and the key.  `Arrive` is the first row of a live view, selected without its
tree.  `handle_key()` is one action per kind of key, `render()` one with its
three outcomes.  `moved` is a history variable: another packet or height since
the last rendering that no key asked for.

### Dissection

Each dissector passes the bytes behind its header to the next one, in a chain
of calls that return at once; a layer has at most one layer inside.  So the
tree is a sequence of layers, from the outside in, and the state of the program
is one call: `data`, `len` and `offset` are its arguments, `pos`, `ptr` and
`count` its locals, `pc` the dissector or the loop in it, `arg` what it goes
by.  The bytes are arbitrary: where the code reads a byte and branches, the
step chooses.  What is kept exact is every length, place and comparison:
`Extent(n)` says whether n bytes of the layer end inside the packet, `reads`
remembers whether one was read outside, `fields` whether a field of the layer
reaches outside.  `offset` is cut to 16 bits as in the code, `data` is not.  Each
call of the next dissector is a `Pass` with the caller's own three expressions
for pointer, length and offset, as the code has them at that call: guarded or
not, of `ihl`, of labels read, of the header's eighths.  `OffsetIsPlace` relates
them; the fields are judged by the true place (`data`), so that the offset of a
field that wraps in a jumbo capture is not caught by `FieldsDescribeBytes`.
`pkt` has the members of `ParsedPacket` that filters ask: `top_proto`, whether
addresses and ports are those of a header, `is_ipv6`.  The Unset layer is the
`Node` whose protocol no constructor sets, which a dissector that gives up
leaves in the tree.

`dissect()` runs for the summary when a packet is stored and again for the
tree when it is selected; the properties relate the two results, and both to
the protocol words of a filter (`ProtoNode`).

That it ends is stated as a measure (`Remaining`, `EveryStepCounts`): a DNS name
may point back or to itself, so that bytes ahead alone do not fall, and the
number of pointers followed comes before them, and the questions and answers
still to be read before both.

### Filter language

A text is its sequence of tokens, with words the program treats alike as one
token.  The calls of `parse_expr()` and `parse_term()` within each other are a
stack (`calls`): a call that waits is for the first term of an expression, for
the one behind an operator (with the node built so far), or for what follows
`not` or `(`.  `at` is the place between two calls, and each action goes from
one call or return to the next: `Not`, `Open`, `Atom` begin a term, `First`,
`Join`, `Operator`, `ExprEnds` are the body of `parse_expr()`, `Negate` and
`Close` the rest of `parse_term()`, `Fail` hands `nullptr` on.  `parse_atom()`
calls neither function and is one step.  The nodes made are numbered, so that a
pointer to a node is a number; `parsed` is a history variable, what was returned
for which tokens.

The grammar is stated twice, both times without a look at the parser.
`Derived` says of one thing found which rule made it of which others: the nodes
the parser returns are sound.  `Derivable` in `FilterGrammar` is the set of all
terms and expressions in a text with their trees, by recursion over the number
of tokens: what the grammar derives is also accepted, and has one tree only.

## 3. Runs

| Run | Configuration | What it shows |
|---|---|---|
| session | MCSessionModel | All sequences of operations on up to three packets keep view, header, filter, selection and tree consistent, and an export writes the beginning of the table; the session implements PacketTable. |
| dissect | MCDissect | Reads and fields stay in the packet, tree, summary and protocol filters agree, and every dissection ends, for packets cut anywhere. |
| detail | MCDetailPanel | The panel is filled, `End` shows the end, arrow keys move by a line, whatever happened before. |
| live_capture | MCLiveCapture | At most one packet after stop; no end without a record; nothing runs on after the shutdown; quitting ends. |
| phantom | MCPhantom | *Violated*: a read timeout appends a packet that was never delivered. |
| live_session | MCLiveSession | What survives the missing lock: bytes for every packet, a selected row, rows that exist, and every packet shown rightly that was not appended during the user's latest operation. |
| node_is_alive | MCNodeIsAlive | *Violated*: the capture thread may evaluate a freed filter node. |
| app | MCApp | Selection on screen, place kept, counters, confirmed overwrites and true status messages, with arrivals between any two steps, both modes. |
| app_liveness | MCAppLiveness | In live mode every packet is noticed, and the export's status goes away. |
| scrolling_up | MCScrollingUp | *Violated*: scrolling up does not end auto-scroll. |
| filter | MCFilterParser | The parser accepts exactly the grammar and builds its trees, never runs past its tokens, gets on with every step, and reads `and`/`or` from left to right. |
| filter_throws | MCFilterThrows | *Violated*: a number too large for `unsigned long` makes it throw. |

A violated run checks one statement of the repository's own documents or
comments, and its counterexample is a behaviour of the code as it is.

### Bounds

- *session*: three packets, all sequences of them up to length three, so that a
  packet may occur twice; keys such that each sort field orders them
  differently and two packets tie; filters that accept none and two of three,
  and an expression that does not parse.  Every shrinking of the view and every
  tie is reached; a fourth packet adds no new relation between two rows.
- *live_session*: two packets with equal time, filters that accept one and
  none, three arrivals: enough for an arrival before, during and after a
  rebuild, and for two during one.
- *live_capture*: finite without bounds, except that appends after stop are
  counted up to two.
- *app*: three packets on a list of two or three visible rows, so that it
  scrolls, with a page shorter than it; one file name, which may exist
  beforehand.  A second name would only double the states: no step relates two.
- *app_liveness*: two packets and one height; the properties are about single
  packets and the status line.
- *filter*: seven tokens of operators, parentheses and a protocol, four of any
  kind.  Four tokens are one more than the longest atom; seven hold two binary
  operators with a `not` and parentheses around either.
- *dissect*: packets cut at and beside the ends of the headers, with one or two
  ports for each service and for pairs of services; at most two tags or label
  stacks around each other (`MaxTags`), header lengths of four to six words,
  lengths in the packet of zero, one, five and twenty.  `OffsetSpan` is 128
  instead of 2^16, so that offsets wrap in packets that TLC can enumerate.
- *detail*: panels of one, two and four lines, packets that have no bytes, no
  tree, fit into some of the panels and into none.  `MaxScroll` bounds the
  presses while nothing is shown; elsewhere rendering bounds the positions.

### Fairness

Safety runs need none.  *live_capture* assumes that the thread is scheduled and
that `pcap_next_ex()` returns within its read timeout (which
`LiveCaptureProvider` sets), that the loop renders (its `getch()` times out) and
that the shutdown's straight-line code runs; nobody has to quit and nothing has
to fail.  *app_liveness* assumes the same of the loop in live mode only: in file
mode `getch()` blocks, so no fairness is given to it, and that the clock goes
on.  No key is ever assumed, and no packet.  *filter* and *dissect* state
that they end without fairness, as a measure that falls with every step: they
are sequential code that waits for nothing, so the steps are taken.

## 4. Proofs

All theorems hold for every set of packets, filters, keys, window heights and
file names, every length in a packet and of a text, and every bound, under the
ASSUMEs of the modules: types of the constants, special values that are not among the ordinary
ones, and a list and a panel of at least three lines (what `App::layout()`
gives them).

| Theorems | Argument |
|---|---|
| `PacketStoreProofs` (lemmas) | What an append, a rebuild and a sort do to the range, the injectivity and the order of the view. |
| `SessionInvariant`, `TypeCorrect`, `ViewIsExact`, `SelectionIsInView`, `TreeIsAlwaysTheSelected`, `ViewIsInOrder`, `RowsAlwaysMatchHeader`, `BytesStayInSync`, `ExportIsAlwaysFaithful`, `SessionImplementsTable` (`SessionModelProofs`) | The invariants of the run are inductive only together: the tree is that of the selection only if the selected row exists and bytes and packets agree; the order survives an append only with the view's indices increasing when sorted by time; the refinement needs all of them for the cursor.  `RowsAlwaysMatchHeader` follows from `ViewIsExact` and `FilterIsDisplayed`, that the node is what the expression displayed parses to.  For `ExportIsAlwaysFaithful` the view itself is the table the file is a beginning of: it lists each accepted packet once (`ViewExact`), in order (`ViewInOrder`), and bytes and packets agree (`RawInSync`). |
| `LiveInvariant`, `BytesAreAlwaysThere`, `SelectedRowAlwaysExists`, `OverlapsStayContained` (`LiveSessionProofs`) | `CaptureInv` says for each place of the capture thread how far bytes are ahead of packets and what its index means; `UserInv` does so for a rebuild under way.  Because packets are only ever added, and the view shrinks in the user's thread only, no interleaving makes a row dangle.  `SettledInv` carries `OverlapsStayContained`: a packet being appended during an operation is among those that overlap it (`AppendOverlaps`), one appended between operations is judged by the filter that is active and gets its first row last (`AppendIsRight`), and for each place of a rebuild the packets it has dealt with and that do not overlap it have the row they should (`LoopIsRight`, `FillIsRight`, `RestIsRight`).  The view of `reset_view()` can only be too short for the loop by packets that came since, which is why a write outside of it needs an overlap. |
| `CaptureInvariant`, `OneAfterStop`, `EndsAreRecorded`, `ProviderOutlivesThread`, `ShutdownIsProgress` (`LiveCaptureProofs`) | A running thread implies an application before the end of `join()` and an open handle; a packet appended after stop leaves the thread just before the test of the flag. `ShutdownIsProgress`: whoever waits in `join()` waits for a thread that was started and told to stop (`StopIsRequested`), and then each step of either thread leaves fewer to go, at most six to begin with. |
| `AppInvariant`, `TypeCorrect`, `UnseenCounts`, `NoWrapAround`, `StatusTrue`, `SelectionShown`, `PlaceKept`, `OverwriteConfirmed` (`AppProofs`) | `CountsInOrder`: counts taken are never more than there are packets now, and a poll is no less than the count before.  `ExportUnderWay`: between the count and the writing the leave to write still holds and rows were only added.  `PollIsUnpaused` and `SelectionExists` carry the three action properties, which follow from the invariant and one step. |
| `Invariance`, `TypeCorrect`, `HiddenAtTop`, `PanelIsFilled`, `EndReachesTheEnd`, `KeysMoveTheView` (`DetailPanelProofs`) | `OnScreen`: while nothing else changed since a rendering, the position is where the screen begins and the lines counted are those of the tree; `Pressed`: where a key went from there.  The properties of a rendering follow from these and its limits; without them a position says nothing about the screen. |
| `Invariance`, `TypeCorrect`, `ReadsStayInside`, `OffsetsAreRight`, `FieldsLieInPacket` (`DissectProofs`) | `Call`: the place of a call and the length it is given add up to the packet, and the offset is the place modulo its width; it survives a call in which pointer, length and offset move together (`PassBy`, `PassKeeps`), and that the three expressions of a caller do so is shown call by call, for the forms they have by `BehindMoves`, `SameMoves` and `CutMoves` (on `ModAdd`); `Loop`: how far each loop's positions are within that length, which the positions in a TLS hello are not while its parts are skipped.  `Innermost`: whose fields a loop adds to. |
| `TreeInvariance`, `LayersHaveFields`, `SummaryIsFromLayers`, `AcceptedHasLayer`, `TransportIsAccepted` (`DissectProofs`) | `Shape`: every layer but the innermost has fields, and where that one may lack them; `Outside`: which layers a dissector was reached through, and how little the summary says before TCP or UDP; `Inside`: that an application's dissector has named the packet when it loops or returns, or found it too short; `Carried` and `Summary`: whatever the summary names is held.  None of the five is inductive alone: a step that writes the summary relies on what the callers have put into the tree. |
| `EveryStepIsProgress` (`DissectProofs`) | `Measures`: what is left to do, as the phase of the calls, the rounds of the loop around others, the pointers in a name and the bytes ahead, compared in this order.  Each step makes one of them fall and leaves those before it; that a stack of labels hands on fewer bytes than it got needs `Shape`, by which at least one label was read.  All four are natural numbers (`Numbered`), so that every dissection ends. |
| `Invariance`, `StaysInTokens`, `NodesAreDerived`, `ChainsReadLeftToRight`, `EveryStepIsProgress` (`FilterParserProofs`) | `Nested`: each waiting call was made by the one below it, where that one needs it; `Current`: what a call returns is what the one on top needs, a term or an expression of the tokens in between.  So the premises of the grammar's rule are there when a node is made (`Derivation`), and in a chain of protocols a node is true where the reading from left to right is (`Chain`, by the same steps).  `EveryStepIsProgress`: a measure of tokens left, calls waiting and the place falls with every step and is a natural number, so that parsing ends. |
| `AcceptsExactlyTheGrammar`, `OnlyHugeNumbersThrow` (`FilterParserProofs`) | What is accepted is derived, by `Made` (nodes point to earlier ones, so every node has a tree) and `Derivation`, by induction over the tokens spanned.  What is rejected is not: by `Complete`, where `nullptr` comes back no term begins at that token, or every expression from there has an operator behind it that no term follows.  A parser that never goes back may conclude so only because of two expressions from one token the longer goes on with an operator (`GoesOn`); this, that terms with the same beginning are the same (`OneTerm`) and that expressions of the same tokens are (`OneExpr`) are shown together by induction over sizes, each for the next size from the others (`Unambiguous`).  Together with `EveryStepIsProgress`: `parse_filter()` answers every text, and rightly, but for the numbers `stoul()` throws at. |

Only model-checked:

- what is temporal under fairness (`QuitEnds`, `ArrivalsNoticed`,
  `StatusIsDismissed`), which is beyond the prover.  The step count of
  `ShutdownIsProgress` is the safety half of `QuitEnds` after `stop()`; that the
  steps are taken is the fairness above.

The library's theorems on induction and recursive functions take an operator,
which the provers here do not instantiate.  `FilterParserProofs` goes another
way: `SetInduction` says of a *set* of numbers that it is all of them, from the
well-foundedness of `<`, and `RecursionIsDefined` that the two recursive functions
of `FilterGrammar` exist, so that `Derivable` and `Trees` are what their
equations say.

`BytesStayInSync`, `SelectionIsInView`, `NoWrapAround` and `HiddenAtTop` are
proved and not part of a run.

## 5. Where code and documents disagree

1. `capture/LiveCaptureProvider.cpp:83` reports a timeout as a success without
   a packet, and `CaptureThread::run()` appends one made from whatever the
   `RawPacket` held (phantom).
2. `session/SessionModel.cpp:274` relies on a mutex that does not exist
   (node_is_alive).
3. `ui/App.cpp:521` compares `is_at_bottom()` before and after a key, but the
   offset it reads moves only when rendered, so scrolling up does not pause
   auto-scroll (scrolling_up).
4. `filter/FilterParser.cpp:294` throws where the header promises no exceptions
   (filter_throws).

Seen while modelling, without a run of their own:

- `PacketStore.h:63` relies on the same mutex (line 45 and the repository's
  README, line 170): a packet appended during a rebuild is shown twice, or
  against the filter, or not at all, and one that arrives while
  `clear_filter()` refills the view makes `reset_view()` write behind its end
  (`PacketStore.cpp:93`).
- `ui/App.cpp:357` shows `capture_error_`, which nothing assigns, although
  `App.h:63` says it is shown in the header.
- A packet that arrives while any list key is handled ends auto-scroll
  (`App.cpp:521`); a paused display goes on showing new rows (`App.cpp:180`).
- In live mode the export's message may name fewer packets than were written
  (`ExportBar.cpp:179`), and on a full disk more, since `pcap_dump()` reports
  nothing (`PcapWriter.cpp:66`); in file mode its status stays until a key is
  pressed (`ExportBar.cpp:60`); a resize answers the overwrite question with no
  (`App.cpp:110`).
- `End` in live mode goes by the lines of the packet shown before, if a new one
  was selected since (`DetailPanel.cpp:377`; the repository's README, line 100).
- The fields of HTTP headers are given the offset of the line behind
  (`AppDissectors.cpp:385`), and the version of a response the length 8 whatever
  it is (348), although `ProtocolTree.h:13-14` says offset and length of the
  field.
- DNS over TCP is accepted by `udp` and not by `tcp` (`TcpDissector.cpp:130`,
  `FilterNodes.h:61`), a short DNS, DHCP or NTP payload makes a UDP packet
  `Unknown` (`AppDissectors.cpp:66, 184, 715`), SMTP on port 587 is never
  reached (`TcpDissector.cpp:119, 160`), and every fragment of an IPv4 packet is
  taken for its first (`IPv4Dissector.cpp:100`).
- Ports and lengths in filters are truncated (`FilterParser.cpp:266, 293`); no
  code re-sorts after arrivals (`PacketStore.h:60`).

## 6. Not modelled

- The values of fields, their names and formatting; layout, colours, columns,
  the header's rates, `Window`, `TerminalGuard`, `main`.
- `IpNode`, `PortNode` and `LenNode`: comparisons of one number, whose widths
  are named above.
- The text and cursor of the filter bar; characters of tokens.
- Timestamps and link type in `PcapWriter`: an export is always written as
  Ethernet, which is also how every file is read.
- Reallocation of vectors under a concurrent reader, torn reads of single
  fields, and sorting by a key while the capture thread appends.
- What `std::stable_sort()` does with the comparator of a descending order,
  which is no order when keys are equal (`PacketStore.cpp:85`): any order of
  equal keys is allowed, no other misbehaviour.
- Other processes that create or change a file between the question whether to
  overwrite it and the writing.

## 7. Plan

Done, in this order: PacketTable, PacketStore, SessionModel with its proofs and
refinement (the program's core); LiveCapture and LiveSession (concurrency), with
proofs; Keys, ListPanel, ExportBar and App (the loop), with proofs;
FilterParser; DetailPanel, with proofs; the dissectors with Dissect, with proofs;
the full disk in ExportBar and SessionModel; the tree and the summary of a
dissection, in a proof, and that it ends; FilterParser again, as steps of a stack of calls that
can be reasoned about, with proofs.

Next:

1. `IpNode` and `PortNode` on the packets Dissect yields: `ip` on IPv6 packets,
   ports of a packet that has none.
2. Arrivals under sorts other than time: the re-sort the store's comments
   leave to a caller, as an abstract specification the code does not meet.
