# Verification of Niftty

TLA+ models, TLC runs and TLAPS proofs for the core of Niftty, a terminal
emulator: its threads, queues, timers and input stream. The program is a Zig core
(`src/src`), a GTK front end (`src/src/apprt/gtk`) and a macOS application in Swift (`src/macos`) that embeds the core as a library
(`src/src/apprt/embedded.zig`).

## 1. Inventory

One process. The main thread runs the front end and the core `App` and
`Surface` objects (a surface is one terminal pane). Every surface owns three
more threads, and a fourth while a search is open:

    main (App, Surface) <--app mailbox--  reader, IO writer, renderer, search
      |  termio mailbox                       
      +--> IO writer (termio/Thread) --pty--> child process
      |  renderer mailbox                 reader (gather + parse) <--pty-- child
      +--> renderer (renderer/Thread) <-- renderer mailbox -- reader, IO writer, search
      |  search mailbox
      +--> search (terminal/search/Thread)

All of them read or write the terminal state of the surface under one mutex,
`renderer_state.mutex` (`renderer/State.zig`); all mailboxes are instances of
`datastruct/blocking_queue.zig` with capacity 64, and every mailbox comes with
an `xev.Async` wake-up that its consumer's event loop waits for.

| Component | State | Operations | Interacts with | Hard behaviour | Correct when |
|---|---|---|---|---|---|
| BlockingQueue (`datastruct/blocking_queue.zig`) | ring of 64 slots, read/write/len, waiter count, condition variable | push (instant / forever / ns), pop, drain | called by every thread; wakes are separate (`xev.Async`) | barging producers, lost wake-ups, signal counts | FIFO, nothing overwritten, no lost wake-up, blocked pushes return |
| Read pipeline (`termio/Exec.zig` ReadThread) | ring of buffers (head, tail, count), bridging flag, idle pipe, quit pipe, done | gather reads the pty into slots, parse feeds them to the terminal | kernel pipe wake-ups between the two stages; quit from the IO writer | two threads on one ring, wake bytes racing the flag, shutdown with data in flight | each byte parsed once and in order, no slot shared, both stages stop |
| Renderer state hand-off (`renderer/State.zig`) | demand counter, hand-off generation, the mutex | lockDemand, unlockDemand, yieldToDemand | renderer thread against reader thread | unfair mutex starving the renderer, futex wake racing the wait | the yield never blocks for ever, the renderer gets the lock |
| Mailboxes and threads (`termio/mailbox.zig`, `stream_handler.zig`, `Surface.zig`, `App.zig`) | queue contents, pending wake-ups, holder of the renderer mutex | send, notify, drain, unlock-and-block | main, reader, IO writer, renderer, search | blocking pushes in cycles, push while holding the mutex, joins at shutdown | no deadlock, nobody sleeps over a non-empty mailbox |
| Renderer thread (`renderer/Thread.zig`) | visible, focused, cursor timer, animation timer, compression token | drainMailbox and timer callbacks | messages from main, reader, IO writer, search | asynchronous timer cancel, error in mid-drain | a focused visible surface blinks, animation stops when it must |
| Termio thread (`termio/Thread.zig`, `Termio.zig`) | resize coalescing, synchronized-output timer, scroll timer, drain mode | drainMailbox and timer callbacks | messages from main and reader | last resize wins, stuck synchronized output, error in mid-drain | last size applied, synchronized output ends |
| Password-input polling (`termio/Exec.zig` termiosTimer) | password flag in the terminal, timer running | poll, message, focus | IO writer to main | flag read long before it is written | surface agrees with the tty |
| Prompt-input notification (`stream_handler.zig`) | prompt_input_pending | notify, handle | reader to main | coalescing flag against the state it announces | no change is left unannounced |
| Search thread (`terminal/search/Thread.zig`) | needle, matches, selected, refresh timer | changeNeedle, select, feed, notify | main, terminal mutex, renderer, main | stale results after the needle changed | results belong to the current needle |
| App and surface registry (`App.zig`, `apprt/surface.zig`) | list of surfaces, focused surface, quit | add, delete, focus, drainMailbox | all surfaces | messages to a deleted surface | no message reaches a deleted surface |
| Terminal data structures (`terminal/ref_counted_set.zig`, `PageList.zig`, `Screen.zig`, `bitmap_allocator.zig`, `datastruct/*`) | pages, cells, styles, pins | insert, release, grow, scroll, resize | terminal emulation, under the mutex | reference counts, capacity limits, pins across pruning | counts match uses, no id reused while in use |
| tmux control mode (`terminal/tmux/*`) | viewer state, command queue, windows and panes | protocol notifications, command responses | child tmux | responses out of step with commands, session change | commands and replies paired |
| Kitty graphics and clipboard (`terminal/kitty/*`) | images, placements, transfer in progress | transmit, display, delete, evict | child | size limits, eviction of used images | limit respected |
| Inline predictions (`macos/Sources/Features/Prediction`, Surface) | revision, pending request | input change, response, accept | main, network | late answers | only an answer to the current input is shown |
| macOS features (secure input, quick terminal, updates, zen mode, SSH, port forwarding) | per feature | UI events | AppKit, Sparkle, ssh | asynchronous completions | per feature |
| Terminal input stream (`terminal/stream.zig`, `Parser.zig`, `parse_table.zig`, `UTF8Decoder.zig`, `simd/vt.{zig,cpp}`, `stream_continuation.zig`) | parser state, parameters and intermediates, decoder, continuation bytes | next, nextSlice, nextSliceUntilGround, continuation export and validation | reader thread, under the mutex; the terminal's handler; snapshots | sequences cut anywhere by reads, four bulk paths that repeat the table by hand, replay of a saved prefix | a read does what its bytes do one by one; a continuation rebuilds and repeats nothing |
| Fonts (`font/SharedGridSet.zig`, shaper, atlas) | grids with reference counts | ref, deref | main, renderer | two threads loading one grid | a grid lives while referenced |

The behaviour of these parts that is hard to test, with the line where each
hazard bites and the properties that cover it, is in `PROJECT.json`, `hazards`.
A hazard without a property says why.

## 2. Modules

| Module | Models | Builds on |
|---|---|---|
| `FifoQueue` | abstract: what a mailbox promises | |
| `BlockingQueue` | `datastruct/blocking_queue.zig`, the condition variable of `lib/compat/thread.zig` | refines `FifoQueue` |
| `BlockingQueueProofs` | safety and refinement, for every capacity and number of producers | |
| `ReadPipeline` | `ReadThread` of `termio/Exec.zig` (POSIX) | |
| `ReadPipelineProofs` | types, buffer ownership, the idle wake, the order of the bytes, a complete end | |
| `StateHandoff` | `renderer/State.zig` | the mutex of the two modules around it |
| `StateHandoffProofs` | types, the demand counter, the hand-off, the bound on overtaking | |
| `SurfaceThreads` | the threads of a surface composed: `Surface.zig`, `App.zig`, `termio/{mailbox,stream_handler,Termio,Thread,Exec}.zig`, `renderer/Thread.zig`, `terminal/search/Thread.zig` | uses each mailbox as `BlockingQueue` shows it to behave, the mutex as a plain lock |
| `SurfaceThreadsProofs` | types and mailbox bounds, no one sleeps with the lock, the wake-ups of three mailboxes, join order | |
| `SurfaceShared` | what the timers of a surface share: mailboxes, mutex, screen | mailboxes and mutex at the grain of handlers |
| `PasswordInput` | `termiosTimer` of `termio/Exec.zig`, `passwordInput` of `Surface.zig`, `SecureInput.swift` | `SurfaceShared` |
| `TermioTimers` | `termio/Thread.zig`: resizes, synchronized output, selection scroll | `SurfaceShared` |
| `RendererTimers` | `renderer/Thread.zig`: wake-up, frame, cursor, animation, compression | `SurfaceShared` |
| `SurfaceTimers` | a surface with all its timers | composes the three |
| `SurfaceTimersProofs`, `RendererTimersProofs` | all six invariants of `SurfaceTimers` | the second builds on the first |
| `Prediction` | the prediction context of `Surface.zig`, the announcements of `stream_handler.zig`, `PredictionEngine.swift` | the app mailbox as `BlockingQueue` shows it to behave |
| `PredictionProofs` | the engine agrees, the context is current, what is inserted fits | |
| `Utf8Automaton` | `UTF8Decoder.zig`: the decoder that takes a byte at a time | |
| `Utf8Decode` | `simd/vt.zig`, `simd/vt.cpp`: the decoders of text in bulk | `Utf8Automaton` |
| `VtParser` | `Parser.zig`, `parse_table.zig` | `Utf8Automaton` |
| `VtByte` | `stream.zig`: one byte after the other | `VtParser` |
| `VtStream` | `stream.zig`: a slice | `VtByte`, `Utf8Decode` |
| `Continuation` | `stream_continuation.zig`, and reads taken byte by byte | `VtByte` |
| `StreamReads` | reads as release builds take them | `VtStream`, `Continuation` |
| `StreamProofs` | arrays and counters, the fast paths, where a replay may start, the continuation | `Continuation` |

`MC<module>.tla` instantiates a module for TLC, with one `.cfg` per question.
Operators whose comment says *Mutant* are versions of the definition they stand
next to with a plausible bug in them; no specification uses them. Each property
has one that breaks it (`PROJECT.json`, `mutants`).

### BlockingQueue

A producer is idle, or inside `push`: asleep on the futex of the condition
variable (`waiting`), let go by it and about to look for a signal (`roused`),
holding a signal but not yet the mutex (`woken`), or past the deadline of a timed
wait, still counted as a waiter (`expiring`) or no longer (`expired`). What `push`
does under the mutex is one action: `PushNow` returns at once, `PushWait` joins
the waiters, `Resume` writes after a wait, `GiveUp` is the return of 0 after a
timed one. `Rouse`, `WakeUp`, `Resleep`, `Expire` and `LeaveWaiters` are the atomic
operations of the wait itself, outside the mutex: `lib/compat/thread.zig` has them
in source, and the untimed wait of the standard library, which is not in the
repository, is taken to be the same loop without the deadline. `Signal` lets go
one sleeper, and any that had not reached the futex yet, so any non-empty set. `Pop` and
`DrainBegin`/`DrainNext`/`DrainDeinit` are the consumer; a drain holds the mutex
for as long as its iterator lives. `popped` and `ret` are return values.

`FifoQueue` has a sequence and one pending message per producer; the refinement
maps the sequence to the unread slots in order (`Contents`), and lets a push be
refused only when it was `instant`, timed, or woken to a queue that is full
again. `BlockingQueue` implements it.

### ReadPipeline

The gather stage is the loop at `Exec.zig:1560`: `Claim` a slot under the mutex,
`ReadData`, `ReadWouldBlock` and `ReadEnd` for what `read(2)` may return,
`ArmBridge`, `BridgePoll`, `EndBridge` and `DrainIdle` for the short poll that
bridges a pause in the output, `Publish` under the mutex, `SignalBatch` after
it, `OuterPoll` to wait for more. The parse stage is `threadMain` at 1480:
`NextBatch`, `Process` without the mutex, `Release` under it, `SignalFree` and
`WriteIdle` after it. Signals outside the mutex are steps of their own because a
wait can begin in between. Bytes are numbered in the order of writing, so that
order and loss are visible; what they say is not modelled. The child (writing,
closing) and the quit byte are external actions.

### StateHandoff

`Announce`, `LockDemand`, `Withdraw` are the three steps of `lockDemand`;
`UnlockDemand`, `Bump`, `Wake` those of `unlockDemand`; `CheckDemand`,
`Snapshot`, `Recheck`, `FutexWait` those of `yieldToDemand`. The futex compares
and sleeps atomically, and may time out (`FutexTimeout`, `handoff_timeout_ns`).
The mutex goes to whoever takes it. `overtaken` is a history variable. Atomics
are sequentially consistent here. In the code they are monotonic, "a scheduling
heuristic" whose staleness the timeout bounds (`State.zig:90-93`): the results that
do without the timeout are about executions in which no read is stale. Nor does the
generation wrap (2^32 hand-offs between snapshot and wait).

### SurfaceThreads

A thread is a program location (`pc`), the messages it is sending (`letter`,
`tell`) and whether it sleeps in a push (`wait`). A push, a pop, a notify, a lock
and an unlock are separate steps; a critical section that shares nothing else
with another thread is one step that needs the lock to be free. A push with the
timeout forever is what `BlockingQueue` allows: into a free slot, or asleep until
a pop wakes it, and then into a free slot or dropped (`Pushes`, `GivesUp`,
`FallAsleep`, `SignalOne`). `Send` is `termio.Mailbox.send`, which lets go of the
mutex before it blocks and takes it again after; `PostFast`..`RelockPost` is the
same for `surfaceMessageWriter`. The actions of main are the user's callbacks,
`App.tick`, and `Surface.deinit` with its joins in order; the reader's are
`processOutput` on one batch; the writer's are its event loop, `drainMailbox` and
the handlers that take the mutex or push; the renderer's are wake, drain, frame,
draw; the search thread's are its drain, its feed and its callbacks. A message is
known by what its handler does: `write` shares nothing, `lookup` takes the
mutex, `config` takes it and sends, `resize` arms the coalescing timer.
`rendererQ` and `searchQ` are counts, all their messages being handled alike
with respect to who waits for whom.

`Rest` is the step of a surface with nothing to do. It lets TLC look for
deadlocks: any state that is not at rest and has no step is one.

### SurfaceShared, PasswordInput, TermioTimers, RendererTimers, SurfaceTimers

Here a handler or a timer callback is one step; who waits for room in a mailbox,
and that a published message is looked at, is the subject of `SurfaceThreads`.
The threads are those of `SurfaceThreads` without search. `draining` and `poll`
say that the IO thread is in its drain or asleep in the push of its poll, when
none of its callbacks runs; `rpc` is the stage of the renderer's wake-up;
`parsing` is `locked` while the parser holds the mutex; while it has let go of it in
mid-batch because a mailbox was full (`LetGo`, for the app mailbox and for the IO
mailbox) it says what is waiting to be sent, and `TakeBack` sends it, or finds that
it is refused, before the parser goes on. A push forever (`Pushed`) leaves its
message or, if the mailbox is full again after its one wait, nothing: what a refused
`focused`, `resize` or `sync` message was to start stays undone (`missed`). A push
that goes on waiting is a step not yet taken. `term_focused` is the focus as the
terminal knows it, which the parser sends when a program asks for focus reports: a
full reset sets it to true, and while the parser waits for room main may send a newer one.

`PasswordInput`: `TermiosFires` is the poll, `FocusGained` both branches of
`focusGained`, `HandlePassword` the surface's handler with the view's part and
`SecureInput.apply`; `Notified` is the application becoming active or resigning.
The system may refuse a call. `TermioTimers`: `HandleResize` arms the coalescing
timer, `CoalesceFires` is `Termio.resize` with its four effects in order, any of
which may end it in an error; `HandleScroll`, `ScrollFires`, `HandleTick` are the
selection scroll around its two threads. `RendererTimers`: `WakeUp`, the handlers
(`HandleVisible` ...), `Drained`, `ConsiderCompression` are `wakeupCallback` in
order; `CompressionFires`, `AnimationFires`, `CursorFires`, `CursorCancelled` the
timers. A timer being cancelled is neither active nor dead, as libxev has it.
`SurfaceTimers` adds the parser and the steps that reach several components, and
`ResetBinding`, the `reset` key binding, which changes the screen and wakes nobody.

Every property is unconditional but for what the code does not promise, which a
history variable records at the step where it happens: `disturbed` (password:
a mode that changes back before the message of the first change is handled, a
reset of the terminal at a prompt, a refused push or system call, a toggle by
hand), `failed` (a resize ended in an error), `lost` (the last scroll tick found
the app mailbox full), `lapsed` (focus lost and gained before the cursor timer's
cancellation took effect), `missed` (the last message of a kind to the IO thread was
refused, or, for the focus, another one was sent after it by the parser), `unsized`
(the renderer's part of the last resize was refused), `unannounced` (the
parser let go of the mutex in mid-batch, the renderer drew, and what followed came
with no wake-up; or a reset by key). Each of them is described in section 5.

### Prediction

The context is `revision`, `input`, `input_valid`; `candidate` is the one on
display; `request` and `live` are the engine's. `KeyInput`, `Accept`,
`SetPreedit`, `ClearPreedit`, `LoseFocus`, `GainFocus`, `ToggleReadonly` and
`ChangeConfig` are main's callbacks, `Submit` the provider's answer with
`predictionSubmit`, the `Handle...` and `PopPromptInput` the messages. Clearing
the pending flag and reading the screen are two steps, since the parser may run
between them. The parser's batch is `Redraw`, `LoseLine`, `ShowKey`,
`ShowPrompt`, `RunLine` or `Reset`, then `NotifyPromptInput`; its pushes wait,
wake and may be refused as in `BlockingQueue`. A line is a place of the cursor
(row and column) and a text. `promptInput` gives the text only, and so context,
request and the comparisons of sync, submit and accept know texts only; the place
is what the ghost text is drawn at (`origin`), and only acceptance compares it.
`echo` holds the keys the shell has not shown yet, so that the screen is behind
the user as it really is.

Three paths change the screen and tell nobody: `ResetBinding` (the `reset` key
binding, on main), `ClearScreen` and `ResizeScreen` (the IO thread). They need the
mutex and nothing else. What `clearScreen` and `resize` leave of the line is any
line or none, the cursor staying in the input region; a reset leaves the region.
`moved` records such a change while no announcement is under way, until the next
batch is announced or main syncs for another reason; `disturbed` records a change
of configuration or of readonly and a refused push (section 5).

### Utf8Automaton, Utf8Decode, VtParser, VtByte, VtStream, Continuation, StreamReads

The input stream is sequential, so these are operators on records and
sequences: `[s |-> stream, acts |-> actions of the handler, rest |-> input left]`.
`NextByte` is `next` for one byte: text through `NextUtf8`, a control sequence
through `NextNonUtf8`, which has the fast paths before the parser's table;
`ByTable` is the table alone. `ByteSpec` is a stream that is fed any byte at any
time. `NextBytes`, `NextByte` for each byte of a
slice, is what debug builds do with a read, and the reference; `NextSlice` is what a release build does, with
`ScalarDecode` or `VectorDecode` for text and the bulk and fast paths for control
sequences. `VtByte`, what it builds on and `Continuation` have no recursive operator, only
recursive functions along a sequence; the operators that repeat over what is left
of the input are in `VtStream` and `Utf8Decode`. A slice handed to the
handler counts as the actions of its elements. The OSC parser is known by what
it is given. What a finished sequence leaves in the parser's arrays is forgotten
at ground, the next ESC clearing it before it can be read.

In `Continuation`, `Track`, `ReplayStart`, `Written` and `Validate` are
`stream_continuation.zig`: what is kept after a read, what is exported, and what a
snapshot accepts. Its `ReadSpec` is a stream with a continuation or without one
whose reads, of any bytes and any length, are taken byte by byte; it is what the
proofs are about. `StreamReads` has the reads of release builds (`Read`,
`ReadUntilGround`) into the same stream, and is what TLC runs. The memory for
what is kept may be refused. `built` is a history variable: the unfinished
string as the handler holds it. The state is finite, so that runs of it are
complete: every stream state reachable by the bytes at hand meets every chunk of
control bytes, and every one at ground every chunk of text.

## 3. What the runs show

A run asks one question; runs that expect a violation are section 5.

| Run | Bounds | Shows |
|---|---|---|
| `bq_fifo` | 2 producers, 2 messages, capacity 3, all timeouts, pop and drain | the ring implements the FIFO queue; counters agree; waiters are counted; no wake-up is lost |
| `bq_waits` | 3 producers, capacity 2, no timed push, pop only | every signal finds a producer awake to take it; every push returns |
| `pipe` | 2 buffers of 2 bytes, 5 bytes, with and without the idle pipe | a buffer has one owner; each byte is in one place, in order; the idle wake reaches its poll; the parser leaves with nothing unparsed; both stages end; output is parsed |
| `handoff` | 2 demanders, 1 plain locker, timeouts, 4 hand-offs | the demand counter is exact; a parked parser has somebody who will wake it and returns; a demander is overtaken a bounded number of times and gets its turn, unless a timeout or a plain locker intrudes |
| `mesh_traffic` | keys and mouse reports, output with queries and titles, app and search mailboxes of 1, an IO mailbox of 2, a renderer mailbox of 3 | no deadlock; nobody sleeps with the mutex; IO and app mailboxes have a wake-up on the way when not empty, a full renderer mailbox too |
| `mesh_close` | any two of resize, config, focus, find, endfind, close, and the child's exit; mailboxes with room | threads end in order; closing ends |
| `prediction` | 2 places, 2 texts, app mailbox of 2, 5 events, 2 keys not echoed | what is accepted completes the text on the screen where it was displayed; engine and surface agree on the candidate; an open context is for that line or main is about to look again |
| `timers` | app, IO and renderer mailboxes of 1 whose pushes may be refused, 3 events, 2 sizes, shader animating with the focus | unless a message was refused, or what else section 5 names: the last size is applied; the selection scroll is agreed on; secure input follows; every timer needed runs; the frame is current |
| `stream` | text of up to 3 pieces (15 bytes, 7 characters of 2 to 4 bytes, their 9 cuts, a sequence), 8 bytes decoded at a time; 16 control bytes, chunks of 2; arrays of 1 and 2; continuation of 4 bytes | reads cut anywhere do what bytes do; fast paths do what the table does for each of the 256 bytes, wherever a chunk has left a sequence; a continuation rebuilds, repeats nothing and is accepted, but for the exception of section 5 |

### Bounds and why they are enough

- Capacities. The code's mailboxes hold 64 messages. Small capacities are the
  hard case: a full mailbox is what makes a thread wait. `bq_fifo` has capacity 3
  so that the indices wrap where the capacity is no power of two; three producers
  on two slots in `bq_waits` give sleepers, a woken producer and a barging one at
  once. In the composed model a mailbox fills after one to three
  messages. A pop wakes one sleeper, so a capacity smaller than the number of
  threads that may sleep on the mailbox at once would show waits that 64 slots
  and five threads cannot have; no mailbox in `mesh_traffic` has more than two
  possible sleepers. `FullRendererWillLook` is false with a renderer mailbox of one: the
  cursor reset, which nobody announces, can fill it by itself; with one of two it is
  false once searches end, since the first of the two messages of an ending search is
  not announced either. From three on it holds, as section 4 proves for every
  capacity, and so it does for the code's 64.
- In `mesh_close` the mailboxes cannot fill. That is on purpose: with a full app
  mailbox closing does not end (section 5), and the run shows that nothing else
  keeps it from ending.
- Pipe. Two buffers are the smallest ring with a buffer in each stage. Five bytes
  fill both and start a third batch, so both stages wrap and the
  gather stage waits for a slot. The bridge threshold is 1, so a
  partly-filled buffer is bridged, and one spin comes before the poll.
- Prediction. Two places and two texts tell a candidate for the wrong text at the
  right place from one for the right text at the wrong place. Five events are a
  prompt, a key, an answer to it, a reset or resize and an acceptance; a mailbox of
  two fills while the pending announcement is in it. Lines are symmetric in places
  and in texts.
- Timers. With mailboxes of one a message is in flight when the next is sent,
  and the pushes that wait, drop or are refused do so after one; three events are a
  change, its opposite and something between them, or a change that fills a mailbox, a
  batch, and the parser's wait in that mailbox, which counts as an event. The
  theorems of section 4 have neither bound.
- Stream. `ReadsAreBytewise` quantifies over chunks in every
  reachable state, so that a chunk of two control bytes is every pair of
  transitions of the parser. Text is read in pieces, so that it is decoded in bulk:
  two of them wherever the parser is at ground, in the middle of a character or not,
  and three from a fresh stream, up to twelve bytes. That is every character whole,
  cut after any byte or followed by one that does not belong, alone, in front of and
  behind others and control sequences; and text, a sequence and text in one slice. The
  slice crosses the decoder's buffer (`CpBuf` = 8, in the code 4096) in the middle of
  characters and sequences of every length. With a wrong length or a wrong range for
  any byte of a character, or without the second round of decoding, the property fails.
  The bytes are one of each class the code tells apart: for text the lead bytes
  with a restricted second byte (E0, ED, F0, F4), those without, bytes that are
  never legal, both ends of the continuation bytes, C0, ESC, a final byte and C1;
  for control a byte of each kind of the table's entries, and the terminators. One
  intermediate, two parameters and values up to 11 overflow each array and the
  accumulator; `IdxWrap` = 3 is the digit counter's width (256 in the code). Four
  bytes of continuation overflow in the third read.
- `MaxEvents`, `MaxOutput`, `MaxAlarms`, `MaxHandoffs`, `MaxBytes` bound how much
  happens; `OvertakenCap` only saturates a history count (0 turns it off where
  the run does not look at it). Two user events meet each other and one batch of
  output with two effects. The safety theorems of section 4 have no bounds.
- `CHECK_DEADLOCK FALSE` stands only where stopping is normal (the pipeline ends;
  a closed surface) or where the finding is itself that nothing moves.

### Fairness

Weak fairness for each thread, no more: the operating system runs a thread that
can run. Nobody has to type, print, close the pty or quit; those actions have no
fairness. A poll returns when something it watches is ready. The mutex is unfair:
no strong fairness on taking it, which is why `RendererGetsTurn` says something.
`PushesReturn` assumes further, in its formula, that new pushes stop, since a
stream of barging producers may keep one asleep; and that the consumer keeps
popping, as a drain loop does. The hand-off's timeout has no fairness either: the
protocol does not need it to fire. `BoundedOvertaking`, `RendererGetsTurn` and
`YieldReturns` say what holds while no timeout and no plain locker intrudes: a
yield that times out, or a third thread that takes the mutex, may make the
demander wait one more turn.

`prediction`, `timers` and `stream` state safety only. What could be lost there
(an announcement, a timer, a size, a frame) is stated as "is done, or is on its
way", which together with the wake-ups of `SurfaceThreads` is stronger than an
eventuality and can be proved.

## 4. What is proved

The theorems hold for every value of the constants that satisfies the named
assumptions of the modules: any capacity but zero, any finite set of producers or
demanders (at least one demander), any number of buffers but one, any traffic, any
lines and sizes, parser arrays of any size but zero with a digit counter that counts
past two and parameters that can hold a digit. TLC checked each strengthened
invariant on the small instances before it was proved.

| Theorem | Property | Argument |
|---|---|---|
| `TypeCorrect`, `RingSafe`, `WaitersCorrect` | `TypeOK`, `RingConsistent`, `WaitersCounted` | `IInv` is their conjunction with `ArgumentsHeld`. None is inductive alone: that the decrement of the waiter count stays in Nat needs the exact count, and that a resumed push writes a message needs its argument. The count is a cardinality, so joining and leaving use the library's facts on finite sets. |
| `NoSignalIsMissed` | `SignalsAreHeard` | without timed waits (the property says so): every waiter is on the futex or out of it, so a signal either lets a new one go or finds fewer signals than producers awake. With timed waits it is false (section 5). |
| `CountersCorrect` | `CountersAgree` | the two above in one. |
| `NoWakeupIsLost` | `NoLostWakeup` | inductive relative to `IInv`: pop and drain may skip the signal only when the waiter count is zero, and then nobody sleeps. |
| `RingImplementsFifo` | `ImplementsFifo` | `Contents` appends under `Enqueue` and loses its head under `Dequeue`; each action maps to an action of `FifoQueue` or a stutter. |
| `BuffersHaveOneOwner` | `OneOwner` | `RingShape` (head is `count` slots after tail) and `Claims` (what each stage saw under the mutex still holds while it uses its buffer, because only the other stage changes the counter, and in the harmless direction). |
| `BridgeIsInterrupted` | `NoIdleSleep` | `BridgeArmed`: the flag the parse stage tests is up for the whole bridge poll; and it is raised in the critical section that finds the parse stage busy. |
| `TypeCorrect`, `RingKeepsTheStream` | `TypeOK`, `NothingLostInRing` | `BInv` is `IInv` with `TypeOK` and `RingBytes`: every slot between tail and head holds the bytes that follow those of the slot before it, the oldest those that follow what is parsed, and the buffer being filled those that follow the newest. Neither half is inductive alone: that a read fits into its buffer needs the types, that publishing closes the chain needs the slots to differ, which is `RingShape`. A batch is compared byte by byte (`Stored`), so that no fold has to be unrolled. |
| `LeavesNothingBehind` | `DrainedAtExit` | `EndInv` with `BInv`: `done` is set after the last publish, and the parse stage leaves on finding it set and the ring empty in one critical section; `RingBytes` then says that what was received is parsed. |
| `HandoffTyped`, `DemandCounted`, `HandoffNotLost` | `TypeOK`, `DemandExact`, `NoLostHandoff` | the sleep is decided one step before the futex compares, so `Committed` says it of that step already: the generation read is still current and a demander is before its bump, or it has moved and the compare fails. |
| `OvertakingBounded` | `BoundedOvertaking` | `Overtaking`: while a demander waits, the turns the parser has taken and those it can still take (one per bump and one per wake to come, one if it is past its last check) are at most twice the demanders less one. A turn of the parser uses one up, a bump or a wake turns one that is to come into one it may take, and who waits owes neither (`AskerOwesNothing`, where the bound comes from). That the parser does not pass its check while somebody waits needs `DemandExact`. The counts are cardinalities; a timeout starts the count again. |
| `LockLetGo` | `NobodySleepsWithLock` | `LockInv`: where a thread can be while it holds the mutex, and that those who send while parsing or reconfiguring do hold it (so they take the branch that lets go). |
| `WriterMailAnnounced` | `WriterWillLook` | inductive relative to `LockInv`: `termio_messaged` is only reset in the step that wakes the writer. |
| `AppMailAnnounced` | `AppWillLook` | `TellShape`: a search callback has its wake behind each push that is left; `BackPlace`: where main comes back to. |
| `RendererMailAnnounced` | `FullRendererWillLook` | for a renderer mailbox with room for three. `FewUnannounced`: when no wake-up is pending or on its way, the mailbox holds no more than what nobody announces, the cursor reset of a batch under way or done and the first message of a search that ends, so at most two. `TellPlace`: what the search thread has left to say is an end of what it set out to say, so its second push is followed by a wake-up; `ConfigPlace`: main comes back to announce a configuration. |
| `ThreadsTyped` | `TypeOK` | with `LockInv`, and `LetterPlace`: what a thread holds to send is a message of the mailbox it sends to. A push that resumes after a wait looks at the room again, so that each of the four mailboxes stays within its capacity (`MailStep`). |
| `JoinsInOrder` | `JoinOrder` | `StopPlace`, `GonePlace`: who has been asked to stop, and is gone, at each place of `Surface.deinit`. |
| `CandidatesAreCurrent`, `EngineAndSurfaceAgree` | `EngineAgrees` | `EngineInv`: every operation on the context is one of four (untouched, kept with a new revision, invalidated, synced), and each dismisses the candidate in the surface and the engine together. |
| `PredictionTyped` | `TypeOK` | `TypeInv`: per group of variables; a push that was woken looks for room again, so the app mailbox stays within its capacity. |
| `OpenContextIsCurrent` | `ContextCurrent` | `ContextInv`: while undisturbed, surface and parser agree on the configuration; a pending flag has its message in the mailbox or its sender awake; and the parser remembers (`notified`) that the cursor was in the input region, so that leaving it is announced too, be it by output or by a reset it did not see. An unannounced change finds it remembered (`ContextUnannounced`), since the parser waits in mid-batch only with the region left (`SendsElsewhere`). |
| `InsertedForThisLine` | `AcceptedForThisLine` | an action property: what `predictionAccept` compares under the lock, the text and the place, with `CandidateCurrent`. |
| `LastSizeArrives` | `LastSizeApplied` | `Tracks`: of the messages of a kind in a mailbox the last one says x, or none is left and x is in force. `SizesInv` chains it through both mailboxes and the timer, from main to the renderer; a refused push breaks the chain and is recorded at its link (`missed`, `unsized`), until the next message of the kind mends it. |
| `ScrollIsAgreedOn` | `ScrollAgrees` | `ScrollInv`: `Tracks` for the ticks; the timer runs one tick beyond the wish. |
| `PollFollowsFocus` | | `PollInv`: `Tracks` for the focus messages, unless the last was refused or is the parser's and disagrees; a stopped timer belongs to a poll that waits for room. |
| `SecureInputIsRight` | `SecureInputFollows` | `AnnouncedInv`: undisturbed, the flag is the mode of the last poll, or an announcement of it is under way; `SecureInv`: the view has its scope when the flag is up, and the system's state is what is wanted or a notification is due. |
| `FrameIsCurrent`, `TimersAreRunning` | `FrameCurrent`, `TimersRun` | `SyncInv` (synchronized output has its timer, its message, a parser that is about to send it, or the message was refused) and `RenderInv`: what is dirty, and history to compress, has a wake-up, a stage of the wake-up or a batch in progress before it; a batch keeps its wake-up until it lets go of the mutex (`split`), and what is written with none left is `unannounced`. |
| `StreamFits` | | `ByteInv`: `StreamOK`, and that a sequence has just begun with empty arrays ("cleared on escape entry", `stream.zig:945`), that in `csi_param` the digit counter is 0 or 1, and that a parser at ground is a fresh one. Without the first two the fast paths and the table part. |
| `FastPathsAgree` | `FastPathsMatch` | `ByteInv`: the rows of the table a fast path stands for (`EscapeRow`, `ParamRows`, `EntryRows`) are worked out, and one lemma per path compares the two (`EscapeAlike`, `EntryAlike`, `ParameterAlike`, `ControlAlike`, `FinalAlike`); every other byte goes through the table on both sides. |
| `ReplayStartsAfresh` | | `ByteInv`: every state's row for ESC leads to `escape` with cleared arrays, and the decoder in the middle of a character refuses what does not continue it. "It abandons the previous parser state and starts a fresh escape state no matter what was being parsed" (`stream_continuation.zig:213-214`): what `findVTReplayStart` and `findUtf8ReplayStart` rely on. |
| `ContinuationFits`, `ContinuationRebuilds` | `TypeOK`, `ContinuationReplays` | `ContinuationInv`, below. |
| `SurfaceTimersTyped` | `TypeOK` | the type parts of the above, and that mailboxes stay within capacity. |

`ContinuationInv` says of the bytes kept (`Follows`): they fit, there are none at
ground, and otherwise, unless memory was refused, they are `Kept`. That is, what is
written of them takes a fresh stream to this one, with what is held of a string
(`RebuiltBy`); every action on the way builds a string or cuts one off (`Told`); the
scan of them ends in the same parser and decoder states (`ScanOf`) and writes what is
written once more; and they start at the one byte at which replay can start
(`Starts`: the last ESC, or the lead byte in text, which for text takes that a pending
code point has at most three bytes: `More`). The argument has three parts.

- A byte (`TextByteGoes`, `SequenceByteGoes`): it leaves the stream at ground, or
  starts what is unfinished, or belongs to what was unfinished. Then the scan, which
  has the parser's table and not the fast paths, either commits nothing (`Keeps`)
  or finds work that leaves the state alone (`Omits`: a C0 control in a sequence, a
  byte that is dropped).
- A read (`InReadStep`): what is unfinished after i bytes began at byte k of this
  read, the last that could start anything, or in an earlier one.
- The end of a read (`TrackFollows`): `ReplayStart` finds that k, or nothing, and
  `Replace` or `Extend` keeps what it must.

What repeats over a sequence (`NextBytes`, `Scanned`, `Build`) is a recursive function
on its positions. The induction theorems of the library cannot be instantiated here;
the proofs take the smallest position that fails instead (`Least`, `UpTo`), from the
well-foundedness of `<`.

Only model-checked: everything temporal (`PushesReturn`, `Terminates`,
`EventuallyParsed`, `RendererGetsTurn`, `YieldReturns`, `CloseEnds`; liveness
under fairness is out of the prover's reach); and `ReadsAreBytewise`, whose
operators are recursive over what is left of the input, which the prover does not
take. The theorems about the stream are about `ByteSpec` and `ReadSpec`, where a read
is taken byte by byte; that the reads of release builds do what their bytes do one
by one is `ReadsAreBytewise`.

## 5. Where the code and what it says differ

Three are runs whose property restates a line of the repository and which TLC
finds violated.

- `pipe_tail`. The outer poll leaves on HUP without looking at IN
  (`Exec.zig:1747`), although the bridge poll knows better (1679): the last
  output of a child that writes and exits may not be shown.
- `mesh_noisy_close`. Main waits for the IO thread, which waits for the reader
  (`Exec.zig:229`), which may wait for room in the app mailbox that main drains.
  The comment at 203 says the order is chosen so that a noisy program cannot do
  this. It takes a full app mailbox (64 messages).
- `mesh_sends`. `Termio.changeConfig`, run by the IO thread, sends to the mailbox
  the IO thread is draining. If another sender has taken the slot it just freed,
  it sleeps for ever, with the notify of `mailbox.zig:74` given to itself.

The rest are no runs of their own: the models behave as the code does, and
where a property would be false it names the exception.

Queue and pipeline:

- A push with `.forever` ("run forever or until interrupted",
  `blocking_queue.zig:49`) waits once. If another producer takes the slot before
  the woken one has the mutex, it returns 0 and the message is gone: callers
  discard the result.
- `waitTimeout` looks for a signal and leaves the waiter count in two atomic
  operations; a pop between them leaves a signal with no waiter, which
  `lib/compat/thread.zig:41-42` says it prevents. No caller uses a timed push
  today. `SignalsAreHeard` is about queues without timed pushes.
- The comment at `Exec.zig:1405-1409` says the parse stage only writes to the
  idle pipe when `bridging` is set; it tests the flag under the mutex and writes
  after it (1520-1531), when the poll may be over. `NoIdleSleep` shows that a
  late byte does no harm.
- The comment at `renderer/Thread.zig:498` counts on every message being followed
  by a wake; the cursor reset is sent after its batch's wake (`Termio.zig:689`, 704).

Timers:

- The comment at `renderer/Thread.zig:372-373` restarts the blink when focus comes
  back; a timer that is still being cancelled counts as active and is not
  started (`lapsed`).
- `Termio.zig:688` wakes the renderer before the batch "because we have the lock",
  which the parser lets go of when a message finds the app mailbox
  (`stream_handler.zig:178`) or the IO mailbox (`mailbox.zig:92`) full: the frame
  may be drawn from half a batch, and what follows waits for the next wake. The
  `reset` key binding (`Surface.zig:5395-5399`) clears the screen and queues no
  render: the old screen stays shown until something else wakes the renderer
  (`unannounced`).
- A push forever into the IO mailbox may return 0 after its one wait, and the
  message is dropped (`mailbox.zig:93-95`, `blocking_queue.zig:112-137`). Dropped, a
  `focused` leaves the poll of the tty off with the focus or on without, until the
  focus changes again; a `resize` leaves tty, terminal and renderer at the size
  before; a `start_synchronized_output` leaves the output held back with no timer to
  end it (`missed`). The renderer's part of a resize may be refused in the same way
  (`Termio.zig:535`, `unsized`).
- A program that asks for focus reports makes the parser send the terminal's focus
  to the IO thread (`stream_handler.zig:773-775`). After a full reset that is "focused"
  whatever the surface has (`Terminal.zig:124`, 4990); and a parser that waits
  for room sends the value it read before. Either is in the mailbox after main's last
  message and starts or stops the poll against it (`missed`).
- The last tick of a selection scroll is pushed without waiting
  (`termio/Thread.zig:530`); dropped, it leaves `selection_scroll_active` set and
  the next drag past the edge does not scroll (`lost`).
- The poll of the tty compares with a flag that changes only when the surface has
  handled the message (`Exec.zig:375`): a prompt that ends within the round trip
  leaves secure input on. A full reset at a prompt, by output or by key, clears the
  flag and not the view (`Terminal.zig:4993`) (`disturbed`).

Predictions:

- `Surface.zig:3060-3063`, 183-185 and the program's `README.md:29` say that a key
  dismisses predictions until the shell has answered. A `prompt_input` message
  queued by earlier output and handled after the key, before its echo, syncs to
  the old line, and the provider may answer for it. What is accepted still
  completes the line on the screen (`AcceptedForThisLine`), which is not yet the
  line the shell has.
- A configuration that is turned on reaches the parser after the surface;
  `toggle_readonly` neither invalidates nor resyncs the context; a refused push of
  `prompt_input` leaves `prompt_input_pending` set for good (`disturbed`).
- The `reset` key binding (`Surface.zig:5395-5399`), `clearScreen` and `resize` of
  the IO thread (`Termio.zig:577-631`, 499-537) change the screen with no
  announcement and no sync: the context stays open for a line that is gone until
  the next output (`moved`). What is accepted meanwhile is compared with the screen
  again (`AcceptedForThisLine`).
- Accepting on a readonly surface is reported to the engine as accepted although
  the write is dropped.

Input stream:

- An APC that a C1 control cuts off (0x90, 0x9B or 0x9D, not ESC or 0x9C) is in the
  continuation: `Tracker.write` omits only bytes that leave the state alone. Its
  replay ends the APC again, and `validate` refuses the bytes with
  `ReplayWouldCommit`, so that a snapshot taken there fails, where
  `stream.zig:509-512`, `stream_continuation.zig:189` and
  `include/ghostty/vt/terminal.h:2115` say that replaying performs nothing again.
  It is the exception in `ContinuationReplays`.
- A DCS parameter of exactly 256 digits is lost: the parser counts digits in a
  byte that wraps (`Parser.zig:361-364`), where the CSI fast path only sets it.
  `FastPathsMatch` compares whether there are digits and the model has the width
  as `IdxWrap`.

## 6. Not modelled, and why

- Windows: the read thread's other half and the ConPTY paths. A failing `poll` in
  the bridge.
- Errors of handlers (allocation, pty writes) except those of a resize: the code
  owes no notify for the messages they leave behind.
- In `SurfaceThreads`: the app-level quit and more than one surface, which need
  the allocator to give addresses out again; the draw thread of the macOS
  renderer (frames are drawn by the renderer thread).
- In the timers: messages to the IO thread that touch no timer (`parsing = "io"` is a
  parser that waits to send one). Some change the screen (`clear_screen`,
  `jump_to_prompt`, `scroll_viewport`), in a drain that ends with a redraw.
- In `ReadPipeline` the output is finite: `Terminates` says nothing of a child that
  writes without end, when the gather stage goes on from a full buffer without
  looking at the quit pipe (`Exec.zig:1730`).
- What the actions of the input stream do to the screen, and what the OSC parser
  makes of a string: sequential, driven by tables, with thousands of unit tests.
  `ReadsAreBytewise` shows the order and content of the actions; a bounded screen
  would resemble neither the pages nor the styles that are hard about it.
- Search results: data of the page list. `SurfaceThreads` has the search thread's
  pushes, lock and end.
- The terminal's data structures (`PageList`, the reference-counted set, the
  allocators): sequential under the mutex, with invariants about memory layout
  that their own integrity checks assert in debug builds.
- tmux control mode and kitty graphics: clients of foreign protocols and byte
  accounting in one thread.
- Ranking and history of predictions, the drawing of ghost text; and
  `predictionClear` (`Surface.zig:2847`), an export of the library that the macOS
  application does not call.
- GTK widgets, AppKit and Sparkle callbacks, configuration, key bindings, fonts,
  the inspector: glue, look-up or pure computation.
- C. The program is written in Zig and Swift. The repository's C and C++ are
  vendored libraries and tables (`src/stb`, `pkg/fontconfig`, `pkg/libintl`), the
  headers of the embedding API, examples of its use, `pty.c` (names for ioctl
  numbers) and the vectorised helpers in `src/simd`, of which `vt.cpp` is modelled
  (`VectorDecode`); `index_of.cpp`, `codepoint_width.cpp` and `base64.cpp` are pure
  functions without state.

## 7. Order of work

The order was by how much the rest depends on a part: queue, pipeline, hand-off,
the threads composed; then what runs on the threads: the prediction protocol, the
timers, and the input stream. Left, in the order of what they would add:

1. Handler errors in `SurfaceThreads`, with the messages they strand.
2. The registry of surfaces with addresses that are used again (`App.zig:214-300`,
   531), and search results against the needle
   (`terminal/search/Thread.zig:285-415`).

## 8. Running

    tlc -workers 2 -config MCSurfaceThreads.cfg MCSurfaceThreads
    tlc -workers 2 -config MCStreamReads.cfg MCStreamReads
    tlapm SurfaceThreadsProofs.tla
