--------------------------- MODULE SurfaceThreads ---------------------------
(***************************************************************************)
(* The threads of one terminal surface and the mailboxes between them:     *)
(*                                                                         *)
(*   main      apprt events and App.tick       drains the app mailbox      *)
(*   reader    parses the pty's output         drains nothing              *)
(*   writer    termio/Thread.zig (IO thread)   drains the termio mailbox   *)
(*   renderer  renderer/Thread.zig             drains the renderer mailbox *)
(*   search    terminal/search/Thread.zig      drains the search mailbox   *)
(*                                                                         *)
(* Mailboxes are bounded, most pushes wait for room for ever, and all five *)
(* threads share the renderer state mutex: the module is about who may     *)
(* wait for whom.  A push, a pop, a notify, a lock and an unlock are steps *)
(* of their own; what a message says is abstracted to what its handler     *)
(* does: "write" (nothing shared), "lookup" (takes the mutex: focus, size  *)
(* and colour reports), "resize", "config".  The renderer and search       *)
(* mailboxes are counters, their messages being handled alike.             *)
(*                                                                         *)
(* BlockingQueue refines a mailbox, StateHandoff the mutex.                *)
(***************************************************************************)
EXTENDS Naturals, Sequences, FiniteSets

CONSTANTS
    AppCap, TermioCap, RendererCap, SearchCap,  \* mailbox capacities
    Events,     \* what the user may do
    Programs,   \* what the output of the programs makes the parser send
    MaxEvents, MaxOutput, MaxAlarms   \* bounds: events, batches and effects, alarms

EventKinds  == {"key", "mouse", "resize", "focus", "config", "find", "endfind", "close"}
EffectKinds == {"notice", "title", "query"}

ASSUME MailboxAssumption ==
    /\ {AppCap, TermioCap, RendererCap, SearchCap} \subseteq Nat \ {0}
    /\ Events \subseteq EventKinds /\ Programs \subseteq SUBSET EffectKinds
    /\ {MaxEvents, MaxOutput, MaxAlarms} \subseteq Nat

Threads == {"main", "reader", "writer", "renderer", "search"}
TermioMessages == {"write", "lookup", "resize", "config"}
AppMessages == {"notice", "title", "scrollbar"}

VARIABLES
    appQ, termioQ, rendererQ, searchQ,  \* the mailboxes
    wait,       \* "asleep" in a push for ever, "woken" by a pop, or "no"
    appWake, ioWake, rendererWake,      \* xev.Async notifications pending
    lock,       \* holder of the renderer state mutex, or "free"
    pc,         \* where each thread is
    letter,     \* the message a thread is trying to send
    back,       \* where main goes on after it has sent
    messaged,   \* StreamHandler.termio_messaged
    redraw,     \* drainMailbox's local of the writer
    armed,      \* the writer's resize coalescing timer
    dirty,      \* scrollbar_dirty
    tell,       \* what the search thread's callbacks have yet to do
    stop,       \* threads asked to stop
    closing,    \* Surface.deinit has begun
    program,    \* the program that runs in the terminal, one of Programs
    events, output, alarms  \* what remains of the bounds

mail   == <<appQ, termioQ, rendererQ, searchQ, wait>>
wakes  == <<appWake, ioWake, rendererWake>>
locals == <<letter, back, messaged, redraw, armed, dirty, tell>>
ending == <<stop, closing>>
bounds == <<program, events, output, alarms>>
vars   == <<mail, wakes, lock, pc, locals, ending, bounds>>

At(t, l) == pc[t] = l
Goto(t, l) == pc' = [pc EXCEPT ![t] = l]
Free == lock = "free"
Note(t, m) == letter' = [letter EXCEPT ![t] = m]

Init ==
    /\ appQ = <<>> /\ termioQ = <<>> /\ rendererQ = 0 /\ searchQ = 0
    /\ wait = [t \in Threads |-> "no"]
    /\ appWake = FALSE /\ ioWake = FALSE /\ rendererWake = TRUE
    /\ lock = "free"
    /\ pc = [main |-> "event", reader |-> "idle", writer |-> "loop",
             renderer |-> "loop", search |-> "off"]
    /\ letter = [t \in Threads |-> "none"] /\ back = "event"
    /\ messaged = FALSE /\ redraw = FALSE /\ armed = FALSE /\ dirty = FALSE
    /\ tell = <<>> /\ stop = {} /\ closing = FALSE
    /\ program \in Programs
    /\ events = MaxEvents /\ output = MaxOutput /\ alarms = MaxAlarms

-----------------------------------------------------------------------------
(* BlockingQueue.push with the timeout forever: a full queue puts the      *)
(* caller to sleep, a pop wakes one sleeper, and a sleeper that wakes to   *)
(* find the queue full again gives up: its message is dropped.             *)

Room == Len(termioQ) < TermioCap
AppRoom == Len(appQ) < AppCap
RendererRoom == rendererQ < RendererCap
SearchRoom == searchQ < SearchCap

Telling(what) == tell # <<>> /\ Head(tell) = what
Teller(what) == IF Telling(what) THEN {"search"} ELSE {}

TermioPushers == {t \in Threads : pc[t] \in {"room", "yielded"}}
AppPushers == {t \in Threads : pc[t] \in {"postRoom", "alarm"}} \cup Teller("app")
RendererPushers ==
    {t \in Threads : pc[t] \in {"pushFocus", "pushConfig", "pushResize"}}
        \cup Teller("renderer")
SearchPushers == {t \in Threads : At(t, "pushFind")}

Pushes(t, room) ==
    /\ wait[t] # "asleep" /\ room
    /\ wait' = [wait EXCEPT ![t] = "no"]

GivesUp(t, room) ==
    /\ wait[t] = "woken" /\ ~room
    /\ wait' = [wait EXCEPT ![t] = "no"]

FallAsleep(t) ==
    /\ \/ t \in TermioPushers /\ ~Room
       \/ t \in AppPushers /\ ~AppRoom
       \/ t \in RendererPushers /\ ~RendererRoom
       \/ t \in SearchPushers /\ ~SearchRoom
    /\ wait[t] = "no"
    /\ wait' = [wait EXCEPT ![t] = "asleep"]
    /\ UNCHANGED <<appQ, termioQ, rendererQ, searchQ, wakes, lock, pc, locals, ending,
                   bounds>>

SignalOne(pushers) ==
    LET sleepers == {t \in pushers : wait[t] = "asleep"} IN
    IF sleepers = {} THEN UNCHANGED wait
    ELSE \E t \in sleepers : wait' = [wait EXCEPT ![t] = "woken"]

-----------------------------------------------------------------------------
(* termio.Mailbox.send, for any thread.  A thread that holds the mutex     *)
(* passes it along, so that a full mailbox makes the thread let go of it.  *)

Sent(t) == CASE t = "main" -> "notify" [] t = "reader" -> "parse"
             [] t = "writer" -> "configured"

SendFast(t) ==
    /\ At(t, "send") /\ Room
    /\ termioQ' = Append(termioQ, letter[t])
    /\ Note(t, "none")
    /\ messaged' = (messaged \/ t # "main")
    /\ Goto(t, Sent(t))
    /\ UNCHANGED <<appQ, rendererQ, searchQ, wait, wakes, lock, back, redraw,
                   armed, dirty, tell, ending, bounds>>

(* Mutant: the mutex is kept while the thread waits for room. *)
SendFullLocked(t) ==
    /\ At(t, "send") /\ ~Room
    /\ ioWake' = TRUE
    /\ Goto(t, IF lock = t THEN "yielded" ELSE "room")
    /\ UNCHANGED <<mail, appWake, rendererWake, lock, locals, ending, bounds>>

SendFull(t) ==
    /\ At(t, "send") /\ ~Room
    /\ ioWake' = TRUE
    /\ lock' = IF lock = t THEN "free" ELSE lock
    /\ Goto(t, IF lock = t THEN "yielded" ELSE "room")
    /\ UNCHANGED <<mail, appWake, rendererWake, locals, ending, bounds>>

SendSlow(t) ==
    /\ pc[t] \in {"room", "yielded"}
    /\ \/ Pushes(t, Room) /\ termioQ' = Append(termioQ, letter[t])
       \/ GivesUp(t, Room) /\ UNCHANGED termioQ
    /\ Note(t, "none")
    /\ Goto(t, IF At(t, "yielded") THEN "relock" ELSE Sent(t))
    /\ UNCHANGED <<appQ, rendererQ, searchQ, wakes, lock, back, messaged, redraw,
                   armed, dirty, tell, ending, bounds>>

Relock(t) ==
    /\ At(t, "relock") /\ Free
    /\ lock' = t
    /\ messaged' = (messaged \/ t # "main")
    /\ Goto(t, Sent(t))
    /\ UNCHANGED <<mail, wakes, letter, back, redraw, armed, dirty, tell, ending,
                   bounds>>

Send(t) == SendFast(t) \/ SendFull(t) \/ SendSlow(t) \/ Relock(t)

-----------------------------------------------------------------------------
(* Main: what the user does. *)

Event(kind) ==
    /\ kind \in Events /\ events > 0
    /\ At("main", "event")
    /\ events' = events - 1

KeyCallback ==
    /\ Event("key")
    /\ Goto("main", "encode")
    /\ UNCHANGED <<mail, wakes, lock, locals, ending, program, output, alarms>>

(* The key is encoded under the mutex and queued without it. *)
EncodeKey ==
    /\ At("main", "encode") /\ Free
    /\ Note("main", "write") /\ back' = "event"
    /\ Goto("main", "send")
    /\ UNCHANGED <<mail, wakes, lock, messaged, redraw, armed, dirty, tell, ending,
                   bounds>>

CursorPosCallback ==
    /\ Event("mouse")
    /\ Goto("main", "mouse")
    /\ UNCHANGED <<mail, wakes, lock, locals, ending, program, output, alarms>>

(* A mouse report is queued with the mutex held. *)
MouseReport ==
    /\ At("main", "mouse") /\ Free
    /\ lock' = "main"
    /\ Note("main", "write") /\ back' = "event"
    /\ Goto("main", "send")
    /\ UNCHANGED <<mail, wakes, messaged, redraw, armed, dirty, tell, ending, bounds>>

SizeCallback ==
    /\ Event("resize")
    /\ Note("main", "resize") /\ back' = "event"
    /\ Goto("main", "send")
    /\ UNCHANGED <<mail, wakes, lock, messaged, redraw, armed, dirty, tell, ending,
                   program, output, alarms>>

FocusCallback ==
    /\ Event("focus")
    /\ Goto("main", "pushFocus")
    /\ UNCHANGED <<mail, wakes, lock, locals, ending, program, output, alarms>>

PushFocus ==
    /\ At("main", "pushFocus")
    /\ \/ Pushes("main", RendererRoom) /\ rendererQ' = rendererQ + 1
       \/ GivesUp("main", RendererRoom) /\ UNCHANGED rendererQ
    /\ Goto("main", "wakeFocus")
    /\ UNCHANGED <<appQ, termioQ, searchQ, wakes, lock, locals, ending, bounds>>

WakeFocus ==
    /\ At("main", "wakeFocus")
    /\ rendererWake' = TRUE
    /\ Goto("main", "flagFocus")
    /\ UNCHANGED <<mail, appWake, ioWake, lock, locals, ending, bounds>>

FlagFocus ==
    /\ At("main", "flagFocus") /\ Free
    /\ Note("main", "lookup") /\ back' = "event"
    /\ Goto("main", "send")
    /\ UNCHANGED <<mail, wakes, lock, messaged, redraw, armed, dirty, tell, ending,
                   bounds>>

UpdateConfig ==
    /\ Event("config")
    /\ Goto("main", "pushConfig")
    /\ UNCHANGED <<mail, wakes, lock, locals, ending, program, output, alarms>>

PushConfig ==
    /\ At("main", "pushConfig")
    /\ \/ Pushes("main", RendererRoom) /\ rendererQ' = rendererQ + 1
       \/ GivesUp("main", RendererRoom) /\ UNCHANGED rendererQ
    /\ Note("main", "config") /\ back' = "wakeConfig"
    /\ Goto("main", "send")
    /\ UNCHANGED <<appQ, termioQ, searchQ, wakes, lock, messaged, redraw, armed,
                   dirty, tell, ending, bounds>>

WakeConfig ==
    /\ At("main", "wakeConfig")
    /\ rendererWake' = TRUE
    /\ Goto("main", "event")
    /\ UNCHANGED <<mail, appWake, ioWake, lock, locals, ending, bounds>>

(* Termio.queueMessage notifies after the send. *)
Notify ==
    /\ At("main", "notify")
    /\ ioWake' = TRUE
    /\ lock' = IF lock = "main" THEN "free" ELSE lock
    /\ back' = "event"
    /\ Goto("main", back)
    /\ UNCHANGED <<mail, appWake, rendererWake, letter, messaged, redraw, armed, dirty,
                   tell, ending, bounds>>

(* The search bar: the first text starts the thread. *)
Find ==
    /\ Event("find")
    /\ pc' = [pc EXCEPT !["main"] = "pushFind",
                        !["search"] = IF @ = "off" THEN "loop" ELSE @]
    /\ UNCHANGED <<mail, wakes, lock, locals, ending, program, output, alarms>>

PushFind ==
    /\ At("main", "pushFind")
    /\ \/ Pushes("main", SearchRoom) /\ searchQ' = searchQ + 1
       \/ GivesUp("main", SearchRoom) /\ UNCHANGED searchQ
    /\ Goto("main", "event")
    /\ UNCHANGED <<appQ, termioQ, rendererQ, wakes, lock, locals, ending, bounds>>

EndFind ==
    /\ Event("endfind") /\ ~At("search", "off")
    /\ stop' = stop \cup {"search"}
    /\ Goto("main", "joinSearch")
    /\ UNCHANGED <<mail, wakes, lock, locals, closing, program, output, alarms>>

-----------------------------------------------------------------------------
(* Main: Surface.deinit joins the threads one after the other. *)

(* Mutant: the renderer is stopped before the search thread is joined. *)
CloseRendererFirst ==
    /\ Event("close")
    /\ closing' = TRUE
    /\ stop' = stop \cup {"renderer"}
             \cup (IF At("search", "off") THEN {} ELSE {"search"})
    /\ Goto("main", IF At("search", "off") THEN "joinRenderer" ELSE "joinSearch")
    /\ UNCHANGED <<mail, wakes, lock, locals, program, output, alarms>>

Close ==
    /\ Event("close")
    /\ closing' = TRUE
    /\ IF At("search", "off")
       THEN stop' = stop \cup {"renderer"} /\ Goto("main", "joinRenderer")
       ELSE stop' = stop \cup {"search"} /\ Goto("main", "joinSearch")
    /\ UNCHANGED <<mail, wakes, lock, locals, program, output, alarms>>

JoinSearch ==
    /\ At("main", "joinSearch") /\ At("search", "gone")
    /\ searchQ' = 0
    /\ stop' = (stop \ {"search"}) \cup (IF closing THEN {"renderer"} ELSE {})
    /\ pc' = [pc EXCEPT !["search"] = "off",
                        !["main"] = IF closing THEN "joinRenderer" ELSE "event"]
    /\ UNCHANGED <<appQ, termioQ, rendererQ, wait, wakes, lock, locals, closing, bounds>>

JoinRenderer ==
    /\ At("main", "joinRenderer") /\ At("renderer", "gone")
    /\ stop' = stop \cup {"writer"}
    /\ Goto("main", "joinWriter")
    /\ UNCHANGED <<mail, wakes, lock, locals, closing, bounds>>

JoinWriter ==
    /\ At("main", "joinWriter") /\ At("writer", "gone")
    /\ Goto("main", "closed")
    /\ UNCHANGED <<mail, wakes, lock, locals, ending, bounds>>

-----------------------------------------------------------------------------
(* Main: App.tick drains the app mailbox until it is empty. *)

Tick ==
    /\ At("main", "event") /\ appWake
    /\ appWake' = FALSE
    /\ Goto("main", "tick")
    /\ UNCHANGED <<mail, ioWake, rendererWake, lock, locals, ending, bounds>>

(* A title report is answered through the termio mailbox. *)
HandleMessage ==
    /\ At("main", "tick") /\ appQ # <<>>
    /\ appQ' = Tail(appQ)
    /\ SignalOne(AppPushers)
    /\ IF Head(appQ) = "title"
       THEN Note("main", "write") /\ back' = "tick" /\ Goto("main", "send")
       ELSE UNCHANGED <<letter, back, pc>>
    /\ UNCHANGED <<termioQ, rendererQ, searchQ, wakes, lock, messaged, redraw, armed,
                   dirty, tell, ending, bounds>>

(* Mutant: one message per tick. *)
TickDoneEarly ==
    /\ At("main", "tick")
    /\ Goto("main", "event")
    /\ UNCHANGED <<mail, wakes, lock, locals, ending, bounds>>

TickDone ==
    /\ At("main", "tick") /\ appQ = <<>>
    /\ Goto("main", "event")
    /\ UNCHANGED <<mail, wakes, lock, locals, ending, bounds>>

-----------------------------------------------------------------------------
(* Reader: Termio.processOutput on one batch, the mutex held. *)

(* Mutant: the render is not queued. *)
ProcessOutputQuietly ==
    /\ At("reader", "idle") /\ Free /\ output > 0
    /\ lock' = "reader" /\ output' = output - 1
    /\ dirty' = TRUE
    /\ Goto("reader", "blink")
    /\ UNCHANGED <<mail, wakes, letter, back, messaged, redraw, armed, tell, ending,
                   program, events, alarms>>

ProcessOutput ==
    /\ At("reader", "idle") /\ Free /\ output > 0
    /\ lock' = "reader" /\ output' = output - 1
    /\ rendererWake' = TRUE
    /\ dirty' = TRUE
    /\ Goto("reader", "blink")
    /\ UNCHANGED <<mail, appWake, ioWake, letter, back, messaged, redraw, armed, tell,
                   ending, program, events, alarms>>

(* reset_cursor_blink, at most every 500 ms, dropped when there is no room. *)
ResetCursorBlink ==
    /\ At("reader", "blink")
    /\ \/ RendererRoom /\ rendererQ' = rendererQ + 1
       \/ UNCHANGED rendererQ
    /\ Goto("reader", "parse")
    /\ UNCHANGED <<appQ, termioQ, searchQ, wait, wakes, lock, locals, ending, bounds>>

ParseQuery ==
    /\ "query" \in program
    /\ At("reader", "parse") /\ output > 0
    /\ output' = output - 1
    /\ Note("reader", "write")
    /\ Goto("reader", "send")
    /\ UNCHANGED <<mail, wakes, lock, back, messaged, redraw, armed, dirty, tell,
                   ending, program, events, alarms>>

ParseForSurface ==
    /\ At("reader", "parse") /\ output > 0
    /\ output' = output - 1
    /\ \E m \in program \ {"query"} : Note("reader", m)
    /\ Goto("reader", "post")
    /\ UNCHANGED <<mail, wakes, lock, back, messaged, redraw, armed, dirty, tell,
                   ending, program, events, alarms>>

(* Mutant: the message is posted without asking for room. *)
PostFastOver ==
    /\ At("reader", "post")
    /\ appQ' = Append(appQ, letter["reader"])
    /\ Note("reader", "none")
    /\ Goto("reader", "wakeApp")
    /\ UNCHANGED <<termioQ, rendererQ, searchQ, wait, wakes, lock, back, messaged,
                   redraw, armed, dirty, tell, ending, bounds>>

(* surfaceMessageWriter: App.Mailbox.push wakes the app either way. *)
PostFast ==
    /\ At("reader", "post") /\ AppRoom
    /\ appQ' = Append(appQ, letter["reader"])
    /\ Note("reader", "none")
    /\ Goto("reader", "wakeApp")
    /\ UNCHANGED <<termioQ, rendererQ, searchQ, wait, wakes, lock, back, messaged,
                   redraw, armed, dirty, tell, ending, bounds>>

PostFull ==
    /\ At("reader", "post") /\ ~AppRoom
    /\ appWake' = TRUE
    /\ lock' = "free"
    /\ Goto("reader", "postRoom")
    /\ UNCHANGED <<mail, ioWake, rendererWake, locals, ending, bounds>>

PostSlow ==
    /\ At("reader", "postRoom")
    /\ \/ Pushes("reader", AppRoom) /\ appQ' = Append(appQ, letter["reader"])
       \/ GivesUp("reader", AppRoom) /\ UNCHANGED appQ
    /\ Note("reader", "none")
    /\ Goto("reader", "wakeApp")
    /\ UNCHANGED <<termioQ, rendererQ, searchQ, wakes, lock, back, messaged,
                   redraw, armed, dirty, tell, ending, bounds>>

WakeApp ==
    /\ At("reader", "wakeApp")
    /\ appWake' = TRUE
    /\ Goto("reader", IF lock = "reader" THEN "parse" ELSE "relockPost")
    /\ UNCHANGED <<mail, ioWake, rendererWake, lock, locals, ending, bounds>>

RelockPost ==
    /\ At("reader", "relockPost") /\ Free
    /\ lock' = "reader"
    /\ Goto("reader", "parse")
    /\ UNCHANGED <<mail, wakes, locals, ending, bounds>>

(* Mutant: the writer is not told of the messages of the batch. *)
EndBatchQuietly ==
    /\ At("reader", "parse")
    /\ messaged' = FALSE
    /\ lock' = "free"
    /\ Goto("reader", "idle")
    /\ UNCHANGED <<mail, wakes, letter, back, redraw, armed, dirty, tell, ending,
                   bounds>>

EndBatch ==
    /\ At("reader", "parse")
    /\ ioWake' = (ioWake \/ messaged)
    /\ messaged' = FALSE
    /\ lock' = "free"
    /\ Goto("reader", "idle")
    /\ UNCHANGED <<mail, appWake, rendererWake, letter, back, redraw, armed, dirty,
                   tell, ending, bounds>>

QuitReader ==
    /\ At("reader", "idle") /\ "reader" \in stop
    /\ Goto("reader", "gone")
    /\ UNCHANGED <<mail, wakes, lock, locals, ending, bounds>>

-----------------------------------------------------------------------------
(* Writer: its event loop, drainMailbox and the handlers. *)

WakeWriter ==
    /\ At("writer", "loop") /\ ioWake
    /\ ioWake' = FALSE
    /\ Goto("writer", "drain")
    /\ UNCHANGED <<mail, appWake, rendererWake, lock, locals, ending, bounds>>

(* Only the handlers that share something have steps of their own.  A      *)
(* resize arms the coalescing timer unless it is running already.          *)
Drain ==
    /\ At("writer", "drain") /\ termioQ # <<>>
    /\ termioQ' = Tail(termioQ)
    /\ SignalOne(TermioPushers)
    /\ redraw' = TRUE
    /\ armed' = (armed \/ Head(termioQ) = "resize")
    /\ Goto("writer", IF Head(termioQ) \in {"lookup", "config"} THEN Head(termioQ)
                      ELSE "drain")
    /\ UNCHANGED <<appQ, rendererQ, searchQ, wakes, lock, letter, back, messaged,
                   dirty, tell, ending, bounds>>

(* Termio.focusGained, colorSchemeReport, sizeReport... *)
Lookup ==
    /\ At("writer", "lookup") /\ Free
    /\ Goto("writer", "drain")
    /\ UNCHANGED <<mail, wakes, lock, locals, ending, bounds>>

(* Termio.changeConfig: the stream handler answers with a message to the   *)
(* mailbox this very thread is draining.                                   *)
ChangeConfig ==
    /\ At("writer", "config") /\ Free
    /\ lock' = "writer"
    /\ Note("writer", "lookup")
    /\ Goto("writer", "send")
    /\ UNCHANGED <<mail, wakes, back, messaged, redraw, armed, dirty, tell, ending,
                   bounds>>

ConfigChanged ==
    /\ At("writer", "configured")
    /\ lock' = "free"
    /\ Goto("writer", "drain")
    /\ UNCHANGED <<mail, wakes, locals, ending, bounds>>

Drained ==
    /\ At("writer", "drain") /\ termioQ = <<>>
    /\ rendererWake' = (rendererWake \/ redraw)
    /\ redraw' = FALSE
    /\ Goto("writer", "loop")
    /\ UNCHANGED <<mail, appWake, ioWake, lock, letter, back, messaged,
                   armed, dirty, tell, ending, bounds>>

Coalesced ==
    /\ At("writer", "loop") /\ armed
    /\ armed' = FALSE
    /\ Goto("writer", "resize")
    /\ UNCHANGED <<mail, wakes, lock, letter, back, messaged, redraw, dirty, tell,
                   ending, bounds>>

Resize ==
    /\ At("writer", "resize") /\ Free
    /\ Goto("writer", "pushResize")
    /\ UNCHANGED <<mail, wakes, lock, locals, ending, bounds>>

PushResize ==
    /\ At("writer", "pushResize")
    /\ \/ Pushes("writer", RendererRoom) /\ rendererQ' = rendererQ + 1
       \/ GivesUp("writer", RendererRoom) /\ UNCHANGED rendererQ
    /\ Goto("writer", "wakeResize")
    /\ UNCHANGED <<appQ, termioQ, searchQ, wakes, lock, locals, ending, bounds>>

WakeResize ==
    /\ At("writer", "wakeResize")
    /\ rendererWake' = TRUE
    /\ Goto("writer", "loop")
    /\ UNCHANGED <<mail, appWake, ioWake, lock, locals, ending, bounds>>

(* The child's exit is posted, waiting for room for as long as it takes.   *)
Alarm ==
    /\ At("writer", "loop") /\ alarms > 0
    /\ alarms' = alarms - 1
    /\ Goto("writer", "alarm")
    /\ UNCHANGED <<mail, wakes, lock, locals, ending, program, events, output>>

PostAlarm ==
    /\ At("writer", "alarm")
    /\ \/ Pushes("writer", AppRoom) /\ appQ' = Append(appQ, "notice")
       \/ GivesUp("writer", AppRoom) /\ UNCHANGED appQ
    /\ Goto("writer", "wakeApp")
    /\ UNCHANGED <<termioQ, rendererQ, searchQ, wakes, lock, locals, ending, bounds>>

WakeAlarm ==
    /\ At("writer", "wakeApp")
    /\ appWake' = TRUE
    /\ Goto("writer", "loop")
    /\ UNCHANGED <<mail, ioWake, rendererWake, lock, locals, ending, bounds>>

(* Mutant: nothing is written to the quit pipe. *)
StopWriterOnly ==
    /\ At("writer", "loop") /\ "writer" \in stop
    /\ Goto("writer", "joinReader")
    /\ UNCHANGED <<mail, wakes, lock, locals, ending, bounds>>

(* Exec.threadExit: the child is stopped, the reader told to quit. *)
StopWriter ==
    /\ At("writer", "loop") /\ "writer" \in stop
    /\ stop' = stop \cup {"reader"}
    /\ Goto("writer", "joinReader")
    /\ UNCHANGED <<mail, wakes, lock, locals, closing, bounds>>

JoinReader ==
    /\ At("writer", "joinReader") /\ At("reader", "gone")
    /\ Goto("writer", "gone")
    /\ UNCHANGED <<mail, wakes, lock, locals, ending, bounds>>

-----------------------------------------------------------------------------
(* Renderer: drain, then one frame under the mutex, then the draw. *)

WakeRenderer ==
    /\ At("renderer", "loop") /\ rendererWake
    /\ rendererWake' = FALSE
    /\ Goto("renderer", "drain")
    /\ UNCHANGED <<mail, appWake, ioWake, lock, locals, ending, bounds>>

DrainRenderer ==
    /\ At("renderer", "drain") /\ rendererQ > 0
    /\ rendererQ' = rendererQ - 1
    /\ SignalOne(RendererPushers)
    /\ UNCHANGED <<appQ, termioQ, searchQ, wakes, lock, pc, locals, ending, bounds>>

RendererDrained ==
    /\ At("renderer", "drain") /\ rendererQ = 0
    /\ Goto("renderer", "frame")
    /\ UNCHANGED <<mail, wakes, lock, locals, ending, bounds>>

UpdateFrame ==
    /\ At("renderer", "frame") /\ Free
    /\ Goto("renderer", "draw")
    /\ UNCHANGED <<mail, wakes, lock, locals, ending, bounds>>

(* The scrollbar is posted if there is room, and next frame otherwise. *)
DrawFrame ==
    /\ At("renderer", "draw")
    /\ IF dirty /\ AppRoom
       THEN appQ' = Append(appQ, "scrollbar") /\ dirty' = FALSE
       ELSE UNCHANGED <<appQ, dirty>>
    /\ Goto("renderer", IF dirty THEN "wakeApp" ELSE "loop")
    /\ UNCHANGED <<termioQ, rendererQ, searchQ, wait, wakes, lock, letter, back, messaged,
                   redraw, armed, tell, ending, bounds>>

WakeScrollbar ==
    /\ At("renderer", "wakeApp")
    /\ appWake' = TRUE
    /\ Goto("renderer", "loop")
    /\ UNCHANGED <<mail, ioWake, rendererWake, lock, locals, ending, bounds>>

StopRenderer ==
    /\ At("renderer", "loop") /\ "renderer" \in stop
    /\ Goto("renderer", "gone")
    /\ UNCHANGED <<mail, wakes, lock, locals, ending, bounds>>

-----------------------------------------------------------------------------
(* Search: a new needle is fed under the mutex and its results are told    *)
(* through Surface.searchCallback.  On quit the search state is reset.     *)

ChangeNeedle ==
    /\ At("search", "loop") /\ searchQ > 0
    /\ searchQ' = searchQ - 1
    /\ SignalOne(SearchPushers)
    /\ Goto("search", "feed")
    /\ UNCHANGED <<appQ, termioQ, rendererQ, wakes, lock, locals, ending, bounds>>

Feed ==
    /\ At("search", "feed") /\ Free
    /\ tell' = <<"app", "wakeApp", "renderer", "wakeRenderer">>
    /\ Goto("search", "tell")
    /\ UNCHANGED <<mail, wakes, lock, letter, back, messaged, redraw, armed, dirty,
                   ending, bounds>>

StopSearch ==
    /\ At("search", "loop") /\ "search" \in stop
    /\ tell' = <<"renderer", "renderer", "wakeRenderer", "app", "wakeApp", "app", "wakeApp">>
    /\ Goto("search", "quit")
    /\ UNCHANGED <<mail, wakes, lock, letter, back, messaged, redraw, armed, dirty,
                   ending, bounds>>

Tell(what) ==
    /\ pc["search"] \in {"tell", "quit"} /\ Telling(what)
    /\ tell' = Tail(tell)
    /\ UNCHANGED <<termioQ, searchQ, ioWake, lock, pc, letter, back, messaged, redraw,
                   armed, dirty, ending, bounds>>

TellApp ==
    /\ Tell("app")
    /\ \/ Pushes("search", AppRoom) /\ appQ' = Append(appQ, "notice")
       \/ GivesUp("search", AppRoom) /\ UNCHANGED appQ
    /\ UNCHANGED <<rendererQ, appWake, rendererWake>>

TellRenderer ==
    /\ Tell("renderer")
    /\ \/ Pushes("search", RendererRoom) /\ rendererQ' = rendererQ + 1
       \/ GivesUp("search", RendererRoom) /\ UNCHANGED rendererQ
    /\ UNCHANGED <<appQ, appWake, rendererWake>>

TellWakeApp ==
    /\ Tell("wakeApp")
    /\ appWake' = TRUE
    /\ UNCHANGED <<appQ, rendererQ, wait, rendererWake>>

TellWakeRenderer ==
    /\ Tell("wakeRenderer")
    /\ rendererWake' = TRUE
    /\ UNCHANGED <<appQ, rendererQ, wait, appWake>>

Told ==
    /\ pc["search"] \in {"tell", "quit"} /\ tell = <<>>
    /\ Goto("search", IF At("search", "quit") THEN "gone" ELSE "loop")
    /\ UNCHANGED <<mail, wakes, lock, locals, ending, bounds>>

-----------------------------------------------------------------------------
UserEvent ==
    \/ KeyCallback \/ CursorPosCallback \/ SizeCallback \/ FocusCallback
    \/ UpdateConfig \/ Find \/ EndFind \/ Close

Main ==
    \/ FallAsleep("main") \/ EncodeKey \/ MouseReport \/ PushFocus \/ WakeFocus \/ FlagFocus
    \/ PushConfig \/ WakeConfig \/ Send("main") \/ Notify \/ PushFind
    \/ JoinSearch \/ JoinRenderer \/ JoinWriter
    \/ Tick \/ HandleMessage \/ TickDone

Parser ==
    \/ FallAsleep("reader") \/ ResetCursorBlink \/ ParseQuery \/ ParseForSurface \/ Send("reader")
    \/ PostFast \/ PostFull \/ PostSlow \/ WakeApp \/ RelockPost
    \/ EndBatch \/ QuitReader

Writer ==
    \/ FallAsleep("writer") \/ WakeWriter \/ Drain \/ Lookup \/ ChangeConfig \/ Send("writer")
    \/ ConfigChanged \/ Drained \/ Coalesced \/ Resize \/ PushResize
    \/ WakeResize \/ PostAlarm \/ WakeAlarm \/ StopWriter \/ JoinReader

Renderer ==
    \/ WakeRenderer \/ DrainRenderer \/ RendererDrained \/ UpdateFrame
    \/ DrawFrame \/ WakeScrollbar \/ StopRenderer

Search ==
    \/ FallAsleep("search") \/ ChangeNeedle \/ Feed \/ StopSearch \/ TellApp \/ TellRenderer
    \/ TellWakeApp \/ TellWakeRenderer \/ Told

(* Nobody has anything to do: the user and the program are quiet, or the   *)
(* surface is closed.  Any other state without a step is a deadlock.       *)
Rest ==
    /\ pc["main"] \in {"event", "closed"} /\ pc["reader"] \in {"idle", "gone"}
    /\ pc["writer"] \in {"loop", "gone"} /\ pc["renderer"] \in {"loop", "gone"}
    /\ pc["search"] \in {"off", "loop"}
    /\ UNCHANGED vars

Next == UserEvent \/ ProcessOutput \/ Alarm \/ Main \/ Parser \/ Writer
        \/ Renderer \/ Search \/ Rest

Spec == Init /\ [][Next]_vars

(* Every thread runs when it can.  Nobody has to type or to print.         *)
FairSpec ==
    /\ Spec
    /\ WF_vars(Main) /\ WF_vars(Parser) /\ WF_vars(Writer)
    /\ WF_vars(Renderer) /\ WF_vars(Search)

-----------------------------------------------------------------------------
MainPCs == {"event", "encode", "mouse", "pushFocus", "wakeFocus", "flagFocus",
            "pushConfig", "wakeConfig", "send", "room", "yielded", "relock", "notify",
            "pushFind", "joinSearch", "joinRenderer", "joinWriter", "closed", "tick"}
ReaderPCs == {"idle", "blink", "parse", "send", "yielded", "relock", "post",
              "postRoom", "wakeApp", "relockPost", "gone"}
WriterPCs == {"loop", "drain", "lookup", "config", "send", "yielded", "relock",
              "configured", "resize", "pushResize", "wakeResize", "alarm", "wakeApp",
              "joinReader", "gone"}
RendererPCs == {"loop", "drain", "frame", "draw", "wakeApp", "gone"}
SearchPCs   == {"off", "loop", "feed", "tell", "quit", "gone"}

PlaceOK ==
    /\ DOMAIN pc = Threads
    /\ pc["main"] \in MainPCs /\ pc["reader"] \in ReaderPCs
    /\ pc["writer"] \in WriterPCs /\ pc["renderer"] \in RendererPCs
    /\ pc["search"] \in SearchPCs
    /\ back \in {"event", "tick", "wakeConfig"}
    /\ lock \in {"free", "main", "reader", "writer"}
MailOK ==
    /\ appQ \in Seq(AppMessages) /\ Len(appQ) <= AppCap
    /\ termioQ \in Seq(TermioMessages) /\ Len(termioQ) <= TermioCap
    /\ rendererQ \in 0 .. RendererCap /\ searchQ \in 0 .. SearchCap
LetterOK == letter \in [Threads -> TermioMessages \cup AppMessages \cup {"none"}]
WaitOK == wait \in [Threads -> {"no", "asleep", "woken"}]
FlagsOK ==
    /\ appWake \in BOOLEAN /\ ioWake \in BOOLEAN /\ rendererWake \in BOOLEAN
    /\ messaged \in BOOLEAN /\ redraw \in BOOLEAN /\ armed \in BOOLEAN
    /\ dirty \in BOOLEAN /\ closing \in BOOLEAN
    /\ stop \subseteq Threads
BoundsOK ==
    /\ program \in Programs
    /\ events \in 0 .. MaxEvents /\ output \in 0 .. MaxOutput
    /\ alarms \in 0 .. MaxAlarms

TypeOK ==
    /\ PlaceOK /\ MailOK /\ LetterOK /\ WaitOK /\ FlagsOK /\ BoundsOK
    /\ tell \in Seq({"app", "renderer", "wakeApp", "wakeRenderer"})

WaitsForRoom(t) ==
    t \in TermioPushers \cup AppPushers \cup RendererPushers \cup SearchPushers
Joins(t) == pc[t] \in {"joinSearch", "joinRenderer", "joinWriter", "joinReader"}

(* Nobody sleeps with the renderer state mutex: whoever waits for room in  *)
(* a mailbox or for a thread to end has let go of it, so the thread that   *)
(* would make the room can always get the mutex.                           *)
NobodySleepsWithLock == \A t \in Threads : WaitsForRoom(t) \/ Joins(t) => lock # t

(* What is in the termio mailbox will be looked at: the writer is awake or *)
(* woken, or the sender has its notify before it (main at the end of       *)
(* queueMessage, the reader at the end of the batch it is processing).     *)
WriterWillLook ==
    termioQ # <<>> =>
        \/ ioWake
        \/ pc["writer"] \in {"drain", "lookup", "config", "send", "configured",
                             "yielded", "relock", "joinReader", "gone"}
        \/ pc["main"] \in {"notify", "relock"}
        \/ pc["reader"] = "relock"
        \/ messaged /\ pc["reader"] \notin {"idle", "yielded", "gone"}

(* What is in the app mailbox will be looked at: every push is followed by *)
(* a wakeup of the app, also the pushes that failed.                       *)
AppWillLook ==
    appQ # <<>> =>
        \/ appWake
        \/ pc["main"] \in {"tick", "closed"} \/ back = "tick"
        \/ \E t \in Threads : pc[t] = "wakeApp"
        \/ Telling("wakeApp")

(* Pushing to the renderer does not wake it, and the cursor reset of a     *)
(* batch comes after the batch's wake-up.  Still, a full renderer mailbox  *)
(* is always about to be drained, so those who wait for room in it get it. *)
FullRendererWillLook ==
    rendererQ = RendererCap =>
        \/ rendererWake
        \/ pc["renderer"] \in {"drain", "gone"}
        \/ pc["main"] \in {"wakeFocus", "wakeConfig"} \/ back = "wakeConfig"
        \/ pc["writer"] = "wakeResize"
        \/ Telling("wakeRenderer")

(* Threads end in the order that keeps every mailbox drained while someone *)
(* may wait for room in it: the renderer outlives the search thread, the   *)
(* writer the renderer, the reader the writer's loop; a closed surface has *)
(* no thread left.                                                         *)
JoinOrder ==
    /\ At("renderer", "gone") => At("search", "off")
    /\ At("writer", "gone") => At("renderer", "gone") /\ At("reader", "gone")
    /\ At("main", "closed") =>
          \A t \in {"reader", "writer", "renderer"} : At(t, "gone")

(* Closing a surface comes to an end: no join waits for ever.              *)
CloseEnds == closing ~> At("main", "closed")

(* The comment in Exec.threadExit: the read thread is told to quit after   *)
(* the child has been stopped "so that we don't get stuck waiting for data *)
(* to stop flowing if it is a particularly noisy process".  Joining the    *)
(* reader comes to an end.                                                 *)
NoisyCloseEnds == At("writer", "joinReader") ~> At("writer", "gone")

(* The comment in termio/Mailbox.send: the writer has been woken "so that  *)
(* it can process messages to clear up space", so a send that waits for    *)
(* room ends.                                                              *)
SendEnds ==
    \A t \in {"main", "reader", "writer"} :
        pc[t] \in {"room", "yielded"} ~> pc[t] \notin {"room", "yielded"}

=============================================================================
