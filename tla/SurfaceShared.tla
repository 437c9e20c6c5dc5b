---------------------------- MODULE SurfaceShared ----------------------------
(***************************************************************************)
(* What the timers of a surface share: the mailboxes between its threads,  *)
(* the renderer state mutex as the parser holds it, and what of the        *)
(* terminal both the IO thread and the renderer look at.  Modules          *)
(* PasswordInput, TermioTimers and RendererTimers extend this one, and     *)
(* SurfaceTimers composes them.                                            *)
(*                                                                         *)
(* A handler or callback is one step.  Who may wait for room in a mailbox, *)
(* and that a published message is looked at, is the subject of module     *)
(* SurfaceThreads: here a mailbox that is not empty is always looked at,   *)
(* and a handler that waits for room is a step that has not been taken.    *)
(* The parser, which lets go of the mutex to wait, does so in a step of    *)
(* its own.  Messages that touch no timer are left out.                    *)
(***************************************************************************)
EXTENDS Naturals, Sequences

CONSTANTS AppCap,     \* room in the app mailbox (64 in the code)
          IoCap,      \* room in the IO thread's mailbox (64 in the code)
          RendererCap, \* room in the renderer's mailbox (64 in the code)
          MaxEvents   \* bound: what user, shell, tty and system do

ASSUME SharedAssumption ==
    /\ AppCap \in Nat \ {0} /\ IoCap \in Nat \ {0} /\ RendererCap \in Nat \ {0}
    /\ MaxEvents \in Nat

VARIABLES focused,    \* Surface: the view has the focus
          ioq, draining, poll, \* IO thread: mailbox, in its drain, blocked push
          appq,       \* surface messages in the app mailbox
          rq, rwoken, \* renderer thread: mailbox, wake-up
          missed,     \* history: kinds of which the last message was refused
          parsing,    \* the parser: idle, locked, or what it waits to send
          sync,       \* Terminal: synchronized output
          dirty,      \* the screen differs from the frame shown
          work, untracked, \* history to compress; the renderer's token is old
          events      \* counts towards MaxEvents

screen == <<sync, dirty, work, untracked>>
io == <<ioq, missed>>
shared == <<focused, io, draining, poll, appq, rq, rwoken, parsing, screen, events>>

Stimulus == events < MaxEvents /\ events' = events + 1

(* The mutex can be taken by another thread than the parser. *)
Unlocked == parsing # "locked"

(* No callback of the IO thread runs inside another, or inside the drain. *)
IoIdle == ~draining /\ poll = "idle"

Holds(q, m) == \E i \in DOMAIN q : q[i] = m

(* What is written to the screen changes the compression token with it. *)
Touched == dirty' = TRUE /\ work' = TRUE /\ untracked' = TRUE

(* The renderer thread wakes itself when it starts. *)
SharedInit ==
    /\ focused = TRUE
    /\ ioq = <<>> /\ missed = {} /\ draining = FALSE /\ poll = "idle"
    /\ appq = <<>> /\ rq = <<>> /\ rwoken = TRUE
    /\ parsing = "idle" /\ sync = FALSE
    /\ dirty = TRUE /\ work = FALSE /\ untracked = TRUE
    /\ events = 0

Room(q, cap) == Len(q) < cap

(* What a push forever leaves in a mailbox.  While that is full the sender *)
(* waits, so that the step comes later; or else the sender was woken, found *)
(* the mailbox full again, and its message is dropped.  That another has   *)
(* taken the room it was woken for is not looked at.                       *)
Pushed(q, cap, m) == IF Room(q, cap) THEN Append(q, m) ELSE q

(* What a refused message of these kinds was to start stays undone. *)
Kept == {"focused", "resize", "sync"}

(* Mutant: nobody looks for room. *)
SendIoUnchecked(m) == ioq' = Append(ioq, m) /\ missed' = missed \ {m[1]}

(* A message to the IO thread, but from the parser while it has the mutex. *)
SendIo(m) ==
    /\ ioq' = Pushed(ioq, IoCap, m)
    /\ missed' = IF Room(ioq, IoCap) THEN missed \ {m[1]} ELSE missed \cup ({m[1]} \cap Kept)

SendRenderer(m) == rq' = Pushed(rq, RendererCap, m)

(* The IO thread takes a message from its mailbox. *)
TakeIo(m) ==
    /\ poll = "idle" /\ ioq # <<>> /\ Head(ioq) = m
    /\ ioq' = Tail(ioq) /\ UNCHANGED missed
    /\ draining' = TRUE

(* Main takes a message from the app mailbox. *)
TakeApp(m) ==
    /\ appq # <<>> /\ Head(appq) = m
    /\ appq' = Tail(appq)

(* The drain ends with one redraw. *)
EndDrain ==
    /\ draining /\ poll = "idle" /\ ioq = <<>>
    /\ draining' = FALSE
    /\ rwoken' = TRUE
    /\ UNCHANGED <<focused, io, poll, appq, rq, parsing, screen, events>>

ParserPCs == {"idle", "locked", "app", "io", "sync", "focus_on", "focus_off"}

SharedTypeOK ==
    /\ focused \in BOOLEAN /\ draining \in BOOLEAN /\ rwoken \in BOOLEAN
    /\ poll \in {"idle", "on", "off"} /\ parsing \in ParserPCs
    /\ sync \in BOOLEAN /\ dirty \in BOOLEAN /\ work \in BOOLEAN
    /\ untracked \in BOOLEAN /\ events \in 0..MaxEvents
    /\ Len(appq) <= AppCap /\ Len(ioq) <= IoCap /\ Len(rq) <= RendererCap
    /\ missed \subseteq Kept

=============================================================================
