---------------------------- MODULE SurfaceTimers ----------------------------
(***************************************************************************)
(* A surface with all its timers: the components PasswordInput,            *)
(* TermioTimers and RendererTimers, driven by the user, the parser and the *)
(* system.  A change of focus reaches the view, the IO thread and the      *)
(* renderer; a resize goes from main through the IO thread to the          *)
(* renderer; what the parser writes is drawn by the renderer unless output *)
(* is synchronized, which the IO thread's timer ends.                      *)
(***************************************************************************)
EXTENDS PasswordInput, TermioTimers, RendererTimers

VARIABLES term_focused, \* Terminal: the focus as the parser knows it
          split,        \* the parser let go of the mutex within this batch
          unannounced   \* history: and what was written after came with no wake-up

output == <<term_focused, split, unannounced>>
vars == <<shared, password, timers, rendering, output>>

Init ==
    /\ SharedInit /\ PasswordInit /\ TermioInit /\ RendererInit
    /\ term_focused = TRUE /\ split = FALSE /\ unannounced = FALSE

-----------------------------------------------------------------------------
(* The parser: one batch of output *)

(* The renderer is woken first: "we can call this first because we have    *)
(* the lock".  The cursor may be shown again, if there is room to say so.  *)
BeginBatch ==
    /\ Stimulus /\ parsing = "idle"
    /\ parsing' = "locked"
    /\ rwoken' = TRUE
    /\ rq' \in {rq, Pushed(rq, RendererCap, <<"blink", TRUE>>)}
    /\ split' = FALSE
    /\ UNCHANGED <<focused, io, draining, poll, appq, screen, password, timers,
                   rendering, term_focused, unannounced>>

FocusMessage(v) == IF v THEN "focus_on" ELSE "focus_off"

(* messageWriter and surfaceMessageWriter: a message finds its mailbox     *)
(* full, and the mutex is let go until there is room, or the push is       *)
(* refused.  What the message says is settled before: a mode is set first, *)
(* and the focus is read.  Each time is an event.                          *)
LetGo ==
    /\ Stimulus /\ parsing = "locked"
    /\ \/ ~Room(appq, AppCap) /\ parsing' = "app" /\ UNCHANGED sync
       \/ /\ ~Room(ioq, IoCap) /\ parsing' \in {"io", FocusMessage(term_focused)}
          /\ UNCHANGED sync
       \/ ~Room(ioq, IoCap) /\ parsing' = "sync" /\ sync' = TRUE
    /\ split' = TRUE
    /\ Touched
    /\ UNCHANGED <<focused, io, draining, poll, appq, rq, rwoken, password,
                   timers, rendering, term_focused, unannounced>>

(* The focus that the terminal knows.  It may be an older one than main    *)
(* has sent by now, or that of a terminal that was reset.                  *)
SendFocus(v) ==
    /\ ioq' = Pushed(ioq, IoCap, <<"focused", v>>)
    /\ missed' = IF ~Room(ioq, IoCap) THEN missed
                 ELSE IF v = focused THEN missed \ {"focused"}
                 ELSE missed \cup {"focused"}

TakeBack ==
    /\ parsing' = "locked"
    /\ \/ /\ parsing = "app" /\ appq' = Pushed(appq, AppCap, <<"other", TRUE>>)
          /\ UNCHANGED io
       \/ parsing = "io" /\ UNCHANGED <<appq, io>>
       \/ parsing = "sync" /\ SendIo(<<"sync">>) /\ UNCHANGED appq
       \/ /\ \E v \in BOOLEAN : parsing = FocusMessage(v) /\ SendFocus(v)
          /\ UNCHANGED appq
    /\ UNCHANGED <<focused, draining, poll, rq, rwoken, screen, events, password,
                   timers, rendering, output>>

(* What is written now is drawn only with the next wake-up. *)
Unseen == ~rwoken /\ rpc # "drain"

(* fullReset, what of it matters here. *)
FullReset ==
    /\ sync' = FALSE /\ ResetFlag /\ kitty' = FALSE /\ term_focused' = TRUE

(* What the batch did: text, synchronized output begun or ended, focus     *)
(* reports asked for, a full reset, an animated image shown or removed.    *)
EndBatch ==
    /\ parsing = "locked"
    /\ parsing' = "idle"
    /\ Touched
    /\ \/ UNCHANGED <<sync, io, password_input, disturbed, kitty, term_focused>>
       \/ /\ Room(ioq, IoCap) /\ sync' = TRUE /\ SendIo(<<"sync">>)
          /\ UNCHANGED <<password_input, disturbed, kitty, term_focused>>
       \/ sync' = FALSE /\ UNCHANGED <<io, password_input, disturbed, kitty, term_focused>>
       \/ /\ Room(ioq, IoCap) /\ SendFocus(term_focused)
          /\ UNCHANGED <<sync, password_input, disturbed, kitty, term_focused>>
       \/ FullReset /\ UNCHANGED io
       \/ kitty' = ~kitty /\ UNCHANGED <<sync, io, password_input, disturbed, term_focused>>
    /\ unannounced' = (unannounced \/ (split /\ Unseen))
    /\ UNCHANGED <<focused, draining, poll, appq, rq, rwoken, events, tty, polling,
                   secure, system, timers, visible, scrollback_compression, loop,
                   split>>

Parser == BeginBatch \/ LetGo \/ TakeBack \/ EndBatch

-----------------------------------------------------------------------------
(* Steps of more than one component *)

(* focusDidChange of the view, focusCallback of the surface. *)
FocusCallback(v) ==
    /\ Stimulus /\ Unlocked /\ focused # v
    /\ focused' = v
    /\ SendRenderer(<<"focus", v>>) /\ rwoken' = TRUE
    /\ term_focused' = v
    /\ SendIo(<<"focused", v>>)
    /\ FocusView(v)
    /\ UNCHANGED <<draining, poll, appq, parsing, screen, tty, polling,
                   password_input, system, timers, rendering, split, unannounced>>

(* The reset key binding, on main: nobody is woken. *)
ResetBinding ==
    /\ Stimulus /\ Unlocked
    /\ FullReset /\ Touched
    /\ unannounced' = (unannounced \/ Unseen)
    /\ UNCHANGED <<focused, io, draining, poll, appq, rq, rwoken, parsing, tty,
                   polling, secure, system, timers, visible, scrollback_compression,
                   loop, split>>

ResizeRenderer(s) ==
    /\ HandleScreenSize(s)
    /\ renderer_size' = s
    /\ UNCHANGED <<password, size, resize_data, coalesce, pty_size, term_size, failed,
                   unsized, sync_reset, scrolling, visible, scrollback_compression, kitty,
                   output>>

HandleOther ==
    /\ TakeApp(<<"other", TRUE>>)
    /\ UNCHANGED <<focused, io, draining, poll, rq, rwoken, parsing, screen, events, password,
                   timers, rendering, output>>

-----------------------------------------------------------------------------
Renderer ==
    /\ LoopSteps
    /\ unannounced' = (unannounced /\ ~WakeUp)
    /\ UNCHANGED <<password, timers, visible, scrollback_compression, kitty, term_focused,
                   split>>

Surface ==
    \/ PasswordSteps /\ UNCHANGED <<timers, rendering, output>>
    \/ TermioSteps /\ UNCHANGED <<password, rendering, output>>
    \/ (OcclusionCallback \/ UpdateConfig) /\ UNCHANGED <<password, timers, output>>
    \/ EndDrain /\ UNCHANGED <<password, timers, rendering, output>>
    \/ Parser \/ Renderer
    \/ \E v \in BOOLEAN : FocusCallback(v)
    \/ \E s \in Sizes : ResizeRenderer(s)
    \/ HandleOther \/ ResetBinding

(* The application outlives the surface. *)
Next ==
    \/ ~closed /\ Surface
    \/ SystemSteps /\ UNCHANGED <<timers, rendering, output>>

Spec == Init /\ [][Next]_vars

-----------------------------------------------------------------------------
TypeOK ==
    /\ SharedTypeOK /\ PasswordTypeOK /\ TermioTypeOK /\ RendererTypeOK
    /\ term_focused \in BOOLEAN /\ split \in BOOLEAN /\ unannounced \in BOOLEAN

(* Nothing the renderer has been woken for is left to do. *)
RendererIdle == rpc = "idle" /\ ~rwoken /\ parsing = "idle"

(* What the screen shows is on its way to the display: a visible renderer  *)
(* with nothing to do shows the last screen, unless output is synchronized *)
(* and the timer that ends it runs or is about to.  Not promised by the    *)
(* code: output written after the parser took the mutex back in mid-batch, *)
(* and a reset by key, come with no wake-up of their own (`unannounced');  *)
(* a resize that ends in an error may have changed the screen; and a       *)
(* refused message leaves synchronized output without its timer.           *)
FrameCurrent ==
    RendererIdle /\ rvisible /\ dirty =>
        \/ sync /\ (sync_reset \/ Holds(ioq, <<"sync">>) \/ "sync" \in missed)
        \/ unannounced \/ failed

(* History that can be compressed is not forgotten: the timer runs unless  *)
(* the work is done, whoever held the mutex when the renderer looked.      *)
CompressionScheduled ==
    RendererIdle /\ compressing /\ work => compression \/ unannounced \/ failed

(* Every timer that is needed runs. *)
TimersRun ==
    ~closed => PollingWhileFocused /\ CursorBlinks /\ AnimationRuns /\ CompressionScheduled

=============================================================================
