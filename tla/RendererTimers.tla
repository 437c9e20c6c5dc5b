--------------------------- MODULE RendererTimers ---------------------------
(***************************************************************************)
(* The renderer thread (src/src/renderer/Thread.zig): its wake-up, which   *)
(* drains the mailbox, draws a frame and considers compressing the         *)
(* scrollback, and its three timers, for the blinking cursor, animations   *)
(* and compression.  What the frame is drawn from is in                    *)
(* src/src/renderer/generic.zig.                                           *)
(***************************************************************************)
EXTENDS SurfaceShared

CONSTANT Shader   \* when a custom shader animates: "off", "focused", "always"

ASSUME ShaderAssumption == Shader \in {"off", "focused", "always"}

VARIABLES visible, scrollback_compression, \* Surface: what the user wants
          rpc,                 \* idle, or the stage of the wake-up
          rvisible, rfocused,  \* Thread.flags
          cursor,              \* the blink timer: dead, active, cancelling
          lapsed,              \* history, see CursorBlinks
          kitty, kitty_next,   \* an animated image; its next frame is known
          animation,           \* timer: dead, or what it will do
          compressing,         \* config: the scheduler is on
          compression          \* timer active

loop == <<rpc, rvisible, rfocused, cursor, lapsed, kitty_next, animation,
          compressing, compression>>
rendering == <<visible, scrollback_compression, kitty, loop>>

RendererInit ==
    /\ visible = TRUE /\ scrollback_compression = TRUE
    /\ rpc = "idle" /\ rvisible = TRUE /\ rfocused = TRUE
    /\ cursor = "active" /\ lapsed = FALSE
    /\ kitty = FALSE /\ kitty_next = FALSE
    /\ animation = IF Shader = "off" THEN "dead" ELSE "draw"
    /\ compressing = TRUE /\ compression = FALSE

Others == <<focused, io, draining, poll, appq, parsing, sync>>

-----------------------------------------------------------------------------
(* Drawing *)

(* animationWake: what the renderer wants to be woken for. *)
AnimationWake(f, k) ==
    (IF Shader = "always" \/ (Shader = "focused" /\ f) THEN {"draw"} ELSE {})
        \cup (IF k THEN {"update"} ELSE {})

(* armAnimationTimer: the earlier of the two; a timer that is not wanted   *)
(* any more is left to fire.                                               *)
Arm(old) ==
    LET wake == AnimationWake(rfocused', kitty_next')
    IN  animation' \in IF wake = {} THEN {old} ELSE wake

(* updateFrame, under the mutex: nothing is updated while the output is    *)
(* synchronized.                                                           *)
UpdateFrame ==
    /\ Unlocked
    /\ dirty' = (dirty /\ sync)
    /\ kitty_next' = IF sync THEN kitty_next ELSE kitty

(* renderCallback *)
Render(old) ==
    IF rvisible' THEN UpdateFrame /\ Arm(old)
    ELSE UNCHANGED <<dirty, kitty_next>> /\ animation' = old

-----------------------------------------------------------------------------
(* wakeupCallback *)

WakeUp ==
    /\ rpc = "idle" /\ rwoken
    /\ rwoken' = FALSE
    /\ rpc' = "drain"
    /\ UNCHANGED <<Others, rq, dirty, work, untracked, events, rvisible, rfocused,
                   cursor, lapsed, kitty_next, animation, compressing, compression>>

Take(m) ==
    /\ rpc = "drain" /\ rq # <<>> /\ Head(rq) = m
    /\ rq' = Tail(rq)
    /\ UNCHANGED <<Others, rwoken, work, events, rpc>>

HandleVisible(v) ==
    /\ Take(<<"visible", v>>)
    /\ rvisible' = v
    /\ UNCHANGED rfocused
    /\ IF v /\ ~rvisible THEN Render(animation)
       ELSE UNCHANGED <<dirty, kitty_next, animation>>
    /\ UNCHANGED <<untracked, cursor, lapsed, compressing, compression>>

(* A timer that is being cancelled is still active: it is not started      *)
(* again, and `lapsed' records it.                                         *)
HandleFocus(v) ==
    /\ Take(<<"focus", v>>)
    /\ rfocused' = v
    /\ UNCHANGED <<rvisible, kitty_next>>
    /\ IF v # rfocused
       THEN /\ Arm(animation)
            /\ lapsed' = (v /\ cursor = "cancelling")
            /\ cursor' = IF v /\ cursor = "dead" THEN "active"
                         ELSE IF ~v /\ cursor = "active" THEN "cancelling"
                         ELSE cursor
       ELSE UNCHANGED <<animation, lapsed, cursor>>
    /\ UNCHANGED <<dirty, untracked, compressing, compression>>

(* The reset of a timer that is being cancelled has the two share a        *)
(* completion: it survives, goes on dying, or is gone.                     *)
HandleBlink ==
    /\ Take(<<"blink", TRUE>>)
    /\ cursor' \in IF cursor = "cancelling" THEN {"active", "cancelling", "dead"}
                   ELSE {cursor}
    /\ UNCHANGED <<dirty, untracked, rvisible, rfocused, lapsed, kitty_next,
                   animation, compressing, compression>>

(* change_config *)
HandleConfig(v) ==
    /\ Take(<<"config", v>>)
    /\ compressing' = v
    /\ untracked' = (untracked \/ (v /\ ~compressing))
    /\ UNCHANGED <<rvisible, rfocused, kitty_next>> /\ Arm(animation)
    /\ UNCHANGED <<dirty, cursor, lapsed, compression>>

(* setScreenSize, the renderer's part. *)
HandleScreenSize(s) ==
    /\ Take(<<"resize", s>>)
    /\ UNCHANGED <<dirty, untracked, rvisible, rfocused, cursor, lapsed, kitty_next,
                   animation, compressing, compression>>

Drained ==
    /\ rpc = "drain" /\ rq = <<>>
    /\ rpc' = "compress"
    /\ UNCHANGED <<rvisible, rfocused>> /\ Render(animation)
    /\ UNCHANGED <<Others, rq, rwoken, work, untracked, events, cursor, lapsed,
                   compressing, compression>>

(* Compression.wake: the mutex is tried, never waited for. *)
ConsiderCompression ==
    /\ rpc = "compress" /\ rpc' = "idle"
    /\ \/ ~compressing /\ UNCHANGED <<untracked, compression>>
       \/ /\ compressing /\ Unlocked
          /\ untracked' = FALSE
          /\ compression' = (compression \/ untracked)
       \/ /\ compressing /\ ~Unlocked
          /\ compression' = TRUE
          /\ UNCHANGED untracked
    /\ UNCHANGED <<Others, rq, rwoken, dirty, work, events, rvisible, rfocused,
                   cursor, lapsed, kitty_next, animation, compressing>>

-----------------------------------------------------------------------------
(* The timers, between two wake-ups *)

(* Compression.timerCallback, step *)
CompressionFires ==
    /\ rpc = "idle" /\ compression
    /\ \/ ~compressing /\ compression' = FALSE /\ UNCHANGED <<work, untracked>>
       \/ compressing /\ ~Unlocked /\ UNCHANGED <<compression, work, untracked>>
       \/ /\ compressing /\ Unlocked /\ untracked
          /\ untracked' = FALSE
          /\ UNCHANGED <<compression, work>>
       \/ /\ compressing /\ Unlocked /\ ~untracked \* a step, the last or not
          /\ compression' \in BOOLEAN
          /\ work' = (work /\ compression')
          /\ UNCHANGED untracked
    /\ UNCHANGED <<Others, rq, rwoken, dirty, events, rpc, rvisible, rfocused,
                   cursor, lapsed, kitty_next, animation, compressing>>

(* animationTimerCallback: it stops while the surface is hidden. *)
AnimationFires ==
    /\ rpc = "idle" /\ animation # "dead"
    /\ UNCHANGED <<rvisible, rfocused>>
    /\ IF animation = "update" \/ ~rvisible THEN Render("dead")
       ELSE UNCHANGED <<dirty, kitty_next>> /\ Arm("dead")
    /\ UNCHANGED <<Others, rq, rwoken, work, untracked, events, rpc, cursor, lapsed,
                   compressing, compression>>

(* cursorTimerCallback *)
CursorFires ==
    /\ Stimulus
    /\ rpc = "idle" /\ cursor = "active"
    /\ rwoken' = TRUE
    /\ UNCHANGED <<Others, rq, dirty, work, untracked, loop>>

(* The cancellation takes effect, or the timer had fired and been started  *)
(* again before it could.                                                  *)
CursorCancelled ==
    /\ rpc = "idle" /\ cursor = "cancelling"
    /\ \/ cursor' = "dead" /\ UNCHANGED rwoken
       \/ cursor' = "active" /\ rwoken' = TRUE
    /\ UNCHANGED <<Others, rq, dirty, work, untracked, events, rpc, rvisible,
                   rfocused, lapsed, kitty_next, animation, compressing, compression>>

LoopSteps ==
    \/ WakeUp \/ Drained \/ ConsiderCompression
    \/ \E v \in BOOLEAN : HandleVisible(v) \/ HandleFocus(v) \/ HandleConfig(v)
    \/ HandleBlink
    \/ CompressionFires \/ AnimationFires \/ CursorFires \/ CursorCancelled

-----------------------------------------------------------------------------
(* Main *)

(* occlusionCallback *)
OcclusionCallback ==
    /\ Stimulus /\ Unlocked
    /\ visible' = ~visible
    /\ SendRenderer(<<"visible", ~visible>>)
    /\ rwoken' = TRUE
    /\ UNCHANGED <<Others, dirty, work, untracked, scrollback_compression, kitty, loop>>

(* updateConfig *)
UpdateConfig ==
    /\ Stimulus
    /\ scrollback_compression' = ~scrollback_compression
    /\ SendRenderer(<<"config", ~scrollback_compression>>)
    /\ rwoken' = TRUE
    /\ UNCHANGED <<Others, dirty, work, untracked, visible, kitty, loop>>

-----------------------------------------------------------------------------
RendererTypeOK ==
    /\ visible \in BOOLEAN /\ scrollback_compression \in BOOLEAN
    /\ rpc \in {"idle", "drain", "compress"}
    /\ rvisible \in BOOLEAN /\ rfocused \in BOOLEAN
    /\ cursor \in {"dead", "active", "cancelling"} /\ lapsed \in BOOLEAN
    /\ kitty \in BOOLEAN /\ kitty_next \in BOOLEAN
    /\ animation \in {"dead", "draw", "update"}
    /\ compressing \in BOOLEAN /\ compression \in BOOLEAN

(* The cursor of a focused surface blinks.  Not promised by the code, and  *)
(* recorded by `lapsed': focus that is lost and gained again before the    *)
(* cancellation of the timer takes effect.                                 *)
CursorBlinks == rfocused => cursor # "dead" \/ lapsed

(* What is to be animated on a visible surface is animated. *)
AnimationRuns ==
    rvisible /\ rpc = "idle" /\ AnimationWake(rfocused, kitty_next) # {}
        => animation # "dead"

=============================================================================
