---------------------------- MODULE TermioTimers ----------------------------
(***************************************************************************)
(* The timers of the IO thread (src/src/termio/Thread.zig): resizes are    *)
(* coalesced, synchronized output is ended after a while, and a drag past  *)
(* the edge of the surface scrolls the selection by ticks that main        *)
(* handles (src/src/Surface.zig).                                          *)
(***************************************************************************)
EXTENDS SurfaceShared

CONSTANTS Sizes, NoSize

ASSUME TermioTimersAssumption == Sizes # {} /\ NoSize \notin Sizes

VARIABLES size,                  \* Surface
          resize_data, coalesce, \* IO thread: last size, timer active
          pty_size, term_size, renderer_size,
          failed,                \* history: a resize ended in an error
          unsized,               \* history: the renderer's part of it was refused
          sync_reset,            \* timer active
          scroll_active, scroll, \* IO thread: wanted, timer active
          autoscroll, selection_scroll_active, \* Surface
          lost                   \* history: the last tick was dropped

sizes     == <<size, resize_data, coalesce, pty_size, term_size, renderer_size, failed,
              unsized>>
scrolling == <<scroll_active, scroll, autoscroll, selection_scroll_active, lost>>
timers    == <<sizes, sync_reset, scrolling>>

TermioInit ==
    /\ size \in Sizes
    /\ resize_data = NoSize /\ coalesce = FALSE
    /\ pty_size = size /\ term_size = size /\ renderer_size = size
    /\ failed = FALSE /\ unsized = FALSE
    /\ sync_reset = FALSE
    /\ scroll_active = FALSE /\ scroll = FALSE
    /\ autoscroll = FALSE /\ selection_scroll_active = FALSE /\ lost = FALSE

-----------------------------------------------------------------------------
(* Resizing *)

(* sizeCallback, resize *)
SizeCallback(s) ==
    /\ Stimulus /\ s # size
    /\ size' = s
    /\ SendIo(<<"resize", s>>)
    /\ UNCHANGED <<focused, draining, poll, appq, rq, rwoken, parsing, screen,
                   resize_data, coalesce, pty_size, term_size, renderer_size,
                   failed, unsized, sync_reset, scrolling>>

(* Mutant: the size of the first message is kept. *)
HandleResizeFirst(s) ==
    /\ TakeIo(<<"resize", s>>)
    /\ resize_data' = IF coalesce THEN resize_data ELSE s
    /\ coalesce' = TRUE
    /\ UNCHANGED <<focused, poll, appq, rq, rwoken, parsing, screen, events, size,
                   pty_size, term_size, renderer_size, failed, unsized, sync_reset,
                   scrolling>>

(* handleResize *)
HandleResize(s) ==
    /\ TakeIo(<<"resize", s>>)
    /\ resize_data' = s
    /\ coalesce' = TRUE
    /\ UNCHANGED <<focused, poll, appq, rq, rwoken, parsing, screen, events, size,
                   pty_size, term_size, renderer_size, failed, unsized, sync_reset,
                   scrolling>>

(* Termio.resize: the tty, the terminal, the report to the program and the *)
(* renderer are told in this order, and an error ends it.                  *)
ResizeAll(s) ==
    /\ pty_size' = s /\ term_size' = s
    /\ sync' = FALSE /\ Touched
    /\ SendRenderer(<<"resize", s>>) /\ rwoken' = TRUE
    /\ unsized' = ~Room(rq, RendererCap)
    /\ UNCHANGED failed

ResizeFails(s) ==
    /\ Stimulus
    /\ failed' = TRUE
    /\ UNCHANGED <<rq, rwoken, unsized>>
    /\ \/ UNCHANGED <<pty_size, term_size, screen>>                        \* the tty
       \/ pty_size' = s /\ UNCHANGED <<term_size, screen>>                 \* the terminal
       \/ pty_size' = s /\ term_size' = s /\ sync' = FALSE /\ Touched      \* the report

(* coalesceCallback *)
CoalesceFires ==
    /\ IoIdle /\ coalesce /\ Unlocked
    /\ coalesce' = FALSE
    /\ resize_data' = NoSize
    /\ \/ ResizeAll(resize_data) /\ UNCHANGED events
       \/ ResizeFails(resize_data)
    /\ UNCHANGED <<focused, io, draining, poll, appq, parsing, size,
                   renderer_size, sync_reset, scrolling>>

-----------------------------------------------------------------------------
(* Synchronized output *)

(* startSynchronizedOutput.  A timer that is active is reset; its callback *)
(* may be called for the cancellation too, and then ends the output.       *)
HandleSync ==
    /\ TakeIo(<<"sync">>)
    /\ sync_reset' = TRUE
    /\ \/ UNCHANGED <<sync, rwoken>>
       \/ sync_reset /\ Unlocked /\ sync' = FALSE /\ rwoken' = TRUE
    /\ UNCHANGED <<focused, poll, appq, rq, parsing, dirty, work, untracked, events,
                   sizes, scrolling>>

(* Mutant: the renderer is not woken. *)
SyncResetQuietly ==
    /\ IoIdle /\ sync_reset /\ Unlocked
    /\ sync_reset' = FALSE
    /\ sync' = FALSE
    /\ UNCHANGED <<focused, io, draining, poll, appq, rq, rwoken, parsing, dirty,
                   work, untracked, events, sizes, scrolling>>

(* syncResetCallback *)
SyncResetFires ==
    /\ IoIdle /\ sync_reset /\ Unlocked
    /\ sync_reset' = FALSE
    /\ sync' = FALSE
    /\ rwoken' = TRUE
    /\ UNCHANGED <<focused, io, draining, poll, appq, rq, parsing, dirty, work,
                   untracked, events, sizes, scrolling>>

-----------------------------------------------------------------------------
(* Scrolling the selection *)

(* A drag, its release or a deep press leaves the gesture scrolling or     *)
(* not.                                                                    *)
Drag(v) ==
    /\ Stimulus /\ Unlocked
    /\ autoscroll' = v
    /\ IF selection_scroll_active # v THEN SendIo(<<"scroll", v>>) ELSE UNCHANGED io
    /\ UNCHANGED <<focused, draining, poll, appq, rq, rwoken, parsing, screen,
                   sizes, sync_reset, scroll_active, scroll,
                   selection_scroll_active, lost>>

(* Mutant: the timer is stopped with the wish. *)
HandleScrollAtOnce(v) ==
    /\ TakeIo(<<"scroll", v>>)
    /\ scroll_active' = v
    /\ scroll' = v
    /\ UNCHANGED <<focused, poll, appq, rq, rwoken, parsing, screen, events, sizes,
                   sync_reset, autoscroll, selection_scroll_active, lost>>

(* startScrollTimer and stopScrollTimer: the timer stops with its next     *)
(* tick.                                                                   *)
HandleScroll(v) ==
    /\ TakeIo(<<"scroll", v>>)
    /\ scroll_active' = v
    /\ scroll' = (scroll \/ v)
    /\ UNCHANGED <<focused, poll, appq, rq, rwoken, parsing, screen, events, sizes,
                   sync_reset, autoscroll, selection_scroll_active, lost>>

(* selectionScrollCallback: a tick that finds no room is dropped. *)
ScrollFires ==
    /\ IoIdle /\ scroll
    /\ scroll' = scroll_active
    /\ \/ /\ Len(appq) < AppCap
          /\ appq' = Append(appq, <<"tick", scroll_active>>)
          /\ UNCHANGED lost
       \/ /\ Len(appq) = AppCap
          /\ lost' = (lost \/ ~scroll_active)
          /\ UNCHANGED appq
    /\ UNCHANGED <<focused, io, draining, poll, rq, rwoken, parsing, screen, events,
                   sizes, sync_reset, scroll_active, autoscroll,
                   selection_scroll_active>>

(* selection_scroll_tick, selectionScrollTick *)
HandleTick(v) ==
    /\ Unlocked /\ TakeApp(<<"tick", v>>)
    /\ selection_scroll_active' = v
    /\ \/ ~v /\ UNCHANGED <<autoscroll, io, dirty, work, untracked, rwoken>>
       \/ /\ v /\ ~autoscroll
          /\ SendIo(<<"scroll", FALSE>>)
          /\ UNCHANGED <<autoscroll, dirty, work, untracked, rwoken>>
       \/ /\ v /\ autoscroll
          /\ autoscroll' \in BOOLEAN
          /\ IF autoscroll' THEN UNCHANGED io ELSE SendIo(<<"scroll", FALSE>>)
          /\ Touched /\ rwoken' = TRUE
    /\ UNCHANGED <<focused, draining, poll, rq, parsing, sync, events, sizes,
                   sync_reset, scroll_active, scroll, lost>>

TermioSteps ==
    \/ \E s \in Sizes : SizeCallback(s) \/ HandleResize(s)
    \/ CoalesceFires \/ HandleSync \/ SyncResetFires \/ ScrollFires
    \/ \E v \in BOOLEAN : Drag(v) \/ HandleScroll(v) \/ HandleTick(v)

-----------------------------------------------------------------------------
TermioTypeOK ==
    /\ size \in Sizes /\ resize_data \in Sizes \cup {NoSize}
    /\ pty_size \in Sizes /\ term_size \in Sizes /\ renderer_size \in Sizes
    /\ coalesce \in BOOLEAN /\ failed \in BOOLEAN /\ unsized \in BOOLEAN
    /\ sync_reset \in BOOLEAN
    /\ scroll_active \in BOOLEAN /\ scroll \in BOOLEAN /\ autoscroll \in BOOLEAN
    /\ selection_scroll_active \in BOOLEAN /\ lost \in BOOLEAN

Carries(q, kind) == \E i \in DOMAIN q : q[i][1] = kind

(* The last size of the surface arrives at the tty, the terminal and the   *)
(* renderer, however many resizes were coalesced before it: when nothing   *)
(* is on its way, no resize ended in an error, and the last message to the *)
(* IO thread and from it to the renderer was not refused, they agree.      *)
LastSizeApplied ==
    \/ failed \/ unsized \/ "resize" \in missed
    \/ coalesce \/ Carries(ioq, "resize") \/ Carries(rq, "resize")
    \/ /\ resize_data = NoSize
       /\ {pty_size, term_size, renderer_size} = {size}

(* A surface that believes the selection scrolls is going to be ticked, or *)
(* told that it has stopped; otherwise no later drag would start it.  Not  *)
(* promised after the last tick was dropped by a full app mailbox.         *)
ScrollAgrees ==
    selection_scroll_active /\ ~lost => scroll \/ Holds(appq, <<"tick", FALSE>>)

=============================================================================
