------------------------- MODULE RendererTimersProofs -------------------------
(***************************************************************************)
(* What the renderer draws and which of its timers run, for any mailboxes, *)
(* any shader and any number of events: the screen is on its way to the    *)
(* display, the cursor blinks, what is to be animated is, and history that *)
(* can be compressed is not forgotten.                                     *)
(***************************************************************************)
EXTENDS SurfaceTimersProofs

USE SharedAssumption, TermioTimersAssumption, ShaderAssumption DEF io

-----------------------------------------------------------------------------
(* Steps of the other threads *)

(* They change the screen only with a wake-up, or in a resize that fails,  *)
(* and do not touch what is the renderer's.                                *)
Remote ==
    /\ UNCHANGED <<parsing, split, unannounced, rpc, rvisible, rfocused, cursor, lapsed,
                   kitty_next, animation, compressing, compression>>
    /\ failed => failed'
    /\ rwoken => rwoken'
    /\ \/ UNCHANGED <<sync, dirty, work, untracked>>
       \/ (rwoken' \/ failed') /\ (UNCHANGED <<work, untracked>> \/ untracked')

(* The timers of the IO thread.                                            *)
LEMMA TermioRemote ==
    ASSUME TermioSteps, UNCHANGED <<rendering, output>>
    PROVE  Remote
<1>0. UNCHANGED <<split, unannounced, rpc, rvisible, rfocused, cursor, lapsed, kitty_next,
                  animation, compressing, compression>>
  BY DEF rendering, loop, output
<1>1. ASSUME NEW s \in Sizes, SizeCallback(s) \/ HandleResize(s) PROVE Remote
  BY <1>0, <1>1 DEF SizeCallback, HandleResize, screen, Remote
<1>2. CASE CoalesceFires
  <2>1. UNCHANGED parsing
    BY <1>2 DEF CoalesceFires
  <2>2. CASE ResizeAll(resize_data)
    BY <1>0, <2>1, <2>2 DEF ResizeAll, Touched, Remote
  <2>3. CASE ResizeFails(resize_data)
    BY <1>0, <2>1, <2>3 DEF ResizeFails, Touched, screen, Remote
  <2>4. QED
    BY <1>2, <2>2, <2>3 DEF CoalesceFires
<1>3. CASE HandleSync \/ SyncResetFires
  BY <1>0, <1>3 DEF HandleSync, SyncResetFires, sizes, Remote
<1>4. CASE ScrollFires \/ \E v \in BOOLEAN : Drag(v) \/ HandleScroll(v)
  <2>1. UNCHANGED <<parsing, rwoken, screen, failed>>
    BY <1>4 DEF ScrollFires, Drag, HandleScroll, sizes
  <2>2. QED
    BY <1>0, <2>1 DEF screen, Remote
<1>5. ASSUME NEW v \in BOOLEAN, HandleTick(v) PROVE Remote
  BY <1>0, <1>5 DEF HandleTick, Touched, sizes, Remote
<1>6. QED
  BY <1>1, <1>2, <1>3, <1>4, <1>5 DEF TermioSteps

(* The poll, the view and the system.                                      *)
LEMMA PasswordRemote ==
    ASSUME PasswordSteps \/ SystemSteps, UNCHANGED <<timers, rendering, output>>
    PROVE  Remote
<1>0. UNCHANGED <<failed, split, unannounced, rpc, rvisible, rfocused, cursor, lapsed,
                  kitty_next, animation, compressing, compression>>
  BY DEF timers, sizes, rendering, loop, output
<1>1. CASE PasswordSteps
  <2>1. UNCHANGED <<parsing, screen>> /\ (UNCHANGED rwoken \/ rwoken' = TRUE)
    BY <1>1 DEF PasswordSteps, TermiosFires, ResumePoll, FocusGained, HandlePassword,
       ToggleSurface, CloseView, SetTty
  <2>2. QED
    BY <1>0, <2>1 DEF screen, Remote
<1>2. CASE SystemSteps
  BY <1>0, <1>2 DEF SystemSteps, ToggleGlobal, ChangeActive, Notified, shared, screen, Remote
<1>3. QED
  BY <1>1, <1>2

(* What else main does, and the end of the IO thread's drain.              *)
LEMMA MainRemote ==
    ASSUME UNCHANGED <<timers, split, unannounced>>,
           \/ OcclusionCallback \/ UpdateConfig
           \/ EndDrain /\ UNCHANGED rendering
           \/ HandleOther
           \/ \E v \in BOOLEAN : FocusCallback(v)
    PROVE  Remote
<1>0. UNCHANGED <<failed, split, unannounced>>
  BY DEF timers, sizes
<1>1. CASE OcclusionCallback \/ UpdateConfig
  BY <1>0, <1>1 DEF OcclusionCallback, UpdateConfig, Others, loop, Remote
<1>2. CASE EndDrain /\ UNCHANGED rendering
  BY <1>0, <1>2 DEF EndDrain, screen, rendering, loop, Remote
<1>3. CASE HandleOther
  BY <1>0, <1>3 DEF HandleOther, output, screen, rendering, loop, Remote
<1>4. CASE \E v \in BOOLEAN : FocusCallback(v)
  BY <1>0, <1>4 DEF FocusCallback, screen, rendering, loop, Remote
<1>5. QED
  BY <1>1, <1>2, <1>3, <1>4

(* A resize that reaches the renderer is no business of its timers.        *)
LEMMA ScreenSizeRemote ==
    ASSUME NEW s \in Sizes, ResizeRenderer(s)
    PROVE  Remote
  BY DEF ResizeRenderer, HandleScreenSize, Take, Others, output, Remote

(* A step is the parser's, the renderer's, or somebody else's.             *)
LEMMA RendererCases ==
    ASSUME [Next]_vars
    PROVE  Remote \/ Parser \/ Renderer \/ ResetBinding
<1>1. CASE UNCHANGED vars
  BY <1>1 DEF vars, shared, screen, timers, sizes, rendering, loop, output, Remote
<1>2. CASE Surface
  <2>1. HandleOther \/ (\E v \in BOOLEAN : FocusCallback(v))
          => UNCHANGED <<timers, split, unannounced>>
    BY DEF HandleOther, FocusCallback, output
  <2>0. UNCHANGED output => UNCHANGED <<split, unannounced>>
    BY DEF output
  <2>2. QED
    BY <1>2, <2>0, <2>1, TermioRemote, PasswordRemote, MainRemote, ScreenSizeRemote DEF Surface
<1>3. CASE SystemSteps /\ UNCHANGED <<timers, rendering, output>>
  BY <1>3, PasswordRemote
<1>4. QED
  BY <1>1, <1>2, <1>3 DEF Next

-----------------------------------------------------------------------------
(* Synchronized output ends *)

(* Output that is synchronized has its timer, or the message that starts   *)
(* it is on its way, is to be sent, or was refused.                        *)
SyncInv ==
    sync /\ parsing # "sync" =>
        sync_reset \/ Holds(ioq, <<"sync">>) \/ "sync" \in missed

(* A message stays where it is while none of its kind is taken.            *)
LEMMA HoldsKept ==
    ASSUME NEW M, NEW q \in Seq(M), NEW r, NEW m, Holds(q, m), Other(q, r, M, m[1])
    PROVE  Holds(r, m)
<1>1. PICK i \in DOMAIN q : q[i] = m
  BY DEF Holds
<1>2. ASSUME NEW n \in M, r = Append(q, n) PROVE Holds(r, m)
  <2>1. i \in DOMAIN r /\ r[i] = m
    BY <1>1, <1>2
  <2>2. QED
    BY <2>1 DEF Holds
<1>3. CASE q # <<>> /\ Head(q)[1] # m[1] /\ r = Tail(q)
  <2>1. i # 1
    BY <1>1, <1>3
  <2>2. i - 1 \in DOMAIN r /\ r[i - 1] = m
    BY <1>1, <1>3, <2>1, EmptySeq
  <2>3. QED
    BY <2>2 DEF Holds
<1>4. QED
  BY <1>2, <1>3 DEF Other

SyncApart ==
    /\ UNCHANGED <<sync, sync_reset>> /\ IoApart("sync")
    /\ parsing = "sync" => parsing' = "sync"

(* Only the parser and the IO thread are about synchronized output.        *)
LEMMA SyncCases ==
    ASSUME Mail, [Next]_vars
    PROVE  EndBatch \/ TakeBack \/ HandleSync \/ sync' = FALSE \/ parsing' = "sync" \/ SyncApart
<1> USE DEF SyncApart, IoApart
<1>1. CASE UNCHANGED vars
  BY <1>1 DEF vars, shared, screen, timers, Other
<1>2. CASE PasswordSteps /\ UNCHANGED timers
  BY <1>2, PasswordMail DEF timers, screen, Other
<1>3. CASE TermioSteps
  <2>1. ASSUME NEW s \in Sizes, SizeCallback(s)
        PROVE  SyncApart
    <3>1. <<"resize", s>> \in IoMessages /\ <<"resize", s>>[1] # "sync"
      BY DEF IoMessages
    <3>2. QED
      BY <2>1, <3>1, SentApart DEF SizeCallback, screen
  <2>2. ASSUME NEW s \in Sizes, HandleResize(s)
        PROVE  SyncApart
    BY <2>2 DEF HandleResize, TakeIo, screen, Other
  <2>3. CASE CoalesceFires
    BY <2>3 DEF CoalesceFires, ResizeAll, ResizeFails, screen, Other
  <2>4. CASE SyncResetFires \/ ScrollFires
    BY <2>4 DEF SyncResetFires, ScrollFires, screen, Other
  <2>5. ASSUME NEW v \in BOOLEAN, Drag(v) \/ HandleScroll(v) \/ HandleTick(v)
        PROVE  SyncApart
    <3>1. \A w \in BOOLEAN : <<"scroll", w>> \in IoMessages /\ <<"scroll", w>>[1] # "sync"
      BY DEF IoMessages
    <3>2. CASE Drag(v)
      BY <3>1, <3>2, SentApart DEF Drag, screen, Other
    <3>3. CASE HandleScroll(v)
      BY <3>3 DEF HandleScroll, TakeIo, screen, Other
    <3>4. CASE HandleTick(v)
      BY <3>1, <3>4, SentApart DEF HandleTick, screen, Other
    <3>5. QED
      BY <2>5, <3>2, <3>3, <3>4
  <2>6. QED
    BY <1>3, <2>1, <2>2, <2>3, <2>4, <2>5 DEF TermioSteps
<1>4. CASE Renderer
  BY <1>4, LoopMail DEF Renderer, timers, Others, Other
<1>5. CASE (OcclusionCallback \/ UpdateConfig \/ EndDrain \/ SystemSteps) /\ UNCHANGED timers
  BY <1>5 DEF OcclusionCallback, UpdateConfig, EndDrain, SystemSteps, ToggleGlobal,
     ChangeActive, Notified, shared, screen, Others, timers, Other
<1>6. CASE HandleOther \/ BeginBatch \/ LetGo \/ ResetBinding
  BY <1>6 DEF HandleOther, BeginBatch, LetGo, ResetBinding, FullReset, screen, timers, Other
<1>7. ASSUME NEW v \in BOOLEAN, FocusCallback(v)
      PROVE  SyncApart
  <2>1. <<"focused", v>> \in IoMessages /\ <<"focused", v>>[1] # "sync"
    BY DEF IoMessages
  <2>2. QED
    BY <1>7, <2>1, SentApart DEF FocusCallback, screen, timers
<1>8. CASE \E s \in Sizes : ResizeRenderer(s)
  BY <1>8 DEF ResizeRenderer, HandleScreenSize, Take, Others, Other
<1>9. QED
  BY <1>1, <1>2, <1>3, <1>4, <1>5, <1>6, <1>7, <1>8 DEF Next, Surface, Parser

(* What was sent is on its way, or was refused.                            *)
LEMMA SyncSent ==
    ASSUME Mail, SendIo(<<"sync">>)
    PROVE  Holds(ioq', <<"sync">>) \/ "sync" \in missed'
<1>1. CASE Room(ioq, IoCap)
  <2>1. ioq' = Append(ioq, <<"sync">>)
    BY <1>1 DEF SendIo, Pushed
  <2>2. Len(ioq) + 1 \in DOMAIN ioq' /\ ioq'[Len(ioq) + 1] = <<"sync">>
    BY <2>1 DEF Mail
  <2>3. QED
    BY <2>2 DEF Holds
<1>2. CASE ~Room(ioq, IoCap)
  BY <1>2 DEF SendIo, Kept
<1>3. QED
  BY <1>1, <1>2

(* It stays on its way.                                                    *)
LEMMA SyncKept ==
    ASSUME Mail, IoApart("sync"), Holds(ioq, <<"sync">>)
    PROVE  Holds(ioq', <<"sync">>)
<1>1. <<"sync">>[1] = "sync"
  OBVIOUS
<1>2. QED
  BY <1>1, HoldsKept DEF IoApart, Mail

(* Every step keeps a timer for what is synchronized.                      *)
LEMMA SyncStep ==
    ASSUME Mail, SyncInv, [Next]_vars
    PROVE  SyncInv'
<1>1. CASE EndBatch \/ TakeBack
  <2>1. CASE SendIo(<<"sync">>)
    BY <2>1, SyncSent DEF SyncInv
  <2>2. CASE /\ ~SendIo(<<"sync">>)
             /\ UNCHANGED io \/ \E v \in BOOLEAN : SendFocus(v)
    <3>1. IoApart("sync")
      BY <2>2, FocusSentApart DEF IoApart, Other
    <3>2. sync' => sync /\ parsing # "sync"
      <4>1. CASE EndBatch
        BY <2>2, <4>1 DEF EndBatch, FullReset
      <4>2. CASE TakeBack
        BY <2>2, <4>2 DEF TakeBack, FocusMessage, screen
      <4>3. QED
        BY <1>1, <4>1, <4>2
    <3>3. UNCHANGED sync_reset
      BY <1>1 DEF EndBatch, TakeBack, timers
    <3>4. Holds(ioq, <<"sync">>) => Holds(ioq', <<"sync">>)
      BY <3>1, SyncKept
    <3>5. QED
      BY <3>1, <3>2, <3>3, <3>4 DEF IoApart, SyncInv
  <2>3. QED
    BY <1>1, <2>1, <2>2, ParserSends
<1>2. CASE HandleSync
  BY <1>2 DEF HandleSync, SyncInv
<1>3. CASE sync' = FALSE \/ parsing' = "sync"
  BY <1>3 DEF SyncInv
<1>4. CASE SyncApart
  <2>1. Holds(ioq, <<"sync">>) => Holds(ioq', <<"sync">>)
    BY <1>4, SyncKept DEF SyncApart
  <2>2. QED
    BY <1>4, <2>1 DEF SyncApart, IoApart, SyncInv
<1>5. QED
  BY <1>1, <1>2, <1>3, <1>4, SyncCases

-----------------------------------------------------------------------------
(* The renderer *)

(* The parser woke the renderer when it began: until it lets go of the     *)
(* mutex, the wake-up is still to come, or the renderer waits to draw.     *)
ParserAnnounced == parsing = "locked" /\ ~split => rwoken \/ rpc = "drain" \/ ~rvisible

LetGoSplits == parsing \notin {"idle", "locked"} => split

DirtyAnnounced ==
    dirty /\ rvisible =>
        sync \/ rwoken \/ rpc = "drain" \/ parsing # "idle" \/ unannounced \/ failed

(* The same of compression: a token that is old is looked at again, and a  *)
(* renderer that found the mutex taken has started its timer.              *)
ParserTried ==
    parsing = "locked" /\ ~split /\ compressing => rwoken \/ rpc # "idle" \/ compression

WorkAnnounced ==
    work /\ compressing /\ ~compression =>
        /\ untracked
        /\ rwoken \/ rpc # "idle" \/ parsing # "idle" \/ unannounced \/ failed

(* A focused cursor has its blink timer, an animation its own.             *)
CursorInv == rfocused => cursor = "active" \/ lapsed
AnimationInv ==
    rvisible /\ rpc # "drain" /\ AnimationWake(rfocused, kitty_next) # {}
        => animation # "dead"

LoopTyped ==
    /\ parsing \in ParserPCs /\ rpc \in {"idle", "drain", "compress"}
    /\ cursor \in {"dead", "active", "cancelling"}
    /\ animation \in {"dead", "draw", "update"}
    /\ rvisible \in BOOLEAN /\ rfocused \in BOOLEAN /\ compressing \in BOOLEAN

RenderInv ==
    /\ LoopTyped /\ ParserAnnounced /\ DirtyAnnounced /\ ParserTried /\ WorkAnnounced
    /\ CursorInv /\ AnimationInv /\ LetGoSplits

(* The renderer starts with a wake-up of its own.                          *)
LEMMA RenderInit == Init => SyncInv /\ RenderInv
  BY DEF Init, SharedInit, TermioInit, RendererInit, SyncInv, RenderInv, LoopTyped,
     ParserAnnounced, DirtyAnnounced, ParserTried, WorkAnnounced, CursorInv,
     AnimationInv, LetGoSplits, AnimationWake, ParserPCs

(* The other threads keep it.                                              *)
LEMMA RemoteStep ==
    ASSUME RenderInv, Remote
    PROVE  RenderInv'
  BY DEF Remote, RenderInv, LoopTyped, ParserAnnounced, DirtyAnnounced, ParserTried,
     WorkAnnounced, CursorInv, AnimationInv, LetGoSplits, AnimationWake

(* The parser keeps it.                                                    *)
LEMMA ParserStep ==
    ASSUME RenderInv, Parser
    PROVE  RenderInv'
<1>0. UNCHANGED <<rpc, rvisible, rfocused, cursor, lapsed, kitty_next, animation,
                  compressing, compression, failed>>
  BY DEF Parser, BeginBatch, LetGo, TakeBack, EndBatch, rendering, loop, timers, sizes
<1>1. parsing' \in ParserPCs
  BY DEF Parser, BeginBatch, LetGo, TakeBack, EndBatch, FocusMessage, ParserPCs
<1>2. LoopTyped' /\ CursorInv' /\ AnimationInv'
  BY <1>0, <1>1 DEF RenderInv, LoopTyped, CursorInv, AnimationInv, AnimationWake
<1>3. CASE BeginBatch
  <2>1. rwoken' = TRUE /\ parsing' = "locked" /\ UNCHANGED <<sync, dirty, work, untracked>>
    BY <1>3 DEF BeginBatch, screen
  <2>2. QED
    BY <1>0, <1>2, <2>1 DEF RenderInv, LetGoSplits, ParserAnnounced,
       DirtyAnnounced, ParserTried, WorkAnnounced
<1>4. CASE LetGo
  BY <1>0, <1>2, <1>4 DEF LetGo, FocusMessage, Touched, RenderInv, LetGoSplits, ParserAnnounced, DirtyAnnounced,
     ParserTried, WorkAnnounced
<1>5. CASE TakeBack
  <2>1. /\ parsing \notin {"idle", "locked"} /\ parsing' = "locked"
        /\ UNCHANGED <<rwoken, sync, dirty, work, untracked, split, unannounced>>
    BY <1>5 DEF TakeBack, FocusMessage, screen, output
  <2>2. QED
    BY <1>0, <1>2, <2>1 DEF RenderInv, LetGoSplits, ParserAnnounced,
       DirtyAnnounced, ParserTried, WorkAnnounced
<1>6. CASE EndBatch
  <2>1. /\ parsing = "locked" /\ parsing' = "idle" /\ untracked' = TRUE
        /\ UNCHANGED <<rwoken, split>>
        /\ unannounced' = (unannounced \/ (split /\ ~rwoken /\ rpc # "drain"))
    BY <1>6 DEF EndBatch, Touched, Unseen
  <2>2. ParserAnnounced' /\ ParserTried' /\ LetGoSplits'
    BY <2>1 DEF ParserAnnounced, ParserTried, LetGoSplits
  <2>3. DirtyAnnounced'
    BY <1>0, <2>1 DEF RenderInv, ParserAnnounced, DirtyAnnounced
  <2>4. WorkAnnounced'
    BY <1>0, <2>1 DEF RenderInv, ParserTried, WorkAnnounced
  <2>5. QED
    BY <1>2, <2>2, <2>3, <2>4 DEF RenderInv
<1>7. QED
  BY <1>3, <1>4, <1>5, <1>6 DEF Parser

(* Arming leaves the timer running for what is wanted.                     *)
LEMMA ArmRuns ==
    ASSUME NEW old \in {"dead", "draw", "update"}, Arm(old)
    PROVE  /\ animation' \in {"dead", "draw", "update"}
           /\ AnimationWake(rfocused', kitty_next') # {} => animation' # "dead"
  BY DEF Arm, AnimationWake

(* Rendering shows the screen and arms.                                    *)
LEMMA RenderShows ==
    ASSUME NEW old \in {"dead", "draw", "update"}, Render(old)
    PROVE  /\ animation' \in {"dead", "draw", "update"}
           /\ rvisible' /\ AnimationWake(rfocused', kitty_next') # {} => animation' # "dead"
           /\ dirty' => dirty
           /\ rvisible' => parsing # "locked" /\ (dirty' => sync)
<1>1. CASE rvisible'
  BY <1>1, ArmRuns DEF Render, UpdateFrame, Unlocked
<1>2. CASE ~rvisible'
  BY <1>2 DEF Render
<1>3. QED
  BY <1>1, <1>2

(* A message handled by the renderer, in the middle of its wake-up.        *)
LEMMA DrainStep ==
    ASSUME RenderInv, rpc = "drain",
           UNCHANGED <<rpc, parsing, sync, work, compression, split>>,
           LoopTyped', CursorInv',
           compressing' /\ ~compressing => untracked',
           untracked => untracked'
    PROVE  RenderInv'
  BY DEF RenderInv, LoopTyped, LetGoSplits, ParserAnnounced, DirtyAnnounced, ParserTried,
     WorkAnnounced, CursorInv, AnimationInv

(* The renderer keeps it: its messages.                                    *)
LEMMA HandlersStep ==
    ASSUME RenderInv, UNCHANGED split,
           \/ HandleBlink
           \/ \E v \in BOOLEAN : HandleVisible(v) \/ HandleFocus(v) \/ HandleConfig(v)
    PROVE  RenderInv'
<1>1. ASSUME NEW m, Take(m)
      PROVE  rpc = "drain" /\ UNCHANGED <<rpc, parsing, sync, work>>
  BY <1>1 DEF Take, Others
<1>2. CASE HandleBlink
  <2>1. rpc = "drain" /\ UNCHANGED <<rpc, parsing, sync, work>>
    BY <1>1, <1>2 DEF HandleBlink
  <2>2. LoopTyped' /\ CursorInv'
    BY <1>2, <2>1 DEF HandleBlink, RenderInv, LoopTyped, CursorInv
  <2>3. QED
    BY <1>2, <2>1, <2>2, DrainStep DEF HandleBlink
<1>3. ASSUME NEW v \in BOOLEAN, HandleVisible(v) PROVE RenderInv'
  <2>1. rpc = "drain" /\ UNCHANGED <<rpc, parsing, sync, work>>
    BY <1>1, <1>3 DEF HandleVisible
  <2>2. animation' \in {"dead", "draw", "update"}
    BY <1>3, RenderShows DEF HandleVisible, RenderInv, LoopTyped
  <2>3. LoopTyped' /\ CursorInv'
    BY <1>3, <2>1, <2>2 DEF HandleVisible, RenderInv, LoopTyped, CursorInv
  <2>4. QED
    BY <1>3, <2>1, <2>3, DrainStep DEF HandleVisible
<1>4. ASSUME NEW v \in BOOLEAN, HandleFocus(v) PROVE RenderInv'
  <2>1. rpc = "drain" /\ UNCHANGED <<rpc, parsing, sync, work>>
    BY <1>1, <1>4 DEF HandleFocus
  <2>2. animation' \in {"dead", "draw", "update"}
    BY <1>4, ArmRuns DEF HandleFocus, RenderInv, LoopTyped
  <2>3. cursor' \in {"dead", "active", "cancelling"} /\ CursorInv'
    BY <1>4 DEF HandleFocus, RenderInv, LoopTyped, CursorInv
  <2>4. LoopTyped'
    BY <1>4, <2>1, <2>2, <2>3 DEF HandleFocus, RenderInv, LoopTyped
  <2>5. QED
    BY <1>4, <2>1, <2>3, <2>4, DrainStep DEF HandleFocus
<1>5. ASSUME NEW v \in BOOLEAN, HandleConfig(v) PROVE RenderInv'
  <2>1. rpc = "drain" /\ UNCHANGED <<rpc, parsing, sync, work>>
    BY <1>1, <1>5 DEF HandleConfig
  <2>2. animation' \in {"dead", "draw", "update"}
    BY <1>5, ArmRuns DEF HandleConfig, RenderInv, LoopTyped
  <2>3. LoopTyped' /\ CursorInv'
    BY <1>5, <2>1, <2>2 DEF HandleConfig, RenderInv, LoopTyped, CursorInv
  <2>4. QED
    BY <1>5, <2>1, <2>3, DrainStep DEF HandleConfig
<1>6. QED
  BY <1>2, <1>3, <1>4, <1>5

(* The renderer keeps it: its wake-up and its timers.                      *)
LEMMA RendererStep ==
    ASSUME RenderInv, Renderer
    PROVE  RenderInv'
<1>0. /\ UNCHANGED <<failed, split, parsing, sync>>
      /\ unannounced /\ ~WakeUp => unannounced'
  BY LoopMail DEF Renderer, timers, sizes, Others
<1>1. CASE WakeUp
  BY <1>0, <1>1 DEF WakeUp, RenderInv, LoopTyped, LetGoSplits, ParserAnnounced,
     DirtyAnnounced, ParserTried, WorkAnnounced, CursorInv, AnimationInv
<1>2. CASE Drained
  <2>1. /\ rpc = "drain" /\ rpc' = "compress"
        /\ UNCHANGED <<rvisible, rfocused, rwoken, work, untracked, cursor, lapsed,
                       compressing, compression>>
    BY <1>2 DEF Drained
  <2>2. Render(animation) /\ animation \in {"dead", "draw", "update"}
    BY <1>2 DEF Drained, RenderInv, LoopTyped
  <2>3. /\ animation' \in {"dead", "draw", "update"}
        /\ rvisible /\ AnimationWake(rfocused', kitty_next') # {} => animation' # "dead"
        /\ rvisible => parsing # "locked" /\ (dirty' => sync)
    BY <2>1, <2>2, RenderShows
  <2>4. LoopTyped' /\ LetGoSplits' /\ CursorInv' /\ AnimationInv'
    BY <1>0, <2>1, <2>3 DEF RenderInv, LoopTyped, LetGoSplits, CursorInv, AnimationInv
  <2>5. ParserAnnounced' /\ DirtyAnnounced' /\ ParserTried' /\ WorkAnnounced'
    BY <1>0, <2>1, <2>3 DEF RenderInv, ParserAnnounced, DirtyAnnounced, ParserTried, WorkAnnounced
  <2>6. QED
    BY <2>4, <2>5 DEF RenderInv
<1>3. CASE ConsiderCompression
  <2>1. /\ rpc = "compress" /\ rpc' = "idle"
        /\ UNCHANGED <<rwoken, dirty, work, rvisible, rfocused, cursor, lapsed, kitty_next,
                       animation, compressing>>
        /\ unannounced => unannounced'
    BY <1>0, <1>3 DEF ConsiderCompression, WakeUp
  <2>2. LoopTyped' /\ LetGoSplits' /\ CursorInv' /\ AnimationInv'
    BY <1>0, <2>1 DEF RenderInv, LoopTyped, LetGoSplits, CursorInv, AnimationInv, AnimationWake
  <2>3. ParserAnnounced' /\ DirtyAnnounced'
    BY <1>0, <2>1 DEF RenderInv, ParserAnnounced, DirtyAnnounced
  <2>4. ParserTried' /\ WorkAnnounced'
    <3>1. CASE ~compressing
      BY <2>1, <3>1 DEF ParserTried, WorkAnnounced
    <3>2. CASE compressing /\ Unlocked /\ compression' = (compression \/ untracked)
      BY <1>0, <2>1, <3>2 DEF Unlocked, RenderInv, ParserTried, WorkAnnounced
    <3>3. CASE compression' = TRUE
      BY <3>3 DEF ParserTried, WorkAnnounced
    <3>4. QED
      BY <1>3, <3>1, <3>2, <3>3 DEF ConsiderCompression
  <2>5. QED
    BY <2>2, <2>3, <2>4 DEF RenderInv
<1>4. CASE CompressionFires
  <2>1. /\ rpc = "idle"
        /\ UNCHANGED <<rpc, rwoken, dirty, rvisible, rfocused, cursor, lapsed, kitty_next,
                       animation, compressing>>
        /\ unannounced => unannounced'
    BY <1>0, <1>4 DEF CompressionFires, WakeUp
  <2>2. LoopTyped' /\ LetGoSplits' /\ CursorInv' /\ AnimationInv'
    BY <1>0, <2>1 DEF RenderInv, LoopTyped, LetGoSplits, CursorInv, AnimationInv, AnimationWake
  <2>3. ParserAnnounced' /\ DirtyAnnounced'
    BY <1>0, <2>1 DEF RenderInv, ParserAnnounced, DirtyAnnounced
  <2>4. ParserTried' /\ WorkAnnounced'
    <3>1. CASE ~compressing
      BY <2>1, <3>1 DEF ParserTried, WorkAnnounced
    <3>2. CASE compression /\ UNCHANGED compression
      BY <3>2 DEF ParserTried, WorkAnnounced
    <3>3. CASE Unlocked /\ work' = (work /\ compression')
      BY <1>0, <3>3 DEF Unlocked, ParserTried, WorkAnnounced
    <3>4. QED
      BY <1>4, <3>1, <3>2, <3>3 DEF CompressionFires
  <2>5. QED
    BY <2>2, <2>3, <2>4 DEF RenderInv
<1>5. CASE AnimationFires
  <2>1. /\ rpc = "idle"
        /\ UNCHANGED <<rpc, rvisible, rfocused, rwoken, work, untracked, cursor, lapsed,
                       compressing, compression>>
        /\ unannounced => unannounced'
    BY <1>0, <1>5 DEF AnimationFires, WakeUp
  <2>2. /\ animation' \in {"dead", "draw", "update"} /\ (dirty' => dirty)
        /\ rvisible /\ AnimationWake(rfocused', kitty_next') # {} => animation' # "dead"
    <3>1. CASE Render("dead")
      BY <2>1, <3>1, RenderShows
    <3>2. CASE UNCHANGED dirty /\ Arm("dead")
      BY <3>2, ArmRuns
    <3>3. QED
      BY <1>5, <3>1, <3>2 DEF AnimationFires
  <2>3. LoopTyped' /\ LetGoSplits' /\ CursorInv' /\ AnimationInv'
    BY <1>0, <2>1, <2>2 DEF RenderInv, LoopTyped, LetGoSplits, CursorInv, AnimationInv
  <2>4. ParserAnnounced' /\ DirtyAnnounced' /\ ParserTried' /\ WorkAnnounced'
    BY <1>0, <2>1, <2>2 DEF RenderInv, ParserAnnounced, DirtyAnnounced, ParserTried, WorkAnnounced
  <2>5. QED
    BY <2>3, <2>4 DEF RenderInv
<1>6. CASE CursorFires \/ CursorCancelled
  <2>1. /\ UNCHANGED <<rpc, dirty, work, untracked, rvisible, rfocused, lapsed, kitty_next,
                       animation, compressing, compression>>
        /\ rwoken => rwoken'
        /\ unannounced => unannounced'
    BY <1>0, <1>6 DEF CursorFires, CursorCancelled, loop, WakeUp
  <2>2. cursor' \in {"dead", "active", "cancelling"} /\ CursorInv'
    BY <1>6 DEF CursorFires, CursorCancelled, loop, RenderInv, LoopTyped, CursorInv
  <2>3. LoopTyped' /\ LetGoSplits' /\ AnimationInv'
    BY <1>0, <2>1, <2>2 DEF RenderInv, LoopTyped, LetGoSplits, AnimationInv, AnimationWake
  <2>4. ParserAnnounced' /\ DirtyAnnounced' /\ ParserTried' /\ WorkAnnounced'
    BY <1>0, <2>1 DEF RenderInv, ParserAnnounced, DirtyAnnounced, ParserTried, WorkAnnounced
  <2>5. QED
    BY <2>2, <2>3, <2>4 DEF RenderInv
<1>7. QED
  BY <1>0, <1>1, <1>2, <1>3, <1>4, <1>5, <1>6, HandlersStep DEF Renderer, LoopSteps

(* A reset by key keeps it: it remembers that nobody was woken.            *)
LEMMA ResetStep ==
    ASSUME RenderInv, ResetBinding
    PROVE  RenderInv'
<1>1. /\ UNCHANGED <<parsing, split, failed, rwoken, rpc, rvisible, rfocused, cursor, lapsed,
                     kitty_next, animation, compressing, compression>>
      /\ parsing # "locked" /\ untracked' = TRUE
      /\ unannounced' = (unannounced \/ (~rwoken /\ rpc # "drain"))
  BY DEF ResetBinding, Unlocked, Touched, Unseen, loop, timers, sizes
<1>2. LoopTyped' /\ LetGoSplits' /\ CursorInv' /\ AnimationInv'
  BY <1>1 DEF RenderInv, LoopTyped, LetGoSplits, CursorInv, AnimationInv, AnimationWake
<1>3. ParserAnnounced' /\ DirtyAnnounced' /\ ParserTried' /\ WorkAnnounced'
  BY <1>1 DEF RenderInv, ParserAnnounced, DirtyAnnounced, ParserTried, WorkAnnounced
<1>4. QED
  BY <1>2, <1>3 DEF RenderInv

(* Every step keeps it.                                                    *)
LEMMA RenderStep == RenderInv /\ [Next]_vars => RenderInv'
  BY RendererCases, RemoteStep, ParserStep, RendererStep, ResetStep

(* What the screen shows is on its way to the display.                     *)
THEOREM FrameIsCurrent == Spec => []FrameCurrent
<1>1. SyncInv /\ RenderInv => FrameCurrent
  BY DEF SyncInv, RenderInv, DirtyAnnounced, RendererIdle, FrameCurrent
<1>2. QED
  BY <1>1, SizesInit, SizesStep, MailStep, RenderInit, SyncStep, RenderStep, PTL DEF Spec

(* Every timer that is needed runs: the poll, the blinking cursor, the     *)
(* animation and the compression.                                          *)
THEOREM TimersAreRunning == Spec => []TimersRun
<1>1. RenderInv /\ PollingWhileFocused => TimersRun
  BY DEF RenderInv, CursorInv, CursorBlinks, AnimationInv, AnimationRuns, WorkAnnounced,
     RendererIdle, CompressionScheduled, TimersRun
<1>2. QED
  BY <1>1, PollFollowsFocus, RenderInit, RenderStep, PTL DEF Spec

-----------------------------------------------------------------------------
(* Types *)

(* What the invariants above do not say of the types.                      *)
ThreadFlags == draining \in BOOLEAN /\ rwoken \in BOOLEAN
ScreenFlags == sync \in BOOLEAN /\ dirty \in BOOLEAN /\ work \in BOOLEAN /\ untracked \in BOOLEAN
SizeFlags ==
    /\ pty_size \in Sizes /\ term_size \in Sizes /\ renderer_size \in Sizes
    /\ failed \in BOOLEAN /\ unsized \in BOOLEAN
ScrollFlags ==
    /\ sync_reset \in BOOLEAN /\ scroll \in BOOLEAN /\ autoscroll \in BOOLEAN
    /\ selection_scroll_active \in BOOLEAN /\ lost \in BOOLEAN
LoopFlags ==
    lapsed \in BOOLEAN /\ kitty \in BOOLEAN /\ kitty_next \in BOOLEAN /\ compression \in BOOLEAN

OutputFlags == split \in BOOLEAN /\ unannounced \in BOOLEAN

Flagged == ThreadFlags /\ ScreenFlags /\ SizeFlags /\ ScrollFlags /\ LoopFlags

RestTyped ==
    /\ Flagged /\ OutputFlags
    /\ events \in 0..MaxEvents /\ missed \subseteq Kept
    /\ Len(appq) <= AppCap /\ Len(ioq) <= IoCap /\ Len(rq) <= RendererCap

(* At first the values are of their types.                                 *)
LEMMA RestInit == Init => RestTyped
<1> SUFFICES ASSUME Init PROVE RestTyped
  OBVIOUS
<1>1. /\ events = 0 /\ 0 \in 0..MaxEvents /\ missed \subseteq Kept
      /\ Len(appq) <= AppCap /\ Len(ioq) <= IoCap /\ Len(rq) <= RendererCap
  BY DEF Init, SharedInit
<1>2. QED
  BY <1>1 DEF Init, SharedInit, TermioInit, RendererInit, RestTyped, Flagged, ThreadFlags,
     ScreenFlags, SizeFlags, ScrollFlags, LoopFlags, OutputFlags

(* A step takes from a mailbox or sends to one that has room, and counts   *)
(* at most one event.                                                      *)
Uses(q, r, cap, M) ==
    \/ r = q
    \/ q # <<>> /\ r = Tail(q)
    \/ Room(q, cap) /\ \E m \in M : r = Append(q, m)

Counted ==
    /\ UNCHANGED events \/ Stimulus
    /\ missed \subseteq Kept => missed' \subseteq Kept
    /\ Uses(ioq, ioq', IoCap, IoMessages)
    /\ Uses(appq, appq', AppCap, AppMessages)
    /\ Uses(rq, rq', RendererCap, RendererMessages)

(* A push does, accepted or refused.                                       *)
LEMMA PushedUses ==
    ASSUME NEW M, NEW q, NEW cap, NEW m \in M
    PROVE  Uses(q, Pushed(q, cap, m), cap, M)
  BY DEF Pushed, Uses

(* So does what is sent to the IO thread.                                  *)
LEMMA SentUses ==
    ASSUME NEW m \in IoMessages, SendIo(m)
    PROVE  Uses(ioq, ioq', IoCap, IoMessages) /\ (missed \subseteq Kept => missed' \subseteq Kept)
<1>1. Uses(ioq, ioq', IoCap, IoMessages)
  BY PushedUses DEF SendIo
<1>2. missed \subseteq Kept => missed' \subseteq Kept
  BY DEF SendIo
<1>3. QED
  BY <1>1, <1>2

(* And the focus that the parser sends.                                    *)
LEMMA FocusSentUses ==
    ASSUME NEW v \in BOOLEAN, SendFocus(v)
    PROVE  Uses(ioq, ioq', IoCap, IoMessages) /\ (missed \subseteq Kept => missed' \subseteq Kept)
<1>1. <<"focused", v>> \in IoMessages
  BY DEF IoMessages
<1>2. Uses(ioq, ioq', IoCap, IoMessages)
  BY <1>1, PushedUses DEF SendFocus
<1>3. missed \subseteq Kept => missed' \subseteq Kept
  BY DEF SendFocus, Kept
<1>4. QED
  BY <1>2, <1>3

(* The poll announces only where there is room.                            *)
LEMMA PollCounted ==
    ASSUME PollTty
    PROVE  (UNCHANGED events \/ Stimulus) /\ Uses(appq, appq', AppCap, AppMessages)
<1>1. ASSUME NEW mode, Poll(mode)
      PROVE  Uses(appq, appq', AppCap, AppMessages)
  <2>1. (mode = "password") \in BOOLEAN
    OBVIOUS
  <2>2. Announcement(mode = "password") \in AppMessages
    BY <2>1 DEF Announcement, AppMessages
  <2>3. QED
    BY <1>1, <2>2 DEF Poll, Room, Uses
<1>2. QED
  BY <1>1 DEF PollTty

(* The poll, the view and the system.                                      *)
LEMMA PasswordCounted ==
    ASSUME PasswordSteps \/ SystemSteps
    PROVE  Counted
<1> USE DEF Counted, Uses
<1>1. CASE TermiosFires
  BY <1>1, PollCounted DEF TermiosFires
<1>2. CASE ResumePoll
  <2>1. (poll = "on") \in BOOLEAN
    OBVIOUS
  <2>2. Announcement(poll = "on") \in AppMessages
    BY <2>1 DEF Announcement, AppMessages
  <2>3. QED
    BY <1>2, <2>2 DEF ResumePoll, Room
<1>3. ASSUME NEW v \in BOOLEAN, FocusGained(v) PROVE Counted
  BY <1>3, PollCounted DEF FocusGained, TakeIo
<1>4. ASSUME NEW v \in BOOLEAN, HandlePassword(v) PROVE Counted
  BY <1>4 DEF HandlePassword, TakeApp
<1>5. CASE ToggleSurface \/ CloseView \/ \E m \in Modes : SetTty(m)
  BY <1>5 DEF ToggleSurface, CloseView, SetTty
<1>6. CASE SystemSteps
  BY <1>6 DEF SystemSteps, ToggleGlobal, ChangeActive, Notified, shared
<1>7. QED
  BY <1>1, <1>2, <1>3, <1>4, <1>5, <1>6 DEF PasswordSteps

(* The timers of the IO thread.                                            *)
LEMMA TermioCounted ==
    ASSUME Mail, SizesInv, TermioSteps
    PROVE  Counted
<1> USE DEF Counted
<1>0. \A s \in Sizes : <<"resize", s>> \in IoMessages /\ <<"resize", s>> \in RendererMessages
  BY DEF IoMessages, RendererMessages
<1>1. ASSUME NEW s \in Sizes, SizeCallback(s) PROVE Counted
  BY <1>0, <1>1, SentUses DEF SizeCallback, Uses
<1>2. ASSUME NEW s \in Sizes, HandleResize(s) PROVE Counted
  BY <1>2 DEF HandleResize, TakeIo, Uses
<1>3. CASE CoalesceFires
  <2>1. resize_data \in Sizes
    BY <1>3 DEF CoalesceFires, SizesInv
  <2>2. UNCHANGED rq \/ SendRenderer(<<"resize", resize_data>>)
    BY <1>3 DEF CoalesceFires, ResizeAll, ResizeFails
  <2>3. Uses(rq, rq', RendererCap, RendererMessages)
    BY <1>0, <2>1, <2>2, PushedUses DEF SendRenderer, Uses
  <2>4. UNCHANGED <<io, appq>> /\ (UNCHANGED events \/ Stimulus)
    BY <1>3 DEF CoalesceFires, ResizeFails
  <2>5. QED
    BY <2>3, <2>4 DEF Uses
<1>4. CASE HandleSync \/ SyncResetFires
  BY <1>4 DEF HandleSync, SyncResetFires, TakeIo, Uses
<1>5. CASE ScrollFires
  BY <1>5, TickSent DEF ScrollFires, Mail, Room, Uses
<1>6. \A v \in BOOLEAN : <<"scroll", v>> \in IoMessages
  BY DEF IoMessages
<1>7. ASSUME NEW v \in BOOLEAN, Drag(v) PROVE Counted
  BY <1>6, <1>7, SentUses DEF Drag, Uses
<1>8. ASSUME NEW v \in BOOLEAN, HandleScroll(v) PROVE Counted
  BY <1>8 DEF HandleScroll, TakeIo, Uses
<1>9. ASSUME NEW v \in BOOLEAN, HandleTick(v) PROVE Counted
  <2>1. UNCHANGED io \/ SendIo(<<"scroll", FALSE>>)
    BY <1>9 DEF HandleTick
  <2>2. UNCHANGED <<events, rq>> /\ appq # <<>> /\ appq' = Tail(appq)
    BY <1>9 DEF HandleTick, TakeApp
  <2>3. QED
    BY <1>6, <2>1, <2>2, SentUses DEF Uses
<1>10. QED
  BY <1>1, <1>2, <1>3, <1>4, <1>5, <1>7, <1>8, <1>9 DEF TermioSteps

(* The parser.                                                             *)
LEMMA ParserCounted ==
    ASSUME Mail, Parser
    PROVE  Counted
<1> USE DEF Counted
<1>1. CASE BeginBatch
  <2>1. <<"blink", TRUE>> \in RendererMessages
    BY DEF RendererMessages
  <2>2. Uses(rq, rq', RendererCap, RendererMessages)
    BY <1>1, <2>1, PushedUses DEF BeginBatch, Uses
  <2>3. QED
    BY <1>1, <2>2 DEF BeginBatch, Uses
<1>2. CASE LetGo
  BY <1>2 DEF LetGo, Uses
<1>3. CASE TakeBack \/ EndBatch
  <2>1. <<"sync">> \in IoMessages /\ <<"other", TRUE>> \in AppMessages
    BY DEF IoMessages, AppMessages
  <2>2. Uses(ioq, ioq', IoCap, IoMessages) /\ (missed \subseteq Kept => missed' \subseteq Kept)
    <3>1. CASE UNCHANGED io
      BY <3>1 DEF Uses
    <3>2. QED
      BY <1>3, <2>1, <3>1, ParserSends, SentUses, FocusSentUses
  <2>3. UNCHANGED <<events, rq>>
    BY <1>3 DEF TakeBack, EndBatch
  <2>4. UNCHANGED appq \/ appq' = Pushed(appq, AppCap, <<"other", TRUE>>)
    BY <1>3 DEF TakeBack, EndBatch
  <2>5. Uses(appq, appq', AppCap, AppMessages)
    BY <2>1, <2>4, PushedUses DEF Uses
  <2>6. QED
    BY <2>2, <2>3, <2>5 DEF Uses
<1>4. QED
  BY <1>1, <1>2, <1>3 DEF Parser

(* The renderer only takes.                                                *)
LEMMA RendererCounted ==
    ASSUME Renderer
    PROVE  Counted
<1>1. UNCHANGED events \/ Stimulus
  BY DEF Renderer, LoopSteps, WakeUp, Take, HandleVisible, HandleFocus,
     HandleConfig, HandleBlink, Drained, ConsiderCompression, CompressionFires,
     AnimationFires, CursorFires, CursorCancelled
<1>2. UNCHANGED rq \/ (rq # <<>> /\ rq' = Tail(rq))
  BY DEF Renderer, LoopSteps, WakeUp, Take, HandleVisible, HandleFocus,
     HandleConfig, HandleBlink, Drained, ConsiderCompression, CompressionFires,
     AnimationFires, CursorFires, CursorCancelled
<1>3. QED
  BY <1>1, <1>2, LoopMail DEF Renderer, Others, Counted, Uses

(* Main, the end of the IO thread's drain, and a resize that arrives.      *)
LEMMA OtherCounted ==
    ASSUME Mail,
           \/ OcclusionCallback \/ UpdateConfig \/ EndDrain \/ HandleOther \/ ResetBinding
           \/ \E v \in BOOLEAN : FocusCallback(v)
           \/ \E s \in Sizes : ResizeRenderer(s)
    PROVE  Counted
<1> USE DEF Counted
<1>1. CASE OcclusionCallback \/ UpdateConfig
  <2>1. (~visible) \in BOOLEAN /\ (~scrollback_compression) \in BOOLEAN
    OBVIOUS
  <2>2. \A v \in BOOLEAN : <<"visible", v>> \in RendererMessages /\ <<"config", v>> \in RendererMessages
    BY DEF RendererMessages
  <2>3. SendRenderer(<<"visible", ~visible>>) \/ SendRenderer(<<"config", ~scrollback_compression>>)
    BY <1>1 DEF OcclusionCallback, UpdateConfig
  <2>4. Uses(rq, rq', RendererCap, RendererMessages)
    BY <2>1, <2>2, <2>3, PushedUses DEF SendRenderer
  <2>5. QED
    BY <1>1, <2>4 DEF OcclusionCallback, UpdateConfig, Others, Uses
<1>2. CASE EndDrain \/ HandleOther \/ ResetBinding
  BY <1>2 DEF EndDrain, HandleOther, TakeApp, ResetBinding, Uses
<1>3. ASSUME NEW v \in BOOLEAN, FocusCallback(v) PROVE Counted
  <2>1. <<"focused", v>> \in IoMessages /\ <<"focus", v>> \in RendererMessages
    BY DEF IoMessages, RendererMessages
  <2>2. Uses(rq, rq', RendererCap, RendererMessages)
    BY <1>3, <2>1, PushedUses DEF FocusCallback, SendRenderer
  <2>3. QED
    BY <1>3, <2>1, <2>2, SentUses DEF FocusCallback, Uses
<1>4. ASSUME NEW s \in Sizes, ResizeRenderer(s) PROVE Counted
  BY <1>4 DEF ResizeRenderer, HandleScreenSize, Take, Others, Uses
<1>5. QED
  BY <1>1, <1>2, <1>3, <1>4

(* A mailbox that is used so holds no more than it has room for.           *)
LEMMA UsesBounded ==
    ASSUME NEW M, NEW q \in Seq(M), NEW r, NEW cap \in Nat, Uses(q, r, cap, M), Len(q) <= cap
    PROVE  Len(r) <= cap
  BY DEF Uses, Room

(* No mailbox holds more than it has room for, and no event is counted     *)
(* beyond the bound.                                                       *)
LEMMA Bounded ==
    ASSUME Mail, SizesInv, RestTyped, [Next]_vars
    PROVE  /\ events' \in 0..MaxEvents /\ missed' \subseteq Kept
           /\ Len(appq') <= AppCap /\ Len(ioq') <= IoCap /\ Len(rq') <= RendererCap
<1>1. Counted
  <2>1. CASE UNCHANGED vars
    BY <2>1 DEF vars, shared, Counted, Uses
  <2>2. QED
    BY <2>1, PasswordCounted, TermioCounted, ParserCounted, RendererCounted, OtherCounted
    DEF Next, Surface
<1>2. events' \in 0..MaxEvents
  BY <1>1 DEF Counted, Stimulus, RestTyped
<1>3. missed' \subseteq Kept
  BY <1>1 DEF Counted, RestTyped
<1>4. Len(appq') <= AppCap /\ Len(ioq') <= IoCap /\ Len(rq') <= RendererCap
  BY <1>1, UsesBounded DEF Counted, Mail, RestTyped
<1>5. QED
  BY <1>2, <1>3, <1>4

(* What the history of the output says is so or not.                       *)
LEMMA OutputFlagged ==
    ASSUME OutputFlags, [Next]_vars
    PROVE  OutputFlags'
<1>1. /\ (unannounced \/ (split /\ Unseen)) \in BOOLEAN /\ (unannounced \/ Unseen) \in BOOLEAN
      /\ (unannounced /\ ~WakeUp) \in BOOLEAN
  OBVIOUS
<1>2. CASE UNCHANGED <<split, unannounced>>
  BY <1>2 DEF OutputFlags
<1>3. CASE Parser \/ ResetBinding \/ Renderer
  <2>1. split' \in {split, TRUE, FALSE}
    BY <1>3 DEF Parser, BeginBatch, LetGo, TakeBack, EndBatch, ResetBinding, Renderer, output
  <2>2. unannounced' \in {unannounced, (unannounced \/ (split /\ Unseen)),
                         (unannounced \/ Unseen), (unannounced /\ ~WakeUp)}
    BY <1>3 DEF Parser, BeginBatch, LetGo, TakeBack, EndBatch, ResetBinding, Renderer, output
  <2>3. QED
    BY <1>1, <2>1, <2>2 DEF OutputFlags
<1>4. UNCHANGED <<split, unannounced>> \/ Parser \/ ResetBinding \/ Renderer
  BY RendererCases DEF Remote
<1>5. QED
  BY <1>2, <1>3, <1>4

(* What is left alone keeps its type.                                      *)
LEMMA FlagsKept ==
    ASSUME Flagged
    PROVE  /\ UNCHANGED screen => ScreenFlags'
           /\ UNCHANGED sizes => SizeFlags'
           /\ UNCHANGED <<sync_reset, scrolling>> => ScrollFlags'
           /\ UNCHANGED rendering => LoopFlags'
  BY DEF Flagged, ScreenFlags, SizeFlags, ScrollFlags, LoopFlags, screen, sizes, scrolling,
     rendering, loop

(* The flags stay flags: the poll, the view and the system.                *)
LEMMA PasswordFlagged ==
    ASSUME Flagged, PasswordSteps \/ SystemSteps, UNCHANGED <<timers, rendering>>
    PROVE  Flagged'
<1>1. UNCHANGED screen /\ rwoken' \in BOOLEAN /\ draining' \in BOOLEAN
  BY DEF PasswordSteps, TermiosFires, ResumePoll, FocusGained, TakeIo, HandlePassword,
     ToggleSurface, CloseView, SetTty, SystemSteps, ToggleGlobal, ChangeActive, Notified,
     shared, Flagged, ThreadFlags
<1>2. QED
  BY <1>1, FlagsKept DEF timers, Flagged, ThreadFlags

(* The timers of the IO thread.                                            *)
LEMMA TermioFlagged ==
    ASSUME Flagged, Mail, SizesInv, TermioSteps, UNCHANGED rendering
    PROVE  Flagged'
<1>0. LoopFlags'
  BY FlagsKept
<1>1. ThreadFlags'
  BY DEF TermioSteps, SizeCallback, HandleResize, CoalesceFires, ResizeAll, ResizeFails,
     HandleSync, SyncResetFires, ScrollFires, Drag, HandleScroll, HandleTick, TakeIo,
     Flagged, ThreadFlags
<1>2. ASSUME NEW s \in Sizes, SizeCallback(s) \/ HandleResize(s) PROVE Flagged'
  <2>1. ScreenFlags' /\ ScrollFlags'
    BY <1>2, FlagsKept DEF SizeCallback, HandleResize
  <2>2. SizeFlags'
    BY <1>2 DEF SizeCallback, HandleResize, Flagged, SizeFlags
  <2>3. QED
    BY <1>0, <1>1, <2>1, <2>2 DEF Flagged
<1>3. CASE CoalesceFires
  <2>1. resize_data \in Sizes
    BY <1>3 DEF CoalesceFires, SizesInv
  <2>2. ScrollFlags'
    BY <1>3, FlagsKept DEF CoalesceFires
  <2>3. SizeFlags'
    BY <1>3, <2>1 DEF CoalesceFires, ResizeAll, ResizeFails, Flagged, SizeFlags
  <2>4. ScreenFlags'
    <3>1. UNCHANGED screen \/ (sync' = FALSE /\ Touched)
      BY <1>3 DEF CoalesceFires, ResizeAll, ResizeFails
    <3>2. QED
      BY <3>1, FlagsKept DEF Touched, ScreenFlags
  <2>5. QED
    BY <1>0, <1>1, <2>2, <2>3, <2>4 DEF Flagged
<1>4. CASE HandleSync \/ SyncResetFires
  <2>1. SizeFlags'
    BY <1>4, FlagsKept DEF HandleSync, SyncResetFires
  <2>2. ScreenFlags'
    BY <1>4 DEF HandleSync, SyncResetFires, Flagged, ScreenFlags
  <2>3. ScrollFlags'
    BY <1>4 DEF HandleSync, SyncResetFires, scrolling, Flagged, ScrollFlags
  <2>4. QED
    BY <1>0, <1>1, <2>1, <2>2, <2>3 DEF Flagged
<1>5. ASSUME \/ ScrollFires \/ \E v \in BOOLEAN : Drag(v) \/ HandleScroll(v)
      PROVE  Flagged'
  <2>1. ScreenFlags' /\ SizeFlags'
    BY <1>5, FlagsKept DEF ScrollFires, Drag, HandleScroll
  <2>2. (lost \/ ~scroll_active) \in BOOLEAN /\ \A v \in BOOLEAN : (scroll \/ v) \in BOOLEAN
    OBVIOUS
  <2>3. lost' \in BOOLEAN /\ scroll' \in BOOLEAN
    BY <1>5, <2>2 DEF ScrollFires, Drag, HandleScroll, Mail, Flagged, ScrollFlags
  <2>4. sync_reset' \in BOOLEAN /\ autoscroll' \in BOOLEAN /\ selection_scroll_active' \in BOOLEAN
    BY <1>5 DEF ScrollFires, Drag, HandleScroll, Flagged, ScrollFlags
  <2>5. QED
    BY <1>0, <1>1, <2>1, <2>3, <2>4 DEF Flagged, ScrollFlags
<1>6. ASSUME NEW v \in BOOLEAN, HandleTick(v) PROVE Flagged'
  <2>1. SizeFlags'
    BY <1>6, FlagsKept DEF HandleTick
  <2>2. ScreenFlags'
    BY <1>6 DEF HandleTick, Touched, Flagged, ScreenFlags
  <2>3. ScrollFlags'
    BY <1>6 DEF HandleTick, Flagged, ScrollFlags
  <2>4. QED
    BY <1>0, <1>1, <2>1, <2>2, <2>3 DEF Flagged
<1>7. QED
  BY <1>2, <1>3, <1>4, <1>5, <1>6 DEF TermioSteps

(* The parser.                                                             *)
LEMMA ParserFlagged ==
    ASSUME Flagged, Parser
    PROVE  Flagged'
<1>1. UNCHANGED timers /\ UNCHANGED loop
  BY DEF Parser, BeginBatch, LetGo, TakeBack, EndBatch, rendering
<1>2. ThreadFlags'
  BY DEF Parser, BeginBatch, LetGo, TakeBack, EndBatch, Flagged, ThreadFlags
<1>3. SizeFlags' /\ ScrollFlags'
  BY <1>1, FlagsKept DEF timers
<1>0. FullReset => sync' = FALSE /\ kitty' = FALSE
  BY DEF FullReset
<1>4. CASE BeginBatch \/ TakeBack
  BY <1>2, <1>3, <1>4, FlagsKept DEF BeginBatch, TakeBack, Flagged
<1>5. CASE LetGo
  <2>1. LoopFlags'
    BY <1>5, FlagsKept DEF LetGo
  <2>2. ScreenFlags'
    <3>1. UNCHANGED sync \/ sync' = TRUE
      BY <1>5 DEF LetGo
    <3>2. QED
      BY <1>5, <3>1 DEF LetGo, Touched, Flagged, ScreenFlags
  <2>3. QED
    BY <1>2, <1>3, <2>1, <2>2 DEF Flagged
<1>6. CASE EndBatch
  <2>1. (~kitty) \in BOOLEAN
    OBVIOUS
  <2>2. kitty' \in BOOLEAN /\ sync' \in BOOLEAN
    BY <1>0, <1>6, <2>1 DEF EndBatch, Flagged, ScreenFlags, LoopFlags
  <2>3. ScreenFlags'
    BY <1>6, <2>2 DEF EndBatch, Touched, ScreenFlags
  <2>4. LoopFlags'
    BY <1>1, <2>2 DEF loop, Flagged, LoopFlags
  <2>5. QED
    BY <1>2, <1>3, <2>3, <2>4 DEF Flagged
<1>7. QED
  BY <1>4, <1>5, <1>6 DEF Parser

(* Rendering does.                                                         *)
LEMMA RenderFlags ==
    ASSUME Flagged, NEW old, Render(old)
    PROVE  dirty' \in BOOLEAN /\ kitty_next' \in BOOLEAN
<1>1. (dirty /\ sync) \in BOOLEAN
  OBVIOUS
<1>2. QED
  BY <1>1 DEF Render, UpdateFrame, Flagged, ScreenFlags, LoopFlags

(* The renderer.                                                           *)
LEMMA RendererFlagged ==
    ASSUME Flagged, RenderInv, Renderer
    PROVE  Flagged'
<1>0. UNCHANGED <<kitty, draining, sync>> /\ SizeFlags' /\ ScrollFlags'
  BY LoopMail, FlagsKept DEF Renderer, timers, Others
<1>1. dirty' \in BOOLEAN /\ kitty_next' \in BOOLEAN
  <2>1. Render(animation) \/ Render("dead") => dirty' \in BOOLEAN /\ kitty_next' \in BOOLEAN
    BY RenderFlags
  <2>2. CASE Drained \/ AnimationFires \/ \E v \in BOOLEAN : HandleVisible(v)
    BY <2>1, <2>2 DEF Drained, AnimationFires, HandleVisible, Flagged, ScreenFlags, LoopFlags
  <2>3. CASE \/ WakeUp \/ ConsiderCompression \/ CompressionFires \/ CursorFires
             \/ CursorCancelled \/ HandleBlink
             \/ \E v \in BOOLEAN : HandleFocus(v) \/ HandleConfig(v)
    <3>1. UNCHANGED <<dirty, kitty_next>>
      BY <2>3 DEF WakeUp, ConsiderCompression, HandleFocus, HandleConfig, HandleBlink,
         CompressionFires, CursorFires, CursorCancelled, loop
    <3>2. QED
      BY <3>1 DEF Flagged, ScreenFlags, LoopFlags
  <2>4. QED
    BY <2>2, <2>3 DEF Renderer, LoopSteps
<1>2. rwoken' \in BOOLEAN
  BY DEF Renderer, LoopSteps, WakeUp, Drained, ConsiderCompression, HandleVisible,
     HandleFocus, HandleConfig, HandleBlink, Take, CompressionFires, AnimationFires,
     CursorFires, CursorCancelled, Flagged, ThreadFlags
<1>3. compression' \in BOOLEAN
  <2>1. (compression \/ untracked) \in BOOLEAN
    OBVIOUS
  <2>2. QED
    BY <2>1 DEF Renderer, LoopSteps, WakeUp, Drained, ConsiderCompression, HandleVisible,
       HandleFocus, HandleConfig, HandleBlink, CompressionFires, AnimationFires,
       CursorFires, CursorCancelled, loop, Flagged, LoopFlags
<1>4. lapsed' \in BOOLEAN
  <2>1. \A v \in BOOLEAN : (v /\ cursor = "cancelling") \in BOOLEAN
    OBVIOUS
  <2>2. QED
    BY <2>1 DEF Renderer, LoopSteps, WakeUp, Drained, ConsiderCompression, HandleVisible,
       HandleFocus, HandleConfig, HandleBlink, CompressionFires, AnimationFires,
       CursorFires, CursorCancelled, loop, Flagged, LoopFlags
<1>5. untracked' \in BOOLEAN
  <2>1. \A v \in BOOLEAN : (untracked \/ (v /\ ~compressing)) \in BOOLEAN
    OBVIOUS
  <2>2. QED
    BY <2>1 DEF Renderer, LoopSteps, WakeUp, Drained, ConsiderCompression, HandleVisible,
       HandleFocus, HandleConfig, HandleBlink, CompressionFires, AnimationFires,
       CursorFires, CursorCancelled, Flagged, ScreenFlags
<1>6. work' \in BOOLEAN
  <2>1. (work /\ compression') \in BOOLEAN
    OBVIOUS
  <2>2. QED
    BY <2>1 DEF Renderer, LoopSteps, WakeUp, Drained, ConsiderCompression, HandleVisible,
       HandleFocus, HandleConfig, HandleBlink, Take, CompressionFires, AnimationFires,
       CursorFires, CursorCancelled, Flagged, ScreenFlags
<1>7. ThreadFlags' /\ ScreenFlags' /\ LoopFlags'
  BY <1>0, <1>1, <1>2, <1>3, <1>4, <1>5, <1>6 DEF Flagged, ThreadFlags, ScreenFlags, LoopFlags
<1>8. QED
  BY <1>0, <1>7 DEF Flagged

(* What else main does, and the resize that reaches the renderer.          *)
LEMMA MainFlagged ==
    ASSUME Flagged,
           \/ (OcclusionCallback \/ UpdateConfig) /\ UNCHANGED timers
           \/ EndDrain /\ UNCHANGED <<timers, rendering>>
           \/ HandleOther \/ ResetBinding
           \/ \E v \in BOOLEAN : FocusCallback(v)
           \/ \E s \in Sizes : ResizeRenderer(s)
    PROVE  Flagged'
<1>1. CASE (OcclusionCallback \/ UpdateConfig) /\ UNCHANGED timers
  <2>1. UNCHANGED <<kitty, loop, draining, sync, dirty, work, untracked>> /\ rwoken' = TRUE
    BY <1>1 DEF OcclusionCallback, UpdateConfig, Others
  <2>2. ThreadFlags' /\ ScreenFlags' /\ LoopFlags'
    BY <2>1 DEF loop, Flagged, ThreadFlags, ScreenFlags, LoopFlags
  <2>3. QED
    BY <1>1, <2>2, FlagsKept DEF timers, Flagged
<1>2. CASE EndDrain /\ UNCHANGED <<timers, rendering>>
  BY <1>2, FlagsKept DEF EndDrain, timers, Flagged, ThreadFlags
<1>3. CASE HandleOther \/ \E v \in BOOLEAN : FocusCallback(v)
  BY <1>3, FlagsKept DEF HandleOther, FocusCallback, timers, Flagged, ThreadFlags
<1>4. ASSUME NEW s \in Sizes, ResizeRenderer(s) PROVE Flagged'
  <2>1. UNCHANGED <<draining, rwoken, sync, dirty, work, untracked, pty_size, term_size, failed,
                    unsized, sync_reset, scrolling, kitty, lapsed, kitty_next, compression>>
        /\ renderer_size' = s
    BY <1>4 DEF ResizeRenderer, HandleScreenSize, Take, Others
  <2>2. ThreadFlags' /\ ScreenFlags' /\ SizeFlags' /\ LoopFlags'
    BY <2>1 DEF Flagged, ThreadFlags, ScreenFlags, SizeFlags, LoopFlags
  <2>3. ScrollFlags'
    BY <2>1, FlagsKept
  <2>4. QED
    BY <2>2, <2>3 DEF Flagged
<1>5. CASE ResetBinding
  <2>1. UNCHANGED <<draining, rwoken, timers, lapsed, kitty_next, compression>>
    BY <1>5 DEF ResetBinding, loop
  <2>2. ScreenFlags' /\ kitty' = FALSE
    BY <1>5 DEF ResetBinding, FullReset, Touched, ScreenFlags
  <2>3. ThreadFlags' /\ LoopFlags'
    BY <2>1, <2>2 DEF Flagged, ThreadFlags, LoopFlags
  <2>4. QED
    BY <2>1, <2>2, <2>3, FlagsKept DEF timers, Flagged
<1>6. QED
  BY <1>1, <1>2, <1>3, <1>4, <1>5

(* Every step keeps the types.                                             *)
LEMMA RestStep ==
    ASSUME Mail, SizesInv, RenderInv, RestTyped, [Next]_vars
    PROVE  RestTyped'
<1>1. Flagged'
  <2>1. CASE UNCHANGED vars
    BY <2>1, FlagsKept DEF vars, shared, timers, RestTyped, Flagged, ThreadFlags
  <2>2. QED
    BY <2>1, PasswordFlagged, TermioFlagged, ParserFlagged, RendererFlagged, MainFlagged
    DEF Next, Surface, RestTyped
<1>2. QED
  BY <1>1, Bounded, OutputFlagged DEF RestTyped

(* Every variable keeps its type, and the mailboxes their bounds.          *)
THEOREM SurfaceTimersTyped == Spec => []TypeOK
<1>1. Mail /\ SizesInv /\ PollTyped /\ RenderInv /\ RestTyped => TypeOK
  <2> SUFFICES ASSUME Mail, SizesInv, PollTyped, RenderInv, RestTyped PROVE TypeOK
    OBVIOUS
  <2>1. SharedTypeOK /\ PasswordTypeOK
    BY DEF PollTyped, RenderInv, LoopTyped, RestTyped, Flagged, ThreadFlags, ScreenFlags,
       SharedTypeOK
  <2>2. TermioTypeOK
    BY DEF Mail, SizesInv, RestTyped, Flagged, SizeFlags, ScrollFlags, TermioTypeOK
  <2>3. RendererTypeOK
    BY DEF Mail, RenderInv, LoopTyped, RestTyped, Flagged, LoopFlags, RendererTypeOK
  <2>4. term_focused \in BOOLEAN /\ split \in BOOLEAN /\ unannounced \in BOOLEAN
    BY DEF Mail, RestTyped, OutputFlags
  <2>5. QED
    BY <2>1, <2>2, <2>3, <2>4 DEF TypeOK
<1>2. Init => Mail /\ SizesInv /\ PollTyped /\ RenderInv /\ RestTyped
  BY SizesInit, PasswordInitTyped, RenderInit, RestInit
<1>3. Mail /\ SizesInv /\ PollTyped /\ RenderInv /\ RestTyped /\ [Next]_vars
        => (Mail /\ SizesInv /\ PollTyped /\ RenderInv /\ RestTyped)'
  BY MailStep, SizesStep, PasswordStepTyped, RenderStep, RestStep
<1>4. QED
  BY <1>1, <1>2, <1>3, PTL DEF Spec

=============================================================================
