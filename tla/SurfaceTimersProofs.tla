------------------------- MODULE SurfaceTimersProofs -------------------------
(***************************************************************************)
(* What the mailboxes of a surface carry between its timers, for mailboxes *)
(* of any size, any sizes of the surface and any number of events: the     *)
(* last size is applied, a selection believed to scroll does, the tty is   *)
(* polled while the surface has the focus, and secure keyboard input       *)
(* follows what the poll has seen.                                         *)
(***************************************************************************)
EXTENDS SurfaceTimers, SequenceTheorems, TLAPS

USE SharedAssumption, TermioTimersAssumption, ShaderAssumption DEF io

-----------------------------------------------------------------------------
(* Mailboxes *)

(* The last message of a kind says x, or none is left and x is in force.   *)
Tracks(q, kind, x, current) ==
    IF NoneOf(q, kind) THEN current = x
    ELSE \E i \in DOMAIN q : /\ q[i] = <<kind, x>>
                             /\ \A j \in DOMAIN q : j > i => q[j][1] # kind

IoMessages == {<<"sync">>} \cup ({"scroll", "focused"} \X BOOLEAN) \cup ({"resize"} \X Sizes)
AppMessages == {"password", "tick", "other"} \X BOOLEAN
RendererMessages == ({"visible", "focus", "config", "blink"} \X BOOLEAN) \cup ({"resize"} \X Sizes)

Mail ==
    /\ ioq \in Seq(IoMessages) /\ appq \in Seq(AppMessages)
    /\ rq \in Seq(RendererMessages)
    /\ visible \in BOOLEAN /\ scrollback_compression \in BOOLEAN
    /\ scroll_active \in BOOLEAN /\ term_focused \in BOOLEAN

(* What a message of the kind says is now the last word. *)
LEMMA TracksSent ==
    ASSUME NEW M, NEW q \in Seq(M), NEW kind, NEW x, NEW current, NEW m, m = <<kind, x>>
    PROVE  Tracks(Append(q, m), kind, x, current)
<1> DEFINE r == Append(q, m)
<1>1. DOMAIN r = 1..Len(q) + 1 /\ r[Len(q) + 1] = <<kind, x>> /\ Len(q) \in Nat
  OBVIOUS
<1>2. ~NoneOf(r, kind)
  BY <1>1 DEF NoneOf
<1>3. Len(q) + 1 \in DOMAIN r /\ \A j \in DOMAIN r : j > Len(q) + 1 => r[j][1] # kind
  BY <1>1
<1>4. QED
  BY <1>1, <1>2, <1>3 DEF Tracks

(* A message of another kind changes nothing. *)
LEMMA TracksOther ==
    ASSUME NEW M, NEW q \in Seq(M), NEW kind, NEW x, NEW current, NEW m, m[1] # kind,
           Tracks(q, kind, x, current)
    PROVE  Tracks(Append(q, m), kind, x, current)
<1> DEFINE r == Append(q, m)
<1>1. /\ DOMAIN r = 1..Len(q) + 1 /\ DOMAIN q = 1..Len(q) /\ Len(q) \in Nat
      /\ r[Len(q) + 1] = m /\ \A i \in 1..Len(q) : r[i] = q[i]
  OBVIOUS
<1> HIDE DEF r
<1>2. NoneOf(r, kind) <=> NoneOf(q, kind)
  BY <1>1 DEF NoneOf
<1>3. CASE NoneOf(q, kind)
  BY <1>2, <1>3 DEF Tracks, r
<1>4. CASE ~NoneOf(q, kind)
  <2>1. PICK i \in DOMAIN q : /\ q[i] = <<kind, x>>
                              /\ \A j \in DOMAIN q : j > i => q[j][1] # kind
    BY <1>4 DEF Tracks
  <2>2. i \in DOMAIN r /\ r[i] = <<kind, x>>
    BY <1>1, <2>1
  <2>3. \A j \in DOMAIN r : j > i => r[j][1] # kind
    BY <1>1, <2>1
  <2>4. QED
    BY <1>2, <1>4, <2>2, <2>3 DEF Tracks, r
<1>5. QED
  BY <1>3, <1>4

(* Taking a message moves what it says into force. *)
LEMMA TracksTaken ==
    ASSUME NEW M, NEW q \in Seq(M), q # <<>>, NEW kind, NEW x, NEW current, NEW v,
           Tracks(q, kind, x, current),
           \/ Head(q)[1] # kind /\ v = current
           \/ Head(q) = <<kind, v>>
    PROVE  Tracks(Tail(q), kind, x, v)
<1> DEFINE r == Tail(q)
<1>1. /\ DOMAIN r = 1..Len(q) - 1 /\ DOMAIN q = 1..Len(q) /\ Len(q) \in Nat \ {0}
      /\ Head(q) = q[1] /\ \A i \in 1..Len(q) - 1 : r[i] = q[i + 1]
  BY EmptySeq
<1> HIDE DEF r
<1>2. NoneOf(r, kind) <=> \A j \in DOMAIN q : j > 1 => q[j][1] # kind
  <2>1. ASSUME NoneOf(r, kind), NEW j \in DOMAIN q, j > 1 PROVE q[j][1] # kind
    <3>1. j - 1 \in DOMAIN r /\ r[j - 1] = q[j]
      BY <1>1, <2>1
    <3>2. QED
      BY <2>1, <3>1 DEF NoneOf
  <2>2. ASSUME \A j \in DOMAIN q : j > 1 => q[j][1] # kind PROVE NoneOf(r, kind)
    <3>1. ASSUME NEW j \in DOMAIN r PROVE r[j][1] # kind
      <4>1. j + 1 \in DOMAIN q /\ j + 1 > 1 /\ r[j] = q[j + 1]
        BY <1>1, <3>1
      <4>2. QED
        BY <2>2, <4>1
    <3>2. QED
      BY <3>1 DEF NoneOf
  <2>3. QED
    BY <2>1, <2>2
<1>3. CASE NoneOf(q, kind)
  <2>1. q[1][1] # kind
    BY <1>1, <1>3 DEF NoneOf
  <2>2. v = current /\ current = x
    BY <1>1, <1>3, <2>1 DEF Tracks
  <2>3. NoneOf(r, kind)
    BY <1>2, <1>3 DEF NoneOf
  <2>4. QED
    BY <2>2, <2>3 DEF Tracks, r
<1>4. CASE ~NoneOf(q, kind)
  <2>1. PICK i \in DOMAIN q : /\ q[i] = <<kind, x>>
                              /\ \A j \in DOMAIN q : j > i => q[j][1] # kind
    BY <1>4 DEF Tracks
  <2>2. CASE i = 1
    <3>1. v = x
      BY <1>1, <2>1, <2>2
    <3>2. NoneOf(r, kind)
      BY <1>2, <2>1, <2>2
    <3>3. QED
      BY <3>1, <3>2 DEF Tracks, r
  <2>3. CASE i # 1
    <3>1. i - 1 \in DOMAIN r /\ r[i - 1] = <<kind, x>>
      BY <1>1, <2>1, <2>3
    <3>2. \A j \in DOMAIN r : j > i - 1 => r[j][1] # kind
      BY <1>1, <2>1, <2>3
    <3>3. ~NoneOf(r, kind)
      BY <3>1 DEF NoneOf
    <3>4. QED
      BY <3>1, <3>2, <3>3 DEF Tracks, r
  <2>4. QED
    BY <2>2, <2>3
<1>5. QED
  BY <1>3, <1>4

(* What happens to a mailbox without touching messages of a kind. *)
Other(q, r, M, kind) ==
    \/ r = q
    \/ \E m \in M : m[1] # kind /\ r = Append(q, m)
    \/ q # <<>> /\ Head(q)[1] # kind /\ r = Tail(q)

(* What is tracked stays tracked by it. *)
LEMMA TracksKept ==
    ASSUME NEW M, NEW q \in Seq(M), NEW r, NEW kind, NEW x, NEW current,
           Other(q, r, M, kind), Tracks(q, kind, x, current)
    PROVE  Tracks(r, kind, x, current)
<1>1. CASE r = q
  BY <1>1
<1>2. ASSUME NEW m \in M, m[1] # kind, r = Append(q, m)
      PROVE  Tracks(r, kind, x, current)
  BY <1>2, TracksOther
<1>3. CASE q # <<>> /\ Head(q)[1] # kind /\ r = Tail(q)
  BY <1>3, TracksTaken
<1>4. QED
  BY <1>1, <1>2, <1>3 DEF Other

(* A push, accepted or refused, of a message of another kind. *)
LEMMA PushedOther ==
    ASSUME NEW M, NEW q, NEW cap, NEW kind, NEW m \in M, m[1] # kind
    PROVE  Other(q, Pushed(q, cap, m), M, kind)
  BY DEF Pushed, Other

-----------------------------------------------------------------------------
(* Who uses the mailboxes *)

(* No message of the kind is sent or taken that was not refused before. *)
IoApart(kind) ==
    /\ Other(ioq, ioq', IoMessages, kind)
    /\ kind \in missed => kind \in missed'

(* A message to the IO thread leaves the other kinds as they are.          *)
LEMMA SentApart ==
    ASSUME NEW kind, NEW m \in IoMessages, m[1] # kind, SendIo(m)
    PROVE  IoApart(kind)
<1>1. Other(ioq, ioq', IoMessages, kind)
  BY PushedOther DEF SendIo
<1>2. kind \in missed => kind \in missed'
  BY DEF SendIo
<1>3. QED
  BY <1>1, <1>2 DEF IoApart

(* So does a focus that the parser sends.                                  *)
LEMMA FocusSentApart ==
    ASSUME NEW kind, kind # "focused", NEW v \in BOOLEAN, SendFocus(v)
    PROVE  IoApart(kind)
<1>1. <<"focused", v>> \in IoMessages /\ <<"focused", v>>[1] # kind
  BY DEF IoMessages
<1>2. Other(ioq, ioq', IoMessages, kind)
  BY <1>1, PushedOther DEF SendFocus
<1>3. kind \in missed => kind \in missed'
  BY DEF SendFocus
<1>4. QED
  BY <1>2, <1>3 DEF IoApart

(* What the parser sends to the IO thread.                                 *)
LEMMA ParserSends ==
    ASSUME Mail, TakeBack \/ EndBatch
    PROVE  UNCHANGED io \/ SendIo(<<"sync">>) \/ \E v \in BOOLEAN : SendFocus(v)
<1>1. CASE TakeBack
  BY <1>1 DEF TakeBack
<1>2. CASE EndBatch
  BY <1>2 DEF EndBatch, Mail
<1>3. QED
  BY <1>1, <1>2

(* It is about synchronized output and the focus.                          *)
LEMMA ParserApart ==
    ASSUME Mail, TakeBack \/ EndBatch, NEW kind, kind \notin {"sync", "focused"}
    PROVE  IoApart(kind)
<1>1. CASE UNCHANGED io
  BY <1>1 DEF IoApart, Other
<1>2. CASE SendIo(<<"sync">>)
  <2>1. <<"sync">> \in IoMessages /\ <<"sync">>[1] # kind
    BY DEF IoMessages
  <2>2. QED
    BY <1>2, <2>1, SentApart
<1>3. QED
  BY <1>1, <1>2, FocusSentApart, ParserSends

(* A poll at most announces. *)
LEMMA PollMail ==
    ASSUME NEW mode, Poll(mode)
    PROVE  UNCHANGED appq \/ \E on \in BOOLEAN : appq' = Append(appq, Announcement(on))
<1>1. (mode = "password") \in BOOLEAN
  OBVIOUS
<1>2. UNCHANGED appq \/ appq' = Append(appq, Announcement(mode = "password"))
  BY DEF Poll
<1>3. QED
  BY <1>1, <1>2

(* An announcement is no message of another kind. *)
LEMMA AnnouncedMail ==
    ASSUME UNCHANGED appq \/ \E on \in BOOLEAN : appq' = Append(appq, Announcement(on))
    PROVE  Other(appq, appq', AppMessages, "tick")
<1>1. ASSUME NEW on \in BOOLEAN
      PROVE  Announcement(on) \in AppMessages /\ Announcement(on)[1] # "tick"
  BY DEF Announcement, AppMessages
<1>2. QED
  BY <1>1 DEF Other

(* The poll of the tty and SecureInput. *)
LEMMA PasswordMail ==
    ASSUME PasswordSteps
    PROVE  /\ UNCHANGED <<rq, parsing, screen>>
           /\ Other(appq, appq', AppMessages, "tick")
           /\ \A k \in {"resize", "scroll", "sync"} : IoApart(k)
<1>1. CASE TermiosFires
  BY <1>1, PollMail, AnnouncedMail DEF TermiosFires, PollTty, IoApart, Other
<1>2. CASE ResumePoll
  <2>1. (poll = "on") \in BOOLEAN
    OBVIOUS
  <2>2. QED
    BY <1>2, <2>1, AnnouncedMail DEF ResumePoll, IoApart, Other
<1>3. ASSUME NEW v \in BOOLEAN, FocusGained(v)
      PROVE  /\ UNCHANGED <<rq, parsing, screen>>
             /\ Other(appq, appq', AppMessages, "tick")
             /\ \A k \in {"resize", "scroll", "sync"} : IoApart(k)
  BY <1>3, PollMail, AnnouncedMail DEF FocusGained, PollTty, TakeIo, IoApart, Other
<1>4. ASSUME NEW v \in BOOLEAN, HandlePassword(v)
      PROVE  /\ UNCHANGED <<rq, parsing, screen>>
             /\ Other(appq, appq', AppMessages, "tick")
             /\ \A k \in {"resize", "scroll", "sync"} : IoApart(k)
  BY <1>4 DEF HandlePassword, TakeApp, Announcement, IoApart, Other
<1>5. CASE ToggleSurface \/ CloseView \/ \E m \in Modes : SetTty(m)
  BY <1>5 DEF ToggleSurface, CloseView, SetTty, IoApart, Other
<1>6. QED
  BY <1>1, <1>2, <1>3, <1>4, <1>5 DEF PasswordSteps

(* The renderer only takes, and nothing that is a resize. *)
LEMMA LoopMail ==
    ASSUME LoopSteps
    PROVE  /\ UNCHANGED Others
           /\ Other(rq, rq', RendererMessages, "resize")
<1> USE DEF Other, Others
<1>1. CASE WakeUp \/ Drained \/ ConsiderCompression
  BY <1>1 DEF WakeUp, Drained, ConsiderCompression
<1>2. ASSUME NEW m, Take(m), m[1] # "resize"
      PROVE  UNCHANGED Others /\ Other(rq, rq', RendererMessages, "resize")
  BY <1>2 DEF Take
<1>4. CASE \/ HandleBlink
           \/ \E v \in BOOLEAN : HandleVisible(v) \/ HandleFocus(v) \/ HandleConfig(v)
  BY <1>2, <1>4 DEF HandleVisible, HandleFocus, HandleConfig, HandleBlink
<1>3. CASE CompressionFires \/ AnimationFires \/ CursorFires \/ CursorCancelled
  BY <1>3 DEF CompressionFires, AnimationFires, CursorFires, CursorCancelled
<1>5. QED
  BY <1>1, <1>3, <1>4 DEF LoopSteps

-----------------------------------------------------------------------------
(* The last size is applied *)

(* Everybody's idea of the size follows the last message about it, unless  *)
(* that was refused.                                                       *)
SizesInv ==
    /\ size \in Sizes /\ resize_data \in Sizes \cup {NoSize}
    /\ coalesce = (resize_data # NoSize)
    /\ failed \/ /\ \/ "resize" \in missed
                    \/ Tracks(ioq, "resize", size, IF coalesce THEN resize_data ELSE pty_size)
                 /\ pty_size = term_size
                 /\ unsized \/ Tracks(rq, "resize", term_size, renderer_size)

(* At first nothing is on its way and everybody has the size.              *)
LEMMA SizesInit == Init => Mail /\ SizesInv
<1> SUFFICES ASSUME Init PROVE Mail /\ SizesInv
  OBVIOUS
<1>1. /\ ioq = <<>> /\ appq = <<>> /\ rq = <<>> /\ size \in Sizes /\ resize_data = NoSize
      /\ coalesce = FALSE /\ pty_size = size /\ term_size = size /\ renderer_size = size
  BY DEF Init, SharedInit, TermioInit
<1>2. Mail
  <2>1. visible \in BOOLEAN /\ scrollback_compression \in BOOLEAN /\ scroll_active \in BOOLEAN
        /\ term_focused \in BOOLEAN
    BY DEF Init, RendererInit, TermioInit
  <2>2. QED
    BY <1>1, <2>1 DEF Mail
<1>3. NoneOf(ioq, "resize") /\ NoneOf(rq, "resize")
  BY <1>1 DEF NoneOf
<1>4. Tracks(ioq, "resize", size, pty_size) /\ Tracks(rq, "resize", term_size, renderer_size)
  BY <1>1, <1>3 DEF Tracks
<1>5. QED
  BY <1>1, <1>2, <1>4 DEF SizesInv

(* A step that is not about the size. *)
SizesApart ==
    /\ UNCHANGED sizes
    /\ IoApart("resize") /\ Other(rq, rq', RendererMessages, "resize")

(* What is not about the size leaves everybody's idea of it.               *)
LEMMA SizesKept ==
    ASSUME Mail, SizesInv, SizesApart
    PROVE  SizesInv'
<1>1. UNCHANGED <<size, resize_data, coalesce, pty_size, term_size, renderer_size, failed,
               unsized>>
  BY DEF SizesApart, sizes
<1>2. Tracks(ioq, "resize", size, IF coalesce THEN resize_data ELSE pty_size)
        => Tracks(ioq', "resize", size, IF coalesce THEN resize_data ELSE pty_size)
  BY TracksKept DEF Mail, SizesApart, IoApart
<1>3. Tracks(rq, "resize", term_size, renderer_size)
        => Tracks(rq', "resize", term_size, renderer_size)
  BY TracksKept DEF Mail, SizesApart
<1>4. "resize" \in missed => "resize" \in missed'
  BY DEF SizesApart, IoApart
<1>5. QED
  BY <1>1, <1>2, <1>3, <1>4 DEF SizesInv

(* Scrolling, synchronized output and the parser are not about the size.   *)
LEMMA OtherTermioApart ==
    ASSUME \/ HandleSync \/ SyncResetFires \/ ScrollFires
           \/ \E v \in BOOLEAN : Drag(v) \/ HandleScroll(v) \/ HandleTick(v)
    PROVE  SizesApart
<1> USE DEF SizesApart, IoApart, Other
<1>1. CASE HandleSync
  BY <1>1 DEF HandleSync, TakeIo
<1>2. CASE SyncResetFires \/ ScrollFires
  BY <1>2 DEF SyncResetFires, ScrollFires
<1>3. \A v \in BOOLEAN : <<"scroll", v>> \in IoMessages /\ <<"scroll", v>>[1] # "resize"
  BY DEF IoMessages
<1>4. ASSUME NEW v \in BOOLEAN, Drag(v) PROVE SizesApart
  BY <1>3, <1>4, SentApart DEF Drag
<1>5. ASSUME NEW v \in BOOLEAN, HandleScroll(v) PROVE SizesApart
  BY <1>5 DEF HandleScroll, TakeIo
<1>6. ASSUME NEW v \in BOOLEAN, HandleTick(v) PROVE SizesApart
  BY <1>3, <1>6, SentApart DEF HandleTick
<1>7. QED
  BY <1>1, <1>2, <1>4, <1>5, <1>6

(* The user, the system and the end of the IO thread's drain.              *)
LEMMA OtherSurfaceApart ==
    ASSUME Mail, UNCHANGED timers,
           OcclusionCallback \/ UpdateConfig \/ EndDrain \/ SystemSteps
    PROVE  SizesApart
<1>0. UNCHANGED sizes
  BY DEF timers
<1>1. CASE OcclusionCallback
  <2>1. (~visible) \in BOOLEAN
    OBVIOUS
  <2>2. <<"visible", ~visible>> \in RendererMessages /\ <<"visible", ~visible>>[1] # "resize"
    BY <2>1 DEF RendererMessages
  <2>3. Other(rq, rq', RendererMessages, "resize")
    BY <1>1, <2>2, PushedOther DEF OcclusionCallback, SendRenderer
  <2>4. QED
    BY <1>0, <1>1, <2>3 DEF OcclusionCallback, Others, SizesApart, IoApart, Other
<1>2. CASE UpdateConfig
  <2>1. (~scrollback_compression) \in BOOLEAN
    OBVIOUS
  <2>2. /\ <<"config", ~scrollback_compression>> \in RendererMessages
        /\ <<"config", ~scrollback_compression>>[1] # "resize"
    BY <2>1 DEF RendererMessages
  <2>3. Other(rq, rq', RendererMessages, "resize")
    BY <1>2, <2>2, PushedOther DEF UpdateConfig, SendRenderer
  <2>4. QED
    BY <1>0, <1>2, <2>3 DEF UpdateConfig, Others, SizesApart, IoApart, Other
<1>3. CASE EndDrain
  BY <1>0, <1>3 DEF EndDrain, SizesApart, IoApart, Other
<1>4. CASE SystemSteps
  BY <1>0, <1>4 DEF SystemSteps, ToggleGlobal, ChangeActive, Notified, shared,
     SizesApart, IoApart, Other
<1>5. QED
  BY <1>1, <1>2, <1>3, <1>4

(* Output and focus. *)
LEMMA OutputApart ==
    ASSUME Mail,
           HandleOther \/ ResetBinding \/ Parser \/ \E v \in BOOLEAN : FocusCallback(v)
    PROVE  SizesApart
<1>1. CASE HandleOther \/ ResetBinding \/ LetGo
  BY <1>1 DEF HandleOther, ResetBinding, LetGo, SizesApart, IoApart, Other, timers
<1>2. CASE BeginBatch
  <2>1. <<"blink", TRUE>> \in RendererMessages /\ <<"blink", TRUE>>[1] # "resize"
    BY DEF RendererMessages
  <2>2. Other(rq, rq', RendererMessages, "resize")
    BY <1>2, <2>1 DEF BeginBatch, Pushed, Other
  <2>3. QED
    BY <1>2, <2>2 DEF BeginBatch, SizesApart, IoApart, Other, timers
<1>3. CASE TakeBack \/ EndBatch
  <2>1. IoApart("resize")
    BY <1>3, ParserApart
  <2>2. QED
    BY <1>3, <2>1 DEF TakeBack, EndBatch, SizesApart, Other, timers
<1>4. ASSUME NEW v \in BOOLEAN, FocusCallback(v) PROVE SizesApart
  <2>1. <<"focus", v>> \in RendererMessages /\ <<"focus", v>>[1] # "resize"
    BY DEF RendererMessages
  <2>2. <<"focused", v>> \in IoMessages /\ <<"focused", v>>[1] # "resize"
    BY DEF IoMessages
  <2>3. Other(rq, rq', RendererMessages, "resize")
    BY <1>4, <2>1, PushedOther DEF FocusCallback, SendRenderer
  <2>4. IoApart("resize")
    BY <1>4, <2>2, SentApart DEF FocusCallback
  <2>5. QED
    BY <1>4, <2>3, <2>4 DEF FocusCallback, SizesApart, timers
<1>5. QED
  BY <1>1, <1>2, <1>3, <1>4 DEF Parser

(* The steps that are about the size.                                      *)
LEMMA SizesMoved ==
    ASSUME Mail, SizesInv,
           \/ \E s \in Sizes : SizeCallback(s) \/ HandleResize(s) \/ ResizeRenderer(s)
           \/ CoalesceFires
    PROVE  SizesInv'
<1>1. ASSUME NEW s \in Sizes, SizeCallback(s) PROVE SizesInv'
  <2>1. CASE Room(ioq, IoCap)
    <3>1. ioq' = Append(ioq, <<"resize", s>>)
      BY <1>1, <2>1 DEF SizeCallback, SendIo, Pushed
    <3>2. Tracks(ioq', "resize", s, IF coalesce THEN resize_data ELSE pty_size)
      BY <3>1, TracksSent DEF Mail
    <3>3. QED
      BY <1>1, <3>2 DEF SizeCallback, SizesInv
  <2>2. CASE ~Room(ioq, IoCap)
    <3>1. "resize" \in missed'
      BY <1>1, <2>2 DEF SizeCallback, SendIo, Kept
    <3>2. QED
      BY <1>1, <3>1 DEF SizeCallback, SizesInv
  <2>3. QED
    BY <2>1, <2>2
<1>2. ASSUME NEW s \in Sizes, HandleResize(s) PROVE SizesInv'
  <2>1. s # NoSize
    BY TermioTimersAssumption
  <2>2. ~failed => "resize" \in missed \/ Tracks(ioq', "resize", size, s)
    BY <1>2, TracksTaken DEF HandleResize, TakeIo, Mail, SizesInv
  <2>3. UNCHANGED missed
    BY <1>2 DEF HandleResize, TakeIo
  <2>4. QED
    BY <1>2, <2>1, <2>2, <2>3 DEF HandleResize, SizesInv
<1>3. ASSUME NEW s \in Sizes, ResizeRenderer(s) PROVE SizesInv'
  <2>1. UNCHANGED <<io, size, resize_data, coalesce, pty_size, term_size, failed, unsized>>
    BY <1>3 DEF ResizeRenderer, HandleScreenSize, Take, Others
  <2>2. ~failed => unsized \/ Tracks(rq', "resize", term_size, s)
    BY <1>3, TracksTaken DEF ResizeRenderer, HandleScreenSize, Take, Mail, SizesInv
  <2>3. QED
    BY <1>3, <2>1, <2>2 DEF ResizeRenderer, SizesInv
<1>4. CASE CoalesceFires
  <2>1. /\ UNCHANGED <<io, size, renderer_size>> /\ coalesce
        /\ coalesce' = FALSE /\ resize_data' = NoSize
    BY <1>4 DEF CoalesceFires
  <2>2. CASE ResizeAll(resize_data)
    <3>1. CASE Room(rq, RendererCap)
      <4>1. rq' = Append(rq, <<"resize", resize_data>>)
        BY <2>2, <3>1 DEF ResizeAll, SendRenderer, Pushed
      <4>2. Tracks(rq', "resize", resize_data, renderer_size)
        BY <4>1, TracksSent DEF Mail
      <4>3. QED
        BY <2>1, <2>2, <4>2 DEF ResizeAll, SizesInv
    <3>2. CASE ~Room(rq, RendererCap)
      BY <2>1, <2>2, <3>2 DEF ResizeAll, SizesInv
    <3>3. QED
      BY <3>1, <3>2
  <2>3. CASE ResizeFails(resize_data)
    BY <2>1, <2>3 DEF ResizeFails, SizesInv
  <2>4. QED
    BY <1>4, <2>2, <2>3 DEF CoalesceFires
<1>5. QED
  BY <1>1, <1>2, <1>3, <1>4

(* A step is either about the size or not.                                 *)
LEMMA SizesCases ==
    ASSUME Mail, [Next]_vars
    PROVE  \/ SizesApart
           \/ \E s \in Sizes : SizeCallback(s) \/ HandleResize(s) \/ ResizeRenderer(s)
           \/ CoalesceFires
<1>1. CASE UNCHANGED vars
  BY <1>1 DEF vars, shared, timers, SizesApart, IoApart, Other
<1>2. CASE PasswordSteps /\ UNCHANGED timers
  BY <1>2, PasswordMail DEF timers, SizesApart, Other
<1>3. CASE TermioSteps
  BY <1>3, OtherTermioApart DEF TermioSteps
<1>4. CASE Renderer
  BY <1>4, LoopMail DEF Renderer, timers, SizesApart, Others, IoApart, Other
<1>5. QED
  BY <1>1, <1>2, <1>3, <1>4, OtherSurfaceApart, OutputApart DEF Next, Surface

(* Every step keeps everybody's idea of the size.                          *)
LEMMA SizesStep == Mail /\ SizesInv /\ [Next]_vars => SizesInv'
  BY SizesCases, SizesKept, SizesMoved

-----------------------------------------------------------------------------
(* The mailboxes hold messages *)

(* What happens to a mailbox leaves it one.                                *)
LEMMA OtherTyped ==
    ASSUME NEW M, NEW q \in Seq(M), NEW r, NEW kind, Other(q, r, M, kind)
    PROVE  r \in Seq(M)
  BY DEF Other

(* The app mailbox is used by the poll, the scrolling and the parser only. *)
LEMMA TickCases ==
    ASSUME [Next]_vars
    PROVE  \/ ScrollFires \/ \E v \in BOOLEAN : HandleTick(v)
           \/ /\ Other(appq, appq', AppMessages, "tick")
              /\ \/ UNCHANGED scrolling
                 \/ \E v \in BOOLEAN : Drag(v) \/ HandleScroll(v)
<1> USE DEF Pushed
<1>1. CASE UNCHANGED vars
  BY <1>1 DEF vars, shared, timers, Other
<1>2. CASE PasswordSteps /\ UNCHANGED timers
  BY <1>2, PasswordMail DEF timers
<1>3. CASE TermioSteps
  BY <1>3 DEF TermioSteps, SizeCallback, HandleResize, CoalesceFires, HandleSync,
     SyncResetFires, Drag, HandleScroll, Other
<1>4. CASE Renderer
  BY <1>4, LoopMail DEF Renderer, timers, Others, Other
<1>5. CASE (OcclusionCallback \/ UpdateConfig \/ EndDrain \/ SystemSteps) /\ UNCHANGED timers
  BY <1>5 DEF OcclusionCallback, UpdateConfig, EndDrain, SystemSteps, ToggleGlobal,
     ChangeActive, Notified, shared, Others, timers, Other
<1>6. CASE HandleOther \/ ResetBinding
  <2>1. CASE HandleOther
    BY <2>1 DEF HandleOther, TakeApp, timers, Other
  <2>2. CASE ResetBinding
    BY <2>2 DEF ResetBinding, timers, Other
  <2>3. QED
    BY <1>6, <2>1, <2>2
<1>7. CASE Parser
  <2>1. <<"other", TRUE>> \in AppMessages /\ <<"other", TRUE>>[1] # "tick"
    BY DEF AppMessages
  <2>2. Other(appq, appq', AppMessages, "tick")
    BY <1>7, <2>1 DEF Parser, BeginBatch, LetGo, TakeBack, EndBatch, Other
  <2>3. QED
    BY <1>7, <2>2 DEF Parser, BeginBatch, LetGo, TakeBack, EndBatch, timers
<1>8. CASE \/ \E v \in BOOLEAN : FocusCallback(v)
           \/ \E s \in Sizes : ResizeRenderer(s)
  BY <1>8 DEF FocusCallback, ResizeRenderer, HandleScreenSize, Take, Others, timers, Other
<1>9. QED
  BY <1>1, <1>2, <1>3, <1>4, <1>5, <1>6, <1>7, <1>8 DEF Next, Surface

(* A tick says what is wanted of the timer. *)
LEMMA TickSent ==
    ASSUME scroll_active \in BOOLEAN
    PROVE  <<"tick", scroll_active>> \in AppMessages
  BY DEF AppMessages

(* What main is sent is one of its messages.                               *)
LEMMA AppTyped ==
    ASSUME Mail, [Next]_vars
    PROVE  appq' \in Seq(AppMessages)
<1>1. CASE ScrollFires
  <2>1. Append(appq, <<"tick", scroll_active>>) \in Seq(AppMessages)
    BY TickSent DEF Mail
  <2>2. QED
    BY <1>1, <2>1 DEF ScrollFires, Mail
<1>2. ASSUME NEW v \in BOOLEAN, HandleTick(v) PROVE appq' \in Seq(AppMessages)
  BY <1>2 DEF HandleTick, TakeApp, Mail
<1>3. CASE Other(appq, appq', AppMessages, "tick")
  BY <1>3, OtherTyped DEF Mail
<1>4. QED
  BY <1>1, <1>2, <1>3, TickCases

(* What is sent to the IO thread and to the renderer about the size.       *)
LEMMA IoTyped ==
    ASSUME Mail, SizesInv, [Next]_vars
    PROVE  ioq' \in Seq(IoMessages) /\ rq' \in Seq(RendererMessages)
<1>1. CASE SizesApart
  BY <1>1, OtherTyped DEF SizesApart, IoApart, Mail
<1>2. \A s \in Sizes : <<"resize", s>> \in IoMessages /\ <<"resize", s>> \in RendererMessages
  BY DEF IoMessages, RendererMessages
<1>3. ASSUME NEW s \in Sizes, SizeCallback(s) \/ HandleResize(s) \/ ResizeRenderer(s)
      PROVE  ioq' \in Seq(IoMessages) /\ rq' \in Seq(RendererMessages)
  <2>1. CASE SizeCallback(s)
    <3>1. (ioq' = ioq \/ ioq' = Append(ioq, <<"resize", s>>)) /\ rq' = rq
      BY <2>1 DEF SizeCallback, SendIo, Pushed
    <3>2. Append(ioq, <<"resize", s>>) \in Seq(IoMessages)
      BY <1>2 DEF Mail
    <3>3. QED
      BY <3>1, <3>2 DEF Mail
  <2>2. CASE HandleResize(s)
    <3>1. ioq # <<>> /\ ioq' = Tail(ioq) /\ rq' = rq
      BY <2>2 DEF HandleResize, TakeIo
    <3>2. QED
      BY <3>1 DEF Mail
  <2>3. CASE ResizeRenderer(s)
    <3>1. ioq' = ioq /\ rq # <<>> /\ rq' = Tail(rq)
      BY <2>3 DEF ResizeRenderer, HandleScreenSize, Take, Others
    <3>2. QED
      BY <3>1 DEF Mail
  <2>4. QED
    BY <1>3, <2>1, <2>2, <2>3
<1>4. CASE CoalesceFires
  <2>1. resize_data \in Sizes
    BY <1>4 DEF CoalesceFires, SizesInv
  <2>2. Append(rq, <<"resize", resize_data>>) \in Seq(RendererMessages)
    BY <1>2, <2>1 DEF Mail
  <2>3. ioq' = ioq /\ (rq' = rq \/ rq' = Append(rq, <<"resize", resize_data>>))
    BY <1>4 DEF CoalesceFires, ResizeAll, ResizeFails, SendRenderer, Pushed
  <2>4. QED
    BY <2>2, <2>3 DEF Mail
<1>5. QED
  BY <1>1, <1>3, <1>4, SizesCases

(* The flags that messages are made of.                                    *)
LEMMA FlagsTyped ==
    ASSUME Mail, [Next]_vars
    PROVE  visible' \in BOOLEAN /\ scrollback_compression' \in BOOLEAN
           /\ scroll_active' \in BOOLEAN /\ term_focused' \in BOOLEAN
<1>1. UNCHANGED scroll_active \/ \E v \in BOOLEAN : HandleScroll(v)
  BY TickCases DEF scrolling, ScrollFires, HandleTick, Drag
<1>2. scroll_active' \in BOOLEAN
  BY <1>1 DEF HandleScroll, Mail
<1>3. UNCHANGED visible \/ visible' = ~visible
  BY DEF Next, Surface, vars, rendering, OcclusionCallback, UpdateConfig, Renderer, Parser,
     BeginBatch, LetGo, TakeBack, EndBatch, FocusCallback, ResizeRenderer, HandleOther,
     ResetBinding
<1>4. UNCHANGED scrollback_compression \/ scrollback_compression' = ~scrollback_compression
  BY DEF Next, Surface, vars, rendering, OcclusionCallback, UpdateConfig, Renderer, Parser,
     BeginBatch, LetGo, TakeBack, EndBatch, FocusCallback, ResizeRenderer, HandleOther,
     ResetBinding
<1>5. UNCHANGED term_focused \/ term_focused' \in BOOLEAN
  BY DEF Next, Surface, vars, output, Renderer, Parser, BeginBatch, LetGo, TakeBack,
     EndBatch, FullReset, FocusCallback, ResizeRenderer, HandleOther, ResetBinding
<1>6. QED
  BY <1>2, <1>3, <1>4, <1>5 DEF Mail

(* Every step leaves messages in the mailboxes.                            *)
LEMMA MailStep == Mail /\ SizesInv /\ [Next]_vars => Mail'
  BY AppTyped, IoTyped, FlagsTyped DEF Mail

(* The last size of the surface arrives at the tty, the terminal and the   *)
(* renderer.                                                               *)
THEOREM LastSizeArrives == Spec => []LastSizeApplied
<1>1. Mail /\ SizesInv => LastSizeApplied
  BY DEF SizesInv, LastSizeApplied, Tracks, NoneOf, Carries
<1>2. QED
  BY <1>1, SizesInit, SizesStep, MailStep, PTL DEF Spec

-----------------------------------------------------------------------------
(* The selection scrolls *)

(* Once the timer is dead, its last tick has said so.                      *)
ScrollInv == lost \/ scroll \/ Tracks(appq, "tick", FALSE, selection_scroll_active)

(* At first nothing scrolls and nothing is believed to.                    *)
LEMMA ScrollInit == Init => ScrollInv
<1> SUFFICES ASSUME Init PROVE ScrollInv
  OBVIOUS
<1>1. NoneOf(appq, "tick") /\ selection_scroll_active = FALSE
  BY DEF Init, SharedInit, TermioInit, NoneOf
<1>2. QED
  BY <1>1 DEF ScrollInv, Tracks

(* Every step keeps what the surface believes of the scrolling.            *)
LEMMA ScrollStep ==
    ASSUME Mail, ScrollInv, [Next]_vars
    PROVE  ScrollInv'
<1>1. CASE ScrollFires
  <2>1. CASE scroll_active
    BY <1>1, <2>1 DEF ScrollFires, ScrollInv
  <2>2. CASE ~scroll_active
    <3>1. scroll_active = FALSE
      BY <2>2 DEF Mail
    <3>2. appq' = Append(appq, <<"tick", FALSE>>)
            => Tracks(appq', "tick", FALSE, selection_scroll_active)
      <4>1. appq \in Seq(AppMessages)
        BY DEF Mail
      <4>2. QED
        BY <4>1, TracksSent
    <3>3. QED
      BY <1>1, <3>1, <3>2 DEF ScrollFires, ScrollInv
  <2>3. QED
    BY <2>1, <2>2
<1>2. ASSUME NEW v \in BOOLEAN, HandleTick(v) PROVE ScrollInv'
  <2>1. /\ appq # <<>> /\ Head(appq) = <<"tick", v>> /\ appq' = Tail(appq)
        /\ selection_scroll_active' = v /\ UNCHANGED <<lost, scroll>>
    BY <1>2 DEF HandleTick, TakeApp
  <2>2. Tracks(appq, "tick", FALSE, selection_scroll_active) => Tracks(appq', "tick", FALSE, v)
    BY <2>1, TracksTaken DEF Mail
  <2>3. QED
    BY <2>1, <2>2 DEF ScrollInv
<1>3. CASE /\ Other(appq, appq', AppMessages, "tick")
           /\ \/ UNCHANGED scrolling
              \/ \E v \in BOOLEAN : Drag(v) \/ HandleScroll(v)
  <2>1. Tracks(appq, "tick", FALSE, selection_scroll_active)
          => Tracks(appq', "tick", FALSE, selection_scroll_active)
    BY <1>3, TracksKept DEF Mail
  <2>2. UNCHANGED <<selection_scroll_active, lost>>
    BY <1>3 DEF scrolling, Drag, HandleScroll
  <2>3. UNCHANGED scroll \/ \E v \in BOOLEAN : scroll' = (scroll \/ v)
    BY <1>3 DEF scrolling, Drag, HandleScroll
  <2>4. scroll => scroll'
    BY <2>3, Zenon
  <2>5. QED
    BY <2>1, <2>2, <2>4 DEF ScrollInv
<1>4. QED
  BY <1>1, <1>2, <1>3, TickCases

(* A surface that believes the selection scrolls is ticked, or told that   *)
(* it has stopped.                                                         *)
THEOREM ScrollIsAgreedOn == Spec => []ScrollAgrees
<1>1. Mail /\ ScrollInv => ScrollAgrees
  BY DEF Mail, ScrollInv, ScrollAgrees, Tracks, NoneOf, Holds
<1>2. QED
  BY <1>1, SizesInit, SizesStep, MailStep, ScrollInit, ScrollStep, PTL DEF Spec

-----------------------------------------------------------------------------
(* Steps that are not about the poll or about secure input *)

PasswordApart ==
    /\ UNCHANGED <<focused, poll, termios_mode, termios_timer, running,
                   password_input, scoped, global, enabled, active, told, closed,
                   disturbed>>
    /\ IoApart("focused") \/ \E v \in BOOLEAN : SendFocus(v)
    /\ Other(appq, appq', AppMessages, "password")

(* The timers of the IO thread send and take messages of their own.        *)
LEMMA TermioApart ==
    ASSUME Mail, TermioSteps, UNCHANGED password
    PROVE  PasswordApart
<1> USE DEF PasswordApart, IoApart, Other
<1>0. UNCHANGED <<termios_mode, termios_timer, running, password_input, scoped, global,
                  enabled, active, told, closed, disturbed>>
  BY DEF password, polling, secure, system
<1>1. ASSUME NEW s \in Sizes, SizeCallback(s) PROVE PasswordApart
  <2>1. <<"resize", s>> \in IoMessages /\ <<"resize", s>>[1] # "focused"
    BY DEF IoMessages
  <2>2. QED
    BY <1>0, <1>1, <2>1, SentApart DEF SizeCallback
<1>2. ASSUME NEW s \in Sizes, HandleResize(s) PROVE PasswordApart
  BY <1>0, <1>2 DEF HandleResize, TakeIo
<1>3. CASE CoalesceFires \/ HandleSync \/ SyncResetFires
  BY <1>0, <1>3 DEF CoalesceFires, HandleSync, SyncResetFires, TakeIo
<1>4. CASE ScrollFires
  <2>1. <<"tick", scroll_active>> \in AppMessages /\ <<"tick", scroll_active>>[1] # "password"
    BY TickSent DEF Mail
  <2>2. Other(appq, appq', AppMessages, "password")
    BY <1>4, <2>1 DEF ScrollFires
  <2>3. QED
    BY <1>0, <1>4, <2>2 DEF ScrollFires
<1>5. <<"scroll", FALSE>> \in IoMessages /\ <<"scroll", FALSE>>[1] # "focused"
  BY DEF IoMessages
<1>6. ASSUME NEW v \in BOOLEAN, Drag(v) PROVE PasswordApart
  <2>1. <<"scroll", v>> \in IoMessages /\ <<"scroll", v>>[1] # "focused"
    BY DEF IoMessages
  <2>2. QED
    BY <1>0, <1>6, <2>1, SentApart DEF Drag
<1>7. ASSUME NEW v \in BOOLEAN, HandleScroll(v) PROVE PasswordApart
  BY <1>0, <1>7 DEF HandleScroll, TakeIo
<1>8. ASSUME NEW v \in BOOLEAN, HandleTick(v) PROVE PasswordApart
  <2>1. IoApart("focused")
    BY <1>5, <1>8, SentApart DEF HandleTick
  <2>2. Other(appq, appq', AppMessages, "password")
    BY <1>8 DEF HandleTick, TakeApp
  <2>3. QED
    BY <1>0, <1>8, <2>1, <2>2 DEF HandleTick
<1>9. QED
  BY <1>1, <1>2, <1>3, <1>4, <1>6, <1>7, <1>8 DEF TermioSteps

(* Neither does the renderer, nor what main sends it.                      *)
LEMMA RenderingApart ==
    ASSUME Mail, UNCHANGED password,
           \/ LoopSteps \/ OcclusionCallback \/ UpdateConfig
           \/ EndDrain \/ BeginBatch \/ LetGo \/ TakeBack \/ HandleOther
           \/ \E s \in Sizes : ResizeRenderer(s)
    PROVE  PasswordApart
<1> USE DEF PasswordApart, IoApart, Other
<1>0. UNCHANGED <<termios_mode, termios_timer, running, password_input, scoped, global,
                  enabled, active, told, closed, disturbed>>
  BY DEF password, polling, secure, system
<1>1. CASE LoopSteps
  BY <1>0, <1>1, LoopMail DEF Others
<1>2. CASE OcclusionCallback \/ UpdateConfig \/ EndDrain \/ BeginBatch \/ LetGo
  BY <1>0, <1>2 DEF OcclusionCallback, UpdateConfig, EndDrain, BeginBatch, LetGo, Others
<1>3. CASE TakeBack \/ HandleOther
  <2>1. <<"other", TRUE>> \in AppMessages /\ <<"other", TRUE>>[1] # "password"
    BY DEF AppMessages
  <2>2. Other(appq, appq', AppMessages, "password")
    <3>1. CASE TakeBack
      <4>1. UNCHANGED appq \/ appq' = Pushed(appq, AppCap, <<"other", TRUE>>)
        BY <3>1 DEF TakeBack
      <4>2. QED
        BY <2>1, <4>1 DEF Pushed
    <3>2. CASE HandleOther
      BY <3>2 DEF HandleOther, TakeApp
    <3>3. QED
      BY <1>3, <3>1, <3>2
  <2>3. <<"sync">> \in IoMessages /\ <<"sync">>[1] # "focused"
    BY DEF IoMessages
  <2>4. IoApart("focused") \/ \E v \in BOOLEAN : SendFocus(v)
    BY <1>3, <2>3, ParserSends, SentApart DEF HandleOther
  <2>5. QED
    BY <1>0, <1>3, <2>2, <2>4 DEF TakeBack, HandleOther
<1>4. CASE \E s \in Sizes : ResizeRenderer(s)
  BY <1>0, <1>4 DEF ResizeRenderer, HandleScreenSize, Take, Others
<1>5. QED
  BY <1>1, <1>2, <1>3, <1>4

(* A step is about the poll, the view and the system, or it is not.        *)
LEMMA PasswordCases ==
    ASSUME Mail, [Next]_vars
    PROVE  \/ PasswordApart
           \/ ~closed /\ PasswordSteps
           \/ SystemSteps
           \/ ~closed /\ (EndBatch \/ ResetBinding)
           \/ ~closed /\ \E v \in BOOLEAN : FocusCallback(v)
<1>1. CASE UNCHANGED vars
  BY <1>1 DEF vars, shared, password, polling, secure, system, PasswordApart, IoApart,
     Other
<1>2. CASE SystemSteps
  BY <1>2
<1>3. CASE ~closed /\ Surface
  <2>1. CASE TermioSteps /\ UNCHANGED password
    BY <2>1, TermioApart
  <2>2. CASE (OcclusionCallback \/ UpdateConfig \/ EndDrain) /\ UNCHANGED password
    BY <2>2, RenderingApart
  <2>3. CASE Renderer
    BY <2>3, RenderingApart DEF Renderer
  <2>4. CASE BeginBatch \/ LetGo \/ TakeBack \/ HandleOther
    <3>1. UNCHANGED password
      BY <2>4 DEF BeginBatch, LetGo, TakeBack, HandleOther
    <3>2. QED
      BY <2>4, <3>1, RenderingApart
  <2>5. CASE \E s \in Sizes : ResizeRenderer(s)
    <3>1. UNCHANGED password
      BY <2>5 DEF ResizeRenderer
    <3>2. QED
      BY <2>5, <3>1, RenderingApart
  <2>6. QED
    BY <1>3, <2>1, <2>2, <2>3, <2>4, <2>5 DEF Surface, Parser
<1>4. QED
  BY <1>1, <1>2, <1>3 DEF Next

-----------------------------------------------------------------------------
(* Polling *)

(* The IO thread's idea of the focus follows the last message about it,    *)
(* unless that was refused or tells an old focus, and a poll that is to    *)
(* run has its timer, or is waiting to set it.                             *)
FocusHeard == "focused" \in missed \/ Tracks(ioq, "focused", focused, running)

PollInv ==
    /\ FocusHeard
    /\ running => termios_timer \/ poll # "idle"

(* At first the surface has the focus and is polled.                       *)
LEMMA PollInit == Init => PollInv
<1> SUFFICES ASSUME Init PROVE PollInv
  OBVIOUS
<1>1. ioq = <<>> /\ focused = TRUE /\ running = TRUE /\ termios_timer = TRUE
  BY DEF Init, SharedInit, PasswordInit
<1>2. NoneOf(ioq, "focused")
  BY <1>1 DEF NoneOf
<1>3. QED
  BY <1>1, <1>2 DEF PollInv, FocusHeard, Tracks

(* A poll leaves its timer set as wanted, or waits for room.               *)
LEMMA PollSets ==
    ASSUME NEW mode, Poll(mode)
    PROVE  termios_timer' = running' \/ poll' # "idle"
  BY DEF Poll, Repeat

(* What others send leaves it so, the parser's focus included.             *)
LEMMA FocusKept ==
    ASSUME Mail, FocusHeard, UNCHANGED <<focused, running>>,
           IoApart("focused") \/ \E v \in BOOLEAN : SendFocus(v)
    PROVE  FocusHeard'
<1>1. CASE IoApart("focused")
  BY <1>1, TracksKept DEF IoApart, FocusHeard, Mail
<1>2. ASSUME NEW v \in BOOLEAN, SendFocus(v) PROVE FocusHeard'
  <2>1. CASE ~Room(ioq, IoCap)
    BY <1>2, <2>1 DEF SendFocus, Pushed, FocusHeard
  <2>2. CASE Room(ioq, IoCap) /\ v = focused
    <3>1. ioq' = Append(ioq, <<"focused", focused>>)
      BY <1>2, <2>2 DEF SendFocus, Pushed
    <3>2. QED
      BY <3>1, TracksSent DEF FocusHeard, Mail
  <2>3. CASE Room(ioq, IoCap) /\ v # focused
    BY <1>2, <2>3 DEF SendFocus, FocusHeard
  <2>4. QED
    BY <2>1, <2>2, <2>3
<1>3. QED
  BY <1>1, <1>2

(* Every step keeps the poll in step with the focus.                       *)
LEMMA PollStep ==
    ASSUME Mail, PollInv, [Next]_vars
    PROVE  PollInv'
<1>1. CASE PasswordApart
  BY <1>1, FocusKept DEF PasswordApart, PollInv
<1>2. CASE PasswordSteps
  <2>1. CASE TermiosFires
    <3>1. UNCHANGED <<io, focused, running>> /\ (termios_timer' = running' \/ poll' # "idle")
      BY <2>1, PollSets DEF TermiosFires, PollTty
    <3>2. QED
      BY <3>1 DEF PollInv, FocusHeard
  <2>2. CASE ResumePoll
    BY <2>2 DEF ResumePoll, Repeat, PollInv, FocusHeard
  <2>3. ASSUME NEW v \in BOOLEAN, FocusGained(v) PROVE PollInv'
    <3>1. FocusHeard'
      <4>1. ioq # <<>> /\ ioq' = Tail(ioq) /\ Head(ioq) = <<"focused", v>>
            /\ UNCHANGED <<missed, focused>> /\ running' = v
        BY <2>3 DEF FocusGained, TakeIo
      <4>2. QED
        BY <4>1, TracksTaken DEF PollInv, FocusHeard, Mail
    <3>2. ASSUME v PROVE termios_timer' \/ poll' # "idle"
      <4>1. CASE termios_timer
        BY <2>3, <3>2, <4>1 DEF FocusGained
      <4>2. CASE ~termios_timer
        <5>1. \E mode : Poll(mode)
          BY <2>3, <3>2, <4>2 DEF FocusGained, PollTty
        <5>2. running' = v
          BY <2>3 DEF FocusGained
        <5>3. QED
          BY <3>2, <5>1, <5>2, PollSets
      <4>3. QED
        BY <4>1, <4>2
    <3>3. QED
      BY <2>3, <3>1, <3>2 DEF FocusGained, PollInv
  <2>4. ASSUME NEW v \in BOOLEAN, HandlePassword(v) PROVE PollInv'
    BY <2>4 DEF HandlePassword, PollInv, FocusHeard, polling
  <2>5. CASE ToggleSurface \/ CloseView \/ \E m \in Modes : SetTty(m)
    BY <2>5 DEF ToggleSurface, CloseView, SetTty, PollInv, FocusHeard, polling
  <2>6. QED
    BY <1>2, <2>1, <2>2, <2>3, <2>4, <2>5 DEF PasswordSteps
<1>3. CASE SystemSteps
  BY <1>3 DEF SystemSteps, ToggleGlobal, ChangeActive, Notified, shared, PollInv, FocusHeard,
     polling
<1>4. CASE EndBatch \/ ResetBinding
  <2>1. <<"sync">> \in IoMessages /\ <<"sync">>[1] # "focused"
    BY DEF IoMessages
  <2>2. IoApart("focused") \/ \E v \in BOOLEAN : SendFocus(v)
    BY <1>4, <2>1, ParserSends, SentApart DEF ResetBinding, IoApart, Other
  <2>3. UNCHANGED <<focused, running, termios_timer, poll>>
    BY <1>4 DEF EndBatch, ResetBinding, polling
  <2>4. QED
    BY <2>2, <2>3, FocusKept DEF PollInv
<1>5. ASSUME NEW v \in BOOLEAN, FocusCallback(v) PROVE PollInv'
  <2>1. FocusHeard'
    <3>1. CASE Room(ioq, IoCap)
      <4>1. ioq' = Append(ioq, <<"focused", v>>) /\ focused' = v
        BY <1>5, <3>1 DEF FocusCallback, SendIo, Pushed
      <4>2. QED
        BY <4>1, TracksSent DEF FocusHeard, Mail
    <3>2. CASE ~Room(ioq, IoCap)
      BY <1>5, <3>2 DEF FocusCallback, SendIo, Kept, FocusHeard
    <3>3. QED
      BY <3>1, <3>2
  <2>2. QED
    BY <1>5, <2>1 DEF FocusCallback, polling, PollInv
<1>6. QED
  BY <1>1, <1>2, <1>3, <1>4, <1>5, PasswordCases

(* The tty is polled while the surface has the focus and not otherwise.    *)
THEOREM PollFollowsFocus == Spec => []PollingWhileFocused
<1>1. PollInv => PollingWhileFocused
  BY DEF PollInv, FocusHeard, PollingWhileFocused, Tracks
<1>2. QED
  BY <1>1, SizesInit, SizesStep, MailStep, PollInit, PollStep, PTL DEF Spec

-----------------------------------------------------------------------------
(* Types *)

PollTyped == focused \in BOOLEAN /\ poll \in {"idle", "on", "off"} /\ PasswordTypeOK

(* At first the values are of their types.                                 *)
LEMMA PasswordInitTyped == Init => PollTyped
  BY DEF Init, SharedInit, PasswordInit, PollTyped, PasswordTypeOK, Modes

(* A poll sees one of the modes.                                           *)
LEMMA PollSees ==
    ASSUME PollTyped, PollTty, poll = "idle", running' \in BOOLEAN
    PROVE  /\ termios_mode' \in Modes /\ poll' \in {"idle", "on", "off"}
           /\ termios_timer' \in BOOLEAN /\ disturbed' \in BOOLEAN
<1>1. PICK mode \in Modes : Poll(mode)
  BY DEF PollTty, PollTyped, PasswordTypeOK, Modes
<1>2. disturbed' \in BOOLEAN
  <2>1. (disturbed \/ Holds(appq, Announcement(~(mode = "password")))) \in BOOLEAN
    OBVIOUS
  <2>2. UNCHANGED disturbed \/ disturbed' = (disturbed \/ Holds(appq, Announcement(~(mode = "password"))))
    BY <1>1 DEF Poll
  <2>3. QED
    BY <2>1, <2>2 DEF PollTyped, PasswordTypeOK
<1>3. QED
  BY <1>1, <1>2 DEF Poll, Repeat, PollTyped, PasswordTypeOK

(* Applying leaves what the application believes typed.                    *)
LEMMA ApplyTyped ==
    ASSUME Apply, global' \in BOOLEAN, enabled \in BOOLEAN, disturbed \in BOOLEAN
    PROVE  enabled' \in BOOLEAN /\ disturbed' \in BOOLEAN
<1>1. (global' \/ scoped' = "focused") \in BOOLEAN
  OBVIOUS
<1>2. QED
  BY <1>1 DEF Apply

(* Every step keeps the types.                                             *)
LEMMA PasswordStepTyped ==
    ASSUME Mail, PollTyped, [Next]_vars
    PROVE  PollTyped'
<1> USE DEF PollTyped, PasswordTypeOK
<1>0. tty' \in Modes
  <2>1. UNCHANGED tty \/ \E m \in Modes : tty' = m
    BY DEF Next, Surface, vars, password, PasswordSteps, TermiosFires, ResumePoll,
       FocusGained, HandlePassword, ToggleSurface, CloseView, SetTty, SystemSteps,
       ToggleGlobal, ChangeActive, Notified, Renderer, Parser, BeginBatch, LetGo,
       TakeBack, EndBatch, FocusCallback, ResizeRenderer, HandleOther, ResetBinding
  <2>2. QED
    BY <2>1
<1>1. CASE PasswordApart
  BY <1>0, <1>1 DEF PasswordApart
<1>2. CASE PasswordSteps
  <2>1. CASE TermiosFires
    <3>1. running' \in BOOLEAN /\ poll = "idle" /\ PollTty
      BY <2>1 DEF TermiosFires, IoIdle
    <3>2. QED
      BY <1>0, <2>1, <3>1, PollSees DEF TermiosFires, secure, system
  <2>2. CASE ResumePoll
    BY <1>0, <2>2 DEF ResumePoll, Repeat, secure, system
  <2>3. ASSUME NEW v \in BOOLEAN, FocusGained(v) PROVE PollTyped'
    <3>1. running' \in BOOLEAN /\ poll = "idle"
      BY <2>3 DEF FocusGained, TakeIo
    <3>2. CASE PollTty
      BY <1>0, <2>3, <3>1, <3>2, PollSees DEF FocusGained, secure, system
    <3>3. CASE UNCHANGED <<termios_mode, termios_timer, appq, poll, disturbed, events>>
      BY <1>0, <2>3, <3>1, <3>3 DEF FocusGained, secure, system
    <3>4. QED
      BY <2>3, <3>2, <3>3 DEF FocusGained
  <2>4. ASSUME NEW v \in BOOLEAN, HandlePassword(v) PROVE PollTyped'
    <3>1. UNCHANGED <<focused, poll, termios_mode, termios_timer, running, global,
                      active, told, closed>>
      BY <2>4 DEF HandlePassword, polling, system, secure
    <3>2. CASE UNCHANGED <<password_input, secure, disturbed>>
      BY <1>0, <3>1, <3>2 DEF secure
    <3>3. CASE password_input' = v /\ scoped' = (IF v THEN Scope(focused) ELSE "absent") /\ Apply
      BY <1>0, <3>1, <3>3, ApplyTyped DEF Scope
    <3>4. QED
      BY <2>4, <3>2, <3>3 DEF HandlePassword
  <2>5. CASE ToggleSurface
    <3>1. (global \/ scoped' = "focused") \in BOOLEAN
      OBVIOUS
    <3>2. enabled' \in BOOLEAN
      BY <2>5, <3>1 DEF ToggleSurface
    <3>3. QED
      BY <1>0, <2>5, <3>2 DEF ToggleSurface, Scope, polling, system
  <2>6. CASE CloseView
    BY <1>0, <2>6, ApplyTyped DEF CloseView, polling
  <2>7. CASE \E m \in Modes : SetTty(m)
    BY <1>0, <2>7 DEF SetTty, polling, secure, system
  <2>8. QED
    BY <1>2, <2>1, <2>2, <2>3, <2>4, <2>5, <2>6, <2>7 DEF PasswordSteps
<1>3. CASE SystemSteps
  <2>1. CASE ToggleGlobal
    <3>1. global' \in BOOLEAN
      <4>1. (~global) \in BOOLEAN
        OBVIOUS
      <4>2. QED
        BY <2>1, <4>1 DEF ToggleGlobal
    <3>2. QED
      BY <1>0, <2>1, <3>1, ApplyTyped DEF ToggleGlobal, polling, system
  <2>2. CASE ChangeActive
    <3>1. (~active) \in BOOLEAN
      OBVIOUS
    <3>2. QED
      BY <1>0, <2>2, <3>1 DEF ChangeActive, polling, secure
  <2>3. CASE Notified
    <3>1. (active /\ (global \/ scoped = "focused")) \in BOOLEAN
      OBVIOUS
    <3>2. enabled' \in BOOLEAN /\ disturbed' \in BOOLEAN
      BY <2>3, <3>1 DEF Notified
    <3>3. QED
      BY <1>0, <2>3, <3>2 DEF Notified, shared, polling
  <2>4. QED
    BY <1>3, <2>1, <2>2, <2>3 DEF SystemSteps
<1>4. CASE EndBatch \/ ResetBinding
  <2>1. (disturbed \/ password_input) \in BOOLEAN
    OBVIOUS
  <2>2. password_input' \in BOOLEAN /\ disturbed' \in BOOLEAN
    BY <1>4, <2>1 DEF EndBatch, ResetBinding, FullReset, ResetFlag
  <2>3. QED
    BY <1>0, <1>4, <2>2 DEF EndBatch, ResetBinding, polling, secure, system
<1>5. ASSUME NEW v \in BOOLEAN, FocusCallback(v) PROVE PollTyped'
  <2>1. /\ focused' \in BOOLEAN
        /\ UNCHANGED <<poll, termios_mode, termios_timer, running, password_input,
                       active, told, closed, global>>
    BY <1>5 DEF FocusCallback, FocusView, polling, system
  <2>2. scoped' \in {"absent", "unfocused", "focused"}
    BY <1>5 DEF FocusCallback, FocusView, Scope
  <2>3. enabled' \in BOOLEAN /\ disturbed' \in BOOLEAN
    BY <1>5, <2>1, ApplyTyped DEF FocusCallback, FocusView
  <2>4. QED
    BY <1>0, <2>1, <2>2, <2>3
<1>6. QED
  BY <1>1, <1>2, <1>3, <1>4, <1>5, PasswordCases

-----------------------------------------------------------------------------
(* The flag of the terminal follows the poll *)

(* The last announcement on its way is what the poll last saw, or it is    *)
(* the blocked push.                                                       *)
FlagFollows ==
    IF poll = "idle" THEN Tracks(appq, "password", termios_mode = "password", password_input)
    ELSE (poll = "on") = (termios_mode = "password")

AnnouncedInv == disturbed \/ FlagFollows

(* What has disturbed secure input is remembered.                          *)
LEMMA DisturbedStays ==
    ASSUME Mail, disturbed, [Next]_vars
    PROVE  disturbed'
<1>1. CASE PasswordApart
  BY <1>1 DEF PasswordApart
<1>2. ASSUME NEW mode, Poll(mode) PROVE disturbed'
  BY <1>2 DEF Poll
<1>3. CASE PasswordSteps
  BY <1>2, <1>3 DEF PasswordSteps, TermiosFires, PollTty, ResumePoll, FocusGained,
     HandlePassword, Apply, ToggleSurface, CloseView, SetTty
<1>4. CASE SystemSteps
  BY <1>4 DEF SystemSteps, ToggleGlobal, ChangeActive, Notified, Apply
<1>5. CASE EndBatch \/ ResetBinding \/ \E v \in BOOLEAN : FocusCallback(v)
  BY <1>5 DEF EndBatch, ResetBinding, FullReset, ResetFlag, FocusCallback, FocusView, Apply
<1>6. QED
  BY <1>1, <1>3, <1>4, <1>5, PasswordCases

(* At first the poll and the flag agree.                                   *)
LEMMA AnnouncedInit == Init => AnnouncedInv
<1> SUFFICES ASSUME Init PROVE AnnouncedInv
  OBVIOUS
<1>1. appq = <<>> /\ poll = "idle" /\ termios_mode = "cooked" /\ password_input = FALSE
  BY DEF Init, SharedInit, PasswordInit
<1>2. NoneOf(appq, "password")
  BY <1>1 DEF NoneOf
<1>3. QED
  BY <1>1, <1>2 DEF AnnouncedInv, FlagFollows, Tracks

(* A poll announces what it sees, unless nothing says otherwise.           *)
LEMMA PollAnnounces ==
    ASSUME Mail, PollTyped, poll = "idle", FlagFollows, NEW mode \in Modes, Poll(mode),
           UNCHANGED password_input
    PROVE  AnnouncedInv'
<1> DEFINE on == mode = "password"
           old == termios_mode = "password"
<1>0. /\ on \in BOOLEAN /\ old \in BOOLEAN /\ password_input \in BOOLEAN
      /\ Tracks(appq, "password", old, password_input) /\ termios_mode' = mode
  BY DEF FlagFollows, Poll, PollTyped, PasswordTypeOK
<1>1. CASE mode = termios_mode /\ UNCHANGED <<appq, poll>>
  BY <1>0, <1>1 DEF AnnouncedInv, FlagFollows
<1>2. CASE /\ password_input = on /\ UNCHANGED <<appq, poll>>
           /\ disturbed' = (disturbed \/ Holds(appq, Announcement(~on)))
  <2>1. CASE Holds(appq, Announcement(~on))
    BY <1>2, <2>1 DEF AnnouncedInv
  <2>2. CASE ~Holds(appq, Announcement(~on))
    <3>1. CASE NoneOf(appq, "password")
      BY <1>0, <1>2, <3>1 DEF Tracks, AnnouncedInv, FlagFollows
    <3>2. CASE ~NoneOf(appq, "password")
      <4>1. PICK i \in DOMAIN appq : appq[i] = <<"password", old>>
        BY <1>0, <3>2 DEF Tracks
      <4>2. <<"password", old>> # Announcement(~on)
        BY <2>2, <4>1 DEF Holds
      <4>3. CASE old = on
        <5>1. Tracks(appq', "password", on, password_input')
          BY <1>0, <1>2, <4>3
        <5>2. poll' = "idle"
          BY <1>2
        <5>3. QED
          BY <1>0, <5>1, <5>2 DEF AnnouncedInv, FlagFollows
      <4>4. CASE old = (~on)
        BY <4>2, <4>4 DEF Announcement
      <4>5. QED
        BY <1>0, <4>3, <4>4
    <3>3. QED
      BY <3>1, <3>2
  <2>3. QED
    BY <2>1, <2>2
<1>3. CASE appq' = Append(appq, Announcement(on)) /\ UNCHANGED poll
  <2>1. Tracks(appq', "password", on, password_input)
    BY <1>3, TracksSent DEF Announcement, Mail
  <2>2. QED
    BY <1>0, <1>3, <2>1 DEF AnnouncedInv, FlagFollows
<1>4. CASE poll' = IF on THEN "on" ELSE "off"
  BY <1>0, <1>4 DEF AnnouncedInv, FlagFollows
<1>5. QED
  BY <1>1, <1>2, <1>3, <1>4 DEF Poll

(* Every step keeps the flag in step with the poll.                        *)
LEMMA AnnouncedStep ==
    ASSUME Mail, PollTyped, AnnouncedInv, [Next]_vars
    PROVE  AnnouncedInv'
<1>0. CASE disturbed
  BY <1>0, DisturbedStays DEF AnnouncedInv
<1> SUFFICES ASSUME FlagFollows PROVE AnnouncedInv'
  BY <1>0 DEF AnnouncedInv
<1>1. CASE PasswordApart
  BY <1>1, TracksKept DEF PasswordApart, AnnouncedInv, FlagFollows, Mail
<1>2. CASE PasswordSteps
  <2>1. CASE TermiosFires
    <3>1. poll = "idle" /\ PollTty /\ UNCHANGED password_input
      BY <2>1 DEF TermiosFires, IoIdle
    <3>2. QED
      BY <3>1, PollAnnounces DEF PollTty, PollTyped, PasswordTypeOK, Modes
  <2>2. CASE ResumePoll
    <3>1. CASE appq' = Append(appq, Announcement(poll = "on"))
      <4>1. Tracks(appq', "password", poll = "on", password_input)
        BY <3>1, TracksSent DEF Announcement, Mail
      <4>2. (poll = "on") = (termios_mode = "password")
        BY <2>2 DEF ResumePoll, FlagFollows
      <4>3. poll' = "idle" /\ UNCHANGED <<termios_mode, password_input>>
        BY <2>2 DEF ResumePoll
      <4>4. QED
        BY <4>1, <4>2, <4>3 DEF AnnouncedInv, FlagFollows
    <3>2. QED
      BY <2>2, <3>1 DEF ResumePoll, AnnouncedInv
  <2>3. ASSUME NEW v \in BOOLEAN, FocusGained(v) PROVE AnnouncedInv'
    <3>1. poll = "idle" /\ UNCHANGED password_input
      BY <2>3 DEF FocusGained, TakeIo
    <3>2. CASE PollTty
      BY <3>1, <3>2, PollAnnounces DEF PollTty, PollTyped, PasswordTypeOK, Modes
    <3>3. CASE UNCHANGED <<termios_mode, termios_timer, appq, poll, disturbed, events>>
      BY <3>1, <3>3 DEF AnnouncedInv, FlagFollows
    <3>4. QED
      BY <2>3, <3>2, <3>3 DEF FocusGained
  <2>4. ASSUME NEW v \in BOOLEAN, HandlePassword(v) PROVE AnnouncedInv'
    <3>1. /\ password_input' = v /\ UNCHANGED <<poll, termios_mode>>
          /\ appq # <<>> /\ Head(appq) = <<"password", v>> /\ appq' = Tail(appq)
      BY <2>4 DEF HandlePassword, TakeApp, Announcement, polling
    <3>2. CASE poll = "idle"
      <4>1. Tracks(appq', "password", termios_mode = "password", v)
        BY <3>1, <3>2, TracksTaken DEF FlagFollows, Mail
      <4>2. QED
        BY <3>1, <3>2, <4>1 DEF AnnouncedInv, FlagFollows
    <3>3. CASE poll # "idle"
      BY <3>1, <3>3 DEF AnnouncedInv, FlagFollows
    <3>4. QED
      BY <3>2, <3>3
  <2>5. CASE ToggleSurface \/ CloseView \/ \E m \in Modes : SetTty(m)
    BY <2>5 DEF ToggleSurface, CloseView, SetTty, polling, AnnouncedInv, FlagFollows
  <2>6. QED
    BY <1>2, <2>1, <2>2, <2>3, <2>4, <2>5 DEF PasswordSteps
<1>3. CASE SystemSteps
  BY <1>3 DEF SystemSteps, ToggleGlobal, ChangeActive, Notified, shared, polling,
     AnnouncedInv, FlagFollows
<1>4. CASE EndBatch \/ ResetBinding
  <2>1. CASE UNCHANGED password_input
    BY <1>4, <2>1 DEF EndBatch, ResetBinding, polling, AnnouncedInv, FlagFollows
  <2>2. CASE ResetFlag
    <3>1. CASE password_input
      BY <2>2, <3>1 DEF ResetFlag, AnnouncedInv
    <3>2. CASE password_input = FALSE
      BY <1>4, <2>2, <3>2 DEF ResetFlag, EndBatch, ResetBinding, polling, AnnouncedInv, FlagFollows
    <3>3. QED
      BY <3>1, <3>2 DEF PollTyped, PasswordTypeOK
  <2>3. QED
    BY <1>4, <2>1, <2>2 DEF EndBatch, ResetBinding, FullReset
<1>5. CASE \E v \in BOOLEAN : FocusCallback(v)
  BY <1>5 DEF FocusCallback, polling, AnnouncedInv, FlagFollows
<1>6. QED
  BY <1>1, <1>2, <1>3, <1>4, <1>5, PasswordCases

-----------------------------------------------------------------------------
(* The application's balance follows the flag *)

Desired == global \/ scoped = "focused"

(* The view's scope is what the flag and its focus make it, and once the   *)
(* application has been told whether it is active, secure input is on if   *)
(* it is wanted.  Told late, it may miss what is wanted, never keep what   *)
(* is not.                                                                 *)
ViewScoped == scoped = IF ~closed /\ password_input THEN Scope(focused) ELSE "absent"

Balanced ==
    IF told = active THEN enabled = (active /\ Desired)
    ELSE active /\ enabled => Desired

SecureInv == disturbed \/ (ViewScoped /\ Balanced)

(* At first secure input is off, and nobody wants it.                      *)
LEMMA SecureInit == Init => SecureInv
  BY DEF Init, PasswordInit, SecureInv, ViewScoped, Balanced, Desired

(* Applying balances.                                                      *)
LEMMA ApplyBalances ==
    ASSUME PollTyped, Apply, Balanced, UNCHANGED <<active, told>>, global' \in BOOLEAN
    PROVE  disturbed' \/ Balanced'
<1>1. (global' \/ scoped' = "focused") \in BOOLEAN
  OBVIOUS
<1>2. CASE active
  BY <1>1, <1>2 DEF Apply, Balanced, Desired, PollTyped, PasswordTypeOK
<1>3. CASE active = FALSE
  BY <1>1, <1>3 DEF Apply, Balanced, Desired, PollTyped, PasswordTypeOK
<1>4. QED
  BY <1>2, <1>3 DEF PollTyped, PasswordTypeOK

(* Every step keeps the scope and the balance.                             *)
LEMMA SecureStep ==
    ASSUME Mail, PollTyped, SecureInv, [Next]_vars
    PROVE  SecureInv'
<1>0. CASE disturbed
  BY <1>0, DisturbedStays DEF SecureInv
<1> SUFFICES ASSUME ViewScoped, Balanced PROVE SecureInv'
  BY <1>0 DEF SecureInv
<1>1. ASSUME UNCHANGED <<focused, password_input, scoped, global, enabled, active, told, closed>>
      PROVE  SecureInv'
  BY <1>1 DEF SecureInv, ViewScoped, Balanced, Desired
<1>2. CASE PasswordApart
  BY <1>1, <1>2 DEF PasswordApart
<1>3. CASE ~closed /\ PasswordSteps
  <2>1. CASE TermiosFires \/ ResumePoll \/ \E v \in BOOLEAN : FocusGained(v)
    BY <1>1, <2>1 DEF TermiosFires, ResumePoll, FocusGained, secure, system
  <2>2. ASSUME NEW v \in BOOLEAN, HandlePassword(v) PROVE SecureInv'
    <3>1. UNCHANGED <<focused, global, active, told, closed>> /\ closed = FALSE
      BY <1>3, <2>2 DEF HandlePassword, system, secure, PollTyped, PasswordTypeOK
    <3>2. CASE UNCHANGED <<password_input, secure, disturbed>>
      BY <1>1, <3>1, <3>2 DEF secure
    <3>3. CASE password_input' = v /\ scoped' = (IF v THEN Scope(focused) ELSE "absent") /\ Apply
      <4>1. ViewScoped'
        BY <3>1, <3>3 DEF ViewScoped
      <4>2. disturbed' \/ Balanced'
        BY <3>1, <3>3, ApplyBalances DEF PollTyped, PasswordTypeOK
      <4>3. QED
        BY <4>1, <4>2 DEF SecureInv
    <3>4. QED
      BY <2>2, <3>2, <3>3 DEF HandlePassword
  <2>3. CASE ToggleSurface
    BY <2>3 DEF ToggleSurface, SecureInv
  <2>4. CASE CloseView
    <3>1. ViewScoped'
      BY <2>4 DEF CloseView, ViewScoped
    <3>2. disturbed' \/ Balanced'
      BY <2>4, ApplyBalances DEF CloseView, PollTyped, PasswordTypeOK
    <3>3. QED
      BY <3>1, <3>2 DEF SecureInv
  <2>5. CASE \E m \in Modes : SetTty(m)
    BY <1>1, <2>5 DEF SetTty, secure, system
  <2>6. QED
    BY <1>3, <2>1, <2>2, <2>3, <2>4, <2>5 DEF PasswordSteps
<1>4. CASE SystemSteps
  <2>1. CASE ToggleGlobal
    <3>1. (~global) \in BOOLEAN
      OBVIOUS
    <3>2. disturbed' \/ Balanced'
      BY <2>1, <3>1, ApplyBalances DEF ToggleGlobal, system
    <3>3. ViewScoped'
      BY <2>1 DEF ToggleGlobal, system, ViewScoped
    <3>4. QED
      BY <3>2, <3>3 DEF SecureInv
  <2>2. CASE ChangeActive
    <3>1. UNCHANGED <<focused, password_input, scoped, global, enabled, told, closed>>
      BY <2>2 DEF ChangeActive, secure
    <3>2. told # active' /\ enabled = (active /\ Desired) /\ active' = ~active
      BY <2>2 DEF ChangeActive, Balanced, PollTyped, PasswordTypeOK
    <3>3. active' => ~enabled
      BY <3>2
    <3>4. Balanced'
      BY <3>1, <3>2, <3>3 DEF Balanced
    <3>5. QED
      BY <3>1, <3>4 DEF SecureInv, ViewScoped
  <2>3. CASE Notified
    <3>1. /\ UNCHANGED <<focused, password_input, scoped, global, active, closed>>
          /\ told # active /\ told' = active /\ (active /\ enabled => Desired)
      BY <2>3 DEF Notified, shared, Balanced
    <3>2. CASE active
      <4>1. disturbed' \/ enabled' = (IF ~enabled /\ Desired THEN Desired ELSE enabled)
        BY <2>3, <3>2 DEF Notified, Desired
      <4>2. Desired \in BOOLEAN /\ enabled \in BOOLEAN
        BY DEF Desired, PollTyped, PasswordTypeOK
      <4>3. disturbed' \/ enabled' = Desired
        BY <3>1, <3>2, <4>1, <4>2
      <4>4. disturbed' \/ Balanced'
        BY <3>1, <3>2, <4>3 DEF Balanced, Desired
      <4>5. QED
        BY <3>1, <4>4 DEF SecureInv, ViewScoped
    <3>3. CASE active = FALSE
      <4>1. disturbed' \/ enabled' = FALSE
        BY <2>3, <3>3 DEF Notified, PollTyped, PasswordTypeOK
      <4>2. disturbed' \/ Balanced'
        BY <3>1, <3>3, <4>1 DEF Balanced
      <4>3. QED
        BY <3>1, <4>2 DEF SecureInv, ViewScoped
    <3>4. QED
      BY <3>2, <3>3 DEF PollTyped, PasswordTypeOK
  <2>4. QED
    BY <1>4, <2>1, <2>2, <2>3 DEF SystemSteps
<1>5. CASE EndBatch \/ ResetBinding
  <2>1. UNCHANGED <<focused, scoped, global, enabled, active, told, closed>>
    BY <1>5 DEF EndBatch, ResetBinding, secure, system
  <2>2. UNCHANGED password_input \/ (password_input' = FALSE /\ disturbed' = (disturbed \/ password_input))
    BY <1>5 DEF EndBatch, ResetBinding, FullReset, ResetFlag
  <2>3. CASE UNCHANGED password_input
    BY <1>1, <2>1, <2>3
  <2>4. CASE password_input' = FALSE /\ disturbed' = (disturbed \/ password_input)
    <3>1. CASE password_input
      BY <2>4, <3>1 DEF SecureInv
    <3>2. CASE password_input = FALSE
      BY <1>1, <2>1, <2>4, <3>2
    <3>3. QED
      BY <3>1, <3>2 DEF PollTyped, PasswordTypeOK
  <2>5. QED
    BY <2>2, <2>3, <2>4
<1>6. ASSUME ~closed, NEW v \in BOOLEAN, FocusCallback(v) PROVE SecureInv'
  <2>1. /\ focused' = v /\ UNCHANGED <<password_input, active, told, closed, global>>
        /\ scoped' = IF scoped = "absent" THEN scoped ELSE Scope(v)
    BY <1>6 DEF FocusCallback, FocusView, system
  <2>2. ViewScoped'
    BY <1>6, <2>1 DEF ViewScoped, Scope
  <2>3. CASE scoped = "absent"
    <3>1. UNCHANGED <<scoped, enabled>>
      BY <1>6, <2>1, <2>3 DEF FocusCallback, FocusView
    <3>2. QED
      BY <2>1, <2>2, <3>1 DEF SecureInv, Balanced, Desired
  <2>4. CASE scoped # "absent"
    <3>1. disturbed' \/ Balanced'
      BY <1>6, <2>1, <2>4, ApplyBalances DEF FocusCallback, FocusView, PollTyped, PasswordTypeOK
    <3>2. QED
      BY <2>2, <3>1 DEF SecureInv
  <2>5. QED
    BY <2>3, <2>4
<1>7. QED
  BY <1>2, <1>3, <1>4, <1>5, <1>6, PasswordCases

(* Once everything has been heard of, secure input is on exactly if the    *)
(* active application wants it.                                            *)
THEOREM SecureInputIsRight == Spec => []SecureInputFollows
<1>1. PollTyped /\ AnnouncedInv /\ SecureInv => SecureInputFollows
  <2> SUFFICES ASSUME PollTyped, AnnouncedInv, SecureInv, ~disturbed, Settled
               PROVE  enabled = (active /\ (global \/ (~closed /\ focused /\ tty = "password")))
    BY DEF SecureInputFollows
  <2>1. enabled = (active /\ Desired) /\ ViewScoped
    BY DEF SecureInv, Balanced, Settled
  <2>2. CASE closed
    BY <2>1, <2>2 DEF ViewScoped, Desired
  <2>3. CASE ~closed
    <3>1. password_input = (tty = "password")
      BY <2>3 DEF Settled, AnnouncedInv, FlagFollows, Tracks
    <3>2. (scoped = "focused") = (focused /\ tty = "password")
      BY <2>1, <2>3, <3>1 DEF ViewScoped, Scope, PollTyped, PasswordTypeOK
    <3>3. QED
      BY <2>1, <2>3, <3>2 DEF Desired
  <2>4. QED
    BY <2>2, <2>3
<1>2. QED
  BY <1>1, SizesInit, SizesStep, MailStep, PasswordInitTyped, PasswordStepTyped,
     AnnouncedInit, AnnouncedStep, SecureInit, SecureStep, PTL DEF Spec

=============================================================================
