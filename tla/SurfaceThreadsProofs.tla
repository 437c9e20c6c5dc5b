------------------------ MODULE SurfaceThreadsProofs ------------------------
(***************************************************************************)
(* The threads of a surface for every capacity of the mailboxes, every set *)
(* of events and programs, and any number of each.                         *)
(***************************************************************************)
EXTENDS SurfaceThreads, TLAPS

Threaded == DOMAIN pc = Threads

(* Where a thread is while it holds the renderer state mutex. *)
LockPlace ==
    /\ lock \in {"free", "main", "reader", "writer"}
    /\ lock = "main" => pc["main"] \in {"send", "notify"}
    /\ lock = "reader" => pc["reader"] \in {"blink", "parse", "send", "post", "wakeApp"}
    /\ lock = "writer" => pc["writer"] \in {"send", "configured"}

(* The parser and the writer's handlers send with the mutex held, so they  *)
(* always give it up and take it back around a wait.                       *)
SendersLocked ==
    /\ pc["reader"] \in {"blink", "parse", "send", "post"} => lock = "reader"
    /\ pc["writer"] \in {"send", "configured"} => lock = "writer"
    /\ pc["reader"] # "room" /\ pc["writer"] # "room"

LockInv == Threaded /\ LockPlace /\ SendersLocked

-----------------------------------------------------------------------------
(* The mutex: a thread gives it up before it waits for room.               *)

LEMMA LockInit == Init => LockInv
  BY DEF Init, LockInv, Threaded, LockPlace, SendersLocked, Threads

LEMMA LockSend ==
    ASSUME LockInv, NEW t \in {"main", "reader", "writer"}, Send(t)
    PROVE  LockInv'
<1> USE DEF LockInv, Threaded, LockPlace, SendersLocked, Threads, At, Goto, Free, mail, wakes, locals,
            ending, bounds
<1>1. CASE SendFast(t)
  BY <1>1 DEF SendFast, Sent
<1>2. CASE SendFull(t)
  BY <1>2 DEF SendFull
<1>3. CASE SendSlow(t)
  BY <1>3 DEF SendSlow, Sent
<1>4. CASE Relock(t)
  BY <1>4 DEF Relock, Sent
<1>5. QED
  BY <1>1, <1>2, <1>3, <1>4 DEF Send

LEMMA LockStep == LockInv /\ [Next]_vars => LockInv'
<1> SUFFICES ASSUME LockInv, [Next]_vars PROVE LockInv'
  OBVIOUS
<1> USE DEF LockInv, Threaded, LockPlace, SendersLocked, Threads, At, Goto, Free, mail, wakes, locals,
            ending, bounds
<1>1. CASE UserEvent
  BY <1>1 DEF UserEvent, Event, KeyCallback, CursorPosCallback, SizeCallback,
     FocusCallback, UpdateConfig, Find, EndFind, Close
<1>2. CASE ProcessOutput
  BY <1>2 DEF ProcessOutput
<1>3. CASE Alarm
  BY <1>3 DEF Alarm
<1>4. CASE Main
  <2>1. CASE Send("main")
    BY <2>1, LockSend
  <2>2. CASE EncodeKey \/ MouseReport \/ PushFocus \/ WakeFocus \/ FlagFocus
    BY <2>2 DEF EncodeKey, MouseReport, PushFocus, WakeFocus, FlagFocus
  <2>3. CASE PushConfig \/ WakeConfig \/ PushFind \/ FallAsleep("main")
    BY <2>3 DEF PushConfig, WakeConfig, PushFind, FallAsleep
  <2>4. CASE Notify \/ Tick \/ HandleMessage \/ TickDone
    BY <2>4 DEF Notify, Tick, HandleMessage, TickDone
  <2>5. CASE JoinSearch \/ JoinRenderer \/ JoinWriter
    BY <2>5 DEF JoinSearch, JoinRenderer, JoinWriter
  <2>6. QED
    BY <1>4, <2>1, <2>2, <2>3, <2>4, <2>5 DEF Main
<1>5. CASE Parser
  <2>1. CASE Send("reader")
    BY <2>1, LockSend
  <2>2. CASE ResetCursorBlink \/ ParseQuery \/ ParseForSurface \/ FallAsleep("reader")
    BY <2>2 DEF ResetCursorBlink, ParseQuery, ParseForSurface, FallAsleep
  <2>3. CASE PostFast \/ PostFull \/ PostSlow \/ WakeApp \/ RelockPost
    BY <2>3 DEF PostFast, PostFull, PostSlow, WakeApp, RelockPost
  <2>4. CASE EndBatch \/ QuitReader
    BY <2>4 DEF EndBatch, QuitReader
  <2>5. QED
    BY <1>5, <2>1, <2>2, <2>3, <2>4 DEF Parser
<1>6. CASE Writer
  <2>1. CASE Send("writer")
    BY <2>1, LockSend
  <2>2. CASE WakeWriter \/ Drain \/ Lookup \/ ChangeConfig \/ ConfigChanged \/ Drained
    BY <2>2 DEF WakeWriter, Drain, Lookup, ChangeConfig, ConfigChanged, Drained
  <2>3. CASE Coalesced \/ Resize \/ PushResize \/ WakeResize \/ FallAsleep("writer")
    BY <2>3 DEF Coalesced, Resize, PushResize, WakeResize, FallAsleep
  <2>4. CASE PostAlarm \/ WakeAlarm \/ StopWriter \/ JoinReader
    BY <2>4 DEF PostAlarm, WakeAlarm, StopWriter, JoinReader
  <2>5. QED
    BY <1>6, <2>1, <2>2, <2>3, <2>4 DEF Writer
<1>7. CASE Renderer
  BY <1>7 DEF Renderer, WakeRenderer, DrainRenderer, RendererDrained, UpdateFrame,
     DrawFrame, WakeScrollbar, StopRenderer
<1>8. CASE Search
  BY <1>8 DEF Search, FallAsleep, ChangeNeedle, Feed, StopSearch, Tell, TellApp,
     TellRenderer, TellWakeApp, TellWakeRenderer, Told
<1>9. CASE Rest \/ UNCHANGED vars
  BY <1>9 DEF Rest, vars
<1>10. QED
  BY <1>1, <1>2, <1>3, <1>4, <1>5, <1>6, <1>7, <1>8, <1>9 DEF Next

(* Whoever waits for room in a mailbox or for a thread to end has let go   *)
(* of the renderer state mutex.                                            *)
THEOREM LockLetGo == Spec => []NobodySleepsWithLock
<1>1. LockInv => NobodySleepsWithLock
  BY DEF LockInv, LockPlace, NobodySleepsWithLock, WaitsForRoom, Joins, TermioPushers,
     AppPushers, RendererPushers, SearchPushers, Teller, Threads, At
<1>2. QED
  BY LockInit, LockStep, <1>1, PTL DEF Spec

-----------------------------------------------------------------------------
(* Mail for the writer is announced: inductive relative to LockInv, since  *)
(* a parser that waited without the mutex would not note that it has sent. *)

LEMMA WriterStep == LockInv /\ WriterWillLook /\ [Next]_vars => WriterWillLook'
<1> SUFFICES ASSUME LockInv, WriterWillLook, [Next]_vars PROVE WriterWillLook'
  OBVIOUS
<1> USE DEF LockInv, Threaded, SendersLocked, WriterWillLook, Threads, At, Goto, mail,
            wakes, locals, ending, bounds
<1>1. CASE UserEvent
  BY <1>1 DEF UserEvent, Event, KeyCallback, CursorPosCallback, SizeCallback,
     FocusCallback, UpdateConfig, Find, EndFind, Close
<1>2. CASE ProcessOutput
  BY <1>2 DEF ProcessOutput
<1>3. CASE Alarm
  BY <1>3 DEF Alarm
<1>4. ASSUME NEW t \in {"main", "reader", "writer"}, Send(t)
      PROVE  WriterWillLook'
  <2>1. CASE SendFast(t)
    BY <1>4, <2>1 DEF SendFast, Sent
  <2>2. CASE SendFull(t)
    BY <1>4, <2>2 DEF SendFull
  <2>3. CASE SendSlow(t)
    BY <1>4, <2>3 DEF SendSlow, Sent
  <2>4. CASE Relock(t)
    BY <1>4, <2>4 DEF Relock, Sent
  <2>5. QED
    BY <1>4, <2>1, <2>2, <2>3, <2>4 DEF Send
<1>5. CASE Main
  <2>1. CASE Send("main")
    BY <2>1, <1>4
  <2>2. CASE EncodeKey \/ MouseReport \/ PushFocus \/ WakeFocus \/ FlagFocus
    BY <2>2 DEF EncodeKey, MouseReport, PushFocus, WakeFocus, FlagFocus
  <2>3. CASE PushConfig \/ WakeConfig \/ PushFind \/ FallAsleep("main")
    BY <2>3 DEF PushConfig, WakeConfig, PushFind, FallAsleep
  <2>4. CASE Notify \/ Tick \/ HandleMessage \/ TickDone
    BY <2>4 DEF Notify, Tick, HandleMessage, TickDone
  <2>5. CASE JoinSearch \/ JoinRenderer \/ JoinWriter
    BY <2>5 DEF JoinSearch, JoinRenderer, JoinWriter
  <2>6. QED
    BY <1>5, <2>1, <2>2, <2>3, <2>4, <2>5 DEF Main
<1>6. CASE Parser
  <2>1. CASE Send("reader")
    BY <2>1, <1>4
  <2>2. CASE ResetCursorBlink \/ ParseQuery \/ ParseForSurface \/ FallAsleep("reader")
    BY <2>2 DEF ResetCursorBlink, ParseQuery, ParseForSurface, FallAsleep
  <2>3. CASE PostFast \/ PostFull \/ PostSlow \/ WakeApp \/ RelockPost
    BY <2>3 DEF PostFast, PostFull, PostSlow, WakeApp, RelockPost
  <2>4. CASE EndBatch \/ QuitReader
    BY <2>4 DEF EndBatch, QuitReader
  <2>5. QED
    BY <1>6, <2>1, <2>2, <2>3, <2>4 DEF Parser
<1>7. CASE Writer
  <2>1. CASE Send("writer")
    BY <2>1, <1>4
  <2>2. CASE WakeWriter \/ Drain \/ Lookup \/ ChangeConfig \/ ConfigChanged \/ Drained
    BY <2>2 DEF WakeWriter, Drain, Lookup, ChangeConfig, ConfigChanged, Drained
  <2>3. CASE Coalesced \/ Resize \/ PushResize \/ WakeResize \/ FallAsleep("writer")
    BY <2>3 DEF Coalesced, Resize, PushResize, WakeResize, FallAsleep
  <2>4. CASE PostAlarm \/ WakeAlarm \/ StopWriter \/ JoinReader
    BY <2>4 DEF PostAlarm, WakeAlarm, StopWriter, JoinReader
  <2>5. QED
    BY <1>7, <2>1, <2>2, <2>3, <2>4 DEF Writer
<1>8. CASE Renderer
  BY <1>8 DEF Renderer, WakeRenderer, DrainRenderer, RendererDrained, UpdateFrame,
     DrawFrame, WakeScrollbar, StopRenderer
<1>9. CASE Search
  BY <1>9 DEF Search, FallAsleep, ChangeNeedle, Feed, StopSearch, Tell, TellApp,
     TellRenderer, TellWakeApp, TellWakeRenderer, Told
<1>10. CASE Rest \/ UNCHANGED vars
  BY <1>10 DEF Rest, vars
<1>11. QED
  BY <1>1, <1>2, <1>3, <1>5, <1>6, <1>7, <1>8, <1>9, <1>10 DEF Next

(* Mail in the termio mailbox always has a wake-up on its way.             *)
THEOREM WriterMailAnnounced == Spec => []WriterWillLook
<1>1. Init => WriterWillLook
  BY DEF Init, WriterWillLook
<1>2. QED
  BY <1>1, LockInit, LockStep, WriterStep, PTL DEF Spec

-----------------------------------------------------------------------------
(* Mail for the app is announced.  Two facts make it inductive: while main *)
(* sends on behalf of a tick it returns to the tick, and the search thread *)
(* follows every push to the app by a wake-up.                             *)

BackPlace == back = "tick" => pc["main"] \in {"send", "room", "yielded", "relock", "notify"}

TellShape ==
    /\ tell \in Seq({"app", "renderer", "wakeApp", "wakeRenderer"})
    /\ \A i \in 1 .. Len(tell) :
           tell[i] = "app" => i < Len(tell) /\ tell[i + 1] = "wakeApp"
    /\ pc["search"] \notin {"tell", "quit"} => tell = <<>>

AppInv == Threaded /\ BackPlace /\ TellShape /\ AppWillLook

LEMMA TellStep == Threaded /\ TellShape /\ [Next]_vars => TellShape'
<1> SUFFICES ASSUME Threaded, TellShape, [Next]_vars PROVE TellShape'
  OBVIOUS
<1> USE DEF Threaded, TellShape, Threads, At, Goto, mail, wakes, locals, ending, bounds
<1>1. ASSUME NEW t \in {"main", "reader", "writer"}, Send(t)
      PROVE  TellShape'
  BY <1>1 DEF Send, SendFast, SendFull, SendSlow, Relock, Sent
<1>2. CASE UserEvent
  BY <1>2 DEF UserEvent, Event, KeyCallback, CursorPosCallback, SizeCallback,
     FocusCallback, UpdateConfig, Find, EndFind, Close
<1>3. CASE Main
  <2>1. CASE Send("main")
    BY <2>1, <1>1
  <2>2. CASE EncodeKey \/ MouseReport \/ PushFocus \/ WakeFocus \/ FlagFocus
    BY <2>2 DEF EncodeKey, MouseReport, PushFocus, WakeFocus, FlagFocus, Note
  <2>3. CASE PushConfig \/ WakeConfig \/ PushFind \/ FallAsleep("main")
    BY <2>3 DEF PushConfig, WakeConfig, PushFind, FallAsleep
  <2>4. CASE Notify \/ Tick \/ HandleMessage \/ TickDone
    BY <2>4 DEF Notify, Tick, HandleMessage, TickDone
  <2>5. CASE JoinSearch \/ JoinRenderer \/ JoinWriter
    BY <2>5 DEF JoinSearch, JoinRenderer, JoinWriter
  <2>6. QED
    BY <1>3, <2>1, <2>2, <2>3, <2>4, <2>5 DEF Main
<1>4. CASE Parser
  <2>1. CASE Send("reader")
    BY <2>1, <1>1
  <2>2. CASE ResetCursorBlink \/ ParseQuery \/ ParseForSurface \/ FallAsleep("reader")
    BY <2>2 DEF ResetCursorBlink, ParseQuery, ParseForSurface, FallAsleep
  <2>3. CASE PostFast \/ PostFull \/ PostSlow \/ WakeApp \/ RelockPost
    BY <2>3 DEF PostFast, PostFull, PostSlow, WakeApp, RelockPost
  <2>4. CASE EndBatch \/ QuitReader
    BY <2>4 DEF EndBatch, QuitReader
  <2>5. QED
    BY <1>4, <2>1, <2>2, <2>3, <2>4 DEF Parser
<1>5. CASE Writer
  <2>1. CASE Send("writer")
    BY <2>1, <1>1
  <2>2. CASE WakeWriter \/ Drain \/ Lookup \/ ChangeConfig \/ ConfigChanged \/ Drained
    BY <2>2 DEF WakeWriter, Drain, Lookup, ChangeConfig, ConfigChanged, Drained
  <2>3. CASE Coalesced \/ Resize \/ PushResize \/ WakeResize \/ FallAsleep("writer")
    BY <2>3 DEF Coalesced, Resize, PushResize, WakeResize, FallAsleep
  <2>4. CASE PostAlarm \/ WakeAlarm \/ StopWriter \/ JoinReader
    BY <2>4 DEF PostAlarm, WakeAlarm, StopWriter, JoinReader
  <2>5. QED
    BY <1>5, <2>1, <2>2, <2>3, <2>4 DEF Writer
<1>6. CASE Renderer
  BY <1>6 DEF Renderer, WakeRenderer, DrainRenderer, RendererDrained, UpdateFrame,
     DrawFrame, WakeScrollbar, StopRenderer
<1>7. CASE Search
  <2>1. CASE ChangeNeedle \/ FallAsleep("search") \/ Told
    BY <2>1 DEF ChangeNeedle, FallAsleep, Told
  <2>2. CASE Feed
    BY <2>2 DEF Feed
  <2>3. CASE StopSearch
    BY <2>3 DEF StopSearch
  <2>4. ASSUME NEW what, Tell(what) PROVE TellShape'
    BY <2>4 DEF Tell, Telling
  <2>5. QED
    BY <1>7, <2>1, <2>2, <2>3, <2>4 DEF Search, TellApp, TellRenderer, TellWakeApp,
       TellWakeRenderer
<1>8. CASE ProcessOutput \/ Alarm
  BY <1>8 DEF ProcessOutput, Alarm
<1>9. CASE Rest \/ UNCHANGED vars
  BY <1>9 DEF Rest, vars
<1>10. QED
  BY <1>2, <1>3, <1>4, <1>5, <1>6, <1>7, <1>8, <1>9 DEF Next

LEMMA AppStep == AppInv /\ [Next]_vars => AppInv'
<1> SUFFICES ASSUME AppInv, [Next]_vars PROVE (Threaded /\ BackPlace /\ AppWillLook)'
  BY TellStep DEF AppInv
<1> USE DEF AppInv, Threaded, BackPlace, AppWillLook, Threads, Telling, At, Goto, mail,
            wakes, locals, ending, bounds
<1>1. ASSUME NEW t \in {"main", "reader", "writer"}, Send(t)
      PROVE  (Threaded /\ BackPlace /\ AppWillLook)'
  BY <1>1 DEF Send, SendFast, SendFull, SendSlow, Relock, Sent
<1>2. CASE UserEvent
  BY <1>2 DEF UserEvent, Event, KeyCallback, CursorPosCallback, SizeCallback,
     FocusCallback, UpdateConfig, Find, EndFind, Close
<1>3. CASE Main
  <2>1. CASE Send("main")
    BY <2>1, <1>1
  <2>2. CASE EncodeKey \/ MouseReport \/ PushFocus \/ WakeFocus \/ FlagFocus
    BY <2>2 DEF EncodeKey, MouseReport, PushFocus, WakeFocus, FlagFocus, Note
  <2>3. CASE PushConfig \/ WakeConfig \/ PushFind \/ FallAsleep("main")
    BY <2>3 DEF PushConfig, WakeConfig, PushFind, FallAsleep
  <2>4. CASE Notify \/ Tick \/ HandleMessage \/ TickDone
    BY <2>4 DEF Notify, Tick, HandleMessage, TickDone
  <2>5. CASE JoinSearch \/ JoinRenderer \/ JoinWriter
    BY <2>5 DEF JoinSearch, JoinRenderer, JoinWriter
  <2>6. QED
    BY <1>3, <2>1, <2>2, <2>3, <2>4, <2>5 DEF Main
<1>4. CASE Parser
  <2>1. CASE Send("reader")
    BY <2>1, <1>1
  <2>2. CASE ResetCursorBlink \/ ParseQuery \/ ParseForSurface \/ FallAsleep("reader")
    BY <2>2 DEF ResetCursorBlink, ParseQuery, ParseForSurface, FallAsleep
  <2>3. CASE PostFast \/ PostFull \/ PostSlow \/ WakeApp \/ RelockPost
    BY <2>3 DEF PostFast, PostFull, PostSlow, WakeApp, RelockPost
  <2>4. CASE EndBatch \/ QuitReader
    BY <2>4 DEF EndBatch, QuitReader
  <2>5. QED
    BY <1>4, <2>1, <2>2, <2>3, <2>4 DEF Parser
<1>5. CASE Writer
  <2>1. CASE Send("writer")
    BY <2>1, <1>1
  <2>2. CASE WakeWriter \/ Drain \/ Lookup \/ ChangeConfig \/ ConfigChanged \/ Drained
    BY <2>2 DEF WakeWriter, Drain, Lookup, ChangeConfig, ConfigChanged, Drained
  <2>3. CASE Coalesced \/ Resize \/ PushResize \/ WakeResize \/ FallAsleep("writer")
    BY <2>3 DEF Coalesced, Resize, PushResize, WakeResize, FallAsleep
  <2>4. CASE PostAlarm \/ WakeAlarm \/ StopWriter \/ JoinReader
    BY <2>4 DEF PostAlarm, WakeAlarm, StopWriter, JoinReader
  <2>5. QED
    BY <1>5, <2>1, <2>2, <2>3, <2>4 DEF Writer
<1>6. CASE Renderer
  BY <1>6 DEF Renderer, WakeRenderer, DrainRenderer, RendererDrained, UpdateFrame,
     DrawFrame, WakeScrollbar, StopRenderer
<1>7. CASE Search
  <2>1. CASE ChangeNeedle \/ FallAsleep("search") \/ Told \/ Feed \/ StopSearch
    BY <2>1 DEF ChangeNeedle, FallAsleep, Told, Feed, StopSearch, TellShape
  <2>2. CASE TellApp
    <3>1. tell' # <<>> /\ Head(tell') = "wakeApp"
      BY <2>2 DEF TellApp, Tell, TellShape
    <3>2. QED
      BY <2>2, <3>1 DEF TellApp, Tell
  <2>3. CASE TellRenderer \/ TellWakeApp \/ TellWakeRenderer
    BY <2>3 DEF TellRenderer, TellWakeApp, TellWakeRenderer, Tell
  <2>4. QED
    BY <1>7, <2>1, <2>2, <2>3 DEF Search
<1>8. CASE ProcessOutput \/ Alarm
  BY <1>8 DEF ProcessOutput, Alarm
<1>9. CASE Rest \/ UNCHANGED vars
  BY <1>9 DEF Rest, vars
<1>10. QED
  BY <1>2, <1>3, <1>4, <1>5, <1>6, <1>7, <1>8, <1>9 DEF Next

(* Mail in the app mailbox always has a wake-up on its way.                *)
THEOREM AppMailAnnounced == Spec => []AppWillLook
<1>1. Init => AppInv
  BY DEF Init, AppInv, Threaded, Threads, BackPlace, TellShape, AppWillLook
<1>2. AppInv => AppWillLook
  BY DEF AppInv
<1>3. QED
  BY <1>1, <1>2, AppStep, PTL DEF Spec

-----------------------------------------------------------------------------
(* The order of the joins: main asks a thread to stop only after it has    *)
(* joined those that still send to its mailbox.                            *)

Closed == {"joinRenderer", "joinWriter", "closed"}

StopPlace ==
    /\ closing => pc["main"] \in Closed \cup {"joinSearch"}
    /\ pc["main"] \in Closed => closing /\ pc["search"] = "off"
    /\ "renderer" \in stop => pc["main"] \in Closed
    /\ "writer" \in stop => pc["main"] \in {"joinWriter", "closed"}
    /\ "reader" \in stop => pc["writer"] \in {"joinReader", "gone"}

GonePlace ==
    /\ pc["renderer"] = "gone" => "renderer" \in stop
    /\ pc["main"] \in {"joinWriter", "closed"} => pc["renderer"] = "gone"
    /\ pc["writer"] \in {"joinReader", "gone"} => "writer" \in stop
    /\ pc["writer"] = "gone" => pc["reader"] = "gone"
    /\ pc["main"] = "closed" => pc["writer"] = "gone"

JoinInv ==
    Threaded /\ StopPlace /\ GonePlace /\ back \in {"event", "tick", "wakeConfig"}

LEMMA JoinStep == JoinInv /\ [Next]_vars => JoinInv'
<1> SUFFICES ASSUME JoinInv, [Next]_vars PROVE JoinInv'
  OBVIOUS
<1> USE DEF JoinInv, Threaded, StopPlace, GonePlace, Closed, Threads, At, Goto, mail,
            wakes, locals, ending, bounds
<1>1. ASSUME NEW t \in {"main", "reader", "writer"}, Send(t)
      PROVE  JoinInv'
  BY <1>1 DEF Send, SendFast, SendFull, SendSlow, Relock, Sent
<1>2. CASE UserEvent
  BY <1>2 DEF UserEvent, Event, KeyCallback, CursorPosCallback, SizeCallback,
     FocusCallback, UpdateConfig, Find, EndFind, Close
<1>3. CASE Main
  <2>1. CASE Send("main")
    BY <2>1, <1>1
  <2>2. CASE EncodeKey \/ MouseReport \/ PushFocus \/ WakeFocus \/ FlagFocus
    BY <2>2 DEF EncodeKey, MouseReport, PushFocus, WakeFocus, FlagFocus, Note
  <2>3. CASE PushConfig \/ WakeConfig \/ PushFind \/ FallAsleep("main")
    BY <2>3 DEF PushConfig, WakeConfig, PushFind, FallAsleep
  <2>4. CASE Notify \/ Tick \/ HandleMessage \/ TickDone
    BY <2>4 DEF Notify, Tick, HandleMessage, TickDone
  <2>5. CASE JoinSearch \/ JoinRenderer \/ JoinWriter
    BY <2>5 DEF JoinSearch, JoinRenderer, JoinWriter
  <2>6. QED
    BY <1>3, <2>1, <2>2, <2>3, <2>4, <2>5 DEF Main
<1>4. CASE Parser
  <2>1. CASE Send("reader")
    BY <2>1, <1>1
  <2>2. CASE ResetCursorBlink \/ ParseQuery \/ ParseForSurface \/ FallAsleep("reader")
    BY <2>2 DEF ResetCursorBlink, ParseQuery, ParseForSurface, FallAsleep
  <2>3. CASE PostFast \/ PostFull \/ PostSlow \/ WakeApp \/ RelockPost
    BY <2>3 DEF PostFast, PostFull, PostSlow, WakeApp, RelockPost
  <2>4. CASE EndBatch \/ QuitReader
    BY <2>4 DEF EndBatch, QuitReader
  <2>5. QED
    BY <1>4, <2>1, <2>2, <2>3, <2>4 DEF Parser
<1>5. CASE Writer
  <2>1. CASE Send("writer")
    BY <2>1, <1>1
  <2>2. CASE WakeWriter \/ Drain \/ Lookup \/ ChangeConfig \/ ConfigChanged \/ Drained
    BY <2>2 DEF WakeWriter, Drain, Lookup, ChangeConfig, ConfigChanged, Drained
  <2>3. CASE Coalesced \/ Resize \/ PushResize \/ WakeResize \/ FallAsleep("writer")
    BY <2>3 DEF Coalesced, Resize, PushResize, WakeResize, FallAsleep
  <2>4. CASE PostAlarm \/ WakeAlarm \/ StopWriter \/ JoinReader
    BY <2>4 DEF PostAlarm, WakeAlarm, StopWriter, JoinReader
  <2>5. QED
    BY <1>5, <2>1, <2>2, <2>3, <2>4 DEF Writer
<1>6. CASE Renderer
  BY <1>6 DEF Renderer, WakeRenderer, DrainRenderer, RendererDrained, UpdateFrame,
     DrawFrame, WakeScrollbar, StopRenderer
<1>7. CASE Search
  BY <1>7 DEF Search, FallAsleep, ChangeNeedle, Feed, StopSearch, Tell, TellApp,
     TellRenderer, TellWakeApp, TellWakeRenderer, Told, Telling
<1>8. CASE ProcessOutput \/ Alarm
  BY <1>8 DEF ProcessOutput, Alarm
<1>9. CASE Rest \/ UNCHANGED vars
  BY <1>9 DEF Rest, vars
<1>10. QED
  BY <1>2, <1>3, <1>4, <1>5, <1>6, <1>7, <1>8, <1>9 DEF Next

(* Threads end in the order that keeps every mailbox drained while someone *)
(* may wait for room in it.                                                *)
THEOREM JoinsInOrder == Spec => []JoinOrder
<1>1. Init => JoinInv
  BY DEF Init, JoinInv, Threaded, Threads, StopPlace, GonePlace, Closed
<1>2. JoinInv => JoinOrder
  BY DEF JoinInv, StopPlace, GonePlace, Closed, JoinOrder, At
<1>3. QED
  BY <1>1, <1>2, JoinStep, PTL DEF Spec

-----------------------------------------------------------------------------
(* Types.  What a thread sends is fit for the mailbox it sends to.         *)

LetterPlace ==
    /\ \A t \in {"main", "reader", "writer"} :
          pc[t] \in {"send", "room", "yielded"} => letter[t] \in TermioMessages
    /\ pc["reader"] \in {"post", "postRoom"} => letter["reader"] \in AppMessages

(* Each thread stays in its own code. *)
LEMMA PlaceStep ==
    ASSUME LockInv, PlaceOK, [Next]_vars
    PROVE  PlaceOK'
<1> USE DEF PlaceOK, LockInv, LockPlace, SendersLocked, Free, MainPCs, ReaderPCs,
            WriterPCs, RendererPCs, SearchPCs, Threads, At, Goto, mail, wakes, locals,
            ending, bounds
<1>1. ASSUME NEW t \in {"main", "reader", "writer"}, Send(t)
      PROVE  PlaceOK'
  <2>1. CASE SendFast(t)
    BY <1>1, <2>1 DEF SendFast, Sent
  <2>2. CASE SendFull(t)
    BY <1>1, <2>2 DEF SendFull
  <2>3. CASE SendSlow(t)
    BY <1>1, <2>3 DEF SendSlow, Sent
  <2>4. CASE Relock(t)
    BY <1>1, <2>4 DEF Relock, Sent
  <2>5. QED
    BY <1>1, <2>1, <2>2, <2>3, <2>4 DEF Send
<1>2. CASE UserEvent
  <2>1. CASE KeyCallback \/ CursorPosCallback \/ SizeCallback \/ FocusCallback
    BY <2>1 DEF KeyCallback, CursorPosCallback, SizeCallback, FocusCallback, Event
  <2>2. CASE UpdateConfig \/ Find \/ EndFind \/ Close
    BY <2>2 DEF UpdateConfig, Find, EndFind, Close, Event
  <2>3. QED
    BY <1>2, <2>1, <2>2 DEF UserEvent
<1>3. CASE Main
  <2>1. CASE Send("main")
    BY <2>1, <1>1
  <2>2. CASE EncodeKey \/ MouseReport \/ PushFocus \/ WakeFocus \/ FlagFocus
    BY <2>2 DEF EncodeKey, MouseReport, PushFocus, WakeFocus, FlagFocus
  <2>3. CASE PushConfig \/ WakeConfig \/ PushFind \/ FallAsleep("main")
    BY <2>3 DEF PushConfig, WakeConfig, PushFind, FallAsleep
  <2>4. CASE Notify \/ Tick \/ HandleMessage \/ TickDone
    BY <2>4 DEF Notify, Tick, HandleMessage, TickDone
  <2>5. CASE JoinSearch \/ JoinRenderer \/ JoinWriter
    BY <2>5 DEF JoinSearch, JoinRenderer, JoinWriter
  <2>6. QED
    BY <1>3, <2>1, <2>2, <2>3, <2>4, <2>5 DEF Main
<1>4. CASE Parser
  <2>1. CASE Send("reader")
    BY <2>1, <1>1
  <2>2. CASE ResetCursorBlink \/ ParseQuery \/ ParseForSurface \/ FallAsleep("reader")
    BY <2>2 DEF ResetCursorBlink, ParseQuery, ParseForSurface, FallAsleep
  <2>3. CASE PostFast \/ PostFull \/ PostSlow \/ WakeApp \/ RelockPost
    BY <2>3 DEF PostFast, PostFull, PostSlow, WakeApp, RelockPost
  <2>4. CASE EndBatch \/ QuitReader
    BY <2>4 DEF EndBatch, QuitReader
  <2>5. QED
    BY <1>4, <2>1, <2>2, <2>3, <2>4 DEF Parser
<1>5. CASE Writer
  <2>1. CASE Send("writer")
    BY <2>1, <1>1
  <2>2. CASE WakeWriter \/ Drain \/ Lookup \/ ChangeConfig \/ ConfigChanged \/ Drained
    BY <2>2 DEF WakeWriter, Drain, Lookup, ChangeConfig, ConfigChanged, Drained
  <2>3. CASE Coalesced \/ Resize \/ PushResize \/ WakeResize \/ FallAsleep("writer")
    BY <2>3 DEF Coalesced, Resize, PushResize, WakeResize, FallAsleep
  <2>4. CASE PostAlarm \/ WakeAlarm \/ StopWriter \/ JoinReader
    BY <2>4 DEF PostAlarm, WakeAlarm, StopWriter, JoinReader
  <2>5. QED
    BY <1>5, <2>1, <2>2, <2>3, <2>4 DEF Writer
<1>6. CASE Renderer
  <2>1. CASE WakeRenderer \/ DrainRenderer \/ RendererDrained \/ UpdateFrame
    BY <2>1 DEF WakeRenderer, DrainRenderer, RendererDrained, UpdateFrame
  <2>2. CASE DrawFrame \/ WakeScrollbar \/ StopRenderer
    BY <2>2 DEF DrawFrame, WakeScrollbar, StopRenderer
  <2>3. QED
    BY <1>6, <2>1, <2>2 DEF Renderer
<1>7. CASE Search
  <2>1. CASE FallAsleep("search") \/ ChangeNeedle \/ Feed \/ StopSearch \/ Told
    BY <2>1 DEF FallAsleep, ChangeNeedle, Feed, StopSearch, Told
  <2>2. CASE TellApp \/ TellRenderer \/ TellWakeApp \/ TellWakeRenderer
    BY <2>2 DEF TellApp, TellRenderer, TellWakeApp, TellWakeRenderer, Tell
  <2>3. QED
    BY <1>7, <2>1, <2>2 DEF Search
<1>8. CASE ProcessOutput \/ Alarm
  BY <1>8 DEF ProcessOutput, Alarm
<1>9. CASE Rest \/ UNCHANGED vars
  BY <1>9 DEF Rest, vars
<1>10. QED
  BY <1>2, <1>3, <1>4, <1>5, <1>6, <1>7, <1>8, <1>9 DEF Next

(* Messages are taken from what the programs and the handlers send. *)
LEMMA LetterStep ==
    ASSUME LockInv, PlaceOK, LetterOK, LetterPlace, program \in Programs, [Next]_vars
    PROVE  (LetterOK /\ LetterPlace)'
<1> USE DEF LockInv, Threaded, SendersLocked, LetterOK, LetterPlace, Note,
            TermioMessages, AppMessages, Threads, At, Goto, mail, wakes, locals, ending,
            bounds
<1>1. ASSUME NEW t \in {"main", "reader", "writer"}, Send(t)
      PROVE  (LetterOK /\ LetterPlace)'
  <2>1. CASE SendFast(t)
    BY <1>1, <2>1 DEF SendFast, Sent
  <2>2. CASE SendFull(t)
    BY <1>1, <2>2 DEF SendFull
  <2>3. CASE SendSlow(t)
    BY <1>1, <2>3 DEF SendSlow, Sent
  <2>4. CASE Relock(t)
    BY <1>1, <2>4 DEF Relock, Sent
  <2>5. QED
    BY <1>1, <2>1, <2>2, <2>3, <2>4 DEF Send
<1>2. CASE UserEvent
  <2>1. CASE KeyCallback \/ CursorPosCallback \/ SizeCallback \/ FocusCallback
    BY <2>1 DEF KeyCallback, CursorPosCallback, SizeCallback, FocusCallback, Event
  <2>2. CASE UpdateConfig \/ Find \/ EndFind \/ Close
    BY <2>2 DEF UpdateConfig, Find, EndFind, Close, Event
  <2>3. QED
    BY <1>2, <2>1, <2>2 DEF UserEvent
<1>3. CASE Main
  <2>1. CASE Send("main")
    BY <2>1, <1>1
  <2>2. CASE EncodeKey \/ MouseReport \/ PushFocus \/ WakeFocus \/ FlagFocus
    BY <2>2 DEF EncodeKey, MouseReport, PushFocus, WakeFocus, FlagFocus
  <2>3. CASE PushConfig \/ WakeConfig \/ PushFind \/ FallAsleep("main")
    BY <2>3 DEF PushConfig, WakeConfig, PushFind, FallAsleep
  <2>4. CASE Notify \/ Tick \/ HandleMessage \/ TickDone
    <3>1. CASE Notify \/ Tick \/ TickDone
      BY <3>1 DEF Notify, Tick, TickDone, PlaceOK
    <3>2. CASE HandleMessage
      BY <3>2 DEF HandleMessage
    <3>3. QED
      BY <2>4, <3>1, <3>2
  <2>5. CASE JoinSearch \/ JoinRenderer \/ JoinWriter
    BY <2>5 DEF JoinSearch, JoinRenderer, JoinWriter
  <2>6. QED
    BY <1>3, <2>1, <2>2, <2>3, <2>4, <2>5 DEF Main
<1>4. CASE Parser
  <2>1. CASE Send("reader")
    BY <2>1, <1>1
  <2>2. CASE ResetCursorBlink \/ ParseQuery \/ ParseForSurface \/ FallAsleep("reader")
    <3>1. CASE ResetCursorBlink \/ ParseQuery \/ FallAsleep("reader")
      BY <3>1 DEF ResetCursorBlink, ParseQuery, FallAsleep
    <3>2. CASE ParseForSurface
      BY <3>2, MailboxAssumption DEF ParseForSurface, EffectKinds
    <3>3. QED
      BY <2>2, <3>1, <3>2
  <2>3. CASE PostFast \/ PostFull \/ PostSlow \/ WakeApp \/ RelockPost
    BY <2>3 DEF PostFast, PostFull, PostSlow, WakeApp, RelockPost
  <2>4. CASE EndBatch \/ QuitReader
    BY <2>4 DEF EndBatch, QuitReader
  <2>5. QED
    BY <1>4, <2>1, <2>2, <2>3, <2>4 DEF Parser
<1>5. CASE Writer
  <2>1. CASE Send("writer")
    BY <2>1, <1>1
  <2>2. CASE WakeWriter \/ Drain \/ Lookup \/ ChangeConfig \/ ConfigChanged \/ Drained
    BY <2>2 DEF WakeWriter, Drain, Lookup, ChangeConfig, ConfigChanged, Drained
  <2>3. CASE Coalesced \/ Resize \/ PushResize \/ WakeResize \/ FallAsleep("writer")
    BY <2>3 DEF Coalesced, Resize, PushResize, WakeResize, FallAsleep
  <2>4. CASE PostAlarm \/ WakeAlarm \/ StopWriter \/ JoinReader
    BY <2>4 DEF PostAlarm, WakeAlarm, StopWriter, JoinReader
  <2>5. QED
    BY <1>5, <2>1, <2>2, <2>3, <2>4 DEF Writer
<1>6. CASE Renderer
  <2>1. CASE WakeRenderer \/ DrainRenderer \/ RendererDrained \/ UpdateFrame
    BY <2>1 DEF WakeRenderer, DrainRenderer, RendererDrained, UpdateFrame
  <2>2. CASE DrawFrame \/ WakeScrollbar \/ StopRenderer
    BY <2>2 DEF DrawFrame, WakeScrollbar, StopRenderer
  <2>3. QED
    BY <1>6, <2>1, <2>2 DEF Renderer
<1>7. CASE Search
  <2>1. CASE FallAsleep("search") \/ ChangeNeedle \/ Feed \/ StopSearch \/ Told
    BY <2>1 DEF FallAsleep, ChangeNeedle, Feed, StopSearch, Told
  <2>2. CASE TellApp \/ TellRenderer \/ TellWakeApp \/ TellWakeRenderer
    BY <2>2 DEF TellApp, TellRenderer, TellWakeApp, TellWakeRenderer, Tell
  <2>3. QED
    BY <1>7, <2>1, <2>2 DEF Search
<1>8. CASE ProcessOutput \/ Alarm
  BY <1>8 DEF ProcessOutput, Alarm
<1>9. CASE Rest \/ UNCHANGED vars
  BY <1>9 DEF Rest, vars
<1>10. QED
  BY <1>2, <1>3, <1>4, <1>5, <1>6, <1>7, <1>8, <1>9 DEF Next

(* What a step does to the mailboxes: nothing, one push that finds room,   *)
(* or one pop; the search mailbox goes with its thread.                    *)
AppMoves ==
    \/ UNCHANGED appQ
    \/ AppRoom /\ \E m \in AppMessages : appQ' = Append(appQ, m)
    \/ appQ # <<>> /\ appQ' = Tail(appQ)
TermioMoves ==
    \/ UNCHANGED termioQ
    \/ Room /\ \E m \in TermioMessages : termioQ' = Append(termioQ, m)
    \/ termioQ # <<>> /\ termioQ' = Tail(termioQ)
RendererMoves ==
    \/ UNCHANGED rendererQ
    \/ RendererRoom /\ rendererQ' = rendererQ + 1
    \/ rendererQ > 0 /\ rendererQ' = rendererQ - 1
SearchMoves ==
    \/ UNCHANGED searchQ
    \/ SearchRoom /\ searchQ' = searchQ + 1
    \/ searchQ > 0 /\ searchQ' = searchQ - 1
    \/ searchQ' = 0
MailMoves == AppMoves /\ TermioMoves /\ RendererMoves /\ SearchMoves

(* Every step moves the mail like this. *)
LEMMA MailStep ==
    ASSUME LetterPlace, [Next]_vars
    PROVE  MailMoves
<1> USE DEF LetterPlace, AppMessages, MailMoves, AppMoves, TermioMoves, RendererMoves,
            SearchMoves, Threads, At, Goto, mail, wakes, locals, ending, bounds
<1>1. ASSUME NEW t \in {"main", "reader", "writer"}, Send(t)
      PROVE  MailMoves
  <2>1. CASE SendFast(t)
    BY <1>1, <2>1 DEF SendFast, Sent
  <2>2. CASE SendFull(t)
    BY <1>1, <2>2 DEF SendFull
  <2>3. CASE SendSlow(t)
    BY <1>1, <2>3 DEF SendSlow, Sent, Pushes
  <2>4. CASE Relock(t)
    BY <1>1, <2>4 DEF Relock, Sent
  <2>5. QED
    BY <1>1, <2>1, <2>2, <2>3, <2>4 DEF Send
<1>2. CASE UserEvent
  <2>1. CASE KeyCallback \/ CursorPosCallback \/ SizeCallback \/ FocusCallback
    BY <2>1 DEF KeyCallback, CursorPosCallback, SizeCallback, FocusCallback, Event
  <2>2. CASE UpdateConfig \/ Find \/ EndFind \/ Close
    BY <2>2 DEF UpdateConfig, Find, EndFind, Close, Event
  <2>3. QED
    BY <1>2, <2>1, <2>2 DEF UserEvent
<1>3. CASE Main
  <2>1. CASE Send("main")
    BY <2>1, <1>1
  <2>2. CASE EncodeKey \/ MouseReport \/ PushFocus \/ WakeFocus \/ FlagFocus
    BY <2>2 DEF EncodeKey, MouseReport, PushFocus, WakeFocus, FlagFocus, Pushes
  <2>3. CASE PushConfig \/ WakeConfig \/ PushFind \/ FallAsleep("main")
    BY <2>3 DEF PushConfig, WakeConfig, PushFind, FallAsleep, Pushes
  <2>4. CASE Notify \/ Tick \/ HandleMessage \/ TickDone
    BY <2>4 DEF Notify, Tick, HandleMessage, TickDone
  <2>5. CASE JoinSearch \/ JoinRenderer \/ JoinWriter
    BY <2>5 DEF JoinSearch, JoinRenderer, JoinWriter
  <2>6. QED
    BY <1>3, <2>1, <2>2, <2>3, <2>4, <2>5 DEF Main
<1>4. CASE Parser
  <2>1. CASE Send("reader")
    BY <2>1, <1>1
  <2>2. CASE ResetCursorBlink \/ ParseQuery \/ ParseForSurface \/ FallAsleep("reader")
    BY <2>2 DEF ResetCursorBlink, ParseQuery, ParseForSurface, FallAsleep
  <2>3. CASE PostFast \/ PostFull \/ PostSlow \/ WakeApp \/ RelockPost
    BY <2>3 DEF PostFast, PostFull, PostSlow, WakeApp, RelockPost, Pushes
  <2>4. CASE EndBatch \/ QuitReader
    BY <2>4 DEF EndBatch, QuitReader
  <2>5. QED
    BY <1>4, <2>1, <2>2, <2>3, <2>4 DEF Parser
<1>5. CASE Writer
  <2>1. CASE Send("writer")
    BY <2>1, <1>1
  <2>2. CASE WakeWriter \/ Drain \/ Lookup \/ ChangeConfig \/ ConfigChanged \/ Drained
    BY <2>2 DEF WakeWriter, Drain, Lookup, ChangeConfig, ConfigChanged, Drained
  <2>3. CASE Coalesced \/ Resize \/ PushResize \/ WakeResize \/ FallAsleep("writer")
    BY <2>3 DEF Coalesced, Resize, PushResize, WakeResize, FallAsleep, Pushes
  <2>4. CASE PostAlarm \/ WakeAlarm \/ StopWriter \/ JoinReader
    BY <2>4 DEF PostAlarm, WakeAlarm, StopWriter, JoinReader, Pushes
  <2>5. QED
    BY <1>5, <2>1, <2>2, <2>3, <2>4 DEF Writer
<1>6. CASE Renderer
  <2>1. CASE WakeRenderer \/ DrainRenderer \/ RendererDrained \/ UpdateFrame
    BY <2>1 DEF WakeRenderer, DrainRenderer, RendererDrained, UpdateFrame
  <2>2. CASE DrawFrame \/ WakeScrollbar \/ StopRenderer
    BY <2>2 DEF DrawFrame, WakeScrollbar, StopRenderer
  <2>3. QED
    BY <1>6, <2>1, <2>2 DEF Renderer
<1>7. CASE Search
  <2>1. CASE FallAsleep("search") \/ ChangeNeedle \/ Feed \/ StopSearch \/ Told
    BY <2>1 DEF FallAsleep, ChangeNeedle, Feed, StopSearch, Told
  <2>2. CASE TellApp \/ TellRenderer \/ TellWakeApp \/ TellWakeRenderer
    BY <2>2 DEF TellApp, TellRenderer, TellWakeApp, TellWakeRenderer, Tell, Pushes
  <2>3. QED
    BY <1>7, <2>1, <2>2 DEF Search
<1>8. CASE ProcessOutput \/ Alarm
  BY <1>8 DEF ProcessOutput, Alarm
<1>9. CASE Rest \/ UNCHANGED vars
  BY <1>9 DEF Rest, vars
<1>10. QED
  BY <1>2, <1>3, <1>4, <1>5, <1>6, <1>7, <1>8, <1>9 DEF Next

(* A bounded queue stays bounded.                                          *)
LEMMA QueueMoves ==
    ASSUME NEW S, NEW q \in Seq(S), NEW cap \in Nat, Len(q) <= cap, NEW r,
           \/ r = q
           \/ Len(q) < cap /\ \E m \in S : r = Append(q, m)
           \/ q # <<>> /\ r = Tail(q)
    PROVE  r \in Seq(S) /\ Len(r) <= cap
<1>1. CASE r = q
  BY <1>1
<1>2. ASSUME Len(q) < cap, NEW m \in S, r = Append(q, m)
      PROVE  r \in Seq(S) /\ Len(r) <= cap
  BY <1>2
<1>3. CASE q # <<>> /\ r = Tail(q)
  BY <1>3
<1>4. QED
  BY <1>1, <1>2, <1>3

LEMMA MailTyped ==
    ASSUME MailOK, MailMoves
    PROVE  MailOK'
<1>1. appQ' \in Seq(AppMessages) /\ Len(appQ') <= AppCap
  <2>1. AppCap \in Nat /\ appQ \in Seq(AppMessages) /\ Len(appQ) <= AppCap
    BY MailboxAssumption DEF MailOK
  <2>2. QED
    BY <2>1, QueueMoves DEF MailMoves, AppMoves, AppRoom
<1>2. termioQ' \in Seq(TermioMessages) /\ Len(termioQ') <= TermioCap
  <2>1. TermioCap \in Nat /\ termioQ \in Seq(TermioMessages) /\ Len(termioQ) <= TermioCap
    BY MailboxAssumption DEF MailOK
  <2>2. QED
    BY <2>1, QueueMoves DEF MailMoves, TermioMoves, Room
<1>3. rendererQ' \in 0 .. RendererCap /\ searchQ' \in 0 .. SearchCap
  BY MailboxAssumption
     DEF MailOK, MailMoves, RendererMoves, SearchMoves, RendererRoom, SearchRoom
<1>4. QED
  BY <1>1, <1>2, <1>3 DEF MailOK

(* Sleepers are woken and go on. *)
LEMMA WaitStep ==
    ASSUME WaitOK, [Next]_vars
    PROVE  WaitOK'
<1> USE DEF WaitOK, Threads, At, Goto, mail, wakes, locals, ending, bounds
<1>1. ASSUME NEW t \in {"main", "reader", "writer"}, Send(t)
      PROVE  WaitOK'
  <2>1. CASE SendFast(t)
    BY <1>1, <2>1 DEF SendFast, Sent
  <2>2. CASE SendFull(t)
    BY <1>1, <2>2 DEF SendFull
  <2>3. CASE SendSlow(t)
    BY <1>1, <2>3 DEF SendSlow, Sent, Pushes, GivesUp
  <2>4. CASE Relock(t)
    BY <1>1, <2>4 DEF Relock, Sent
  <2>5. QED
    BY <1>1, <2>1, <2>2, <2>3, <2>4 DEF Send
<1>2. CASE UserEvent
  <2>1. CASE KeyCallback \/ CursorPosCallback \/ SizeCallback \/ FocusCallback
    BY <2>1 DEF KeyCallback, CursorPosCallback, SizeCallback, FocusCallback, Event
  <2>2. CASE UpdateConfig \/ Find \/ EndFind \/ Close
    BY <2>2 DEF UpdateConfig, Find, EndFind, Close, Event
  <2>3. QED
    BY <1>2, <2>1, <2>2 DEF UserEvent
<1>3. CASE Main
  <2>1. CASE Send("main")
    BY <2>1, <1>1
  <2>2. CASE EncodeKey \/ MouseReport \/ PushFocus \/ WakeFocus \/ FlagFocus
    BY <2>2 DEF EncodeKey, MouseReport, PushFocus, WakeFocus, FlagFocus, Pushes, GivesUp
  <2>3. CASE PushConfig \/ WakeConfig \/ PushFind \/ FallAsleep("main")
    BY <2>3 DEF PushConfig, WakeConfig, PushFind, FallAsleep, Pushes, GivesUp
  <2>4. CASE Notify \/ Tick \/ HandleMessage \/ TickDone
    BY <2>4 DEF Notify, Tick, HandleMessage, TickDone, SignalOne
  <2>5. CASE JoinSearch \/ JoinRenderer \/ JoinWriter
    BY <2>5 DEF JoinSearch, JoinRenderer, JoinWriter
  <2>6. QED
    BY <1>3, <2>1, <2>2, <2>3, <2>4, <2>5 DEF Main
<1>4. CASE Parser
  <2>1. CASE Send("reader")
    BY <2>1, <1>1
  <2>2. CASE ResetCursorBlink \/ ParseQuery \/ ParseForSurface \/ FallAsleep("reader")
    BY <2>2 DEF ResetCursorBlink, ParseQuery, ParseForSurface, FallAsleep
  <2>3. CASE PostFast \/ PostFull \/ PostSlow \/ WakeApp \/ RelockPost
    BY <2>3 DEF PostFast, PostFull, PostSlow, WakeApp, RelockPost, Pushes, GivesUp
  <2>4. CASE EndBatch \/ QuitReader
    BY <2>4 DEF EndBatch, QuitReader
  <2>5. QED
    BY <1>4, <2>1, <2>2, <2>3, <2>4 DEF Parser
<1>5. CASE Writer
  <2>1. CASE Send("writer")
    BY <2>1, <1>1
  <2>2. CASE WakeWriter \/ Drain \/ Lookup \/ ChangeConfig \/ ConfigChanged \/ Drained
    BY <2>2 DEF WakeWriter, Drain, Lookup, ChangeConfig, ConfigChanged, Drained,
       SignalOne
  <2>3. CASE Coalesced \/ Resize \/ PushResize \/ WakeResize \/ FallAsleep("writer")
    BY <2>3 DEF Coalesced, Resize, PushResize, WakeResize, FallAsleep, Pushes, GivesUp
  <2>4. CASE PostAlarm \/ WakeAlarm \/ StopWriter \/ JoinReader
    BY <2>4 DEF PostAlarm, WakeAlarm, StopWriter, JoinReader, Pushes, GivesUp
  <2>5. QED
    BY <1>5, <2>1, <2>2, <2>3, <2>4 DEF Writer
<1>6. CASE Renderer
  <2>1. CASE WakeRenderer \/ DrainRenderer \/ RendererDrained \/ UpdateFrame
    BY <2>1 DEF WakeRenderer, DrainRenderer, RendererDrained, UpdateFrame, SignalOne
  <2>2. CASE DrawFrame \/ WakeScrollbar \/ StopRenderer
    BY <2>2 DEF DrawFrame, WakeScrollbar, StopRenderer
  <2>3. QED
    BY <1>6, <2>1, <2>2 DEF Renderer
<1>7. CASE Search
  <2>1. CASE FallAsleep("search") \/ ChangeNeedle \/ Feed \/ StopSearch \/ Told
    BY <2>1 DEF FallAsleep, ChangeNeedle, Feed, StopSearch, Told, SignalOne
  <2>2. CASE TellApp \/ TellRenderer \/ TellWakeApp \/ TellWakeRenderer
    BY <2>2 DEF TellApp, TellRenderer, TellWakeApp, TellWakeRenderer, Tell, Pushes,
       GivesUp
  <2>3. QED
    BY <1>7, <2>1, <2>2 DEF Search
<1>8. CASE ProcessOutput \/ Alarm
  BY <1>8 DEF ProcessOutput, Alarm
<1>9. CASE Rest \/ UNCHANGED vars
  BY <1>9 DEF Rest, vars
<1>10. QED
  BY <1>2, <1>3, <1>4, <1>5, <1>6, <1>7, <1>8, <1>9 DEF Next

(* Notifications and flags. *)
LEMMA FlagsStep ==
    ASSUME FlagsOK, [Next]_vars
    PROVE  FlagsOK'
<1> USE DEF FlagsOK, Threads, At, Goto, mail, wakes, locals, ending, bounds
<1>1. ASSUME NEW t \in {"main", "reader", "writer"}, Send(t)
      PROVE  FlagsOK'
  <2>1. CASE SendFast(t)
    BY <1>1, <2>1 DEF SendFast, Sent
  <2>2. CASE SendFull(t)
    BY <1>1, <2>2 DEF SendFull
  <2>3. CASE SendSlow(t)
    BY <1>1, <2>3 DEF SendSlow, Sent
  <2>4. CASE Relock(t)
    BY <1>1, <2>4 DEF Relock, Sent
  <2>5. QED
    BY <1>1, <2>1, <2>2, <2>3, <2>4 DEF Send
<1>2. CASE UserEvent
  <2>1. CASE KeyCallback \/ CursorPosCallback \/ SizeCallback \/ FocusCallback
    BY <2>1 DEF KeyCallback, CursorPosCallback, SizeCallback, FocusCallback, Event
  <2>2. CASE UpdateConfig \/ Find \/ EndFind \/ Close
    BY <2>2 DEF UpdateConfig, Find, EndFind, Close, Event
  <2>3. QED
    BY <1>2, <2>1, <2>2 DEF UserEvent
<1>3. CASE Main
  <2>1. CASE Send("main")
    BY <2>1, <1>1
  <2>2. CASE EncodeKey \/ MouseReport \/ PushFocus \/ WakeFocus \/ FlagFocus
    BY <2>2 DEF EncodeKey, MouseReport, PushFocus, WakeFocus, FlagFocus
  <2>3. CASE PushConfig \/ WakeConfig \/ PushFind \/ FallAsleep("main")
    BY <2>3 DEF PushConfig, WakeConfig, PushFind, FallAsleep
  <2>4. CASE Notify \/ Tick \/ HandleMessage \/ TickDone
    BY <2>4 DEF Notify, Tick, HandleMessage, TickDone
  <2>5. CASE JoinSearch \/ JoinRenderer \/ JoinWriter
    BY <2>5 DEF JoinSearch, JoinRenderer, JoinWriter
  <2>6. QED
    BY <1>3, <2>1, <2>2, <2>3, <2>4, <2>5 DEF Main
<1>4. CASE Parser
  <2>1. CASE Send("reader")
    BY <2>1, <1>1
  <2>2. CASE ResetCursorBlink \/ ParseQuery \/ ParseForSurface \/ FallAsleep("reader")
    BY <2>2 DEF ResetCursorBlink, ParseQuery, ParseForSurface, FallAsleep
  <2>3. CASE PostFast \/ PostFull \/ PostSlow \/ WakeApp \/ RelockPost
    BY <2>3 DEF PostFast, PostFull, PostSlow, WakeApp, RelockPost
  <2>4. CASE EndBatch \/ QuitReader
    BY <2>4 DEF EndBatch, QuitReader
  <2>5. QED
    BY <1>4, <2>1, <2>2, <2>3, <2>4 DEF Parser
<1>5. CASE Writer
  <2>1. CASE Send("writer")
    BY <2>1, <1>1
  <2>2. CASE WakeWriter \/ Drain \/ Lookup \/ ChangeConfig \/ ConfigChanged \/ Drained
    BY <2>2 DEF WakeWriter, Drain, Lookup, ChangeConfig, ConfigChanged, Drained
  <2>3. CASE Coalesced \/ Resize \/ PushResize \/ WakeResize \/ FallAsleep("writer")
    BY <2>3 DEF Coalesced, Resize, PushResize, WakeResize, FallAsleep
  <2>4. CASE PostAlarm \/ WakeAlarm \/ StopWriter \/ JoinReader
    BY <2>4 DEF PostAlarm, WakeAlarm, StopWriter, JoinReader
  <2>5. QED
    BY <1>5, <2>1, <2>2, <2>3, <2>4 DEF Writer
<1>6. CASE Renderer
  <2>1. CASE WakeRenderer \/ DrainRenderer \/ RendererDrained \/ UpdateFrame
    BY <2>1 DEF WakeRenderer, DrainRenderer, RendererDrained, UpdateFrame
  <2>2. CASE DrawFrame \/ WakeScrollbar \/ StopRenderer
    BY <2>2 DEF DrawFrame, WakeScrollbar, StopRenderer
  <2>3. QED
    BY <1>6, <2>1, <2>2 DEF Renderer
<1>7. CASE Search
  <2>1. CASE FallAsleep("search") \/ ChangeNeedle \/ Feed \/ StopSearch \/ Told
    BY <2>1 DEF FallAsleep, ChangeNeedle, Feed, StopSearch, Told
  <2>2. CASE TellApp \/ TellRenderer \/ TellWakeApp \/ TellWakeRenderer
    BY <2>2 DEF TellApp, TellRenderer, TellWakeApp, TellWakeRenderer, Tell
  <2>3. QED
    BY <1>7, <2>1, <2>2 DEF Search
<1>8. CASE ProcessOutput \/ Alarm
  BY <1>8 DEF ProcessOutput, Alarm
<1>9. CASE Rest \/ UNCHANGED vars
  BY <1>9 DEF Rest, vars
<1>10. QED
  BY <1>2, <1>3, <1>4, <1>5, <1>6, <1>7, <1>8, <1>9 DEF Next

(* What remains of the bounds. *)
LEMMA BoundsStep ==
    ASSUME BoundsOK, [Next]_vars
    PROVE  BoundsOK'
<1> USE DEF BoundsOK, Threads, At, Goto, mail, wakes, locals, ending, bounds
<1>1. ASSUME NEW t \in {"main", "reader", "writer"}, Send(t)
      PROVE  BoundsOK'
  <2>1. CASE SendFast(t)
    BY <1>1, <2>1, MailboxAssumption DEF SendFast, Sent
  <2>2. CASE SendFull(t)
    BY <1>1, <2>2, MailboxAssumption DEF SendFull
  <2>3. CASE SendSlow(t)
    BY <1>1, <2>3, MailboxAssumption DEF SendSlow, Sent
  <2>4. CASE Relock(t)
    BY <1>1, <2>4, MailboxAssumption DEF Relock, Sent
  <2>5. QED
    BY <1>1, <2>1, <2>2, <2>3, <2>4 DEF Send
<1>2. CASE UserEvent
  <2>1. CASE KeyCallback \/ CursorPosCallback \/ SizeCallback \/ FocusCallback
    BY <2>1, MailboxAssumption DEF KeyCallback, CursorPosCallback, SizeCallback,
       FocusCallback, Event
  <2>2. CASE UpdateConfig \/ Find \/ EndFind \/ Close
    BY <2>2, MailboxAssumption DEF UpdateConfig, Find, EndFind, Close, Event
  <2>3. QED
    BY <1>2, <2>1, <2>2 DEF UserEvent
<1>3. CASE Main
  <2>1. CASE Send("main")
    BY <2>1, <1>1
  <2>2. CASE EncodeKey \/ MouseReport \/ PushFocus \/ WakeFocus \/ FlagFocus
    BY <2>2, MailboxAssumption DEF EncodeKey, MouseReport, PushFocus, WakeFocus,
       FlagFocus
  <2>3. CASE PushConfig \/ WakeConfig \/ PushFind \/ FallAsleep("main")
    BY <2>3, MailboxAssumption DEF PushConfig, WakeConfig, PushFind, FallAsleep
  <2>4. CASE Notify \/ Tick \/ HandleMessage \/ TickDone
    BY <2>4, MailboxAssumption DEF Notify, Tick, HandleMessage, TickDone
  <2>5. CASE JoinSearch \/ JoinRenderer \/ JoinWriter
    BY <2>5, MailboxAssumption DEF JoinSearch, JoinRenderer, JoinWriter
  <2>6. QED
    BY <1>3, <2>1, <2>2, <2>3, <2>4, <2>5 DEF Main
<1>4. CASE Parser
  <2>1. CASE Send("reader")
    BY <2>1, <1>1
  <2>2. CASE ResetCursorBlink \/ ParseQuery \/ ParseForSurface \/ FallAsleep("reader")
    BY <2>2, MailboxAssumption DEF ResetCursorBlink, ParseQuery, ParseForSurface,
       FallAsleep
  <2>3. CASE PostFast \/ PostFull \/ PostSlow \/ WakeApp \/ RelockPost
    BY <2>3, MailboxAssumption DEF PostFast, PostFull, PostSlow, WakeApp, RelockPost
  <2>4. CASE EndBatch \/ QuitReader
    BY <2>4, MailboxAssumption DEF EndBatch, QuitReader
  <2>5. QED
    BY <1>4, <2>1, <2>2, <2>3, <2>4 DEF Parser
<1>5. CASE Writer
  <2>1. CASE Send("writer")
    BY <2>1, <1>1
  <2>2. CASE WakeWriter \/ Drain \/ Lookup \/ ChangeConfig \/ ConfigChanged \/ Drained
    BY <2>2, MailboxAssumption DEF WakeWriter, Drain, Lookup, ChangeConfig,
       ConfigChanged, Drained
  <2>3. CASE Coalesced \/ Resize \/ PushResize \/ WakeResize \/ FallAsleep("writer")
    BY <2>3, MailboxAssumption DEF Coalesced, Resize, PushResize, WakeResize, FallAsleep
  <2>4. CASE PostAlarm \/ WakeAlarm \/ StopWriter \/ JoinReader
    BY <2>4, MailboxAssumption DEF PostAlarm, WakeAlarm, StopWriter, JoinReader
  <2>5. QED
    BY <1>5, <2>1, <2>2, <2>3, <2>4 DEF Writer
<1>6. CASE Renderer
  <2>1. CASE WakeRenderer \/ DrainRenderer \/ RendererDrained \/ UpdateFrame
    BY <2>1, MailboxAssumption DEF WakeRenderer, DrainRenderer, RendererDrained,
       UpdateFrame
  <2>2. CASE DrawFrame \/ WakeScrollbar \/ StopRenderer
    BY <2>2, MailboxAssumption DEF DrawFrame, WakeScrollbar, StopRenderer
  <2>3. QED
    BY <1>6, <2>1, <2>2 DEF Renderer
<1>7. CASE Search
  <2>1. CASE FallAsleep("search") \/ ChangeNeedle \/ Feed \/ StopSearch \/ Told
    BY <2>1, MailboxAssumption DEF FallAsleep, ChangeNeedle, Feed, StopSearch, Told
  <2>2. CASE TellApp \/ TellRenderer \/ TellWakeApp \/ TellWakeRenderer
    BY <2>2, MailboxAssumption DEF TellApp, TellRenderer, TellWakeApp, TellWakeRenderer,
       Tell
  <2>3. QED
    BY <1>7, <2>1, <2>2 DEF Search
<1>8. CASE ProcessOutput \/ Alarm
  BY <1>8, MailboxAssumption DEF ProcessOutput, Alarm
<1>9. CASE Rest \/ UNCHANGED vars
  BY <1>9, MailboxAssumption DEF Rest, vars
<1>10. QED
  BY <1>2, <1>3, <1>4, <1>5, <1>6, <1>7, <1>8, <1>9 DEF Next

TypeInv == LockInv /\ TellShape /\ LetterPlace /\ TypeOK

(* The variables keep their types: no mailbox holds more than its          *)
(* capacity, no thread leaves its code, no sender sends what the mailbox   *)
(* is not for.                                                             *)
THEOREM ThreadsTyped == Spec => []TypeOK
<1>1. Init => TypeInv
  <2> SUFFICES ASSUME Init PROVE TypeInv
    OBVIOUS
  <2>1. LockInv /\ TellShape
    BY LockInit DEF Init, TellShape
  <2>2. LetterPlace /\ LetterOK /\ WaitOK
    BY DEF Init, LetterPlace, LetterOK, WaitOK, Threads
  <2>3. PlaceOK
    BY DEF Init, PlaceOK, MainPCs, ReaderPCs, WriterPCs, RendererPCs, SearchPCs, Threads
  <2>4. MailOK
    BY MailboxAssumption DEF Init, MailOK
  <2>5. FlagsOK
    BY DEF Init, FlagsOK
  <2>6. BoundsOK
    BY MailboxAssumption DEF Init, BoundsOK
  <2>7. QED
    BY <2>1, <2>2, <2>3, <2>4, <2>5, <2>6 DEF TypeInv, TypeOK, TellShape
<1>2. TypeInv /\ [Next]_vars => TypeInv'
  <2> SUFFICES ASSUME TypeInv, [Next]_vars PROVE TypeInv'
    OBVIOUS
  <2>1. LockInv' /\ TellShape'
    BY LockStep, TellStep DEF TypeInv, LockInv
  <2>2. PlaceOK' /\ LetterOK' /\ LetterPlace'
    BY PlaceStep, LetterStep DEF TypeInv, TypeOK, BoundsOK
  <2>3. MailOK'
    BY MailStep, MailTyped DEF TypeInv, TypeOK
  <2>4. WaitOK' /\ FlagsOK' /\ BoundsOK'
    BY WaitStep, FlagsStep, BoundsStep DEF TypeInv, TypeOK
  <2>5. QED
    BY <2>1, <2>2, <2>3, <2>4 DEF TypeInv, TypeOK, TellShape
<1>3. TypeInv => TypeOK
  BY DEF TypeInv
<1>4. QED
  BY <1>1, <1>2, <1>3, PTL DEF Spec

-----------------------------------------------------------------------------
(* A full renderer mailbox is about to be drained.  Mail that nobody       *)
(* announces is the cursor reset of a batch whose wake-up has been taken   *)
(* already, and the first of the two messages of a search that ends: in a  *)
(* mailbox with room for three that is never all of it.                    *)

RendererCalled ==
    \/ rendererWake
    \/ pc["renderer"] \in {"drain", "gone"}
    \/ pc["main"] \in {"wakeFocus", "wakeConfig"} \/ back = "wakeConfig"
    \/ pc["writer"] = "wakeResize"
    \/ Telling("wakeRenderer")

QuitHalfTold == pc["search"] = "quit" /\ Len(tell) = 6

Unannounced == (IF pc["reader"] = "blink" THEN 0 ELSE 1) + (IF QuitHalfTold THEN 1 ELSE 0)

FewUnannounced == rendererQ \in Nat /\ (RendererCalled \/ rendererQ <= Unannounced)

ConfigPlace ==
    back = "wakeConfig" => pc["main"] \in {"send", "room", "yielded", "relock", "notify"}

(* What the search thread has left to do is the end of what it set out to. *)
FeedPlan == <<"app", "wakeApp", "renderer", "wakeRenderer">>
QuitPlan == <<"renderer", "renderer", "wakeRenderer", "app", "wakeApp", "app", "wakeApp">>

TellPlace ==
    /\ tell \in Seq({"app", "renderer", "wakeApp", "wakeRenderer"})
    /\ pc["search"] = "tell" =>
          /\ Len(tell) <= 4
          /\ \A i \in 1 .. Len(tell) : tell[i] = FeedPlan[4 - Len(tell) + i]
    /\ pc["search"] = "quit" =>
          /\ Len(tell) <= 7
          /\ \A i \in 1 .. Len(tell) : tell[i] = QuitPlan[7 - Len(tell) + i]
    /\ pc["search"] \notin {"tell", "quit"} => tell = <<>>

(* The plans are followed from their first step to their last. *)
LEMMA TellPlaceStep ==
    ASSUME Threaded, TellPlace, [Next]_vars
    PROVE  TellPlace'
<1> USE DEF Threaded, TellPlace, Threads, At, Goto, mail, wakes, locals, ending, bounds
<1>1. ASSUME NEW t \in {"main", "reader", "writer"}, Send(t)
      PROVE  TellPlace'
  <2>1. CASE SendFast(t)
    BY <1>1, <2>1 DEF SendFast, Sent
  <2>2. CASE SendFull(t)
    BY <1>1, <2>2 DEF SendFull
  <2>3. CASE SendSlow(t)
    BY <1>1, <2>3 DEF SendSlow, Sent
  <2>4. CASE Relock(t)
    BY <1>1, <2>4 DEF Relock, Sent
  <2>5. QED
    BY <1>1, <2>1, <2>2, <2>3, <2>4 DEF Send
<1>2. CASE UserEvent
  <2>1. CASE KeyCallback \/ CursorPosCallback \/ SizeCallback \/ FocusCallback
    BY <2>1 DEF KeyCallback, CursorPosCallback, SizeCallback, FocusCallback, Event
  <2>2. CASE UpdateConfig \/ Find \/ EndFind \/ Close
    BY <2>2 DEF UpdateConfig, Find, EndFind, Close, Event
  <2>3. QED
    BY <1>2, <2>1, <2>2 DEF UserEvent
<1>3. CASE Main
  <2>1. CASE Send("main")
    BY <2>1, <1>1
  <2>2. CASE EncodeKey \/ MouseReport \/ PushFocus \/ WakeFocus \/ FlagFocus
    BY <2>2 DEF EncodeKey, MouseReport, PushFocus, WakeFocus, FlagFocus
  <2>3. CASE PushConfig \/ WakeConfig \/ PushFind \/ FallAsleep("main")
    BY <2>3 DEF PushConfig, WakeConfig, PushFind, FallAsleep
  <2>4. CASE Notify \/ Tick \/ HandleMessage \/ TickDone
    BY <2>4 DEF Notify, Tick, HandleMessage, TickDone
  <2>5. CASE JoinSearch \/ JoinRenderer \/ JoinWriter
    BY <2>5 DEF JoinSearch, JoinRenderer, JoinWriter
  <2>6. QED
    BY <1>3, <2>1, <2>2, <2>3, <2>4, <2>5 DEF Main
<1>4. CASE Parser
  <2>1. CASE Send("reader")
    BY <2>1, <1>1
  <2>2. CASE ResetCursorBlink \/ ParseQuery \/ ParseForSurface \/ FallAsleep("reader")
    BY <2>2 DEF ResetCursorBlink, ParseQuery, ParseForSurface, FallAsleep
  <2>3. CASE PostFast \/ PostFull \/ PostSlow \/ WakeApp \/ RelockPost
    BY <2>3 DEF PostFast, PostFull, PostSlow, WakeApp, RelockPost
  <2>4. CASE EndBatch \/ QuitReader
    BY <2>4 DEF EndBatch, QuitReader
  <2>5. QED
    BY <1>4, <2>1, <2>2, <2>3, <2>4 DEF Parser
<1>5. CASE Writer
  <2>1. CASE Send("writer")
    BY <2>1, <1>1
  <2>2. CASE WakeWriter \/ Drain \/ Lookup \/ ChangeConfig \/ ConfigChanged \/ Drained
    BY <2>2 DEF WakeWriter, Drain, Lookup, ChangeConfig, ConfigChanged, Drained
  <2>3. CASE Coalesced \/ Resize \/ PushResize \/ WakeResize \/ FallAsleep("writer")
    BY <2>3 DEF Coalesced, Resize, PushResize, WakeResize, FallAsleep
  <2>4. CASE PostAlarm \/ WakeAlarm \/ StopWriter \/ JoinReader
    BY <2>4 DEF PostAlarm, WakeAlarm, StopWriter, JoinReader
  <2>5. QED
    BY <1>5, <2>1, <2>2, <2>3, <2>4 DEF Writer
<1>6. CASE Renderer
  <2>1. CASE WakeRenderer \/ DrainRenderer \/ RendererDrained \/ UpdateFrame
    BY <2>1 DEF WakeRenderer, DrainRenderer, RendererDrained, UpdateFrame
  <2>2. CASE DrawFrame \/ WakeScrollbar \/ StopRenderer
    BY <2>2 DEF DrawFrame, WakeScrollbar, StopRenderer
  <2>3. QED
    BY <1>6, <2>1, <2>2 DEF Renderer
<1>7. CASE Search
  <2>1. CASE FallAsleep("search") \/ ChangeNeedle \/ Feed \/ StopSearch \/ Told
    <3>1. CASE FallAsleep("search") \/ ChangeNeedle \/ Told
      BY <3>1 DEF FallAsleep, ChangeNeedle, Told
    <3>2. CASE Feed
      BY <3>2 DEF Feed, FeedPlan
    <3>3. CASE StopSearch
      BY <3>3 DEF StopSearch, QuitPlan
    <3>4. QED
      BY <2>1, <3>1, <3>2, <3>3
  <2>2. CASE TellApp \/ TellRenderer \/ TellWakeApp \/ TellWakeRenderer
    <3>1. PICK what : Tell(what)
      BY <2>2 DEF TellApp, TellRenderer, TellWakeApp, TellWakeRenderer
    <3>2. /\ tell \in Seq({"app", "renderer", "wakeApp", "wakeRenderer"}) /\ tell # <<>>
          /\ tell' = Tail(tell) /\ pc' = pc
      BY <3>1 DEF Tell, Telling
    <3>3. /\ tell' \in Seq({"app", "renderer", "wakeApp", "wakeRenderer"})
          /\ Len(tell) \in Nat \ {0} /\ Len(tell') = Len(tell) - 1
          /\ \A i \in 1 .. Len(tell') : tell'[i] = tell[i + 1]
      BY <3>2
    <3>4. ASSUME NEW plan, NEW n \in Nat, Len(tell) <= n,
                 \A i \in 1 .. Len(tell) : tell[i] = plan[n - Len(tell) + i]
          PROVE  /\ Len(tell') <= n
                 /\ \A i \in 1 .. Len(tell') : tell'[i] = plan[n - Len(tell') + i]
      <4>1. ASSUME NEW i \in 1 .. Len(tell')
            PROVE  tell'[i] = plan[n - Len(tell') + i]
        <5>1. i + 1 \in 1 .. Len(tell) /\ n - Len(tell) + (i + 1) = n - Len(tell') + i
          BY <3>3
        <5>2. QED
          BY <3>3, <3>4, <5>1
      <4>2. QED
        BY <3>3, <3>4, <4>1
    <3>5. pc["search"] \in {"tell", "quit"}
      BY <3>1 DEF Tell
    <3>6. QED
      BY <3>2, <3>3, <3>4, <3>5
  <2>3. QED
    BY <1>7, <2>1, <2>2 DEF Search
<1>8. CASE ProcessOutput \/ Alarm
  BY <1>8 DEF ProcessOutput, Alarm
<1>9. CASE Rest \/ UNCHANGED vars
  BY <1>9 DEF Rest, vars
<1>10. QED
  BY <1>2, <1>3, <1>4, <1>5, <1>6, <1>7, <1>8, <1>9 DEF Next

(* Where a plan stands, by what is next.                                   *)
LEMMA NextTold ==
    ASSUME TellPlace, pc["search"] \in {"tell", "quit"}, tell # <<>>
    PROVE  /\ Len(tell) \in Nat \ {0} /\ Len(Tail(tell)) = Len(tell) - 1
           /\ Head(tell) # "renderer" => ~ QuitHalfTold
           /\ Head(tell) = "renderer" =>
                 \/ Tail(tell) # <<>> /\ Head(Tail(tell)) = "wakeRenderer"
                 \/ pc["search"] = "quit" /\ Len(tell) = 7
<1>1. /\ tell \in Seq({"app", "renderer", "wakeApp", "wakeRenderer"})
      /\ Len(tell) \in Nat \ {0} /\ Head(tell) = tell[1]
  BY DEF TellPlace
<1>2. /\ Tail(tell) \in Seq({"app", "renderer", "wakeApp", "wakeRenderer"})
      /\ Len(Tail(tell)) = Len(tell) - 1
      /\ \A i \in 1 .. Len(tell) - 1 : Tail(tell)[i] = tell[i + 1]
  BY <1>1
<1>3. ASSUME Len(tell) > 1
      PROVE  Tail(tell) # <<>> /\ Head(Tail(tell)) = tell[2]
  <2>1. PICK n \in Nat : n = Len(tell) /\ n > 1
    BY <1>1, <1>3
  <2>2. 1 \in 1 .. n - 1 /\ 1 + 1 = 2 /\ n - 1 # 0
    BY <2>1
  <2>3. Tail(tell)[1] = tell[2] /\ Len(Tail(tell)) # 0
    BY <1>2, <2>1, <2>2
  <2>4. Len(<<>>) = 0
    OBVIOUS
  <2>5. Tail(tell) # <<>>
    BY <2>3, <2>4
  <2>6. Head(Tail(tell)) = Tail(tell)[1]
    BY <1>2, <2>5
  <2>7. QED
    BY <2>3, <2>5, <2>6
<1>4. CASE pc["search"] = "tell"
  <2>1. PICK n \in Nat : n = Len(tell) /\ n > 0 /\ n <= 4
    BY <1>1, <1>4 DEF TellPlace
  <2>2. \A i \in 1 .. n : tell[i] = FeedPlan[4 - n + i]
    BY <1>4, <2>1 DEF TellPlace
  <2>3. Head(tell) = FeedPlan[5 - n]
    <3>1. 1 \in 1 .. n /\ 4 - n + 1 = 5 - n
      BY <2>1
    <3>2. QED
      BY <1>1, <2>2, <3>1
  <2>4. n = 1 \/ n = 2 \/ n = 3 \/ n = 4
    BY <2>1
  <2>5. Head(tell) = "renderer" => n = 2
    BY <2>3, <2>4 DEF FeedPlan
  <2>6. n = 2 => tell[2] = "wakeRenderer"
    BY <2>2 DEF FeedPlan
  <2>7. QED
    BY <1>1, <1>2, <1>3, <1>4, <2>1, <2>5, <2>6 DEF QuitHalfTold
<1>5. CASE pc["search"] = "quit"
  <2>1. PICK n \in Nat : n = Len(tell) /\ n > 0 /\ n <= 7
    BY <1>1, <1>5 DEF TellPlace
  <2>2. \A i \in 1 .. n : tell[i] = QuitPlan[7 - n + i]
    BY <1>5, <2>1 DEF TellPlace
  <2>3. Head(tell) = QuitPlan[8 - n]
    <3>1. 1 \in 1 .. n /\ 7 - n + 1 = 8 - n
      BY <2>1
    <3>2. QED
      BY <1>1, <2>2, <3>1
  <2>4. n = 1 \/ n = 2 \/ n = 3 \/ n = 4 \/ n = 5 \/ n = 6 \/ n = 7
    <3>1. \A m \in Nat :
             m > 0 /\ m <= 7 =>
                m = 1 \/ m = 2 \/ m = 3 \/ m = 4 \/ m = 5 \/ m = 6 \/ m = 7
      OBVIOUS
    <3>2. QED
      BY <2>1, <3>1
  <2>5. Head(tell) = "renderer" <=> n = 6 \/ n = 7
    BY <2>3, <2>4 DEF QuitPlan
  <2>6. n = 6 => tell[2] = "wakeRenderer"
    BY <2>2 DEF QuitPlan
  <2>7. QED
    BY <1>1, <1>2, <1>3, <1>5, <2>1, <2>5, <2>6 DEF QuitHalfTold
<1>6. QED
  BY <1>4, <1>5

(* Every other push to the renderer is followed by its wake-up. *)
LEMMA RendererStep ==
    ASSUME Threaded, TellPlace, FewUnannounced, ConfigPlace, back \in {"event", "tick", "wakeConfig"}, [Next]_vars
    PROVE  (FewUnannounced /\ ConfigPlace)'
<1> USE DEF Threaded, FewUnannounced, RendererCalled, Unannounced, QuitHalfTold,
            ConfigPlace, Telling, Threads, At, Goto, mail, wakes, locals, ending, bounds
<1>1. ASSUME NEW t \in {"main", "reader", "writer"}, Send(t)
      PROVE  (FewUnannounced /\ ConfigPlace)'
  <2>1. CASE SendFast(t)
    BY <1>1, <2>1 DEF SendFast, Sent
  <2>2. CASE SendFull(t)
    BY <1>1, <2>2 DEF SendFull
  <2>3. CASE SendSlow(t)
    BY <1>1, <2>3 DEF SendSlow, Sent
  <2>4. CASE Relock(t)
    BY <1>1, <2>4 DEF Relock, Sent
  <2>5. QED
    BY <1>1, <2>1, <2>2, <2>3, <2>4 DEF Send
<1>2. CASE UserEvent
  <2>1. CASE KeyCallback \/ CursorPosCallback \/ SizeCallback \/ FocusCallback
    BY <2>1 DEF KeyCallback, CursorPosCallback, SizeCallback, FocusCallback, Event
  <2>2. CASE UpdateConfig \/ Find \/ EndFind \/ Close
    BY <2>2 DEF UpdateConfig, Find, EndFind, Close, Event
  <2>3. QED
    BY <1>2, <2>1, <2>2 DEF UserEvent
<1>3. CASE Main
  <2>1. CASE Send("main")
    BY <2>1, <1>1
  <2>2. CASE EncodeKey \/ MouseReport \/ PushFocus \/ WakeFocus \/ FlagFocus
    BY <2>2 DEF EncodeKey, MouseReport, PushFocus, WakeFocus, FlagFocus, RendererRoom,
       Pushes, GivesUp
  <2>3. CASE PushConfig \/ WakeConfig \/ PushFind \/ FallAsleep("main")
    BY <2>3 DEF PushConfig, WakeConfig, PushFind, FallAsleep, RendererRoom, Pushes,
       GivesUp
  <2>4. CASE Notify \/ Tick \/ HandleMessage \/ TickDone
    BY <2>4 DEF Notify, Tick, HandleMessage, TickDone
  <2>5. CASE JoinSearch \/ JoinRenderer \/ JoinWriter
    BY <2>5 DEF JoinSearch, JoinRenderer, JoinWriter
  <2>6. QED
    BY <1>3, <2>1, <2>2, <2>3, <2>4, <2>5 DEF Main
<1>4. CASE Parser
  <2>1. CASE Send("reader")
    BY <2>1, <1>1
  <2>2. CASE ResetCursorBlink \/ ParseQuery \/ ParseForSurface \/ FallAsleep("reader")
    BY <2>2 DEF ResetCursorBlink, ParseQuery, ParseForSurface, FallAsleep
  <2>3. CASE PostFast \/ PostFull \/ PostSlow \/ WakeApp \/ RelockPost
    BY <2>3 DEF PostFast, PostFull, PostSlow, WakeApp, RelockPost
  <2>4. CASE EndBatch \/ QuitReader
    BY <2>4 DEF EndBatch, QuitReader
  <2>5. QED
    BY <1>4, <2>1, <2>2, <2>3, <2>4 DEF Parser
<1>5. CASE Writer
  <2>1. CASE Send("writer")
    BY <2>1, <1>1
  <2>2. CASE WakeWriter \/ Drain \/ Lookup \/ ChangeConfig \/ ConfigChanged \/ Drained
    BY <2>2 DEF WakeWriter, Drain, Lookup, ChangeConfig, ConfigChanged, Drained
  <2>3. CASE Coalesced \/ Resize \/ PushResize \/ WakeResize \/ FallAsleep("writer")
    BY <2>3 DEF Coalesced, Resize, PushResize, WakeResize, FallAsleep, RendererRoom,
       Pushes, GivesUp
  <2>4. CASE PostAlarm \/ WakeAlarm \/ StopWriter \/ JoinReader
    BY <2>4 DEF PostAlarm, WakeAlarm, StopWriter, JoinReader
  <2>5. QED
    BY <1>5, <2>1, <2>2, <2>3, <2>4 DEF Writer
<1>6. CASE Renderer
  <2>1. CASE WakeRenderer \/ DrainRenderer \/ RendererDrained \/ UpdateFrame
    BY <2>1 DEF WakeRenderer, DrainRenderer, RendererDrained, UpdateFrame
  <2>2. CASE DrawFrame \/ WakeScrollbar \/ StopRenderer
    BY <2>2 DEF DrawFrame, WakeScrollbar, StopRenderer
  <2>3. QED
    BY <1>6, <2>1, <2>2 DEF Renderer
<1>7. CASE Search
  <2>1. CASE FallAsleep("search") \/ ChangeNeedle
    BY <2>1 DEF FallAsleep, ChangeNeedle
  <2>2. CASE Feed \/ StopSearch
    <3>1. tell = <<>> /\ Len(tell') \in {4, 7} /\ pc["search"] \in {"feed", "loop"}
      BY <2>2 DEF Feed, StopSearch, TellPlace
    <3>2. QED
      BY <2>2, <3>1 DEF Feed, StopSearch
  <2>3. CASE Told
    BY <2>3 DEF Told
  <2>4. CASE TellApp \/ TellWakeApp
    <3>1. /\ tell # <<>> /\ Head(tell) \notin {"renderer", "wakeRenderer"}
          /\ pc["search"] \in {"tell", "quit"} /\ ~ QuitHalfTold
      BY <2>4, NextTold DEF TellApp, TellWakeApp, Tell
    <3>2. QED
      BY <2>4, <3>1 DEF TellApp, TellWakeApp, Tell
  <2>5. CASE TellRenderer
    <3>1. /\ tell # <<>> /\ Head(tell) = "renderer" /\ pc["search"] \in {"tell", "quit"}
          /\ rendererQ' = rendererQ + 1 \/ rendererQ' = rendererQ
          /\ tell' = Tail(tell) /\ pc' = pc /\ rendererWake' = rendererWake /\ back' = back
      BY <2>5 DEF TellRenderer, Tell
    <3>2. CASE tell' # <<>> /\ Head(tell') = "wakeRenderer"
      BY <3>1, <3>2
    <3>3. CASE pc["search"] = "quit" /\ Len(tell) = 7
      <4>1. Len(tell') = 6
        BY <3>1, <3>3, NextTold
      <4>2. QED
        BY <3>1, <3>3, <4>1
    <3>4. QED
      BY <3>1, <3>2, <3>3, NextTold
  <2>6. CASE TellWakeRenderer
    BY <2>6 DEF TellWakeRenderer, Tell
  <2>7. QED
    BY <1>7, <2>1, <2>2, <2>3, <2>4, <2>5, <2>6 DEF Search
<1>8. CASE ProcessOutput \/ Alarm
  BY <1>8 DEF ProcessOutput, Alarm
<1>9. CASE Rest \/ UNCHANGED vars
  BY <1>9 DEF Rest, vars
<1>10. QED
  BY <1>2, <1>3, <1>4, <1>5, <1>6, <1>7, <1>8, <1>9 DEF Next

(* Theorem (FullRendererWillLook).  With room for three messages, and the  *)
(* code has it for 64, a full renderer mailbox is about to be drained:     *)
(* whoever waits for room in it, and that is main, the writer and the      *)
(* search thread, gets it.                                                 *)
RendererInv == LockInv /\ PlaceOK /\ TellPlace /\ FewUnannounced /\ ConfigPlace

THEOREM RendererMailAnnounced ==
    ASSUME RendererCap > 2
    PROVE  Spec => []FullRendererWillLook
<1>1. Init => RendererInv
  <2>1. Init => PlaceOK
    BY DEF Init, PlaceOK, Threads, MainPCs, ReaderPCs, WriterPCs, RendererPCs, SearchPCs
  <2>2. Init => TellPlace /\ FewUnannounced /\ ConfigPlace
    BY DEF Init, TellPlace, FewUnannounced, RendererCalled, ConfigPlace
  <2>3. QED
    BY <2>1, <2>2, LockInit DEF RendererInv
<1>2. RendererInv /\ [Next]_vars => RendererInv'
  <2>1. SUFFICES ASSUME RendererInv, [Next]_vars
                 PROVE  RendererInv'
    OBVIOUS
  <2>2. Threaded /\ back \in {"event", "tick", "wakeConfig"}
    BY <2>1 DEF RendererInv, PlaceOK, Threaded
  <2>3. LockInv' /\ PlaceOK'
    BY <2>1, LockStep, PlaceStep DEF RendererInv
  <2>4. TellPlace'
    BY <2>1, <2>2, TellPlaceStep DEF RendererInv
  <2>5. (FewUnannounced /\ ConfigPlace)'
    BY <2>1, <2>2, RendererStep DEF RendererInv
  <2>6. QED
    BY <2>3, <2>4, <2>5 DEF RendererInv
<1>3. RendererInv => FullRendererWillLook
  <2>1. RendererCap \in Nat
    BY MailboxAssumption
  <2>2. Unannounced \in 0 .. 2
    BY DEF Unannounced
  <2>3. QED
    BY <2>1, <2>2 DEF RendererInv, FewUnannounced, RendererCalled, FullRendererWillLook
<1>4. QED
  BY <1>1, <1>2, <1>3, PTL DEF Spec

=============================================================================
