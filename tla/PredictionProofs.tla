-------------------------- MODULE PredictionProofs --------------------------
(***************************************************************************)
(* The prediction context, its candidate and the engine agree, and an open *)
(* context is for the line on the screen, for any lines, any room in the   *)
(* app mailbox and any number of events.                                   *)
(***************************************************************************)
EXTENDS Prediction, TLAPS

USE PredictionAssumption

(* The surface's context, its candidate and the engine's view of them. *)
ContextTypes ==
    /\ revision \in Nat /\ input \in Texts \cup {None} /\ input_valid \in BOOLEAN
    /\ candidate \in Candidates \cup {None}
    /\ request \in Requests \cup {None} /\ live \in Nat \cup {None}

ValidLine == input_valid => input \in Texts

EngineInv == ContextTypes /\ ValidLine /\ CandidateCurrent /\ EngineAgrees

-----------------------------------------------------------------------------
(* What the operations on the context do *)

(* Whatever is dismissed, the surface and the engine both forget it. *)
LEMMA DismissForgets ==
    ASSUME EngineInv, Dismiss
    PROVE  candidate' = None /\ live' = None
  BY DEF EngineInv, ContextTypes, EngineAgrees, Dismiss

(* With the context closed and no candidate, nothing can disagree. *)
LEMMA ClosedContext ==
    ASSUME EngineInv, candidate' = None, live' = None, revision' = revision + 1,
           input' = None, ~input_valid', input_valid' \in BOOLEAN,
           request' \in {request, None}
    PROVE  EngineInv'
  BY DEF EngineInv, ContextTypes, ValidLine, CandidateCurrent, EngineAgrees

(* Invalidating closes the context and keeps the agreement. *)
LEMMA InvalidateKeeps ==
    ASSUME EngineInv, Invalidate, request' \in {request, None}
    PROVE  EngineInv' /\ ~input_valid'
<1>1. candidate' = None /\ live' = None
  BY DismissForgets DEF Invalidate, KeepInput
<1>2. revision' = revision + 1 /\ input' = None
  BY DEF Invalidate, KeepInput
<1>3. ~input_valid' /\ input_valid' \in BOOLEAN
  BY DEF Invalidate
<1>4. QED
  BY <1>1, <1>2, <1>3, ClosedContext

(* A step that touches neither the context nor the engine. *)
LEMMA EngineUntouched ==
    ASSUME EngineInv, UNCHANGED <<context, candidate, engine>>
    PROVE  EngineInv'
  BY DEF EngineInv, ContextTypes, ValidLine, CandidateCurrent, EngineAgrees,
     context, engine

(* A line is a place and a text. *)
LEMMA TextOfLine ==
    ASSUME NEW l \in Lines
    PROVE  Place(l) \in Places /\ Text(l) \in Texts
  BY DEF Lines, Place, Text

(* A sync keeps the agreement, and a context that it leaves open is for    *)
(* the line on the screen, unless the surface may not sync at all.         *)
LEMMA SyncKeeps ==
    ASSUME EngineInv, Sync
    PROVE  /\ EngineInv'
           /\ ~MaySync => UNCHANGED context
           /\ MaySync /\ input_valid' => input' = PromptInput
<1>1. CASE /\ ~MaySync \/ CurrentLine = IF input_valid THEN input ELSE None
           /\ UNCHANGED <<context, candidate, engine>>
  <2>1. EngineInv'
    BY <1>1, EngineUntouched
  <2>2. MaySync /\ input_valid' => input' = PromptInput
    BY <1>1 DEF CurrentLine, EngineInv, ValidLine, context
  <2>3. QED
    BY <1>1, <2>1, <2>2
<1>2. CASE /\ Invalidate /\ UNCHANGED request
           /\ MaySync
  BY <1>2, InvalidateKeeps
<1>3. CASE /\ MaySync /\ CurrentLine # None /\ KeepInput
           /\ input' = CurrentLine /\ input_valid' = TRUE
           /\ request' = [revision |-> revision + 1, line |-> CurrentLine]
  <2>1. CurrentLine = PromptInput /\ CurrentLine \in Texts
    BY <1>3, TextOfLine DEF CurrentLine, PromptInput
  <2>2. candidate' = None /\ live' = None /\ revision' = revision + 1
    BY <1>3, DismissForgets DEF KeepInput
  <2>3. request' \in Requests
    BY <1>3, <2>1 DEF Requests, EngineInv, ContextTypes
  <2>4. EngineInv'
    BY <1>3, <2>1, <2>2, <2>3 DEF EngineInv, ContextTypes, ValidLine,
       CandidateCurrent, EngineAgrees
  <2>5. QED
    BY <1>3, <2>1, <2>4
<1>4. QED
  BY <1>1, <1>2, <1>3 DEF Sync

(* The provider's answer becomes a candidate only for the open context. *)
LEMMA SubmitKeeps ==
    ASSUME EngineInv, Submit
    PROVE  EngineInv'
<1>1. UNCHANGED context
  BY DEF Submit
<1>2. request' = None /\ request \in Requests
  BY DEF Submit, EngineInv, ContextTypes
<1>3. CASE UNCHANGED <<candidate, live>>
  BY <1>1, <1>2, <1>3 DEF EngineInv, ContextTypes, ValidLine, CandidateCurrent,
     EngineAgrees, context
<1>4. CASE /\ Eligible
           /\ candidate' = [revision |-> request.revision, line |-> request.line,
                            origin |-> Place(screen)]
           /\ live' = request.revision
  <2>1. request.revision \in Nat /\ request.line \in Texts
    BY <1>2 DEF Requests
  <2>2. screen \in Lines
    BY <1>4, <2>1 DEF Eligible, PromptInput
  <2>3. Place(screen) \in Places
    BY <2>2, TextOfLine
  <2>4. candidate' \in Candidates
    BY <1>4, <2>1, <2>3 DEF Candidates
  <2>5. /\ candidate'.revision = revision /\ candidate'.line = input
        /\ input_valid /\ live' = revision
    BY <1>4 DEF Eligible
  <2>6. QED
    BY <1>1, <1>2, <2>1, <2>4, <2>5 DEF EngineInv, ContextTypes, ValidLine,
       CandidateCurrent, EngineAgrees, context
<1>5. QED
  BY <1>3, <1>4 DEF Submit

(* Accepting takes the candidate away on both sides. *)
LEMMA AcceptKeeps ==
    ASSUME EngineInv, NEW l, Accept(l)
    PROVE  EngineInv'
<1>1. candidate # None /\ candidate' = None /\ revision' = revision + 1
  BY DEF Accept, Acceptable
<1>2. live = candidate.revision /\ live' = None
  BY <1>1 DEF Accept, EngineInv, EngineAgrees
<1>3. UNCHANGED <<input, input_valid, request>>
  BY DEF Accept
<1>4. QED
  BY <1>1, <1>2, <1>3 DEF EngineInv, ContextTypes, ValidLine, CandidateCurrent,
     EngineAgrees

-----------------------------------------------------------------------------
(* Every step *)

(* Nothing is open, displayed or requested at first. *)
LEMMA EngineInit == Init => EngineInv
<1> SUFFICES ASSUME Init PROVE EngineInv
  OBVIOUS
<1>1. ~input_valid /\ input_valid \in BOOLEAN
  BY DEF Init
<1>2. QED
  BY <1>1 DEF Init, EngineInv, ContextTypes, ValidLine, CandidateCurrent, EngineAgrees

(* What the user does keeps the agreement. *)
LEMMA EngineUser ==
    ASSUME EngineInv, User
    PROVE  EngineInv'
<1>1. ASSUME NEW l \in Lines \cup {Run}, KeyInput(l) PROVE EngineInv'
  <2>1. CASE enabled
    BY <1>1, <2>1, InvalidateKeeps DEF KeyInput
  <2>2. CASE ~enabled
    BY <1>1, <2>2, EngineUntouched DEF KeyInput, engine
  <2>3. QED
    BY <2>1, <2>2
<1>2. ASSUME NEW l \in Lines, Accept(l) PROVE EngineInv'
  BY <1>2, AcceptKeeps
<1>3. CASE SetPreedit
  BY <1>3, InvalidateKeeps DEF SetPreedit
<1>4. CASE ClearPreedit
  BY <1>4, SyncKeeps DEF ClearPreedit
<1>5. CASE LoseFocus
  BY <1>5, InvalidateKeeps DEF LoseFocus
<1>6. CASE GainFocus
  BY <1>6, SyncKeeps DEF GainFocus
<1>7. CASE ToggleReadonly
  BY <1>7, EngineUntouched DEF ToggleReadonly
<1>8. CASE ChangeConfig
  <2>1. CASE enabled'
    BY <1>8, <2>1, SyncKeeps DEF ChangeConfig
  <2>2. CASE ~enabled'
    <3>1. candidate' = None /\ live' = None /\ revision' = revision + 1
      BY <1>8, <2>2 DEF ChangeConfig
    <3>2. input' = None /\ request' = None
      BY <1>8, <2>2 DEF ChangeConfig
    <3>3. ~input_valid' /\ input_valid' \in BOOLEAN
      BY <1>8, <2>2 DEF ChangeConfig
    <3>4. QED
      BY <3>1, <3>2, <3>3, ClosedContext
  <2>3. QED
    BY <2>1, <2>2
<1>9. CASE ResetBinding
  BY <1>9, EngineUntouched DEF ResetBinding, Unannounced
<1>10. QED
  BY <1>1, <1>2, <1>3, <1>4, <1>5, <1>6, <1>7, <1>8, <1>9 DEF User

(* What main does with its messages keeps the agreement. *)
LEMMA EngineMessage ==
    ASSUME EngineInv, MainMessage
    PROVE  EngineInv'
<1>1. CASE PopPromptInput
  BY <1>1, EngineUntouched DEF PopPromptInput
<1>2. CASE HandlePromptInput
  BY <1>2, SyncKeeps DEF HandlePromptInput
<1>3. CASE HandleStartCommand
  BY <1>3, InvalidateKeeps DEF HandleStartCommand
<1>4. CASE HandleChildExited
  BY <1>4, InvalidateKeeps DEF HandleChildExited
<1>5. ASSUME NEW v \in BOOLEAN, HandlePassword(v) PROVE EngineInv'
  <2>1. CASE v /\ ~password_input
    BY <1>5, <2>1, InvalidateKeeps DEF HandlePassword
  <2>2. CASE ~(v /\ ~password_input)
    BY <1>5, <2>2, EngineUntouched DEF HandlePassword, engine
  <2>3. QED
    BY <2>1, <2>2
<1>6. QED
  BY <1>1, <1>2, <1>3, <1>4, <1>5 DEF MainMessage

(* The parser and the writer touch neither the context nor the engine. *)
LEMMA ParserTouchesNothing ==
    ASSUME Parse \/ Write
    PROVE  UNCHANGED <<gates, handling, context, preedit, candidate, engine>>
  BY DEF Parse, Write, Redraw, LoseLine, ShowKey, ShowPrompt, RunLine, Reset,
     Process, ResumeSend, ResumeNotify, Resume, NotifyPromptInput,
     WriterChangesConfig, WriterSends, ClearScreen, ResizeScreen, Unannounced

(* Every step keeps the agreement. *)
LEMMA EngineStep == EngineInv /\ [Next]_vars => EngineInv'
<1> SUFFICES ASSUME EngineInv, [Next]_vars PROVE EngineInv'
  OBVIOUS
<1>1. CASE UNCHANGED vars
  BY <1>1, EngineUntouched DEF vars
<1>2. CASE Parse \/ Write
  BY <1>2, ParserTouchesNothing, EngineUntouched
<1>3. QED
  BY <1>1, <1>2, EngineUser, EngineMessage, SubmitKeeps DEF Next

(* A candidate belongs to the open context and to the line it is for. *)
THEOREM CandidatesAreCurrent == Spec => []CandidateCurrent
  BY EngineInit, EngineStep, PTL DEF Spec, EngineInv

(* The engine displays exactly the surface's candidate. *)
THEOREM EngineAndSurfaceAgree == Spec => []EngineAgrees
  BY EngineInit, EngineStep, PTL DEF Spec, EngineInv

-----------------------------------------------------------------------------
(* Types *)

SurfaceTypes ==
    /\ enabled \in BOOLEAN /\ focused \in BOOLEAN /\ readonly \in BOOLEAN
    /\ child_exited \in BOOLEAN /\ handling \in BOOLEAN /\ preedit \in BOOLEAN
    /\ disturbed \in BOOLEAN /\ moved \in BOOLEAN

TerminalTypes ==
    /\ password_input \in BOOLEAN
    /\ notified \in BOOLEAN /\ pending \in BOOLEAN /\ prediction \in BOOLEAN
    /\ screen \in Lines \cup {Middle, Elsewhere} /\ parser \in ParserPCs

QueueTypes ==
    /\ configs \in Seq(BOOLEAN)
    /\ appq \in Seq(Messages) /\ Len(appq) <= AppCap
    /\ echo \in Seq(Lines \cup {Run}) /\ events \in Nat

(* Whether the screen was changed unannounced. *)
LEMMA MovedTyped ==
    ASSUME moved \in BOOLEAN, [Next]_vars
    PROVE  moved' \in BOOLEAN
<1>1. ASSUME Sync PROVE moved' \in BOOLEAN
  BY <1>1 DEF Sync
<1>2. ASSUME NEW s, Unannounced(s) PROVE moved' \in BOOLEAN
  BY <1>2 DEF Unannounced
<1>3. CASE User
  <2>1. \/ Sync \/ (\E s : Unannounced(s)) \/ UNCHANGED moved
    BY <1>3 DEF User, KeyInput, Accept, SetPreedit, ClearPreedit, LoseFocus, GainFocus,
       ToggleReadonly, ChangeConfig, ResetBinding, history
  <2>2. QED
    BY <2>1, <1>1, <1>2
<1>4. CASE Submit \/ MainMessage
  <2>1. Sync \/ UNCHANGED moved
    BY <1>4 DEF Submit, MainMessage, PopPromptInput, HandlePromptInput,
       HandleStartCommand, HandleChildExited, HandlePassword, PopMessage, history
  <2>2. QED
    BY <2>1, <1>1
<1>5. CASE Parse
  BY <1>5 DEF Parse, Redraw, LoseLine, ShowKey, ShowPrompt, RunLine, Reset, Process,
     ResumeSend, ResumeNotify, Resume, NotifyPromptInput, history
<1>6. CASE Write
  BY <1>6, <1>2 DEF Write, WriterChangesConfig, WriterSends, ClearScreen, ResizeScreen,
     history
<1>7. QED
  BY <1>3, <1>4, <1>5, <1>6 DEF Next, vars, history

(* The flags of the surface stay flags. *)
LEMMA SurfaceTyped ==
    ASSUME SurfaceTypes, [Next]_vars
    PROVE  SurfaceTypes'
<1> USE DEF SurfaceTypes
<1>0. moved' \in BOOLEAN
  BY MovedTyped
<1>1. CASE UNCHANGED vars
  BY <1>1 DEF vars, gates, history
<1>2. CASE User
  BY <1>0, <1>2 DEF User, KeyInput, Accept, SetPreedit, ClearPreedit, LoseFocus,
     GainFocus, ToggleReadonly, ChangeConfig, ResetBinding, Unannounced, gates, history
<1>3. CASE Submit
  BY <1>0, <1>3 DEF Submit, gates, history
<1>4. CASE MainMessage
  BY <1>0, <1>4 DEF MainMessage, PopPromptInput, HandlePromptInput, HandleStartCommand,
     HandleChildExited, HandlePassword, PopMessage, gates, history
<1>5. CASE Parse
  <2>1. UNCHANGED disturbed \/ disturbed' = TRUE
    BY <1>5 DEF Parse, Redraw, LoseLine, ShowKey, ShowPrompt, RunLine, Reset,
       Process, ResumeSend, ResumeNotify, Resume, NotifyPromptInput, history
  <2>2. QED
    BY <1>0, <1>5, <2>1, ParserTouchesNothing DEF gates
<1>6. CASE Write
  <2>1. UNCHANGED disturbed
    BY <1>6 DEF Write, WriterChangesConfig, WriterSends, ClearScreen, ResizeScreen,
       Unannounced, history
  <2>2. QED
    BY <1>0, <1>6, <2>1, ParserTouchesNothing DEF gates
<1>7. QED
  BY <1>1, <1>2, <1>3, <1>4, <1>5, <1>6 DEF Next

(* So do those of the terminal and the parser. *)
LEMMA TerminalTyped ==
    ASSUME TerminalTypes, QueueTypes, [Next]_vars
    PROVE  TerminalTypes'
<1> USE DEF TerminalTypes
<1>1. CASE UNCHANGED vars
  BY <1>1 DEF vars, term, handler
<1>2. CASE User
  BY <1>2 DEF User, KeyInput, Accept, SetPreedit, ClearPreedit, LoseFocus, GainFocus,
     ToggleReadonly, ChangeConfig, ResetBinding, Unannounced, term, handler
<1>3. CASE Submit
  BY <1>3 DEF Submit, term, handler
<1>4. CASE MainMessage
  BY <1>4 DEF MainMessage, PopPromptInput, HandlePromptInput, HandleStartCommand,
     HandleChildExited, HandlePassword, PopMessage, term, handler, ParserPCs
<1>5. CASE Parse
  <2>1. /\ UNCHANGED prediction
        /\ UNCHANGED password_input \/ password_input' = FALSE
        /\ UNCHANGED pending \/ pending' = TRUE
        /\ UNCHANGED notified \/ notified' = (prediction /\ AtInput)
    BY <1>5 DEF Parse, Redraw, LoseLine, ShowKey, ShowPrompt, RunLine, Reset,
       Process, ResumeSend, ResumeNotify, Resume, NotifyPromptInput, term
  <2>2. parser' \in {"idle", "locked", "sendwait", "notewait"}
    BY <1>5 DEF Parse, Redraw, LoseLine, ShowKey, ShowPrompt, RunLine, Reset,
       ResumeSend, ResumeNotify, Resume, NotifyPromptInput
  <2>3. UNCHANGED screen \/ screen' \in Lines \cup {Middle, Elsewhere}
    BY <1>5 DEF Parse, Redraw, LoseLine, ShowKey, ShowPrompt, RunLine, Reset,
       Process, ResumeSend, ResumeNotify, Resume, NotifyPromptInput, term
  <2>4. QED
    BY <2>1, <2>2, <2>3 DEF ParserPCs
<1>6. CASE Write
  BY <1>6 DEF Write, WriterChangesConfig, WriterSends, ClearScreen, ResizeScreen,
     Unannounced, term, handler, QueueTypes
<1>7. QED
  BY <1>1, <1>2, <1>3, <1>4, <1>5, <1>6 DEF Next

(* What the queues of the user's input become. *)
LEMMA QueuesOfUser ==
    ASSUME QueueTypes, SurfaceTypes, User
    PROVE  QueueTypes'
<1> USE DEF QueueTypes
<1>1. ASSUME NEW l \in Lines \cup {Run}, KeyInput(l) PROVE QueueTypes'
  BY <1>1 DEF KeyInput, Stimulus
<1>2. ASSUME NEW l \in Lines, Accept(l) PROVE QueueTypes'
  BY <1>2 DEF Accept, Stimulus
<1>3. CASE ChangeConfig
  <2>1. enabled' \in BOOLEAN
    BY <1>3, SurfaceTyped DEF SurfaceTypes, Next, User
  <2>2. configs' = Append(configs, enabled')
    BY <1>3 DEF ChangeConfig
  <2>3. configs' \in Seq(BOOLEAN)
    BY <2>1, <2>2
  <2>4. QED
    BY <1>3, <2>3 DEF ChangeConfig, Stimulus
<1>4. CASE SetPreedit \/ ClearPreedit \/ LoseFocus \/ GainFocus \/ ToggleReadonly
  BY <1>4 DEF SetPreedit, ClearPreedit, LoseFocus, GainFocus, ToggleReadonly, Stimulus
<1>5. CASE ResetBinding
  BY <1>5 DEF ResetBinding, Unannounced, Stimulus
<1>6. QED
  BY <1>1, <1>2, <1>3, <1>4, <1>5 DEF User

(* Main only takes messages. *)
LEMMA QueuesOfMain ==
    ASSUME QueueTypes, MainMessage
    PROVE  QueueTypes'
<1> USE DEF QueueTypes
<1>1. ASSUME NEW m, PopMessage(m) PROVE QueueTypes'
  BY <1>1 DEF PopMessage
<1>2. CASE HandlePromptInput
  BY <1>2 DEF HandlePromptInput
<1>3. QED
  BY <1>1, <1>2 DEF MainMessage, PopPromptInput, HandleStartCommand,
     HandleChildExited, HandlePassword

(* The parser answers input and sends messages. *)
LEMMA QueuesOfParser ==
    ASSUME QueueTypes, Parse
    PROVE  QueueTypes'
<1> USE DEF QueueTypes
<1>1. UNCHANGED configs /\ (UNCHANGED events \/ Stimulus)
  BY DEF Parse, Redraw, LoseLine, ShowKey, ShowPrompt, RunLine, Reset, Process,
     ResumeSend, ResumeNotify, Resume, NotifyPromptInput
<1>2. UNCHANGED echo \/ (echo # <<>> /\ echo' = Tail(echo))
  BY DEF Parse, Redraw, LoseLine, ShowKey, ShowPrompt, RunLine, Reset, Process,
     ResumeSend, ResumeNotify, Resume, NotifyPromptInput
<1>3. UNCHANGED appq \/ (Room /\ \E m \in Messages : appq' = Append(appq, m))
  BY DEF Parse, Redraw, LoseLine, ShowKey, ShowPrompt, RunLine, Reset,
     ResumeSend, ResumeNotify, Resume, NotifyPromptInput, Messages
<1>4. configs' \in Seq(BOOLEAN) /\ events' \in Nat
  BY <1>1 DEF Stimulus
<1>5. echo' \in Seq(Lines \cup {Run})
  <2>1. CASE UNCHANGED echo
    BY <2>1
  <2>2. CASE echo # <<>> /\ echo' = Tail(echo)
    BY <2>2
  <2>3. QED
    BY <1>2, <2>1, <2>2
<1>6. appq' \in Seq(Messages) /\ Len(appq') <= AppCap
  BY <1>3 DEF Room
<1>7. QED
  BY <1>4, <1>5, <1>6

(* The writer takes configurations and sends messages. *)
LEMMA QueuesOfWriter ==
    ASSUME QueueTypes, Write
    PROVE  QueueTypes'
<1> USE DEF QueueTypes
<1>1. CASE WriterChangesConfig
  BY <1>1 DEF WriterChangesConfig
<1>2. ASSUME NEW m \in {"password_on", "password_off", "child_exited"},
             WriterSends(m)
      PROVE  QueueTypes'
  BY <1>2 DEF WriterSends, Stimulus, Messages, Room
<1>3. ASSUME NEW l \in Lines, ClearScreen(l) PROVE QueueTypes'
  BY <1>3 DEF ClearScreen, Unannounced, Stimulus
<1>4. CASE ResizeScreen
  BY <1>4 DEF ResizeScreen, Unannounced, Stimulus
<1>5. QED
  BY <1>1, <1>2, <1>3, <1>4 DEF Write

(* The queues carry what they may, whoever takes the step. *)
LEMMA QueuesTyped ==
    ASSUME QueueTypes, SurfaceTypes, [Next]_vars
    PROVE  QueueTypes'
<1>1. CASE UNCHANGED vars
  BY <1>1 DEF vars, QueueTypes
<1>2. CASE Submit
  BY <1>2 DEF Submit, QueueTypes
<1>3. QED
  BY <1>1, <1>2, QueuesOfUser, QueuesOfMain, QueuesOfParser, QueuesOfWriter DEF Next

(* Every variable keeps its type. *)
TypeInv == EngineInv /\ SurfaceTypes /\ TerminalTypes /\ QueueTypes

(* All types hold at first. *)
LEMMA TypeInit == Init => TypeInv
<1> SUFFICES ASSUME Init PROVE TypeInv
  OBVIOUS
<1>1. SurfaceTypes
  BY DEF Init, SurfaceTypes
<1>2. TerminalTypes
  BY DEF Init, TerminalTypes, ParserPCs
<1>3. QueueTypes
  BY DEF Init, QueueTypes
<1>4. QED
  BY <1>1, <1>2, <1>3, EngineInit DEF TypeInv

(* And after every step. *)
LEMMA TypeStep == TypeInv /\ [Next]_vars => TypeInv'
  BY EngineStep, SurfaceTyped, TerminalTyped, QueuesTyped DEF TypeInv

(* Type correctness of the prediction module. *)
THEOREM PredictionTyped == Spec => []TypeOK
<1>1. TypeInv => TypeOK
  BY DEF TypeInv, EngineInv, ContextTypes, SurfaceTypes, TerminalTypes, QueueTypes,
     TypeOK
<1>2. QED
  BY <1>1, TypeInit, TypeStep, PTL DEF Spec

-----------------------------------------------------------------------------
(* The open context and the screen *)

Carried == \E i \in DOMAIN appq : appq[i] = "prompt_input"
MidBatch == parser \in {"locked", "sendwait", "sendwoken"}

(* Surface and parser agree on whether there is anything to predict. *)
Attached == ~disturbed => enabled /\ prediction /\ ~readonly /\ configs = <<>>

(* The pending flag stands for a message. *)
PendingIsCarried == ~disturbed /\ pending => Carried \/ parser \in {"notewait", "notewoken"}

(* Between two batches the parser remembers that the cursor was in the     *)
(* input region, so that leaving it is announced too.                      *)
NotifiedAtInput == ~disturbed /\ ~MidBatch /\ AtInput => notified

(* A region that was left and is not going to be announced had no line, or *)
(* main is about to read the screen anyway.                                *)
LeavingIsRead ==
    ~disturbed /\ input_valid /\ ~notified /\ ~AtInput =>
        Carried \/ handling \/ parser \in {"notewait", "notewoken"}

(* The parser waits in mid-batch only with the input region left. *)
SendsElsewhere == parser \in {"sendwait", "sendwoken"} => ~AtInput

(* No context is open for a surface that may not sync. *)
ClosedWithoutFocus == child_exited \/ ~focused => ~input_valid

ContextInv ==
    /\ Attached /\ PendingIsCarried /\ NotifiedAtInput /\ LeavingIsRead
    /\ SendsElsewhere /\ ClosedWithoutFocus /\ ContextCurrent

(* A message that is appended hides none. *)
LEMMA AppendCarries ==
    ASSUME QueueTypes, NEW m, appq' = Append(appq, m)
    PROVE  /\ Carried => Carried'
           /\ m = "prompt_input" => Carried'
<1>1. /\ Len(appq') = Len(appq) + 1 /\ appq'[Len(appq) + 1] = m
      /\ \A i \in 1..Len(appq) : appq'[i] = appq[i]
  BY DEF QueueTypes
<1>2. DOMAIN appq = 1..Len(appq) /\ DOMAIN appq' = 1..Len(appq') /\ Len(appq) \in Nat
  BY DEF QueueTypes
<1>3. Carried => Carried'
  BY <1>1, <1>2 DEF Carried
<1>4. m = "prompt_input" => Carried'
  BY <1>1, <1>2 DEF Carried
<1>5. QED
  BY <1>3, <1>4

(* A message that is taken hides only itself. *)
LEMMA PopCarries ==
    ASSUME QueueTypes, NEW m, PopMessage(m), m # "prompt_input"
    PROVE  Carried => Carried'
<1> SUFFICES ASSUME Carried PROVE Carried'
  OBVIOUS
<1>1. PICK i \in DOMAIN appq : appq[i] = "prompt_input"
  BY DEF Carried
<1>2. appq # <<>> /\ Head(appq) = m /\ appq' = Tail(appq)
  BY DEF PopMessage
<1>3. Len(appq) \in Nat /\ DOMAIN appq = 1..Len(appq)
  BY DEF QueueTypes
<1>4. appq[1] = m
  BY <1>2 DEF QueueTypes
<1>5. i \in 2..Len(appq)
  BY <1>1, <1>3, <1>4
<1>6. i - 1 \in DOMAIN appq' /\ appq'[i - 1] = appq[i]
  BY <1>2, <1>3, <1>5 DEF QueueTypes
<1>7. QED
  BY <1>1, <1>6 DEF Carried

(* Away from the input region no line can be read. *)
LEMMA NoLineElsewhere == ~AtInput => PromptInput = None
  BY DEF AtInput, PromptInput

(* Steps that disturb owe nothing but closed contexts. *)
LEMMA ContextDisturbed ==
    ASSUME disturbed', ClosedWithoutFocus', SendsElsewhere'
    PROVE  ContextInv'
  BY DEF ContextInv, Attached, PendingIsCarried, NotifiedAtInput, LeavingIsRead,
     SendsElsewhere, ContextCurrent

(* Steps that leave the line and everything it depends on alone. *)
LEMMA ContextUntouched ==
    ASSUME ContextInv,
           UNCHANGED <<gates, handling, input, input_valid, term, handler, configs,
                       appq, history>>
    PROVE  ContextInv'
  BY DEF ContextInv, Attached, PendingIsCarried, NotifiedAtInput, LeavingIsRead,
     SendsElsewhere, ClosedWithoutFocus, ContextCurrent, Announced, Carried, MidBatch,
     AtInput, PromptInput, gates, term, handler, history

(* Steps that close the context. *)
LEMMA ContextClosed ==
    ASSUME ContextInv, ~input_valid',
           UNCHANGED <<enabled, readonly, configs, term, handler, appq, disturbed>>
    PROVE  ContextInv'
  BY DEF ContextInv, Attached, PendingIsCarried, NotifiedAtInput, LeavingIsRead,
     SendsElsewhere, ClosedWithoutFocus, ContextCurrent, Carried, MidBatch, AtInput,
     term, handler

(* A change that nobody announces is noted, or main is going to look.      *)
LEMMA ContextUnannounced ==
    ASSUME TypeInv, ContextInv, NEW s, Unannounced(s), parser # "locked",
           AtInput \/ s = Elsewhere
    PROVE  ContextInv'
<1>1. /\ UNCHANGED <<gates, handling, context, handler, configs, appq, disturbed>>
      /\ moved' = (moved \/ ~Announced) /\ (AtInput' => AtInput)
  BY DEF Unannounced, AtInput
<1>2. ~disturbed /\ AtInput => notified
  BY DEF ContextInv, NotifiedAtInput, SendsElsewhere, MidBatch, TypeInv, TerminalTypes,
     ParserPCs
<1>3. Attached' /\ PendingIsCarried' /\ NotifiedAtInput' /\ SendsElsewhere'
  BY <1>1, <1>2 DEF ContextInv, Attached, PendingIsCarried, NotifiedAtInput,
     SendsElsewhere, Carried, gates, handler
<1>4. LeavingIsRead'
  BY <1>1, <1>2 DEF ContextInv, LeavingIsRead, Carried, context, handler
<1>5. ClosedWithoutFocus'
  BY <1>1 DEF ContextInv, ClosedWithoutFocus, gates, context
<1>6. Announced => Announced'
  BY <1>1 DEF Announced, handler
<1>7. ContextCurrent'
  BY <1>1, <1>6 DEF ContextCurrent
<1>8. QED
  BY <1>3, <1>4, <1>5, <1>7 DEF ContextInv

(* A sync: what is open afterwards is the line on the screen. *)
LEMMA ContextSynced ==
    ASSUME TypeInv, ContextInv, Sync,
           UNCHANGED <<enabled, readonly, child_exited, term, handler, configs, appq,
                       disturbed>>,
           focused' = focused \/ focused' = TRUE,
           focused' \in BOOLEAN
    PROVE  ContextInv'
<1>1. /\ EngineInv' /\ (~MaySync => UNCHANGED context)
      /\ MaySync /\ input_valid' => input' = PromptInput
  BY SyncKeeps DEF TypeInv
<1>2. ClosedWithoutFocus'
  BY <1>1 DEF ContextInv, ClosedWithoutFocus, MaySync, context
<1>3. ~disturbed' /\ input_valid' => input' = PromptInput /\ PromptInput \in Texts
  BY <1>1, <1>2 DEF ClosedWithoutFocus, MaySync, ContextInv, Attached, EngineInv,
     ValidLine
<1>4. Attached' /\ PendingIsCarried' /\ NotifiedAtInput' /\ SendsElsewhere'
  BY DEF ContextInv, Attached, PendingIsCarried, NotifiedAtInput, SendsElsewhere,
     Carried, MidBatch, AtInput, term, handler
<1>5. LeavingIsRead'
  BY <1>3, NoLineElsewhere DEF LeavingIsRead, AtInput, term
<1>6. ContextCurrent'
  BY <1>3 DEF ContextCurrent, PromptInput, term
<1>7. QED
  BY <1>2, <1>4, <1>5, <1>6 DEF ContextInv

-----------------------------------------------------------------------------
(* Every step of the context's invariant *)

(* No context is open at first. *)
LEMMA ContextInit == Init => ContextInv
  BY DEF Init, ContextInv, Attached, PendingIsCarried, NotifiedAtInput, LeavingIsRead,
     SendsElsewhere, ClosedWithoutFocus, ContextCurrent, MidBatch, AtInput

(* What the user does. *)
LEMMA ContextUser ==
    ASSUME TypeInv, ContextInv, User
    PROVE  ContextInv'
<1>0. EngineInv
  BY DEF TypeInv
<1>1. ASSUME NEW l \in Lines \cup {Run}, KeyInput(l) PROVE ContextInv'
  <2>1. CASE enabled
    <3>1. ~input_valid'
      BY <1>1, <2>1 DEF KeyInput, Invalidate
    <3>2. QED
      BY <1>1, <3>1, ContextClosed DEF KeyInput, gates, history
  <2>2. CASE ~enabled
    BY <1>1, <2>2, ContextUntouched DEF KeyInput, context
  <2>3. QED
    BY <2>1, <2>2
<1>2. ASSUME NEW l \in Lines, Accept(l) PROVE ContextInv'
  BY <1>2, ContextUntouched DEF Accept
<1>3. CASE SetPreedit
  <2>1. ~input_valid'
    BY <1>3 DEF SetPreedit, Invalidate
  <2>2. QED
    BY <1>3, <2>1, ContextClosed DEF SetPreedit, gates, history
<1>4. CASE ClearPreedit
  BY <1>4, ContextSynced DEF ClearPreedit, gates, TypeInv, SurfaceTypes
<1>5. CASE LoseFocus
  <2>1. ~input_valid'
    BY <1>5 DEF LoseFocus, Invalidate
  <2>2. QED
    BY <1>5, <2>1, ContextClosed DEF LoseFocus, history
<1>6. CASE GainFocus
  BY <1>6, ContextSynced DEF GainFocus
<1>7. CASE ToggleReadonly
  BY <1>7, ContextDisturbed DEF ToggleReadonly, ContextInv, ClosedWithoutFocus,
     SendsElsewhere, AtInput, context, term, handler
<1>8. CASE ChangeConfig
  <2>1. ClosedWithoutFocus'
    <3>1. CASE enabled'
      BY <1>8, <1>0, <3>1, SyncKeeps DEF ChangeConfig, ContextInv, ClosedWithoutFocus,
         MaySync, context
    <3>2. CASE ~enabled'
      BY <1>8, <3>2 DEF ChangeConfig, ClosedWithoutFocus
    <3>3. QED
      BY <3>1, <3>2
  <2>2. QED
    BY <1>8, <2>1, ContextDisturbed DEF ChangeConfig, ContextInv, SendsElsewhere,
       AtInput, term, handler
<1>9. CASE ResetBinding
  BY <1>9, ContextUnannounced DEF ResetBinding, MainRuns
<1>10. QED
  BY <1>1, <1>2, <1>3, <1>4, <1>5, <1>6, <1>7, <1>8, <1>9 DEF User

(* A message other than prompt_input either closes the context or leaves   *)
(* it as it is.                                                            *)
LEMMA ContextOtherMessage ==
    ASSUME TypeInv, ContextInv, NEW m, PopMessage(m), m # "prompt_input",
           UNCHANGED <<handling, pending>>,
           \/ ~input_valid'
           \/ UNCHANGED <<child_exited, input, input_valid>>
    PROVE  ContextInv'
<1>1. Carried => Carried'
  BY PopCarries DEF TypeInv
<1>2. /\ MidBatch' = MidBatch
      /\ parser \in {"notewait", "notewoken"} => parser' \in {"notewait", "notewoken"}
      /\ parser # "idle" => parser' # "idle"
      /\ parser' \in {"sendwait", "sendwoken"} => parser \in {"sendwait", "sendwoken"}
  BY DEF PopMessage, MidBatch
<1>3. /\ UNCHANGED <<enabled, focused, readonly, configs, screen, notified, prediction>>
      /\ UNCHANGED history
  BY DEF PopMessage
<1>4. /\ Attached' /\ PendingIsCarried' /\ NotifiedAtInput' /\ LeavingIsRead'
      /\ SendsElsewhere'
  BY <1>1, <1>2, <1>3 DEF ContextInv, Attached, PendingIsCarried, NotifiedAtInput,
     LeavingIsRead, SendsElsewhere, AtInput, history
<1>5. ClosedWithoutFocus'
  BY <1>3 DEF ContextInv, ClosedWithoutFocus
<1>6. Announced => Announced'
  BY <1>1, <1>2 DEF Announced, Carried
<1>7. ContextCurrent'
  BY <1>3, <1>6 DEF ContextInv, ContextCurrent, PromptInput, history
<1>8. QED
  BY <1>4, <1>5, <1>7 DEF ContextInv

(* What main does with its messages. *)
LEMMA ContextMessage ==
    ASSUME TypeInv, ContextInv, MainMessage
    PROVE  ContextInv'
<1>1. CASE PopPromptInput
  <2>1. /\ pending' = FALSE /\ handling' = TRUE /\ MidBatch' = MidBatch
        /\ UNCHANGED <<child_exited, input_valid>>
        /\ parser' \in {"sendwait", "sendwoken"} => parser \in {"sendwait", "sendwoken"}
    BY <1>1 DEF PopPromptInput, PopMessage, MidBatch, context
  <2>2. UNCHANGED <<enabled, focused, readonly, configs, screen, notified, prediction,
                    disturbed>>
    BY <1>1 DEF PopPromptInput, PopMessage, history
  <2>3. QED
    BY <2>1, <2>2 DEF ContextInv, Attached, PendingIsCarried, NotifiedAtInput,
       LeavingIsRead, SendsElsewhere, ClosedWithoutFocus, ContextCurrent, Announced,
       AtInput
<1>2. CASE HandlePromptInput
  BY <1>2, ContextSynced DEF HandlePromptInput, gates, TypeInv, SurfaceTypes
<1>3. CASE HandleStartCommand
  BY <1>3, ContextOtherMessage DEF HandleStartCommand, Invalidate
<1>4. CASE HandleChildExited
  BY <1>4, ContextOtherMessage DEF HandleChildExited, Invalidate
<1>5. ASSUME NEW v \in BOOLEAN, HandlePassword(v) PROVE ContextInv'
  BY <1>5, ContextOtherMessage DEF HandlePassword, Invalidate, context
<1>6. QED
  BY <1>1, <1>2, <1>3, <1>4, <1>5 DEF MainMessage

(* A batch begins: what it leaves is announced at its end, or was read.    *)
LEMMA ContextProcess ==
    ASSUME TypeInv, ContextInv, parser = "idle", parser' \in {"locked", "sendwait"},
           parser' = "sendwait" => screen' = Elsewhere,
           UNCHANGED <<gates, handling, context, notified, pending, prediction, configs,
                       disturbed>>,
           UNCHANGED appq \/ appq' = Append(appq, "start_command")
    PROVE  ContextInv'
<1>1. Carried => Carried'
  <2>1. CASE UNCHANGED appq
    BY <2>1 DEF Carried
  <2>2. CASE appq' = Append(appq, "start_command")
    BY <2>2, AppendCarries DEF TypeInv
  <2>3. QED
    BY <2>1, <2>2
<1>2. ~disturbed /\ input_valid /\ ~notified => Carried \/ handling
  BY DEF ContextInv, NotifiedAtInput, LeavingIsRead, MidBatch
<1>3. Attached' /\ PendingIsCarried'
  BY <1>1 DEF ContextInv, Attached, PendingIsCarried, gates
<1>4. NotifiedAtInput' /\ LeavingIsRead' /\ SendsElsewhere'
  BY <1>1, <1>2 DEF NotifiedAtInput, LeavingIsRead, SendsElsewhere, MidBatch, AtInput,
     context
<1>5. ClosedWithoutFocus'
  BY DEF ContextInv, ClosedWithoutFocus, gates, context
<1>6. ContextCurrent'
  BY DEF ContextCurrent, Announced
<1>7. QED
  BY <1>3, <1>4, <1>5, <1>6 DEF ContextInv

(* A push that had to wait delivers its message or disturbs.               *)
LEMMA ContextResume ==
    ASSUME TypeInv, ContextInv, ResumeSend \/ ResumeNotify
    PROVE  ContextInv'
<1>0. SendsElsewhere'
  BY DEF ResumeSend, ResumeNotify, Resume, SendsElsewhere
<1>1. ClosedWithoutFocus'
  BY DEF ResumeSend, ResumeNotify, Resume, ContextInv, ClosedWithoutFocus, gates, context
<1>2. CASE disturbed'
  BY <1>0, <1>1, <1>2, ContextDisturbed
<1>3. CASE ~disturbed' /\ ResumeSend
  <2>1. Carried => Carried'
    BY <1>3, AppendCarries DEF ResumeSend, Resume, TypeInv
  <2>2. QED
    BY <1>0, <1>1, <1>3, <2>1 DEF ResumeSend, Resume, ContextInv, Attached, PendingIsCarried,
       NotifiedAtInput, LeavingIsRead, ContextCurrent, Announced, MidBatch, AtInput,
       gates, context, term
<1>4. CASE ~disturbed' /\ ResumeNotify
  <2>1. Carried'
    BY <1>4, AppendCarries DEF ResumeNotify, Resume, TypeInv
  <2>2. QED
    BY <1>0, <1>1, <1>4, <2>1 DEF ResumeNotify, Resume, ContextInv, Attached,
       PendingIsCarried, NotifiedAtInput, LeavingIsRead, ContextCurrent, Announced,
       Carried, MidBatch, AtInput, gates, term
<1>5. QED
  BY <1>2, <1>3, <1>4

(* The end of a batch. *)
LEMMA ContextNotify ==
    ASSUME TypeInv, ContextInv, NotifyPromptInput
    PROVE  ContextInv'
<1>1. /\ parser = "locked" /\ parser' \in {"idle", "notewait"}
      /\ notified' = (prediction /\ AtInput)
      /\ UNCHANGED <<gates, handling, context, term, prediction, configs, disturbed>>
  BY DEF NotifyPromptInput
<1>2. Attached' /\ ClosedWithoutFocus' /\ SendsElsewhere'
  BY <1>1 DEF ContextInv, Attached, ClosedWithoutFocus, SendsElsewhere, gates, context
<1>3. NotifiedAtInput'
  BY <1>1, <1>2 DEF NotifiedAtInput, MidBatch, Attached, AtInput, term
<1>4. CASE prediction /\ (AtInput \/ notified) /\ ~pending
  <2>1. Carried' \/ parser' = "notewait"
    BY <1>4, AppendCarries DEF NotifyPromptInput, TypeInv
  <2>2. PendingIsCarried' /\ ContextCurrent' /\ LeavingIsRead'
    BY <2>1 DEF PendingIsCarried, ContextCurrent, LeavingIsRead, Announced, Carried
  <2>3. QED
    BY <1>2, <1>3, <2>2 DEF ContextInv
<1>5. CASE ~(prediction /\ (AtInput \/ notified) /\ ~pending)
  <2>1. parser' = "idle" /\ UNCHANGED <<pending, appq>>
    BY <1>5 DEF NotifyPromptInput
  <2>2. PendingIsCarried'
    BY <1>1, <2>1 DEF ContextInv, PendingIsCarried, Carried
  <2>3. ~disturbed /\ input_valid => Carried \/ handling
    BY <1>1, <1>5 DEF ContextInv, Attached, PendingIsCarried, LeavingIsRead
  <2>4. ContextCurrent' /\ LeavingIsRead'
    BY <1>1, <2>1, <2>3 DEF ContextCurrent, LeavingIsRead, Announced, Carried, context
  <2>5. QED
    BY <1>2, <1>3, <2>2, <2>4 DEF ContextInv
<1>6. QED
  BY <1>4, <1>5

(* What the parser does. *)
LEMMA ContextParse ==
    ASSUME TypeInv, ContextInv, Parse
    PROVE  ContextInv'
<1>1. CASE Redraw \/ LoseLine \/ ShowKey \/ ShowPrompt \/ RunLine \/ Reset
  BY <1>1, ContextProcess DEF Redraw, LoseLine, ShowKey, ShowPrompt, RunLine, Reset,
     Process, history
<1>2. QED
  BY <1>1, ContextResume, ContextNotify DEF Parse

(* What the IO writer does. *)
LEMMA ContextWrite ==
    ASSUME TypeInv, ContextInv, Write
    PROVE  ContextInv'
<1>1. CASE WriterChangesConfig
  <2>1. disturbed'
    BY <1>1 DEF WriterChangesConfig, ContextInv, Attached, history
  <2>2. ClosedWithoutFocus'
    BY <1>1 DEF WriterChangesConfig, ContextInv, ClosedWithoutFocus, gates, context
  <2>3. SendsElsewhere'
    BY <1>1 DEF WriterChangesConfig, ContextInv, SendsElsewhere, AtInput, term
  <2>4. QED
    BY <2>1, <2>2, <2>3, ContextDisturbed
<1>2. ASSUME NEW m \in {"password_on", "password_off", "child_exited"},
             WriterSends(m)
      PROVE  ContextInv'
  <2>1. Carried => Carried'
    BY <1>2, AppendCarries DEF WriterSends, TypeInv
  <2>2. QED
    BY <1>2, <2>1 DEF WriterSends, ContextInv, Attached, PendingIsCarried,
       NotifiedAtInput, LeavingIsRead, SendsElsewhere, ClosedWithoutFocus,
       ContextCurrent, Announced, Carried, MidBatch, AtInput, PromptInput, gates,
       context, term, handler, history
<1>3. ASSUME NEW l \in Lines, ClearScreen(l) PROVE ContextInv'
  BY <1>3, ContextUnannounced DEF ClearScreen
<1>4. CASE ResizeScreen
  BY <1>4, ContextUnannounced DEF ResizeScreen
<1>5. QED
  BY <1>1, <1>2, <1>3, <1>4 DEF Write

(* Every step keeps the invariant of the context. *)
LEMMA ContextStep == TypeInv /\ ContextInv /\ [Next]_vars => ContextInv'
<1> SUFFICES ASSUME TypeInv, ContextInv, [Next]_vars PROVE ContextInv'
  OBVIOUS
<1>1. CASE UNCHANGED vars
  BY <1>1, ContextUntouched DEF vars, context
<1>2. CASE Submit
  BY <1>2, ContextUntouched DEF Submit, context
<1>3. QED
  BY <1>1, <1>2, ContextUser, ContextMessage, ContextParse, ContextWrite DEF Next

(* An open context that nothing is on its way to correct is for the line   *)
(* on the screen.                                                          *)
THEOREM OpenContextIsCurrent == Spec => []ContextCurrent
<1>1. ContextInv => ContextCurrent
  BY DEF ContextInv
<1>2. QED
  BY <1>1, TypeInit, TypeStep, ContextInit, ContextStep, PTL DEF Spec

(* A candidate for what is typed on the screen, displayed at the cursor. *)
Completes == candidate.line = PromptInput /\ candidate.origin = Place(screen)

(* Only an acceptance makes a candidate disappear with input sent and the  *)
(* context left open.                                                      *)
LEMMA InsertsAccept ==
    ASSUME TypeInv, [Next]_vars, Inserts
    PROVE  Completes
<1>1. echo' # echo /\ Len(echo') > Len(echo) /\ candidate' # candidate /\ input_valid'
  BY DEF Inserts
<1>2. ~(UNCHANGED vars)
  BY <1>1 DEF vars
<1>3. ASSUME NEW l \in Lines, Accept(l) PROVE Completes
  BY <1>3 DEF Accept, Acceptable, TypeInv, EngineInv, CandidateCurrent, Completes
<1>4. ASSUME NEW l \in Lines \cup {Run}, KeyInput(l) PROVE FALSE
  BY <1>1, <1>4 DEF KeyInput, Invalidate
<1>5. ~Parse /\ ~Write
  BY <1>1, ParserTouchesNothing
<1>6. ~MainMessage
  BY <1>1 DEF MainMessage, PopPromptInput, HandlePromptInput, HandleStartCommand,
     HandleChildExited, HandlePassword, PopMessage
<1>7. ~Submit
  BY <1>1 DEF Submit
<1>8. QED
  BY <1>1, <1>2, <1>3, <1>4, <1>5, <1>6, <1>7 DEF Next, User, SetPreedit, ClearPreedit,
     LoseFocus, GainFocus, ToggleReadonly, ChangeConfig, ResetBinding, Unannounced

(* What is inserted completes what is typed on the screen, where it was    *)
(* displayed.                                                              *)
THEOREM InsertedForThisLine == Spec => AcceptedForThisLine
<1>1. TypeInv /\ [Next]_vars => [Inserts => Completes]_vars
  BY InsertsAccept
<1>2. QED
  BY <1>1, TypeInit, TypeStep, PTL DEF Spec, AcceptedForThisLine, Completes

=============================================================================
