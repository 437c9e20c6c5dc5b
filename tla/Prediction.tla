----------------------------- MODULE Prediction -----------------------------
(***************************************************************************)
(* Inline command prediction at the shell prompt: the surface's context    *)
(* and candidate (src/src/Surface.zig), the announcements of the parser    *)
(* that the input line may have changed (src/src/termio/stream_handler.zig)*)
(* and the engine of the macOS application that asks a provider for a      *)
(* candidate (macos/Sources/Features/Prediction/PredictionEngine.swift).   *)
(*                                                                         *)
(* Everything but the parser and the writer runs on the main thread.  The  *)
(* renderer state mutex is held by the parser from the output it processes *)
(* to the announcement (parser = "locked"), except while it waits for room *)
(* in the app mailbox; every step of main that reads the screen or the     *)
(* candidate takes it.  What of a step of main comes after its critical    *)
(* section touches only what main alone uses, and is part of the step.     *)
(***************************************************************************)
EXTENDS Naturals, Sequences, FiniteSets

CONSTANTS Places, Texts,  \* a line: where the cursor is and what is typed
          Middle,         \* at the prompt, but the line cannot be determined
          Elsewhere,      \* not in the input region of the primary screen
          Run,            \* the key that makes the shell run the line
          None,
          AppCap,         \* room in the app mailbox (64 in the code)
          MaxEvents,      \* bound: what user, shell and tty do
          MaxEcho         \* bound: keys the shell has not answered

Lines == Places \X Texts
Candidates == [revision : Nat, line : Texts, origin : Places]
Requests == [revision : Nat, line : Texts]

ASSUME PredictionAssumption ==
    /\ AppCap \in Nat \ {0} /\ MaxEvents \in Nat /\ MaxEcho \in Nat
    /\ Middle \notin Lines /\ Elsewhere \notin Lines /\ Middle # Elsewhere
    /\ Run \notin Lines
    /\ None \notin Texts /\ None \notin Nat
    /\ None \notin Candidates /\ None \notin Requests

VARIABLES enabled, focused, readonly, child_exited,  \* Surface
          handling,        \* main is between clearing `pending' and the sync
          revision, input, input_valid, \* the context (prediction_ in the code)
          preedit, candidate,           \* renderer.State
          screen, password_input,       \* Terminal
          parser, notified, pending, prediction, \* stream_handler
          configs,         \* change_config messages to the IO writer
          appq,            \* surface messages in the app mailbox
          request, live,   \* PredictionEngine: in flight, displayed
          echo,            \* input sent to the shell and not yet shown
          events,          \* counts towards MaxEvents
          disturbed, moved \* history, see ContextCurrent

gates   == <<enabled, focused, readonly, child_exited>>
context == <<revision, input, input_valid>>
engine  == <<request, live>>
term    == <<screen, password_input>>
handler == <<parser, notified, pending, prediction>>
history == <<disturbed, moved>>
vars == <<gates, handling, context, preedit, candidate, term, handler, configs,
          appq, engine, echo, events, history>>

Place(l) == l[1]
Text(l) == l[2]
AtInput == screen # Elsewhere

(* Terminal.promptInput: what is typed before the cursor, if that is known. *)
(* It does not tell where.                                                 *)
PromptInput == IF screen \in Lines THEN Text(screen) ELSE None

(* Whether main can take the renderer state mutex. *)
MainRuns == ~handling /\ parser # "locked"

Stimulus == events < MaxEvents /\ events' = events + 1

Init ==
    /\ enabled = TRUE /\ focused = TRUE /\ readonly = FALSE /\ child_exited = FALSE
    /\ handling = FALSE
    /\ revision = 0 /\ input = None /\ input_valid = FALSE
    /\ preedit = FALSE /\ candidate = None
    /\ screen = Elsewhere /\ password_input = FALSE
    /\ parser = "idle" /\ notified = FALSE /\ pending = FALSE /\ prediction = TRUE
    /\ configs = <<>> /\ appq = <<>>
    /\ request = None /\ live = None
    /\ echo = <<>> /\ events = 0 /\ disturbed = FALSE /\ moved = FALSE

-----------------------------------------------------------------------------
(* Surface: the context *)

(* Mutant: the engine is told of the new revision. *)
DismissAsCurrent ==
    /\ candidate' = None
    /\ live' = IF candidate # None /\ live = revision + 1 THEN None ELSE live

(* predictionDismissLocked, and the engine's candidateDismissed. *)
Dismiss ==
    /\ candidate' = None
    /\ live' = IF candidate # None /\ live = candidate.revision THEN None ELSE live

KeepInput == revision' = revision + 1 /\ Dismiss
Invalidate == KeepInput /\ input' = None /\ input_valid' = FALSE

MaySync == enabled' /\ ~child_exited' /\ ~readonly' /\ focused'
CurrentLine == IF password_input \/ preedit' THEN None ELSE PromptInput

(* predictionSync, with the engine's promptReady.  The caller may have     *)
(* changed the gates and the preedit before.                               *)
Sync ==
    LET unchanged == CurrentLine = IF input_valid THEN input ELSE None
    IN  /\ moved' = (moved /\ ~MaySync)
        /\ \/ /\ ~MaySync \/ unchanged
              /\ UNCHANGED <<context, candidate, engine>>
           \/ /\ MaySync /\ ~unchanged /\ CurrentLine = None
              /\ Invalidate
              /\ UNCHANGED request
           \/ /\ MaySync /\ ~unchanged /\ CurrentLine # None
              /\ KeepInput
              /\ input' = CurrentLine /\ input_valid' = TRUE
              /\ request' = [revision |-> revision + 1, line |-> CurrentLine]

-----------------------------------------------------------------------------
(* Main: what the user does *)

(* A key press or a paste that reaches the pty.  The shell will show l, or *)
(* run the line.                                                           *)
KeyInput(l) ==
    /\ MainRuns /\ Stimulus /\ ~child_exited /\ Len(echo) < MaxEcho
    /\ IF enabled THEN Invalidate ELSE UNCHANGED <<context, candidate, live>>
    /\ echo' = IF readonly THEN echo ELSE Append(echo, l)
    /\ UNCHANGED <<gates, handling, preedit, term, handler, configs, appq,
                   request, history>>

(* Mutant: the cursor is not compared with the place of the candidate. *)
AcceptableAnywhere ==
    /\ candidate # None /\ candidate.revision = revision /\ input_valid
    /\ ~password_input /\ ~preedit /\ AtInput
    /\ PromptInput = input

(* What predictionAccept validates under the lock. *)
Acceptable ==
    /\ candidate # None /\ candidate.revision = revision /\ input_valid
    /\ ~password_input /\ ~preedit /\ AtInput
    /\ PromptInput = input
    /\ candidate.origin = Place(screen)

(* predictionAccept, and the engine's candidateAccepted.  The shell will   *)
(* show l.                                                                 *)
Accept(l) ==
    /\ MainRuns /\ Stimulus /\ Len(echo) < MaxEcho
    /\ Acceptable
    /\ candidate' = None
    /\ revision' = revision + 1
    /\ live' = IF live = candidate.revision THEN None ELSE live
    /\ echo' = IF readonly THEN echo ELSE Append(echo, l)
    /\ UNCHANGED <<gates, handling, input, input_valid, preedit, term, handler,
                   configs, appq, request, history>>

(* preeditCallback *)
SetPreedit ==
    /\ MainRuns /\ Stimulus
    /\ Invalidate
    /\ preedit' = TRUE
    /\ UNCHANGED <<gates, handling, term, handler, configs, appq, request, echo,
                   history>>

ClearPreedit ==
    /\ MainRuns /\ preedit
    /\ preedit' = FALSE
    /\ UNCHANGED gates /\ Sync
    /\ UNCHANGED <<handling, term, handler, configs, appq, echo, events, disturbed>>

(* focusCallback *)
LoseFocus ==
    /\ MainRuns /\ Stimulus /\ focused
    /\ Invalidate
    /\ focused' = FALSE
    /\ UNCHANGED <<enabled, readonly, child_exited, handling, preedit, term,
                   handler, configs, appq, request, echo, history>>

GainFocus ==
    /\ MainRuns /\ ~focused
    /\ focused' = TRUE
    /\ UNCHANGED <<enabled, readonly, child_exited, preedit>> /\ Sync
    /\ UNCHANGED <<handling, term, handler, configs, appq, echo, events, disturbed>>

(* toggle_readonly does not touch the context. *)
ToggleReadonly ==
    /\ MainRuns /\ Stimulus
    /\ readonly' = ~readonly
    /\ disturbed' = TRUE
    /\ UNCHANGED <<enabled, focused, child_exited, handling, context, preedit,
                   candidate, term, handler, configs, appq, engine, echo, moved>>

(* updateConfig, with the engine's configDidChange.  The parser follows    *)
(* when the IO writer has handled its copy of the message.                 *)
ChangeConfig ==
    /\ MainRuns /\ Stimulus
    /\ enabled' = ~enabled
    /\ configs' = Append(configs, enabled')
    /\ disturbed' = TRUE
    /\ UNCHANGED <<focused, readonly, child_exited, preedit>>
    /\ IF enabled' THEN Sync
       ELSE /\ revision' = revision + 1 /\ input' = None /\ input_valid' = FALSE
            /\ candidate' = None
            /\ request' = None /\ live' = None
            /\ UNCHANGED moved
    /\ UNCHANGED <<handling, term, handler, appq, echo>>

WriterChangesConfig ==
    /\ configs # <<>> /\ parser # "locked"
    /\ prediction' = Head(configs)
    /\ configs' = Tail(configs)
    /\ UNCHANGED <<gates, handling, context, preedit, candidate, term, parser,
                   notified, pending, appq, engine, echo, events, history>>

-----------------------------------------------------------------------------
(* Changes of the screen that nobody announces *)

(* An announcement is on its way to main, or the parser is going to decide *)
(* on one.                                                                 *)
Announced ==
    \/ \E i \in DOMAIN appq : appq[i] = "prompt_input"
    \/ handling
    \/ parser # "idle"

Unannounced(s) ==
    /\ Stimulus
    /\ screen' = s
    /\ moved' = (moved \/ ~Announced)
    /\ UNCHANGED <<gates, handling, context, preedit, candidate, handler, configs,
                   appq, engine, disturbed>>

(* The reset key binding: fullReset on the main thread. *)
ResetBinding ==
    /\ MainRuns
    /\ Unannounced(Elsewhere)
    /\ password_input' = FALSE
    /\ UNCHANGED echo

(* clearScreen of the IO thread erases a prompt and has the shell repaint  *)
(* it: the shell will show l.                                              *)
ClearScreen(l) ==
    /\ parser # "locked" /\ AtInput /\ Len(echo) < MaxEcho
    /\ \E s \in Lines \cup {Middle} : Unannounced(s)
    /\ echo' = Append(echo, l)
    /\ UNCHANGED password_input

(* resize of the IO thread: the cursor stays in the input region, but the  *)
(* line may be moved, cut or erased for the shell to redraw.               *)
ResizeScreen ==
    /\ parser # "locked" /\ AtInput
    /\ \E s \in Lines \cup {Middle} : Unannounced(s)
    /\ UNCHANGED <<password_input, echo>>

-----------------------------------------------------------------------------
(* Main: the provider's answer (PredictionEngine.submit, predictionSubmit) *)

Eligible ==
    /\ enabled /\ ~child_exited /\ ~readonly /\ focused /\ input_valid
    /\ request.revision = revision
    /\ ~password_input /\ ~preedit /\ AtInput
    /\ request.line = input /\ request.line = PromptInput

(* The answer to a request that was superseded is dropped by the engine.   *)
(* The candidate keeps no line in the code: its text completes the line it *)
(* was asked for.                                                          *)
Submit ==
    /\ MainRuns /\ request # None
    /\ request' = None
    /\ \/ /\ Eligible
          /\ candidate' = [revision |-> request.revision, line |-> request.line,
                           origin |-> Place(screen)]
          /\ live' = request.revision
       \/ UNCHANGED <<candidate, live>> \* rejected, or nothing to predict
    /\ UNCHANGED <<gates, handling, context, preedit, term, handler, configs,
                   appq, echo, events, history>>

-----------------------------------------------------------------------------
(* Main: the app mailbox *)

(* Room has been made: one thread asleep in push may be woken. *)
PopMessage(m) ==
    /\ appq # <<>> /\ Head(appq) = m
    /\ appq' = Tail(appq)
    /\ \/ UNCHANGED parser
       \/ parser = "sendwait" /\ parser' = "sendwoken"
       \/ parser = "notewait" /\ parser' = "notewoken"
    /\ UNCHANGED <<enabled, focused, readonly, configs, preedit, screen, notified,
                   prediction, echo, events, history>>

(* Mutant: the flag is cleared only after the screen has been read. *)
PopPromptInputFlagged ==
    /\ MainRuns /\ PopMessage("prompt_input")
    /\ handling' = TRUE
    /\ UNCHANGED <<child_exited, context, candidate, password_input, pending, engine>>

(* promptInputHandled comes before the sync. *)
PopPromptInput ==
    /\ MainRuns /\ PopMessage("prompt_input")
    /\ pending' = FALSE
    /\ handling' = TRUE
    /\ UNCHANGED <<child_exited, context, candidate, password_input, engine>>

HandlePromptInput ==
    /\ handling /\ parser # "locked"
    /\ handling' = FALSE
    /\ UNCHANGED <<gates, preedit>> /\ Sync
    /\ UNCHANGED <<term, handler, configs, appq, echo, events, disturbed>>

(* start_command, with the engine's commandStarted. *)
HandleStartCommand ==
    /\ MainRuns /\ PopMessage("start_command")
    /\ Invalidate
    /\ request' = IF enabled THEN None ELSE request
    /\ UNCHANGED <<child_exited, handling, password_input, pending>>

HandleChildExited ==
    /\ MainRuns /\ PopMessage("child_exited")
    /\ child_exited' = TRUE
    /\ Invalidate
    /\ UNCHANGED <<handling, password_input, pending, request>>

(* passwordInput *)
HandlePassword(v) ==
    /\ MainRuns /\ PopMessage(IF v THEN "password_on" ELSE "password_off")
    /\ password_input' = v
    /\ IF v /\ ~password_input THEN Invalidate
       ELSE UNCHANGED <<context, candidate, live>>
    /\ UNCHANGED <<child_exited, handling, pending, request>>

MainMessage ==
    \/ PopPromptInput \/ HandlePromptInput \/ HandleStartCommand
    \/ HandleChildExited \/ \E v \in BOOLEAN : HandlePassword(v)

-----------------------------------------------------------------------------
(* The parser *)

Room == Len(appq) < AppCap

(* One batch of output leaves the screen showing s.  The stream's handlers *)
(* may first have to send a message of their own.                          *)
Process(s) ==
    /\ parser = "idle"
    /\ screen' = s
    /\ UNCHANGED <<gates, handling, context, preedit, candidate, notified, pending,
                   prediction, configs, engine, history>>

(* The shell redraws or loses the line, shows the answer to a key, shows a *)
(* new prompt, or runs the line.                                           *)
Redraw ==
    /\ AtInput
    /\ Process(screen)
    /\ parser' = "locked"
    /\ UNCHANGED <<password_input, appq, echo, events>>

LoseLine ==
    /\ AtInput /\ Stimulus
    /\ \E s \in {Middle, Elsewhere} : Process(s)
    /\ parser' = "locked"
    /\ UNCHANGED <<password_input, appq, echo>>

ShowKey ==
    /\ AtInput /\ echo # <<>> /\ Head(echo) \in Lines
    /\ Process(Head(echo))
    /\ echo' = Tail(echo)
    /\ parser' = "locked"
    /\ UNCHANGED <<password_input, appq, events>>

ShowPrompt ==
    /\ Stimulus
    /\ \E l \in Lines : Process(l)
    /\ parser' = "locked"
    /\ UNCHANGED <<password_input, appq, echo>>

(* OSC 133 C: start_command goes through surfaceMessageWriter. *)
RunLine ==
    /\ AtInput /\ echo # <<>> /\ Head(echo) = Run
    /\ Process(Elsewhere)
    /\ echo' = Tail(echo)
    /\ \/ Room /\ appq' = Append(appq, "start_command") /\ parser' = "locked"
       \/ ~Room /\ parser' = "sendwait" /\ UNCHANGED appq
    /\ UNCHANGED <<password_input, events>>

(* fullReset clears the flag behind the back of passwordInput. *)
Reset ==
    /\ Stimulus
    /\ Process(Elsewhere)
    /\ password_input' = FALSE
    /\ parser' = "locked"
    /\ UNCHANGED <<appq, echo>>

(* Mutant: a woken push no longer looks for room. *)
ResumeUnchecked(from, to, m) ==
    /\ parser = from
    /\ parser' = to
    /\ appq' = Append(appq, m)
    /\ UNCHANGED <<gates, handling, context, preedit, candidate, term, notified,
                   pending, prediction, configs, engine, echo, events, history>>

(* A woken push finds room, or the queue full again: then the message is   *)
(* dropped (module BlockingQueue).                                         *)
Resume(from, to, m) ==
    /\ parser = from
    /\ parser' = to
    /\ \/ Room /\ appq' = Append(appq, m) /\ UNCHANGED disturbed
       \/ ~Room /\ disturbed' = TRUE /\ UNCHANGED appq
    /\ UNCHANGED <<gates, handling, context, preedit, candidate, term, notified,
                   pending, prediction, configs, engine, echo, events, moved>>

ResumeSend == Resume("sendwoken", "locked", "start_command")

NotifyPromptInput ==
    /\ parser = "locked"
    /\ notified' = (prediction /\ AtInput)
    /\ moved' = FALSE
    /\ IF prediction /\ (AtInput \/ notified) /\ ~pending
       THEN /\ pending' = TRUE
            /\ \/ Room /\ appq' = Append(appq, "prompt_input") /\ parser' = "idle"
               \/ ~Room /\ parser' = "notewait" /\ UNCHANGED appq
       ELSE parser' = "idle" /\ UNCHANGED <<pending, appq>>
    /\ UNCHANGED <<gates, handling, context, preedit, candidate, term, prediction,
                   configs, engine, echo, events, disturbed>>

ResumeNotify == Resume("notewoken", "idle", "prompt_input")

Parse ==
    \/ Redraw \/ LoseLine \/ ShowKey \/ ShowPrompt \/ RunLine \/ Reset
    \/ ResumeSend \/ NotifyPromptInput \/ ResumeNotify

(* The IO writer announces what its polls of the tty saw (module           *)
(* PasswordInput) and the end of the child.                              *)
WriterSends(m) ==
    /\ Room /\ Stimulus
    /\ appq' = Append(appq, m)
    /\ UNCHANGED <<gates, handling, context, preedit, candidate, term, handler,
                   configs, engine, echo, history>>

-----------------------------------------------------------------------------
Write ==
    \/ WriterChangesConfig
    \/ \E m \in {"password_on", "password_off", "child_exited"} : WriterSends(m)
    \/ \E l \in Lines : ClearScreen(l)
    \/ ResizeScreen

User ==
    \/ \E l \in Lines \cup {Run} : KeyInput(l)
    \/ \E l \in Lines : Accept(l)
    \/ SetPreedit \/ ClearPreedit \/ LoseFocus \/ GainFocus
    \/ ToggleReadonly \/ ChangeConfig \/ ResetBinding

Next == User \/ Submit \/ MainMessage \/ Parse \/ Write

Spec == Init /\ [][Next]_vars

-----------------------------------------------------------------------------
Messages == {"prompt_input", "start_command", "child_exited", "password_on",
             "password_off"}
ParserPCs == {"idle", "locked", "sendwait", "sendwoken", "notewait", "notewoken"}

TypeOK ==
    /\ enabled \in BOOLEAN /\ focused \in BOOLEAN /\ readonly \in BOOLEAN
    /\ child_exited \in BOOLEAN /\ handling \in BOOLEAN /\ preedit \in BOOLEAN
    /\ revision \in Nat /\ input \in Texts \cup {None} /\ input_valid \in BOOLEAN
    /\ candidate \in Candidates \cup {None}
    /\ screen \in Lines \cup {Middle, Elsewhere} /\ password_input \in BOOLEAN
    /\ parser \in ParserPCs /\ notified \in BOOLEAN
    /\ pending \in BOOLEAN /\ prediction \in BOOLEAN
    /\ configs \in Seq(BOOLEAN)
    /\ appq \in Seq(Messages) /\ Len(appq) <= AppCap
    /\ request \in Requests \cup {None}
    /\ live \in Nat \cup {None}
    /\ echo \in Seq(Lines \cup {Run})
    /\ events \in Nat /\ disturbed \in BOOLEAN /\ moved \in BOOLEAN

(* A candidate belongs to the open context: every change of the context    *)
(* takes it away.                                                          *)
CandidateCurrent ==
    candidate # None =>
        /\ candidate.revision = revision
        /\ input_valid /\ candidate.line = input

(* The engine and the surface agree on which candidate is displayed, so    *)
(* that its outcome is reported once and for the right one.                *)
EngineAgrees == live = IF candidate = None THEN None ELSE candidate.revision

(* An open context is for the line that the screen shows, or main is going *)
(* to look at the screen again: no batch of output falls between the       *)
(* pending flag, its clearing and the reading of the screen.  Four things  *)
(* disturb this: a change of the configuration reaches the parser later    *)
(* than the surface, readonly stops the sync but keeps the context, a push *)
(* can be refused, after which the flag stays set without a message, and   *)
(* the reset binding, clearScreen and resize change the screen without     *)
(* announcing it.  The last one heals: the next batch of output announces  *)
(* what they did as well, even if the reset left the input region.         *)
ContextCurrent ==
    ~disturbed /\ ~moved /\ input_valid /\ ~Announced => PromptInput = input

(* A step that inserts a candidate. *)
Inserts ==
    /\ candidate # None /\ candidate' = None
    /\ input_valid' /\ Len(echo') > Len(echo)

(* What is inserted completes what is typed on the screen, and is inserted *)
(* where it was displayed, whatever output, requests, answers, resets and  *)
(* resizes came in between.                                                *)
AcceptedForThisLine ==
    [][Inserts => /\ candidate.line = PromptInput
                  /\ candidate.origin = Place(screen)]_vars

=============================================================================
