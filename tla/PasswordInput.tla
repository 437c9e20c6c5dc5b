---------------------------- MODULE PasswordInput ----------------------------
(***************************************************************************)
(* Secure keyboard input while the tty asks for a password: the poll of    *)
(* the tty mode by the IO thread (src/src/termio/Exec.zig), the flag of    *)
(* the terminal and the message to the surface (src/src/Surface.zig), the  *)
(* view, and the application's balance of enabling and disabling           *)
(* (macos/Sources/Features/Secure Input/SecureInput.swift), with           *)
(* auto-secure-input on and a single surface.                              *)
(***************************************************************************)
EXTENDS SurfaceShared

VARIABLES tty,            \* cooked, password (canonical, no echo) or raw
          termios_mode, termios_timer, running, \* Exec.ThreadData
          password_input, \* Terminal
          scoped, global, enabled, \* SecureInput
          active, told,   \* NSApp.isActive, and as last notified
          closed,         \* the view is gone
          disturbed       \* history, see SecureInputFollows

secure  == <<scoped, global, enabled>>
system  == <<active, told, closed>>
polling == <<termios_mode, termios_timer, running>>
password == <<tty, polling, password_input, secure, system, disturbed>>

Modes == {"cooked", "password", "raw"}

PasswordInit ==
    /\ tty = "cooked"
    /\ termios_mode = "cooked" /\ termios_timer = TRUE /\ running = TRUE
    /\ password_input = FALSE
    /\ scoped = "absent" /\ global = FALSE /\ enabled = FALSE
    /\ active = TRUE /\ told = TRUE /\ closed = FALSE
    /\ disturbed = FALSE

-----------------------------------------------------------------------------
(* The IO thread's poll *)

Announcement(on) == <<"password", on>>

(* What of a push follows: the timer is started again if it may run. *)
Repeat == termios_timer' = running'

(* termiosTimer; a tty that cannot be read counts as cooked.  A mode that  *)
(* agrees with the flag is not announced, even when a message that will    *)
(* change the flag is still on its way.                                    *)
Poll(mode) ==
    LET on == mode = "password"
    IN  /\ termios_mode' = mode
        /\ \/ /\ mode = termios_mode
              /\ Repeat
              /\ UNCHANGED <<appq, poll, disturbed>>
           \/ /\ mode # termios_mode /\ Unlocked /\ password_input = on
              /\ Repeat
              /\ disturbed' = (disturbed \/ Holds(appq, Announcement(~on)))
              /\ UNCHANGED <<appq, poll>>
           \/ /\ mode # termios_mode /\ Unlocked /\ password_input # on
              /\ Len(appq) < AppCap
              /\ appq' = Append(appq, Announcement(on))
              /\ Repeat
              /\ UNCHANGED <<poll, disturbed>>
           \/ /\ mode # termios_mode /\ Unlocked /\ password_input # on
              /\ Len(appq) = AppCap
              /\ poll' = IF on THEN "on" ELSE "off"
              /\ termios_timer' = FALSE
              /\ UNCHANGED <<appq, disturbed>>

PollTty ==
    \/ Poll(tty) /\ UNCHANGED events
    \/ tty # "cooked" /\ Poll("cooked") /\ Stimulus

TermiosFires ==
    /\ IoIdle /\ termios_timer
    /\ UNCHANGED running /\ PollTty
    /\ UNCHANGED <<focused, io, draining, rq, rwoken, parsing, screen,
                   tty, password_input, secure, system>>

(* The blocked push gets room, or finds the mailbox full again after its   *)
(* single wait and is refused.                                             *)
ResumePoll ==
    /\ poll # "idle" /\ poll' = "idle"
    /\ \/ /\ Len(appq) < AppCap
          /\ appq' = Append(appq, Announcement(poll = "on"))
          /\ UNCHANGED disturbed
       \/ /\ Len(appq) = AppCap
          /\ disturbed' = TRUE
          /\ UNCHANGED appq
    /\ UNCHANGED running /\ Repeat
    /\ UNCHANGED <<focused, io, draining, rq, rwoken, parsing, screen, events,
                   tty, termios_mode, password_input, secure, system>>

(* Mutant: only a poll that starts the timer lets it run. *)
FocusGainedIfStopped(v) ==
    /\ Unlocked /\ TakeIo(<<"focused", v>>)
    /\ running' = (v /\ (running \/ ~termios_timer))
    /\ IF v /\ ~termios_timer THEN PollTty
       ELSE UNCHANGED <<termios_mode, termios_timer, appq, poll, disturbed, events>>
    /\ UNCHANGED <<focused, rq, rwoken, parsing, screen, tty, password_input,
                   secure, system>>

(* focusGained: a timer that has not ticked since the focus was lost goes  *)
(* on; one that has stopped is started by a poll.                          *)
FocusGained(v) ==
    /\ Unlocked /\ TakeIo(<<"focused", v>>)
    /\ running' = v
    /\ IF v /\ ~termios_timer THEN PollTty
       ELSE UNCHANGED <<termios_mode, termios_timer, appq, poll, disturbed, events>>
    /\ UNCHANGED <<focused, rq, rwoken, parsing, screen, tty, password_input,
                   secure, system>>

-----------------------------------------------------------------------------
(* Main: the surface, its view and SecureInput *)

Scope(f) == IF f THEN "focused" ELSE "unfocused"

(* apply: the system may refuse. *)
Apply ==
    LET desired == global' \/ scoped' = "focused"
    IN  \/ enabled' = (IF active THEN desired ELSE enabled) /\ UNCHANGED disturbed
        \/ active /\ enabled # desired /\ UNCHANGED enabled /\ disturbed' = TRUE

(* passwordInput, and the view's setScoped or removeScoped. *)
HandlePassword(on) ==
    /\ Unlocked /\ TakeApp(Announcement(on))
    /\ \/ /\ password_input = on
          /\ UNCHANGED <<password_input, secure, disturbed, rwoken>>
       \/ /\ password_input # on
          /\ password_input' = on
          /\ scoped' = IF on THEN Scope(focused) ELSE "absent"
          /\ UNCHANGED global /\ Apply
          /\ rwoken' = TRUE
    /\ UNCHANGED <<focused, io, draining, poll, rq, parsing, screen, events,
                   tty, polling, system>>

(* Mutant: the view's focus does not reach SecureInput. *)
FocusViewLate(v) == UNCHANGED <<secure, disturbed>>

(* The view's part of a change of focus. *)
FocusView(v) ==
    /\ scoped' = IF scoped = "absent" THEN scoped ELSE Scope(v)
    /\ UNCHANGED global
    /\ IF scoped = "absent" THEN UNCHANGED <<enabled, disturbed>> ELSE Apply

(* The parser's reset clears the flag of the terminal, not that of the     *)
(* view.                                                                   *)
ResetFlag ==
    /\ password_input' = FALSE
    /\ disturbed' = (disturbed \/ password_input)

(* toggle_secure_input for the surface works against the poll. *)
ToggleSurface ==
    /\ Stimulus
    /\ scoped' = IF scoped = "absent" THEN Scope(focused) ELSE "absent"
    /\ UNCHANGED global
    /\ IF active THEN enabled' = (global \/ scoped' = "focused") ELSE UNCHANGED enabled
    /\ disturbed' = TRUE
    /\ UNCHANGED <<focused, io, draining, poll, appq, rq, rwoken, parsing, screen,
                   tty, polling, password_input, system>>

CloseView ==
    /\ Stimulus /\ ~closed
    /\ closed' = TRUE
    /\ scoped' = "absent"
    /\ UNCHANGED global /\ Apply
    /\ UNCHANGED <<focused, io, draining, poll, appq, rq, rwoken, parsing, screen,
                   tty, polling, password_input, active, told>>

ToggleGlobal ==
    /\ Stimulus
    /\ global' = ~global
    /\ UNCHANGED scoped /\ Apply
    /\ UNCHANGED <<focused, io, draining, poll, appq, rq, rwoken, parsing, screen,
                   tty, polling, password_input, system>>

(* The application becomes active or resigns, and is told. *)
ChangeActive ==
    /\ Stimulus /\ told = active
    /\ active' = ~active
    /\ UNCHANGED <<focused, io, draining, poll, appq, rq, rwoken, parsing, screen,
                   tty, polling, password_input, secure, told, closed, disturbed>>

(* onDidBecomeActive and onDidResignActive *)
Notified ==
    LET wanted == active /\ (global \/ scoped = "focused")
        change == IF active THEN ~enabled /\ wanted ELSE enabled
    IN  /\ told # active /\ told' = active
        /\ \/ enabled' = (IF change THEN wanted ELSE enabled) /\ UNCHANGED disturbed
           \/ change /\ UNCHANGED enabled /\ disturbed' = TRUE
        /\ UNCHANGED <<shared, tty, polling, password_input, scoped, global, active,
                       closed>>

(* The program on the tty changes its mode. *)
SetTty(m) ==
    /\ Stimulus /\ tty # m
    /\ tty' = m
    /\ UNCHANGED <<focused, io, draining, poll, appq, rq, rwoken, parsing, screen,
                   polling, password_input, secure, system, disturbed>>

PasswordSteps ==
    \/ TermiosFires \/ ResumePoll
    \/ \E v \in BOOLEAN : FocusGained(v) \/ HandlePassword(v)
    \/ ToggleSurface \/ CloseView \/ \E m \in Modes : SetTty(m)

SystemSteps == ToggleGlobal \/ ChangeActive \/ Notified

-----------------------------------------------------------------------------
PasswordTypeOK ==
    /\ tty \in Modes /\ termios_mode \in Modes
    /\ termios_timer \in BOOLEAN /\ running \in BOOLEAN
    /\ password_input \in BOOLEAN
    /\ scoped \in {"absent", "unfocused", "focused"}
    /\ global \in BOOLEAN /\ enabled \in BOOLEAN
    /\ active \in BOOLEAN /\ told \in BOOLEAN /\ closed \in BOOLEAN
    /\ disturbed \in BOOLEAN

NoneOf(q, kind) == \A i \in DOMAIN q : q[i][1] # kind

(* Everything the tty and the system have done has been heard of. *)
Settled ==
    /\ told = active
    /\ closed \/ (termios_mode = tty /\ poll = "idle" /\ NoneOf(appq, "password"))

(* Once everything has been heard of, secure input is on exactly if the    *)
(* active application wants it: because the user turned it on for all, or  *)
(* because the focused view is at a password prompt.  Not promised by the  *)
(* code, and recorded by `disturbed': a mode that changes back before the  *)
(* message of the first change is handled, a reset of the terminal while   *)
(* the flag is set, a push or a system call that is refused, and a toggle  *)
(* of the surface by hand.                                                 *)
SecureInputFollows ==
    ~disturbed /\ Settled =>
        enabled = (active /\ (global \/ (~closed /\ focused /\ tty = "password")))

(* The tty is polled while the surface has the focus and not otherwise,    *)
(* however losing and gaining it falls between two ticks.  Not promised by *)
(* the code, and recorded by `missed': the message of the last change was  *)
(* refused, or the parser has sent another focus after it.                 *)
PollingWhileFocused ==
    ~closed /\ NoneOf(ioq, "focused") /\ "focused" \notin missed =>
        /\ running = focused
        /\ focused => termios_timer \/ poll # "idle"

=============================================================================
