------------------------------ MODULE VtParser ------------------------------
(***************************************************************************)
(* The parser of control sequences (src/src/terminal/Parser.zig with the   *)
(* table of parse_table.zig), as operators on its state.  An action of the *)
(* handler is a tuple that starts with its name, and none is the empty     *)
(* sequence; the OSC parser is known by what it is given.                  *)
(***************************************************************************)
EXTENDS Utf8Automaton

CONSTANTS MaxIntermediate, \* MAX_INTERMEDIATE, 4 in the code
          MaxParams,       \* MAX_PARAMS, 24
          MaxParam,        \* the largest u16
          IdxWrap          \* param_acc_idx counts modulo this, 2^8

ASSUME ParserAssumption ==
    /\ {MaxIntermediate, MaxParams} \subseteq Nat \ {0}
    /\ MaxParam \in Nat /\ MaxParam >= 9 /\ IdxWrap \in Nat /\ IdxWrap > 2

States == {"ground", "escape", "escape_intermediate",
           "csi_entry", "csi_intermediate", "csi_param", "csi_ignore",
           "dcs_entry", "dcs_param", "dcs_intermediate", "dcs_passthrough",
           "dcs_ignore", "osc_string", "sos_pm_apc_string"}

Parser == [state |-> "ground", inter |-> <<>>, params |-> <<>>, sep |-> {},
           acc |-> 0, idx |-> 0]

-----------------------------------------------------------------------------
(* The table.  A row is <<bytes, next state, action>>. *)

C0 == (0..31) \ {24, 26, 27}

Anywhere == {<<{24, 26} \cup (128..143) \cup (145..151) \cup {153, 154}, "ground", "execute">>,
             <<{156}, "ground", "none">>, <<{Esc}, "escape", "none">>,
             <<{152, 158, 159}, "sos_pm_apc_string", "none">>,
             <<{155}, "csi_entry", "none">>, <<{144}, "dcs_entry", "none">>,
             <<{157}, "osc_string", "none">>}

(* The rows a state has of its own, which come before those of Anywhere. *)
OwnRows == [s \in States |->
    CASE s = "ground" -> {<<C0, s, "execute">>, <<32..127, s, "print">>}
      [] s = "escape" ->
            {<<C0, s, "execute">>, <<32..47, "escape_intermediate", "collect">>,
             <<(48..126) \ {80, 88, 91, 93, 94, 95}, "ground", "esc_dispatch">>,
             <<{88, 94, 95}, "sos_pm_apc_string", "none">>, <<{80}, "dcs_entry", "none">>,
             <<{91}, "csi_entry", "none">>, <<{93}, "osc_string", "none">>}
      [] s = "escape_intermediate" ->
            {<<C0, s, "execute">>, <<32..47, s, "collect">>,
             <<48..126, "ground", "esc_dispatch">>}
      [] s = "csi_entry" ->
            {<<C0, s, "execute">>, <<64..126, "ground", "csi_dispatch">>,
             <<{58}, "csi_ignore", "none">>, <<32..47, "csi_intermediate", "collect">>,
             <<(48..57) \cup {59}, "csi_param", "param">>, <<60..63, "csi_param", "collect">>}
      [] s = "csi_param" ->
            {<<C0, s, "execute">>, <<48..59, s, "param">>,
             <<64..126, "ground", "csi_dispatch">>, <<60..63, "csi_ignore", "none">>,
             <<32..47, "csi_intermediate", "collect">>}
      [] s = "csi_intermediate" ->
            {<<C0, s, "execute">>, <<32..47, s, "collect">>,
             <<64..126, "ground", "csi_dispatch">>, <<48..63, "csi_ignore", "none">>}
      [] s = "csi_ignore" -> {<<C0, s, "execute">>, <<64..126, "ground", "none">>}
      [] s = "dcs_entry" ->
            {<<32..47, "dcs_intermediate", "collect">>, <<{58}, "dcs_ignore", "none">>,
             <<(48..57) \cup {59}, "dcs_param", "param">>, <<60..63, "dcs_param", "collect">>,
             <<64..126, "dcs_passthrough", "none">>}
      [] s = "dcs_param" ->
            {<<(48..57) \cup {59}, s, "param">>, <<{58} \cup (60..63), "dcs_ignore", "none">>,
             <<32..47, "dcs_intermediate", "collect">>, <<64..126, "dcs_passthrough", "none">>}
      [] s = "dcs_intermediate" ->
            {<<32..47, s, "collect">>, <<48..63, "dcs_ignore", "none">>,
             <<64..126, "dcs_passthrough", "none">>}
      [] s = "dcs_passthrough" -> {<<C0 \cup (32..126) \cup (128..255), s, "put">>}
      [] s = "dcs_ignore" -> {<<128..255, s, "none">>}
      [] s = "osc_string" -> {<<32..255, s, "osc_put">>, <<{7}, "ground", "none">>}
      [] s = "sos_pm_apc_string" -> {<<C0 \cup (32..127), s, "apc_put">>}]

(* A byte no row names leaves the state as it is. *)
Table == [c \in 0..255 |-> [s \in States |->
    LET Row(rows) == CHOOSE r \in rows : c \in r[1]
        Has(rows) == \E r \in rows : c \in r[1]
        row       == IF Has(OwnRows[s]) THEN Row(OwnRows[s]) ELSE Row(Anywhere)
    IN IF Has(OwnRows[s]) \/ Has(Anywhere)
       THEN [state |-> row[2], action |-> row[3]]
       ELSE [state |-> s, action |-> "none"]]]

-----------------------------------------------------------------------------
Clear(p) == [Parser EXCEPT !.state = p.state]

(* Mutant: the array is taken to be long enough. *)
CollectAlways(p, c) == [p EXCEPT !.inter = Append(@, c)]

Collect(p, c) ==
    IF Len(p.inter) >= MaxIntermediate THEN p ELSE [p EXCEPT !.inter = Append(@, c)]

Digits == 48..57
Separators == {58, 59}

(* 10 acc + c, saturating. *)
Accumulate(acc, c) ==
    LET n == 10 * acc + (c - 48) IN IF n > MaxParam THEN MaxParam ELSE n

(* A separator: the parameter so far is stored, if there is room. *)
Separate(p, c) ==
    IF Len(p.params) >= MaxParams THEN p
    ELSE [p EXCEPT !.params = Append(@, p.acc), !.acc = 0, !.idx = 0,
                   !.sep = IF c = 58 THEN @ \cup {Len(p.params)} ELSE @]

Param(p, c) ==
    IF c \in Separators THEN Separate(p, c)
    ELSE [p EXCEPT !.acc = Accumulate(@, c), !.idx = (@ + 1) % IdxWrap]

(* The last parameter is stored, if it has a digit. *)
Finalize(p) == IF p.idx > 0 THEN [p EXCEPT !.params = Append(@, p.acc)] ELSE p

Csi(p, c) == <<"csi_dispatch", p.inter, p.params, p.sep, c>>

Act(action, p, c) ==
    LET Told(q, acts) == [p |-> q, acts |-> acts]
        final == Finalize(p)
    IN CASE action = "none"    -> Told(p, <<>>)
         [] action = "print"   -> Told(p, <<<<"print", c>>>>)
         [] action = "execute" -> Told(p, <<<<"execute", c>>>>)
         [] action = "collect" -> Told(Collect(p, c), <<>>)
         [] action = "param"   -> Told(Param(p, c), <<>>)
         [] action = "osc_put" -> Told(p, <<<<"osc_put", c>>>>)
         [] action = "put"     -> Told(p, <<<<"dcs_put", c>>>>)
         [] action = "apc_put" -> Told(p, <<<<"apc_put", c>>>>)
         [] action = "esc_dispatch" -> Told(p, <<<<"esc_dispatch", p.inter, c>>>>)
         [] action = "csi_dispatch" ->
                IF Len(p.params) >= MaxParams THEN Told(p, <<>>)
                ELSE Told(final, IF c # 109 /\ p.sep # {} THEN <<>> ELSE <<Csi(final, c)>>)

(* Leaving a state: what it was building ends. *)
Exit(s, c) ==
    CASE s = "osc_string" -> <<<<"osc_end", c>>>>
      [] s = "dcs_passthrough" -> <<<<"dcs_unhook">>>>
      [] s = "sos_pm_apc_string" -> <<<<"apc_end", c \in {Esc, 156}>>>>
      [] OTHER -> <<>>

Enter(s, p, c) ==
    CASE s \in {"escape", "dcs_entry", "csi_entry"} -> [p |-> Clear(p), acts |-> <<>>]
      [] s = "osc_string" -> [p |-> p, acts |-> <<<<"osc_reset">>>>]
      [] s = "sos_pm_apc_string" -> [p |-> p, acts |-> <<<<"apc_start">>>>]
      [] s = "dcs_passthrough" /\ Len(p.params) < MaxParams ->
            [p |-> Finalize(p), acts |-> <<<<"dcs_hook", p.inter, Finalize(p).params, c>>>>]
      [] OTHER -> [p |-> p, acts |-> <<>>]

(* Parser.next: the actions of exit, transition and entry, each of them an *)
(* action or none.                                                         *)
ParserNext(p, c) ==
    LET to    == Table[c][p.state].state
        acted == Act(Table[c][p.state].action, p, c)
        into  == Enter(to, acted.p, c)
    IN IF to = p.state THEN [p |-> acted.p, acts |-> <<<<>>, acted.acts, <<>>>>]
       ELSE [p    |-> [into.p EXCEPT !.state = to],
             acts |-> <<Exit(p.state, c), acted.acts, into.acts>>]

=============================================================================
