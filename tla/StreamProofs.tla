---------------------------- MODULE StreamProofs ----------------------------
(***************************************************************************)
(* The terminal's input stream, for every byte, every size of the parser's *)
(* arrays, every width of its counters and every limit of what is kept:    *)
(* nothing is stored past the end of an array, the fast paths do what the  *)
(* table does, and the continuation rebuilds what is unfinished, whatever  *)
(* was read before and however it was cut into reads.                      *)
(***************************************************************************)
EXTENDS Continuation, SequenceTheorems, WellFoundedInduction, TLAPS

-----------------------------------------------------------------------------
(* The table *)

Actions == {"none", "print", "execute", "collect", "param", "osc_put", "put", "apc_put",
            "esc_dispatch", "csi_dispatch"}

(* What is asked of a row of state s: only digits and separators are taken *)
(* for parameters, parameters of a CSI follow its entry, and what a state  *)
(* that starts from empty arrays does while it lasts leaves them empty.    *)
RowOK(s, r) ==
    /\ r[2] \in States /\ r[3] \in Actions
    /\ r[3] = "param" => r[1] \subseteq 48..59
    /\ r[2] = "csi_param" =>
          \/ s = "csi_entry" /\ r[1] \subseteq CsiEntryBytes
          \/ s = "csi_param" /\ r[1] \subseteq C0 \cup CsiParamBytes
    /\ r[2] = s /\ s \in {"escape", "csi_entry"} => r[3] \in {"execute", "none"}

LEMMA AnywhereOK == \A s \in States : \A r \in Anywhere : RowOK(s, r)
<1>1. \A s \in States : \A r \in Anywhere :
          /\ r[2] \in {"ground", "escape", "sos_pm_apc_string", "csi_entry", "dcs_entry",
                       "osc_string"}
          /\ r[3] = "none" \/ r[3] = "execute"
  BY DEF Anywhere
<1>2. QED
  BY <1>1 DEF RowOK, States, Actions

LEMMA OwnRowsOK == \A s \in States : \A r \in OwnRows[s] : RowOK(s, r)
<1> SUFFICES ASSUME NEW s \in States, NEW r \in OwnRows[s]
             PROVE  RowOK(s, r)
  OBVIOUS
<1> USE DEF OwnRows, States, Actions, RowOK, C0, CsiEntryBytes, CsiParamBytes, Digits,
            Separators, Finals
<1>1. CASE s = "ground"
  BY <1>1
<1>2. CASE s = "escape"
  BY <1>2
<1>3. CASE s = "escape_intermediate"
  BY <1>3
<1>4. CASE s = "csi_entry"
  BY <1>4
<1>5. CASE s = "csi_param"
  BY <1>5
<1>6. CASE s = "csi_intermediate"
  BY <1>6
<1>7. CASE s = "csi_ignore"
  BY <1>7
<1>8. CASE s = "dcs_entry"
  BY <1>8
<1>9. CASE s = "dcs_param"
  BY <1>9
<1>10. CASE s = "dcs_intermediate"
  BY <1>10
<1>11. CASE s = "dcs_passthrough"
  BY <1>11
<1>12. CASE s = "dcs_ignore"
  BY <1>12
<1>13. CASE s = "osc_string"
  BY <1>13
<1>14. CASE s = "sos_pm_apc_string"
  BY <1>14
<1>15. QED
  BY <1>1, <1>2, <1>3, <1>4, <1>5, <1>6, <1>7, <1>8, <1>9, <1>10, <1>11, <1>12, <1>13,
     <1>14

(* A byte in a row of its state has the effect of such a row. *)
LEMMA OwnEffect ==
    ASSUME NEW s \in States, NEW c \in Bytes, NEW state, NEW action,
           \E r \in OwnRows[s] : c \in r[1],
           \A r \in OwnRows[s] : c \in r[1] => r[2] = state /\ r[3] = action
    PROVE  Table[c][s] = [state |-> state, action |-> action]
<1> DEFINE row == CHOOSE r \in OwnRows[s] : c \in r[1]
<1>1. row \in OwnRows[s] /\ c \in row[1]
  OBVIOUS
<1>2. Table[c][s] = [state |-> row[2], action |-> row[3]]
  BY DEF Table, Bytes
<1>3. QED
  BY <1>1, <1>2

(* One in a row of any state only has the effect of that.                  *)
LEMMA AnywhereEffect ==
    ASSUME NEW s \in States, NEW c \in Bytes, NEW state, NEW action,
           \A r \in OwnRows[s] : c \notin r[1],
           \E r \in Anywhere : c \in r[1],
           \A r \in Anywhere : c \in r[1] => r[2] = state /\ r[3] = action
    PROVE  Table[c][s] = [state |-> state, action |-> action]
<1> DEFINE row == CHOOSE r \in Anywhere : c \in r[1]
<1>1. row \in Anywhere /\ c \in row[1]
  OBVIOUS
<1>2. Table[c][s] = [state |-> row[2], action |-> row[3]]
  BY DEF Table, Bytes
<1>3. QED
  BY <1>1, <1>2

(* One in no row has none. *)
LEMMA NoEffect ==
    ASSUME NEW s \in States, NEW c \in Bytes,
           \A r \in OwnRows[s] \cup Anywhere : c \notin r[1]
    PROVE  Table[c][s] = [state |-> s, action |-> "none"]
  BY DEF Table, Bytes

(* What holds of the rows holds of the table.                              *)
LEMMA TableOK ==
    ASSUME NEW s \in States, NEW c \in Bytes
    PROVE  \/ \E r \in OwnRows[s] \cup Anywhere :
                  /\ c \in r[1] /\ RowOK(s, r)
                  /\ Table[c][s] = [state |-> r[2], action |-> r[3]]
           \/ Table[c][s] = [state |-> s, action |-> "none"]
<1>1. CASE \E r \in OwnRows[s] : c \in r[1]
  <2> DEFINE row == CHOOSE r \in OwnRows[s] : c \in r[1]
  <2>1. row \in OwnRows[s] /\ c \in row[1]
    BY <1>1
  <2>2. Table[c][s] = [state |-> row[2], action |-> row[3]]
    BY <1>1 DEF Table, Bytes
  <2>3. QED
    BY <2>1, <2>2, OwnRowsOK
<1>2. CASE (\A r \in OwnRows[s] : c \notin r[1]) /\ \E r \in Anywhere : c \in r[1]
  <2> DEFINE row == CHOOSE r \in Anywhere : c \in r[1]
  <2>1. row \in Anywhere /\ c \in row[1]
    BY <1>2
  <2>2. Table[c][s] = [state |-> row[2], action |-> row[3]]
    BY <1>2 DEF Table, Bytes
  <2>3. QED
    BY <2>1, <2>2, AnywhereOK
<1>3. QED
  BY <1>1, <1>2, NoEffect

-----------------------------------------------------------------------------
(* The arrays and the counters *)

LEMMA Unpacked ==
    ASSUME NEW p, ParserOK(p)
    PROVE  /\ p.state \in States
           /\ p.inter \in Seq(Bytes) /\ Len(p.inter) \in Nat /\ Len(p.inter) <= MaxIntermediate
           /\ p.params \in Seq(0..MaxParam) /\ Len(p.params) \in Nat
           /\ Len(p.params) <= MaxParams
           /\ p.sep \subseteq 0..Len(p.params) - 1
           /\ p.acc \in 0..MaxParam /\ p.idx \in 0..IdxWrap - 1
  BY DEF ParserOK

LEMMA Packed ==
    ASSUME NEW state \in States,
           NEW inter \in Seq(Bytes), Len(inter) <= MaxIntermediate,
           NEW params \in Seq(0..MaxParam), Len(params) <= MaxParams,
           NEW sep, sep \subseteq 0..Len(params) - 1,
           NEW acc \in 0..MaxParam, NEW idx \in 0..IdxWrap - 1
    PROVE  ParserOK([state |-> state, inter |-> inter, params |-> params, sep |-> sep,
                     acc |-> acc, idx |-> idx])
<1>1. sep \in SUBSET Nat
  OBVIOUS
<1>2. QED
  BY <1>1 DEF ParserOK

LEMMA Longer ==
    ASSUME NEW S, NEW seq \in Seq(S), NEW x \in S
    PROVE  Append(seq, x) \in Seq(S) /\ Len(Append(seq, x)) = Len(seq) + 1
  OBVIOUS

(* Records with one field or several replaced, written out. *)
LEMMA PutInter ==
    ASSUME NEW p, NEW q, NEW inter, ParserOK(p), q = [p EXCEPT !.inter = inter]
    PROVE  q = [state |-> p.state, inter |-> inter, params |-> p.params, sep |-> p.sep,
                acc |-> p.acc, idx |-> p.idx]
<1>1. p \in [state : States, inter : Seq(Bytes), params : Seq(0..MaxParam), sep : SUBSET Nat,
             acc : 0..MaxParam, idx : 0..IdxWrap - 1]
  BY DEF ParserOK
<1>2. QED
  BY <1>1

LEMMA PutParams ==
    ASSUME NEW p, NEW q, NEW params, ParserOK(p), q = [p EXCEPT !.params = params]
    PROVE  q = [state |-> p.state, inter |-> p.inter, params |-> params, sep |-> p.sep,
                acc |-> p.acc, idx |-> p.idx]
<1>1. p \in [state : States, inter : Seq(Bytes), params : Seq(0..MaxParam), sep : SUBSET Nat,
             acc : 0..MaxParam, idx : 0..IdxWrap - 1]
  BY DEF ParserOK
<1>2. QED
  BY <1>1

LEMMA PutNumber ==
    ASSUME NEW p, NEW q, NEW acc, NEW idx, ParserOK(p),
           q = [p EXCEPT !.acc = acc, !.idx = idx]
    PROVE  q = [state |-> p.state, inter |-> p.inter, params |-> p.params, sep |-> p.sep,
                acc |-> acc, idx |-> idx]
<1>1. PICK r : r = [p EXCEPT !.acc = acc]
  OBVIOUS
<1>2. r = [state |-> p.state, inter |-> p.inter, params |-> p.params, sep |-> p.sep,
           acc |-> acc, idx |-> p.idx]
  <2>1. p \in [state : States, inter : Seq(Bytes), params : Seq(0..MaxParam),
               sep : SUBSET Nat, acc : 0..MaxParam, idx : 0..IdxWrap - 1]
    BY DEF ParserOK
  <2>2. QED
    BY <1>1, <2>1
<1>3. q = [r EXCEPT !.idx = idx]
  BY <1>1
<1>4. QED
  BY <1>2, <1>3

LEMMA PutParameter ==
    ASSUME NEW p, NEW q, NEW params, NEW sep, ParserOK(p),
           q = [p EXCEPT !.params = params, !.acc = 0, !.idx = 0, !.sep = sep]
    PROVE  q = [state |-> p.state, inter |-> p.inter, params |-> params, sep |-> sep,
                acc |-> 0, idx |-> 0]
<1>1. PICK r : r = [p EXCEPT !.params = params]
  OBVIOUS
<1>2. r = [state |-> p.state, inter |-> p.inter, params |-> params, sep |-> p.sep,
           acc |-> p.acc, idx |-> p.idx]
  BY <1>1, PutParams
<1>3. PICK s : s = [r EXCEPT !.acc = 0]
  OBVIOUS
<1>4. s = [state |-> p.state, inter |-> p.inter, params |-> params, sep |-> p.sep,
           acc |-> 0, idx |-> p.idx]
  BY <1>2, <1>3
<1>5. PICK u : u = [s EXCEPT !.idx = 0]
  OBVIOUS
<1>6. u = [state |-> p.state, inter |-> p.inter, params |-> params, sep |-> p.sep,
           acc |-> 0, idx |-> 0]
  BY <1>4, <1>5
<1>7. q = [u EXCEPT !.sep = sep]
  BY <1>1, <1>3, <1>5
<1>8. QED
  BY <1>6, <1>7

LEMMA ClearOK ==
    ASSUME NEW p, ParserOK(p)
    PROVE  /\ ParserOK(Clear(p)) /\ Clear(Clear(p)) = Clear(p)
           /\ Clear(p).state = p.state
<1>1. <<>> \in Seq(Bytes) /\ <<>> \in Seq(0..MaxParam) /\ Len(<<>>) = 0
  OBVIOUS
<1>2. /\ 0 \in 0..MaxParam /\ 0 \in 0..IdxWrap - 1
      /\ 0 <= MaxIntermediate /\ 0 <= MaxParams
  BY ParserAssumption
<1>3. Clear(p) = [state |-> p.state, inter |-> <<>>, params |-> <<>>, sep |-> {}, acc |-> 0,
                  idx |-> 0]
  <2>1. PICK q : q = Clear(p)
    OBVIOUS
  <2>2. PICK parser : parser = Parser
    OBVIOUS
  <2>3. q = [parser EXCEPT !.state = p.state]
    BY <2>1, <2>2 DEF Clear
  <2>4. q = [state |-> p.state, inter |-> <<>>, params |-> <<>>, sep |-> {}, acc |-> 0,
             idx |-> 0]
    BY <2>2, <2>3 DEF Parser
  <2>5. QED
    BY <2>1, <2>4
<1>4. p.state \in States
  BY Unpacked
<1>5. ParserOK(Clear(p))
  BY <1>1, <1>2, <1>3, <1>4, Packed
<1>6. Clear(p).state = p.state
  BY <1>3
<1>7. Clear(Clear(p)) = Clear(p)
  BY <1>6 DEF Clear
<1>8. QED
  BY <1>5, <1>6, <1>7

LEMMA CollectOK ==
    ASSUME NEW p, NEW c \in Bytes, ParserOK(p)
    PROVE  ParserOK(Collect(p, c)) /\ Collect(p, c).state = p.state
           /\ Collect(p, c).idx = p.idx
<1>1. CASE Len(p.inter) >= MaxIntermediate
  BY <1>1 DEF Collect
<1>2. CASE ~ (Len(p.inter) >= MaxIntermediate)
  <2> DEFINE inter == Append(p.inter, c)
  <2>1. Collect(p, c) = [state |-> p.state, inter |-> inter, params |-> p.params,
                         sep |-> p.sep, acc |-> p.acc, idx |-> p.idx]
    BY <1>2, PutInter DEF Collect
  <2>2. inter \in Seq(Bytes) /\ Len(inter) = Len(p.inter) + 1
    BY Unpacked, Longer
  <2>3. Len(inter) <= MaxIntermediate
    BY <1>2, <2>2, Unpacked, ParserAssumption
  <2>4. ParserOK(Collect(p, c))
    BY <2>1, <2>2, <2>3, Unpacked, Packed
  <2>5. QED
    BY <2>1, <2>4
<1>3. QED
  BY <1>1, <1>2

LEMMA FinalizeOK ==
    ASSUME NEW p, ParserOK(p), Len(p.params) < MaxParams
    PROVE  ParserOK(Finalize(p)) /\ Finalize(p).state = p.state
           /\ Finalize(p).idx = p.idx
<1>1. CASE ~ (p.idx > 0)
  BY <1>1 DEF Finalize
<1>2. CASE p.idx > 0
  <2> DEFINE params == Append(p.params, p.acc)
  <2>1. Finalize(p) = [state |-> p.state, inter |-> p.inter, params |-> params,
                       sep |-> p.sep, acc |-> p.acc, idx |-> p.idx]
    BY <1>2, PutParams DEF Finalize
  <2>2. params \in Seq(0..MaxParam) /\ Len(params) = Len(p.params) + 1
    BY Unpacked, Longer
  <2>3. Len(params) <= MaxParams /\ p.sep \subseteq 0..Len(params) - 1
    BY <2>2, Unpacked, ParserAssumption
  <2>4. ParserOK(Finalize(p))
    BY <2>1, <2>2, <2>3, Unpacked, Packed
  <2>5. QED
    BY <2>1, <2>4
<1>3. QED
  BY <1>1, <1>2

LEMMA SeparateOK ==
    ASSUME NEW p, NEW c, ParserOK(p)
    PROVE  ParserOK(Separate(p, c)) /\ Separate(p, c).state = p.state
           /\ Separate(p, c).idx \in {p.idx, 0}
<1>1. CASE Len(p.params) >= MaxParams
  BY <1>1 DEF Separate
<1>2. CASE ~ (Len(p.params) >= MaxParams)
  <2> DEFINE params == Append(p.params, p.acc)
             sep    == IF c = 58 THEN p.sep \cup {Len(p.params)} ELSE p.sep
  <2>1. Separate(p, c) = [state |-> p.state, inter |-> p.inter, params |-> params,
                          sep |-> sep, acc |-> 0, idx |-> 0]
    <3>1. Separate(p, c) = [p EXCEPT !.params = params, !.acc = 0, !.idx = 0, !.sep = sep]
      BY <1>2 DEF Separate
    <3> HIDE DEF params, sep
    <3>2. QED
      BY <3>1, PutParameter
  <2>2. params \in Seq(0..MaxParam) /\ Len(params) = Len(p.params) + 1
    BY Unpacked, Longer
  <2>3. Len(params) <= MaxParams /\ p.sep \subseteq 0..Len(params) - 1
        /\ Len(p.params) \in 0..Len(params) - 1
    BY <1>2, <2>2, Unpacked, ParserAssumption
  <2>4. sep \subseteq 0..Len(params) - 1
    BY <2>3
  <2>5. 0 \in 0..MaxParam /\ 0 \in 0..IdxWrap - 1
    BY ParserAssumption
  <2> HIDE DEF params, sep
  <2>6. ParserOK(Separate(p, c))
    BY <2>1, <2>2, <2>3, <2>4, <2>5, Unpacked, Packed
  <2>7. QED
    BY <2>1, <2>6
<1>3. QED
  BY <1>1, <1>2

LEMMA AccumulateOK ==
    ASSUME NEW acc \in 0..MaxParam, NEW c \in Digits
    PROVE  Accumulate(acc, c) \in 0..MaxParam
  BY ParserAssumption DEF Accumulate, Digits

LEMMA ParamOK ==
    ASSUME NEW p, NEW c \in 48..59, ParserOK(p)
    PROVE  ParserOK(Param(p, c)) /\ Param(p, c).state = p.state
<1>1. CASE c \in Separators
  BY <1>1, SeparateOK DEF Param
<1>2. CASE c \notin Separators
  <2> DEFINE acc == Accumulate(p.acc, c)
             idx == (p.idx + 1) % IdxWrap
  <2>1. c \in Digits /\ p.acc \in 0..MaxParam
    BY <1>2, Unpacked DEF Separators, Digits
  <2>2. acc \in 0..MaxParam
    BY <2>1, AccumulateOK
  <2>3. idx \in 0..IdxWrap - 1
    BY Unpacked, ParserAssumption
  <2>4. Param(p, c) = [state |-> p.state, inter |-> p.inter, params |-> p.params,
                       sep |-> p.sep, acc |-> acc, idx |-> idx]
    BY <1>2, PutNumber DEF Param
  <2>5. ParserOK(Param(p, c))
    BY <2>2, <2>3, <2>4, Unpacked, Packed
  <2>6. QED
    BY <2>4, <2>5
<1>3. QED
  BY <1>1, <1>2

(* The action of a transition keeps the state; only three touch more.      *)
LEMMA ActOK ==
    ASSUME NEW p, NEW c \in Bytes, NEW action \in Actions, ParserOK(p),
           action = "param" => c \in 48..59
    PROVE  /\ ParserOK(Act(action, p, c).p) /\ Act(action, p, c).p.state = p.state
           /\ action \notin {"collect", "param", "csi_dispatch"} => Act(action, p, c).p = p
<1>1. CASE action = "collect"
  BY <1>1, CollectOK DEF Act
<1>2. CASE action = "param"
  BY <1>2, ParamOK DEF Act
<1>3. CASE action = "csi_dispatch"
  <2>1. CASE Len(p.params) >= MaxParams
    BY <1>3, <2>1 DEF Act
  <2>2. CASE ~ (Len(p.params) >= MaxParams)
    <3>1. Len(p.params) < MaxParams
      BY <2>2, ParserAssumption DEF ParserOK
    <3>2. QED
      BY <1>3, <2>2, <3>1, FinalizeOK DEF Act
  <2>3. QED
    BY <2>1, <2>2
<1>4. CASE action \notin {"collect", "param", "csi_dispatch"}
  BY <1>4 DEF Act, Actions
<1>5. QED
  BY <1>1, <1>2, <1>3, <1>4

(* Entering a state: sequences start from empty arrays. *)
LEMMA EnterOK ==
    ASSUME NEW p, NEW s \in States, NEW c \in Bytes, ParserOK(p)
    PROVE  /\ ParserOK(Enter(s, p, c).p) /\ Enter(s, p, c).p.state = p.state
           /\ s \in {"escape", "csi_entry"} =>
                 Clear(Enter(s, p, c).p) = Enter(s, p, c).p
<1>1. CASE s \in {"escape", "dcs_entry", "csi_entry"}
  <2>1. Enter(s, p, c).p = Clear(p)
    BY <1>1 DEF Enter
  <2>2. QED
    BY <2>1, ClearOK
<1>2. CASE s = "osc_string" \/ s = "sos_pm_apc_string"
  BY <1>2 DEF Enter
<1>3. CASE s = "dcs_passthrough" /\ Len(p.params) < MaxParams
  BY <1>3, FinalizeOK DEF Enter
<1>4. CASE /\ s \notin {"escape", "dcs_entry", "csi_entry", "osc_string",
                        "sos_pm_apc_string"}
           /\ ~ (s = "dcs_passthrough" /\ Len(p.params) < MaxParams)
  BY <1>4 DEF Enter
<1>5. QED
  BY <1>1, <1>2, <1>3, <1>4

(* What is known of a parser between two bytes.                            *)
ParserInv(p) ==
    /\ ParserOK(p)
    /\ p.state \in {"escape", "csi_entry"} => Clear(p) = p
    /\ p.state = "csi_param" => p.idx \in {0, 1}

LEMMA ParserNextOK ==
    ASSUME NEW p, NEW c \in Bytes, ParserInv(p),
           p.state = "csi_entry" => c \notin CsiEntryBytes,
           p.state = "csi_param" => c \notin C0 \cup CsiParamBytes
    PROVE  ParserInv(ParserNext(p, c).p)
<1> DEFINE to     == Table[c][p.state].state
           action == Table[c][p.state].action
           acted  == Act(action, p, c)
           into   == Enter(to, acted.p, c)
<1>1. p.state \in States
  BY DEF ParserInv, ParserOK
<1>2. /\ to \in States /\ action \in Actions
      /\ action = "param" => c \in 48..59
      /\ to = "csi_param" => p.state = "csi_param" /\ action = "none"
      /\ to = p.state /\ p.state \in {"escape", "csi_entry"} =>
            action \in {"execute", "none"}
  <2>1. CASE Table[c][p.state] = [state |-> p.state, action |-> "none"]
    BY <1>1, <2>1 DEF Actions
  <2>2. ASSUME NEW r \in OwnRows[p.state] \cup Anywhere, c \in r[1], RowOK(p.state, r),
               Table[c][p.state] = [state |-> r[2], action |-> r[3]]
        PROVE  /\ to \in States /\ action \in Actions
               /\ action = "param" => c \in 48..59
               /\ to # "csi_param"
               /\ to = p.state /\ p.state \in {"escape", "csi_entry"} =>
                     action \in {"execute", "none"}
    <3>1. to = r[2] /\ action = r[3]
      BY <2>2
    <3>2. QED
      BY <2>2, <3>1 DEF RowOK
  <2>3. QED
    BY <1>1, <2>1, <2>2, TableOK
<1>3. /\ ParserOK(acted.p) /\ acted.p.state = p.state
      /\ action \notin {"collect", "param", "csi_dispatch"} => acted.p = p
  BY <1>2, ActOK DEF ParserInv
<1>4. CASE to = p.state
  <2>1. ParserNext(p, c).p = acted.p
    BY <1>4 DEF ParserNext
  <2>2. QED
    BY <1>2, <1>3, <1>4, <2>1 DEF ParserInv
<1>5. CASE to # p.state
  <2>1. ParserNext(p, c).p = [into.p EXCEPT !.state = to]
    BY <1>5 DEF ParserNext
  <2>2. /\ ParserOK(into.p)
        /\ to \in {"escape", "csi_entry"} => Clear(into.p) = into.p
    BY <1>2, <1>3, EnterOK
  <2>3. ParserOK([into.p EXCEPT !.state = to])
    BY <1>2, <2>2 DEF ParserOK
  <2>4. to \in {"escape", "csi_entry"} =>
            Clear([into.p EXCEPT !.state = to]) = [into.p EXCEPT !.state = to]
    BY <2>2 DEF Clear, ParserOK
  <2>5. [into.p EXCEPT !.state = to].state = to
    BY <2>2 DEF ParserOK
  <2>6. QED
    BY <1>2, <1>5, <2>1, <2>3, <2>4, <2>5 DEF ParserInv
<1>6. QED
  BY <1>4, <1>5

-----------------------------------------------------------------------------
(* The decoder *)

LEMMA TransitionOK ==
    ASSUME NEW s \in DOMAIN Rows, NEW k \in 0..11
    PROVE  Transitions[s][k] \in DOMAIN Rows \cup {Reject}
<1>1. \A r \in Rows[s] : r[2] \in DOMAIN Rows
  BY DEF Rows, Accept
<1>2. CASE \E r \in Rows[s] : k \in r[1]
  <2> DEFINE row == CHOOSE r \in Rows[s] : k \in r[1]
  <2>1. row \in Rows[s]
    BY <1>2
  <2>2. Transitions[s][k] = row[2]
    BY <1>2 DEF Transitions
  <2>3. QED
    BY <1>1, <2>1, <2>2
<1>3. CASE ~ \E r \in Rows[s] : k \in r[1]
  BY <1>3 DEF Transitions
<1>4. QED
  BY <1>2, <1>3

LEMMA Classes ==
    ASSUME NEW b \in Bytes
    PROVE  /\ Class[b] \in 0..11
           /\ b \notin 128..191 => Class[b] \notin {1, 7, 9}
<1>0. b \in 0..255
  BY DEF Bytes
<1>1. CASE b < 128
  <2>1. Class[b] = 0
    BY <1>0, <1>1 DEF Class
  <2>2. QED
    BY <1>0, <1>1, <2>1
<1>2. CASE b \in 128..143
  <2>1. Class[b] = 1
    BY <1>0, <1>2 DEF Class
  <2>2. QED
    BY <1>0, <1>2, <2>1
<1>3. CASE b \in 144..159
  <2>1. Class[b] = 9
    BY <1>0, <1>3 DEF Class
  <2>2. QED
    BY <1>0, <1>3, <2>1
<1>4. CASE b \in 160..191
  <2>1. Class[b] = 7
    BY <1>0, <1>4 DEF Class
  <2>2. QED
    BY <1>0, <1>4, <2>1
<1>5. CASE b \in {192, 193} \/ b >= 245
  <2>1. Class[b] = 8
    BY <1>0, <1>5 DEF Class
  <2>2. QED
    BY <1>0, <1>5, <2>1
<1>6. CASE b \in 194..223
  <2>1. Class[b] = 2
    BY <1>0, <1>6 DEF Class
  <2>2. QED
    BY <1>0, <1>6, <2>1
<1>7. CASE b = 224
  <2>1. Class[b] = 10
    BY <1>0, <1>7 DEF Class
  <2>2. QED
    BY <1>0, <1>7, <2>1
<1>8. CASE b = 237
  <2>1. Class[b] = 4
    BY <1>0, <1>8 DEF Class
  <2>2. QED
    BY <1>0, <1>8, <2>1
<1>9. CASE b \in 225..239 \ {237}
  <2>1. Class[b] = 3
    BY <1>0, <1>9 DEF Class
  <2>2. QED
    BY <1>0, <1>9, <2>1
<1>10. CASE b = 240
  <2>1. Class[b] = 11
    BY <1>0, <1>10 DEF Class
  <2>2. QED
    BY <1>0, <1>10, <2>1
<1>11. CASE b \in 241..243
  <2>1. Class[b] = 6
    BY <1>0, <1>11 DEF Class
  <2>2. QED
    BY <1>0, <1>11, <2>1
<1>12. CASE b = 244
  <2>1. Class[b] = 5
    BY <1>0, <1>12 DEF Class
  <2>2. QED
    BY <1>0, <1>12, <2>1
<1>13. QED
  BY <1>0, <1>1, <1>2, <1>3, <1>4, <1>5, <1>6, <1>7, <1>8, <1>9, <1>10, <1>11, <1>12

(* What a byte does to the decoder: it emits at most one code point, after *)
(* which it rests, and refuses a byte only in the middle of a sequence.    *)
LEMMA DecoderOK ==
    ASSUME NEW d, NEW c \in Bytes, d.state \in DOMAIN Rows
    PROVE  /\ DecoderNext(d, c).d.state \in DOMAIN Rows
           /\ \/ DecoderNext(d, c).out = <<>> /\ DecoderNext(d, c).used
              \/ /\ DecoderNext(d, c).d = Decoder
                 /\ \E cp : DecoderNext(d, c).out = <<cp>>
           /\ ~ DecoderNext(d, c).used =>
                 d.state # Accept /\ DecoderNext(d, c).out = <<Replacement>>
<1> DEFINE to == Transitions[d.state][Class[c]]
<1>1. to \in DOMAIN Rows \cup {Reject}
  BY Classes, TransitionOK
<1>2. Accept \in DOMAIN Rows /\ Decoder.state = Accept /\ Accept # Reject
  BY DEF Rows, Decoder, Accept, Reject
<1>3. CASE to = Accept
  <2> DEFINE acc == IF d.state = Accept
                    THEN c % (IF Class[c] < 8 THEN 2 ^ (8 - Class[c]) ELSE 1)
                    ELSE 64 * d.acc + (c % 64)
  <2>1. DecoderNext(d, c) = [d |-> Decoder, out |-> <<acc>>, used |-> TRUE]
    BY <1>2, <1>3 DEF DecoderNext
  <2> HIDE DEF acc
  <2>2. DecoderNext(d, c).d = Decoder /\ DecoderNext(d, c).out = <<acc>>
    BY <2>1
  <2>3. DecoderNext(d, c).used
    BY <2>1
  <2>4. QED
    BY <1>2, <2>2, <2>3
<1>4. CASE to = Reject
  <2>1. DecoderNext(d, c) = [d |-> Decoder, out |-> <<Replacement>>,
                             used |-> d.state = Accept]
    BY <1>2, <1>4 DEF DecoderNext
  <2>2. DecoderNext(d, c).d = Decoder /\ DecoderNext(d, c).out = <<Replacement>>
    BY <2>1
  <2>3. d.state = Accept => DecoderNext(d, c).used
    <3>1. ASSUME d.state = Accept
          PROVE  DecoderNext(d, c) = [d |-> Decoder, out |-> <<Replacement>>, used |-> TRUE]
      BY <1>2, <1>4, <3>1 DEF DecoderNext
    <3>2. QED
      BY <3>1
  <2>4. QED
    BY <1>2, <2>2, <2>3
<1>5. CASE to \notin {Accept, Reject}
  <2>1. PICK acc : DecoderNext(d, c) = [d |-> [state |-> to, acc |-> acc], out |-> <<>>,
                                        used |-> TRUE]
    BY <1>5 DEF DecoderNext
  <2>2. QED
    BY <1>1, <1>5, <2>1
<1>6. QED
  BY <1>3, <1>4, <1>5

-----------------------------------------------------------------------------
(* The stream, between two bytes *)

StreamInv(s) ==
    /\ s = [vt |-> s.vt, utf8 |-> s.utf8]
    /\ ParserInv(s.vt)
    /\ s.utf8.state \in DOMAIN Rows
    /\ s.vt.state # "ground" => s.utf8 = Decoder
    /\ s.vt.state = "ground" => s.vt = Parser

LEMMA FreshOK == StreamInv(Fresh)
<1>1. <<>> \in Seq(Bytes) /\ <<>> \in Seq(0..MaxParam) /\ Len(<<>>) = 0
  OBVIOUS
<1>2. /\ 0 \in 0..MaxParam /\ 0 \in 0..IdxWrap - 1
      /\ 0 <= MaxIntermediate /\ 0 <= MaxParams /\ "ground" \in States
  BY ParserAssumption DEF States
<1>3. ParserOK(Parser)
  BY <1>1, <1>2, Packed DEF Parser
<1>4. ParserInv(Parser) /\ Parser.state = "ground"
  BY <1>3 DEF ParserInv, Parser
<1>5. Decoder.state \in DOMAIN Rows
  BY DEF Decoder, Rows, Accept
<1>6. QED
  BY <1>4, <1>5 DEF StreamInv, Fresh

LEMMA WithVtOK ==
    ASSUME NEW s, NEW p, StreamInv(s), s.utf8 = Decoder,
           p.state = "ground" \/ ParserInv(p)
    PROVE  /\ StreamInv(WithVt(s, p))
           /\ WithVt(s, p).vt = IF p.state = "ground" THEN Parser ELSE p
<1>1. PICK q : q = IF p.state = "ground" THEN Parser ELSE p
  OBVIOUS
<1>2. WithVt(s, p) = [vt |-> q, utf8 |-> Decoder]
  BY <1>1 DEF WithVt, StreamInv
<1>3. ParserInv(q) /\ (q.state = "ground" => q = Parser)
  BY <1>1, FreshOK DEF StreamInv, Fresh
<1>4. Decoder.state \in DOMAIN Rows
  BY DEF StreamInv
<1>5. QED
  BY <1>1, <1>2, <1>3, <1>4 DEF StreamInv

(* Text *)
LEMMA StartEscapeOK ==
    ASSUME NEW s, StreamInv(s), s.utf8 = Decoder
    PROVE  StreamInv(StartEscape(s))
<1>1. PICK p : p = Clear(s.vt)
  OBVIOUS
<1>2. ParserOK(p) /\ Clear(p) = p
  BY <1>1, ClearOK DEF StreamInv, ParserInv
<1>3. PICK q : q = [p EXCEPT !.state = "escape"]
  OBVIOUS
<1>4. ParserOK(q) /\ q.state = "escape"
  BY <1>2, <1>3 DEF ParserOK, States
<1>5. Clear(q) = q
  <2>1. [Parser EXCEPT !.state = p.state] = p
    BY <1>2 DEF Clear
  <2>2. q = [Parser EXCEPT !.state = "escape"]
    BY <2>1, <1>3
  <2>3. QED
    BY <2>2, <1>4 DEF Clear
<1>6. ParserInv(q)
  BY <1>4, <1>5 DEF ParserInv
<1>7. QED
  BY <1>1, <1>3, <1>6, WithVtOK DEF StartEscape

LEMMA OfferOK ==
    ASSUME NEW s, NEW c \in Bytes, StreamInv(s), s.vt.state = "ground"
    PROVE  /\ StreamInv(Offer(s, c).s)
           /\ ~ DecoderNext(s.utf8, c).used => Offer(s, c).s.vt.state = "ground"
<1>1. PICK n : n = DecoderNext(s.utf8, c)
  OBVIOUS
<1>2. PICK t : t = [s EXCEPT !.utf8 = n.d]
  OBVIOUS
<1>3. /\ n.d.state \in DOMAIN Rows
      /\ \/ n.out = <<>> /\ n.used
         \/ n.d = Decoder /\ \E cp : n.out = <<cp>>
      /\ ~ n.used => n.out = <<Replacement>>
  <2>1. s.utf8.state \in DOMAIN Rows
    BY DEF StreamInv
  <2>2. QED
    BY <1>1, <2>1, DecoderOK
<1>4. t = [vt |-> s.vt, utf8 |-> n.d]
  BY <1>2 DEF StreamInv
<1>5. StreamInv(t) /\ t.vt.state = "ground"
  BY <1>3, <1>4 DEF StreamInv
<1>6. Offer(s, c) = HandleCodepoints(t, n.out)
  BY <1>1, <1>2 DEF Offer, Decoded
<1>7. CASE n.out = <<>>
  <2>1. Offer(s, c).s = t
    BY <1>6, <1>7 DEF HandleCodepoints, Outcome
  <2>2. QED
    BY <1>5, <2>1
<1>8. CASE n.d = Decoder /\ \E cp : n.out = <<cp>>
  <2>1. PICK cp : n.out = <<cp>>
    BY <1>8
  <2>2. n.out # <<>> /\ n.out[1] = cp
    BY <2>1
  <2>3. CASE cp = Esc
    <3>1. Offer(s, c).s = StartEscape(t)
      BY <1>6, <2>2, <2>3 DEF HandleCodepoints, Outcome
    <3>2. n.used
      BY <1>3, <2>2, <2>3 DEF Esc, Replacement
    <3>3. QED
      BY <1>1, <1>4, <1>5, <1>8, <3>1, <3>2, StartEscapeOK
  <2>4. CASE cp # Esc
    <3>1. Offer(s, c).s = t
      BY <1>6, <2>2, <2>4 DEF HandleCodepoints, Outcome
    <3>2. QED
      BY <1>5, <3>1
  <2>5. QED
    BY <2>3, <2>4
<1>9. QED
  BY <1>3, <1>7, <1>8

LEMMA NextUtf8OK ==
    ASSUME NEW s, NEW c \in Bytes, StreamInv(s), s.vt.state = "ground"
    PROVE  StreamInv(NextUtf8(s, c).s)
<1>1. CASE DecoderNext(s.utf8, c).used
  BY <1>1, OfferOK DEF NextUtf8
<1>2. CASE ~ DecoderNext(s.utf8, c).used
  <2>1. PICK n : n = Offer(s, c)
    OBVIOUS
  <2>2. StreamInv(n.s) /\ n.s.vt.state = "ground"
    BY <1>2, <2>1, OfferOK
  <2>3. PICK m : m = Offer(n.s, c)
    OBVIOUS
  <2>4. NextUtf8(s, c) = [m EXCEPT !.acts = n.acts \o @]
    BY <1>2, <2>1, <2>3 DEF NextUtf8, OfferAgain, Then
  <2>5. NextUtf8(s, c).s = m.s
    BY <2>4
  <2>6. QED
    BY <2>2, <2>3, <2>5, OfferOK
<1>3. QED
  BY <1>1, <1>2

-----------------------------------------------------------------------------
(* The parser's actions as they are carried out *)

LEMMA PerformNone == Perform(<<<<>>, <<>>, <<>>>>) = <<>>
  BY DEF Perform, Carry

LEMMA PerformExecute ==
    ASSUME NEW c \in Bytes
    PROVE  Perform(<<<<>>, <<<<"execute", c>>>>, <<>>>>) = Execute(c)
<1>1. Perform(<<<<>>, <<<<"execute", c>>>>, <<>>>>) = Execute(c)
  <2>1. Perform(<<<<>>, <<<<"execute", c>>>>, <<>>>>) = (<<>> \o Execute(c)) \o <<>>
    BY DEF Perform, Carry
  <2>2. PICK X : Execute(c) \in Seq(X)
    <3>1. PICK e : Execute(c) = <<e>> \/ Execute(c) = <<>>
      BY DEF Execute
    <3>2. <<e>> \in Seq({e}) /\ <<>> \in Seq({e})
      OBVIOUS
    <3>3. QED
      BY <3>1, <3>2
  <2>3. QED
    BY <2>1, <2>2, ConcatEmptySeq
<1>2. QED
  BY <1>1

LEMMA PerformCsi ==
    ASSUME NEW p, NEW c
    PROVE  Perform(<<<<>>, <<Csi(p, c)>>, <<>>>>) = <<Csi(p, c)>>
<1>1. PICK e : e = Csi(p, c)
  OBVIOUS
<1>2. e[1] # "execute"
  BY <1>1 DEF Csi
<1>3. Carry(<<e>>) = <<e>>
  BY <1>2 DEF Carry
<1>4. Perform(<<<<>>, <<e>>, <<>>>>) = (<<>> \o <<e>>) \o <<>>
  BY <1>3 DEF Perform, Carry
<1>5. <<e>> \in Seq({e})
  OBVIOUS
<1>6. QED
  BY <1>1, <1>4, <1>5, ConcatEmptySeq

-----------------------------------------------------------------------------
(* The rows the fast paths stand for *)

LEMMA EscapeRow == Table[91]["escape"] = [state |-> "csi_entry", action |-> "none"]
<1>1. "escape" \in States /\ 91 \in Bytes
  BY DEF States, Bytes
<1> DEFINE letters == (48..126) \ {80, 88, 91, 93, 94, 95}
           rows == {<<C0, "escape", "execute">>, <<32..47, "escape_intermediate", "collect">>,
                    <<letters, "ground", "esc_dispatch">>,
                    <<{88, 94, 95}, "sos_pm_apc_string", "none">>, <<{80}, "dcs_entry", "none">>,
                    <<{91}, "csi_entry", "none">>, <<{93}, "osc_string", "none">>}
<1>2. OwnRows["escape"] = rows
  BY <1>1 DEF OwnRows
<1>3. 91 \notin C0 \cup (32..47) \cup letters \cup {88, 94, 95} \cup {80} \cup {93}
  BY DEF C0
<1> HIDE DEF letters
<1>4. \E r \in rows : 91 \in r[1]
  OBVIOUS
<1>5. \A r \in rows : 91 \in r[1] => r[2] = "csi_entry" /\ r[3] = "none"
  BY <1>3
<1>6. QED
  BY <1>1, <1>2, <1>4, <1>5, OwnEffect

LEMMA ParamRows ==
    ASSUME NEW c \in Bytes
    PROVE  /\ c \in C0 => Table[c]["csi_param"] = [state |-> "csi_param", action |-> "execute"]
           /\ c \in CsiParamBytes =>
                 Table[c]["csi_param"] = [state |-> "csi_param", action |-> "param"]
           /\ c \in Finals =>
                 Table[c]["csi_param"] = [state |-> "ground", action |-> "csi_dispatch"]
           /\ c = 127 => Table[c]["csi_param"] = [state |-> "csi_param", action |-> "none"]
           /\ c \in {24, 26} =>
                 Table[c]["csi_param"] = [state |-> "ground", action |-> "execute"]
<1>1. "csi_param" \in States
  BY DEF States
<1> DEFINE rows == {<<C0, "csi_param", "execute">>, <<48..59, "csi_param", "param">>,
                    <<64..126, "ground", "csi_dispatch">>, <<60..63, "csi_ignore", "none">>,
                    <<32..47, "csi_intermediate", "collect">>}
<1>2. OwnRows["csi_param"] = rows
  BY <1>1 DEF OwnRows
<1>3. ASSUME c \in C0
      PROVE  Table[c]["csi_param"] = [state |-> "csi_param", action |-> "execute"]
  <2>1. \E r \in rows : c \in r[1]
    BY <1>3 DEF CsiParamBytes, Digits, Separators, Finals
  <2>2. \A r \in rows : c \in r[1] => r[2] = "csi_param" /\ r[3] = "execute"
    BY <1>3 DEF C0, CsiParamBytes, Digits, Separators, Finals
  <2> HIDE DEF rows
  <2>3. QED
    BY <1>1, <1>2, <2>1, <2>2, OwnEffect
<1>4. ASSUME c \in CsiParamBytes
      PROVE  Table[c]["csi_param"] = [state |-> "csi_param", action |-> "param"]
  <2>1. \E r \in rows : c \in r[1]
    BY <1>4 DEF CsiParamBytes, Digits, Separators, Finals
  <2>2. \A r \in rows : c \in r[1] => r[2] = "csi_param" /\ r[3] = "param"
    BY <1>4 DEF C0, CsiParamBytes, Digits, Separators, Finals
  <2> HIDE DEF rows
  <2>3. QED
    BY <1>1, <1>2, <2>1, <2>2, OwnEffect
<1>5. ASSUME c \in Finals
      PROVE  Table[c]["csi_param"] = [state |-> "ground", action |-> "csi_dispatch"]
  <2>1. \E r \in rows : c \in r[1]
    BY <1>5 DEF CsiParamBytes, Digits, Separators, Finals
  <2>2. \A r \in rows : c \in r[1] => r[2] = "ground" /\ r[3] = "csi_dispatch"
    BY <1>5 DEF C0, CsiParamBytes, Digits, Separators, Finals
  <2> HIDE DEF rows
  <2>3. QED
    BY <1>1, <1>2, <2>1, <2>2, OwnEffect
<1>6. ASSUME c = 127
      PROVE  Table[c]["csi_param"] = [state |-> "csi_param", action |-> "none"]
  <2>1. \A r \in rows \cup Anywhere : c \notin r[1]
    BY <1>6 DEF Anywhere, Esc, C0
  <2>2. QED
    BY <1>1, <1>2, <2>1, NoEffect
<1>7. ASSUME c \in {24, 26}
      PROVE  Table[c]["csi_param"] = [state |-> "ground", action |-> "execute"]
  <2>1. \A r \in rows : c \notin r[1]
    BY <1>7 DEF C0
  <2>2. \E r \in Anywhere : c \in r[1]
    BY <1>7 DEF Anywhere
  <2>3. \A r \in Anywhere : c \in r[1] => r[2] = "ground" /\ r[3] = "execute"
    BY <1>7 DEF Anywhere, Esc
  <2> HIDE DEF rows
  <2>4. QED
    BY <1>1, <1>2, <2>1, <2>2, <2>3, AnywhereEffect
<1>8. QED
  BY <1>3, <1>4, <1>5, <1>6, <1>7

LEMMA EntryRows ==
    ASSUME NEW c \in Bytes
    PROVE  /\ c \in Digits \cup {59} =>
                 Table[c]["csi_entry"] = [state |-> "csi_param", action |-> "param"]
           /\ c \in 60..63 =>
                 Table[c]["csi_entry"] = [state |-> "csi_param", action |-> "collect"]
           /\ c \in Finals =>
                 Table[c]["csi_entry"] = [state |-> "ground", action |-> "csi_dispatch"]
<1>1. "csi_entry" \in States
  BY DEF States
<1> DEFINE rows == {<<C0, "csi_entry", "execute">>, <<64..126, "ground", "csi_dispatch">>,
                    <<{58}, "csi_ignore", "none">>, <<32..47, "csi_intermediate", "collect">>,
                    <<(48..57) \cup {59}, "csi_param", "param">>,
                    <<60..63, "csi_param", "collect">>}
<1>2. OwnRows["csi_entry"] = rows
  BY <1>1 DEF OwnRows
<1>3. ASSUME c \in Digits \cup {59}
      PROVE  Table[c]["csi_entry"] = [state |-> "csi_param", action |-> "param"]
  <2>1. \E r \in rows : c \in r[1]
    BY <1>3 DEF CsiParamBytes, Digits, Separators, Finals
  <2>2. \A r \in rows : c \in r[1] => r[2] = "csi_param" /\ r[3] = "param"
    BY <1>3 DEF C0, CsiParamBytes, Digits, Separators, Finals
  <2> HIDE DEF rows
  <2>3. QED
    BY <1>1, <1>2, <2>1, <2>2, OwnEffect
<1>4. ASSUME c \in 60..63
      PROVE  Table[c]["csi_entry"] = [state |-> "csi_param", action |-> "collect"]
  <2>1. \E r \in rows : c \in r[1]
    BY <1>4 DEF CsiParamBytes, Digits, Separators, Finals
  <2>2. \A r \in rows : c \in r[1] => r[2] = "csi_param" /\ r[3] = "collect"
    BY <1>4 DEF C0, CsiParamBytes, Digits, Separators, Finals
  <2> HIDE DEF rows
  <2>3. QED
    BY <1>1, <1>2, <2>1, <2>2, OwnEffect
<1>5. ASSUME c \in Finals
      PROVE  Table[c]["csi_entry"] = [state |-> "ground", action |-> "csi_dispatch"]
  <2>1. \E r \in rows : c \in r[1]
    BY <1>5 DEF CsiParamBytes, Digits, Separators, Finals
  <2>2. \A r \in rows : c \in r[1] => r[2] = "ground" /\ r[3] = "csi_dispatch"
    BY <1>5 DEF C0, CsiParamBytes, Digits, Separators, Finals
  <2> HIDE DEF rows
  <2>3. QED
    BY <1>1, <1>2, <2>1, <2>2, OwnEffect
<1>6. QED
  BY <1>3, <1>4, <1>5

-----------------------------------------------------------------------------
(* A control sequence, byte by byte *)

(* A row of the table that keeps the state, and one that leads to another. *)
LEMMA Stays ==
    ASSUME NEW p, NEW c, NEW action,
           Table[c][p.state] = [state |-> p.state, action |-> action]
    PROVE  ParserNext(p, c) = [p |-> Act(action, p, c).p,
                               acts |-> <<<<>>, Act(action, p, c).acts, <<>>>>]
  BY DEF ParserNext

LEMMA Moves ==
    ASSUME NEW p, NEW c, NEW to, NEW action, NEW acted, NEW entered,
           Table[c][p.state] = [state |-> to, action |-> action], to # p.state,
           acted = Act(action, p, c), Exit(p.state, c) = <<>>,
           Enter(to, acted.p, c) = [p |-> entered, acts |-> <<>>]
    PROVE  ParserNext(p, c) = [p |-> [entered EXCEPT !.state = to],
                               acts |-> <<<<>>, acted.acts, <<>>>>]
<1>1. ParserNext(p, c) = [p |-> [Enter(to, acted.p, c).p EXCEPT !.state = to],
                          acts |-> <<Exit(p.state, c), acted.acts,
                                     Enter(to, acted.p, c).acts>>]
  BY DEF ParserNext
<1>2. Enter(to, acted.p, c).p = entered /\ Enter(to, acted.p, c).acts = <<>>
  OBVIOUS
<1>3. QED
  BY <1>1, <1>2

(* What the fast paths are. *)
LEMMA EscapeArm ==
    ASSUME NEW s, s.vt.state = "escape"
    PROVE  NextNonUtf8(s, 91) = Outcome(WithVt(s, [s.vt EXCEPT !.state = "csi_entry"]), <<>>)
  BY DEF NextNonUtf8

LEMMA EntryArm ==
    ASSUME NEW s, NEW c \in CsiEntryBytes, s.vt.state = "csi_entry"
    PROVE  NextNonUtf8(s, c) = Outcome(WithVt(s, CsiEntryByte(s.vt, c).p),
                                       CsiEntryByte(s.vt, c).acts)
  BY DEF NextNonUtf8

LEMMA ParamArms ==
    ASSUME NEW s, NEW c \in Bytes, s.vt.state = "csi_param"
    PROVE  /\ c < 16 => NextNonUtf8(s, c) = Outcome(WithVt(s, s.vt), Execute(c))
           /\ c \in (C0 \ 0..15) \cup {127} =>
                 NextNonUtf8(s, c) = Outcome(WithVt(s, s.vt), <<>>)
           /\ c \in {24, 26} =>
                 NextNonUtf8(s, c) =
                     Outcome(WithVt(s, [s.vt EXCEPT !.state = "ground"]), <<>>)
           /\ c \in CsiParamBytes =>
                 NextNonUtf8(s, c) = Outcome(WithVt(s, CsiParam(s.vt, c)), <<>>)
           /\ c \in Finals =>
                 NextNonUtf8(s, c) = Outcome(WithVt(s, CsiDispatchFinal(s.vt, c).p),
                                             CsiDispatchFinal(s.vt, c).acts)
           /\ c \notin C0 \cup {24, 26, 127} \cup CsiParamBytes \cup Finals =>
                 NextNonUtf8(s, c) = ByTable(s, c)
<1>1. /\ c < 16 => c \in C0 /\ c \notin (C0 \ 0..15) \cup {127} \cup {24, 26}
                               /\ c \notin CsiParamBytes \cup Finals
      /\ c \in (C0 \ 0..15) \cup {127} =>
            ~ (c < 16) /\ c \notin {24, 26} \cup CsiParamBytes \cup Finals
      /\ c \in {24, 26} => ~ (c < 16) /\ c \notin CsiParamBytes \cup Finals
      /\ c \in CsiParamBytes => ~ (c < 16) /\ c \notin Finals
      /\ c \in Finals => ~ (c < 16)
      /\ c \in C0 => c < 16 \/ c \in C0 \ 0..15
  BY DEF C0, CsiParamBytes, Digits, Separators, Finals, Bytes
<1>2. CASE c < 16
  BY <1>1, <1>2 DEF NextNonUtf8
<1>3. CASE c \in (C0 \ 0..15) \cup {127}
  BY <1>1, <1>3 DEF NextNonUtf8
<1>4. CASE c \in {24, 26}
  BY <1>1, <1>4 DEF NextNonUtf8
<1>5. CASE c \in CsiParamBytes
  BY <1>1, <1>5 DEF NextNonUtf8
<1>6. CASE c \in Finals
  BY <1>1, <1>6 DEF NextNonUtf8
<1>7. CASE c \notin C0 \cup {24, 26, 127} \cup CsiParamBytes \cup Finals
  BY <1>1, <1>7 DEF NextNonUtf8
<1>8. QED
  BY <1>1, <1>2, <1>3, <1>4, <1>5, <1>6, <1>7

LEMMA OtherArm ==
    ASSUME NEW s, NEW c \in Bytes,
           ~ (s.vt.state = "escape" /\ c = 91),
           ~ (/\ s.vt.state = "csi_param"
              /\ c \in C0 \cup {24, 26, 127} \cup CsiParamBytes \cup Finals),
           ~ (s.vt.state = "csi_entry" /\ c \in CsiEntryBytes)
    PROVE  NextNonUtf8(s, c) = ByTable(s, c)
<1>1. CASE s.vt.state = "csi_param"
  BY <1>1, ParamArms
<1>2. CASE s.vt.state # "csi_param"
  BY <1>2 DEF NextNonUtf8
<1>3. QED
  BY <1>1, <1>2

(* A byte that the fast paths and the table treat alike.                   *)
Alike(s, c) ==
    /\ NextNonUtf8(s, c).acts = ByTable(s, c).acts
    /\ Live(NextNonUtf8(s, c).s.vt) = Live(ByTable(s, c).s.vt)

LEMMA AlikeBy ==
    ASSUME NEW s, NEW c, NEW q, NEW r, NEW acts, NEW tabled,
           StreamInv(s), s.vt.state # "ground",
           NextNonUtf8(s, c) = Outcome(WithVt(s, q), acts),
           ParserNext(s.vt, c) = [p |-> r, acts |-> tabled], Perform(tabled) = acts,
           \/ q.state = "ground" /\ r.state = "ground"
           \/ /\ q.state # "ground" /\ r.state # "ground"
              /\ ParserInv(q) /\ Live(q) = Live(r)
    PROVE  Alike(s, c) /\ StreamInv(NextNonUtf8(s, c).s)
<1>1. s.utf8 = Decoder /\ s = [vt |-> s.vt, utf8 |-> s.utf8]
  BY DEF StreamInv
<1>2. StreamInv(WithVt(s, q)) /\ WithVt(s, q).vt = IF q.state = "ground" THEN Parser ELSE q
  BY <1>1, WithVtOK
<1>3. NextNonUtf8(s, c).s = WithVt(s, q) /\ NextNonUtf8(s, c).acts = acts
  BY DEF Outcome
<1>4. ByTable(s, c).s = WithVt(s, r) /\ ByTable(s, c).acts = acts
  BY DEF ByTable, Performed, Outcome
<1>5. WithVt(s, r).vt = IF r.state = "ground" THEN Parser ELSE r
  BY <1>1 DEF WithVt
<1>6. QED
  BY <1>2, <1>3, <1>4, <1>5 DEF Alike

(* The final byte of a CSI: the parser's csi_dispatch and the fast path's. *)
LEMMA DispatchAlike ==
    ASSUME NEW p, NEW c \in Bytes, ParserOK(p)
    PROVE  /\ CsiDispatchFinal(p, c).p.state = "ground"
           /\ ParserOK(Act("csi_dispatch", p, c).p)
           /\ Act("csi_dispatch", p, c).acts = CsiDispatchFinal(p, c).acts
           /\ Perform(<<<<>>, CsiDispatchFinal(p, c).acts, <<>>>>) =
                 CsiDispatchFinal(p, c).acts
<1>1. CASE Len(p.params) >= MaxParams
  <2>1. /\ CsiDispatchFinal(p, c).p = [p EXCEPT !.state = "ground"]
        /\ CsiDispatchFinal(p, c).acts = <<>>
        /\ Act("csi_dispatch", p, c) = [p |-> p, acts |-> <<>>]
    BY <1>1 DEF CsiDispatchFinal, Act
  <2>2. [p EXCEPT !.state = "ground"].state = "ground"
    BY DEF ParserOK
  <2>3. QED
    BY <2>1, <2>2, PerformNone
<1>2. CASE ~ (Len(p.params) >= MaxParams)
  <2>1. Len(p.params) < MaxParams
    BY <1>2, Unpacked, ParserAssumption
  <2>2. PICK final : final = Finalize(p)
    OBVIOUS
  <2>3. ParserOK(final)
    BY <2>1, <2>2, FinalizeOK
  <2>4. PICK acts : acts = IF c # 109 /\ p.sep # {} THEN <<>> ELSE <<Csi(final, c)>>
    OBVIOUS
  <2>5. /\ CsiDispatchFinal(p, c).p = [final EXCEPT !.state = "ground"]
        /\ CsiDispatchFinal(p, c).acts = acts
    BY <1>2, <2>2, <2>4 DEF CsiDispatchFinal
  <2>6. Act("csi_dispatch", p, c) = [p |-> final, acts |-> acts]
    BY <1>2, <2>2, <2>4 DEF Act
  <2>7. [final EXCEPT !.state = "ground"].state = "ground"
    BY <2>3 DEF ParserOK
  <2>8. Perform(<<<<>>, acts, <<>>>>) = acts
    BY <2>4, PerformNone, PerformCsi
  <2>9. QED
    BY <2>3, <2>5, <2>6, <2>7, <2>8
<1>3. QED
  BY <1>1, <1>2

(* Ending a sequence needs no more: the parser that is left is fresh.      *)
LEMMA FinalAlike ==
    ASSUME NEW s, NEW c \in Finals, StreamInv(s), s.vt.state \in {"csi_entry", "csi_param"}
    PROVE  Alike(s, c) /\ StreamInv(NextNonUtf8(s, c).s)
<1>1. c \in Bytes /\ c \in CsiEntryBytes
  BY DEF Finals, Bytes, CsiEntryBytes
<1>2. PICK p : p = s.vt
  OBVIOUS
<1>3. ParserOK(p) /\ p.state \in {"csi_entry", "csi_param"}
  BY <1>2 DEF StreamInv, ParserInv
<1>4. NextNonUtf8(s, c) = Outcome(WithVt(s, CsiDispatchFinal(p, c).p),
                                  CsiDispatchFinal(p, c).acts)
  <2>1. CASE p.state = "csi_param"
    BY <1>1, <1>2, <2>1, ParamArms
  <2>2. CASE p.state = "csi_entry"
    <3>1. CsiEntryByte(p, c) = CsiDispatchFinal(p, c)
      BY DEF CsiEntryByte
    <3>2. QED
      BY <1>1, <1>2, <2>2, <3>1, EntryArm
  <2>3. QED
    BY <1>3, <2>1, <2>2
<1>5. Table[c][p.state] = [state |-> "ground", action |-> "csi_dispatch"]
  BY <1>1, <1>3, ParamRows, EntryRows
<1>6. PICK acted : acted = Act("csi_dispatch", p, c)
  OBVIOUS
<1>7. Exit(p.state, c) = <<>> /\ Enter("ground", acted.p, c) = [p |-> acted.p, acts |-> <<>>]
  BY <1>3 DEF Exit, Enter
<1>8. ParserNext(p, c) = [p |-> [acted.p EXCEPT !.state = "ground"],
                          acts |-> <<<<>>, acted.acts, <<>>>>]
  BY <1>3, <1>5, <1>6, <1>7, Moves
<1>9. /\ [acted.p EXCEPT !.state = "ground"].state = "ground"
      /\ CsiDispatchFinal(p, c).p.state = "ground"
      /\ Perform(<<<<>>, acted.acts, <<>>>>) = CsiDispatchFinal(p, c).acts
  <2>1. ParserOK(acted.p) /\ acted.acts = CsiDispatchFinal(p, c).acts
    BY <1>1, <1>3, <1>6, DispatchAlike
  <2>2. [acted.p EXCEPT !.state = "ground"].state = "ground"
    BY <2>1 DEF ParserOK
  <2>3. QED
    BY <1>1, <1>3, <2>1, <2>2, DispatchAlike
<1>10. p.state # "ground"
  BY <1>3
<1>11. QED
  <2>1. PICK q, acts : q = CsiDispatchFinal(p, c).p /\ acts = CsiDispatchFinal(p, c).acts
    OBVIOUS
  <2>2. PICK r, tabled : /\ r = [acted.p EXCEPT !.state = "ground"]
                         /\ tabled = <<<<>>, acted.acts, <<>>>>
    OBVIOUS
  <2>3. NextNonUtf8(s, c) = Outcome(WithVt(s, q), acts)
    BY <1>4, <2>1
  <2>4. ParserNext(s.vt, c) = [p |-> r, acts |-> tabled] /\ Perform(tabled) = acts
    BY <1>2, <1>8, <1>9, <2>1, <2>2
  <2>5. q.state = "ground" /\ r.state = "ground" /\ s.vt.state # "ground"
    BY <1>2, <1>9, <1>10, <2>1, <2>2
  <2>6. QED
    BY <2>3, <2>4, <2>5, AlikeBy

(* The other bytes a CSI's parameters may be interrupted by. *)
LEMMA ControlAlike ==
    ASSUME NEW s, NEW c \in C0 \cup {24, 26, 127}, StreamInv(s), s.vt.state = "csi_param"
    PROVE  Alike(s, c) /\ StreamInv(NextNonUtf8(s, c).s)
<1>1. c \in Bytes
  BY DEF C0, Bytes
<1>2. PICK p : p = s.vt
  OBVIOUS
<1>3. ParserInv(p) /\ ParserOK(p) /\ p.state = "csi_param" /\ p.state # "ground"
  BY <1>2 DEF StreamInv, ParserInv
<1>4. CASE c \in C0
  <2>1. Table[c][p.state] = [state |-> p.state, action |-> "execute"]
    BY <1>1, <1>3, <1>4, ParamRows
  <2>2. Act("execute", p, c) = [p |-> p, acts |-> <<<<"execute", c>>>>]
    BY DEF Act
  <2>3. ParserNext(p, c) = [p |-> p, acts |-> <<<<>>, <<<<"execute", c>>>>, <<>>>>]
    BY <2>1, <2>2, Stays
  <2>4. NextNonUtf8(s, c) = Outcome(WithVt(s, p), Execute(c))
    <3>1. CASE c < 16
      <4>1. NextNonUtf8(s, c) = Outcome(WithVt(s, s.vt), Execute(c))
        BY <1>1, <3>1, ParamArms
      <4>2. QED
        BY <1>2, <4>1
    <3>2. CASE ~ (c < 16)
      <4>1. c \in C0 \ 0..15
        BY <1>4, <3>2 DEF C0
      <4>2. Execute(c) = <<>>
        BY <1>1, <1>4, <3>2 DEF Execute, C0
      <4>3. QED
        BY <1>1, <1>2, <1>3, <4>1, <4>2, ParamArms
    <3>3. QED
      BY <3>1, <3>2
  <2>5. QED
    BY <1>1, <1>2, <1>3, <2>3, <2>4, PerformExecute, AlikeBy
<1>5. CASE c = 127
  <2>1. Table[c][p.state] = [state |-> p.state, action |-> "none"]
    BY <1>1, <1>3, <1>5, ParamRows
  <2>2. Act("none", p, c) = [p |-> p, acts |-> <<>>]
    BY DEF Act
  <2>3. ParserNext(p, c) = [p |-> p, acts |-> <<<<>>, <<>>, <<>>>>]
    BY <2>1, <2>2, Stays
  <2>4. NextNonUtf8(s, c) = Outcome(WithVt(s, p), <<>>)
    BY <1>1, <1>2, <1>3, <1>5, ParamArms
  <2>5. QED
    BY <1>1, <1>2, <1>3, <2>3, <2>4, PerformNone, AlikeBy
<1>6. CASE c \in {24, 26}
  <2>1. Table[c][p.state] = [state |-> "ground", action |-> "execute"]
    BY <1>1, <1>3, <1>6, ParamRows
  <2>2. PICK acted : acted = Act("execute", p, c)
    OBVIOUS
  <2>3. acted.p = p /\ acted.acts = <<<<"execute", c>>>>
    BY <2>2 DEF Act
  <2>4. Exit(p.state, c) = <<>> /\ Enter("ground", acted.p, c) = [p |-> p, acts |-> <<>>]
    BY <1>3, <2>3 DEF Exit, Enter
  <2>5. ParserNext(p, c) = [p |-> [p EXCEPT !.state = "ground"],
                            acts |-> <<<<>>, <<<<"execute", c>>>>, <<>>>>]
    <3>1. ParserNext(p, c) = [p |-> [p EXCEPT !.state = "ground"],
                              acts |-> <<<<>>, acted.acts, <<>>>>]
      BY <1>3, <2>1, <2>2, <2>4, Moves
    <3>2. QED
      BY <2>3, <3>1
  <2>6. NextNonUtf8(s, c) = Outcome(WithVt(s, [p EXCEPT !.state = "ground"]), <<>>)
    BY <1>1, <1>2, <1>3, <1>6, ParamArms
  <2>7. Execute(c) = <<>>
    BY <1>6 DEF Execute
  <2>8. [p EXCEPT !.state = "ground"].state = "ground"
    BY <1>3 DEF ParserOK
  <2>9. PICK q : q = [p EXCEPT !.state = "ground"]
    OBVIOUS
  <2>10. PICK tabled : tabled = <<<<>>, <<<<"execute", c>>>>, <<>>>>
    OBVIOUS
  <2>11. ParserNext(s.vt, c) = [p |-> q, acts |-> tabled] /\ Perform(tabled) = <<>>
    BY <1>1, <1>2, <2>5, <2>7, <2>9, <2>10, PerformExecute
  <2>12. NextNonUtf8(s, c) = Outcome(WithVt(s, q), <<>>)
    BY <2>6, <2>9
  <2>13. q.state = "ground" /\ s.vt.state # "ground"
    BY <1>2, <1>3, <2>8, <2>9
  <2>14. QED
    BY <2>11, <2>12, <2>13, AlikeBy
<1>7. QED
  BY <1>4, <1>5, <1>6

(* The start of a CSI. *)
LEMMA EscapeAlike ==
    ASSUME NEW s, StreamInv(s), s.vt.state = "escape"
    PROVE  Alike(s, 91) /\ StreamInv(NextNonUtf8(s, 91).s)
<1>1. 91 \in Bytes
  BY DEF Bytes
<1>2. PICK p : p = s.vt
  OBVIOUS
<1>3. ParserOK(p) /\ Clear(p) = p /\ p.state = "escape"
  BY <1>2 DEF StreamInv, ParserInv
<1>4. PICK q : q = [p EXCEPT !.state = "csi_entry"]
  OBVIOUS
<1>5. ParserOK(q) /\ q.state = "csi_entry"
  BY <1>3, <1>4 DEF ParserOK, States
<1>6. Clear(q) = q
  <2>1. p = [Parser EXCEPT !.state = p.state]
    BY <1>3 DEF Clear
  <2>2. q = [Parser EXCEPT !.state = "csi_entry"]
    BY <2>1, <1>4
  <2>3. QED
    BY <2>2, <1>5 DEF Clear
<1>7. NextNonUtf8(s, 91) = Outcome(WithVt(s, q), <<>>)
  BY <1>2, <1>3, <1>4, EscapeArm
<1>8. ParserNext(p, 91) = [p |-> q, acts |-> <<<<>>, <<>>, <<>>>>]
  <2>1. Table[91][p.state] = [state |-> "csi_entry", action |-> "none"]
    BY <1>3, EscapeRow
  <2>2. PICK acted : acted = Act("none", p, 91)
    OBVIOUS
  <2>3. acted.p = p /\ acted.acts = <<>>
    BY <2>2 DEF Act
  <2>4. Exit(p.state, 91) = <<>> /\ Enter("csi_entry", acted.p, 91) = [p |-> p, acts |-> <<>>]
    BY <1>3, <2>3 DEF Exit, Enter
  <2>5. ParserNext(p, 91) = [p |-> [p EXCEPT !.state = "csi_entry"],
                             acts |-> <<<<>>, acted.acts, <<>>>>]
    BY <1>3, <2>1, <2>2, <2>4, Moves
  <2>6. QED
    BY <1>4, <2>3, <2>5
<1>9. ParserInv(q) /\ q.state # "ground" /\ s.vt.state # "ground"
  BY <1>5, <1>6 DEF ParserInv
<1>10. QED
  BY <1>2, <1>7, <1>8, <1>9, PerformNone, AlikeBy

(* A digit or a separator among the parameters of a CSI. *)
LEMMA ParameterAlike ==
    ASSUME NEW s, NEW c \in CsiParamBytes, StreamInv(s), s.vt.state = "csi_param"
    PROVE  Alike(s, c) /\ StreamInv(NextNonUtf8(s, c).s)
<1>1. c \in Bytes /\ c \in 48..59
  BY DEF CsiParamBytes, Digits, Separators, Bytes
<1>2. PICK p : p = s.vt
  OBVIOUS
<1>3. ParserOK(p) /\ p.state = "csi_param" /\ p.idx \in {0, 1}
  BY <1>2 DEF StreamInv, ParserInv
<1>4. PICK q : q = CsiParam(p, c)
  OBVIOUS
<1>5. PICK r : r = Param(p, c)
  OBVIOUS
<1>6. NextNonUtf8(s, c) = Outcome(WithVt(s, q), <<>>)
  BY <1>1, <1>2, <1>3, <1>4, ParamArms
<1>7. ParserNext(p, c) = [p |-> r, acts |-> <<<<>>, <<>>, <<>>>>]
  <2>1. Table[c][p.state] = [state |-> p.state, action |-> "param"]
    BY <1>1, <1>3, ParamRows
  <2>2. Act("param", p, c) = [p |-> r, acts |-> <<>>]
    BY <1>5 DEF Act
  <2>3. QED
    BY <2>1, <2>2, Stays
<1>8. ParserOK(r) /\ r.state = "csi_param"
  BY <1>1, <1>3, <1>5, ParamOK
<1>9. ParserInv(q) /\ q.state = "csi_param" /\ Live(q) = Live(r)
  <2>1. CASE c \in Separators
    <3>1. q = Separate(p, c) /\ r = q
      BY <1>4, <1>5, <2>1 DEF CsiParam, Param
    <3>2. q.idx \in {p.idx, 0}
      BY <1>3, <3>1, SeparateOK
    <3>3. QED
      BY <1>3, <1>8, <3>1, <3>2 DEF ParserInv
  <2>2. CASE c \notin Separators
    <3>1. PICK acc, idx : acc = Accumulate(p.acc, c) /\ idx = (p.idx + 1) % IdxWrap
      OBVIOUS
    <3>2. acc \in 0..MaxParam
      <4>1. c \in Digits /\ p.acc \in 0..MaxParam
        BY <1>3, <2>2, Unpacked DEF CsiParamBytes
      <4>2. QED
        BY <3>1, <4>1, AccumulateOK
    <3>3. idx \in {1, 2}
      BY <1>3, <3>1, ParserAssumption
    <3>4. r = [state |-> p.state, inter |-> p.inter, params |-> p.params, sep |-> p.sep,
               acc |-> acc, idx |-> idx]
      <4>1. r = [p EXCEPT !.acc = acc, !.idx = idx]
        BY <1>5, <2>2, <3>1 DEF Param
      <4>2. QED
        BY <1>3, <4>1, PutNumber
    <3>5. r.acc = acc /\ r.params = p.params /\ r.idx # 0
      BY <3>3, <3>4
    <3>6. CASE Len(p.params) >= MaxParams
      <4>1. q = p
        BY <1>4, <2>2, <3>6 DEF CsiParam
      <4>2. Live(q) = [p EXCEPT !.acc = 0, !.idx = 0]
        BY <3>6, <4>1 DEF Live
      <4>3. Live(q) = [state |-> p.state, inter |-> p.inter, params |-> p.params,
                       sep |-> p.sep, acc |-> 0, idx |-> 0]
        BY <1>3, <4>2, PutNumber
      <4>4. Live(r) = [r EXCEPT !.acc = 0, !.idx = 0]
        BY <3>4, <3>6 DEF Live
      <4>5. Live(r) = [state |-> r.state, inter |-> r.inter, params |-> r.params,
                       sep |-> r.sep, acc |-> 0, idx |-> 0]
        BY <1>8, <4>4, PutNumber
      <4>6. Live(q) = Live(r)
        BY <3>4, <4>3, <4>5
      <4>7. QED
        BY <1>3, <4>1, <4>6 DEF ParserInv
    <3>7. CASE ~ (Len(p.params) >= MaxParams)
      <4>1. q = [p EXCEPT !.acc = acc, !.idx = 1]
        BY <1>4, <2>2, <3>1, <3>7 DEF CsiParam
      <4>2. q = [state |-> p.state, inter |-> p.inter, params |-> p.params, sep |-> p.sep,
                 acc |-> acc, idx |-> 1]
        BY <1>3, <4>1, PutNumber
      <4>3. 1 \in 0..IdxWrap - 1
        BY ParserAssumption
      <4>4. ParserOK(q)
        BY <1>3, <3>2, <4>2, <4>3, Unpacked, Packed
      <4>5. Live(q) = [q EXCEPT !.acc = acc, !.idx = 1]
        BY <3>7, <4>2 DEF Live
      <4>6. Live(r) = [r EXCEPT !.acc = acc, !.idx = 1]
        BY <3>5, <3>7 DEF Live
      <4>7. Live(q) = [state |-> p.state, inter |-> p.inter, params |-> p.params,
                       sep |-> p.sep, acc |-> acc, idx |-> 1]
        BY <4>2, <4>4, <4>5, PutNumber
      <4>8. Live(r) = [state |-> p.state, inter |-> p.inter, params |-> p.params,
                       sep |-> p.sep, acc |-> acc, idx |-> 1]
        BY <1>8, <3>4, <4>6, PutNumber
      <4>9. QED
        BY <1>3, <4>2, <4>4, <4>7, <4>8 DEF ParserInv
    <3>8. QED
      BY <3>6, <3>7
  <2>3. QED
    BY <2>1, <2>2
<1>10. QED
  BY <1>2, <1>3, <1>6, <1>7, <1>8, <1>9, PerformNone, AlikeBy

(* The first byte of a CSI after ESC [, where the arrays are empty. *)
LEMMA EntryAlike ==
    ASSUME NEW s, NEW c \in CsiEntryBytes \ Finals, StreamInv(s), s.vt.state = "csi_entry"
    PROVE  Alike(s, c) /\ StreamInv(NextNonUtf8(s, c).s)
<1>1. c \in Bytes /\ c \in CsiEntryBytes /\ c \in (48..57) \cup {59} \cup (60..63)
  BY DEF CsiEntryBytes, Digits, Finals, Bytes
<1>2. PICK p : p = s.vt
  OBVIOUS
<1>3. ParserOK(p) /\ p.state = "csi_entry" /\ Clear(p) = p
  BY <1>2 DEF StreamInv, ParserInv
<1>4. /\ p.inter = <<>> /\ p.params = <<>> /\ p.sep = {} /\ p.acc = 0 /\ p.idx = 0
      /\ Len(p.params) = 0 /\ Len(p.inter) = 0
  BY <1>3 DEF Clear, Parser
<1>5. PICK q : q = CsiEntryByte(p, c).p
  OBVIOUS
<1>6. PICK e : e = CsiFirst(p, c)
  OBVIOUS
<1>7. q = [e EXCEPT !.state = "csi_param"] /\ CsiEntryByte(p, c).acts = <<>>
  BY <1>5, <1>6 DEF CsiEntryByte
<1>8. NextNonUtf8(s, c) = Outcome(WithVt(s, q), <<>>)
  <2>1. NextNonUtf8(s, c) = Outcome(WithVt(s, CsiEntryByte(s.vt, c).p),
                                    CsiEntryByte(s.vt, c).acts)
    BY <1>1, EntryArm
  <2>2. QED
    BY <1>2, <1>5, <1>7, <2>1
<1>9. ASSUME ParserOK(e), e.idx \in {0, 1}
      PROVE  ParserInv(q) /\ q.state = "csi_param"
  BY <1>7, <1>9 DEF ParserInv, ParserOK, States
<1>10. ASSUME NEW action, NEW acted, acted = Act(action, p, c),
              acted.p = e, acted.acts = <<>>,
              Table[c][p.state] = [state |-> "csi_param", action |-> action]
       PROVE  ParserNext(p, c) = [p |-> q, acts |-> <<<<>>, <<>>, <<>>>>]
  <2>1. Exit(p.state, c) = <<>> /\ Enter("csi_param", acted.p, c) = [p |-> e, acts |-> <<>>]
    BY <1>3, <1>10 DEF Exit, Enter
  <2>2. ParserNext(p, c) = [p |-> [e EXCEPT !.state = "csi_param"],
                            acts |-> <<<<>>, acted.acts, <<>>>>]
    BY <1>3, <1>10, <2>1, Moves
  <2>3. QED
    BY <1>7, <1>10, <2>2
<1>11. ParserOK(e) /\ e.idx \in {0, 1}
       /\ ParserNext(p, c) = [p |-> q, acts |-> <<<<>>, <<>>, <<>>>>]
  <2>1. CASE c \in 60..63
    <3>1. c \notin Digits /\ c # 59
      BY <2>1 DEF Digits
    <3>2. e = Collect(p, c)
      BY <1>6, <2>1, <3>1 DEF CsiFirst
    <3>3. ParserOK(e) /\ e.idx = 0
      BY <1>1, <1>3, <1>4, <3>2, CollectOK
    <3>4. PICK acted : acted = Act("collect", p, c)
      OBVIOUS
    <3>5. acted.p = e /\ acted.acts = <<>>
      BY <3>2, <3>4 DEF Act
    <3>6. Table[c][p.state] = [state |-> "csi_param", action |-> "collect"]
      BY <1>1, <1>3, <2>1, EntryRows
    <3>7. QED
      BY <1>10, <3>3, <3>4, <3>5, <3>6
  <2>2. CASE c \in (48..57) \cup {59}
    <3>1. e = Param(p, c)
      <4>1. CASE c \in 48..57
        <5>1. c \in Digits /\ c \notin Separators /\ c # 59 /\ c \notin 60..63
          BY <4>1 DEF Digits, Separators
        <5>2. Accumulate(0, c) = c - 48
          BY <4>1, ParserAssumption DEF Accumulate
        <5>3. (0 + 1) % IdxWrap = 1
          BY ParserAssumption
        <5>4. e = [p EXCEPT !.acc = c - 48, !.idx = 1]
          BY <1>6, <5>1 DEF CsiFirst
        <5>5. Param(p, c) = [p EXCEPT !.acc = Accumulate(p.acc, c),
                                      !.idx = (p.idx + 1) % IdxWrap]
          BY <5>1 DEF Param
        <5>6. QED
          BY <1>4, <5>2, <5>3, <5>4, <5>5
      <4>2. CASE c = 59
        <5>1. c \in Separators /\ c \notin Digits /\ ~ (Len(p.params) >= MaxParams)
          BY <1>4, <4>2, ParserAssumption DEF Separators, Digits
        <5>2. PICK r : r = Param(p, c)
          OBVIOUS
        <5>3. r = [p EXCEPT !.params = Append(p.params, p.acc), !.acc = 0, !.idx = 0,
                            !.sep = p.sep]
          BY <4>2, <5>1, <5>2 DEF Param, Separate
        <5>4. Append(<<>>, 0) = <<0>>
          OBVIOUS
        <5>5. r = [p EXCEPT !.params = <<0>>, !.acc = 0, !.idx = 0, !.sep = {}]
          BY <1>4, <5>3, <5>4
        <5>6. r = [state |-> p.state, inter |-> p.inter, params |-> <<0>>, sep |-> {},
                   acc |-> 0, idx |-> 0]
          BY <1>3, <5>5, PutParameter
        <5>7. e = [p EXCEPT !.params = <<0>>]
          BY <1>6, <4>2, <5>1 DEF CsiFirst
        <5>8. e = [state |-> p.state, inter |-> p.inter, params |-> <<0>>, sep |-> p.sep,
                   acc |-> p.acc, idx |-> p.idx]
          BY <1>3, <5>7, PutParams
        <5>9. QED
          BY <1>4, <5>2, <5>6, <5>8
      <4>3. QED
        BY <2>2, <4>1, <4>2
    <3>2. ParserOK(e)
      BY <1>3, <2>2, <3>1, ParamOK
    <3>3. e.idx \in {0, 1}
      <4>1. CASE c \in Separators
        BY <1>3, <1>4, <3>1, <4>1, SeparateOK DEF Param
      <4>2. CASE c \notin Separators
        <5>1. c \in Digits /\ c # 59 /\ c \notin 60..63
          BY <2>2, <4>2 DEF Digits, Separators
        <5>2. PICK acc, idx : acc = c - 48 /\ idx = 1
          OBVIOUS
        <5>3. e = [p EXCEPT !.acc = acc, !.idx = idx]
          BY <1>6, <5>1, <5>2 DEF CsiFirst
        <5>4. e = [state |-> p.state, inter |-> p.inter, params |-> p.params,
                   sep |-> p.sep, acc |-> acc, idx |-> idx]
          BY <1>3, <5>3, PutNumber
        <5>5. QED
          BY <5>2, <5>4
      <4>3. QED
        BY <4>1, <4>2
    <3>4. PICK acted : acted = Act("param", p, c)
      OBVIOUS
    <3>5. acted.p = e /\ acted.acts = <<>>
      BY <3>1, <3>4 DEF Act
    <3>6. Table[c][p.state] = [state |-> "csi_param", action |-> "param"]
      BY <1>1, <1>3, <2>2, EntryRows DEF Digits
    <3>7. QED
      BY <1>10, <3>2, <3>3, <3>4, <3>5, <3>6
  <2>3. QED
    BY <1>1, <2>1, <2>2
<1>12. ParserInv(q) /\ q.state # "ground" /\ s.vt.state # "ground"
  BY <1>2, <1>3, <1>9, <1>11
<1>13. QED
  BY <1>2, <1>8, <1>11, <1>12, PerformNone, AlikeBy

-----------------------------------------------------------------------------
(* Every byte of a control sequence *)

LEMMA NonUtf8OK ==
    ASSUME NEW s, NEW c \in Bytes, StreamInv(s), s.vt.state # "ground"
    PROVE  Alike(s, c) /\ StreamInv(NextNonUtf8(s, c).s)
<1>1. CASE s.vt.state = "escape" /\ c = 91
  BY <1>1, EscapeAlike
<1>2. CASE s.vt.state = "csi_param" /\ c \in C0 \cup {24, 26, 127} \cup CsiParamBytes \cup Finals
  <2>1. CASE c \in C0 \cup {24, 26, 127}
    BY <1>2, <2>1, ControlAlike
  <2>2. CASE c \in CsiParamBytes
    BY <1>2, <2>2, ParameterAlike
  <2>3. CASE c \in Finals
    BY <1>2, <2>3, FinalAlike
  <2>4. QED
    BY <1>2, <2>1, <2>2, <2>3
<1>3. CASE s.vt.state = "csi_entry" /\ c \in CsiEntryBytes
  <2>1. CASE c \in Finals
    BY <1>3, <2>1, FinalAlike
  <2>2. CASE c \notin Finals
    BY <1>3, <2>2, EntryAlike
  <2>3. QED
    BY <2>1, <2>2
<1>4. CASE /\ ~ (s.vt.state = "escape" /\ c = 91)
           /\ ~ (/\ s.vt.state = "csi_param"
                 /\ c \in C0 \cup {24, 26, 127} \cup CsiParamBytes \cup Finals)
           /\ ~ (s.vt.state = "csi_entry" /\ c \in CsiEntryBytes)
  <2>1. NextNonUtf8(s, c) = ByTable(s, c)
    BY <1>4, OtherArm
  <2>2. PICK n : n = ParserNext(s.vt, c)
    OBVIOUS
  <2>3. ParserInv(n.p)
    BY <1>4, <2>2, ParserNextOK DEF StreamInv
  <2>4. ByTable(s, c).s = WithVt(s, n.p)
    BY <2>2 DEF ByTable, Performed, Outcome
  <2>5. StreamInv(WithVt(s, n.p))
    BY <2>3, WithVtOK DEF StreamInv
  <2>6. QED
    BY <2>1, <2>4, <2>5 DEF Alike
<1>5. QED
  BY <1>1, <1>2, <1>3, <1>4

ByteInv == StreamInv(stream)

LEMMA StepKeepsByteInv == ByteInv /\ [TakeByte]_stream => ByteInv'
<1> SUFFICES ASSUME StreamInv(stream), [TakeByte]_stream
             PROVE  StreamInv(stream')
  BY DEF ByteInv
<1>1. ASSUME NEW c \in Bytes, stream' = NextByte(stream, c).s
      PROVE  StreamInv(stream')
  <2>1. CASE stream.vt.state = "ground"
    BY <1>1, <2>1, NextUtf8OK DEF NextByte
  <2>2. CASE stream.vt.state # "ground"
    BY <1>1, <2>2, NonUtf8OK DEF NextByte
  <2>3. QED
    BY <2>1, <2>2
<1>2. CASE UNCHANGED stream
  BY <1>2
<1>3. QED
  BY <1>1, <1>2 DEF TakeByte

-----------------------------------------------------------------------------
(* What an ESC and a lead byte forget *)

Escaped == [vt |-> [Parser EXCEPT !.state = "escape"], utf8 |-> Decoder]

LEMMA StartsEscaped ==
    ASSUME NEW s, s = [vt |-> s.vt, utf8 |-> Decoder]
    PROVE  StartEscape(s) = Escaped
<1>1. PICK p : p = [Parser EXCEPT !.state = s.vt.state]
  OBVIOUS
<1>2. PICK q : q = [p EXCEPT !.state = "escape"]
  OBVIOUS
<1>3. q = [Parser EXCEPT !.state = "escape"]
  BY <1>1, <1>2
<1>4. q.state = "escape"
  BY <1>3 DEF Parser
<1>5. StartEscape(s) = WithVt(s, q)
  BY <1>1, <1>2 DEF StartEscape, Clear
<1>6. WithVt(s, q) = [vt |-> q, utf8 |-> Decoder]
  BY <1>4 DEF WithVt
<1>7. QED
  BY <1>3, <1>5, <1>6 DEF Escaped

(* The decoder at rest takes an ESC for a code point of its own. *)
LEMMA RestTakesEsc ==
    ASSUME NEW d, d.state = Accept
    PROVE  DecoderNext(d, Esc) = [d |-> Decoder, out |-> <<Esc>>, used |-> TRUE]
<1>1. Class[Esc] = 0
  BY DEF Class, Esc
<1>2. Transitions[Accept][0] = Accept
  <2>1. Accept \in DOMAIN Rows /\ 0 \in 0..11
    BY DEF Rows, Accept
  <2>2. \E r \in Rows[Accept] : 0 \in r[1]
    <3>1. <<{0}, Accept>> \in Rows[Accept]
      BY <2>1 DEF Rows, Accept
    <3>2. QED
      BY <3>1
  <2>3. \A r \in Rows[Accept] : 0 \in r[1] => r[2] = Accept
    BY DEF Rows, Accept
  <2>4. PICK row : row = CHOOSE r \in Rows[Accept] : 0 \in r[1]
    OBVIOUS
  <2>5. Transitions[Accept][0] = row[2]
    BY <2>1, <2>2, <2>4 DEF Transitions
  <2>6. QED
    BY <2>2, <2>3, <2>4, <2>5
<1>3. Esc % (2 ^ (8 - 0)) = Esc /\ Accept # Reject
  BY DEF Esc, Accept, Reject
<1> DEFINE acc == IF d.state = Accept
                  THEN Esc % (IF Class[Esc] < 8 THEN 2 ^ (8 - Class[Esc]) ELSE 1)
                  ELSE 64 * d.acc + (Esc % 64)
<1>4. Transitions[d.state][Class[Esc]] = Accept /\ acc = Esc
  BY <1>1, <1>2, <1>3
<1>5. DecoderNext(d, Esc) = [d |-> Decoder, out |-> <<acc>>, used |-> TRUE]
  BY <1>3, <1>4 DEF DecoderNext
<1> HIDE DEF acc
<1>6. QED
  BY <1>4, <1>5

(* In the middle of a code point it refuses every byte that does not       *)
(* continue one.                                                           *)
LEMMA MiddleRefuses ==
    ASSUME NEW d, NEW c \in Bytes, d.state \in DOMAIN Rows, d.state # Accept,
           c \notin 128..191
    PROVE  DecoderNext(d, c) = [d |-> Decoder, out |-> <<Replacement>>, used |-> FALSE]
<1>1. Class[c] \in 0..11 /\ Class[c] \notin {1, 7, 9}
  BY Classes
<1>2. \A r \in Rows[d.state] : r[1] \subseteq {1, 7, 9}
  BY DEF Rows, Accept
<1>3. Transitions[d.state][Class[c]] = Reject
  BY <1>1, <1>2 DEF Transitions
<1>4. Accept # Reject
  BY DEF Accept, Reject
<1>5. QED
  BY <1>3, <1>4 DEF DecoderNext

(* At ground, a byte that does not continue a code point is taken as from  *)
(* a decoder at rest.                                                      *)
LEMMA GroundRestarts ==
    ASSUME NEW s, NEW c \in Bytes, StreamInv(s), s.vt.state = "ground", c \notin 128..191
    PROVE  \E r : /\ r = [vt |-> s.vt, utf8 |-> r.utf8] /\ r.utf8.state = Accept
                  /\ DecoderNext(r.utf8, c).used
                  /\ NextUtf8(s, c).s = Offer(r, c).s
<1>1. s = [vt |-> s.vt, utf8 |-> s.utf8] /\ s.utf8.state \in DOMAIN Rows
  BY DEF StreamInv
<1>2. \A d : d.state = Accept => DecoderNext(d, c).used
  <2>1. Accept \in DOMAIN Rows
    BY DEF Rows, Accept
  <2>2. QED
    BY <2>1, DecoderOK
<1>3. CASE s.utf8.state = Accept
  <2>1. NextUtf8(s, c) = Offer(s, c)
    BY <1>2, <1>3 DEF NextUtf8
  <2>2. QED
    BY <1>1, <1>2, <1>3, <2>1
<1>4. CASE s.utf8.state # Accept
  <2>1. DecoderNext(s.utf8, c) = [d |-> Decoder, out |-> <<Replacement>>, used |-> FALSE]
    BY <1>1, <1>4, MiddleRefuses
  <2>2. PICK r : r = [s EXCEPT !.utf8 = Decoder]
    OBVIOUS
  <2>3. r = [vt |-> s.vt, utf8 |-> Decoder]
    BY <1>1, <2>2
  <2>4. PICK n : n = Offer(s, c)
    OBVIOUS
  <2>5. n.s = r
    <3>1. n = HandleCodepoints(r, <<Replacement>>)
      BY <2>1, <2>2, <2>4 DEF Offer, Decoded
    <3>2. <<Replacement>> # <<>> /\ <<Replacement>>[1] = Replacement /\ Replacement # Esc
      BY DEF Replacement, Esc
    <3>3. QED
      BY <3>1, <3>2 DEF HandleCodepoints, Outcome
  <2>6. PICK m : m = Offer(r, c)
    OBVIOUS
  <2>7. NextUtf8(s, c) = [m EXCEPT !.acts = n.acts \o @]
    BY <2>1, <2>4, <2>5, <2>6 DEF NextUtf8, OfferAgain, Then
  <2>8. NextUtf8(s, c).s = m.s
    BY <2>7
  <2>9. Decoder.state = Accept
    BY DEF Decoder
  <2>10. QED
    BY <1>2, <2>3, <2>6, <2>8, <2>9
<1>5. QED
  BY <1>3, <1>4

(* Anywhere in a control sequence the table leads to escape. *)
LEMMA EscRow ==
    ASSUME NEW s \in States
    PROVE  Table[Esc][s] = [state |-> "escape", action |-> "none"]
<1>1. \A r \in OwnRows[s] : Esc \notin r[1]
  <2> USE DEF OwnRows, C0, Esc
  <2>1. CASE s = "ground"
    BY <2>1
  <2>2. CASE s = "escape"
    BY <2>2
  <2>3. CASE s = "escape_intermediate"
    BY <2>3
  <2>4. CASE s = "csi_entry"
    BY <2>4
  <2>5. CASE s = "csi_param"
    BY <2>5
  <2>6. CASE s = "csi_intermediate"
    BY <2>6
  <2>7. CASE s = "csi_ignore"
    BY <2>7
  <2>8. CASE s = "dcs_entry"
    BY <2>8
  <2>9. CASE s = "dcs_param"
    BY <2>9
  <2>10. CASE s = "dcs_intermediate"
    BY <2>10
  <2>11. CASE s = "dcs_passthrough"
    BY <2>11
  <2>12. CASE s = "dcs_ignore"
    BY <2>12
  <2>13. CASE s = "osc_string"
    BY <2>13
  <2>14. CASE s = "sos_pm_apc_string"
    BY <2>14
  <2>15. QED
    BY <2>1, <2>2, <2>3, <2>4, <2>5, <2>6, <2>7, <2>8, <2>9, <2>10, <2>11, <2>12, <2>13,
       <2>14 DEF States
<1>2. \E r \in Anywhere : Esc \in r[1]
  BY DEF Anywhere
<1>3. \A r \in Anywhere : Esc \in r[1] => r[2] = "escape" /\ r[3] = "none"
  BY DEF Anywhere, Esc
<1>4. Esc \in Bytes
  BY DEF Esc, Bytes
<1>5. PICK row : row = CHOOSE r \in Anywhere : Esc \in r[1]
  OBVIOUS
<1>6. Table[Esc][s] = [state |-> row[2], action |-> row[3]]
  BY <1>1, <1>2, <1>4, <1>5 DEF Table, Bytes
<1>7. row[2] = "escape" /\ row[3] = "none"
  BY <1>2, <1>3, <1>5
<1>8. QED
  BY <1>6, <1>7

LEMMA EscFromAnywhere ==
    ASSUME NEW s, StreamInv(s)
    PROVE  NextByte(s, Esc).s = Escaped
<1>1. Esc \in Bytes /\ Esc \notin 128..191
  BY DEF Esc, Bytes
<1>2. CASE s.vt.state = "ground"
  <2>1. PICK r : /\ r = [vt |-> s.vt, utf8 |-> r.utf8] /\ r.utf8.state = Accept
                 /\ NextUtf8(s, Esc).s = Offer(r, Esc).s
    BY <1>1, <1>2, GroundRestarts
  <2>2. DecoderNext(r.utf8, Esc) = [d |-> Decoder, out |-> <<Esc>>, used |-> TRUE]
    BY <2>1, RestTakesEsc
  <2>3. PICK t : t = [r EXCEPT !.utf8 = Decoder]
    OBVIOUS
  <2>4. t = [vt |-> t.vt, utf8 |-> Decoder]
    BY <2>1, <2>3
  <2>5. Offer(r, Esc) = HandleCodepoints(t, <<Esc>>)
    BY <2>2, <2>3 DEF Offer, Decoded
  <2>6. Offer(r, Esc).s = StartEscape(t)
    BY <2>5 DEF HandleCodepoints, Outcome
  <2>7. QED
    BY <1>2, <2>1, <2>4, <2>6, StartsEscaped DEF NextByte
<1>3. CASE s.vt.state # "ground"
  <2>1. PICK p : p = s.vt
    OBVIOUS
  <2>2. p.state \in States /\ s = [vt |-> p, utf8 |-> Decoder]
        /\ (p.state = "escape" => Clear(p) = p)
    BY <1>3, <2>1 DEF StreamInv, ParserInv, ParserOK
  <2>3. NextNonUtf8(s, Esc) = ByTable(s, Esc)
    <3>1. Esc # 91 /\ Esc \notin C0 \cup {24, 26, 127} \cup CsiParamBytes \cup Finals
          /\ Esc \notin CsiEntryBytes
      BY DEF Esc, C0, CsiParamBytes, CsiEntryBytes, Digits, Separators, Finals
    <3>2. QED
      BY <1>1, <3>1, OtherArm
  <2>4. Table[Esc][p.state] = [state |-> "escape", action |-> "none"]
    BY <2>2, EscRow
  <2>5. Act("none", p, Esc) = [p |-> p, acts |-> <<>>]
    BY DEF Act
  <2>6. ParserNext(p, Esc).p = [Clear(p) EXCEPT !.state = "escape"]
    <3>1. CASE p.state = "escape"
      <4>1. ParserNext(p, Esc).p = p
        BY <2>4, <2>5, <3>1, Stays
      <4>2. [Clear(p) EXCEPT !.state = "escape"] = Clear(p)
        BY <3>1 DEF Clear, Parser
      <4>3. QED
        BY <2>2, <3>1, <4>1, <4>2
    <3>2. CASE p.state # "escape"
      <4>1. Enter("escape", p, Esc).p = Clear(p)
        BY DEF Enter
      <4>2. ParserNext(p, Esc).p = [Enter("escape", p, Esc).p EXCEPT !.state = "escape"]
        BY <2>4, <2>5, <3>2 DEF ParserNext
      <4>3. QED
        BY <4>1, <4>2
    <3>3. QED
      BY <3>1, <3>2
  <2>7. ByTable(s, Esc).s = StartEscape(s)
    BY <2>1, <2>6 DEF ByTable, Performed, Outcome, StartEscape
  <2>8. QED
    BY <1>3, <2>1, <2>2, <2>3, <2>7, StartsEscaped DEF NextByte
<1>4. QED
  BY <1>2, <1>3

LEMMA LeadFromGround ==
    ASSUME NEW s, NEW c \in Bytes \ 128..191, StreamInv(s), s.vt.state = "ground"
    PROVE  NextByte(s, c).s = NextByte(Fresh, c).s
<1>1. c \in Bytes /\ c \notin 128..191
  OBVIOUS
<1>2. s.vt = Parser /\ StreamInv(Fresh) /\ Fresh.vt = Parser /\ Fresh.vt.state = "ground"
  BY FreshOK DEF StreamInv, Fresh, Parser
<1>3. PICK r : /\ r = [vt |-> Parser, utf8 |-> r.utf8] /\ r.utf8.state = Accept
               /\ NextUtf8(s, c).s = Offer(r, c).s
  BY <1>1, <1>2, GroundRestarts
<1>4. PICK t : /\ t = [vt |-> Parser, utf8 |-> t.utf8] /\ t.utf8.state = Accept
               /\ NextUtf8(Fresh, c).s = Offer(t, c).s
  BY <1>1, <1>2, GroundRestarts
<1>5. DecoderNext(r.utf8, c) = DecoderNext(t.utf8, c)
  BY <1>3, <1>4 DEF DecoderNext
<1>6. PICK n : n = DecoderNext(r.utf8, c)
  OBVIOUS
<1>7. [r EXCEPT !.utf8 = n.d] = [t EXCEPT !.utf8 = n.d]
  <2>1. [r EXCEPT !.utf8 = n.d] = [vt |-> Parser, utf8 |-> n.d]
    BY <1>3
  <2>2. [t EXCEPT !.utf8 = n.d] = [vt |-> Parser, utf8 |-> n.d]
    BY <1>4
  <2>3. QED
    BY <2>1, <2>2
<1>8. Offer(r, c) = Offer(t, c)
  BY <1>5, <1>6, <1>7 DEF Offer, Decoded
<1>9. QED
  BY <1>2, <1>3, <1>4, <1>8 DEF NextByte

(* What the replay of unfinished input builds on: the last ESC, or the     *)
(* last lead byte of a code point, has all that follows start afresh.      *)
Resynchronises ==
    /\ NextByte(stream, Esc).s = NextByte(Fresh, Esc).s
    /\ stream.vt.state = "ground" =>
          \A c \in 192..255 : NextByte(stream, c).s = NextByte(Fresh, c).s

-----------------------------------------------------------------------------
(* Between any two bytes a sequence has just begun with empty arrays, a    *)
(* parameter has no digit or one, the decoder rests while the parser works *)
(* and the arrays are never overrun: StreamOK, and what it rests on.       *)
THEOREM StreamKept == ByteSpec => []ByteInv
<1>1. InitByte => ByteInv
  BY FreshOK DEF InitByte, ByteInv
<1>2. QED
  BY <1>1, StepKeepsByteInv, PTL DEF ByteSpec

(* Whatever bytes come, in whatever order, no parameter and no             *)
(* intermediate is stored past the end of its array (Parser.zig collect,   *)
(* the params of doNext, stream.zig's fast path), the counters stay in     *)
(* their types, and the decoder is never left in the middle of a code      *)
(* point when a control sequence begins.                                   *)
THEOREM StreamFits == ByteSpec => []StreamOK
<1>1. ByteInv => StreamOK
  BY DEF ByteInv, StreamInv, ParserInv, StreamOK
<1>2. QED
  BY <1>1, StreamKept, PTL

(* Wherever a control sequence stands, each of the 256 bytes has the same  *)
(* effect by the fast paths of stream.zig as by the parser's table.  It is *)
(* what csiEntryByte counts on ("param_acc is zero (cleared on escape      *)
(* entry)", stream.zig:945) and csiDispatchFinal promises (1322-1323).     *)
THEOREM FastPathsAgree == ByteSpec => []FastPathsMatch
<1>1. ByteInv => FastPathsMatch
  BY NonUtf8OK DEF ByteInv, FastPathsMatch, Alike
<1>2. QED
  BY <1>1, StreamKept, PTL

(* ESC "abandons the previous parser state and starts a fresh escape state *)
(* no matter what was being parsed" (stream_continuation.zig:213-214),     *)
(* and a lead byte does so in the middle of text: from either on, input    *)
(* has the effect it has on a fresh stream, whatever came before.          *)
THEOREM ReplayStartsAfresh == ByteSpec => []Resynchronises
<1>1. ByteInv => Resynchronises
  <2> SUFFICES ASSUME StreamInv(stream)
               PROVE  Resynchronises
    BY DEF ByteInv
  <2>1. NextByte(stream, Esc).s = NextByte(Fresh, Esc).s
    BY FreshOK, EscFromAnywhere
  <2>2. ASSUME stream.vt.state = "ground", NEW c \in 192..255
        PROVE  NextByte(stream, c).s = NextByte(Fresh, c).s
    <3>1. c \in Bytes \ 128..191
      BY DEF Bytes
    <3>2. QED
      BY <2>2, <3>1, LeadFromGround
  <2>3. QED
    BY <2>1, <2>2 DEF Resynchronises
<1>2. QED
  BY <1>1, StreamKept, PTL

-----------------------------------------------------------------------------
(* Recursion along a sequence.  Induction is by the smallest position that  *)
(* fails.                                                                   *)

LEMMA Smaller == \E R : IsWellFoundedOn(R, Nat) /\ R = {ss \in Nat \X Nat : ss[1] < ss[2]}
<1>1. OpToRel(<, Nat) = {ss \in Nat \X Nat : ss[1] < ss[2]}
  BY DEF OpToRel
<1>2. QED
  BY <1>1, NatLessThanWellFounded

LEMMA Least ==
    ASSUME NEW T, T \subseteq Nat, T # {}
    PROVE  \E m \in T : \A k \in T : ~ (k < m)
<1>1. PICK R : IsWellFoundedOn(R, Nat) /\ R = {ss \in Nat \X Nat : ss[1] < ss[2]}
  BY Smaller
<1>2. PICK m \in T : \A k \in T : <<k, m>> \notin R
  BY <1>1, WFMin
<1>3. ASSUME NEW k \in T
      PROVE  ~ (k < m)
  <2>1. <<k, m>> \notin R /\ k \in Nat /\ m \in Nat
    BY <1>2
  <2>2. <<k, m>> \in Nat \X Nat /\ <<k, m>>[1] = k /\ <<k, m>>[2] = m
    BY <2>1
  <2>3. QED
    BY <1>1, <2>1, <2>2
<1>4. QED
  BY <1>3

(* What holds of 0, and of i whenever of the position before it, holds of n. *)
LEMMA UpTo ==
    ASSUME NEW n \in Nat, NEW S, 0 \in S, \A i \in 1..n : i - 1 \in S => i \in S
    PROVE  \A i \in 0..n : i \in S
<1>1. SUFFICES ASSUME \E i \in 0..n : i \notin S
               PROVE  FALSE
  OBVIOUS
<1>2. PICK T : T = {i \in 0..n : i \notin S}
  OBVIOUS
<1>3. PICK m \in T : \A k \in T : ~ (k < m)
  <2>1. T \subseteq Nat /\ T # {}
    BY <1>1, <1>2
  <2>2. QED
    BY <2>1, Least
<1>4. m \in 1..n /\ m - 1 \in 0..n /\ m - 1 < m
  BY <1>2
<1>5. m - 1 \in S
  BY <1>2, <1>3, <1>4
<1>6. QED
  BY <1>2, <1>4, <1>5

LEMMA AppendParts ==
    ASSUME NEW S, NEW b \in Seq(S), NEW c \in S
    PROVE  /\ Append(b, c) \in Seq(S) /\ Len(Append(b, c)) = Len(b) + 1
           /\ \A i \in 1..Len(b) : Append(b, c)[i] = b[i]
           /\ Append(b, c)[Len(b) + 1] = c
           /\ Len(b) \in Nat
  BY AppendProperties, LenProperties

-----------------------------------------------------------------------------
(* The values f of NextBytes along bytes *)

AlongBytes(f, s, bytes) ==
    /\ f[0] = Outcome(s, <<>>)
    /\ \A i \in 1..Len(bytes) : f[i] = AndByte(f[i - 1], bytes[i])

LEMMA BytesHaveValues ==
    ASSUME NEW s, NEW bytes \in Seq(Bytes)
    PROVE  \E f : AlongBytes(f, s, bytes) /\ NextBytes(s, bytes) = f[Len(bytes)]
<1> DEFINE Step(r, i) == AndByte(r, bytes[i])
           Is(f) == f = [i \in 0..Len(bytes) |->
                           IF i = 0 THEN Outcome(s, <<>>) ELSE Step(f[i - 1], i)]
           Upto(g, n) == g[0] = Outcome(s, <<>>) /\ \A i \in 1..n : g[i] = Step(g[i - 1], i)
<1>1. PICK n \in Nat : n = Len(bytes)
  BY LenProperties
<1>2. NextBytes(s, bytes) = (CHOOSE f : Is(f))[Len(bytes)]
  BY DEF NextBytes
<1> HIDE DEF Step
<1>3. \A i \in 0..n : \E g : Upto(g, i)
  <2>1. PICK S : S = {i \in 0..n : \E g : Upto(g, i)}
    OBVIOUS
  <2>2. 0 \in S
    <3>1. PICK g : g = [k \in {0} |-> Outcome(s, <<>>)]
      OBVIOUS
    <3>2. Upto(g, 0)
      BY <3>1
    <3>3. QED
      BY <2>1, <3>2
  <2>3. ASSUME NEW i \in 1..n, i - 1 \in S
        PROVE  i \in S
    <3>1. PICK g : Upto(g, i - 1)
      BY <2>1, <2>3
    <3>2. PICK h : h = [k \in 0..i |-> IF k = i THEN Step(g[i - 1], i) ELSE g[k]]
      OBVIOUS
    <3>3. Upto(h, i)
      BY <3>1, <3>2
    <3>4. QED
      BY <2>1, <3>3
  <2>4. \A i \in 0..n : i \in S
    BY <2>2, <2>3, UpTo
  <2>5. QED
    BY <2>1, <2>4
<1>4. PICK g : Upto(g, n)
  BY <1>3
<1>5. Is([i \in 0..n |-> g[i]])
  BY <1>1, <1>4
<1>6. PICK f : f = CHOOSE h : Is(h)
  OBVIOUS
<1>7. Is(f)
  BY <1>5, <1>6
<1>8. Upto(f, n)
  BY <1>1, <1>7
<1>9. AlongBytes(f, s, bytes)
  BY <1>1, <1>8 DEF AlongBytes, Step
<1>10. QED
  BY <1>1, <1>2, <1>6, <1>9

LEMMA BytesHaveOneValue ==
    ASSUME NEW s, NEW bytes \in Seq(Bytes), NEW f, NEW g,
           AlongBytes(f, s, bytes), AlongBytes(g, s, bytes)
    PROVE  f[Len(bytes)] = g[Len(bytes)]
<1>1. PICK n \in Nat : n = Len(bytes)
  BY LenProperties
<1>2. PICK S : S = {i \in 0..n : f[i] = g[i]}
  OBVIOUS
<1>3. 0 \in S /\ \A i \in 1..n : i - 1 \in S => i \in S
  BY <1>1, <1>2 DEF AlongBytes
<1>4. \A i \in 0..n : i \in S
  BY <1>3, UpTo
<1>5. QED
  BY <1>1, <1>2, <1>4

LEMMA NextBytesNone ==
    ASSUME NEW s
    PROVE  NextBytes(s, <<>>) = Outcome(s, <<>>)
<1>1. <<>> \in Seq(Bytes) /\ Len(<<>>) = 0
  OBVIOUS
<1>2. QED
  BY <1>1, BytesHaveValues DEF AlongBytes

LEMMA NextBytesMore ==
    ASSUME NEW s, NEW bytes \in Seq(Bytes), NEW c \in Bytes
    PROVE  NextBytes(s, Append(bytes, c))
             = AndByte(NextBytes(s, bytes), c)
<1>1. PICK more : more = Append(bytes, c)
  OBVIOUS
<1>2. PICK n \in Nat : n = Len(bytes)
  BY LenProperties
<1>3. /\ more \in Seq(Bytes) /\ Len(more) = n + 1 /\ more[n + 1] = c
      /\ \A i \in 1..n : more[i] = bytes[i]
  BY <1>1, <1>2, AppendParts
<1>4. PICK f : AlongBytes(f, s, more) /\ NextBytes(s, more) = f[n + 1]
  BY <1>3, BytesHaveValues
<1>5. PICK g : AlongBytes(g, s, bytes) /\ NextBytes(s, bytes) = g[n]
  BY <1>2, BytesHaveValues
<1>6. AlongBytes(f, s, bytes)
  BY <1>2, <1>3, <1>4 DEF AlongBytes
<1>7. f[n] = NextBytes(s, bytes)
  BY <1>2, <1>5, <1>6, BytesHaveOneValue
<1>8. f[n + 1] = AndByte(f[n], c)
  <2>1. n + 1 \in 1..Len(more) /\ (n + 1) - 1 = n
    BY <1>3
  <2>2. QED
    BY <1>3, <1>4, <2>1 DEF AlongBytes
<1>9. QED
  BY <1>1, <1>4, <1>7, <1>8

-----------------------------------------------------------------------------
(* The same for a scan *)

AlongScan(f, bytes) ==
    /\ f[0] = Unscanned
    /\ \A i \in 1..Len(bytes) : f[i] = AndScan(f[i - 1], bytes[i])

LEMMA ScansHaveValues ==
    ASSUME NEW bytes \in Seq(Bytes)
    PROVE  \E f : AlongScan(f, bytes) /\ Scanned(bytes) = f[Len(bytes)]
<1> DEFINE Step(r, i) == AndScan(r, bytes[i])
           Is(f) == f = [i \in 0..Len(bytes) |->
                           IF i = 0 THEN Unscanned ELSE Step(f[i - 1], i)]
           Upto(g, n) == g[0] = Unscanned /\ \A i \in 1..n : g[i] = Step(g[i - 1], i)
<1>1. PICK n \in Nat : n = Len(bytes)
  BY LenProperties
<1>2. Scanned(bytes) = (CHOOSE f : Is(f))[Len(bytes)]
  BY DEF Scanned
<1> HIDE DEF Step
<1>3. \A i \in 0..n : \E g : Upto(g, i)
  <2>1. PICK S : S = {i \in 0..n : \E g : Upto(g, i)}
    OBVIOUS
  <2>2. 0 \in S
    <3>1. PICK g : g = [k \in {0} |-> Unscanned]
      OBVIOUS
    <3>2. Upto(g, 0)
      BY <3>1
    <3>3. QED
      BY <2>1, <3>2
  <2>3. ASSUME NEW i \in 1..n, i - 1 \in S
        PROVE  i \in S
    <3>1. PICK g : Upto(g, i - 1)
      BY <2>1, <2>3
    <3>2. PICK h : h = [k \in 0..i |-> IF k = i THEN Step(g[i - 1], i) ELSE g[k]]
      OBVIOUS
    <3>3. Upto(h, i)
      BY <3>1, <3>2
    <3>4. QED
      BY <2>1, <3>3
  <2>4. \A i \in 0..n : i \in S
    BY <2>2, <2>3, UpTo
  <2>5. QED
    BY <2>1, <2>4
<1>4. PICK g : Upto(g, n)
  BY <1>3
<1>5. Is([i \in 0..n |-> g[i]])
  BY <1>1, <1>4
<1>6. PICK f : f = CHOOSE h : Is(h)
  OBVIOUS
<1>7. Is(f)
  BY <1>5, <1>6
<1>8. Upto(f, n)
  BY <1>1, <1>7
<1>9. AlongScan(f, bytes)
  BY <1>1, <1>8 DEF AlongScan, Step
<1>10. QED
  BY <1>1, <1>2, <1>6, <1>9

LEMMA ScansHaveOneValue ==
    ASSUME NEW bytes \in Seq(Bytes), NEW f, NEW g,
           AlongScan(f, bytes), AlongScan(g, bytes)
    PROVE  f[Len(bytes)] = g[Len(bytes)]
<1>1. PICK n \in Nat : n = Len(bytes)
  BY LenProperties
<1>2. PICK S : S = {i \in 0..n : f[i] = g[i]}
  OBVIOUS
<1>3. 0 \in S /\ \A i \in 1..n : i - 1 \in S => i \in S
  BY <1>1, <1>2 DEF AlongScan
<1>4. \A i \in 0..n : i \in S
  BY <1>3, UpTo
<1>5. QED
  BY <1>1, <1>2, <1>4

LEMMA ScannedNone ==
    Scanned(<<>>) = Unscanned
<1>1. <<>> \in Seq(Bytes) /\ Len(<<>>) = 0
  OBVIOUS
<1>2. QED
  BY <1>1, ScansHaveValues DEF AlongScan

LEMMA ScannedMore ==
    ASSUME NEW bytes \in Seq(Bytes), NEW c \in Bytes
    PROVE  Scanned(Append(bytes, c))
             = AndScan(Scanned(bytes), c)
<1>1. PICK more : more = Append(bytes, c)
  OBVIOUS
<1>2. PICK n \in Nat : n = Len(bytes)
  BY LenProperties
<1>3. /\ more \in Seq(Bytes) /\ Len(more) = n + 1 /\ more[n + 1] = c
      /\ \A i \in 1..n : more[i] = bytes[i]
  BY <1>1, <1>2, AppendParts
<1>4. PICK f : AlongScan(f, more) /\ Scanned(more) = f[n + 1]
  BY <1>3, ScansHaveValues
<1>5. PICK g : AlongScan(g, bytes) /\ Scanned(bytes) = g[n]
  BY <1>2, ScansHaveValues
<1>6. AlongScan(f, bytes)
  BY <1>2, <1>3, <1>4 DEF AlongScan
<1>7. f[n] = Scanned(bytes)
  BY <1>2, <1>5, <1>6, ScansHaveOneValue
<1>8. f[n + 1] = AndScan(f[n], c)
  <2>1. n + 1 \in 1..Len(more) /\ (n + 1) - 1 = n
    BY <1>3
  <2>2. QED
    BY <1>3, <1>4, <2>1 DEF AlongScan
<1>9. QED
  BY <1>1, <1>4, <1>7, <1>8

-----------------------------------------------------------------------------
(* Actions *)

IsList(a) == \E S : a \in Seq(S)

LEMMA ListParts ==
    ASSUME NEW a, IsList(a)
    PROVE  Len(a) \in Nat
  BY LenProperties DEF IsList

LEMMA NoneIsList == IsList(<<>>) /\ Len(<<>>) = 0
<1>1. <<>> \in Seq({})
  OBVIOUS
<1>2. QED
  BY <1>1 DEF IsList

LEMMA OneIsList ==
    ASSUME NEW x
    PROVE  IsList(<<x>>) /\ Len(<<x>>) = 1 /\ <<x>>[1] = x
<1>1. <<x>> \in Seq({x})
  OBVIOUS
<1>2. QED
  BY <1>1 DEF IsList

LEMMA JoinIsList ==
    ASSUME NEW a, NEW b, IsList(a), IsList(b)
    PROVE  /\ IsList(a \o b) /\ Len(a \o b) = Len(a) + Len(b)
           /\ \A i \in 1..Len(a) : (a \o b)[i] = a[i]
           /\ \A i \in 1..Len(b) : (a \o b)[Len(a) + i] = b[i]
<1>1. PICK S, T : a \in Seq(S) /\ b \in Seq(T)
  BY DEF IsList
<1>2. PICK U : U = S \cup T
  OBVIOUS
<1>3. a \in Seq(U) /\ b \in Seq(U)
  BY <1>1, <1>2
<1>4. a \o b \in Seq(U) /\ Len(a \o b) = Len(a) + Len(b)
  BY <1>3, ConcatProperties
<1>5. Len(a) \in Nat /\ Len(b) \in Nat
  BY <1>3, LenProperties
<1>6. \A i \in 1..Len(a) + Len(b) : (a \o b)[i] = IF i <= Len(a) THEN a[i] ELSE b[i - Len(a)]
  BY <1>3, ConcatProperties
<1>7. ASSUME NEW i \in 1..Len(b)
      PROVE  (a \o b)[Len(a) + i] = b[i]
  <2>1. PICK k \in Nat : k = Len(a) + i
    BY <1>5
  <2>2. k \in 1..Len(a) + Len(b) /\ ~ (k <= Len(a)) /\ k - Len(a) = i
    BY <1>5, <2>1
  <2>3. QED
    BY <1>6, <2>1, <2>2
<1>8. \A i \in 1..Len(a) : (a \o b)[i] = a[i]
  BY <1>5, <1>6
<1>9. QED
  BY <1>4, <1>7, <1>8 DEF IsList

(* The same for what is built *)

AlongBuild(f, held, acts) ==
    /\ f[0] = held
    /\ \A i \in 1..Len(acts) : f[i] = Held(f[i - 1], acts[i])

LEMMA BuildsHaveValues ==
    ASSUME NEW held, NEW acts, IsList(acts)
    PROVE  \E f : AlongBuild(f, held, acts) /\ Build(held, acts) = f[Len(acts)]
<1> DEFINE Step(r, i) == Held(r, acts[i])
           Is(f) == f = [i \in 0..Len(acts) |->
                           IF i = 0 THEN held ELSE Step(f[i - 1], i)]
           Upto(g, n) == g[0] = held /\ \A i \in 1..n : g[i] = Step(g[i - 1], i)
<1>1. PICK n \in Nat : n = Len(acts)
  BY ListParts
<1>2. Build(held, acts) = (CHOOSE f : Is(f))[Len(acts)]
  BY DEF Build
<1> HIDE DEF Step
<1>3. \A i \in 0..n : \E g : Upto(g, i)
  <2>1. PICK S : S = {i \in 0..n : \E g : Upto(g, i)}
    OBVIOUS
  <2>2. 0 \in S
    <3>1. PICK g : g = [k \in {0} |-> held]
      OBVIOUS
    <3>2. Upto(g, 0)
      BY <3>1
    <3>3. QED
      BY <2>1, <3>2
  <2>3. ASSUME NEW i \in 1..n, i - 1 \in S
        PROVE  i \in S
    <3>1. PICK g : Upto(g, i - 1)
      BY <2>1, <2>3
    <3>2. PICK h : h = [k \in 0..i |-> IF k = i THEN Step(g[i - 1], i) ELSE g[k]]
      OBVIOUS
    <3>3. Upto(h, i)
      BY <3>1, <3>2
    <3>4. QED
      BY <2>1, <3>3
  <2>4. \A i \in 0..n : i \in S
    BY <2>2, <2>3, UpTo
  <2>5. QED
    BY <2>1, <2>4
<1>4. PICK g : Upto(g, n)
  BY <1>3
<1>5. Is([i \in 0..n |-> g[i]])
  BY <1>1, <1>4
<1>6. PICK f : f = CHOOSE h : Is(h)
  OBVIOUS
<1>7. Is(f)
  BY <1>5, <1>6
<1>8. Upto(f, n)
  BY <1>1, <1>7
<1>9. AlongBuild(f, held, acts)
  BY <1>1, <1>8 DEF AlongBuild, Step
<1>10. QED
  BY <1>1, <1>2, <1>6, <1>9

LEMMA BuildsHaveOneValue ==
    ASSUME NEW held, NEW acts, IsList(acts), NEW f, NEW g,
           AlongBuild(f, held, acts), AlongBuild(g, held, acts)
    PROVE  f[Len(acts)] = g[Len(acts)]
<1>1. PICK n \in Nat : n = Len(acts)
  BY ListParts
<1>2. PICK S : S = {i \in 0..n : f[i] = g[i]}
  OBVIOUS
<1>3. 0 \in S /\ \A i \in 1..n : i - 1 \in S => i \in S
  BY <1>1, <1>2 DEF AlongBuild
<1>4. \A i \in 0..n : i \in S
  BY <1>3, UpTo
<1>5. QED
  BY <1>1, <1>2, <1>4

LEMMA BuildNone ==
    ASSUME NEW held
    PROVE  Build(held, <<>>) = held
<1>1. IsList(<<>>) /\ Len(<<>>) = 0
  BY NoneIsList
<1>2. QED
  BY <1>1, BuildsHaveValues DEF AlongBuild

LEMMA BuildOne ==
    ASSUME NEW held, NEW a
    PROVE  Build(held, <<a>>) = Held(held, a)
<1>1. IsList(<<a>>) /\ Len(<<a>>) = 1 /\ <<a>>[1] = a
  BY OneIsList
<1>2. PICK f : AlongBuild(f, held, <<a>>) /\ Build(held, <<a>>) = f[1]
  BY <1>1, BuildsHaveValues
<1>3. f[0] = held /\ f[1] = Held(f[1 - 1], a)
  BY <1>1, <1>2 DEF AlongBuild
<1>4. QED
  BY <1>2, <1>3

LEMMA BuildJoin ==
    ASSUME NEW held, NEW a, NEW b, IsList(a), IsList(b)
    PROVE  Build(held, a \o b) = Build(Build(held, a), b)
<1>1. PICK both : both = a \o b
  OBVIOUS
<1>2. PICK m \in Nat, n \in Nat : m = Len(a) /\ n = Len(b)
  BY ListParts
<1>3. /\ IsList(both) /\ Len(both) = m + n
      /\ \A i \in 1..m : both[i] = a[i]
      /\ \A i \in 1..n : both[m + i] = b[i]
  BY <1>1, <1>2, JoinIsList
<1>4. PICK f : AlongBuild(f, held, both) /\ Build(held, both) = f[m + n]
  BY <1>3, BuildsHaveValues
<1>5. f[m] = Build(held, a)
  <2>1. AlongBuild(f, held, a)
    BY <1>2, <1>3, <1>4 DEF AlongBuild
  <2>2. PICK e : AlongBuild(e, held, a) /\ Build(held, a) = e[m]
    BY <1>2, BuildsHaveValues
  <2>3. QED
    BY <1>2, <2>1, <2>2, BuildsHaveOneValue
<1>6. PICK g : g = [i \in 0..n |-> f[m + i]]
  OBVIOUS
<1>7. AlongBuild(g, f[m], b)
  <2>1. g[0] = f[m]
    BY <1>6
  <2>2. ASSUME NEW i \in 1..n
        PROVE  g[i] = Held(g[i - 1], b[i])
    <3>1. m + i \in 1..m + n /\ (m + i) - 1 = m + (i - 1) /\ i - 1 \in 0..n /\ i \in 0..n
      OBVIOUS
    <3>2. f[m + i] = Held(f[(m + i) - 1], both[m + i])
      BY <1>3, <1>4, <3>1 DEF AlongBuild
    <3>3. QED
      BY <1>3, <1>6, <3>1, <3>2
  <2>3. QED
    BY <1>2, <2>1, <2>2 DEF AlongBuild
<1>8. PICK e : AlongBuild(e, f[m], b) /\ Build(f[m], b) = e[n]
  BY <1>2, BuildsHaveValues
<1>9. e[n] = g[n]
  BY <1>2, <1>7, <1>8, BuildsHaveOneValue
<1>10. g[n] = f[m + n]
  BY <1>6
<1>11. QED
  BY <1>1, <1>4, <1>5, <1>8, <1>9, <1>10

-----------------------------------------------------------------------------
(* The rows of the table in the middle of a sequence *)

Building == {"osc_string", "dcs_passthrough", "sos_pm_apc_string"}
Puts == {"osc_put", "put", "apc_put"}

(* What is asked of a row of state s now: what a string holds is put there *)
(* while the string lasts, an OSC and a DCS are left for ground only, but  *)
(* for an ESC, and a control is executed without a move, or on the way to  *)
(* ground.                                                                 *)
RowBuilds(s, r) ==
    /\ r[3] \in Puts => r[2] = s /\ s \in Building
    /\ r[2] \in Building => r[3] \in Puts \cup {"none"}
    /\ r[2] # "ground" =>
          /\ r[3] \notin {"print", "esc_dispatch", "csi_dispatch"}
          /\ r[3] = "execute" => r[2] = s /\ r[1] \subseteq C0
          /\ r[2] # s /\ s \in {"osc_string", "dcs_passthrough"} => r[1] = {Esc}
          /\ r[2] # s => 156 \notin r[1]

LEMMA OwnRowsBuild == \A s \in States \ {"ground"} : \A r \in OwnRows[s] : RowBuilds(s, r)
<1> SUFFICES ASSUME NEW s \in States \ {"ground"}, NEW r \in OwnRows[s]
             PROVE  RowBuilds(s, r)
  OBVIOUS
<1> USE DEF OwnRows, States, RowBuilds, Building, Puts, C0, Esc
<1>1. CASE s = "escape"
  BY <1>1
<1>2. CASE s = "escape_intermediate"
  BY <1>2
<1>3. CASE s = "csi_entry"
  BY <1>3
<1>4. CASE s = "csi_param"
  BY <1>4
<1>5. CASE s = "csi_intermediate"
  BY <1>5
<1>6. CASE s = "csi_ignore"
  BY <1>6
<1>7. CASE s = "dcs_entry"
  BY <1>7
<1>8. CASE s = "dcs_param"
  BY <1>8
<1>9. CASE s = "dcs_intermediate"
  BY <1>9
<1>10. CASE s = "dcs_passthrough"
  BY <1>10
<1>11. CASE s = "dcs_ignore"
  BY <1>11
<1>12. CASE s = "osc_string"
  BY <1>12
<1>13. CASE s = "sos_pm_apc_string"
  BY <1>13
<1>14. QED
  BY <1>1, <1>2, <1>3, <1>4, <1>5, <1>6, <1>7, <1>8, <1>9, <1>10, <1>11, <1>12, <1>13

LEMMA BytesOfStrings ==
    /\ \A c \in Bytes : c \in 32..255 => \E r \in OwnRows["osc_string"] : c \in r[1]
    /\ \A c \in Bytes : c \in 128..255 => \E r \in OwnRows["dcs_passthrough"] : c \in r[1]
<1>1. <<32..255, "osc_string", "osc_put">> \in OwnRows["osc_string"]
  BY DEF OwnRows, States
<1>2. <<C0 \cup (32..126) \cup (128..255), "dcs_passthrough", "put">>
        \in OwnRows["dcs_passthrough"]
  BY DEF OwnRows, States
<1>3. QED
  BY <1>1, <1>2

(* What the table does with a byte of a sequence. *)
RowFacts(st, c, to, action) ==
    /\ to \in States /\ action \in Actions
    /\ action = "param" => c \in 48..59
    /\ action \in Puts => to = st /\ st \in Building
    /\ to \in Building => action \in Puts \cup {"none"}
    /\ to # "ground" /\ c # Esc =>
          /\ action \notin {"print", "esc_dispatch", "csi_dispatch"}
          /\ action = "execute" => to = st /\ c \in C0
          /\ to # st => c # 156 /\ st \notin {"osc_string", "dcs_passthrough"}

LEMMA RowsBuild ==
    ASSUME NEW st \in States \ {"ground"}, NEW c \in Bytes
    PROVE  RowFacts(st, c, Table[c][st].state, Table[c][st].action)
<1> DEFINE to     == Table[c][st].state
           action == Table[c][st].action
<1>1. CASE \E r \in OwnRows[st] : c \in r[1]
  <2>1. PICK r : r = CHOOSE q \in OwnRows[st] : c \in q[1]
    OBVIOUS
  <2>2. r \in OwnRows[st] /\ c \in r[1]
    BY <1>1, <2>1
  <2>3. Table[c][st] = [state |-> r[2], action |-> r[3]]
    BY <1>1, <2>1 DEF Table, Bytes
  <2>4. RowOK(st, r) /\ RowBuilds(st, r)
    BY <2>2, OwnRowsOK, OwnRowsBuild
  <2>5. to = r[2] /\ action = r[3]
    BY <2>3
  <2>6. QED
    BY <2>2, <2>4, <2>5 DEF RowOK, RowBuilds, RowFacts
<1>2. CASE (\A r \in OwnRows[st] : c \notin r[1]) /\ \E r \in Anywhere : c \in r[1]
  <2>1. PICK r : r = CHOOSE q \in Anywhere : c \in q[1]
    OBVIOUS
  <2>2. r \in Anywhere /\ c \in r[1]
    BY <1>2, <2>1
  <2>3. Table[c][st] = [state |-> r[2], action |-> r[3]]
    BY <1>2, <2>1 DEF Table, Bytes
  <2>4. /\ r[2] \in States /\ r[3] \in {"none", "execute"}
        /\ r[2] # "ground" /\ c # Esc => r[3] = "none" /\ c # 156 /\ c \in 128..255
        /\ r[2] \in Building => r[3] = "none"
    BY <2>2 DEF Anywhere, Building, States, Esc
  <2>5. to = r[2] /\ action = r[3]
    BY <2>3
  <2>6. c \in 128..255 => st \notin {"osc_string", "dcs_passthrough"}
    BY <1>2, BytesOfStrings
  <2>7. QED
    BY <2>4, <2>5, <2>6 DEF RowFacts, Actions, Puts
<1>3. CASE \A r \in OwnRows[st] \cup Anywhere : c \notin r[1]
  <2>1. Table[c][st] = [state |-> st, action |-> "none"]
    BY <1>3, NoEffect
  <2>2. QED
    BY <2>1 DEF RowFacts, Actions, Puts
<1>4. QED
  BY <1>1, <1>2, <1>3

-----------------------------------------------------------------------------
(* What the handlers hold of a string *)

StringActs == {"dcs_hook", "apc_start", "osc_reset", "dcs_put", "apc_put", "osc_put",
               "dcs_unhook", "apc_end", "osc_end"}

(* Actions of no string leave what is held of one. *)
Inert(a) == IsList(a) /\ \A held : Build(held, a) = held

LEMMA NoneInert == Inert(<<>>)
  BY NoneIsList, BuildNone DEF Inert

LEMMA OneInert ==
    ASSUME NEW a, a[1] \notin StringActs
    PROVE  Inert(<<a>>)
<1>1. ASSUME NEW held
      PROVE  Build(held, <<a>>) = held
  <2>1. Held(held, a) = held
    BY DEF Held, StringActs
  <2>2. QED
    BY <2>1, BuildOne
<1>2. QED
  BY <1>1, OneIsList DEF Inert

LEMMA JoinInert ==
    ASSUME NEW a, NEW b, Inert(a), Inert(b)
    PROVE  Inert(a \o b)
<1>1. IsList(a) /\ IsList(b)
  BY DEF Inert
<1>2. ASSUME NEW held
      PROVE  Build(held, a \o b) = held
  <2>1. Build(held, a \o b) = Build(Build(held, a), b)
    BY <1>1, BuildJoin
  <2>2. Build(held, a) = held /\ Build(held, b) = held
    BY DEF Inert
  <2>3. QED
    BY <2>1, <2>2
<1>3. QED
  BY <1>1, <1>2, JoinIsList DEF Inert

LEMMA ExecuteInert ==
    ASSUME NEW c
    PROVE  Inert(Execute(c))
<1>1. PICK a, e : a = <<"esc_dispatch", <<>>, c - 64>> /\ e = <<"execute", c>>
  OBVIOUS
<1>2. a[1] = "esc_dispatch" /\ e[1] = "execute"
  BY <1>1
<1>3. Execute(c) = <<a>> \/ Execute(c) = <<e>> \/ Execute(c) = <<>>
  BY <1>1 DEF Execute
<1>4. Inert(<<a>>) /\ Inert(<<e>>)
  BY <1>2, OneInert DEF StringActs
<1>5. QED
  BY <1>3, <1>4, NoneInert

LEMMA TextInert ==
    ASSUME NEW cp
    PROVE  Inert(CodepointActs(cp))
<1>1. PICK a : a = <<"print", cp>>
  OBVIOUS
<1>2. a[1] = "print"
  BY <1>1
<1>3. \/ CodepointActs(cp) = Execute(cp)
      \/ CodepointActs(cp) = <<>>
      \/ CodepointActs(cp) = <<a>>
  BY <1>1 DEF CodepointActs
<1>4. Inert(<<a>>)
  BY <1>2, OneInert DEF StringActs
<1>5. QED
  BY <1>3, <1>4, NoneInert, ExecuteInert

(* An action of the table but the puts, as it is carried out. *)
LEMMA CarryInert ==
    ASSUME NEW p, NEW c, NEW action \in Actions \ Puts
    PROVE  Inert(Carry(Act(action, p, c).acts))
<1>1. PICK acts : acts = Act(action, p, c).acts
  OBVIOUS
<1>2. CASE acts = <<>>
  <2>1. Carry(acts) = <<>>
    BY <1>2 DEF Carry
  <2>2. QED
    BY <1>1, <2>1, NoneInert
<1>3. ASSUME NEW a, acts = <<a>>, a[1] \in {"print", "execute", "esc_dispatch", "csi_dispatch"}
      PROVE  Inert(Carry(acts))
  <2>1. acts # <<>> /\ acts[1] = a
    BY <1>3
  <2>2. CASE a[1] = "execute"
    <3>1. Carry(acts) = Execute(a[2])
      BY <2>1, <2>2 DEF Carry
    <3>2. QED
      BY <3>1, ExecuteInert
  <2>3. CASE a[1] # "execute"
    <3>1. Carry(acts) = <<a>>
      BY <1>3, <2>1, <2>3 DEF Carry
    <3>2. QED
      BY <1>3, <3>1, OneInert DEF StringActs
  <2>4. QED
    BY <2>2, <2>3
<1>4. PICK pr, ex, es, cs : /\ pr = <<"print", c>> /\ ex = <<"execute", c>>
                            /\ es = <<"esc_dispatch", p.inter, c>>
                            /\ cs = Csi(Finalize(p), c)
  OBVIOUS
<1>5. /\ pr[1] = "print" /\ ex[1] = "execute" /\ es[1] = "esc_dispatch"
      /\ cs[1] = "csi_dispatch"
  BY <1>4 DEF Csi
<1>6. acts = <<>> \/ acts = <<pr>> \/ acts = <<ex>> \/ acts = <<es>> \/ acts = <<cs>>
  <2>1. CASE action \in {"none", "collect", "param"}
    BY <1>1, <2>1 DEF Act
  <2>2. CASE action = "print"
    BY <1>1, <1>4, <2>2 DEF Act
  <2>3. CASE action = "execute"
    BY <1>1, <1>4, <2>3 DEF Act
  <2>4. CASE action = "esc_dispatch"
    BY <1>1, <1>4, <2>4 DEF Act
  <2>5. CASE action = "csi_dispatch"
    BY <1>1, <1>4, <2>5 DEF Act
  <2>6. QED
    BY <2>1, <2>2, <2>3, <2>4, <2>5 DEF Actions, Puts
<1>7. QED
  BY <1>1, <1>2, <1>3, <1>5, <1>6

-----------------------------------------------------------------------------
(* A byte of a sequence, by the table *)

LEMMA ParserNextTyped ==
    ASSUME NEW p, NEW c \in Bytes, ParserOK(p), p.state # "ground"
    PROVE  /\ ParserOK(ParserNext(p, c).p)
           /\ ParserNext(p, c).p.state = Table[c][p.state].state
<1> DEFINE to     == Table[c][p.state].state
           action == Table[c][p.state].action
           acted  == Act(action, p, c)
           into   == Enter(to, acted.p, c)
<1>1. p.state \in States \ {"ground"}
  BY DEF ParserOK
<1>2. to \in States /\ action \in Actions /\ (action = "param" => c \in 48..59)
  BY <1>1, RowsBuild DEF RowFacts
<1>3. ParserOK(acted.p) /\ acted.p.state = p.state
  BY <1>2, ActOK
<1>4. CASE to = p.state
  <2>1. ParserNext(p, c).p = acted.p
    BY <1>4 DEF ParserNext
  <2>2. QED
    BY <1>3, <1>4, <2>1
<1>5. CASE to # p.state
  <2>1. ParserNext(p, c).p = [into.p EXCEPT !.state = to]
    BY <1>5 DEF ParserNext
  <2>2. ParserOK(into.p)
    BY <1>2, <1>3, EnterOK
  <2>3. ParserOK([into.p EXCEPT !.state = to]) /\ [into.p EXCEPT !.state = to].state = to
    BY <1>2, <2>2 DEF ParserOK
  <2>4. QED
    BY <2>1, <2>3
<1>6. QED
  BY <1>4, <1>5

LEMMA KeepsDecoder ==
    ASSUME NEW s, NEW c \in Bytes, s = [vt |-> s.vt, utf8 |-> s.utf8]
    PROVE  NextNonUtf8(s, c).s.utf8 = s.utf8
<1>1. ASSUME NEW q, NEW acts
      PROVE  Outcome(WithVt(s, q), acts).s.utf8 = s.utf8
  BY DEF Outcome, WithVt
<1>2. CASE s.vt.state = "escape" /\ c = 91
  <2>1. NextNonUtf8(s, 91) = Outcome(WithVt(s, [s.vt EXCEPT !.state = "csi_entry"]), <<>>)
    BY <1>2, EscapeArm
  <2>2. NextNonUtf8(s, 91).s.utf8 = s.utf8
    BY <1>1, <2>1
  <2>3. QED
    BY <1>2, <2>2
<1>3. CASE /\ s.vt.state = "csi_param"
           /\ c \in C0 \cup {24, 26, 127} \cup CsiParamBytes \cup Finals
  <2>1. \/ c < 16 \/ c \in (C0 \ 0..15) \cup {127} \/ c \in {24, 26} \/ c \in CsiParamBytes
        \/ c \in Finals
    BY <1>3 DEF C0
  <2>2. \/ NextNonUtf8(s, c) = Outcome(WithVt(s, s.vt), Execute(c))
        \/ NextNonUtf8(s, c) = Outcome(WithVt(s, s.vt), <<>>)
        \/ NextNonUtf8(s, c) = Outcome(WithVt(s, [s.vt EXCEPT !.state = "ground"]), <<>>)
        \/ NextNonUtf8(s, c) = Outcome(WithVt(s, CsiParam(s.vt, c)), <<>>)
        \/ NextNonUtf8(s, c) = Outcome(WithVt(s, CsiDispatchFinal(s.vt, c).p),
                                       CsiDispatchFinal(s.vt, c).acts)
    BY <1>3, <2>1, ParamArms
  <2>3. QED
    BY <1>1, <2>2
<1>4. CASE s.vt.state = "csi_entry" /\ c \in CsiEntryBytes
  BY <1>1, <1>4, EntryArm
<1>5. CASE /\ ~ (s.vt.state = "escape" /\ c = 91)
           /\ ~ (/\ s.vt.state = "csi_param"
                 /\ c \in C0 \cup {24, 26, 127} \cup CsiParamBytes \cup Finals)
           /\ ~ (s.vt.state = "csi_entry" /\ c \in CsiEntryBytes)
  BY <1>1, <1>5, OtherArm DEF ByTable, Performed
<1>6. QED
  BY <1>2, <1>3, <1>4, <1>5

LEMMA ByteIsTabled ==
    ASSUME NEW s, NEW c \in Bytes, StreamInv(s), s.vt.state # "ground"
    PROVE  /\ NextByte(s, c).acts = Perform(ParserNext(s.vt, c).acts)
           /\ NextByte(s, c).s.vt.state = Table[c][s.vt.state].state
           /\ NextByte(s, c).s.utf8 = Decoder
           /\ StreamInv(NextByte(s, c).s)
<1>1. PICK n : n = NextNonUtf8(s, c)
  OBVIOUS
<1>2. NextByte(s, c) = n
  BY <1>1 DEF NextByte
<1>3. PICK q : q = ParserNext(s.vt, c).p
  OBVIOUS
<1>4. ParserOK(s.vt) /\ s.utf8 = Decoder /\ s = [vt |-> s.vt, utf8 |-> s.utf8]
  BY DEF StreamInv, ParserInv
<1>5. ParserOK(q) /\ q.state = Table[c][s.vt.state].state
  BY <1>3, <1>4, ParserNextTyped
<1>6. ByTable(s, c).s.vt = (IF q.state = "ground" THEN Parser ELSE q)
      /\ ByTable(s, c).acts = Perform(ParserNext(s.vt, c).acts)
  BY <1>3, <1>4 DEF ByTable, Performed, Outcome, WithVt
<1>7. StreamInv(n.s) /\ n.acts = ByTable(s, c).acts /\ Live(n.s.vt) = Live(ByTable(s, c).s.vt)
  BY <1>1, NonUtf8OK DEF Alike
<1>8. ASSUME NEW p, ParserOK(p)
      PROVE  Live(p).state = p.state
  BY <1>8 DEF Live, ParserOK
<1>9. ParserOK(n.s.vt)
  BY <1>7 DEF StreamInv, ParserInv
<1>10. ParserOK(Parser) /\ Parser.state = "ground"
  BY FreshOK DEF StreamInv, ParserInv, Fresh, Parser
<1>11. PICK r : r = ByTable(s, c).s.vt
  OBVIOUS
<1>12. ParserOK(r) /\ r.state = q.state
  BY <1>5, <1>6, <1>10, <1>11
<1>13. Live(n.s.vt).state = n.s.vt.state /\ Live(r).state = r.state
  BY <1>8, <1>9, <1>12
<1>14. n.s.vt.state = q.state
  BY <1>7, <1>11, <1>12, <1>13
<1>15. n.s.utf8 = Decoder
  BY <1>1, <1>4, KeepsDecoder
<1>16. QED
  BY <1>2, <1>5, <1>6, <1>7, <1>14, <1>15

-----------------------------------------------------------------------------
(* What a byte of a sequence begins, puts and ends *)

LEMMA JoinNone ==
    ASSUME NEW a, IsList(a)
    PROVE  a \o <<>> = a /\ <<>> \o a = a
  BY DEF IsList

LEMMA CarryOther ==
    ASSUME NEW a, a[1] # "execute"
    PROVE  Carry(<<a>>) = <<a>>
  BY DEF Carry

LEMMA CarryNone == Carry(<<>>) = <<>>
  BY DEF Carry

Begins == {"dcs_hook", "apc_start", "osc_reset"}
Added  == {"dcs_put", "apc_put", "osc_put"}
Ends   == {"dcs_unhook", "apc_end", "osc_end"}

LEMMA ExitActs ==
    ASSUME NEW s \in States, NEW c
    PROVE  /\ s \notin Building => Exit(s, c) = <<>>
           /\ s \in Building => \E a : a[1] \in Ends /\ Exit(s, c) = <<a>>
           /\ s = "sos_pm_apc_string" => Exit(s, c) = <<<<"apc_end", c \in {Esc, 156}>>>>
<1>1. PICK o, d, a : o = <<"osc_end", c>> /\ d = <<"dcs_unhook">> /\ a = <<"apc_end", c \in {Esc, 156}>>
  OBVIOUS
<1>2. o[1] = "osc_end" /\ d[1] = "dcs_unhook" /\ a[1] = "apc_end"
  BY <1>1
<1>3. /\ s = "osc_string" => Exit(s, c) = <<o>>
      /\ s = "dcs_passthrough" => Exit(s, c) = <<d>>
      /\ s = "sos_pm_apc_string" => Exit(s, c) = <<a>>
      /\ s \notin Building => Exit(s, c) = <<>>
  BY <1>1 DEF Exit, Building
<1>4. QED
  BY <1>1, <1>2, <1>3 DEF Building, Ends

LEMMA EnterActs ==
    ASSUME NEW s \in States, NEW p, NEW c
    PROVE  /\ s \notin Building => Enter(s, p, c).acts = <<>>
           /\ \/ Enter(s, p, c).acts = <<>>
              \/ \E a : a[1] \in Begins /\ Enter(s, p, c).acts = <<a>>
<1>1. PICK o, a, d : /\ o = <<"osc_reset">> /\ a = <<"apc_start">>
                     /\ d = <<"dcs_hook", p.inter, Finalize(p).params, c>>
  OBVIOUS
<1>2. o[1] = "osc_reset" /\ a[1] = "apc_start" /\ d[1] = "dcs_hook"
  BY <1>1
<1>3. CASE s = "osc_string"
  <2>1. Enter(s, p, c).acts = <<o>>
    BY <1>1, <1>3 DEF Enter
  <2>2. QED
    BY <1>2, <1>3, <2>1 DEF Building, Begins
<1>4. CASE s = "sos_pm_apc_string"
  <2>1. Enter(s, p, c).acts = <<a>>
    BY <1>1, <1>4 DEF Enter
  <2>2. QED
    BY <1>2, <1>4, <2>1 DEF Building, Begins
<1>5. CASE s = "dcs_passthrough" /\ Len(p.params) < MaxParams
  <2>1. Enter(s, p, c).acts = <<d>>
    BY <1>1, <1>5 DEF Enter
  <2>2. QED
    BY <1>2, <1>5, <2>1 DEF Building, Begins
<1>6. CASE s \in {"escape", "dcs_entry", "csi_entry"}
  BY <1>6 DEF Enter
<1>7. CASE /\ s \notin {"escape", "dcs_entry", "csi_entry", "osc_string",
                        "sos_pm_apc_string"}
           /\ ~ (s = "dcs_passthrough" /\ Len(p.params) < MaxParams)
  BY <1>7 DEF Enter
<1>8. QED
  BY <1>3, <1>4, <1>5, <1>6, <1>7

LEMMA PutActs ==
    ASSUME NEW action \in Puts, NEW p, NEW c
    PROVE  \E a : a[1] \in Added /\ Act(action, p, c).acts = <<a>>
<1>1. PICK o, d, a : o = <<"osc_put", c>> /\ d = <<"dcs_put", c>> /\ a = <<"apc_put", c>>
  OBVIOUS
<1>2. o[1] = "osc_put" /\ d[1] = "dcs_put" /\ a[1] = "apc_put"
  BY <1>1
<1>3. CASE action = "osc_put"
  <2>1. Act(action, p, c).acts = <<o>>
    BY <1>1, <1>3 DEF Act
  <2>2. QED
    BY <1>2, <2>1 DEF Added
<1>4. CASE action = "put"
  <2>1. Act(action, p, c).acts = <<d>>
    BY <1>1, <1>4 DEF Act
  <2>2. QED
    BY <1>2, <2>1 DEF Added
<1>5. CASE action = "apc_put"
  <2>1. Act(action, p, c).acts = <<a>>
    BY <1>1, <1>5 DEF Act
  <2>2. QED
    BY <1>2, <2>1 DEF Added
<1>6. QED
  BY <1>3, <1>4, <1>5 DEF Puts

(* An ESC or another byte that leaves a string drops what is held of it.   *)
LEMMA EndsBuild ==
    ASSUME NEW held, NEW a, a[1] \in Ends
    PROVE  Build(held, <<a>>) = <<>>
<1>1. Held(held, a) = <<>>
  BY DEF Held, Ends
<1>2. QED
  BY <1>1, BuildOne

(* Nothing is held but in the middle of a string.                          *)
HeldOK(s, held) == s.vt.state \notin Building => held = <<>>

LEMMA Performs ==
    ASSUME NEW s, NEW c \in Bytes, StreamInv(s), s.vt.state # "ground"
    PROVE  \E to, action, acted :
              /\ to = Table[c][s.vt.state].state /\ action = Table[c][s.vt.state].action
              /\ acted = Act(action, s.vt, c)
              /\ to = s.vt.state =>
                    NextByte(s, c).acts = Carry(<<>>) \o Carry(acted.acts) \o Carry(<<>>)
              /\ to # s.vt.state =>
                    NextByte(s, c).acts = Carry(Exit(s.vt.state, c)) \o Carry(acted.acts)
                                            \o Carry(Enter(to, acted.p, c).acts)
<1>1. NextByte(s, c).acts = Perform(ParserNext(s.vt, c).acts)
  BY ByteIsTabled
<1>2. PICK to, action, acted : /\ to = Table[c][s.vt.state].state
                               /\ action = Table[c][s.vt.state].action
                               /\ acted = Act(action, s.vt, c)
  OBVIOUS
<1>3. ASSUME to = s.vt.state
      PROVE  NextByte(s, c).acts = Carry(<<>>) \o Carry(acted.acts) \o Carry(<<>>)
  <2>1. ParserNext(s.vt, c).acts = <<<<>>, acted.acts, <<>>>>
    BY <1>2, <1>3 DEF ParserNext
  <2>2. NextByte(s, c).acts = Perform(<<<<>>, acted.acts, <<>>>>)
    BY <1>1, <2>1
  <2>3. Perform(<<<<>>, acted.acts, <<>>>>) = Carry(<<>>) \o Carry(acted.acts) \o Carry(<<>>)
    BY DEF Perform
  <2>4. QED
    BY <2>2, <2>3
<1>4. ASSUME to # s.vt.state
      PROVE  NextByte(s, c).acts = Carry(Exit(s.vt.state, c)) \o Carry(acted.acts)
                                     \o Carry(Enter(to, acted.p, c).acts)
  <2>1. ParserNext(s.vt, c).acts
          = <<Exit(s.vt.state, c), acted.acts, Enter(to, acted.p, c).acts>>
    BY <1>2, <1>4 DEF ParserNext
  <2>2. NextByte(s, c).acts
          = Perform(<<Exit(s.vt.state, c), acted.acts, Enter(to, acted.p, c).acts>>)
    BY <1>1, <2>1
  <2>3. Perform(<<Exit(s.vt.state, c), acted.acts, Enter(to, acted.p, c).acts>>)
          = Carry(Exit(s.vt.state, c)) \o Carry(acted.acts) \o Carry(Enter(to, acted.p, c).acts)
    BY DEF Perform
  <2>4. QED
    BY <2>2, <2>3
<1>5. QED
  BY <1>2, <1>3, <1>4

LEMMA ActIsList ==
    ASSUME NEW action \in Actions, NEW p, NEW c
    PROVE  IsList(Carry(Act(action, p, c).acts))
<1>1. CASE action \in Puts
  <2>1. PICK a : a[1] \in Added /\ Act(action, p, c).acts = <<a>>
    BY <1>1, PutActs
  <2>2. Carry(<<a>>) = <<a>>
    BY <2>1, CarryOther DEF Added
  <2>3. QED
    BY <2>1, <2>2, OneIsList
<1>2. CASE action \notin Puts
  BY <1>2, CarryInert DEF Inert
<1>3. QED
  BY <1>1, <1>2

LEMMA ExitIsList ==
    ASSUME NEW s \in States, NEW c
    PROVE  /\ IsList(Carry(Exit(s, c))) /\ Carry(Exit(s, c)) = Exit(s, c)
           /\ s \in Building => \A held : Build(held, Carry(Exit(s, c))) = <<>>
<1>1. CASE s \notin Building
  <2>1. Exit(s, c) = <<>>
    BY <1>1, ExitActs
  <2>2. QED
    BY <1>1, <2>1, CarryNone, NoneIsList
<1>2. CASE s \in Building
  <2>1. PICK a : a[1] \in Ends /\ Exit(s, c) = <<a>>
    BY <1>2, ExitActs
  <2>2. Carry(<<a>>) = <<a>>
    BY <2>1, CarryOther DEF Ends
  <2>3. \A held : Build(held, <<a>>) = <<>>
    BY <2>1, EndsBuild
  <2>4. QED
    BY <2>1, <2>2, <2>3, OneIsList
<1>3. QED
  BY <1>1, <1>2

LEMMA EnterIsList ==
    ASSUME NEW s \in States, NEW p, NEW c
    PROVE  IsList(Carry(Enter(s, p, c).acts)) /\ Carry(Enter(s, p, c).acts) = Enter(s, p, c).acts
<1>1. CASE Enter(s, p, c).acts = <<>>
  BY <1>1, CarryNone, NoneIsList
<1>2. ASSUME NEW a, a[1] \in Begins, Enter(s, p, c).acts = <<a>>
      PROVE  IsList(Carry(Enter(s, p, c).acts)) /\ Carry(Enter(s, p, c).acts) = Enter(s, p, c).acts
  <2>1. Carry(<<a>>) = <<a>>
    BY <1>2, CarryOther DEF Begins
  <2>2. QED
    BY <1>2, <2>1, OneIsList
<1>3. QED
  BY <1>1, <1>2, EnterActs

(* What is held of a string is dropped with the string.                    *)
LEMMA SequenceHeld ==
    ASSUME NEW s, NEW c \in Bytes, StreamInv(s), s.vt.state # "ground",
           NEW held, HeldOK(s, held)
    PROVE  /\ IsList(NextByte(s, c).acts)
           /\ HeldOK(NextByte(s, c).s, Build(held, NextByte(s, c).acts))
<1>1. PICK st : st = s.vt.state
  OBVIOUS
<1>2. PICK to, action, acted :
        /\ to = Table[c][s.vt.state].state /\ action = Table[c][s.vt.state].action
        /\ acted = Act(action, s.vt, c)
        /\ to = s.vt.state => NextByte(s, c).acts = Carry(<<>>) \o Carry(acted.acts) \o Carry(<<>>)
        /\ to # s.vt.state => NextByte(s, c).acts = Carry(Exit(s.vt.state, c)) \o Carry(acted.acts)
                                                       \o Carry(Enter(to, acted.p, c).acts)
  BY Performs
<1>3. st \in States \ {"ground"}
  BY <1>1 DEF StreamInv, ParserInv, ParserOK
<1>4. RowFacts(st, c, to, action)
  BY <1>1, <1>3, <1>2, RowsBuild
<1>5. to \in States /\ action \in Actions
  BY <1>4 DEF RowFacts
<1>6. PICK a, b, e : /\ a = Carry(Exit(st, c)) /\ b = Carry(acted.acts)
                     /\ e = Carry(Enter(to, acted.p, c).acts)
  OBVIOUS
<1>7. IsList(a) /\ IsList(b) /\ IsList(e) /\ IsList(a \o b)
  BY <1>3, <1>5, <1>2, <1>6, ExitIsList, ActIsList, EnterIsList, JoinIsList
<1>8. NextByte(s, c).acts = IF to = st THEN b ELSE (a \o b) \o e
  <2>1. CASE to = st
    <3>1. NextByte(s, c).acts = Carry(<<>>) \o b \o Carry(<<>>)
      BY <1>1, <1>2, <1>6, <2>1
    <3>2. <<>> \o b = b /\ b \o <<>> = b /\ Carry(<<>>) = <<>>
      BY <1>7, JoinNone, CarryNone
    <3>3. QED
      BY <2>1, <3>1, <3>2
  <2>2. CASE to # st
    BY <1>1, <1>2, <1>6, <2>2
  <2>3. QED
    BY <2>1, <2>2
<1>9. IsList(NextByte(s, c).acts)
  BY <1>7, <1>8, JoinIsList
<1>10. NextByte(s, c).s.vt.state = to
  BY <1>1, <1>2, ByteIsTabled
<1>11. ASSUME to \notin Building
       PROVE  Build(held, NextByte(s, c).acts) = <<>>
  <2>1. action \notin Puts
    BY <1>4, <1>11 DEF RowFacts
  <2>2. Inert(b)
    BY <1>5, <1>2, <1>6, <2>1, CarryInert
  <2>3. CASE to = st
    <3>1. held = <<>>
      BY <1>1, <1>11, <2>3 DEF HeldOK
    <3>2. QED
      BY <1>8, <2>2, <2>3, <3>1 DEF Inert
  <2>4. CASE to # st
    <3>1. e = <<>>
      BY <1>5, <1>6, <1>11, EnterActs, CarryNone
    <3>2. (a \o b) \o e = a \o b
      BY <1>7, <3>1, JoinNone
    <3>3. Build(held, a \o b) = Build(Build(held, a), b)
      BY <1>7, BuildJoin
    <3>4. Build(held, a) = <<>>
      <4>1. CASE st \in Building
        BY <1>3, <1>6, <4>1, ExitIsList
      <4>2. CASE st \notin Building
        <5>1. a = <<>>
          BY <1>3, <1>6, <4>2, ExitActs, CarryNone
        <5>2. held = <<>>
          BY <1>1, <4>2 DEF HeldOK
        <5>3. QED
          BY <5>1, <5>2, BuildNone
      <4>3. QED
        BY <4>1, <4>2
    <3>5. QED
      BY <1>8, <2>2, <2>4, <3>2, <3>3, <3>4 DEF Inert
  <2>5. QED
    BY <2>3, <2>4
<1>12. QED
  BY <1>9, <1>10, <1>11 DEF HeldOK

-----------------------------------------------------------------------------
(* What a scan of the bytes makes of the same byte.  The scan knows the    *)
(* state a stream is in, but not all of the parser's numbers.              *)

ScanOf(sc, s) ==
    /\ sc = [vt |-> sc.vt, utf8 |-> sc.utf8]
    /\ ParserOK(sc.vt) /\ sc.vt.state = s.vt.state
    /\ sc.utf8 = s.utf8

Told(acts) == \A i \in 1..Len(acts) : acts[i][1] \in Builds \/ acts[i] = CutOff
Cut(acts)  == \E i \in 1..Len(acts) : acts[i] = CutOff

(* A byte that is written again, and one that is left out.                 *)
Keeps(s, c) ==
    /\ IsList(NextByte(s, c).acts) /\ Told(NextByte(s, c).acts)
    /\ \A sc : ScanOf(sc, s) =>
          /\ ScanOf(Scan(sc, c).s, NextByte(s, c).s)
          /\ ~ Omittable(sc, Scan(sc, c))
          /\ Scan(sc, c).commits = Cut(NextByte(s, c).acts)

Omits(s, c) ==
    /\ NextByte(s, c).s = s /\ Inert(NextByte(s, c).acts)
    /\ \A sc : ScanOf(sc, s) => ScanOf(Scan(sc, c).s, s) /\ Omittable(sc, Scan(sc, c))

LEMMA ToldNone == Told(<<>>) /\ ~ Cut(<<>>)
  BY NoneIsList DEF Told, Cut

LEMMA ToldOne ==
    ASSUME NEW a, a[1] \in Builds
    PROVE  Told(<<a>>) /\ ~ Cut(<<a>>)
<1>1. a # CutOff
  <2>1. CutOff[1] = "apc_end"
    BY DEF CutOff
  <2>2. QED
    BY <2>1 DEF Builds
<1>2. QED
  BY <1>1, OneIsList DEF Told, Cut

LEMMA ToldCut == Told(<<CutOff>>) /\ Cut(<<CutOff>>)
  BY OneIsList DEF Told, Cut

LEMMA ToldJoin ==
    ASSUME NEW a, NEW b, IsList(a), IsList(b), Told(a), Told(b)
    PROVE  Told(a \o b) /\ (Cut(a \o b) = (Cut(a) \/ Cut(b)))
<1>1. PICK both : both = a \o b
  OBVIOUS
<1>2. PICK m \in Nat, n \in Nat : m = Len(a) /\ n = Len(b)
  BY ListParts
<1>3. /\ Len(both) = m + n
      /\ \A i \in 1..m : both[i] = a[i]
      /\ \A i \in 1..n : both[m + i] = b[i]
  BY <1>1, <1>2, JoinIsList
<1>4. ASSUME NEW i \in 1..m + n
      PROVE  (i \in 1..m /\ both[i] = a[i]) \/ \E j \in 1..n : both[i] = b[j]
  <2>1. CASE i <= m
    BY <1>3, <2>1
  <2>2. CASE i > m
    <3>1. PICK j : j = i - m
      OBVIOUS
    <3>2. j \in 1..n /\ m + j = i
      BY <2>2, <3>1
    <3>3. QED
      BY <1>3, <3>2
  <2>3. QED
    BY <2>1, <2>2
<1>5. \A i \in 1..m : i \in 1..m + n
  OBVIOUS
<1>6. \A i \in 1..n : m + i \in 1..m + n
  OBVIOUS
<1>7. Told(both)
  BY <1>2, <1>3, <1>4 DEF Told
<1>8. ASSUME Cut(both)
      PROVE  Cut(a) \/ Cut(b)
  BY <1>2, <1>3, <1>4, <1>8 DEF Cut
<1>9. ASSUME Cut(a) \/ Cut(b)
      PROVE  Cut(both)
  BY <1>2, <1>3, <1>5, <1>6, <1>9 DEF Cut
<1>10. QED
  BY <1>1, <1>7, <1>8, <1>9 DEF Cut

(* The scanner's view of a byte of a sequence.                             *)
Commits(acts) == \E k \in 1..3 : acts[k] # <<>> /\ acts[k][1][1] \notin Builds

LEMMA ScanSequence ==
    ASSUME NEW sc, NEW s, NEW c \in Bytes, StreamInv(s), s.vt.state # "ground", ScanOf(sc, s),
           Table[c][s.vt.state].state # "ground"
    PROVE  /\ ScanOf(Scan(sc, c).s, NextByte(s, c).s)
           /\ Scan(sc, c).s = [vt |-> ParserNext(sc.vt, c).p, utf8 |-> sc.utf8]
           /\ Scan(sc, c).s.vt.state = Table[c][s.vt.state].state
           /\ Scan(sc, c).commits = Commits(ParserNext(sc.vt, c).acts)
<1>1. PICK n : n = ParserNext(sc.vt, c)
  OBVIOUS
<1>2. sc.vt.state # "ground" /\ ParserOK(sc.vt) /\ sc.vt.state = s.vt.state
      /\ sc = [vt |-> sc.vt, utf8 |-> sc.utf8] /\ sc.utf8 = s.utf8
  BY DEF ScanOf
<1>3. ParserOK(n.p) /\ n.p.state = Table[c][s.vt.state].state
  BY <1>1, <1>2, ParserNextTyped
<1>4. Scan(sc, c) = [s |-> WithVt(sc, n.p), commits |-> Commits(n.acts)]
  BY <1>1, <1>2 DEF Scan, Commits
<1>5. WithVt(sc, n.p) = [vt |-> n.p, utf8 |-> sc.utf8]
  BY <1>2, <1>3 DEF WithVt
<1>6. NextByte(s, c).s.vt.state = Table[c][s.vt.state].state /\ NextByte(s, c).s.utf8 = Decoder
  BY ByteIsTabled
<1>7. s.utf8 = Decoder
  BY DEF StreamInv
<1>8. PICK t : t = Scan(sc, c).s
  OBVIOUS
<1>9. t = [vt |-> n.p, utf8 |-> sc.utf8]
  BY <1>4, <1>5, <1>8
<1>10. t.vt = n.p /\ t.utf8 = sc.utf8
  BY <1>9
<1>11. ScanOf(t, NextByte(s, c).s)
  BY <1>2, <1>3, <1>6, <1>7, <1>9, <1>10 DEF ScanOf
<1>12. QED
  BY <1>1, <1>3, <1>4, <1>8, <1>9, <1>10, <1>11

LEMMA CommitsOf ==
    ASSUME NEW x, NEW y, NEW z
    PROVE  Commits(<<x, y, z>>) = \/ x # <<>> /\ x[1][1] \notin Builds
                                  \/ y # <<>> /\ y[1][1] \notin Builds
                                  \/ z # <<>> /\ z[1][1] \notin Builds
<1>1. PICK acts : acts = <<x, y, z>>
  OBVIOUS
<1>2. acts[1] = x /\ acts[2] = y /\ acts[3] = z
  BY <1>1
<1>3. \A k \in 1..3 : k = 1 \/ k = 2 \/ k = 3
  OBVIOUS
<1>4. Commits(acts) = \/ acts[1] # <<>> /\ acts[1][1][1] \notin Builds
                      \/ acts[2] # <<>> /\ acts[2][1][1] \notin Builds
                      \/ acts[3] # <<>> /\ acts[3][1][1] \notin Builds
  BY <1>3 DEF Commits
<1>5. QED
  BY <1>1, <1>2, <1>4

(* The actions of the table for a byte within a string or a sequence.      *)
LEMMA MiddleActs ==
    ASSUME NEW action \in Actions \ {"print", "execute", "esc_dispatch", "csi_dispatch"},
           NEW p, NEW c
    PROVE  \/ action \notin Puts /\ Act(action, p, c).acts = <<>>
           \/ action \in Puts /\ \E a : a[1] \in Added /\ Act(action, p, c).acts = <<a>>
<1>1. CASE action \in {"none", "collect", "param"}
  BY <1>1 DEF Act, Puts
<1>2. CASE action \in Puts
  BY <1>2, PutActs
<1>3. QED
  BY <1>1, <1>2 DEF Actions, Puts

(* A control in a sequence is executed, and the sequence goes on.          *)
LEMMA ControlOmitted ==
    ASSUME NEW s, NEW c \in Bytes, StreamInv(s), s.vt.state # "ground", c \in C0,
           Table[c][s.vt.state] = [state |-> s.vt.state, action |-> "execute"]
    PROVE  Omits(s, c)
<1>1. PICK p : p = s.vt
  OBVIOUS
<1>2. s = [vt |-> p, utf8 |-> Decoder] /\ ParserOK(p) /\ p.state # "ground"
  BY <1>1 DEF StreamInv, ParserInv
<1>3. ASSUME NEW q, q.state = p.state
      PROVE  ParserNext(q, c) = [p |-> q, acts |-> <<<<>>, <<<<"execute", c>>>>, <<>>>>]
  <2>1. Act("execute", q, c) = [p |-> q, acts |-> <<<<"execute", c>>>>]
    BY DEF Act
  <2>2. Table[c][q.state] = [state |-> q.state, action |-> "execute"]
    BY <1>1, <1>3
  <2>3. ParserNext(q, c) = [p |-> Act("execute", q, c).p,
                            acts |-> <<<<>>, Act("execute", q, c).acts, <<>>>>]
    BY <2>2, Stays
  <2>4. QED
    BY <2>1, <2>3
<1>4. WithVt(s, p) = s
  BY <1>2 DEF WithVt
<1>5. NextByte(s, c).s = s
  <2>1. NextByte(s, c) = NextNonUtf8(s, c)
    BY <1>1, <1>2 DEF NextByte
  <2>2. CASE p.state = "csi_param"
    <3>1. c < 16 \/ c \in (C0 \ 0..15) \cup {127}
      BY DEF C0
    <3>2. \/ NextNonUtf8(s, c) = Outcome(WithVt(s, s.vt), Execute(c))
          \/ NextNonUtf8(s, c) = Outcome(WithVt(s, s.vt), <<>>)
      BY <1>1, <2>2, <3>1, ParamArms
    <3>3. QED
      BY <1>1, <1>4, <2>1, <3>2 DEF Outcome
  <2>3. CASE p.state # "csi_param"
    <3>1. c # 91 /\ c \notin CsiEntryBytes
      BY DEF C0, CsiEntryBytes, Digits, Finals
    <3>2. NextNonUtf8(s, c) = ByTable(s, c)
      BY <1>1, <2>3, <3>1, OtherArm
    <3>3. ParserNext(p, c).p = p
      BY <1>3
    <3>4. QED
      BY <1>1, <1>4, <2>1, <3>2, <3>3 DEF ByTable, Performed, Outcome
  <2>4. QED
    BY <2>2, <2>3
<1>6. Inert(NextByte(s, c).acts)
  <2>1. NextByte(s, c).acts = Perform(ParserNext(p, c).acts)
    BY <1>1, ByteIsTabled
  <2>2. ParserNext(p, c).acts = <<<<>>, <<<<"execute", c>>>>, <<>>>>
    BY <1>3
  <2>3. NextByte(s, c).acts = Execute(c)
    BY <2>1, <2>2, PerformExecute
  <2>4. QED
    BY <2>3, ExecuteInert
<1>7. ASSUME NEW sc, ScanOf(sc, s)
      PROVE  ScanOf(Scan(sc, c).s, s) /\ Omittable(sc, Scan(sc, c))
  <2>1. Table[c][s.vt.state].state # "ground"
    BY <1>1, <1>2
  <2>2. /\ ScanOf(Scan(sc, c).s, NextByte(s, c).s)
        /\ Scan(sc, c).s.vt.state = Table[c][s.vt.state].state
        /\ Scan(sc, c).commits = Commits(ParserNext(sc.vt, c).acts)
        /\ Scan(sc, c).s = [vt |-> ParserNext(sc.vt, c).p, utf8 |-> sc.utf8]
    BY <1>7, <2>1, ScanSequence
  <2>3. ParserNext(sc.vt, c).acts = <<<<>>, <<<<"execute", c>>>>, <<>>>>
    BY <1>1, <1>3, <1>7 DEF ScanOf
  <2>4. Commits(<<<<>>, <<<<"execute", c>>>>, <<>>>>)
    <3>1. PICK y : y = <<<<"execute", c>>>>
      OBVIOUS
    <3>2. y # <<>> /\ y[1][1] \notin Builds
      BY <3>1 DEF Builds
    <3>3. QED
      BY <3>1, <3>2, CommitsOf
  <2>5. Scan(sc, c).commits /\ Scan(sc, c).s.vt.state = sc.vt.state /\ sc.vt.state # "ground"
        /\ Scan(sc, c).s.utf8 = sc.utf8
    BY <1>1, <1>2, <1>7, <2>2, <2>3, <2>4 DEF ScanOf
  <2>6. QED
    BY <1>5, <2>2, <2>5 DEF Omittable, Ground
<1>8. QED
  BY <1>5, <1>6, <1>7 DEF Omits

LEMMA StayKept ==
    ASSUME NEW s, NEW c \in Bytes, StreamInv(s), s.vt.state # "ground",
           NEW action \in Actions \ {"print", "execute", "esc_dispatch", "csi_dispatch"},
           Table[c][s.vt.state] = [state |-> s.vt.state, action |-> action]
    PROVE  Keeps(s, c)
<1>1. PICK st : st = s.vt.state /\ st # "ground"
  OBVIOUS
<1>2. ASSUME NEW q, q.state = st
      PROVE  ParserNext(q, c).acts = <<<<>>, Act(action, q, c).acts, <<>>>>
  BY <1>1, <1>2, Stays
<1>3. NextByte(s, c).acts = Perform(ParserNext(s.vt, c).acts)
  BY ByteIsTabled
<1>4. PICK acts : acts = Act(action, s.vt, c).acts
  OBVIOUS
<1>5. Perform(<<<<>>, acts, <<>>>>) = Carry(<<>>) \o Carry(acts) \o Carry(<<>>)
  BY DEF Perform
<1>6. IsList(acts) /\ Carry(acts) = acts /\ Told(acts) /\ ~ Cut(acts)
  <2>1. CASE acts = <<>>
    BY <2>1, NoneIsList, CarryNone, ToldNone
  <2>2. ASSUME NEW a, a[1] \in Added, acts = <<a>>
        PROVE  IsList(acts) /\ Carry(acts) = acts /\ Told(acts) /\ ~ Cut(acts)
    <3>1. a[1] # "execute" /\ a[1] \in Builds
      BY <2>2 DEF Added, Builds
    <3>2. QED
      BY <2>2, <3>1, CarryOther, OneIsList, ToldOne
  <2>3. QED
    BY <1>4, <2>1, <2>2, MiddleActs
<1>7. NextByte(s, c).acts = acts
  <2>1. ParserNext(s.vt, c).acts = <<<<>>, acts, <<>>>>
    BY <1>1, <1>2, <1>4
  <2>2. <<>> \o acts = acts /\ acts \o <<>> = acts
    BY <1>6, JoinNone
  <2>3. QED
    BY <1>3, <1>5, <1>6, <2>1, <2>2, CarryNone
<1>8. ASSUME NEW sc, ScanOf(sc, s)
      PROVE  /\ ScanOf(Scan(sc, c).s, NextByte(s, c).s)
             /\ ~ Omittable(sc, Scan(sc, c))
             /\ Scan(sc, c).commits = FALSE
  <2>1. Table[c][s.vt.state].state # "ground"
    BY <1>1
  <2>2. /\ ScanOf(Scan(sc, c).s, NextByte(s, c).s)
        /\ Scan(sc, c).commits = Commits(ParserNext(sc.vt, c).acts)
    BY <1>8, <2>1, ScanSequence
  <2>3. PICK y : y = Act(action, sc.vt, c).acts
    OBVIOUS
  <2>4. ParserNext(sc.vt, c).acts = <<<<>>, y, <<>>>>
    BY <1>1, <1>2, <1>8, <2>3 DEF ScanOf
  <2>5. y = <<>> \/ y[1][1] \in Builds
    <3>1. ASSUME NEW a, a[1] \in Added, y = <<a>>
          PROVE  y[1][1] \in Builds
      BY <3>1 DEF Added, Builds
    <3>2. QED
      BY <2>3, <3>1, MiddleActs
  <2>6. Commits(<<<<>>, y, <<>>>>) = FALSE
    BY <2>5, CommitsOf
  <2>7. QED
    BY <2>2, <2>4, <2>6 DEF Omittable
<1>9. Cut(acts) = FALSE
  BY <1>6 DEF Cut
<1>10. QED
  BY <1>6, <1>7, <1>8, <1>9 DEF Keeps

LEMMA MoveKept ==
    ASSUME NEW s, NEW c \in Bytes, StreamInv(s), s.vt.state # "ground", c \notin {Esc, 156},
           s.vt.state \notin {"osc_string", "dcs_passthrough"},
           NEW to \in States \ {"ground"}, to # s.vt.state,
           NEW action \in Actions \ {"print", "execute", "esc_dispatch", "csi_dispatch"},
           action \notin Puts,
           Table[c][s.vt.state] = [state |-> to, action |-> action]
    PROVE  Keeps(s, c)
<1>1. PICK st : st = s.vt.state /\ st # "ground" /\ st # to
  OBVIOUS
<1>2. st \in States
  BY <1>1 DEF StreamInv, ParserInv, ParserOK
<1>3. ASSUME NEW q, q.state = st
      PROVE  \E z : /\ ParserNext(q, c).acts = <<Exit(st, c), <<>>, z>>
                    /\ z = Enter(to, Act(action, q, c).p, c).acts
                    /\ z = <<>> \/ \E a : a[1] \in Begins /\ z = <<a>>
  <2>1. Table[c][q.state].state = to /\ Table[c][q.state].action = action
    BY <1>1, <1>3
  <2>2. Act(action, q, c).acts = <<>>
    BY MiddleActs
  <2>3. PICK z : z = Enter(to, Act(action, q, c).p, c).acts
    OBVIOUS
  <2>4. ParserNext(q, c).acts = <<Exit(st, c), <<>>, z>>
    BY <1>1, <1>3, <2>1, <2>2, <2>3 DEF ParserNext
  <2>5. z = <<>> \/ \E a : a[1] \in Begins /\ z = <<a>>
    BY <2>3, EnterActs
  <2>6. QED
    BY <2>3, <2>4, <2>5
<1>4. PICK x : x = Exit(st, c)
  OBVIOUS
<1>5. \/ st # "sos_pm_apc_string" /\ x = <<>>
      \/ st = "sos_pm_apc_string" /\ x = <<CutOff>>
  <2>1. CASE st = "sos_pm_apc_string"
    <3>1. x = <<<<"apc_end", c \in {Esc, 156}>>>>
      BY <1>2, <1>4, <2>1, ExitActs
    <3>2. (c \in {Esc, 156}) = FALSE
      OBVIOUS
    <3>3. QED
      BY <2>1, <3>1, <3>2 DEF CutOff
  <2>2. CASE st # "sos_pm_apc_string"
    <3>1. st \notin Building
      BY <1>1, <2>2 DEF Building
    <3>2. QED
      BY <1>2, <1>4, <2>2, <3>1, ExitActs
  <2>3. QED
    BY <2>1, <2>2
<1>6. /\ IsList(x) /\ Carry(x) = x /\ Told(x)
      /\ Cut(x) = (st = "sos_pm_apc_string")
  <2>1. Carry(x) = x /\ IsList(x)
    BY <1>2, <1>4, ExitIsList
  <2>2. QED
    BY <1>5, <2>1, ToldNone, ToldCut DEF Cut
<1>7. PICK z : /\ ParserNext(s.vt, c).acts = <<x, <<>>, z>>
               /\ z = Enter(to, Act(action, s.vt, c).p, c).acts
               /\ z = <<>> \/ \E a : a[1] \in Begins /\ z = <<a>>
  BY <1>1, <1>3, <1>4
<1>8. IsList(z) /\ Carry(z) = z /\ Told(z) /\ ~ Cut(z)
  <2>1. IsList(z) /\ Carry(z) = z
    BY <1>7, EnterIsList
  <2>2. CASE z = <<>>
    BY <2>1, <2>2, ToldNone
  <2>3. ASSUME NEW a, a[1] \in Begins, z = <<a>>
        PROVE  Told(z) /\ ~ Cut(z)
    <3>1. a[1] \in Builds
      BY <2>3 DEF Begins, Builds
    <3>2. QED
      BY <2>3, <3>1, ToldOne
  <2>4. QED
    BY <1>7, <2>1, <2>2, <2>3
<1>9. NextByte(s, c).acts = x \o z
  <2>1. NextByte(s, c).acts = Perform(<<x, <<>>, z>>)
    BY <1>7, ByteIsTabled
  <2>2. Perform(<<x, <<>>, z>>) = Carry(x) \o Carry(<<>>) \o Carry(z)
    BY DEF Perform
  <2>3. x \o <<>> = x
    BY <1>6, JoinNone
  <2>4. QED
    BY <1>6, <1>8, <2>1, <2>2, <2>3, CarryNone
<1>10. /\ IsList(x \o z) /\ Told(x \o z)
       /\ Cut(x \o z) = (st = "sos_pm_apc_string")
  <2>1. IsList(x \o z) /\ Told(x \o z) /\ Cut(x \o z) = (Cut(x) \/ Cut(z))
    BY <1>6, <1>8, JoinIsList, ToldJoin
  <2>2. QED
    BY <1>6, <1>8, <2>1
<1>11. ASSUME NEW sc, ScanOf(sc, s)
       PROVE  /\ ScanOf(Scan(sc, c).s, NextByte(s, c).s)
              /\ ~ Omittable(sc, Scan(sc, c))
              /\ Scan(sc, c).commits = (st = "sos_pm_apc_string")
  <2>1. Table[c][s.vt.state].state = to /\ Table[c][s.vt.state].state # "ground"
    OBVIOUS
  <2>2. /\ ScanOf(Scan(sc, c).s, NextByte(s, c).s)
        /\ Scan(sc, c).s.vt.state = Table[c][s.vt.state].state
        /\ Scan(sc, c).commits = Commits(ParserNext(sc.vt, c).acts)
        /\ Scan(sc, c).s = [vt |-> ParserNext(sc.vt, c).p, utf8 |-> sc.utf8]
    BY <1>11, <2>1, ScanSequence
  <2>3. PICK e : /\ ParserNext(sc.vt, c).acts = <<x, <<>>, e>>
                 /\ e = <<>> \/ \E a : a[1] \in Begins /\ e = <<a>>
    BY <1>1, <1>3, <1>4, <1>11 DEF ScanOf
  <2>4. e = <<>> \/ e[1][1] \in Builds
    <3>1. ASSUME NEW a, a[1] \in Begins, e = <<a>>
          PROVE  e[1][1] \in Builds
      BY <3>1 DEF Begins, Builds
    <3>2. QED
      BY <2>3, <3>1
  <2>5. Commits(<<x, <<>>, e>>) = (x # <<>> /\ x[1][1] \notin Builds)
    BY <2>4, CommitsOf
  <2>6. (x # <<>> /\ x[1][1] \notin Builds) = (st = "sos_pm_apc_string")
    <3>1. <<CutOff>> # <<>> /\ <<CutOff>>[1][1] \notin Builds
      BY DEF CutOff, Builds
    <3>2. QED
      BY <1>5, <3>1
  <2>7. ~ Omittable(sc, Scan(sc, c))
    BY <1>1, <1>11, <2>1, <2>2 DEF Omittable, ScanOf
  <2>8. QED
    BY <2>2, <2>3, <2>5, <2>6, <2>7
<1>12. QED
  BY <1>9, <1>10, <1>11 DEF Keeps

(* A byte within an unfinished sequence, other than the ESC that starts    *)
(* another: it is written again, or it is a control that changes nothing.  *)
LEMMA SequenceScan ==
    ASSUME NEW s, NEW c \in Bytes \ {Esc}, StreamInv(s), s.vt.state # "ground",
           NextByte(s, c).s.vt.state # "ground"
    PROVE  Keeps(s, c) \/ Omits(s, c)
<1>1. PICK st, to, action : /\ st = s.vt.state /\ to = Table[c][st].state
                            /\ action = Table[c][st].action
  OBVIOUS
<1>2. st \in States \ {"ground"} /\ c \in Bytes
  BY <1>1 DEF StreamInv, ParserInv, ParserOK
<1>3. RowFacts(st, c, to, action)
  BY <1>1, <1>2, RowsBuild
<1>4. to # "ground"
  BY <1>1, <1>2, ByteIsTabled
<1>5. Table[c][st] = [state |-> to, action |-> action]
  <2>1. \E a, b : Table[c][st] = [state |-> a, action |-> b]
    BY <1>2, TableOK
  <2>2. QED
    BY <1>1, <2>1
<1>6. /\ to \in States \ {"ground"}
      /\ action \in Actions \ {"print", "esc_dispatch", "csi_dispatch"}
      /\ action = "execute" => to = st /\ c \in C0
      /\ to # st => c # 156 /\ st \notin {"osc_string", "dcs_passthrough"} /\ action \notin Puts
  BY <1>3, <1>4 DEF RowFacts
<1>7. CASE action = "execute"
  BY <1>1, <1>2, <1>5, <1>6, <1>7, ControlOmitted
<1>8. CASE action # "execute" /\ to = st
  BY <1>1, <1>2, <1>5, <1>6, <1>8, StayKept
<1>9. CASE action # "execute" /\ to # st
  BY <1>1, <1>2, <1>5, <1>6, <1>9, MoveKept
<1>10. QED
  BY <1>7, <1>8, <1>9

-----------------------------------------------------------------------------
(* The decoder, between two bytes: what it has of a code point is no small *)
(* number, so that no ill-formed sequence yields an ESC.                   *)

(* How many bytes more a state takes, at most: those of the code point.    *)
More == [d \in DOMAIN Rows |-> CASE d = Accept -> 0
                                 [] d = 24 -> 1
                                 [] d \in {36, 48, 60} -> 2
                                 [] OTHER -> 3]

DecoderInv(d) ==
    /\ d.state \in DOMAIN Rows
    /\ d.state = Accept => d = Decoder
    /\ d.state # Accept => d = [state |-> d.state, acc |-> d.acc] /\ d.acc \in Nat
    /\ d.state \in {24, 36, 60, 84, 96} => d.acc > 0

Goes(rows, k, to) ==
    \/ \E r \in rows : k \in r[1] /\ to = r[2]
    \/ (\A r \in rows : k \notin r[1]) /\ to = Reject

LEMMA TransitionBy ==
    ASSUME NEW s \in DOMAIN Rows, NEW k \in 0..11
    PROVE  Goes(Rows[s], k, Transitions[s][k])
<1>1. CASE \E r \in Rows[s] : k \in r[1]
  <2>1. PICK row : row = CHOOSE r \in Rows[s] : k \in r[1]
    OBVIOUS
  <2>2. row \in Rows[s] /\ k \in row[1]
    BY <1>1, <2>1
  <2>3. Transitions[s][k] = row[2]
    BY <1>1, <2>1 DEF Transitions
  <2>4. QED
    BY <2>2, <2>3 DEF Goes
<1>2. CASE \A r \in Rows[s] : k \notin r[1]
  BY <1>2 DEF Transitions, Goes
<1>3. QED
  BY <1>1, <1>2

LEMMA RestStates == Accept \in DOMAIN Rows /\ DOMAIN Rows = {0, 24, 36, 48, 60, 72, 84, 96}
  BY DEF Rows, Accept

LEMMA FromRest ==
    /\ Transitions[Accept][0] = Accept /\ Transitions[Accept][2] = 24
    /\ Transitions[Accept][3] = 36 /\ Transitions[Accept][4] = 60
    /\ Transitions[Accept][5] = 96 /\ Transitions[Accept][6] = 84
    /\ Transitions[Accept][10] = 48 /\ Transitions[Accept][11] = 72
    /\ \A k \in {1, 7, 8, 9} : Transitions[Accept][k] = Reject
<1>1. PICK A : A = Rows[Accept]
  OBVIOUS
<1>2. A = {<<{0}, Accept>>, <<{2}, 24>>, <<{3}, 36>>, <<{4}, 60>>,
           <<{5}, 96>>, <<{6}, 84>>, <<{10}, 48>>, <<{11}, 72>>}
  BY <1>1 DEF Rows, Accept
<1>3. \A k \in {0, 2, 3, 4, 5, 6, 10, 11} : \E r \in A : k \in r[1]
  BY <1>2
<1>4. \A r \in A : /\ 0 \in r[1] => r[2] = Accept
                   /\ 2 \in r[1] => r[2] = 24
                   /\ 3 \in r[1] => r[2] = 36
                   /\ 4 \in r[1] => r[2] = 60
                   /\ 5 \in r[1] => r[2] = 96
                   /\ 6 \in r[1] => r[2] = 84
                   /\ 10 \in r[1] => r[2] = 48
                   /\ 11 \in r[1] => r[2] = 72
                   /\ r[1] \cap {1, 7, 8, 9} = {}
  BY <1>2
<1>5. ASSUME NEW k \in {0, 2, 3, 4, 5, 6, 10, 11}
      PROVE  \E r \in A : k \in r[1] /\ Transitions[Accept][k] = r[2]
  <2>1. Accept \in DOMAIN Rows /\ k \in 0..11
    BY RestStates
  <2>2. Goes(Rows[Accept], k, Transitions[Accept][k])
    BY <2>1, TransitionBy
  <2>3. QED
    BY <1>1, <1>3, <2>2 DEF Goes
<1>6. ASSUME NEW k \in {1, 7, 8, 9}
      PROVE  Transitions[Accept][k] = Reject
  <2>1. \A r \in A : k \notin r[1]
    BY <1>4
  <2>2. Accept \in DOMAIN Rows /\ k \in 0..11
    BY RestStates
  <2>3. Goes(Rows[Accept], k, Transitions[Accept][k])
    BY <2>2, TransitionBy
  <2>4. QED
    BY <1>1, <2>1, <2>3 DEF Goes
<1>7. QED
  BY <1>4, <1>5, <1>6

LEMMA FromMiddles ==
    ASSUME NEW k \in 0..11
    PROVE  /\ Transitions[24][k] = IF k \in {1, 7, 9} THEN Accept ELSE Reject
           /\ Transitions[36][k] = IF k \in {1, 7, 9} THEN 24 ELSE Reject
           /\ Transitions[48][k] = IF k \in {7} THEN 24 ELSE Reject
           /\ Transitions[60][k] = IF k \in {1, 9} THEN 24 ELSE Reject
           /\ Transitions[72][k] = IF k \in {7, 9} THEN 36 ELSE Reject
           /\ Transitions[84][k] = IF k \in {1, 7, 9} THEN 36 ELSE Reject
           /\ Transitions[96][k] = IF k \in {1} THEN 36 ELSE Reject
<1>1. /\ Rows[24] = {<<{1, 7, 9}, Accept>>} /\ Rows[36] = {<<{1, 7, 9}, 24>>}
      /\ Rows[48] = {<<{7}, 24>>} /\ Rows[60] = {<<{1, 9}, 24>>}
      /\ Rows[72] = {<<{7, 9}, 36>>} /\ Rows[84] = {<<{1, 7, 9}, 36>>}
      /\ Rows[96] = {<<{1}, 36>>}
  BY DEF Rows, Accept
<1>2. {24, 36, 48, 60, 72, 84, 96} \subseteq DOMAIN Rows \ {Accept}
  BY RestStates DEF Accept
<1>3. /\ Goes(Rows[24], k, Transitions[24][k]) /\ Goes(Rows[36], k, Transitions[36][k])
      /\ Goes(Rows[48], k, Transitions[48][k]) /\ Goes(Rows[60], k, Transitions[60][k])
      /\ Goes(Rows[72], k, Transitions[72][k]) /\ Goes(Rows[84], k, Transitions[84][k])
      /\ Goes(Rows[96], k, Transitions[96][k])
  BY <1>2, TransitionBy
<1>4. Transitions[24][k] = IF k \in {1, 7, 9} THEN Accept ELSE Reject
  BY <1>1, <1>3 DEF Goes
<1>5. Transitions[36][k] = IF k \in {1, 7, 9} THEN 24 ELSE Reject
  BY <1>1, <1>3 DEF Goes
<1>6. Transitions[48][k] = IF k \in {7} THEN 24 ELSE Reject
  BY <1>1, <1>3 DEF Goes
<1>7. Transitions[60][k] = IF k \in {1, 9} THEN 24 ELSE Reject
  BY <1>1, <1>3 DEF Goes
<1>8. Transitions[72][k] = IF k \in {7, 9} THEN 36 ELSE Reject
  BY <1>1, <1>3 DEF Goes
<1>9. Transitions[84][k] = IF k \in {1, 7, 9} THEN 36 ELSE Reject
  BY <1>1, <1>3 DEF Goes
<1>10. Transitions[96][k] = IF k \in {1} THEN 36 ELSE Reject
  BY <1>1, <1>3 DEF Goes
<1>11. QED
  BY <1>4, <1>5, <1>6, <1>7, <1>8, <1>9, <1>10

(* Which bytes are of which class.                                         *)
LEMMA ClassBytes ==
    ASSUME NEW b \in Bytes
    PROVE  /\ b < 128 => Class[b] = 0
           /\ b \in 128..143 => Class[b] = 1
           /\ b \in 144..159 => Class[b] = 9
           /\ b \in 160..191 => Class[b] = 7
           /\ b \in {192, 193} \/ b >= 245 => Class[b] = 8
           /\ b \in 194..223 => Class[b] = 2
           /\ b = 224 => Class[b] = 10
           /\ b = 237 => Class[b] = 4
           /\ b \in 225..239 \ {237} => Class[b] = 3
           /\ b = 240 => Class[b] = 11
           /\ b \in 241..243 => Class[b] = 6
           /\ b = 244 => Class[b] = 5
<1>1. b \in 0..255
  BY DEF Bytes
<1>2. b < 128 => Class[b] = 0
  BY <1>1 DEF Class
<1>3. b \in 128..143 => Class[b] = 1
  BY <1>1 DEF Class
<1>4. b \in 144..159 => Class[b] = 9
  BY <1>1 DEF Class
<1>5. b \in 160..191 => Class[b] = 7
  BY <1>1 DEF Class
<1>6. b \in {192, 193} \/ b >= 245 => Class[b] = 8
  BY <1>1 DEF Class
<1>7. b \in 194..223 => Class[b] = 2
  BY <1>1 DEF Class
<1>8. b = 224 => Class[b] = 10
  BY <1>1 DEF Class
<1>9. b = 237 => Class[b] = 4
  BY <1>1 DEF Class
<1>10. b \in 225..239 \ {237} => Class[b] = 3
  BY <1>1 DEF Class
<1>11. b = 240 => Class[b] = 11
  BY <1>1 DEF Class
<1>12. b \in 241..243 => Class[b] = 6
  BY <1>1 DEF Class
<1>13. b = 244 => Class[b] = 5
  BY <1>1 DEF Class
<1>14. QED
  BY <1>2, <1>3, <1>4, <1>5, <1>6, <1>7, <1>8, <1>9, <1>10, <1>11, <1>12, <1>13

(* The decoder gives a byte: what follows is pending, with nothing told.   *)
Waits(n) ==
    /\ n.out = <<>> /\ n.used /\ DecoderInv(n.d) /\ n.d.state # Accept
    /\ More[n.d.state] \in 1..3

LEMMA MoreOf ==
    /\ More[Accept] = 0 /\ More[24] = 1 /\ More[36] = 2 /\ More[48] = 2 /\ More[60] = 2
    /\ More[72] = 3 /\ More[84] = 3 /\ More[96] = 3
  BY RestStates DEF More, Accept

LEMMA MoreBounds ==
    ASSUME NEW s \in DOMAIN Rows
    PROVE  More[s] \in 0..3 /\ (s # Accept => More[s] >= 1)
  BY RestStates, MoreOf DEF Accept

LEMMA WaitsBy ==
    ASSUME NEW n, NEW state \in DOMAIN Rows, state \notin {Accept, Reject}, NEW acc \in Nat,
           state \in {24, 36, 60, 84, 96} => acc > 0,
           n = [d |-> [state |-> state, acc |-> acc], out |-> <<>>, used |-> TRUE]
    PROVE  Waits(n) /\ n.d.state = state
<1>1. PICK d : d = [state |-> state, acc |-> acc]
  OBVIOUS
<1>2. d.state = state /\ d.acc = acc
  BY <1>1
<1>3. DecoderInv(d)
  BY <1>1, <1>2 DEF DecoderInv
<1>4. n.d = d /\ n.out = <<>> /\ n.used = TRUE
  BY <1>1
<1>5. More[state] \in 1..3
  BY MoreBounds
<1>6. QED
  BY <1>2, <1>3, <1>4, <1>5 DEF Waits

LEMMA RestStep ==
    ASSUME NEW d, d.state = Accept, NEW c \in Bytes
    PROVE  \/ c < 128 /\ DecoderNext(d, c) = [d |-> Decoder, out |-> <<c>>, used |-> TRUE]
           \/ /\ c >= 128
              /\ DecoderNext(d, c) = [d |-> Decoder, out |-> <<Replacement>>, used |-> TRUE]
           \/ c \in 192..255 /\ Waits(DecoderNext(d, c))
<1>1. PICK n : n = DecoderNext(d, c)
  OBVIOUS
<1>2. c \in 0..255
  BY DEF Bytes
<1>3. PICK k, acc, to : /\ k = Class[c] /\ acc = c % (IF k < 8 THEN 2 ^ (8 - k) ELSE 1)
                       /\ to = Transitions[Accept][k]
  OBVIOUS
<1>4. /\ to = Accept => n = [d |-> Decoder, out |-> <<acc>>, used |-> TRUE]
      /\ to = Reject => n = [d |-> Decoder, out |-> <<Replacement>>, used |-> TRUE]
      /\ to \notin {Accept, Reject} =>
            n = [d |-> [state |-> to, acc |-> acc], out |-> <<>>, used |-> TRUE]
  <2>1. n = CASE to = Accept -> [d |-> Decoder, out |-> <<acc>>, used |-> TRUE]
              [] to = Reject -> [d |-> Decoder, out |-> <<Replacement>>,
                                 used |-> d.state = Accept]
              [] OTHER -> [d |-> [state |-> to, acc |-> acc], out |-> <<>>, used |-> TRUE]
    BY <1>1, <1>3 DEF DecoderNext
  <2>2. Accept # Reject /\ (d.state = Accept) = TRUE
    BY DEF Accept, Reject
  <2>3. QED
    BY <2>1, <2>2
<1>5. CASE c < 128
  <2>1. k = 0
    BY <1>5, <1>3, ClassBytes
  <2>2. acc = c
    BY <1>2, <1>3, <1>5, <2>1
  <2>3. QED
    BY <1>1, <1>4, <1>5, <2>1, <2>2, <1>3, FromRest
<1>6. CASE c \in 128..193 \/ c >= 245
  <2>1. k \in {1, 7, 8, 9}
    <3>1. c \in 128..143 \/ c \in 144..159 \/ c \in 160..191 \/ c \in {192, 193} \/ c >= 245
      BY <1>2, <1>6
    <3>2. QED
      BY <1>3, <3>1, ClassBytes
  <2>2. to = Reject
    BY <1>3, <2>1, FromRest
  <2>3. c >= 128
    BY <1>2, <1>6
  <2>4. QED
    BY <1>1, <1>4, <2>2, <2>3
<1>7. CASE c \in 194..244
  <2>1. \E state \in DOMAIN Rows \ {Accept, Reject}, a \in Nat :
           /\ state \in {24, 36, 60, 84, 96} => a > 0
           /\ n = [d |-> [state |-> state, acc |-> a], out |-> <<>>, used |-> TRUE]
    <3>1. \A t \in {24, 36, 48, 60, 72, 84, 96} : t \in DOMAIN Rows \ {Accept, Reject}
      BY RestStates DEF Accept, Reject
    <3>2. CASE c \in 194..223
      <4>1. k = 2 /\ acc \in Nat /\ acc > 0
        <5>1. k = 2
          BY <3>2, <1>3, ClassBytes
        <5>2. acc = c % 64
          BY <1>3, <5>1
        <5>3. QED
          BY <3>2, <5>1, <5>2
      <4>2. QED
        BY <1>4, <3>1, <4>1, <1>3, FromRest
    <3>3. CASE c = 224
      <4>1. k = 10 /\ acc \in Nat
        BY <1>2, <3>3, <1>3, ClassBytes
      <4>2. QED
        BY <1>4, <3>1, <4>1, <1>3, FromRest
    <3>4. CASE c \in 225..239 \ {237}
      <4>1. k = 3 /\ acc \in Nat /\ acc > 0
        <5>1. k = 3
          BY <3>4, <1>3, ClassBytes
        <5>2. acc = c % 32
          BY <1>3, <5>1
        <5>3. QED
          BY <3>4, <5>1, <5>2
      <4>2. QED
        BY <1>4, <3>1, <4>1, <1>3, FromRest
    <3>5. CASE c = 237
      <4>1. k = 4 /\ acc \in Nat /\ acc > 0
        <5>1. k = 4
          BY <3>5, <1>3, ClassBytes
        <5>2. acc = c % 16
          BY <1>3, <5>1
        <5>3. QED
          BY <3>5, <5>1, <5>2
      <4>2. QED
        BY <1>4, <3>1, <4>1, <1>3, FromRest
    <3>6. CASE c = 240
      <4>1. k = 11 /\ acc \in Nat
        BY <1>2, <3>6, <1>3, ClassBytes
      <4>2. QED
        BY <1>4, <3>1, <4>1, <1>3, FromRest
    <3>7. CASE c \in 241..243
      <4>1. k = 6 /\ acc \in Nat /\ acc > 0
        <5>1. k = 6
          BY <3>7, <1>3, ClassBytes
        <5>2. acc = c % 4
          BY <1>3, <5>1
        <5>3. QED
          BY <3>7, <5>1, <5>2
      <4>2. QED
        BY <1>4, <3>1, <4>1, <1>3, FromRest
    <3>8. CASE c = 244
      <4>1. k = 5 /\ acc \in Nat /\ acc > 0
        <5>1. k = 5
          BY <3>8, <1>3, ClassBytes
        <5>2. acc = c % 8
          BY <1>3, <5>1
        <5>3. QED
          BY <3>8, <5>1, <5>2
      <4>2. QED
        BY <1>4, <3>1, <4>1, <1>3, FromRest
    <3>9. QED
      BY <1>7, <3>2, <3>3, <3>4, <3>5, <3>6, <3>7, <3>8
  <2>2. Waits(n)
    BY <2>1, WaitsBy
  <2>3. QED
    BY <1>1, <1>7, <2>2
<1>8. QED
  BY <1>2, <1>5, <1>6, <1>7

LEMMA MiddleStep ==
    ASSUME NEW d, DecoderInv(d), d.state # Accept, NEW c \in Bytes
    PROVE  \/ DecoderNext(d, c) = [d |-> Decoder, out |-> <<Replacement>>, used |-> FALSE]
           \/ \E cp : /\ cp # Esc
                     /\ DecoderNext(d, c) = [d |-> Decoder, out |-> <<cp>>, used |-> TRUE]
           \/ /\ c \in 128..191 /\ Waits(DecoderNext(d, c))
              /\ More[DecoderNext(d, c).d.state] = More[d.state] - 1
<1>1. PICK n : n = DecoderNext(d, c)
  OBVIOUS
<1>2. c \in 0..255
  BY DEF Bytes
<1>3. PICK k, acc, to : /\ k = Class[c] /\ acc = 64 * d.acc + (c % 64)
                       /\ to = Transitions[d.state][k]
  OBVIOUS
<1>4. k \in 0..11
  BY <1>3, Classes
<1>5. /\ to = Accept => n = [d |-> Decoder, out |-> <<acc>>, used |-> TRUE]
      /\ to = Reject => n = [d |-> Decoder, out |-> <<Replacement>>, used |-> FALSE]
      /\ to \notin {Accept, Reject} =>
            n = [d |-> [state |-> to, acc |-> acc], out |-> <<>>, used |-> TRUE]
  <2>1. n = CASE to = Accept -> [d |-> Decoder, out |-> <<acc>>, used |-> TRUE]
              [] to = Reject -> [d |-> Decoder, out |-> <<Replacement>>,
                                 used |-> d.state = Accept]
              [] OTHER -> [d |-> [state |-> to, acc |-> acc], out |-> <<>>, used |-> TRUE]
    BY <1>1, <1>3 DEF DecoderNext
  <2>2. Accept # Reject /\ (d.state = Accept) = FALSE
    BY DEF Accept, Reject
  <2>3. QED
    BY <2>1, <2>2
<1>6. d.state \in {24, 36, 48, 60, 72, 84, 96} /\ d.acc \in Nat
      /\ (d.state \in {24, 36, 60, 84, 96} => d.acc > 0)
  BY RestStates DEF DecoderInv, Accept
<1>7. acc \in Nat /\ (d.state \in {24, 36, 60, 84, 96} => acc >= 64)
  BY <1>2, <1>3, <1>6
<1>8. /\ d.state = 24 => to = (IF k \in {1, 7, 9} THEN Accept ELSE Reject)
      /\ d.state = 36 => to = (IF k \in {1, 7, 9} THEN 24 ELSE Reject)
      /\ d.state = 48 => to = (IF k \in {7} THEN 24 ELSE Reject)
      /\ d.state = 60 => to = (IF k \in {1, 9} THEN 24 ELSE Reject)
      /\ d.state = 72 => to = (IF k \in {7, 9} THEN 36 ELSE Reject)
      /\ d.state = 84 => to = (IF k \in {1, 7, 9} THEN 36 ELSE Reject)
      /\ d.state = 96 => to = (IF k \in {1} THEN 36 ELSE Reject)
  BY <1>3, <1>4, FromMiddles
<1>9. CASE to = Reject
  BY <1>1, <1>5, <1>9
<1>10. CASE to = Accept
  <2>1. d.state = 24
    BY <1>6, <1>8, <1>10 DEF Accept, Reject
  <2>2. acc # Esc
    BY <1>7, <2>1 DEF Esc
  <2>3. QED
    BY <1>1, <1>5, <1>10, <2>2
<1>11. CASE to \notin {Accept, Reject}
  <2>1. /\ k \in {1, 7, 9} /\ to \in {24, 36}
        /\ d.state = 48 => k = 7 /\ to = 24
        /\ d.state = 72 => k \in {7, 9} /\ to = 36
        /\ d.state \in {36, 60} => to = 24
        /\ d.state \in {84, 96} => to = 36
        /\ d.state # 24
    BY <1>6, <1>8, <1>11
  <2>2. c \in 128..191
    BY <1>3, <2>1, Classes
  <2>3. acc > 0
    <3>1. CASE d.state = 48
      <4>1. c \in 160..191
        <5>1. c \notin 128..143 /\ c \notin 144..159
          BY <1>3, <2>1, <3>1, ClassBytes
        <5>2. QED
          BY <2>2, <5>1
      <4>2. QED
        BY <1>3, <1>6, <4>1
    <3>2. CASE d.state = 72
      <4>1. c \in 144..191
        <5>1. c \notin 128..143
          BY <1>3, <2>1, <3>2, ClassBytes
        <5>2. QED
          BY <2>2, <5>1
      <4>2. QED
        BY <1>3, <1>6, <4>1
    <3>3. QED
      BY <1>6, <1>7, <2>1, <3>1, <3>2
  <2>4. to \in DOMAIN Rows
    BY <2>1, RestStates
  <2>5. Waits(n) /\ n.d.state = to
    BY <1>5, <1>7, <1>11, <2>3, <2>4, WaitsBy
  <2>6. More[to] = More[d.state] - 1
    BY <1>6, <2>1, MoreOf
  <2>7. QED
    BY <1>1, <2>2, <2>5, <2>6
<1>12. QED
  BY <1>9, <1>10, <1>11

(* A stream in text: nothing is pending, or part of a code point.          *)
Text(d) == [vt |-> Parser, utf8 |-> d]

LEMMA FreshIsText == Fresh = Text(Decoder) /\ Fresh.vt = Parser /\ Fresh.utf8 = Decoder
                     /\ Fresh.vt.state = "ground" /\ Fresh.utf8.state = Accept
  BY DEF Fresh, Text, Parser, Decoder

LEMMA OfferWaits ==
    ASSUME NEW d, NEW c, Waits(DecoderNext(d, c))
    PROVE  Offer(Text(d), c) = Outcome(Text(DecoderNext(d, c).d), <<>>)
<1>1. PICK n : n = DecoderNext(d, c)
  OBVIOUS
<1>2. PICK s : s = Text(d)
  OBVIOUS
<1>3. s.utf8 = d /\ [s EXCEPT !.utf8 = n.d] = Text(n.d)
  BY <1>2 DEF Text
<1>4. Offer(s, c) = HandleCodepoints(Text(n.d), n.out)
  BY <1>1, <1>3 DEF Offer, Decoded
<1>5. n.out = <<>>
  BY <1>1 DEF Waits
<1>6. HandleCodepoints(Text(n.d), <<>>) = Outcome(Text(n.d), <<>>)
  BY DEF HandleCodepoints
<1>7. QED
  BY <1>1, <1>2, <1>4, <1>5, <1>6

LEMMA OfferTells ==
    ASSUME NEW d, NEW c, NEW cp, NEW used,
           DecoderNext(d, c) = [d |-> Decoder, out |-> <<cp>>, used |-> used]
    PROVE  /\ Inert(Offer(Text(d), c).acts)
           /\ cp # Esc => Offer(Text(d), c).s = Fresh
           /\ cp = Esc => Offer(Text(d), c) = Outcome(Escaped, <<>>)
<1>1. PICK n : n = DecoderNext(d, c)
  OBVIOUS
<1>2. PICK s : s = Text(d)
  OBVIOUS
<1>3. n.d = Decoder /\ n.out = <<cp>>
  BY <1>1
<1>4. s.utf8 = d /\ [s EXCEPT !.utf8 = n.d] = Fresh
  BY <1>2, <1>3, FreshIsText DEF Text
<1>5. Offer(s, c) = HandleCodepoints(Fresh, n.out)
  BY <1>1, <1>4 DEF Offer, Decoded
<1>6. PICK cps : cps = <<cp>> /\ cps # <<>> /\ cps[1] = cp
  OBVIOUS
<1>7. Offer(s, c) = HandleCodepoints(Fresh, cps)
  BY <1>3, <1>5, <1>6
<1>8. CASE cp = Esc
  <2>1. HandleCodepoints(Fresh, cps) = Outcome(StartEscape(Fresh), <<>>)
    BY <1>6, <1>8 DEF HandleCodepoints
  <2>2. StartEscape(Fresh) = Escaped
    <3>1. Fresh = [vt |-> Fresh.vt, utf8 |-> Decoder]
      BY DEF Fresh
    <3>2. QED
      BY <3>1, StartsEscaped
  <2>3. Outcome(Escaped, <<>>).acts = <<>>
    BY DEF Outcome
  <2>4. QED
    BY <1>2, <1>7, <1>8, <2>1, <2>2, <2>3, NoneInert
<1>9. CASE cp # Esc
  <2>1. HandleCodepoints(Fresh, cps) = Outcome(Fresh, CodepointActs(cp))
    BY <1>6, <1>9 DEF HandleCodepoints
  <2>2. Outcome(Fresh, CodepointActs(cp)).s = Fresh
        /\ Outcome(Fresh, CodepointActs(cp)).acts = CodepointActs(cp)
    BY DEF Outcome
  <2>3. QED
    BY <1>2, <1>7, <1>9, <2>1, <2>2, TextInert
<1>10. QED
  BY <1>8, <1>9

(* A byte of text, offered at rest.                                        *)
ToldAtRest(r, c) ==
    /\ Inert(r.acts)
    /\ \/ r.s = Fresh
       \/ c = Esc /\ r = Outcome(Escaped, <<>>)
       \/ /\ c \in 192..255
          /\ r = Outcome(Text(DecoderNext(Decoder, c).d), <<>>)
          /\ Waits(DecoderNext(Decoder, c))

LEMMA OfferedAtRest ==
    ASSUME NEW c \in Bytes
    PROVE  ToldAtRest(Offer(Fresh, c), c)
<1>1. Decoder.state = Accept /\ Fresh = Text(Decoder)
  BY FreshIsText DEF Decoder
<1>2. CASE c < 128 /\ DecoderNext(Decoder, c) = [d |-> Decoder, out |-> <<c>>, used |-> TRUE]
  <2>1. /\ Inert(Offer(Text(Decoder), c).acts)
        /\ c # Esc => Offer(Text(Decoder), c).s = Fresh
        /\ c = Esc => Offer(Text(Decoder), c) = Outcome(Escaped, <<>>)
    BY <1>2, OfferTells
  <2>2. QED
    BY <1>1, <2>1 DEF ToldAtRest
<1>3. CASE DecoderNext(Decoder, c) = [d |-> Decoder, out |-> <<Replacement>>, used |-> TRUE]
  <2>1. Replacement # Esc
    BY DEF Replacement, Esc
  <2>2. Inert(Offer(Text(Decoder), c).acts) /\ Offer(Text(Decoder), c).s = Fresh
    BY <1>3, <2>1, OfferTells
  <2>3. QED
    BY <1>1, <2>2 DEF ToldAtRest
<1>4. CASE c \in 192..255 /\ Waits(DecoderNext(Decoder, c))
  <2>1. Offer(Text(Decoder), c) = Outcome(Text(DecoderNext(Decoder, c).d), <<>>)
    BY <1>4, OfferWaits
  <2>2. Outcome(Text(DecoderNext(Decoder, c).d), <<>>).acts = <<>>
    BY DEF Outcome
  <2>3. QED
    BY <1>1, <1>4, <2>1, <2>2, NoneInert DEF ToldAtRest
<1>5. QED
  BY <1>1, <1>2, <1>3, <1>4, RestStep

(* A byte of text: it ends what is pending or starts afresh, or it         *)
(* continues a code point.                                                 *)
Continues(d, c, r) ==
    /\ c \in 128..191 /\ d.state # Accept
    /\ Waits(DecoderNext(d, c)) /\ More[DecoderNext(d, c).d.state] = More[d.state] - 1
    /\ r = Outcome(Text(DecoderNext(d, c).d), <<>>)

Restarts(c, r) ==
    /\ Inert(r.acts)
    /\ \/ r.s = Fresh
       \/ c = Esc /\ r.s = Escaped
       \/ /\ c \in 192..255 /\ Waits(DecoderNext(Decoder, c))
          /\ r.s = Text(DecoderNext(Decoder, c).d)

LEMMA TextStep ==
    ASSUME NEW d, DecoderInv(d), NEW c \in Bytes
    PROVE  Continues(d, c, NextByte(Text(d), c)) \/ Restarts(c, NextByte(Text(d), c))
<1>1. PICK r : r = NextByte(Text(d), c)
  OBVIOUS
<1>2. Text(d).vt.state = "ground" /\ Text(d).utf8 = d
  BY DEF Text, Parser
<1>3. r = NextUtf8(Text(d), c)
  BY <1>1, <1>2 DEF NextByte
<1>4. /\ DecoderNext(d, c).used => r = Offer(Text(d), c)
      /\ ~ DecoderNext(d, c).used => r = OfferAgain(Offer(Text(d), c), c)
  BY <1>2, <1>3 DEF NextUtf8
<1>5. ASSUME NEW q, ToldAtRest(q, c)
      PROVE  Restarts(c, q)
  <2>1. \A s, acts : Outcome(s, acts).s = s
    BY DEF Outcome
  <2>2. QED
    BY <1>5, <2>1 DEF ToldAtRest, Restarts
<1>6. CASE d.state = Accept
  <2>1. d = Decoder /\ Text(d) = Fresh
    BY <1>6, FreshIsText DEF DecoderInv
  <2>2. DecoderNext(d, c).used
    BY <1>6, DecoderOK DEF DecoderInv
  <2>3. ToldAtRest(r, c)
    BY <1>4, <2>1, <2>2, OfferedAtRest
  <2>4. QED
    BY <1>1, <1>5, <2>3
<1>7. CASE d.state # Accept
  <2>1. CASE DecoderNext(d, c) = [d |-> Decoder, out |-> <<Replacement>>, used |-> FALSE]
    <3>1. Replacement # Esc
      BY DEF Replacement, Esc
    <3>2. PICK n : n = Offer(Text(d), c)
      OBVIOUS
    <3>3. Inert(n.acts) /\ n.s = Fresh
      BY <2>1, <3>1, <3>2, OfferTells
    <3>4. r = Then(n.acts, Offer(Fresh, c))
      BY <1>4, <2>1, <3>2, <3>3 DEF OfferAgain
    <3>5. ToldAtRest(Offer(Fresh, c), c)
      BY OfferedAtRest
    <3>6. Restarts(c, Offer(Fresh, c))
      BY <1>5, <3>5
    <3>7. PICK o : o = Offer(Fresh, c)
      OBVIOUS
    <3>8. \E s, acts : o = Outcome(s, acts)
      <4>1. \E t, cps : o = HandleCodepoints(t, cps)
        BY <3>7 DEF Offer, Decoded
      <4>2. QED
        BY <4>1 DEF HandleCodepoints
    <3>9. r.s = o.s /\ r.acts = n.acts \o o.acts
      BY <3>4, <3>7, <3>8 DEF Then, Outcome
    <3>10. Inert(r.acts)
      BY <3>3, <3>6, <3>7, <3>9, JoinInert DEF Restarts
    <3>11. QED
      BY <1>1, <3>6, <3>7, <3>9, <3>10 DEF Restarts
  <2>2. ASSUME NEW cp, cp # Esc, DecoderNext(d, c) = [d |-> Decoder, out |-> <<cp>>, used |-> TRUE]
        PROVE  Restarts(c, r)
    <3>1. Inert(Offer(Text(d), c).acts) /\ Offer(Text(d), c).s = Fresh
      BY <2>2, OfferTells
    <3>2. QED
      BY <1>4, <2>2, <3>1 DEF Restarts
  <2>3. CASE /\ c \in 128..191 /\ Waits(DecoderNext(d, c))
             /\ More[DecoderNext(d, c).d.state] = More[d.state] - 1
    <3>1. r = Outcome(Text(DecoderNext(d, c).d), <<>>)
      BY <1>4, <2>3, OfferWaits DEF Waits
    <3>2. QED
      BY <1>1, <1>7, <2>3, <3>1 DEF Continues
  <2>4. QED
    BY <1>1, <1>7, <2>1, <2>2, <2>3, MiddleStep
<1>8. QED
  BY <1>6, <1>7

-----------------------------------------------------------------------------
(* Byte after byte *)

IsOutcome(n) == n = [s |-> n.s, acts |-> n.acts]

LEMMA OutcomeIs ==
    ASSUME NEW s, NEW acts
    PROVE  IsOutcome(Outcome(s, acts))
  BY DEF IsOutcome, Outcome

LEMMA ThenIs ==
    ASSUME NEW acts, NEW n, IsOutcome(n)
    PROVE  /\ IsOutcome(Then(acts, n))
           /\ Then(acts, n).s = n.s /\ Then(acts, n).acts = acts \o n.acts
<1>1. Then(acts, n) = [s |-> n.s, acts |-> acts \o n.acts]
  <2>1. PICK s, a : s = n.s /\ a = n.acts
    OBVIOUS
  <2>2. n = [s |-> s, acts |-> a]
    BY <2>1 DEF IsOutcome
  <2>3. PICK b : b = acts \o a
    OBVIOUS
  <2>4. [n EXCEPT !.acts = b] = [s |-> s, acts |-> b]
    BY <2>2
  <2>5. Then(acts, n) = [n EXCEPT !.acts = b]
    BY <2>1, <2>3 DEF Then
  <2>6. Then(acts, n) = [s |-> s, acts |-> acts \o a]
    BY <2>3, <2>4, <2>5
  <2>7. QED
    BY <2>1, <2>6
<1>2. QED
  BY <1>1 DEF IsOutcome

LEMMA ByteIsOutcome ==
    ASSUME NEW s, NEW c \in Bytes
    PROVE  IsOutcome(NextByte(s, c))
<1>1. CASE s.vt.state = "ground"
  <2>1. ASSUME NEW t
        PROVE  IsOutcome(Offer(t, c))
    <3>1. PICK u, cps : Offer(t, c) = HandleCodepoints(u, cps)
      BY DEF Offer, Decoded
    <3>2. PICK v, acts : HandleCodepoints(u, cps) = Outcome(v, acts)
      BY DEF HandleCodepoints
    <3>3. QED
      BY <3>1, <3>2, OutcomeIs
  <2>2. ASSUME NEW n
        PROVE  IsOutcome(OfferAgain(n, c))
    BY <2>1, ThenIs DEF OfferAgain
  <2>3. QED
    BY <1>1, <2>1, <2>2 DEF NextByte, NextUtf8
<1>2. CASE s.vt.state # "ground"
  <2>1. NextByte(s, c) = NextNonUtf8(s, c)
    BY <1>2 DEF NextByte
  <2>2. CASE s.vt.state = "escape" /\ c = 91
    <3>1. NextNonUtf8(s, 91) = Outcome(WithVt(s, [s.vt EXCEPT !.state = "csi_entry"]), <<>>)
      BY <2>2, EscapeArm
    <3>2. IsOutcome(NextNonUtf8(s, 91))
      BY <3>1, OutcomeIs
    <3>3. QED
      BY <2>1, <2>2, <3>2
  <2>3. CASE /\ s.vt.state = "csi_param"
             /\ c \in C0 \cup {24, 26, 127} \cup CsiParamBytes \cup Finals
    <3>1. \/ c < 16 \/ c \in (C0 \ 0..15) \cup {127} \/ c \in {24, 26} \/ c \in CsiParamBytes
          \/ c \in Finals
      BY <2>3 DEF C0
    <3>2. \/ NextNonUtf8(s, c) = Outcome(WithVt(s, s.vt), Execute(c))
          \/ NextNonUtf8(s, c) = Outcome(WithVt(s, s.vt), <<>>)
          \/ NextNonUtf8(s, c) = Outcome(WithVt(s, [s.vt EXCEPT !.state = "ground"]), <<>>)
          \/ NextNonUtf8(s, c) = Outcome(WithVt(s, CsiParam(s.vt, c)), <<>>)
          \/ NextNonUtf8(s, c) = Outcome(WithVt(s, CsiDispatchFinal(s.vt, c).p),
                                         CsiDispatchFinal(s.vt, c).acts)
      BY <2>3, <3>1, ParamArms
    <3>3. QED
      BY <2>1, <3>2, OutcomeIs
  <2>4. CASE s.vt.state = "csi_entry" /\ c \in CsiEntryBytes
    BY <2>1, <2>4, EntryArm, OutcomeIs
  <2>5. CASE /\ ~ (s.vt.state = "escape" /\ c = 91)
             /\ ~ (/\ s.vt.state = "csi_param"
                   /\ c \in C0 \cup {24, 26, 127} \cup CsiParamBytes \cup Finals)
             /\ ~ (s.vt.state = "csi_entry" /\ c \in CsiEntryBytes)
    <3>1. NextNonUtf8(s, c) = ByTable(s, c)
      BY <2>5, OtherArm
    <3>2. IsOutcome(ByTable(s, c))
      BY OutcomeIs DEF ByTable, Performed
    <3>3. QED
      BY <2>1, <3>1, <3>2
  <2>6. QED
    BY <2>2, <2>3, <2>4, <2>5
<1>3. QED
  BY <1>1, <1>2

LEMMA AndByteIs ==
    ASSUME NEW r, NEW c \in Bytes
    PROVE  /\ AndByte(r, c).s = NextByte(r.s, c).s
           /\ AndByte(r, c).acts = r.acts \o NextByte(r.s, c).acts
  BY ByteIsOutcome, ThenIs DEF AndByte

(* w takes a fresh stream to s, and does not do anything but build what is *)
(* held of a string, or cut one off.                                       *)
RebuiltBy(w, s, held) ==
    /\ NextBytes(Fresh, w).s = s
    /\ IsList(NextBytes(Fresh, w).acts)
    /\ Build(<<>>, NextBytes(Fresh, w).acts) = held
    /\ Told(NextBytes(Fresh, w).acts)
    /\ Scanned(w).written = w
    /\ Scanned(w).commits = Cut(NextBytes(Fresh, w).acts)
    /\ ScanOf(Scanned(w).s, s)

StartSet(s) == IF s.vt.state = "ground" THEN 192..255 ELSE {Esc}

Starts(w, S) == w # <<>> /\ w[1] \in S /\ \A i \in 2..Len(w) : w[i] \notin S

(* The bytes kept for a stream in state s, and what is written of them.    *)
Kept(bytes, s, held) ==
    /\ bytes \in Seq(Bytes) /\ Written(bytes) \in Seq(Bytes)
    /\ Len(Written(bytes)) <= Len(bytes)
    /\ ScanOf(Scanned(bytes).s, s)
    /\ RebuiltBy(Written(bytes), s, held)
    /\ Starts(Written(bytes), StartSet(s))

LEMMA FreshRebuilt == RebuiltBy(<<>>, Fresh, <<>>)
<1>1. NextBytes(Fresh, <<>>) = Outcome(Fresh, <<>>) /\ Scanned(<<>>) = Unscanned
  BY NextBytesNone, ScannedNone
<1>2. NextBytes(Fresh, <<>>).s = Fresh /\ NextBytes(Fresh, <<>>).acts = <<>>
  BY <1>1 DEF Outcome
<1>3. /\ Scanned(<<>>).s = Fresh /\ Scanned(<<>>).written = <<>>
      /\ Scanned(<<>>).commits = FALSE
  BY <1>1 DEF Unscanned
<1>4. Cut(<<>>) = FALSE
  BY ToldNone DEF Cut
<1>5. ScanOf(Fresh, Fresh)
  BY FreshOK DEF ScanOf, StreamInv, ParserInv
<1>6. QED
  BY <1>2, <1>3, <1>4, <1>5, NoneIsList, ToldNone, BuildNone DEF RebuiltBy

LEMMA RebuiltMore ==
    ASSUME NEW w \in Seq(Bytes), NEW c \in Bytes, NEW s, NEW held,
           RebuiltBy(w, s, held), Keeps(s, c)
    PROVE  RebuiltBy(Append(w, c), NextByte(s, c).s, Build(held, NextByte(s, c).acts))
<1>1. PICK r, n, more : r = NextBytes(Fresh, w) /\ n = NextByte(s, c) /\ more = Append(w, c)
  OBVIOUS
<1>2. r.s = s /\ IsList(r.acts) /\ Build(<<>>, r.acts) = held /\ Told(r.acts)
  BY <1>1 DEF RebuiltBy
<1>3. IsList(n.acts) /\ Told(n.acts)
  BY <1>1 DEF Keeps
<1>4. NextBytes(Fresh, more) = AndByte(r, c)
  BY <1>1, NextBytesMore
<1>5. NextBytes(Fresh, more).s = n.s /\ NextBytes(Fresh, more).acts = r.acts \o n.acts
  BY <1>1, <1>2, <1>4, AndByteIs
<1>6. IsList(r.acts \o n.acts)
  BY <1>2, <1>3, JoinIsList
<1>7. Build(<<>>, r.acts \o n.acts) = Build(held, n.acts)
  BY <1>2, <1>3, BuildJoin
<1>8. Told(r.acts \o n.acts) /\ Cut(r.acts \o n.acts) = (Cut(r.acts) \/ Cut(n.acts))
  BY <1>2, <1>3, ToldJoin
<1>9. PICK sc, m : sc = Scanned(w).s /\ m = Scan(sc, c)
  OBVIOUS
<1>10. Scanned(w).written = w /\ Scanned(w).commits = Cut(r.acts) /\ ScanOf(sc, s)
  BY <1>1, <1>9 DEF RebuiltBy
<1>11. ScanOf(m.s, n.s) /\ ~ Omittable(sc, m) /\ m.commits = Cut(n.acts)
  BY <1>1, <1>9, <1>10 DEF Keeps
<1>12. Scanned(more) = AndScan(Scanned(w), c)
  BY <1>1, ScannedMore
<1>13. AndScan(Scanned(w), c) = [s |-> m.s, commits |-> Scanned(w).commits \/ m.commits,
                                 written |-> Append(w, c)]
  BY <1>9, <1>10, <1>11 DEF AndScan, Joined
<1>14. Scanned(more).s = m.s /\ Scanned(more).written = more
       /\ Scanned(more).commits = (Cut(r.acts) \/ Cut(n.acts))
  BY <1>1, <1>10, <1>11, <1>12, <1>13
<1>15. QED
  BY <1>1, <1>5, <1>6, <1>7, <1>8, <1>11, <1>14 DEF RebuiltBy

LEMMA KeptMore ==
    ASSUME NEW bytes, NEW c \in Bytes, NEW s, NEW held, Kept(bytes, s, held), Keeps(s, c),
           StartSet(NextByte(s, c).s) = StartSet(s), c \notin StartSet(s)
    PROVE  Kept(Append(bytes, c), NextByte(s, c).s, Build(held, NextByte(s, c).acts))
<1>1. PICK w, sc : w = Written(bytes) /\ sc = Scanned(bytes).s
  OBVIOUS
<1>2. /\ bytes \in Seq(Bytes) /\ w \in Seq(Bytes) /\ ScanOf(sc, s) /\ RebuiltBy(w, s, held)
      /\ Starts(w, StartSet(s)) /\ Len(w) <= Len(bytes)
  BY <1>1 DEF Kept
<1>3. ScanOf(Scan(sc, c).s, NextByte(s, c).s) /\ ~ Omittable(sc, Scan(sc, c))
  BY <1>2 DEF Keeps
<1>4. Scanned(Append(bytes, c)) = AndScan(Scanned(bytes), c)
  BY <1>2, ScannedMore
<1>5. /\ Scanned(Append(bytes, c)).s = Scan(sc, c).s
      /\ Written(Append(bytes, c)) = Append(w, c)
  BY <1>1, <1>3, <1>4 DEF AndScan, Joined, Written
<1>6. RebuiltBy(Append(w, c), NextByte(s, c).s, Build(held, NextByte(s, c).acts))
  BY <1>2, RebuiltMore
<1>7. /\ Append(bytes, c) \in Seq(Bytes) /\ Append(w, c) \in Seq(Bytes)
      /\ Len(Append(w, c)) <= Len(Append(bytes, c))
  BY <1>2, AppendParts
<1>8. Starts(Append(w, c), StartSet(s))
  <2>1. PICK n \in Nat : n = Len(w)
    BY <1>2, LenProperties
  <2>2. PICK more : more = Append(w, c)
    OBVIOUS
  <2>3. /\ Len(more) = n + 1 /\ more[n + 1] = c
        /\ \A i \in 1..n : more[i] = w[i]
    BY <1>2, <2>1, <2>2, AppendParts
  <2>4. n >= 1
    BY <1>2, <2>1 DEF Starts
  <2>5. more[1] \in StartSet(s)
    BY <1>2, <2>3, <2>4 DEF Starts
  <2>6. ASSUME NEW i \in 2..n + 1
        PROVE  more[i] \notin StartSet(s)
    <3>1. CASE i \in 1..n
      BY <1>2, <2>1, <2>3, <3>1 DEF Starts
    <3>2. CASE i = n + 1
      BY <2>3, <3>2
    <3>3. QED
      BY <3>1, <3>2
  <2>7. more # <<>>
    BY <2>1, <2>3
  <2>8. QED
    BY <2>2, <2>3, <2>5, <2>6, <2>7 DEF Starts
<1>9. QED
  BY <1>3, <1>5, <1>6, <1>7, <1>8 DEF Kept

LEMMA KeptOver ==
    ASSUME NEW bytes, NEW c \in Bytes, NEW s, NEW held, Kept(bytes, s, held), Omits(s, c)
    PROVE  Kept(Append(bytes, c), NextByte(s, c).s, Build(held, NextByte(s, c).acts))
<1>1. PICK w, sc : w = Written(bytes) /\ sc = Scanned(bytes).s
  OBVIOUS
<1>2. /\ bytes \in Seq(Bytes) /\ w \in Seq(Bytes) /\ ScanOf(sc, s) /\ RebuiltBy(w, s, held)
      /\ Starts(w, StartSet(s)) /\ Len(w) <= Len(bytes)
  BY <1>1 DEF Kept
<1>3. ScanOf(Scan(sc, c).s, s) /\ Omittable(sc, Scan(sc, c))
  BY <1>2 DEF Omits
<1>4. Scanned(Append(bytes, c)) = AndScan(Scanned(bytes), c)
  BY <1>2, ScannedMore
<1>5. /\ Scanned(Append(bytes, c)).s = Scan(sc, c).s
      /\ Written(Append(bytes, c)) = w
  BY <1>1, <1>3, <1>4 DEF AndScan, Joined, Written
<1>6. NextByte(s, c).s = s /\ Build(held, NextByte(s, c).acts) = held
  BY DEF Omits, Inert
<1>7. Append(bytes, c) \in Seq(Bytes) /\ Len(w) <= Len(Append(bytes, c))
  <2>1. Len(w) \in Nat
    BY <1>2, LenProperties
  <2>2. QED
    BY <1>2, <2>1, AppendParts
<1>8. QED
  BY <1>2, <1>3, <1>5, <1>6, <1>7 DEF Kept

LEMMA WaitsKept ==
    ASSUME NEW d, NEW c \in Bytes, Waits(DecoderNext(d, c)),
           NextByte(Text(d), c) = Outcome(Text(DecoderNext(d, c).d), <<>>)
    PROVE  Keeps(Text(d), c)
<1>1. PICK n, e, s : n = DecoderNext(d, c) /\ e = n.d /\ s = Text(d)
  OBVIOUS
<1>2. n.out = <<>> /\ n.used
  BY <1>1 DEF Waits
<1>3. NextByte(s, c).acts = <<>> /\ NextByte(s, c).s = Text(e)
  BY <1>1 DEF Outcome
<1>4. Cut(<<>>) = FALSE
  BY ToldNone DEF Cut
<1>5. ASSUME NEW sc, ScanOf(sc, s)
      PROVE  /\ ScanOf(Scan(sc, c).s, Text(e))
             /\ ~ Omittable(sc, Scan(sc, c))
             /\ Scan(sc, c).commits = FALSE
  <2>1. /\ sc = [vt |-> sc.vt, utf8 |-> sc.utf8] /\ sc.utf8 = d
        /\ ParserOK(sc.vt) /\ sc.vt.state = "ground"
    BY <1>1, <1>5 DEF ScanOf, Text, Parser
  <2>2. PICK none : none = <<>> /\ Len(none) = 0
    OBVIOUS
  <2>3. DecoderNext(sc.utf8, c) = n /\ n.out \o <<>> = none
    BY <1>1, <1>2, <2>1, <2>2
  <2>4. Scan(sc, c) =
          [s |-> [(IF \E i \in 1..Len(none) : none[i] = Esc THEN StartEscape(sc) ELSE sc)
                  EXCEPT !.utf8 = e],
           commits |-> \E i \in 1..Len(none) : none[i] # Esc]
    BY <1>1, <1>2, <2>1, <2>3 DEF Scan
  <2>5. [sc EXCEPT !.utf8 = e] = [vt |-> sc.vt, utf8 |-> e]
    BY <2>1
  <2>6. /\ (\E i \in 1..Len(none) : none[i] = Esc) = FALSE
        /\ (\E i \in 1..Len(none) : none[i] # Esc) = FALSE
    BY <2>2
  <2>7. Scan(sc, c) = [s |-> [vt |-> sc.vt, utf8 |-> e], commits |-> FALSE]
    BY <2>4, <2>5, <2>6
  <2>8. Text(e).vt.state = "ground" /\ Text(e).utf8 = e
    BY DEF Text, Parser
  <2>9. QED
    BY <2>1, <2>7, <2>8 DEF ScanOf, Omittable
<1>6. QED
  BY <1>1, <1>3, <1>4, <1>5, NoneIsList, ToldNone DEF Keeps

LEMMA EscFromFresh == NextByte(Fresh, Esc) = Outcome(Escaped, <<>>)
<1>1. Decoder.state = Accept
  BY DEF Decoder
<1>2. DecoderNext(Decoder, Esc) = [d |-> Decoder, out |-> <<Esc>>, used |-> TRUE]
  BY <1>1, RestTakesEsc
<1>3. Offer(Text(Decoder), Esc) = Outcome(Escaped, <<>>)
  BY <1>2, OfferTells
<1>4. NextByte(Fresh, Esc) = NextUtf8(Fresh, Esc)
  BY FreshIsText DEF NextByte
<1>5. NextUtf8(Fresh, Esc) = Offer(Fresh, Esc)
  BY <1>2, FreshIsText DEF NextUtf8
<1>6. QED
  BY <1>3, <1>4, <1>5, FreshIsText

LEMMA EscKept == Keeps(Fresh, Esc)
<1>1. PICK n : n = DecoderNext(Decoder, Esc)
  OBVIOUS
<1>2. Decoder.state = Accept
  BY DEF Decoder
<1>3. n = [d |-> Decoder, out |-> <<Esc>>, used |-> TRUE]
  BY <1>1, <1>2, RestTakesEsc
<1>4. NextByte(Fresh, Esc).acts = <<>> /\ NextByte(Fresh, Esc).s = Escaped
  BY EscFromFresh DEF Outcome
<1>5. Cut(<<>>) = FALSE
  BY ToldNone DEF Cut
<1>6. ASSUME NEW sc, ScanOf(sc, Fresh)
      PROVE  /\ ScanOf(Scan(sc, Esc).s, Escaped)
             /\ ~ Omittable(sc, Scan(sc, Esc))
             /\ Scan(sc, Esc).commits = FALSE
  <2>1. /\ sc = [vt |-> sc.vt, utf8 |-> Decoder]
        /\ ParserOK(sc.vt) /\ sc.vt.state = "ground" /\ sc.utf8 = Decoder
    BY <1>6, FreshIsText DEF ScanOf
  <2>2. PICK one : one = <<Esc>>
    OBVIOUS
  <2>3. one = <<Esc>> /\ Len(one) = 1 /\ one[1] = Esc /\ one \o <<>> = one
    BY <2>2, OneIsList, JoinNone
  <2>4. n.used = TRUE /\ n.d = Decoder /\ n.out = one
    BY <1>3, <2>2
  <2>5. DecoderNext(sc.utf8, Esc) = n /\ n.used /\ n.d = Decoder /\ n.out \o <<>> = one
    BY <1>1, <2>1, <2>3, <2>4
  <2>6. Scan(sc, Esc) =
          [s |-> [(IF \E i \in 1..Len(one) : one[i] = Esc THEN StartEscape(sc) ELSE sc)
                  EXCEPT !.utf8 = Decoder],
           commits |-> \E i \in 1..Len(one) : one[i] # Esc]
    BY <2>1, <2>5 DEF Scan
  <2>7. StartEscape(sc) = Escaped
    BY <2>1, StartsEscaped
  <2>8. [Escaped EXCEPT !.utf8 = Decoder] = Escaped
    BY DEF Escaped
  <2>9. /\ (\E i \in 1..Len(one) : one[i] = Esc) = TRUE
         /\ (\E i \in 1..Len(one) : one[i] # Esc) = FALSE
    BY <2>3
  <2>10. Scan(sc, Esc) = [s |-> Escaped, commits |-> FALSE]
    BY <2>6, <2>7, <2>8, <2>9
  <2>11. ScanOf(Escaped, Escaped)
    <3>1. Escaped = NextByte(Fresh, Esc).s /\ Esc \in Bytes
      BY EscFromFresh DEF Outcome, Esc, Bytes
    <3>2. StreamInv(Escaped)
      BY <3>1, FreshOK, NextUtf8OK, FreshIsText DEF NextByte
    <3>3. QED
      BY <3>2 DEF ScanOf, StreamInv, ParserInv
  <2>12. QED
    BY <2>10, <2>11 DEF Omittable
<1>7. QED
  BY <1>4, <1>5, <1>6, NoneIsList, ToldNone DEF Keeps

LEMMA StartKept ==
    ASSUME NEW c \in Bytes, Keeps(Fresh, c), NextByte(Fresh, c).acts = <<>>,
           c \in StartSet(NextByte(Fresh, c).s)
    PROVE  Kept(<<c>>, NextByte(Fresh, c).s, <<>>)
<1>1. PICK w : w = <<c>>
  OBVIOUS
<1>2. <<>> \in Seq(Bytes) /\ Append(<<>>, c) = w /\ w \in Seq(Bytes)
  BY <1>1
<1>3. RebuiltBy(w, NextByte(Fresh, c).s, <<>>)
  BY <1>2, FreshRebuilt, RebuiltMore, BuildNone
<1>4. Written(w) = w /\ ScanOf(Scanned(w).s, NextByte(Fresh, c).s)
  BY <1>3 DEF RebuiltBy, Written
<1>5. Starts(w, StartSet(NextByte(Fresh, c).s)) /\ Len(w) = 1
  BY <1>1 DEF Starts
<1>6. Kept(w, NextByte(Fresh, c).s, <<>>)
  BY <1>2, <1>3, <1>4, <1>5 DEF Kept
<1>7. QED
  BY <1>1, <1>6

LEMMA EscStarts == Kept(<<Esc>>, Escaped, <<>>)
<1>1. NextByte(Fresh, Esc).acts = <<>> /\ NextByte(Fresh, Esc).s = Escaped
  BY EscFromFresh DEF Outcome
<1>2. Esc \in Bytes /\ Esc \in StartSet(Escaped)
  BY DEF Esc, Bytes, StartSet, Escaped, Parser
<1>3. QED
  BY <1>1, <1>2, EscKept, StartKept

LEMMA LeadStarts ==
    ASSUME NEW c \in 192..255, Waits(DecoderNext(Decoder, c))
    PROVE  Kept(<<c>>, Text(DecoderNext(Decoder, c).d), <<>>)
<1>1. c \in Bytes
  BY DEF Bytes
<1>2. NextByte(Fresh, c) = Outcome(Text(DecoderNext(Decoder, c).d), <<>>)
  <2>1. NextByte(Fresh, c) = Offer(Fresh, c)
    BY FreshIsText DEF NextByte, NextUtf8, Waits
  <2>2. QED
    BY <2>1, OfferWaits, FreshIsText
<1>3. NextByte(Fresh, c).acts = <<>> /\ NextByte(Fresh, c).s = Text(DecoderNext(Decoder, c).d)
  BY <1>2 DEF Outcome
<1>4. Keeps(Fresh, c)
  BY <1>1, <1>2, WaitsKept, FreshIsText
<1>5. c \in StartSet(Text(DecoderNext(Decoder, c).d))
  BY DEF StartSet, Text, Parser
<1>6. QED
  BY <1>1, <1>3, <1>4, <1>5, StartKept

(* What a byte does to what is unfinished: nothing is, or it starts with   *)
(* this byte, or the byte belongs to what was unfinished before.           *)
ByteGoes(s, c, r, held) ==
    \/ Ground(r.s)
    \/ /\ c \in StartSet(r.s) /\ Kept(<<c>>, r.s, held)
       /\ r.s.vt.state = "ground" => 1 + More[r.s.utf8.state] <= 4
    \/ /\ ~ Ground(s) /\ StartSet(r.s) = StartSet(s) /\ c \notin StartSet(s)
       /\ Keeps(s, c) \/ Omits(s, c)
       /\ r.s.vt.state = "ground" => /\ s.vt.state = "ground"
                                     /\ More[r.s.utf8.state] = More[s.utf8.state] - 1

LEMMA DecoderRests == DecoderInv(Decoder)
  BY RestStates DEF DecoderInv, Decoder, Accept

LEMMA TextByteGoes ==
    ASSUME NEW s, NEW c \in Bytes, NEW held, NEW r,
           StreamInv(s), DecoderInv(s.utf8), HeldOK(s, held), s.vt.state = "ground",
           r = NextByte(s, c)
    PROVE  /\ IsList(r.acts) /\ StreamInv(r.s) /\ DecoderInv(r.s.utf8)
           /\ HeldOK(r.s, Build(held, r.acts))
           /\ ByteGoes(s, c, r, Build(held, r.acts))
<1>1. PICK d : d = s.utf8
  OBVIOUS
<1>2. s = Text(d) /\ DecoderInv(d)
  BY <1>1 DEF StreamInv, Text
<1>3. held = <<>>
  BY DEF HeldOK, Building
<1>4. StreamInv(r.s)
  BY NextUtf8OK DEF NextByte
<1>5. CASE Restarts(c, r)
  <2>1. IsList(r.acts) /\ Build(held, r.acts) = <<>>
    BY <1>3, <1>5 DEF Restarts, Inert
  <2>2. HeldOK(r.s, Build(held, r.acts))
    BY <2>1 DEF HeldOK
  <2>3. CASE r.s = Fresh
    <3>1. Ground(r.s) /\ DecoderInv(r.s.utf8)
      BY <2>3, FreshIsText, DecoderRests DEF Ground
    <3>2. QED
      BY <1>4, <2>1, <2>2, <3>1 DEF ByteGoes
  <2>4. CASE c = Esc /\ r.s = Escaped
    <3>1. Escaped.utf8 = Decoder /\ Escaped.vt.state = "escape"
      BY DEF Escaped, Parser
    <3>2. DecoderInv(r.s.utf8) /\ c \in StartSet(r.s)
      BY <2>4, <3>1, DecoderRests DEF StartSet
    <3>3. Kept(<<c>>, r.s, Build(held, r.acts))
      BY <2>1, <2>4, EscStarts
    <3>4. QED
      BY <1>4, <2>1, <2>2, <2>4, <3>1, <3>2, <3>3 DEF ByteGoes
  <2>5. CASE /\ c \in 192..255 /\ Waits(DecoderNext(Decoder, c))
             /\ r.s = Text(DecoderNext(Decoder, c).d)
    <3>1. PICK e : e = DecoderNext(Decoder, c).d
      OBVIOUS
    <3>2. r.s = Text(e) /\ DecoderInv(e) /\ More[e.state] \in 1..3
      BY <2>5, <3>1 DEF Waits
    <3>3. r.s.utf8 = e /\ r.s.vt.state = "ground"
      BY <3>2 DEF Text, Parser
    <3>4. Kept(<<c>>, r.s, Build(held, r.acts))
      BY <2>1, <2>5, LeadStarts
    <3>5. c \in StartSet(r.s) /\ 1 + More[r.s.utf8.state] <= 4
      BY <2>5, <3>2, <3>3 DEF StartSet
    <3>6. QED
      BY <1>4, <2>1, <2>2, <3>2, <3>3, <3>4, <3>5 DEF ByteGoes
  <2>6. QED
    BY <1>5, <2>3, <2>4, <2>5 DEF Restarts
<1>6. CASE Continues(d, c, r)
  <2>1. PICK e : e = DecoderNext(d, c).d
    OBVIOUS
  <2>2. /\ c \in 128..191 /\ d.state # Accept /\ Waits(DecoderNext(d, c)) /\ DecoderInv(e)
        /\ More[e.state] = More[d.state] - 1 /\ r = Outcome(Text(e), <<>>)
    BY <1>6, <2>1 DEF Continues, Waits
  <2>3. r.s = Text(e) /\ r.acts = <<>>
    BY <2>2 DEF Outcome
  <2>4. r.s.utf8 = e /\ r.s.vt.state = "ground"
    BY <2>3 DEF Text, Parser
  <2>5. Keeps(s, c)
    BY <1>2, <2>1, <2>2, WaitsKept
  <2>6. Build(held, r.acts) = <<>> /\ HeldOK(r.s, <<>>) /\ IsList(r.acts)
    BY <1>3, <2>3, BuildNone, NoneIsList DEF HeldOK
  <2>7. /\ ~ Ground(s) /\ StartSet(r.s) = StartSet(s) /\ c \notin StartSet(s)
        /\ More[r.s.utf8.state] = More[s.utf8.state] - 1
    BY <1>1, <2>2, <2>4 DEF Ground, StartSet
  <2>8. QED
    BY <1>4, <2>2, <2>4, <2>5, <2>6, <2>7 DEF ByteGoes
<1>7. QED
  BY <1>2, <1>5, <1>6, TextStep

LEMMA SequenceByteGoes ==
    ASSUME NEW s, NEW c \in Bytes, NEW held, NEW r,
           StreamInv(s), HeldOK(s, held), s.vt.state # "ground",
           r = NextByte(s, c)
    PROVE  /\ IsList(r.acts) /\ StreamInv(r.s) /\ DecoderInv(r.s.utf8)
           /\ HeldOK(r.s, Build(held, r.acts))
           /\ ByteGoes(s, c, r, Build(held, r.acts))
<1>1. StreamInv(r.s) /\ r.s.utf8 = Decoder
  BY ByteIsTabled
<1>2. IsList(r.acts) /\ HeldOK(r.s, Build(held, r.acts))
  BY SequenceHeld
<1>3. DecoderInv(r.s.utf8)
  BY <1>1, DecoderRests
<1>4. CASE c = Esc
  <2>1. r.s = Escaped
    BY <1>4, EscFromAnywhere
  <2>2. Escaped.vt.state = "escape"
    BY DEF Escaped, Parser
  <2>3. Build(held, r.acts) = <<>>
    BY <1>2, <2>1, <2>2 DEF HeldOK, Building
  <2>4. Kept(<<c>>, r.s, Build(held, r.acts)) /\ c \in StartSet(r.s)
    BY <1>4, <2>1, <2>2, <2>3, EscStarts DEF StartSet
  <2>5. QED
    BY <1>1, <1>2, <1>3, <2>1, <2>2, <2>4 DEF ByteGoes
<1>5. CASE r.s.vt.state = "ground"
  <2>1. Ground(r.s)
    BY <1>1, <1>5 DEF Ground, Decoder
  <2>2. QED
    BY <1>1, <1>2, <1>3, <2>1 DEF ByteGoes
<1>6. CASE c # Esc /\ r.s.vt.state # "ground"
  <2>1. Keeps(s, c) \/ Omits(s, c)
    BY <1>6, SequenceScan
  <2>2. ~ Ground(s) /\ StartSet(r.s) = StartSet(s) /\ c \notin StartSet(s)
    BY <1>6 DEF Ground, StartSet
  <2>3. QED
    BY <1>1, <1>2, <1>3, <1>6, <2>1, <2>2 DEF ByteGoes
<1>7. QED
  BY <1>4, <1>5, <1>6

LEMMA KeptStep ==
    ASSUME NEW bytes, NEW s, NEW held, NEW c \in Bytes, Kept(bytes, s, held),
           StartSet(NextByte(s, c).s) = StartSet(s), c \notin StartSet(s),
           Keeps(s, c) \/ Omits(s, c)
    PROVE  Kept(Append(bytes, c), NextByte(s, c).s, Build(held, NextByte(s, c).acts))
  BY KeptMore, KeptOver

-----------------------------------------------------------------------------
(* Within a read *)

LEMMA SubSeqMore ==
    ASSUME NEW S, NEW p \in Seq(S), NEW n \in 1..Len(p), NEW k \in 1..n
    PROVE  /\ SubSeq(p, k, n) = Append(SubSeq(p, k, n - 1), p[n])
           /\ SubSeq(p, k, n - 1) \in Seq(S) /\ SubSeq(p, k, n) \in Seq(S)
           /\ Len(SubSeq(p, k, n)) = n - k + 1
<1>1. Len(p) \in Nat /\ \A i \in 1..Len(p) : p[i] \in S
  BY LenProperties, ElementOfSeq
<1>2. n \in Int /\ k \in Int /\ n - 1 \in Int /\ n \in k..Len(p) /\ k \in 1..Len(p)
  BY <1>1
<1>3. (\A i \in k..n : p[i] \in S) /\ (\A i \in k..n - 1 : p[i] \in S)
  BY <1>1
<1>4. /\ SubSeq(p, k, n) \in Seq(S) /\ SubSeq(p, k, n - 1) \in Seq(S)
      /\ Len(SubSeq(p, k, n)) = IF k <= n THEN n - k + 1 ELSE 0
  BY <1>2, <1>3, SubSeqProperties
<1>5. SubSeq(p, k, n) = SubSeq(p, k, n - 1) \o <<p[n]>>
  BY <1>2, SubSeqRecursiveSecond
<1>6. Append(SubSeq(p, k, n - 1), p[n]) = SubSeq(p, k, n - 1) \o <<p[n]>>
  BY <1>1, <1>4, AppendIsConcat
<1>7. QED
  BY <1>2, <1>4, <1>5, <1>6

LEMMA SubSeqOne ==
    ASSUME NEW S, NEW p \in Seq(S), NEW n \in 1..Len(p)
    PROVE  SubSeq(p, n, n) = <<p[n]>>
<1>1. n \in Int /\ n - 1 \in Int /\ n - 1 < n /\ n \in 1..n
  BY LenProperties
<1>2. SubSeq(p, n, n - 1) = <<>>
  BY <1>1, SubSeqEmpty
<1>3. SubSeq(p, n, n) = Append(SubSeq(p, n, n - 1), p[n])
  BY <1>1, SubSeqMore
<1>4. Append(<<>>, p[n]) = <<p[n]>>
  OBVIOUS
<1>5. QED
  BY <1>2, <1>3, <1>4

LEMMA JoinMore ==
    ASSUME NEW S, NEW t \in Seq(S), NEW b \in Seq(S), NEW c \in S
    PROVE  t \o Append(b, c) = Append(t \o b, c)
<1>1. <<c>> \in Seq(S)
  OBVIOUS
<1>2. Append(b, c) = b \o <<c>>
  BY AppendIsConcat
<1>3. t \o b \in Seq(S)
  BY ConcatProperties
<1>4. Append(t \o b, c) = (t \o b) \o <<c>>
  BY <1>3, AppendIsConcat
<1>5. (t \o b) \o <<c>> = t \o (b \o <<c>>)
  BY <1>1, ConcatAssociative
<1>6. QED
  BY <1>2, <1>4, <1>5

(* What is unfinished after i bytes of the read p began in this read, at k, *)
(* or before it: then t has what came before.                               *)
Within(p, i, s, held) ==
    \E k \in 1..i : /\ p[k] \in StartSet(s) /\ \A j \in k + 1..i : p[j] \notin StartSet(s)
                    /\ Kept(SubSeq(p, k, i), s, held)
                    /\ s.vt.state = "ground" => i - k + 1 + More[s.utf8.state] <= 4

Before(t, p, i, s, held) ==
    /\ \A j \in 1..i : p[j] \notin StartSet(s)
    /\ ~ t.broken => /\ Kept(t.bytes \o SubSeq(p, 1, i), s, held)
                     /\ s.vt.state = "ground" => Len(t.bytes) + i + More[s.utf8.state] <= 4

InRead(t, p, i, s, held) ==
    /\ StreamInv(s) /\ DecoderInv(s.utf8) /\ HeldOK(s, held)
    /\ Ground(s) \/ Within(p, i, s, held) \/ Before(t, p, i, s, held)

LEMMA InReadStep ==
    ASSUME NEW t, t.broken \/ t.bytes \in Seq(Bytes), NEW p \in Seq(Bytes), NEW i \in 1..Len(p),
           NEW s, NEW held, InRead(t, p, i - 1, s, held)
    PROVE  /\ IsList(NextByte(s, p[i]).acts)
           /\ InRead(t, p, i, NextByte(s, p[i]).s, Build(held, NextByte(s, p[i]).acts))
<1>1. PICK n \in Nat : n = Len(p)
  BY LenProperties
<1>2. PICK c \in Bytes : c = p[i]
  BY ElementOfSeq
<1>3. PICK r, more : r = NextByte(s, c) /\ more = Build(held, r.acts)
  OBVIOUS
<1>4. /\ IsList(r.acts) /\ StreamInv(r.s) /\ DecoderInv(r.s.utf8) /\ HeldOK(r.s, more)
      /\ ByteGoes(s, c, r, more)
  BY <1>3, TextByteGoes, SequenceByteGoes DEF InRead
<1>5. CASE Ground(r.s)
  BY <1>2, <1>3, <1>4, <1>5 DEF InRead
<1>6. CASE /\ c \in StartSet(r.s) /\ Kept(<<c>>, r.s, more)
           /\ r.s.vt.state = "ground" => 1 + More[r.s.utf8.state] <= 4
  <2>1. SubSeq(p, i, i) = <<c>>
    BY <1>2, SubSeqOne
  <2>2. i \in 1..i /\ i - i + 1 = 1 /\ \A j \in i + 1..i : p[j] \notin StartSet(r.s)
    BY <1>1
  <2>3. Kept(SubSeq(p, i, i), r.s, more)
    BY <1>6, <2>1
  <2>4. Within(p, i, r.s, more)
    BY <1>2, <1>6, <2>2, <2>3 DEF Within
  <2>5. QED
    BY <1>2, <1>3, <1>4, <2>4 DEF InRead
<1>7. CASE /\ ~ Ground(s) /\ StartSet(r.s) = StartSet(s) /\ c \notin StartSet(s)
           /\ Keeps(s, c) \/ Omits(s, c)
           /\ r.s.vt.state = "ground" => /\ s.vt.state = "ground"
                                         /\ More[r.s.utf8.state] = More[s.utf8.state] - 1
  <2>1. More[s.utf8.state] \in 0..3
    BY MoreBounds DEF InRead, StreamInv
  <2>2. CASE Within(p, i - 1, s, held)
    <3>1. PICK k \in 1..i - 1 :
             /\ p[k] \in StartSet(s) /\ \A j \in k + 1..i - 1 : p[j] \notin StartSet(s)
             /\ Kept(SubSeq(p, k, i - 1), s, held)
             /\ s.vt.state = "ground" => i - 1 - k + 1 + More[s.utf8.state] <= 4
      BY <2>2 DEF Within
    <3>2. k \in 1..i /\ SubSeq(p, k, i) = Append(SubSeq(p, k, i - 1), c)
      BY <1>1, <1>2, SubSeqMore
    <3>3. Kept(Append(SubSeq(p, k, i - 1), c), r.s, more)
      BY <1>3, <1>7, <3>1, KeptStep
    <3>4. Kept(SubSeq(p, k, i), r.s, more)
      BY <3>2, <3>3
    <3>5. \A j \in k + 1..i : p[j] \notin StartSet(s)
      BY <1>1, <1>2, <1>7, <3>1
    <3>6. r.s.vt.state = "ground" => i - k + 1 + More[r.s.utf8.state] <= 4
      BY <1>1, <1>7, <2>1, <3>1
    <3>7. Within(p, i, r.s, more)
      BY <1>7, <3>1, <3>2, <3>4, <3>5, <3>6 DEF Within
    <3>8. QED
      BY <1>2, <1>3, <1>4, <3>7 DEF InRead
  <2>3. CASE Before(t, p, i - 1, s, held)
    <3>1. \A j \in 1..i : p[j] \notin StartSet(r.s)
      BY <1>1, <1>2, <1>7, <2>3 DEF Before
    <3>2. ASSUME ~ t.broken
          PROVE  /\ Kept(t.bytes \o SubSeq(p, 1, i), r.s, more)
                 /\ r.s.vt.state = "ground" => Len(t.bytes) + i + More[r.s.utf8.state] <= 4
      <4>1. PICK b, q : b = t.bytes /\ q = SubSeq(p, 1, i - 1)
        OBVIOUS
      <4>2. 1 \in 1..i /\ b \in Seq(Bytes)
        BY <1>1, <3>2, <4>1
      <4>3. SubSeq(p, 1, i) = Append(q, c) /\ q \in Seq(Bytes)
        BY <1>2, <4>1, <4>2, SubSeqMore
      <4>4. Kept(b \o q, s, held)
        BY <2>3, <3>2, <4>1 DEF Before
      <4>5. Kept(Append(b \o q, c), r.s, more)
        BY <1>3, <1>7, <4>4, KeptStep
      <4>6. b \o Append(q, c) = Append(b \o q, c)
        BY <4>2, <4>3, JoinMore
      <4>7. s.vt.state = "ground" => Len(b) + (i - 1) + More[s.utf8.state] <= 4
        BY <2>3, <3>2, <4>1 DEF Before
      <4>8. Len(b) \in Nat
        BY <4>2, LenProperties
      <4>9. r.s.vt.state = "ground" => Len(b) + i + More[r.s.utf8.state] <= 4
        BY <1>1, <1>7, <2>1, <4>7, <4>8
      <4>10. QED
        BY <4>1, <4>3, <4>5, <4>6, <4>9
    <3>3. Before(t, p, i, r.s, more)
      BY <3>1, <3>2 DEF Before
    <3>4. QED
      BY <1>2, <1>3, <1>4, <3>3 DEF InRead
  <2>4. QED
    BY <1>7, <2>2, <2>3 DEF InRead
<1>8. QED
  BY <1>4, <1>5, <1>6, <1>7 DEF ByteGoes

LEMMA ReadGoes ==
    ASSUME NEW t, t.broken \/ t.bytes \in Seq(Bytes), NEW p \in Seq(Bytes),
           NEW s, NEW held, InRead(t, p, 0, s, held)
    PROVE  /\ IsList(NextBytes(s, p).acts)
           /\ InRead(t, p, Len(p), NextBytes(s, p).s, Build(held, NextBytes(s, p).acts))
<1>1. PICK n \in Nat : n = Len(p)
  BY LenProperties
<1>2. PICK f : AlongBytes(f, s, p) /\ NextBytes(s, p) = f[n]
  BY <1>1, BytesHaveValues
<1>3. PICK S : S = {i \in 0..n : /\ IsList(f[i].acts)
                                 /\ InRead(t, p, i, f[i].s, Build(held, f[i].acts))}
  OBVIOUS
<1>4. 0 \in S
  <2>1. f[0].s = s /\ f[0].acts = <<>>
    BY <1>2 DEF AlongBytes, Outcome
  <2>2. IsList(f[0].acts) /\ Build(held, f[0].acts) = held
    BY <2>1, NoneIsList, BuildNone
  <2>3. InRead(t, p, 0, f[0].s, Build(held, f[0].acts))
    BY <2>1, <2>2
  <2>4. 0 \in 0..n
    BY <1>1
  <2>5. QED
    BY <1>3, <2>2, <2>3, <2>4
<1>5. ASSUME NEW i \in 1..n, i - 1 \in S
      PROVE  i \in S
  <2>1. PICK e, a, now : e = f[i - 1].s /\ a = f[i - 1].acts /\ now = Build(held, a)
    OBVIOUS
  <2>2. IsList(a) /\ InRead(t, p, i - 1, e, now)
    BY <1>3, <1>5, <2>1
  <2>3. PICK c, r : c = p[i] /\ r = NextByte(e, c)
    OBVIOUS
  <2>4. IsList(r.acts) /\ InRead(t, p, i, r.s, Build(now, r.acts))
    BY <1>1, <2>2, <2>3, InReadStep
  <2>5. f[i] = AndByte(f[i - 1], c) /\ c \in Bytes
    BY <1>1, <1>2, <2>3, ElementOfSeq DEF AlongBytes
  <2>6. f[i].s = r.s /\ f[i].acts = a \o r.acts
    BY <2>1, <2>3, <2>5, AndByteIs
  <2>7. IsList(a \o r.acts)
    BY <2>2, <2>4, JoinIsList
  <2>8. Build(held, a \o r.acts) = Build(now, r.acts)
    BY <2>1, <2>2, <2>4, BuildJoin
  <2>9. i \in 0..n
    BY <1>1
  <2>10. QED
    BY <1>3, <2>4, <2>6, <2>7, <2>8, <2>9
<1>6. \A i \in 0..n : i \in S
  BY <1>4, <1>5, UpTo
<1>7. n \in S
  BY <1>6
<1>8. QED
  BY <1>1, <1>2, <1>3, <1>7

-----------------------------------------------------------------------------
(* After a read *)

LEMMA LastInIs ==
    ASSUME NEW p, NEW n \in Nat, n = Len(p), NEW S, NEW k \in 0..n, k > 0 => p[k] \in S,
           \A j \in k + 1..n : p[j] \notin S
    PROVE  LastIn(p, S) = k
<1>1. PICK m \in 0..n : /\ m = LastIn(p, S)
                        /\ m > 0 => p[m] \in S
                        /\ \A j \in m + 1..n : p[j] \notin S
  BY DEF LastIn
<1>2. ~ (m < k)
  <2>1. SUFFICES ASSUME m < k
                 PROVE  FALSE
    OBVIOUS
  <2>2. k \in m + 1..n /\ k > 0
    BY <1>1, <2>1
  <2>3. p[k] \notin S
    BY <1>1, <2>2
  <2>4. QED
    BY <2>2, <2>3
<1>3. ~ (k < m)
  <2>1. SUFFICES ASSUME k < m
                 PROVE  FALSE
    OBVIOUS
  <2>2. m \in k + 1..n /\ m > 0
    BY <1>1, <2>1
  <2>3. p[m] \notin S
    BY <2>2
  <2>4. QED
    BY <1>1, <2>2, <2>3
<1>4. QED
  BY <1>1, <1>2, <1>3

(* Replay begins where what is unfinished began.                           *)
LEMMA ReplayStartIs ==
    ASSUME NEW p, NEW n \in Nat, n = Len(p), NEW s, NEW k \in 0..n,
           k > 0 => p[k] \in StartSet(s),
           \A j \in k + 1..n : p[j] \notin StartSet(s),
           s.vt.state = "ground" => k = 0 \/ n - k < 3
    PROVE  ReplayStart(s, p) = k
<1>1. LastIn(p, StartSet(s)) = k
  BY LastInIs
<1>2. CASE s.vt.state = "ground"
  <2>1. LastIn(p, 192..255) = k
    BY <1>1, <1>2 DEF StartSet
  <2>2. QED
    BY <1>2, <2>1 DEF ReplayStart, FindUtf8ReplayStart
<1>3. CASE s.vt.state # "ground"
  BY <1>1, <1>3 DEF ReplayStart, FindVTReplayStart, StartSet
<1>4. QED
  BY <1>2, <1>3

(* t keeps what is unfinished in s, or nothing if it is broken.            *)
Follows(t, s, held) ==
    /\ t \in [bytes : Seq(Bytes), broken : BOOLEAN]
    /\ Len(t.bytes) <= MaxBytes
    /\ t.broken => t.bytes = <<>>
    /\ HeldOK(s, held)
    /\ Ground(s) => t = NoBytes
    /\ ~ Ground(s) /\ ~ t.broken =>
           /\ Kept(t.bytes, s, held)
           /\ s.vt.state = "ground" => Len(t.bytes) + More[s.utf8.state] <= 4

LEMMA BrokenFollows ==
    ASSUME NEW s, ~ Ground(s), NEW held, HeldOK(s, held)
    PROVE  Follows(Broken, s, held)
<1>1. PICK t : t = Broken
  OBVIOUS
<1>2. t.bytes = <<>> /\ t.broken = TRUE /\ t = [bytes |-> t.bytes, broken |-> t.broken]
  BY <1>1 DEF Broken
<1>3. Len(<<>>) = 0 /\ <<>> \in Seq(Bytes)
  OBVIOUS
<1>4. 0 <= MaxBytes
  BY ContinuationAssumption
<1>5. QED
  BY <1>1, <1>2, <1>3, <1>4 DEF Follows

LEMMA BytesFollow ==
    ASSUME NEW s, ~ Ground(s), NEW held, HeldOK(s, held), NEW bytes \in Seq(Bytes),
           Len(bytes) <= MaxBytes, Kept(bytes, s, held),
           s.vt.state = "ground" => Len(bytes) + More[s.utf8.state] <= 4
    PROVE  Follows([bytes |-> bytes, broken |-> FALSE], s, held)
<1>1. PICK t : t = [bytes |-> bytes, broken |-> FALSE]
  OBVIOUS
<1>2. t.bytes = bytes /\ t.broken = FALSE /\ t \in [bytes : Seq(Bytes), broken : BOOLEAN]
  BY <1>1
<1>3. Follows(t, s, held)
  BY <1>2 DEF Follows
<1>4. QED
  BY <1>1, <1>3

LEMMA NoBytesFollow ==
    ASSUME NEW s, Ground(s), NEW held, HeldOK(s, held)
    PROVE  Follows(NoBytes, s, held)
<1>1. PICK t : t = NoBytes
  OBVIOUS
<1>2. t.bytes = <<>> /\ t.broken = FALSE /\ t = [bytes |-> t.bytes, broken |-> t.broken]
  BY <1>1 DEF NoBytes
<1>3. Len(<<>>) = 0 /\ <<>> \in Seq(Bytes)
  OBVIOUS
<1>4. 0 <= MaxBytes
  BY ContinuationAssumption
<1>5. QED
  BY <1>1, <1>2, <1>3, <1>4 DEF Follows

LEMMA TrackFollows ==
    ASSUME NEW t \in [bytes : Seq(Bytes), broken : BOOLEAN], Len(t.bytes) <= MaxBytes,
           t.broken => t.bytes = <<>>, NEW p \in Seq(Bytes), p # <<>>,
           NEW s, NEW held, InRead(t, p, Len(p), s, held)
    PROVE  Follows(Track(t, s, p), s, held)
<1>1. PICK n \in Nat : n = Len(p) /\ n > 0
  BY LenProperties, EmptySeq
<1>2. HeldOK(s, held) /\ StreamInv(s)
  BY DEF InRead
<1>3. CASE Ground(s)
  <2>1. Track(t, s, p) = NoBytes
    BY <1>3 DEF Track
  <2>2. QED
    BY <1>2, <1>3, <2>1, NoBytesFollow
<1>4. CASE ~ Ground(s) /\ Within(p, n, s, held)
  <2>1. PICK k \in 1..n :
           /\ p[k] \in StartSet(s) /\ \A j \in k + 1..n : p[j] \notin StartSet(s)
           /\ Kept(SubSeq(p, k, n), s, held)
           /\ s.vt.state = "ground" => n - k + 1 + More[s.utf8.state] <= 4
    BY <1>4 DEF Within
  <2>2. ReplayStart(s, p) = k
    <3>1. s.vt.state = "ground" => More[s.utf8.state] >= 1
      BY <1>2, <1>4, MoreBounds DEF Ground, StreamInv
    <3>2. More[s.utf8.state] \in 0..3
      BY <1>2, MoreBounds DEF StreamInv
    <3>3. s.vt.state = "ground" => k = 0 \/ n - k < 3
      BY <1>1, <2>1, <3>1, <3>2
    <3>4. k \in 0..n /\ k > 0
      BY <1>1
    <3>5. QED
      BY <1>1, <2>1, <3>3, <3>4, ReplayStartIs
  <2>3. PICK q : q = SubSeq(p, k, n)
    OBVIOUS
  <2>4. q \in Seq(Bytes) /\ Len(q) = n - k + 1
    <3>1. n \in 1..Len(p)
      BY <1>1
    <3>2. QED
      BY <2>3, <3>1, SubSeqMore
  <2>5. Track(t, s, p) = Replace(q)
    BY <1>1, <1>4, <2>2, <2>3 DEF Track
  <2>6. CASE Len(q) > MaxBytes
    BY <1>2, <1>4, <2>5, <2>6, BrokenFollows DEF Replace
  <2>7. CASE ~ (Len(q) > MaxBytes)
    <3>1. Track(t, s, p) = [bytes |-> q, broken |-> FALSE]
      BY <2>5, <2>7 DEF Replace
    <3>2. Len(q) <= MaxBytes /\ Len(q) \in Nat
      BY <2>4, <2>7, ContinuationAssumption
    <3>3. Kept(q, s, held) /\ (s.vt.state = "ground" => Len(q) + More[s.utf8.state] <= 4)
      BY <2>1, <2>3, <2>4
    <3>4. QED
      BY <1>2, <1>4, <2>4, <3>1, <3>2, <3>3, BytesFollow
  <2>8. QED
    BY <2>6, <2>7
<1>5. CASE ~ Ground(s) /\ Before(t, p, n, s, held)
  <2>1. ReplayStart(s, p) = 0
    <3>1. PICK k \in 0..n : k = 0
      OBVIOUS
    <3>2. \A j \in k + 1..n : p[j] \notin StartSet(s)
      BY <1>1, <1>5, <3>1 DEF Before
    <3>3. (k > 0 => p[k] \in StartSet(s)) /\ (s.vt.state = "ground" => k = 0 \/ n - k < 3)
      BY <3>1
    <3>4. ReplayStart(s, p) = k
      BY <1>1, <3>2, <3>3, ReplayStartIs
    <3>5. QED
      BY <3>1, <3>4
  <2>2. Track(t, s, p) = Extend(t, p)
    BY <1>5, <2>1 DEF Track
  <2>3. CASE t.broken
    <3>1. t = Broken
      BY <2>3 DEF Broken
    <3>2. Extend(t, p) = t
      BY <2>3 DEF Extend
    <3>3. QED
      BY <1>2, <1>5, <2>2, <3>1, <3>2, BrokenFollows
  <2>4. CASE ~ t.broken /\ Len(p) > MaxBytes - Len(t.bytes)
    BY <1>2, <1>5, <2>2, <2>4, BrokenFollows DEF Extend
  <2>5. CASE ~ t.broken /\ ~ (Len(p) > MaxBytes - Len(t.bytes))
    <3>1. PICK b : b = t.bytes /\ b \in Seq(Bytes)
      OBVIOUS
    <3>2. t = [bytes |-> b, broken |-> FALSE]
      BY <2>5, <3>1
    <3>3. Extend(t, p) = [bytes |-> b \o p, broken |-> FALSE]
      BY <2>5, <3>2 DEF Extend
    <3>4. /\ b \o p \in Seq(Bytes) /\ Len(b \o p) = Len(b) + n /\ Len(b) \in Nat
          /\ SubSeq(p, 1, n) = p
      BY <1>1, <3>1, ConcatProperties, LenProperties, SubSeqFull
    <3>5. Kept(b \o p, s, held) /\ (s.vt.state = "ground" => Len(b) + n + More[s.utf8.state] <= 4)
      BY <1>5, <2>5, <3>1, <3>4 DEF Before
    <3>6. Len(b \o p) <= MaxBytes
      BY <1>1, <2>5, <3>1, <3>4, ContinuationAssumption
    <3>7. s.vt.state = "ground" => Len(b \o p) + More[s.utf8.state] <= 4
      BY <3>4, <3>5
    <3>8. Follows([bytes |-> b \o p, broken |-> FALSE], s, held)
      BY <1>2, <1>5, <3>4, <3>5, <3>6, <3>7, BytesFollow
    <3>9. QED
      BY <2>2, <3>3, <3>8
  <2>6. QED
    BY <2>3, <2>4, <2>5
<1>6. QED
  BY <1>1, <1>3, <1>4, <1>5 DEF InRead

LEMMA StartOfWhatIsKept ==
    ASSUME NEW w \in Seq(Bytes), NEW s, StreamInv(s), ~ Ground(s), Starts(w, StartSet(s)),
           s.vt.state = "ground" => Len(w) + More[s.utf8.state] <= 4
    PROVE  ReplayStart(s, w) = 1
<1>1. PICK n \in Nat : n = Len(w) /\ n > 0
  BY LenProperties, EmptySeq DEF Starts
<1>2. PICK k \in 0..n : k = 1
  BY <1>1
<1>3. w[k] \in StartSet(s) /\ \A j \in k + 1..n : w[j] \notin StartSet(s)
  BY <1>1, <1>2 DEF Starts
<1>4. s.vt.state = "ground" => n - k < 3
  <2>1. /\ More[s.utf8.state] \in 0..3
        /\ s.vt.state = "ground" => More[s.utf8.state] >= 1
    BY MoreBounds DEF Ground, StreamInv
  <2>2. QED
    BY <1>1, <1>2, <2>1
<1>5. ReplayStart(s, w) = k
  BY <1>1, <1>3, <1>4, ReplayStartIs
<1>6. QED
  BY <1>2, <1>5

LEMMA KeptReplays ==
    ASSUME StreamInv(stream), Follows(tracker, stream, built), ~ tracker.broken, ~ Ground(stream)
    PROVE  Replays(Written(tracker.bytes))
<1>1. PICK b, w : b = tracker.bytes /\ w = Written(b)
  OBVIOUS
<1>2. /\ b \in Seq(Bytes) /\ Len(b) <= MaxBytes /\ Kept(b, stream, built)
      /\ stream.vt.state = "ground" => Len(b) + More[stream.utf8.state] <= 4
  BY <1>1 DEF Follows
<1>3. /\ w \in Seq(Bytes) /\ Len(w) <= Len(b) /\ RebuiltBy(w, stream, built)
      /\ Starts(w, StartSet(stream))
  BY <1>1, <1>2 DEF Kept
<1>4. Len(w) \in Nat /\ Len(b) \in Nat /\ MaxBytes \in Nat /\ More[stream.utf8.state] \in 0..3
  BY <1>2, <1>3, LenProperties, MoreBounds, ContinuationAssumption DEF StreamInv
<1>5. Len(w) <= MaxBytes /\ (stream.vt.state = "ground" => Len(w) + More[stream.utf8.state] <= 4)
  BY <1>2, <1>3, <1>4
<1>6. ReplayStart(stream, w) = 1
  BY <1>3, <1>5, StartOfWhatIsKept
<1>7. PICK r : r = NextBytes(Fresh, w)
  OBVIOUS
<1>8. /\ r.s = stream /\ Build(<<>>, r.acts) = built /\ Told(r.acts)
      /\ Scanned(w).written = w /\ Scanned(w).commits = Cut(r.acts)
      /\ ScanOf(Scanned(w).s, stream)
  BY <1>3, <1>7 DEF RebuiltBy
<1>9. Track(NoBytes, r.s, w).bytes = w
  <2>1. PICK q : q = SubSeq(w, 1, Len(w)) /\ q = w
    BY <1>3, SubSeqFull
  <2>2. Track(NoBytes, stream, w) = Replace(q)
    BY <1>6, <2>1 DEF Track
  <2>3. Replace(w) = [bytes |-> w, broken |-> FALSE]
    BY <1>4, <1>5 DEF Replace
  <2>4. Track(NoBytes, r.s, w) = Track(NoBytes, stream, w)
    BY <1>8
  <2>5. QED
    BY <2>1, <2>2, <2>3, <2>4
<1>10. Validate(w) = IF Cut(r.acts) THEN "ReplayWouldCommit" ELSE "valid"
  <2>1. PICK n : n = Scanned(w)
    OBVIOUS
  <2>2. n.s.vt.state = stream.vt.state /\ n.s.utf8 = stream.utf8 /\ n.commits = Cut(r.acts)
    BY <1>8, <2>1 DEF ScanOf
  <2>3. ~ Ground(n.s)
    BY <2>2 DEF Ground
  <2>4. ReplayStart(n.s, w) = 1
    BY <1>6, <2>2 DEF ReplayStart
  <2>5. Verdict(n, w) = IF n.commits THEN "ReplayWouldCommit" ELSE "valid"
    BY <2>3, <2>4 DEF Verdict
  <2>6. w # <<>>
    BY <1>3 DEF Starts
  <2>7. QED
    BY <2>1, <2>2, <2>5, <2>6 DEF Validate
<1>11. Rebuilds(w, r)
  <2>1. Written(w) = w
    BY <1>8 DEF Written
  <2>2. \A i \in 1..Len(r.acts) : r.acts[i][1] \in Builds \/ r.acts[i] = CutOff
    BY <1>8 DEF Told
  <2>3. Validate(w) = IF \E i \in 1..Len(r.acts) : r.acts[i] = CutOff
                      THEN "ReplayWouldCommit" ELSE "valid"
    BY <1>10 DEF Cut
  <2>4. QED
    BY <1>8, <1>9, <2>1, <2>2, <2>3 DEF Rebuilds
<1>12. QED
  BY <1>1, <1>7, <1>11 DEF Replays

LEMMA NothingReplays ==
    ASSUME StreamInv(stream), DecoderInv(stream.utf8), HeldOK(stream, built), Ground(stream)
    PROVE  Replays(Written(<<>>))
<1>1. stream = Fresh
  BY FreshIsText DEF StreamInv, DecoderInv, Ground, Text
<1>2. built = <<>>
  BY DEF HeldOK, Building, Ground
<1>3. Written(<<>>) = <<>> /\ NextBytes(Fresh, <<>>) = Outcome(Fresh, <<>>)
  BY ScannedNone, NextBytesNone DEF Written, Unscanned
<1>4. PICK r : r = Outcome(Fresh, <<>>)
  OBVIOUS
<1>5. r.s = Fresh /\ r.acts = <<>>
  BY <1>4 DEF Outcome
<1>6. Track(NoBytes, r.s, <<>>).bytes = <<>>
  BY <1>1, <1>5 DEF Track, NoBytes
<1>7. Build(<<>>, <<>>) = <<>>
  BY BuildNone
<1>8. Validate(<<>>) = "valid"
  BY DEF Validate
<1>9. 1..Len(<<>>) = {}
  OBVIOUS
<1>10. (\E i \in 1..Len(<<>>) : <<>>[i] = CutOff) = FALSE
  BY <1>9
<1>11. Rebuilds(<<>>, r)
  BY <1>1, <1>2, <1>3, <1>5, <1>6, <1>7, <1>8, <1>9, <1>10 DEF Rebuilds
<1>12. QED
  BY <1>3, <1>4, <1>11 DEF Replays

-----------------------------------------------------------------------------
(* Between two reads *)

ContinuationInv ==
    /\ StreamInv(stream) /\ DecoderInv(stream.utf8)
    /\ tracker # NoTracker => Follows(tracker, stream, built)

LEMMA ContinuationInvHolds == ReadSpec => []ContinuationInv
<1>1. Init => ContinuationInv
  <2>1. SUFFICES ASSUME Init
                 PROVE  ContinuationInv
    OBVIOUS
  <2>2. stream = Fresh /\ built = <<>> /\ (tracker # NoTracker => tracker = NoBytes)
    BY <2>1 DEF Init, InitByte
  <2>3. StreamInv(stream) /\ DecoderInv(stream.utf8) /\ Ground(stream)
    BY <2>2, FreshOK, FreshIsText, DecoderRests DEF Ground
  <2>4. HeldOK(stream, built)
    BY <2>2 DEF HeldOK
  <2>5. QED
    BY <2>2, <2>3, <2>4, NoBytesFollow DEF ContinuationInv
<1>2. ASSUME ContinuationInv, NEW input \in Seq(Bytes) \ {<<>>}, ReadBytes(input)
      PROVE  ContinuationInv'
  <2>1. PICK r : r = NextBytes(stream, input)
    OBVIOUS
  <2>2. stream' = r.s
    BY <1>2, <2>1 DEF ReadBytes, Keep
  <2>3. CASE tracker = NoTracker
    <3>1. tracker' = NoTracker
      BY <1>2, <2>3 DEF ReadBytes, Keep
    <3>2. PICK t : t = Broken
      OBVIOUS
    <3>3. t.broken = TRUE
      BY <3>2 DEF Broken
    <3>4. InRead(t, input, 0, stream, <<>>)
      BY <1>2, <3>3 DEF InRead, Before, HeldOK, ContinuationInv
    <3>5. InRead(t, input, Len(input), r.s, Build(<<>>, r.acts))
      BY <2>1, <3>3, <3>4, ReadGoes
    <3>6. QED
      BY <2>2, <3>1, <3>5 DEF InRead, ContinuationInv
  <2>4. CASE tracker # NoTracker
    <3>1. Follows(tracker, stream, built) /\ StreamInv(stream) /\ DecoderInv(stream.utf8)
      BY <1>2, <2>4 DEF ContinuationInv
    <3>2. /\ tracker \in [bytes : Seq(Bytes), broken : BOOLEAN] /\ Len(tracker.bytes) <= MaxBytes
          /\ tracker.broken => tracker.bytes = <<>>
          /\ HeldOK(stream, built)
      BY <3>1 DEF Follows
    <3>3. InRead(tracker, input, 0, stream, built)
      <4>1. CASE Ground(stream)
        BY <3>1, <3>2, <4>1 DEF InRead
      <4>2. CASE ~ Ground(stream)
        <5>1. ASSUME ~ tracker.broken
              PROVE  /\ Kept(tracker.bytes \o SubSeq(input, 1, 0), stream, built)
                     /\ stream.vt.state = "ground" =>
                            Len(tracker.bytes) + 0 + More[stream.utf8.state] <= 4
          <6>1. PICK b : b = tracker.bytes /\ b \in Seq(Bytes)
            BY <3>2
          <6>2. SubSeq(input, 1, 0) = <<>> /\ b \o <<>> = b
            BY <6>1, SubSeqEmpty, ConcatEmptySeq
          <6>3. Kept(b, stream, built)
                /\ (stream.vt.state = "ground" => Len(b) + More[stream.utf8.state] <= 4)
            BY <3>1, <4>2, <5>1, <6>1 DEF Follows
          <6>4. Len(b) + 0 = Len(b)
            BY <6>1, LenProperties
          <6>5. QED
            BY <6>1, <6>2, <6>3, <6>4
        <5>2. Before(tracker, input, 0, stream, built)
          BY <5>1 DEF Before
        <5>3. QED
          BY <3>1, <3>2, <5>2 DEF InRead
      <4>3. QED
        BY <4>1, <4>2
    <3>4. PICK more : more = Build(built, r.acts)
      OBVIOUS
    <3>5. InRead(tracker, input, Len(input), r.s, more)
      BY <2>1, <3>2, <3>3, <3>4, ReadGoes
    <3>6. PICK t : t = Track(tracker, r.s, input)
      OBVIOUS
    <3>7. Follows(t, r.s, more)
      BY <3>2, <3>5, <3>6, TrackFollows
    <3>8. PICK kept \in {t} \cup (IF Len(t.bytes) > 0 THEN {Broken} ELSE {}) :
             tracker' = kept /\ built' = IF kept.broken THEN <<>> ELSE more
      BY <1>2, <2>1, <2>4, <3>4, <3>6 DEF ReadBytes, Keep
    <3>9. HeldOK(r.s, <<>>)
      BY DEF HeldOK
    <3>10. CASE kept = Broken
      <4>1. ~ Ground(r.s)
        <5>1. NoBytes.broken = FALSE /\ Broken.broken = TRUE /\ NoBytes.bytes = <<>>
          BY DEF NoBytes, Broken
        <5>2. t # NoBytes
          <6>1. Len(<<>>) = 0
            OBVIOUS
          <6>2. QED
            BY <3>8, <3>10, <5>1, <6>1
        <5>3. QED
          BY <3>7, <5>2 DEF Follows
      <4>2. Broken.broken = TRUE
        BY DEF Broken
      <4>3. Follows(tracker', r.s, built')
        BY <3>8, <3>9, <3>10, <4>1, <4>2, BrokenFollows
      <4>4. QED
        BY <2>2, <3>5, <4>3 DEF InRead, ContinuationInv
    <3>11. CASE kept = t /\ t # Broken
      <4>1. t.broken = FALSE
        BY <3>7, <3>11 DEF Follows, Broken
      <4>2. Follows(tracker', r.s, built')
        BY <3>7, <3>8, <3>11, <4>1
      <4>3. QED
        BY <2>2, <3>5, <4>2 DEF InRead, ContinuationInv
    <3>12. QED
      BY <3>8, <3>10, <3>11
  <2>5. QED
    BY <2>3, <2>4
<1>3. ContinuationInv /\ [NextRead]_vars => ContinuationInv'
  <2>1. ASSUME ContinuationInv, UNCHANGED vars
        PROVE  ContinuationInv'
    BY <2>1 DEF ContinuationInv, vars
  <2>2. QED
    BY <1>2, <2>1 DEF NextRead
<1>4. QED
  BY <1>1, <1>3, PTL DEF ReadSpec

(* The arrays of the parser and the bytes kept stay within their limits,   *)
(* whatever is read, however it is cut into reads, and whenever memory is  *)
(* refused (Parser.zig; stream_continuation.zig, replace and extend).      *)
THEOREM ContinuationFits == ReadSpec => []TypeOK
<1>1. ContinuationInv => TypeOK
  BY DEF ContinuationInv, StreamInv, ParserInv, TypeOK, StreamOK, Follows
<1>2. QED
  BY <1>1, ContinuationInvHolds, PTL

(* The bytes kept, fed to a fresh stream, rebuild what is unfinished and   *)
(* what is held of it, do nothing a second time, and are accepted by a     *)
(* snapshot unless they end an APC that was cut off                        *)
(* (stream_continuation.zig, trackContinuation, Tracker.write, validate).  *)
THEOREM ContinuationRebuilds == ReadSpec => []ContinuationReplays
<1>1. ContinuationInv => ContinuationReplays
  <2>1. SUFFICES ASSUME ContinuationInv, tracker # NoTracker, tracker # Broken
                 PROVE  Replays(Written(tracker.bytes))
    BY DEF ContinuationReplays
  <2>2. StreamInv(stream) /\ DecoderInv(stream.utf8) /\ Follows(tracker, stream, built)
    BY <2>1 DEF ContinuationInv
  <2>3. tracker.broken = FALSE
    BY <2>1, <2>2 DEF Follows, Broken
  <2>4. CASE Ground(stream)
    <3>1. tracker.bytes = <<>> /\ HeldOK(stream, built)
      BY <2>2, <2>4 DEF Follows, NoBytes
    <3>2. QED
      BY <2>2, <2>4, <3>1, NothingReplays
  <2>5. CASE ~ Ground(stream)
    BY <2>2, <2>3, <2>5, KeptReplays
  <2>6. QED
    BY <2>4, <2>5
<1>2. QED
  BY <1>1, ContinuationInvHolds, PTL

=============================================================================
