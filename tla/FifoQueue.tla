----------------------------- MODULE FifoQueue -----------------------------
(***************************************************************************)
(* What a BlockingQueue promises its users: a bounded first-in first-out   *)
(* queue.  A push either appends its message and returns the new length,   *)
(* or returns 0 and leaves the queue as it was; a push that finds the      *)
(* queue full may be left pending and be accepted or abandoned later.      *)
(***************************************************************************)
EXTENDS Naturals, Sequences

CONSTANTS Producers, Messages, Capacity, None

VARIABLES queue,    \* unread messages, oldest first
          pending,  \* the message of a push that is waiting, or None
          result,   \* what the last push of each producer returned
          taken     \* the last message popped

vars == <<queue, pending, result, taken>>

Init ==
    /\ queue = <<>>
    /\ pending = [p \in Producers |-> None]
    /\ result = [p \in Producers |-> 0]
    /\ taken = None

Accept(p, m) ==
    /\ Len(queue) < Capacity
    /\ queue' = Append(queue, m)
    /\ result' = [result EXCEPT ![p] = Len(queue) + 1]
    /\ UNCHANGED taken

Refuse(p) ==
    /\ result' = [result EXCEPT ![p] = 0]
    /\ UNCHANGED <<queue, taken>>

(* A push that does not wait: refused only if the queue is full. *)
Send(p, m) ==
    /\ pending[p] = None
    /\ Accept(p, m) \/ (Len(queue) = Capacity /\ Refuse(p))
    /\ UNCHANGED pending

(* A push that waits starts only when the queue is full ... *)
Wait(p, m) ==
    /\ pending[p] = None /\ Len(queue) = Capacity
    /\ pending' = [pending EXCEPT ![p] = m]
    /\ UNCHANGED <<queue, result, taken>>

(* ... and ends by delivering exactly that message, or nothing. *)
EndWait(p) ==
    /\ pending[p] # None
    /\ Accept(p, pending[p]) \/ Refuse(p)
    /\ pending' = [pending EXCEPT ![p] = None]

Take ==
    /\ queue # <<>>
    /\ taken' = Head(queue)
    /\ queue' = Tail(queue)
    /\ UNCHANGED <<pending, result>>

Next ==
    \/ \E p \in Producers : EndWait(p) \/ \E m \in Messages : Send(p, m) \/ Wait(p, m)
    \/ Take

Spec == Init /\ [][Next]_vars

=============================================================================
