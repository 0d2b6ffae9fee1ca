------------------------------- MODULE Outbox -------------------------------
(***************************************************************************)
(* What a ferry's outbox does for those who do not see its flushes: a       *)
(* bounded queue in front of a wire, with one operation at a time between   *)
(* the two.  An operation is written from the front, stays queued while its *)
(* send is under way, and is popped, from the front, when the send returns; *)
(* nothing is written beside it, however many flushes there are and however *)
(* connections follow each other.                                           *)
(***************************************************************************)
EXTENDS Integers, Sequences

CONSTANTS
  Operation,   \* what may be queued
  NoOp,        \* nothing is being sent
  OutboxMax    \* how many operations are kept

VARIABLES
  queue,       \* what has yet to be sent, oldest first
  sending,     \* the operation written last, while its send is under way
  wire         \* what was written on the connection and not read

vars == <<queue, sending, wire>>

----------------------------------------------------------------------------

Init ==
  /\ queue = <<>>
  /\ sending = NoOp
  /\ wire = <<>>

\* An operation joins; of a full outbox the oldest one goes.
Enqueue(op) ==
  /\ queue' = Append(IF Len(queue) < OutboxMax THEN queue ELSE Tail(queue), op)
  /\ UNCHANGED <<sending, wire>>

\* What is in front of rest, a queue, goes out, or nothing does.
Goes(rest) ==
  \/ /\ rest # <<>>
     /\ sending' = Head(rest)
     /\ wire' = Append(wire, Head(rest))
  \/ sending' = NoOp /\ UNCHANGED wire

Write ==
  /\ sending = NoOp
  /\ Goes(queue)
  /\ UNCHANGED queue

\* The send returns, and the next operation may go out at once.
Pop ==
  /\ sending # NoOp /\ queue # <<>>
  /\ queue' = Tail(queue)
  /\ Goes(Tail(queue))

\* The send raises; the operation stays.
Raise ==
  /\ sending' = NoOp
  /\ UNCHANGED <<queue, wire>>

\* The hub reads.
Read ==
  /\ wire # <<>>
  /\ wire' = Tail(wire)
  /\ UNCHANGED <<queue, sending>>

\* A connection ends, and with it, perhaps, the process.
Reset ==
  /\ sending' = NoOp
  /\ wire' = <<>>
  /\ queue' \in {queue, <<>>}

Next ==
  \/ \E op \in Operation : Enqueue(op)
  \/ Write \/ Pop \/ Raise
  \/ Read
  \/ Reset

Spec == Init /\ [][Next]_vars
=============================================================================
