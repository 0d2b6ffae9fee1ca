----------------------------- MODULE HubClient -----------------------------
(***************************************************************************)
(* The ferry's side of the link to the hub (src/src/c2c/ferry/hubclient.py): *)
(* a bounded outbox of operations, flushed by short-lived tasks that take   *)
(* turns through an asyncio lock, over a connection that run() keeps        *)
(* opening again.                                                           *)
(*                                                                          *)
(* A send writes its frame at once and may then wait for buffer space, so   *)
(* a flush suspends after each write; the operation leaves the outbox when  *)
(* the send returns.  What the reader does with the frames it receives is   *)
(* the subject of Ferry.                                                    *)
(***************************************************************************)
EXTENDS Integers, Sequences, SequencesExt

CONSTANTS
  OutboxMax,   \* OUTBOX_MAX
  MaxOps       \* bound: operations the ferry queues

ASSUME ClientAssumption ==
  OutboxMax \in Nat \ {0} /\ MaxOps \in Nat

VARIABLES
  enqueued,    \* operations queued so far; they are numbered in that order
  outbox,      \* _outbox
  phase,       \* where connect_once is: "down" is run()'s backoff
  ws,          \* _ws is not None
  up,          \* the connection is open: a send on it does not raise
  connected,   \* _connected
  holder,      \* who holds _flush_lock: "nobody", "task", "reader"
  waiting,     \* the flushes waiting for it, in order
  sending,     \* the operation the holder has written and not popped, or 0
  wire         \* history: the operations written on this connection

vars == <<enqueued, outbox, phase, ws, up, connected, holder, waiting, sending,
          wire>>

Phases == {"down", "hello", "flushing", "listening"}

----------------------------------------------------------------------------
(* _flush *)

\* A flush that ends lets the reader, if it was its own, go on to listen.
Release(who) ==
  /\ holder' = "nobody"
  /\ sending' = 0
  /\ phase' = IF who = "reader" THEN "listening" ELSE phase
  /\ UNCHANGED wire

\* The loop of _flush on outbox box: write the oldest operation, or stop when
\* there is none, no connection, or a closed one.
Proceed(who, box) ==
  IF box # <<>> /\ ws /\ up
  THEN /\ holder' = who
       /\ sending' = Head(box)
       /\ wire' = Append(wire, Head(box))
       /\ UNCHANGED phase
  ELSE Release(who)

\* Mutant: _flush takes no lock.
FlushTurnUnlocked ==
  /\ waiting # <<>>
  /\ waiting' = Tail(waiting)
  /\ Proceed(Head(waiting), outbox)
  /\ UNCHANGED <<enqueued, outbox, ws, up, connected>>

\* The lock is free: the first flush in line runs up to its first write.
FlushTurn ==
  /\ holder = "nobody"
  /\ waiting # <<>>
  /\ waiting' = Tail(waiting)
  /\ Proceed(Head(waiting), outbox)
  /\ UNCHANGED <<enqueued, outbox, ws, up, connected>>

\* A send returns: the oldest operation is popped and the loop goes on.
SendReturns ==
  /\ holder # "nobody" /\ up
  /\ outbox' = Tail(outbox)
  /\ Proceed(holder, Tail(outbox))
  /\ UNCHANGED <<enqueued, ws, up, connected, waiting>>

\* Mutant: the operation is popped whether or not the send raised.
SendRaisesPops ==
  /\ holder # "nobody" /\ ~ up
  /\ outbox' = Tail(outbox)
  /\ Release(holder)
  /\ UNCHANGED <<enqueued, ws, up, connected, waiting>>

\* A send raises ConnectionClosed: the operation stays for the next connection.
SendRaises ==
  /\ holder # "nobody" /\ ~ up
  /\ Release(holder)
  /\ UNCHANGED <<enqueued, outbox, ws, up, connected, waiting>>

----------------------------------------------------------------------------
(* _enqueue *)

\* Mutant: a full outbox is not cut.
PushedUnbounded(op) == Append(outbox, op)

\* deque(maxlen=OUTBOX_MAX).append.
Pushed(op) ==
  Append(IF Len(outbox) = OutboxMax THEN Tail(outbox) ELSE outbox, op)

\* post, ack or announce: queue it and, when connected, have it flushed.
Enqueue ==
  /\ enqueued < MaxOps
  /\ enqueued' = enqueued + 1
  /\ outbox' = Pushed(enqueued + 1)
  /\ waiting' = IF connected /\ ws THEN Append(waiting, "task") ELSE waiting
  /\ UNCHANGED <<phase, ws, up, connected, holder, sending, wire>>

----------------------------------------------------------------------------
(* connect_once, run *)

\* A connection is opened and hello is on its way.  Flushes of the connection
\* before have ended: run() sleeps a second at least, and they have nothing to
\* wait for.
Connect ==
  /\ phase = "down" /\ ~ up /\ holder = "nobody" /\ waiting = <<>>
  /\ phase' = "hello"
  /\ ws' = TRUE /\ up' = TRUE
  /\ wire' = <<>>
  /\ UNCHANGED <<enqueued, outbox, connected, holder, waiting, sending>>

\* Mutant: what was queued while disconnected is not flushed on welcome.
WelcomeNoFlush ==
  /\ phase = "hello" /\ up
  /\ connected' = TRUE
  /\ phase' = "listening"
  /\ UNCHANGED <<enqueued, outbox, ws, up, holder, waiting, sending, wire>>

\* The hub welcomes: the reader flushes the outbox before it listens.
Welcome ==
  /\ phase = "hello" /\ up
  /\ connected' = TRUE
  /\ phase' = "flushing"
  /\ waiting' = Append(waiting, "reader")
  /\ UNCHANGED <<enqueued, outbox, ws, up, holder, sending, wire>>

\* The hub refuses the hello, and closes.
Refused ==
  /\ phase = "hello" /\ up
  /\ phase' = "down" /\ ws' = FALSE /\ up' = FALSE /\ connected' = FALSE
  /\ UNCHANGED <<enqueued, outbox, holder, waiting, sending, wire>>

\* The connection breaks before the welcome: connect_once raises and leaves
\* _ws behind.
HelloFails ==
  /\ phase = "hello" /\ ~ up
  /\ phase' = "down"
  /\ UNCHANGED <<enqueued, outbox, ws, up, connected, holder, waiting, sending,
                 wire>>

\* The connection is lost, by either side or on the way.
Breaks ==
  /\ up
  /\ up' = FALSE
  /\ UNCHANGED <<enqueued, outbox, phase, ws, connected, holder, waiting, sending,
                 wire>>

\* The listen loop ends, because the connection did or because a callback
\* raised an OSError: the finally clause.  In the second case the connection
\* is still open, and a send may yet return, until leaving connect_once
\* closes it.
ListenEnds ==
  /\ phase = "listening"
  /\ phase' = "down" /\ ws' = FALSE /\ connected' = FALSE
  /\ UNCHANGED <<enqueued, outbox, up, holder, waiting, sending, wire>>

----------------------------------------------------------------------------

Init ==
  /\ enqueued = 0
  /\ outbox = <<>>
  /\ phase = "down"
  /\ ws = FALSE /\ up = FALSE /\ connected = FALSE
  /\ holder = "nobody"
  /\ waiting = <<>>
  /\ sending = 0
  /\ wire = <<>>

FlushStep == FlushTurn \/ SendReturns \/ SendRaises

Next ==
  \/ FlushStep
  \/ Enqueue
  \/ Connect \/ Welcome \/ Refused \/ HelloFails
  \/ Breaks
  \/ ListenEnds

Spec == Init /\ [][Next]_vars

\* The event loop runs, and a send returns or raises (the keepalive ends one
\* that waits for a peer that is gone).
FairSpec == Spec /\ WF_vars(FlushStep)

----------------------------------------------------------------------------

(***************************************************************************)
(* The state has its types; there is one write under way while the lock is  *)
(* held, and the outbox keeps to its limit.                                 *)
(***************************************************************************)
TypeOK ==
  /\ enqueued \in 0 .. MaxOps
  /\ outbox \in Seq(1 .. MaxOps) /\ Len(outbox) <= OutboxMax
  /\ phase \in Phases
  /\ {ws, up, connected} \subseteq BOOLEAN
  /\ holder \in {"nobody", "task", "reader"}
  /\ waiting \in Seq({"task", "reader"})
  /\ sending \in 0 .. MaxOps
  /\ holder = "nobody" <=> sending = 0
  /\ wire \in Seq(1 .. MaxOps)

(***************************************************************************)
(* On one connection operations are written in the order they were queued,  *)
(* each once, and none still in the outbox has been overtaken: a post never *)
(* passes an earlier announce or ack, whichever flush takes which.          *)
(***************************************************************************)
InOrder ==
  /\ \A i, j \in DOMAIN wire : i < j => wire[i] < wire[j]
  /\ \A op \in Range(outbox) \ Range(wire) : \A w \in Range(wire) : w < op

\* The operation leaves as the oldest one of a full outbox.
DroppedWhenFull(op) ==
  Enqueue /\ Len(outbox) = OutboxMax /\ op = Head(outbox)

\* The operation leaves because its own send has returned.
Sent(op) == SendReturns /\ op = sending

(***************************************************************************)
(* An operation leaves the outbox only when its send has returned (a send   *)
(* that raised, a refusal, a reconnection never cost one) or as the oldest  *)
(* of a full outbox, but for one case: the operation being written was      *)
(* itself dropped meanwhile, and the pop takes the one behind it.           *)
(***************************************************************************)
NothingElseSkipped ==
  [][\A op \in Range(outbox) \ Range(outbox') :
       \/ Sent(op)
       \/ DroppedWhenFull(op)
       \/ SendReturns /\ Head(outbox) # sending]_vars

Single == INSTANCE Outbox WITH
  Operation <- 1 .. MaxOps, NoOp <- 0, queue <- outbox

(***************************************************************************)
(* However many flushes wait for their turn, end early, or outlive the      *)
(* connection they were made for, the outbox acts as a queue with a single  *)
(* sender, which C2C takes it for: what is written is what is in front, one *)
(* at a time, and what is popped is what is in front then.                  *)
(***************************************************************************)
OneSender == Single!Spec

(***************************************************************************)
(* While a welcomed connection lasts, everything queued gets written, also  *)
(* what was queued while another flush was about to end.                    *)
(***************************************************************************)
Flushed ==
  connected /\ up ~> outbox = <<>> \/ ~ (connected /\ up)
=============================================================================
