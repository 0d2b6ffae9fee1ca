-------------------------------- MODULE Link --------------------------------
(***************************************************************************)
(* Ferries and hub over connections that hold only so much: who waits for   *)
(* whom (hubclient.py, server.py).                                          *)
(*                                                                          *)
(* A send returns when the connection has room behind its frame.  The ferry *)
(* flushes its outbox before it listens, and then flushes and listens side  *)
(* by side; the hub's handler of a connection reads no frame while it       *)
(* drains to it, or pushes to another that is full.  So both ends of a      *)
(* connection, or the handlers of several, can come to wait for each other, *)
(* and only the keepalive of the websocket library ends that.  The library  *)
(* reads ahead, so a connection has room for one frame at least.            *)
(*                                                                          *)
(* Both ends learn at once that a connection is gone (see HubServer), the   *)
(* outbox never overflows (see HubClient), and whatever is delivered is     *)
(* taken (see Ferry).                                                       *)
(***************************************************************************)
EXTENDS Integers, Sequences, FiniteSets, SequencesExt

CONSTANTS
  Host, NoHost,
  Message,      \* the envelopes: [id, from, to]
  Room,         \* how many frames wait in a connection before a send does
  MaxBreaks,    \* bound: connections that break
  MaxAnnounces  \* bound: announces

ASSUME LinkAssumption ==
  /\ NoHost \notin Host
  /\ \A m \in Message : m.id \in Nat /\ m.from \in Host /\ m.to \in Host
  /\ Room \in Nat \ {0}
  /\ MaxBreaks \in Nat /\ MaxAnnounces \in Nat

VARIABLES
  said,       \* the messages sessions have sent
  outbox,     \* per host: _outbox
  sending,    \* per host: _flush has written the oldest operation and waits
  client,     \* per host: where connect_once is
  up, down,   \* per host: the frames on their way to the hub, to the ferry
  todo,       \* per host: the frames its handler at the hub has yet to send
  waits,      \* per host: whose connection that handler waits for
  left,       \* pushes that handlers of lost connections have yet to make
  stored, acked,      \* the mailbox
  breaks, announces

ends == <<outbox, sending, client>>
handlers == <<todo, waits, left>>
mailbox == <<stored, acked>>
vars == <<said, ends, up, down, handlers, mailbox, breaks, announces>>

----------------------------------------------------------------------------

Post(m) == [op |-> "post", env |-> m]
AckOf(m) == [op |-> "ack", env |-> m]
Announce == [op |-> "announce"]
Operation == {Post(m) : m \in Message} \cup {AckOf(m) : m \in Message} \cup {Announce}

Deliver(m) == [op |-> "deliver", env |-> m, to |-> m.to]
Status(m) == [op |-> "status", env |-> m, to |-> m.from]
Frame == {Deliver(m) : m \in Message} \cup {Status(m) : m \in Message}

Up(h) == client[h] # "down"

\* pending_for
Pending(h) == {m \in stored \ acked : m.to = h}
Drain(h) == {Deliver(m) : m \in Pending(h)}

\* A connection with no room left makes a send on it wait.
Full(q) == Len(q) > Room

----------------------------------------------------------------------------
(* The ferry *)

\* Messages are numbered in the order they are sent.
Say(m) ==
  /\ m \notin said
  /\ \A n \in Message \ said : m.id <= n.id
  /\ said' = said \cup {m}
  /\ outbox' = [outbox EXCEPT ![m.from] = Append(@, Post(m))]
  /\ UNCHANGED <<sending, client, up, down, handlers, mailbox, breaks, announces>>

Announces(h) ==
  /\ announces < MaxAnnounces /\ announces' = announces + 1
  /\ outbox' = [outbox EXCEPT ![h] = Append(@, Announce)]
  /\ UNCHANGED <<said, sending, client, up, down, handlers, mailbox, breaks>>

\* run() is between two connections.
MayConnect(h) == ~ Up(h)

\* hello and welcome; the hub's drain and the ferry's flush begin.
Connect(h) ==
  /\ MayConnect(h)
  /\ client' = [client EXCEPT ![h] = "flushing"]
  /\ todo' = [todo EXCEPT ![h] = Drain(h)]
  /\ UNCHANGED <<said, outbox, sending, up, down, waits, left, mailbox, breaks,
                 announces>>

\* Mutant: flushes do not take turns.
WriteUnlocked(h) ==
  /\ Up(h) /\ outbox[h] # <<>>
  /\ up' = [up EXCEPT ![h] = Append(@, Head(outbox[h]))]
  /\ IF Full(up'[h])
     THEN sending' = [sending EXCEPT ![h] = TRUE] /\ UNCHANGED outbox
     ELSE outbox' = [outbox EXCEPT ![h] = Tail(@)] /\ UNCHANGED sending
  /\ UNCHANGED <<said, client, down, handlers, mailbox, breaks, announces>>

\* There is something to flush and no flush under way.
MayWrite(h) == Up(h) /\ ~ sending[h] /\ outbox[h] # <<>>

\* _flush, of connect_once or of a task: the frame of the oldest operation goes
\* out, and if there is room behind it the operation is popped ...
Write(h) ==
  /\ MayWrite(h)
  /\ up' = [up EXCEPT ![h] = Append(@, Head(outbox[h]))]
  /\ IF Full(up'[h])
     THEN sending' = [sending EXCEPT ![h] = TRUE] /\ UNCHANGED outbox
     ELSE outbox' = [outbox EXCEPT ![h] = Tail(@)] /\ UNCHANGED sending
  /\ UNCHANGED <<said, client, down, handlers, mailbox, breaks, announces>>

MayReturn(h) == sending[h] /\ ~ Full(up[h])

\* ... or else once there is.
SendReturns(h) ==
  /\ MayReturn(h)
  /\ sending' = [sending EXCEPT ![h] = FALSE]
  /\ outbox' = [outbox EXCEPT ![h] = Tail(@)]
  /\ UNCHANGED <<said, client, up, down, handlers, mailbox, breaks, announces>>

MayListen(h) == client[h] = "flushing" /\ outbox[h] = <<>>

Listens(h) ==
  /\ MayListen(h)
  /\ client' = [client EXCEPT ![h] = "listening"]
  /\ UNCHANGED <<said, outbox, sending, up, down, handlers, mailbox, breaks, announces>>

\* The acknowledgement of a frame, if it wants one.
Acks(f) == IF f.op = "deliver" THEN <<AckOf(f.env)>> ELSE <<>>

\* Mutant: the reader awaits the flush of its acknowledgements.
MayReceiveFlushed(h) == client[h] = "listening" /\ down[h] # <<>> /\ outbox[h] = <<>>

MayReceive(h) == client[h] = "listening" /\ down[h] # <<>>

\* The reader takes a frame; a task of its own flushes the acknowledgement.
Receive(h) ==
  /\ MayReceive(h)
  /\ down' = [down EXCEPT ![h] = Tail(@)]
  /\ outbox' = [outbox EXCEPT ![h] = @ \o Acks(Head(down[h]))]
  /\ UNCHANGED <<said, sending, client, up, handlers, mailbox, breaks, announces>>

----------------------------------------------------------------------------
(* The hub's handler of host h *)

MayRead(h) == Up(h) /\ todo[h] = {} /\ waits[h] = NoHost /\ up[h] # <<>>

\* It has nothing to send, and reads the next operation.
Reads(h, op) ==
  /\ MayRead(h) /\ op = Head(up[h])
  /\ up' = [up EXCEPT ![h] = Tail(@)]
  /\ UNCHANGED <<said, ends, down, waits, left, breaks, announces>>

\* _on_post: store it, push it, tell the sender if its target's host is not
\* there or, as the hub sees it, has no such project.
HubPost(h, m) ==
  /\ Reads(h, Post(m))
  /\ stored' = stored \cup {m}
  /\ IF Up(m.to)
     THEN \E held \in SUBSET {Status(m)} :
            todo' = [todo EXCEPT ![h] = {Deliver(m)} \cup held]
     ELSE todo' = [todo EXCEPT ![h] = {Status(m)}]
  /\ UNCHANGED acked

HubAck(h, m) ==
  /\ Reads(h, AckOf(m))
  /\ acked' = acked \cup {m}
  /\ UNCHANGED <<stored, todo>>

HubAnnounce(h) ==
  /\ Reads(h, Announce)
  /\ todo' = [todo EXCEPT ![h] = Drain(h)]
  /\ UNCHANGED mailbox

\* A drain goes by age, and a post is pushed before its sender is told.
Before(f, g) ==
  f.env.id < g.env.id \/ (f.env = g.env /\ f.op = "deliver" /\ g.op = "status")
Oldest(h) == {f \in todo[h] : \A g \in todo[h] \ {f} : ~ Before(g, f)}

\* A frame is written; a connection that is gone swallows it.
Sent(f) == IF Up(f.to) THEN [down EXCEPT ![f.to] = Append(@, f)] ELSE down

MaySend(h) == Up(h) /\ waits[h] = NoHost /\ Oldest(h) # {}

HubSends(h) ==
  /\ MaySend(h)
  /\ \E f \in Oldest(h) :
       /\ todo' = [todo EXCEPT ![h] = @ \ {f}]
       /\ down' = Sent(f)
       /\ waits' = [waits EXCEPT ![h] = IF Full(down'[f.to]) THEN f.to ELSE NoHost]
  /\ UNCHANGED <<said, ends, up, left, mailbox, breaks, announces>>

MayGoOn(h) == waits[h] # NoHost /\ ~ Full(down[waits[h]])

HubSent(h) ==
  /\ MayGoOn(h)
  /\ waits' = [waits EXCEPT ![h] = NoHost]
  /\ UNCHANGED <<said, ends, up, down, todo, left, mailbox, breaks, announces>>

\* The handler of a connection that is lost still makes the push it was at.
LeftSends ==
  /\ \E f \in left : left' = left \ {f} /\ down' = Sent(f)
  /\ UNCHANGED <<said, ends, up, todo, waits, mailbox, breaks, announces>>

----------------------------------------------------------------------------
(* Connections end *)

\* Mutant: the push is part of the connection's handling and ends with it.
LostPushes(h) ==
  /\ Up(h)
  /\ client' = [client EXCEPT ![h] = "down"]
  /\ sending' = [sending EXCEPT ![h] = FALSE]
  /\ up' = [up EXCEPT ![h] = <<>>]
  /\ down' = [down EXCEPT ![h] = <<>>]
  /\ todo' = [todo EXCEPT ![h] = {}]
  /\ waits' = [waits EXCEPT ![h] = NoHost]
  /\ UNCHANGED <<said, outbox, left, mailbox, announces>>

Lost(h) ==
  /\ Up(h)
  /\ client' = [client EXCEPT ![h] = "down"]
  /\ sending' = [sending EXCEPT ![h] = FALSE]
  /\ up' = [up EXCEPT ![h] = <<>>]
  /\ down' = [down EXCEPT ![h] = <<>>]
  /\ todo' = [todo EXCEPT ![h] = {}]
  /\ left' = left \cup {f \in todo[h] : f.to # h}
  /\ waits' = [waits EXCEPT ![h] = NoHost]
  /\ UNCHANGED <<said, outbox, mailbox, announces>>

Break(h) ==
  /\ breaks < MaxBreaks /\ breaks' = breaks + 1
  /\ Lost(h)

FerryStep(h) == Connect(h) \/ Write(h) \/ SendReturns(h) \/ Listens(h)
ReaderStep(h) == Receive(h)
HandlerStep(h) ==
  \/ \E m \in Message : HubPost(h, m) \/ HubAck(h, m)
  \/ HubAnnounce(h) \/ HubSends(h) \/ HubSent(h)

Work ==
  \/ \E h \in Host : FerryStep(h) \/ ReaderStep(h) \/ HandlerStep(h)
  \/ LeftSends

\* Somebody is not stuck: the guards of Work, one by one.
SomebodyMoves ==
  \/ \E h \in Host : \/ MayConnect(h) \/ MayWrite(h) \/ MayReturn(h) \/ MayListen(h)
                     \/ MayReceive(h)
                     \/ MayRead(h) \/ MaySend(h) \/ MayGoOn(h)
  \/ left # {}

\* Somebody waits in a send, and nobody can move.
Jammed ==
  /\ \E h \in Host : sending[h] \/ waits[h] # NoHost
  /\ ~ SomebodyMoves

\* No pong has come for 20 s, since an end of the connection reads no more.
\* Time passes only once nothing else can happen.
TimesOut(h) ==
  /\ Jammed
  /\ Full(up[h]) \/ Full(down[h])
  /\ Lost(h)
  /\ UNCHANGED breaks

----------------------------------------------------------------------------

Init ==
  /\ said = {}
  /\ outbox = [h \in Host |-> <<>>]
  /\ sending = [h \in Host |-> FALSE]
  /\ client = [h \in Host |-> "down"]
  /\ up = [h \in Host |-> <<>>] /\ down = [h \in Host |-> <<>>]
  /\ todo = [h \in Host |-> {}]
  /\ waits = [h \in Host |-> NoHost] /\ left = {}
  /\ stored = {} /\ acked = {}
  /\ breaks = 0 /\ announces = 0

Next ==
  \/ \E m \in Message : Say(m)
  \/ \E h \in Host : Announces(h) \/ Break(h) \/ TimesOut(h)
  \/ Work

Spec == Init /\ [][Next]_vars

\* The event loops run, run() connects again, and the keepalive runs out.
FairSpec ==
  /\ Spec /\ WF_vars(LeftSends)
  /\ \A h \in Host :
       /\ WF_vars(FerryStep(h)) /\ WF_vars(ReaderStep(h)) /\ WF_vars(HandlerStep(h))
       /\ WF_vars(TimesOut(h))

----------------------------------------------------------------------------

(***************************************************************************)
(* The state has its types.  A ferry sends one frame at a time (the lock),  *)
(* so its connection holds at most one more than it has room for.           *)
(***************************************************************************)
TypeOK ==
  /\ said \subseteq Message /\ stored \subseteq said /\ acked \subseteq stored
  /\ outbox \in [Host -> Seq(Operation)]
  /\ sending \in [Host -> BOOLEAN]
  /\ client \in [Host -> {"down", "flushing", "listening"}]
  /\ up \in [Host -> Seq(Operation)] /\ down \in [Host -> Seq(Frame)]
  /\ \A h \in Host : Len(up[h]) <= Room + 1
  /\ todo \in [Host -> SUBSET Frame]
  /\ waits \in [Host -> Host \cup {NoHost}] /\ left \subseteq Frame
  /\ breaks \in 0 .. MaxBreaks /\ announces \in 0 .. MaxAnnounces

(***************************************************************************)
(* Nobody waits for somebody who waits in turn, unless a ferry that has     *)
(* just connected is still flushing (hubclient.py:77): once every ferry     *)
(* listens, posts, statuses, pushes, drains and acknowledgements pass each  *)
(* other however little the connections hold.                               *)
(***************************************************************************)
JamsOnlyAtConnect == Jammed => \E h \in Host : client[h] = "flushing" /\ sending[h]

\* Message m is on its way to the hub, or owed to its target.
Open(m) ==
  \/ \E h \in Host : Post(m) \in Range(outbox[h]) \cup Range(up[h])
  \/ m \in stored \ acked

(***************************************************************************)
(* Ferry and hub that wait for each other after a connect do not do so for  *)
(* ever: every message is acknowledged in the end, or lost with a           *)
(* connection before the hub had read it.                                   *)
(***************************************************************************)
JamsEnd == \A m \in Message : Open(m) ~> ~ Open(m)
=============================================================================
