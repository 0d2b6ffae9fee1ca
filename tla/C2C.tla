-------------------------------- MODULE C2C --------------------------------
(***************************************************************************)
(* The whole of c2c at work on messages from session to session: the outbox *)
(* and the link of every ferry (hubclient.py), its announcer (__main__.py), *)
(* what it does with a message it is delivered (app.py, dedup.py), and the  *)
(* hub (server.py) over its mailbox (mailbox.py).                           *)
(*                                                                          *)
(* It joins what HubClient, HubServer and Ferry look at closely, so each    *)
(* part is coarser here: a drain or a push to one host is one step (how     *)
(* they interleave is HubServer), the ferry goes through its candidates in  *)
(* one step (Ferry), flushes take turns (HubClient).  What it keeps is what *)
(* lies between them: operations queued, written, read or lost with a       *)
(* connection, deliveries on their way, the kill of a ferry or of the hub   *)
(* at any point, and what makes the hub deliver again.                      *)
(***************************************************************************)
EXTENDS Integers, Sequences, FiniteSets, SequencesExt

CONSTANTS
  Host, Project, NoHost, Envelopes, MaxPerProject, Clock,  \* see Mailbox
  Session,    \* the sessions that may take messages: [id, host, project]
  Deaf,       \* those that live, are ranked, and refuse every inject
  OutboxMax,  \* OUTBOX_MAX
  Attempts,   \* MAX_INJECT_ATTEMPTS
  MaxMoves,   \* bound: sessions that start or end
  MaxFaults   \* bound: connections and processes that break

VARIABLES
  messages, acks, now,  \* the mailbox
  outbox,    \* per host: _outbox
  sending,   \* per host: the operation _flush has written and not popped
  up,        \* per host: operations written that the hub has not read
  down,      \* per host: envelopes sent that the ferry has not read
  link,      \* per host: whether it has a connection
  last,      \* per host: what its announcer announced last
  seen,      \* per host: Dedup._seen
  reader,    \* per host: the envelope whose inject has written, or NoEnvelope
  live,      \* the sessions that run
  said,      \* history: messages sent by sessions
  stored,    \* history: messages put into the mailbox
  taken,     \* history: messages a session of the target took
  moves, faults

mailbox == <<messages, acks, now>>
ferry == <<outbox, sending, last, seen, reader>>
wires == <<up, down, link>>
history == <<said, stored, taken>>
vars == <<mailbox, ferry, wires, live, history, moves, faults>>

MB == INSTANCE Mailbox

\* Every envelope a ferry builds is aimed at a host, under a fresh id
\* (build_envelope), and a candidate that answers is among the first Attempts.
ASSUME C2CAssumption ==
  /\ Envelopes \subseteq MB!EnvelopeType
  /\ \A env \in Envelopes : env.target_kind = "host" /\ env.target_host \in Host
  /\ \A m, n \in Envelopes : m.msg_id = n.msg_id => m = n
  /\ NoHost \notin Host
  /\ MaxPerProject \in Nat
  /\ Clock \subseteq Nat /\ Clock # {}
  /\ \A s \in Session : s.host \in Host /\ s.project \in Project
  /\ Deaf \subseteq Session /\ IsFiniteSet(Deaf) /\ Cardinality(Deaf) < Attempts
  /\ OutboxMax \in Nat \ {0} /\ Attempts \in Nat
  /\ MaxMoves \in Nat /\ MaxFaults \in Nat

----------------------------------------------------------------------------
(* Operations and the outbox *)

NoEnvelope == [msg_id |-> 0]

Post(m) == [op |-> "post", env |-> m]
AckOf(m) == [op |-> "ack", env |-> m]
Announce == [op |-> "announce"]
NoOp == [op |-> "none"]

Operation == {Post(m) : m \in Envelopes} \cup {AckOf(m) : m \in Envelopes} \cup {Announce}

\* Mutant: a full outbox is not cut.
EnqueueUnbounded(h, op) ==
  /\ outbox' = [outbox EXCEPT ![h] = Append(@, op)]
  /\ UNCHANGED faults

\* _enqueue: a full outbox drops its oldest operation.
Enqueue(h, op) ==
  IF Len(outbox[h]) < OutboxMax
  THEN /\ outbox' = [outbox EXCEPT ![h] = Append(@, op)]
       /\ UNCHANGED faults
  ELSE /\ outbox' = [outbox EXCEPT ![h] = Append(Tail(@), op)]
       /\ faults' = faults + 1

\* A session of the origin host sends m (on_local_message).
Say(m) ==
  /\ m \notin said
  /\ said' = said \cup {m}
  /\ Enqueue(m.origin_host, Post(m))
  /\ UNCHANGED <<mailbox, sending, last, seen, reader, wires, live, stored,
                 taken, moves>>

\* _flush writes the oldest operation...
Write(h) ==
  /\ link[h] /\ sending[h] = NoOp /\ outbox[h] # <<>>
  /\ sending' = [sending EXCEPT ![h] = Head(outbox[h])]
  /\ up' = [up EXCEPT ![h] = Append(@, Head(outbox[h]))]
  /\ UNCHANGED <<mailbox, outbox, last, seen, reader, down, link, live, history,
                 moves, faults>>

\* ... and pops it when the send returns, or, if a full outbox dropped it
\* meanwhile, the one behind it.
Pop(h) ==
  /\ sending[h] # NoOp /\ outbox[h] # <<>>
  /\ outbox' = [outbox EXCEPT ![h] = Tail(@)]
  /\ sending' = [sending EXCEPT ![h] = NoOp]
  /\ faults' = IF Head(outbox[h]) = sending[h] THEN faults ELSE faults + 1
  /\ UNCHANGED <<mailbox, last, seen, reader, wires, live, history, moves>>

----------------------------------------------------------------------------
(* The hub *)

\* What _drain sends to host h, oldest first.  Envelopes for a host are
\* pending whichever projects it announced.
Drains(h) ==
  {order \in SetToSeqs(MB!PendingFor(h, {})) :
     \A i, j \in DOMAIN order : i < j => MB!Older(order[i], order[j])}

\* A ferry that is not inside on_deliver opens a connection again: hello,
\* welcome, drain.
Connect(h) ==
  /\ ~ link[h] /\ reader[h] = NoEnvelope
  /\ link' = [link EXCEPT ![h] = TRUE]
  /\ \E more \in Drains(h) : down' = [down EXCEPT ![h] = more]
  /\ UNCHANGED <<mailbox, ferry, up, live, history, moves, faults>>

\* The hub reads the next operation of host h.
Reads(h, op) ==
  /\ up[h] # <<>> /\ op = Head(up[h])
  /\ up' = [up EXCEPT ![h] = Tail(@)]
  /\ UNCHANGED <<ferry, link, live, said, taken, moves, faults>>

\* Mutant: the hub pushes first, and stores what it could not push.
HubPostPushOrPut(h, m) ==
  /\ Reads(h, Post(m))
  /\ LET t == m.target_host
     IN IF link[t]
        THEN /\ down' = [down EXCEPT ![t] = Append(@, m)]
             /\ UNCHANGED <<mailbox, stored>>
        ELSE /\ MB!Put(m)
             /\ stored' = stored \cup {m}
             /\ UNCHANGED down

\* _on_post: store it, then push it to its target if that is connected.
HubPost(h, m) ==
  /\ Reads(h, Post(m))
  /\ MB!Put(m)
  /\ stored' = stored \cup {m}
  /\ LET t == m.target_host
     IN down' = IF link[t] THEN [down EXCEPT ![t] = Append(@, m)] ELSE down

HubAck(h, m) ==
  /\ Reads(h, AckOf(m))
  /\ MB!Ack(m.msg_id, h)
  /\ UNCHANGED <<down, stored>>

\* An announce drains too.
HubAnnounce(h) ==
  /\ Reads(h, Announce)
  /\ \E more \in Drains(h) : down' = [down EXCEPT ![h] = @ \o more]
  /\ UNCHANGED <<mailbox, stored>>

\* The hub's sweeper, and time.
Sweep ==
  /\ MB!SweepExpired
  /\ UNCHANGED <<ferry, wires, live, history, moves, faults>>
Tick ==
  /\ MB!Tick
  /\ UNCHANGED <<ferry, wires, live, history, moves, faults>>

----------------------------------------------------------------------------
(* A ferry and what it is delivered: on_deliver *)

\* A session that takes messages for m's project runs on m's target.
Serves(s, m) == s.host = m.target_host /\ s.project = m.project /\ s \notin Deaf

Receives(h, m) ==
  /\ reader[h] = NoEnvelope
  /\ down[h] # <<>> /\ m = Head(down[h])
  /\ down' = [down EXCEPT ![h] = Tail(@)]
  /\ UNCHANGED <<mailbox, sending, last, up, link, live, said, stored, moves>>

DeliverDuplicate(h, m) ==
  /\ Receives(h, m)
  /\ m \in seen[h]
  /\ Enqueue(h, AckOf(m))
  /\ UNCHANGED <<seen, reader, taken>>

\* Mutant: it is held as soon as one candidate refuses.
HoldAtFirstRefusal(h, m) ==
  /\ Receives(h, m)
  /\ m \notin seen[h]
  /\ \/ \A s \in live : ~ Serves(s, m)
     \/ \E s \in live \cap Deaf : s.host = h /\ s.project = m.project
  /\ UNCHANGED <<outbox, seen, reader, taken, faults>>

\* No candidate, or every one refused: neither recorded nor acknowledged.
Hold(h, m) ==
  /\ Receives(h, m)
  /\ m \notin seen[h]
  /\ \A s \in live : ~ Serves(s, m)
  /\ UNCHANGED <<outbox, seen, reader, taken, faults>>

\* A candidate takes it, and inject sleeps...
Inject(h, m) ==
  /\ Receives(h, m)
  /\ m \notin seen[h]
  /\ \E s \in live : Serves(s, m)
  /\ taken' = taken \cup {m}
  /\ reader' = [reader EXCEPT ![h] = m]
  /\ UNCHANGED <<outbox, seen, faults>>

\* ... and returns: only now is the message recorded and acknowledged.
Delivered(h, m) ==
  /\ m # NoEnvelope /\ reader[h] = m
  /\ reader' = [reader EXCEPT ![h] = NoEnvelope]
  /\ seen' = [seen EXCEPT ![h] = @ \cup {m}]
  /\ Enqueue(h, AckOf(m))
  /\ UNCHANGED <<mailbox, sending, last, wires, live, history, moves>>

\* The dedup window of some messages ends.
WindowEnds(h) ==
  /\ \E rest \in SUBSET seen[h] : rest # seen[h] /\ seen' = [seen EXCEPT ![h] = rest]
  /\ UNCHANGED <<mailbox, outbox, sending, last, reader, wires, live, history,
                 moves, faults>>

----------------------------------------------------------------------------
(* The announcer *)

\* Ferry.live_projects.
LiveProjects(h) == {s.project : s \in {x \in live : x.host = h}}

\* Mutant: the list is compared after it was replaced.
AnnouncerTickForgets(h) ==
  /\ LiveProjects(h) # last[h]
  /\ last' = [last EXCEPT ![h] = LiveProjects(h)]
  /\ UNCHANGED <<mailbox, outbox, sending, seen, reader, wires, live, history,
                 moves, faults>>

\* Every 15 s: announce the list if it is not the one announced last.
AnnouncerTick(h) ==
  /\ LiveProjects(h) # last[h]
  /\ last' = [last EXCEPT ![h] = LiveProjects(h)]
  /\ Enqueue(h, Announce)
  /\ UNCHANGED <<mailbox, sending, seen, reader, wires, live, history, moves>>

----------------------------------------------------------------------------
(* Environment *)

SessionStarts(s) ==
  /\ s \notin live /\ moves < MaxMoves
  /\ live' = live \cup {s} /\ moves' = moves + 1
  /\ UNCHANGED <<mailbox, ferry, wires, history, faults>>

SessionEnds(s) ==
  /\ s \in live /\ moves < MaxMoves
  /\ live' = live \ {s} /\ moves' = moves + 1
  /\ UNCHANGED <<mailbox, ferry, wires, history, faults>>

\* Host h loses its connection with everything on its way; the send under way
\* raises.
Unlinked(h) ==
  /\ link' = [link EXCEPT ![h] = FALSE]
  /\ up' = [up EXCEPT ![h] = <<>>]
  /\ down' = [down EXCEPT ![h] = <<>>]
  /\ sending' = [sending EXCEPT ![h] = NoOp]
  /\ faults < MaxFaults /\ faults' = faults + 1

Break(h) ==
  /\ link[h]
  /\ Unlinked(h)
  /\ UNCHANGED <<mailbox, outbox, last, seen, reader, live, history, moves>>

\* The ferry is killed and started again: all it knew was in memory.
KillFerry(h) ==
  /\ Unlinked(h)
  /\ outbox' = [outbox EXCEPT ![h] = <<>>]
  /\ last' = [last EXCEPT ![h] = {}]
  /\ seen' = [seen EXCEPT ![h] = {}]
  /\ reader' = [reader EXCEPT ![h] = NoEnvelope]
  /\ UNCHANGED <<mailbox, live, history, moves>>

\* The hub is killed and started again: its tables are on disk.
KillHub ==
  /\ link' = [h \in Host |-> FALSE]
  /\ up' = [h \in Host |-> <<>>]
  /\ down' = [h \in Host |-> <<>>]
  /\ sending' = [h \in Host |-> NoOp]
  /\ faults < MaxFaults /\ faults' = faults + 1
  /\ UNCHANGED <<mailbox, outbox, last, seen, reader, live, history, moves>>

----------------------------------------------------------------------------

Init ==
  /\ MB!Init
  /\ outbox = [h \in Host |-> <<>>]
  /\ sending = [h \in Host |-> NoOp]
  /\ up = [h \in Host |-> <<>>]
  /\ down = [h \in Host |-> <<>>]
  /\ link = [h \in Host |-> FALSE]
  /\ last = [h \in Host |-> {}]
  /\ seen = [h \in Host |-> {}]
  /\ reader = [h \in Host |-> NoEnvelope]
  /\ live \in SUBSET Session
  /\ said = {} /\ stored = {} /\ taken = {}
  /\ moves = 0 /\ faults = 0

\* The hub's handler of host h's connection.
HubStep(h) ==
  (\E m \in Envelopes : HubPost(h, m) \/ HubAck(h, m)) \/ HubAnnounce(h)

\* The ferry's reader of the link.
ReaderStep(h) ==
  \E m \in Envelopes :
    DeliverDuplicate(h, m) \/ Hold(h, m) \/ Inject(h, m) \/ Delivered(h, m)

FlushStep(h) == Write(h) \/ Pop(h)

Next ==
  \/ \E m \in Envelopes : Say(m)
  \/ \E h \in Host :
       \/ FlushStep(h)
       \/ Connect(h)
       \/ HubStep(h)
       \/ ReaderStep(h)
       \/ WindowEnds(h)
       \/ AnnouncerTick(h)
       \/ Break(h)
       \/ KillFerry(h)
  \/ \E s \in Session : SessionStarts(s) \/ SessionEnds(s)
  \/ KillHub
  \/ Sweep
  \/ Tick

Spec == Init /\ [][Next]_vars

\* The event loops run their tasks, HubClient.run connects again for ever, and
\* the announcer ticks.  Nothing makes sessions speak, start or end, nor time
\* pass, nor anything break.
Fairness ==
  \A h \in Host :
    /\ WF_vars(FlushStep(h)) /\ WF_vars(Connect(h)) /\ WF_vars(HubStep(h))
    /\ WF_vars(ReaderStep(h)) /\ WF_vars(AnnouncerTick(h))

FairSpec == Spec /\ Fairness

----------------------------------------------------------------------------

(***************************************************************************)
(* The state has its types.                                                 *)
(***************************************************************************)
TypeOK ==
  /\ MB!TypeOK
  /\ outbox \in [Host -> Seq(Operation)]
  /\ \A h \in Host : Len(outbox[h]) <= OutboxMax
  /\ sending \in [Host -> Operation \cup {NoOp}]
  /\ up \in [Host -> Seq(Operation)]
  /\ down \in [Host -> Seq(Envelopes)]
  /\ link \in [Host -> BOOLEAN]
  /\ last \in [Host -> SUBSET Project]
  /\ seen \in [Host -> SUBSET Envelopes]
  /\ reader \in [Host -> Envelopes \cup {NoEnvelope}]
  /\ live \subseteq Session
  /\ said \subseteq Envelopes /\ stored \subseteq Envelopes
  /\ taken \subseteq Envelopes
  /\ moves \in 0 .. MaxMoves /\ faults \in Nat

\* The messages in an outbox or on their way to the hub.
OnTheWay ==
  {m \in Envelopes : \E h \in Host : Post(m) \in Range(outbox[h]) \cup Range(up[h])}

\* The messages the mailbox owes to their target.
Kept == {m \in Envelopes : MB!Owed(m, m.target_host)}

Promise == INSTANCE Relay WITH
  sent <- said, waiting <- OnTheWay, kept <- Kept

(***************************************************************************)
(* What hub and ferries promise together (README.md, "How it works"): once  *)
(* the hub has stored a message nothing but its delivery, its expiry or     *)
(* newer messages of its project ends its stay there, whatever breaks in    *)
(* whichever order; before that only a fault loses it, and no session takes *)
(* what was never stored.                                                   *)
(***************************************************************************)
KeepsPromise == Promise!Spec

\* Message m is nowhere any more: neither on its way nor owed.
Gone(m) == m \notin OnTheWay \cup Kept

(***************************************************************************)
(* A message that finds a session that takes it, and stays, is taken in the *)
(* end, over every reconnection, refusal of other sessions and          *)
(* acknowledgement that is lost, unless the message itself is gone.         *)
(***************************************************************************)
ArrivesWhileServed ==
  \A m \in Envelopes, s \in Session \ Deaf :
    m \in OnTheWay \ stored /\ s \in live /\ Serves(s, m)
      ~> m \in taken \/ s \notin live \/ Gone(m)

\* Something will make the hub drain for m's target: it has yet to connect, or
\* its announcer has yet to announce m's project.
WillDrain(m) ==
  ~ link[m.target_host] \/ m.project \notin last[m.target_host]

(***************************************************************************)
(* A message the hub holds comes again, when its target connects or its     *)
(* announcer reports the project, to a session that started meanwhile.      *)
(***************************************************************************)
HeldComesBack ==
  \A m \in Envelopes, s \in Session \ Deaf, k \in 0 .. MaxFaults :
    m \in Kept /\ WillDrain(m) /\ s \in live /\ Serves(s, m) /\ faults = k
      ~> m \in taken \/ m \notin Kept \/ s \notin live \/ faults > k

(***************************************************************************)
(* README.md:88: the hub holds a message until something runs its project:  *)
(* one that is owed while a session that takes it is there does not stay    *)
(* owed for ever.                                                           *)
(***************************************************************************)
HeldUntilServed ==
  \A m \in Envelopes, s \in Session \ Deaf :
    []<>(~ (m \in Kept /\ s \in live /\ Serves(s, m)))
=============================================================================
