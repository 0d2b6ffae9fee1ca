----------------------------- MODULE HubServer -----------------------------
(***************************************************************************)
(* The hub's websocket server (src/src/c2c/hub/server.py) over its mailbox. *)
(*                                                                          *)
(* One coroutine per connection runs handler(): hello, a drain of what the  *)
(* mailbox holds for the host, then one frame after another.  They share    *)
(* one event loop, the mailbox and the table _conns.  A coroutine suspends  *)
(* where it sends, waiting for the connection's turn or for buffer space,   *)
(* so every frame that is sent is an action of its own and any other        *)
(* handler may run before it.                                               *)
(*                                                                          *)
(* hello, the check of its token, the welcome and the registration are one  *)
(* action: the welcome is the first frame of a connection and cannot wait   *)
(* for buffer space.  A connection that fails them leaves nothing behind.   *)
(*                                                                          *)
(* The client side is the environment: a host has at most one connection it *)
(* still uses (HubClient.run), it may vanish at any time, the hub may only  *)
(* notice later, and frames the host sent before that may be read after it. *)
(***************************************************************************)
EXTENDS Integers, Sequences, FiniteSets

CONSTANTS
  Host, Project, NoHost, Envelopes, MaxPerProject, Clock,  \* see Mailbox
  MaxConns,     \* bound: connections that say hello
  MaxRestarts   \* bound: restarts of the hub process

VARIABLES
  messages, acks, now,   \* the mailbox
  conn,         \* the connections, in the order of their hello
  registered,   \* _conns: the index in conn of each host's connection, or 0
  restarts

mailbox == <<messages, acks, now>>
vars == <<messages, acks, now, conn, registered, restarts>>

MB == INSTANCE Mailbox

\* Mailbox's assumptions, and that an envelope for a host names one
\* (envelope.validate).
ASSUME HubAssumption ==
  /\ Envelopes \subseteq MB!EnvelopeType
  /\ \A env \in Envelopes : env.target_kind = "host" => env.target_host \in Host
  /\ NoHost \notin Host
  /\ MaxPerProject \in Nat
  /\ Clock \subseteq Nat /\ Clock # {}
  /\ {MaxConns, MaxRestarts} \subseteq Nat

----------------------------------------------------------------------------

NoEnvelope == [msg_id |-> 0]

\* Where the handler of a connection is suspended: sending a drain, waiting
\* for a frame, sending a posted envelope on, or finished.
Places == {"draining", "open", "pushing", "closed"}

\* A client still reads the connection, it is gone but the hub does not know,
\* or the hub knows and every send raises ConnectionClosed.
Links == {"up", "gone", "dropped"}

\* _drain takes the list of pending envelopes before it sends the first one.
Drain(c, ps) ==
  [c EXCEPT !.projects = ps, !.pc = "draining",
            !.todo = MB!PendingFor(c.host, ps)]

Connection ==
  [host : Host, projects : SUBSET Project, link : Links, pc : Places,
   todo : SUBSET Envelopes, env : Envelopes \cup {NoEnvelope},
   recipients : SUBSET (1 .. MaxConns), sent : SUBSET MB!Ids(Envelopes),
   posted : SUBSET MB!Ids(Envelopes)]

Fresh(h) ==
  [host |-> h, projects |-> {}, link |-> "up", pc |-> "open", todo |-> {},
   env |-> NoEnvelope, recipients |-> {}, sent |-> {}, posted |-> {}]

\* A host connects, is welcomed and registered, displacing its former
\* connection, and its drain begins.  Its client opens one connection at a time:
\* no hello of one that it abandoned comes late.
Hello(h, ps) ==
  /\ Len(conn) < MaxConns
  /\ \A i \in DOMAIN conn : conn[i].host = h => conn[i].link # "up"
  /\ conn' = Append(conn, Drain(Fresh(h), ps))
  /\ registered' = [registered EXCEPT ![h] = Len(conn) + 1]
  /\ UNCHANGED <<mailbox, restarts>>

\* What the client of connection i has been sent once m is sent on it: a client
\* that is gone reads nothing.
Carried(i, m) ==
  IF conn[i].link = "up" THEN conn[i].sent \cup {m.msg_id} ELSE conn[i].sent

\* The next frame of a drain: ORDER BY created_at, msg_id.
DrainSend(i) ==
  /\ conn[i].pc = "draining" /\ conn[i].link # "dropped"
  /\ \E m \in conn[i].todo :
       /\ \A n \in conn[i].todo \ {m} : MB!Older(m, n)
       /\ conn' = [conn EXCEPT ![i].todo = @ \ {m}, ![i].sent = Carried(i, m)]
  /\ UNCHANGED <<mailbox, registered, restarts>>

DrainDone(i) ==
  /\ conn[i].pc = "draining" /\ conn[i].todo = {}
  /\ conn' = [conn EXCEPT ![i].pc = "open"]
  /\ UNCHANGED <<mailbox, registered, restarts>>

----------------------------------------------------------------------------
(* post *)

\* Mutants: a host that is not connected counts; a connection that is still
\* draining is left to its drain.
RecipientsUnchecked(env) ==
  IF env.target_kind = "host"
  THEN {registered[env.target_host]}
  ELSE {registered[h] : h \in Host \ {env.origin_host}}

RecipientsOpen(env) ==
  {registered[h] : h \in {x \in Host : /\ MB!Addressed(env, x)
                                      /\ registered[x] # 0
                                      /\ conn[registered[x]].pc # "draining"}}

\* _recipients: whoever is connected now and should have it.
Recipients(env) ==
  IF env.target_kind = "host"
  THEN {registered[env.target_host]} \ {0}
  ELSE {registered[h] : h \in {x \in Host \ {env.origin_host} :
          registered[x] # 0 /\ env.project \in conn[registered[x]].projects}}

\* Mutant: what can be pushed is not stored.
PostPushOrPut(i, env) ==
  /\ conn[i].pc = "open"
  /\ env.origin_host = conn[i].host
  /\ env.msg_id \notin conn[i].posted
  /\ IF Recipients(env) = {} THEN MB!Put(env) ELSE UNCHANGED mailbox
  /\ conn' = [conn EXCEPT ![i].pc = "pushing", ![i].env = env,
                          ![i].recipients = Recipients(env),
                          ![i].posted = @ \cup {env.msg_id}]
  /\ UNCHANGED <<registered, restarts>>

\* A host posts its own envelope (build_envelope names it the origin, which the
\* hub does not check), again if its former connection broke before it knew that
\* the post had gone out.
Post(i, env) ==
  /\ conn[i].pc = "open"
  /\ env.origin_host = conn[i].host
  /\ env.msg_id \notin conn[i].posted
  /\ MB!Put(env)
  /\ conn' = [conn EXCEPT ![i].pc = "pushing", ![i].env = env,
                          ![i].recipients = Recipients(env),
                          ![i].posted = @ \cup {env.msg_id}]
  /\ UNCHANGED <<registered, restarts>>

\* The envelope goes to one of them; ConnectionClosed is caught.
Push(i) ==
  /\ conn[i].pc = "pushing"
  /\ \E r \in conn[i].recipients :
       conn' = [conn EXCEPT ![i].recipients = @ \ {r},
                            ![r].sent = Carried(r, conn[i].env)]
  /\ UNCHANGED <<mailbox, registered, restarts>>

\* What _maybe_status reports of an envelope, if anything.
HeldStates(env) ==
  IF env.target_kind # "host" THEN {}
  ELSE LET r == registered[env.target_host]
       IN IF r = 0 THEN {"held_no_host"}
          ELSE IF env.project \in conn[r].projects THEN {} ELSE {"held_no_project"}

\* The status, if any, goes to the poster and the handler reads on.
PostDone(i) ==
  /\ conn[i].pc = "pushing" /\ conn[i].recipients = {}
  /\ conn' = [conn EXCEPT ![i].pc = "open", ![i].env = NoEnvelope]
  /\ UNCHANGED <<mailbox, registered, restarts>>

----------------------------------------------------------------------------
(* ack, announce *)

Ack(i, mid) ==
  /\ conn[i].pc = "open"
  /\ \E j \in DOMAIN conn : conn[j].host = conn[i].host /\ mid \in conn[j].sent
  /\ MB!Ack(mid, conn[i].host)
  /\ UNCHANGED <<conn, registered, restarts>>

\* Mutant: an announce waits for the next hello to drain.
AnnounceNoDrain(i, ps) ==
  /\ conn[i].pc = "open"
  /\ conn' = [conn EXCEPT ![i].projects = ps]
  /\ UNCHANGED <<mailbox, registered, restarts>>

\* An announce, also of what was announced before: it replaces the list and
\* drains again what is still pending.
Announce(i, ps) ==
  /\ conn[i].pc = "open"
  /\ conn' = [conn EXCEPT ![i] = Drain(@, ps)]
  /\ UNCHANGED <<mailbox, registered, restarts>>

----------------------------------------------------------------------------
(* Connections end *)

ClientVanishes(i) ==
  /\ conn[i].link = "up"
  /\ conn' = [conn EXCEPT ![i].link = "gone"]
  /\ UNCHANGED <<mailbox, registered, restarts>>

HubNotices(i) ==
  /\ conn[i].link # "dropped"
  /\ conn' = [conn EXCEPT ![i].link = "dropped"]
  /\ UNCHANGED <<mailbox, registered, restarts>>

\* Mutant: the handler unregisters its host without looking whose entry it is.
UnregisterAny(i) == [registered EXCEPT ![conn[i].host] = 0]

\* The finally clause: unregister, unless a newer connection has taken over.
Unregister(i) ==
  [registered EXCEPT ![conn[i].host] = IF @ = i THEN 0 ELSE @]

\* Reading or draining a dropped connection raises and ends the handler.
Close(i) ==
  /\ conn[i].link = "dropped"
  /\ conn[i].pc = "open" \/ (conn[i].pc = "draining" /\ conn[i].todo # {})
  /\ registered' = Unregister(i)
  /\ conn' = [conn EXCEPT ![i].pc = "closed", ![i].todo = {},
                          ![i].projects = {}]
  /\ UNCHANGED <<mailbox, restarts>>

\* The hub is stopped and started: connections are lost, the tables are not.
Restart ==
  /\ restarts < MaxRestarts
  /\ restarts' = restarts + 1
  /\ registered' = [h \in Host |-> 0]
  /\ conn' = [i \in DOMAIN conn |->
                [conn[i] EXCEPT !.link = "dropped", !.pc = "closed", !.todo = {},
                                !.env = NoEnvelope, !.recipients = {},
                                !.projects = {}]]
  /\ UNCHANGED mailbox

\* The hourly sweeper task, and the passing of time.
Sweep == MB!SweepExpired /\ UNCHANGED <<conn, registered, restarts>>
Tick == MB!Tick /\ UNCHANGED <<conn, registered, restarts>>

----------------------------------------------------------------------------

Init ==
  /\ MB!Init
  /\ conn = <<>>
  /\ registered = [h \in Host |-> 0]
  /\ restarts = 0

\* What a handler does on its own, without a frame from its client.
HandlerStep(i) ==
  i \in DOMAIN conn /\ (DrainSend(i) \/ DrainDone(i) \/ Push(i) \/ PostDone(i) \/ Close(i))

Next ==
  \/ \E h \in Host, ps \in SUBSET Project : Hello(h, ps)
  \/ \E i \in DOMAIN conn : HandlerStep(i)
  \/ \E i \in DOMAIN conn, env \in Envelopes : Post(i, env)
  \/ \E i \in DOMAIN conn, mid \in MB!Ids(Envelopes) : Ack(i, mid)
  \/ \E i \in DOMAIN conn, ps \in SUBSET Project : Announce(i, ps)
  \/ \E i \in DOMAIN conn : ClientVanishes(i) \/ HubNotices(i)
  \/ Restart
  \/ Sweep
  \/ Tick

Spec == Init /\ [][Next]_vars

\* The event loop runs every handler that can run.  A send that waits for
\* buffer space ends, at the latest when the keepalive drops the connection.
FairSpec == Spec /\ \A i \in 1 .. MaxConns : WF_vars(HandlerStep(i))

----------------------------------------------------------------------------

(***************************************************************************)
(* The state has its types.                                                 *)
(***************************************************************************)
TypeOK ==
  /\ MB!TypeOK
  /\ conn \in Seq(Connection) /\ Len(conn) <= MaxConns
  /\ registered \in [Host -> 0 .. Len(conn)]
  /\ \A h \in Host : registered[h] # 0 => conn[registered[h]].host = h
  /\ restarts \in 0 .. MaxRestarts

\* Envelope m is stored for host h, which is connected on a living connection
\* that has not carried it.
Waiting(m, h) ==
  LET r == registered[h]
  IN /\ r # 0 /\ conn[r].link = "up"
     /\ m \in MB!PendingFor(h, conn[r].projects)
     /\ m.msg_id \notin conn[r].sent

(***************************************************************************)
(* No message falls between the drain and the live push: whatever a         *)
(* connected host is owed has been sent on its connection, is in its drain, *)
(* or some handler is about to send it there, however hello, announce, post *)
(* and the end of an older connection interleave.                           *)
(***************************************************************************)
NoGap ==
  \A h \in Host, m \in Envelopes : Waiting(m, h) =>
    \/ m \in conn[registered[h]].todo
    \/ \E i \in DOMAIN conn : /\ conn[i].pc = "pushing"
                              /\ conn[i].env.msg_id = m.msg_id
                              /\ registered[h] \in conn[i].recipients

(***************************************************************************)
(* A connection its client still uses stays registered: the late end of an  *)
(* older connection of the host never unregisters it.                       *)
(***************************************************************************)
UpIsRegistered ==
  \A i \in DOMAIN conn : conn[i].link = "up" => registered[conn[i].host] = i

(***************************************************************************)
(* Every message a connected host is owed is sent to it in the end, or is   *)
(* no longer owed, or the connection is lost.                               *)
(***************************************************************************)
OwedIsSent ==
  \A h \in Host, m \in Envelopes : []<>(~ Waiting(m, h))

\* As many newer envelopes of env's project as it keeps were posted.
Outnumbered(env) ==
  LET posted == {n \in Envelopes : \E i \in DOMAIN conn : n.msg_id \in conn[i].posted}
  IN Cardinality(MB!Newer(posted, env)) >= MaxPerProject

(***************************************************************************)
(* A held status promises eventual delivery (app.py:195).  When a poster is *)
(* told that its message is held, also because the target vanished while    *)
(* the message was pushed to it, the mailbox still owes it to that host, or *)
(* the host took it, it has expired, or newer ones displaced it.            *)
(***************************************************************************)
HeldIsKept ==
  [][\A i \in DOMAIN conn :
       LET env == conn[i].env
       IN PostDone(i) /\ HeldStates(env) # {} =>
            \/ MB!Owed(env, env.target_host)
            \/ <<env.msg_id, env.target_host>> \in acks
            \/ MB!ExpiresAt(env) <= now
            \/ Outnumbered(env)]_vars

(***************************************************************************)
(* Seen through its two tables, the hub is the mailbox and nothing else:    *)
(* whatever handlers, sweeper and restarts do, a row or an acknowledgement  *)
(* comes and goes by a whole put, ack or sweep_expired, so what is true of   *)
(* the mailbox alone is true of it under the server.                        *)
(***************************************************************************)
KeepsMailbox == MB!Spec
=============================================================================
