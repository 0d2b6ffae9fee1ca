------------------------------- MODULE Ferry -------------------------------
(***************************************************************************)
(* The ferry orchestrator (src/src/c2c/ferry/app.py) with the registry      *)
(* look-ups and the dedup table it uses (registry.py, dedup.py).            *)
(*                                                                          *)
(* Everything runs on one asyncio event loop, so code between two awaits is *)
(* one action.  on_deliver and on_hub_status are awaited by the one reader  *)
(* of the hub link, which therefore handles one frame at a time; inside     *)
(* them LocalPeer.inject suspends, and while it does local sessions may     *)
(* speak (on_local_message), spawned notices run, sessions come and go, and *)
(* the process may be killed.  The hub is the environment: it may deliver   *)
(* any envelope aimed here again at any time (at-least-once).  The far host *)
(* answers a message once.                                                  *)
(***************************************************************************)
EXTENDS Integers, Sequences, FiniteSets, SequencesExt

CONSTANTS
  Entries,      \* the registry entries sessions may publish
  NoProject,    \* project_for_cwd(cwd) is None
  Notes,        \* envelopes of type note the far host may send: [mid, project]
  Held,         \* the states a hub status may carry
  Wedged,       \* the entries whose socket may fail while their process lives
  Failures,     \* how inject may fail there: "refuse", "raise", "hang"
  PendingMax,   \* PENDING_PER_SOCKET_MAX
  AwaitingMax,  \* AWAITING_REPLY_MAX
  Attempts,     \* MAX_INJECT_ATTEMPTS
  Window,       \* the dedup window
  Cooldown,     \* NOTIFY_COOLDOWN_MS
  MaxPosts,     \* bound: messages local sessions send
  MaxNotices,   \* bound: notices scheduled at once
  MaxTime,      \* bound: instants of the clock
  MaxRestarts   \* bound: kills of the ferry process

Sid == {e.sid : e \in Entries}
Sock == {e.sock : e \in Entries}

\* The kinds of news a session may be told, and each of them to each session.
Kind == Held \cup {"no_project"}
News == Sid \X Kind

ASSUME FerryAssumption ==
  /\ \A e \in Entries : /\ DOMAIN e = {"sid", "sock", "project", "bg", "ok"}
                        /\ e.bg \in BOOLEAN /\ e.ok \in BOOLEAN
  /\ \A n \in Notes : n.mid \in Nat /\ n.mid > MaxPosts /\ n.project # NoProject
  /\ Wedged \subseteq Entries
  /\ Failures \subseteq {"refuse", "raise", "hang"}
  /\ "no_project" \notin Held
  /\ {PendingMax, AwaitingMax, Attempts, Cooldown} \subseteq Nat \ {0}
  /\ {Window, MaxPosts, MaxNotices, MaxTime, MaxRestarts} \subseteq Nat

VARIABLES
  live,       \* the registry: entries of processes that exist
  now,        \* the clock
  pending,    \* _pending_reply: per socket, the messages it has yet to answer
  awaiting,   \* _awaiting_reply: pins, oldest first
  seen,       \* Dedup._seen: msg_id -> when it was recorded
  notified,   \* _notified: <<sid, kind>> -> when it was last said
  spawned,    \* notices scheduled by _spawn_notify, not yet started
  reader,     \* what the hub link's reader is suspended in
  acked,      \* msg_ids acknowledged to the hub
  posts,      \* messages posted to the hub, in order; posts[k] has msg_id k
  taken,      \* history: when last a session's socket took a message in full
  told,       \* history: when this process began to tell each session what
  restarts    \* how often the process was killed

vars == <<live, now, pending, awaiting, seen, notified, told, spawned, reader,
          acked, posts, taken, restarts>>

memory == <<pending, awaiting, seen, notified, told, spawned>>
history == <<acked, posts, taken, restarts>>

----------------------------------------------------------------------------
(* Envelopes *)

\* A note has no orig_msg_id.
NoMid == 0

\* The answer of the far host to posts[k]: a reply, whose own msg_id is k here
\* (msg_ids of inbound and of outbound messages are never compared).
ReplyTo(k) == [mid |-> k, project |-> posts[k].project, orig |-> k]

Note(n) == [mid |-> n.mid, project |-> n.project, orig |-> NoMid]

\* What the hub may deliver to this host.
Inbound == {Note(n) : n \in Notes} \cup {ReplyTo(k) : k \in DOMAIN posts}

----------------------------------------------------------------------------
(* registry.py *)

\* session_by_id: the session with this id, if its protocol is ours.
SessionsById(sid) == {e \in live : e.sid = sid /\ e.ok}

\* rank_targets: background agents first, each group by latest activity, which
\* the sessions decide: any order.
Rankings(project) ==
  {order \in SetToSeqs({e \in live : e.project = project /\ e.ok}) :
     \A i, j \in DOMAIN order : i < j /\ order[j].bg => order[i].bg}

----------------------------------------------------------------------------
(* dedup.py *)

\* _evict, run by check and record.
Evicted == [m \in {x \in DOMAIN seen : seen[x] >= now - Window} |-> seen[m]]

\* Mutant: the window's last instant is no longer a duplicate, in check only.
IsDuplicateStrict(mid) == mid \in DOMAIN Evicted /\ now - Evicted[mid] < Window

\* check, after its eviction.
IsDuplicate(mid) == mid \in DOMAIN Evicted /\ now - Evicted[mid] <= Window

\* record.
Recorded(mid) == [m \in DOMAIN Evicted \cup {mid} |->
                    IF m = mid THEN now ELSE Evicted[m]]

----------------------------------------------------------------------------
(* Reply correlation: which message a session's next one answers *)

\* Mutant: a plain deque, without maxlen.
PendUnbounded(queues, sock, mid) == [queues EXCEPT ![sock] = Append(@, mid)]

\* deque(maxlen=PENDING_PER_SOCKET_MAX).append.
Pend(queues, sock, mid) ==
  [queues EXCEPT ![sock] =
     Append(IF Len(@) < PendingMax THEN @ ELSE Tail(@), mid)]

\* Mutant: a refusal forgets the whole queue.
UnpendAll(sock, mid) == [pending EXCEPT ![sock] = <<>>]

\* Mutant: a refusal leaves its correlation.
UnpendNothing(sock, mid) == pending

\* _unqueue_pending: deque.remove, the first occurrence.
Unpend(sock, mid) == [pending EXCEPT ![sock] = RemoveFirst(@, mid)]

\* _next_pending: the message it returns, and the queue it leaves.
NextPending(sock) ==
  IF pending[sock] = <<>> THEN NoMid ELSE Head(pending[sock])

Answered(sock) ==
  [pending EXCEPT ![sock] = IF @ = <<>> THEN <<>> ELSE Tail(@)]

----------------------------------------------------------------------------
(* Reply pins: which session the answer to a message belongs to *)

Pins(k) == {i \in DOMAIN awaiting : awaiting[i].mid = k}

\* _pin_reply: beyond AWAITING_REPLY_MAX the oldest pin goes.
Pin(k, sid) ==
  LET all == Append(awaiting, [mid |-> k, sid |-> sid])
  IN IF Len(all) > AwaitingMax THEN Tail(all) ELSE all

\* Mutant: a delivery retires the oldest pin.
UnpinOldest(k) == IF awaiting = <<>> THEN <<>> ELSE Tail(awaiting)

\* _awaiting_reply.pop(pin, None); pin is NoMid when there is none.
Unpin(k) ==
  IF Pins(k) = {} THEN awaiting ELSE RemoveAt(awaiting, CHOOSE i \in Pins(k) : TRUE)

\* _reply_pin: a reply whose question is still pinned.
ReplyPin(env) == IF env.orig # NoMid /\ Pins(env.orig) # {} THEN env.orig ELSE NoMid

Cut(order) == SubSeq(order, 1, IF Len(order) < Attempts THEN Len(order) ELSE Attempts)

\* Mutant: when the asker is gone the ranking decides.
CandidatesFallBack(env) ==
  LET askers == IF ReplyPin(env) = NoMid THEN {}
                ELSE SessionsById(awaiting[CHOOSE i \in Pins(env.orig) : TRUE].sid)
  IN IF askers # {} THEN SetToSeqs(askers)
     ELSE {Cut(order) : order \in Rankings(env.project)}

\* _candidates, cut to MAX_INJECT_ATTEMPTS: with a pin only the asker, and
\* otherwise the ranking.
Candidates(env) ==
  IF ReplyPin(env) # NoMid
  THEN LET asker == awaiting[CHOOSE i \in Pins(env.orig) : TRUE].sid
       IN SetToSeqs(SessionsById(asker))
  ELSE {Cut(order) : order \in Rankings(env.project)}

----------------------------------------------------------------------------
(* on_deliver *)

Idle == [pc |-> "idle"]

\* What the loop over candidates does before it awaits inject: record the
\* correlation first, since the target may answer before inject returns.
Offer(env, targets, pin, queues) ==
  /\ reader' = [pc |-> "injecting", env |-> env, targets |-> targets, pin |-> pin]
  /\ pending' = Pend(queues, Head(targets).sock, env.mid)

Target == Head(reader.targets)

\* The session the message is offered to still listens on its socket.  (inject
\* connects to whoever listens there: that this is another session, which got a
\* recycled pid since the candidates were ranked, is left out.)
Listening == \E e \in live : e.sid = Target.sid /\ e.sock = Target.sock

\* A duplicate: suppress it and ack again.
DeliverDuplicate(env) ==
  /\ reader = Idle
  /\ IsDuplicate(env.mid)
  /\ seen' = Evicted
  /\ acked' = acked \cup {env.mid}
  /\ UNCHANGED <<live, now, pending, awaiting, notified, told, spawned,
                 reader, posts, taken, restarts>>

\* Mutant: the message is recorded as delivered before it is offered.
DeliverRecordsFirst(env) ==
  /\ reader = Idle
  /\ ~ IsDuplicate(env.mid)
  /\ seen' = Recorded(env.mid)
  /\ \E targets \in Candidates(env) :
       IF targets = <<>>
       THEN UNCHANGED <<reader, pending>>
       ELSE Offer(env, targets, ReplyPin(env), pending)
  /\ UNCHANGED <<live, now, awaiting, notified, told, spawned, history>>

\* Not seen: hold it when there is no candidate, else offer it to the first.
Deliver(env) ==
  /\ reader = Idle
  /\ ~ IsDuplicate(env.mid)
  /\ seen' = Evicted
  /\ \E targets \in Candidates(env) :
       IF targets = <<>>
       THEN UNCHANGED <<reader, pending>>
       ELSE Offer(env, targets, ReplyPin(env), pending)
  /\ UNCHANGED <<live, now, awaiting, notified, told, spawned, history>>

\* The target's socket has taken the whole message; inject now sleeps.  drain
\* returns with up to the transport's high-water mark still to be written: that
\* the session is gone before it could be is left out.
InjectWritten ==
  /\ reader.pc = "injecting"
  /\ Listening
  /\ reader' = [pc |-> "written", env |-> reader.env,
                targets |-> reader.targets, pin |-> reader.pin]
  /\ LET took == [mid |-> reader.env.mid, sid |-> Target.sid,
                  at |-> now, life |-> restarts]
     IN taken' = {t \in taken : t.mid # took.mid \/ t.sid # took.sid} \cup {took}
  /\ UNCHANGED <<live, now, memory, acked, posts, restarts>>

\* inject returns True: only now is the message delivered.
InjectReturns ==
  /\ reader.pc = "written"
  /\ seen' = Recorded(reader.env.mid)
  /\ awaiting' = Unpin(reader.pin)
  /\ acked' = acked \cup {reader.env.mid}
  /\ reader' = Idle
  /\ UNCHANGED <<live, now, pending, notified, told, spawned, posts, taken,
                 restarts>>

MayFail(how) == ~ Listening \/ (Target \in Wedged /\ how \in Failures)

\* Mutant: the first refusal holds the message.
InjectRefusedHolds ==
  /\ reader.pc = "injecting"
  /\ MayFail("refuse")
  /\ reader' = Idle
  /\ pending' = Unpend(Target.sock, reader.env.mid)
  /\ UNCHANGED <<live, now, awaiting, seen, notified, told, spawned, history>>

\* inject returns False (protocol, key file or connection): forget the
\* correlation and try the next candidate, or hold.
InjectRefused ==
  /\ reader.pc = "injecting"
  /\ MayFail("refuse")
  /\ LET rest == Tail(reader.targets)
         queues == Unpend(Target.sock, reader.env.mid)
     IN IF rest = <<>>
        THEN reader' = Idle /\ pending' = queues
        ELSE Offer(reader.env, rest, reader.pin, queues)
  /\ UNCHANGED <<live, now, awaiting, seen, notified, told, spawned, history>>

\* The connection breaks while inject drains: OSError goes through on_deliver
\* and ends the hub connection, which HubClient.run opens again.
InjectRaises ==
  /\ reader.pc = "injecting"
  /\ "raise" \in Failures
  /\ MayFail("raise")
  /\ reader' = Idle
  /\ UNCHANGED <<live, now, memory, history>>

----------------------------------------------------------------------------
(* Notices: on_hub_status, _notify_session, _spawn_notify *)

\* _notify_ok: not said within the cool-down; saying it drops stale entries.
MayNotify(key) == key \in DOMAIN notified => now - notified[key] >= Cooldown

\* Mutant: stale entries are dropped, the new one is not recorded.
NotifiedUnrecorded(key) ==
  [k \in {x \in DOMAIN notified : now - notified[x] < Cooldown} |-> notified[k]]

\* Mutant: a session that is told one thing is not told another either.
NotifiedOfAll(key) ==
  LET its == {k \in News : k[1] = key[1]}
  IN [k \in {x \in DOMAIN notified : now - notified[x] < Cooldown} \cup its |->
        IF k \in its THEN now ELSE notified[k]]

Notified(key) ==
  [k \in {x \in DOMAIN notified : now - notified[x] < Cooldown} \cup {key} |->
     IF k = key THEN now ELSE notified[k]]

\* _notify_session up to its inject: session still there, and not just told.
\* What becomes of the inject changes nothing more.
StartNotice(sid, kind) ==
  /\ SessionsById(sid) # {}
  /\ MayNotify(<<sid, kind>>)
  /\ notified' = Notified(<<sid, kind>>)
  /\ told' = [told EXCEPT ![<<sid, kind>>] = Append(@, now)]

\* The hub reports posts[k] held: tell the session that asked, if it is known.
HubStatus(k, kind) ==
  /\ reader = Idle
  /\ \E i \in Pins(k) :
       /\ StartNotice(awaiting[i].sid, kind)
       /\ reader' = [pc |-> "telling", sid |-> awaiting[i].sid, kind |-> kind]
  /\ UNCHANGED <<live, now, pending, awaiting, seen, spawned, history>>

\* inject of a status note ends, in whichever way.
StatusTold ==
  /\ reader.pc = "telling"
  /\ reader' = Idle
  /\ UNCHANGED <<live, now, memory, history>>

\* A task made by _spawn_notify takes its first step.
NoticeTask ==
  /\ spawned # <<>>
  /\ spawned' = Tail(spawned)
  /\ LET sid == Head(spawned)
     IN \/ StartNotice(sid, "no_project")
        \/ /\ SessionsById(sid) = {} \/ ~ MayNotify(<<sid, "no_project">>)
           /\ UNCHANGED <<notified, told>>
  /\ UNCHANGED <<live, now, pending, awaiting, seen, reader, history>>

----------------------------------------------------------------------------
(* on_local_message *)

\* A session whose directory has a project speaks: its message answers the
\* oldest one it was sent, and the answer to it is pinned to the session.
LocalMessage(e) ==
  /\ e \in live /\ e.project # NoProject
  /\ Len(posts) < MaxPosts
  /\ pending' = Answered(e.sock)
  /\ awaiting' = Pin(Len(posts) + 1, e.sid)
  /\ posts' = Append(posts, [sid |-> e.sid, sock |-> e.sock,
                             project |-> e.project,
                             orig |-> NextPending(e.sock), life |-> restarts])
  /\ UNCHANGED <<live, now, seen, notified, told, spawned, reader, acked,
                 taken, restarts>>

\* A session whose directory has none is told so by a task of its own.
LocalMessageNowhere(e) ==
  /\ e \in live /\ e.project = NoProject
  /\ Len(spawned) < MaxNotices
  /\ spawned' = Append(spawned, e.sid)
  /\ UNCHANGED <<live, now, pending, awaiting, seen, notified, told, reader,
                 history>>

----------------------------------------------------------------------------
(* Environment *)

SessionStarts(e) ==
  /\ \A f \in live : f.sid # e.sid /\ f.sock # e.sock
  /\ live' = live \cup {e}
  /\ UNCHANGED <<now, memory, reader, history>>

SessionEnds(e) ==
  /\ e \in live
  /\ live' = live \ {e}
  /\ UNCHANGED <<now, memory, reader, history>>

Tick ==
  /\ now < MaxTime
  /\ now' = now + 1
  /\ UNCHANGED <<live, memory, reader, history>>

EmptyMap == [x \in {} |-> 0]
NothingPending == [s \in Sock |-> <<>>]
NothingTold == [news \in News |-> <<>>]

\* The process is killed and started again: all of the ferry's state is in
\* memory.
Restart ==
  /\ restarts < MaxRestarts
  /\ restarts' = restarts + 1
  /\ pending' = NothingPending
  /\ awaiting' = <<>>
  /\ seen' = EmptyMap
  /\ notified' = EmptyMap
  /\ told' = NothingTold
  /\ spawned' = <<>>
  /\ reader' = Idle
  /\ UNCHANGED <<live, now, acked, posts, taken>>

----------------------------------------------------------------------------

Init ==
  /\ live = {}
  /\ now = 0
  /\ pending = NothingPending
  /\ awaiting = <<>>
  /\ seen = EmptyMap
  /\ notified = EmptyMap
  /\ told = NothingTold
  /\ spawned = <<>>
  /\ reader = Idle
  /\ acked = {}
  /\ posts = <<>>
  /\ taken = {}
  /\ restarts = 0

InjectStep == InjectWritten \/ InjectReturns \/ InjectRefused \/ InjectRaises

Next ==
  \/ \E env \in Inbound : DeliverDuplicate(env) \/ Deliver(env)
  \/ InjectStep
  \/ \E k \in DOMAIN posts, kind \in Held : HubStatus(k, kind)
  \/ StatusTold
  \/ NoticeTask
  \/ \E e \in Entries : LocalMessage(e) \/ LocalMessageNowhere(e)
  \/ \E e \in Entries : SessionStarts(e) \/ SessionEnds(e)
  \/ Tick
  \/ Restart

Spec == Init /\ [][Next]_vars

\* The event loop runs, and every inject ends, except that one into a socket
\* whose process lives and never reads may wait in drain() for good: a body
\* larger than the socket's buffers has no timeout there.
Hung == reader.pc = "injecting" /\ Listening /\ Target \in Wedged /\ "hang" \in Failures

Fairness == WF_vars(InjectStep /\ ~ Hung) /\ WF_vars(StatusTold)

FairSpec == Spec /\ Fairness

----------------------------------------------------------------------------

\* Some session took message mid.
Taken(mid) == \E t \in taken : t.mid = mid

(***************************************************************************)
(* The state has its types.                                                 *)
(***************************************************************************)
TypeOK ==
  /\ live \subseteq Entries
  /\ \A e, f \in live : e.sid = f.sid \/ e.sock = f.sock => e = f
  /\ now \in 0 .. MaxTime
  /\ pending \in [Sock -> Seq(Nat)]
  /\ \A s \in Sock : Len(pending[s]) <= PendingMax
  /\ awaiting \in Seq([mid : 1 .. MaxPosts, sid : Sid])
  /\ Len(awaiting) <= AwaitingMax
  /\ \A i, j \in DOMAIN awaiting : awaiting[i].mid = awaiting[j].mid => i = j
  /\ \A m \in DOMAIN seen : m \in Nat /\ seen[m] \in 0 .. now
  /\ DOMAIN notified \subseteq News
  /\ \A k \in DOMAIN notified : notified[k] \in 0 .. now
  /\ told \in [News -> Seq(0 .. now)]
  /\ spawned \in Seq(Sid)
  /\ reader.pc \in {"idle", "injecting", "written", "telling"}
  /\ acked \subseteq Nat
  /\ Len(posts) <= MaxPosts
  /\ restarts \in 0 .. MaxRestarts

(***************************************************************************)
(* No message is acknowledged, and so dropped by the hub for this host,     *)
(* before some session took it: not when it is held, refused by every       *)
(* candidate, cut short by a broken connection or a kill, or suppressed as  *)
(* a duplicate.                                                             *)
(***************************************************************************)
AckedMeansTaken == \A m \in acked : Taken(m)

(***************************************************************************)
(* One ferry process does not hand a message to sessions twice within the   *)
(* dedup window, however often the hub delivers it and whichever sessions   *)
(* refused it before.                                                       *)
(***************************************************************************)
OncePerWindow ==
  [][InjectWritten => \A t \in taken : t.mid = reader.env.mid =>
       t.life < restarts \/ now - t.at > Window]_vars

(***************************************************************************)
(* A message a session has yet to answer stays correlatable until a         *)
(* message of that session is posted as its answer, that very session's     *)
(* socket refuses it, PENDING_PER_SOCKET_MAX later ones displace it, or the *)
(* process dies.  Notices and other sessions' traffic never disturb it.     *)
(***************************************************************************)
CorrelationKept ==
  [][\A s \in Sock : \A m \in Range(pending[s]) \ Range(pending'[s]) :
       \/ posts' # posts /\ Last(posts').sock = s /\ Last(posts').orig = m
       \/ InjectRefused /\ reader.env.mid = m /\ Target.sock = s
       \/ Len(pending'[s]) = PendingMax
       \/ Restart]_vars

(***************************************************************************)
(* A pin leaves only when the asking session took the answer, when          *)
(* AWAITING_REPLY_MAX later messages displace it, or when the process dies: *)
(* an answer that is held or refused keeps it for the redelivery.           *)
(***************************************************************************)
PinKept ==
  [][\A i \in DOMAIN awaiting :
       \/ awaiting[i] \in Range(awaiting')
       \/ \E t \in taken : t.mid = awaiting[i].mid /\ t.sid = awaiting[i].sid
       \/ Len(posts') >= awaiting[i].mid + AwaitingMax
       \/ Restart]_vars

\* The session posts[k] came from is the only one to have taken its answer,
\* unless the process was killed since or later messages displaced the pin.
OnlyAskerTook(k) ==
  \/ \A t \in taken : t.mid = k => t.sid = posts[k].sid
  \/ posts[k].life < restarts
  \/ Len(posts) >= k + AwaitingMax

(***************************************************************************)
(* The answer to a session's message goes to that session first: another    *)
(* one may only be given it after the asker took it, or once the pin was    *)
(* lost to a kill or displaced.                                             *)
(***************************************************************************)
AskerComesFirst ==
  \A k \in DOMAIN posts :
    OnlyAskerTook(k) \/ \E t \in taken : t.mid = k /\ t.sid = posts[k].sid

(***************************************************************************)
(* tests/ferry/test_app.py:552: nothing is left pending against a target    *)
(* that did not take the message.                                           *)
(***************************************************************************)
PendingWasTaken ==
  \A s \in Sock : \A m \in Range(pending[s]) :
    \/ \E t \in taken : t.mid = m /\ \E e \in Entries : e.sid = t.sid /\ e.sock = s
    \/ reader.pc = "injecting" /\ reader.env.mid = m /\ Target.sock = s

(***************************************************************************)
(* app.py:32, README.md:126: what a session was told it is not told again   *)
(* within the cool-down, however often the hub repeats a status, of one     *)
(* message or of several, and however many notice tasks there are, also     *)
(* when other news prunes the table meanwhile.                              *)
(***************************************************************************)
NoticesCoalesced ==
  \A news \in News : \A i, j \in DOMAIN told[news] :
    i < j => told[news][j] - told[news][i] >= Cooldown

(***************************************************************************)
(* tests/ferry/test_app.py:457: it works again later.  News of a kind is    *)
(* kept from a session only while that session was told news of that very   *)
(* kind within the cool-down: what others are told, or it is told of        *)
(* another kind, silences nothing.                                          *)
(***************************************************************************)
SilencedWasTold ==
  \A news \in News :
    MayNotify(news) \/ \E i \in DOMAIN told[news] : now - told[news][i] < Cooldown

\* A session that answers on its socket is among the candidates of note n.
OfferedToHealthy(n, e) ==
  /\ reader.pc = "injecting"
  /\ reader.env = Note(n)
  /\ e \in Range(reader.targets)

(***************************************************************************)
(* app.py:38: a wedged session that wins the ranking does not starve a      *)
(* healthy one behind it: once a note is being offered, it is taken, or the *)
(* healthy session leaves, or the process is killed.                        *)
(***************************************************************************)
HealthyNotStarved ==
  \A n \in Notes, e \in Entries \ Wedged :
    OfferedToHealthy(n, e) /\ restarts = 0
      ~> Taken(n.mid) \/ e \notin live \/ restarts > 0
=============================================================================
