# c2c in TLA+

A verification project for c2c: two hosts, each running a *ferry* that poses as
a local Claude session, joined by a *hub* that stores and forwards messages.
TLC checks the modules on small instances; TLAPS proves some of their theorems
for every value of the constants. Line references are to the repository's
`src/` (`app.py` is `src/c2c/ferry/app.py`, and so on).

## Inventory

| Component | State | Operations | Correct when |
|---|---|---|---|
| hub mailbox (`hub/mailbox.py`) | SQLite tables `messages`, `acks` | put (with eviction), ack, sweep_expired, pending_for | an envelope stays owed to a host until that host acks it, it expires, or newer ones displace it; the cap holds |
| hub server (`hub/server.py`) | `_conns`; per connection its host, projects and position in `handler` | hello, drain, post, push, status, ack, announce, close | nothing falls between drain and push; a connection in use is registered; what is owed is sent; "held" is true |
| hub process (`hub/__main__.py`) | a sweeper task | start, stop, hourly sweep | restarts lose connections only |
| hub auth (`hub/auth.py`) | token table read at start | verify | pure look-up |
| envelope (`envelope.py`) | none | validate, expires_at | rejects what the mailbox cannot route |
| ferry orchestrator (`ferry/app.py`) | `_pending_reply`, `_awaiting_reply`, `_notified`, notice tasks | on_deliver, on_local_message, on_hub_status, notices | no ack before a session took the message; answers go to the asker; no starvation |
| ferry dedup (`ferry/dedup.py`) | `_seen` | check, record | one delivery per window |
| registry (`ferry/registry.py`) | reads the session directory | read_sessions, session_by_id, session_by_socket, rank_targets, peer_token_for | dead sessions are no candidates; an entry has its own key beside it |
| local peer (`ferry/localpeer.py`) | registry entry, key file, socket, connections | publish, serve, read frames, inject, cleanup | files go with their process; inject tells whether the target took the bytes; nobody holds a handler |
| hub client (`ferry/hubclient.py`) | `_outbox`, `_ws`, `_connected`, `_flush_lock` | post/ack/announce, _flush, connect_once, run | operations go out once per connection, in order; only the oldest of a full outbox is dropped; no waiting in a circle |
| ferry process (`ferry/__main__.py`) | the announcer's `last` | start, announcer, stop | held messages come again when a session appears |
| peer frames (`ferry/wire.py`) | none | escape, build_wrapper, parse_wrapper | a body comes out as it went in |
| project ids (`ferry/projectid.py`) | `_cache` | normalize_remote, project_for_cwd | spellings of one origin have one id, and no other repository's |
| ferry config (`ferry/config.py`) | none | a file read once | |
| frame capture (`docs/tap.py`) | none | diagnostic script | not part of the system |

How they interact. A local session writes a frame to the ferry's socket;
`LocalPeer` calls `on_local_message`, which posts an envelope through the
client's outbox; the hub stores it, pushes it to the far host if connected, and
may answer with a status. The far ferry's reader awaits `on_deliver`, which
injects the message into a session and acks. Whatever is not acked comes again
with the next hello or announce. Each process is one asyncio event loop: the
concurrency is between coroutines, at their awaits, and between the processes.

What is hard: an await in the middle of `on_deliver`, `_drain`, `_on_post` and
`_flush`; redelivery against dedup and reply pins; connections that are replaced
while the old one is still being closed; kills between any two steps; two ends
that both send before they read; bounded tables that drop their oldest entry.
`PROJECT.json` lists each hazard at its line with the properties that cover it,
or the reason none does.

## Modules

| Module | Models | Checked with |
|---|---|---|
| `Mailbox` | the hub's two tables and its clock | `MCMailbox` / `Mailbox.cfg` |
| `HubServer` | the hub's connections, over an instance of `Mailbox` | `MCHubServer` / `HubServer.cfg` |
| `HubClient` | the ferry's outbox, its flushes and reconnection | `HubClient.cfg` |
| `Link` | ferries and hub over connections that hold only so much | `MCLink` / `Link.cfg` |
| `Outbox` | what the flushes promise: a bounded queue with a single sender | as `OneSender` of `HubClient` |
| `Ferry` | orchestrator, dedup, registry look-ups, inject | `MCFerry` / `FerryDelivery.cfg`, `FerryHung.cfg`, `FerryBrokenInject.cfg` |
| `ProjectId` | `normalize_remote` | with `Checkouts` |
| `Checkouts` | a `Ferry` whose sessions work in checkouts, over `ProjectId` | `MCCheckouts` / `FerryNotices.cfg`, `FerryMisread.cfg` |
| `LocalPeer` | the ferry's files, start, end and frame reader | `MCLocalPeer` / `LocalPeer.cfg` |
| `Wire` | the escape of tags and the wrapper | with `LocalPeer` |
| `C2C` | the whole: outboxes, links, announcers, deliveries and the hub over an instance of `Mailbox` | `MCC2C` / `C2C.cfg`, `HeldStuck.cfg` |
| `Relay` | what the whole promises, abstractly | as `KeepsPromise` of `C2C` |
| `MailboxProofs`, `HubServerProofs`, `HubClientProofs`, `FerryProofs`, `FerryReplyProofs`, `LocalPeerProofs`, `LinkProofs`, `C2CProofs` | theorems | tlapm |

**Mailbox.** A row is the envelope it stores. Each method is one SQLite
transaction, hence one action; a crash inside it rolls back and is no step.
`OverCap` is the query of `_evict_over_cap` (the rows with at least
`MaxPerProject` newer ones), `Owed` and `PendingFor` are the query of
`pending_for`.

**HubServer.** A coroutine suspends where it sends, so a drain's frames, the
pushes of a post and its status are actions of their own, and `todo` and
`recipients` are the local lists the coroutine carries across them. The client
is the environment: it may vanish (`link = "gone"`) long before the hub notices
(`"dropped"`), and what it had sent is still read. `sent` and `posted` are
history: what the client of a connection was sent, and which envelopes it
posted, each once per connection. Hello, its token check and the registration
are one action; a connection that fails them leaves nothing. An announce drains
again whatever it lists. `KeepsMailbox` says
that to the two tables all this is the specification of `Mailbox`; it is proved
rather than run.

**HubClient.** Operations are numbered. `waiting` is the queue of the asyncio
lock, `holder` and `sending` the flush that has written an operation and waits
for `send` to return. `wire` is history: what was written on this connection.
A connection that breaks makes the send under way raise. `Outbox` is what remains
for those who see no flushes: what is written is the front of the queue, one
operation at a time, and a returning send pops the front. `HubClient` implements
it (`OneSender`), and `C2C` gives every host a sender with these steps (`Enqueue`,
`Write`, `Pop`, `Unlinked`): what is shown here is assumed there. That of two
flushes none writes beside the other is in the guard of `Outbox!Write`; that a
pop may remove an operation other than the one sent is in `Outbox!Pop`, since the
code's pop does.

**Link.** A connection is two queues, and a send returns only while no more than
`Room` frames wait in its queue. The ferry is where `connect_once` is: flushing
its outbox, or listening with flushes beside it. The hub's handler of a host
reads no frame while it has one to send (`todo`) or waits for room (`waits`),
possibly on another host's connection. `Room` is at least one, since the
websocket library reads ahead on its own. A connection ends by `Break` or by the
keepalive (`TimesOut`), which is slow and therefore comes only when nobody else
can move. Simplified: both ends learn of an end at once, though a handler still
makes the pushes it was at (`left`); the outbox does not overflow; whatever is
delivered is taken; a status may also follow a push, when the hub knows of no
such project; messages are said in the order of their numbers. The guards of
its steps have names (`MayWrite`, `MayReceive`, ...): `SomebodyMoves` is their
disjunction, and `Jammed` says that somebody waits in a send while it is false.

**Ferry.** `reader` is the place the hub link's only reader is suspended in:
idle, injecting, past the write (`"written"`, inject's sleep), or telling a
status. Everything between two awaits is one action: `Deliver` evicts, ranks,
records the correlation and suspends; `InjectRefused` undoes it and offers the
message to the next candidate or holds it. `live` are the registry entries whose
processes exist; an entry has a session id, a socket, the project its directory
resolves to, and whether it is a background agent. The hub may deliver any note
or answer again at any time. The answer of the far host to `posts[k]` is a reply
with that number. `taken`, `posts`, `acked` and `told` are history. `told` has,
for each session and each kind of news (no project, or one of the states in which
the hub holds a message), the instants at which this process began to tell it,
in order; whether the inject then succeeds changes nothing. A status is told by
the reader, which waits for it (`HubStatus`), a missing project by a task of its
own (`NoticeTask`).

**ProjectId, Wire.** Pure functions over sequences of tokens: a URL is made of
names and the marks the code looks for, a body of the characters tags are made
of and "x" for anything else. The names, their lower case and the repositories
are constants; a host is any sequence of names, since the dots between them are
no marks, and a path any sequence of names and slashes that begins and ends with
a name. `Spellings` are three forms (with a scheme, git's short form with a user,
bare host and path), with any user and port and with nothing, `.git` or a slash
at the end; these normalize_remote reads alike. `Misread` are the others that git
takes: the short form without a user (`hub:a/r`, whose `a` is dropped as if it
were a port) and a URL that ends in `.git/` (which keeps its `.git`). A body that holds
an *escaped* tag already comes out without its backslash; `EscapeIsSafe` makes
that exception.

**Checkouts.** `Ferry` takes the projects of entries and notes as they are.
`Checkouts` says where they come from: `CheckoutOf` gives each session, and the
far sender of each note, a repository and the URL its checkout names as origin,
and the project is what `Normalize` makes of that URL. The two ferries never
compare anything but these ids. An origin is one of `Origins`, misread or not;
`ReadAlike` says that it is one of `Spellings`, and is the condition of
`SpellingsAgree` and `RoutesByRepository`. What happens without it is
`FerryMisread.cfg`. `SharesRepository` is what they are meant to
find out, stated without them; a session whose directory has no origin has no
project, and no part in this.

**LocalPeer.** Processes are numbered in the order they start; a file of a pid
holds the number of the process that wrote it, so that a file left under a
recycled pid is told from the process's own. `phase` is how far the ferry has
come through `publish` (key, then entry), `serve` and `cleanup` (socket, key,
entry). A kill may come between any two of them, as may other processes' reads.
A signal before the handler is set up and a `publish` that raises end the
process the way a kill does. Of a session only that it publishes and removes its
three files is known, at once. One ferry runs at a time per host. A connection
is the lines read so far; all are handled together at its end (`_handle` reads
to EOF first), up to a line whose handling raises. `heard` is history: what
`on_message` was given, under the number of the line it came in. `Texts` are
further bodies that anybody may send; of these only the wrapping is looked at,
so that they may be many.

**C2C, Relay.** `C2C` composes what the other modules look at one by one, so its
parts are coarser: a drain or a push to one host is one step (how they
interleave is `HubServer`); hello, welcome and drain are one step; the reader
goes through its candidates in one step and suspends after the write (`Ferry`);
flushes take turns and pop one operation at a time (`HubClient`, which shows
they do); both ends of a connection learn at once that it broke. It keeps what
lies between them: operations queued, dropped by a full outbox, written, popped,
read or lost with a connection; deliveries on their way; a dedup window that may
end at any moment; the announcer's list; the kill of a ferry or of the hub at
any point. Every message is a note aimed at a host, which is all that
`build_envelope` makes, and fewer sessions of a host refuse than
`MAX_INJECT_ATTEMPTS`. `Relay` knows only messages: sent, waiting, stored, kept,
taken. A message is displaced there only by as many newer ones of its project as
the cap allows, as in the mailbox. Under the mapping a message waits while its post is in an outbox or on a
connection, and is kept while the mailbox owes it to its target.

Definitions named as mutants stand before the definition they vary; they are
plausible bugs used to confirm that a property can fail, and no specification
uses them.

## Runs

| Run | Bounds | Shows |
|---|---|---|
| `mailbox` | 2 hosts, 2 projects, cap 2, 6 envelopes, 4 instants | `PendingUntilSettled`, `CapHolds`, `SweepIsInvisible`, `AcksOutliveNothing` |
| `hub_server` | 2 hosts, 2 connections, 1 restart, 3 envelopes, cap 1, 2 instants | `NoGap`, `UpIsRegistered`, `HeldIsKept`, `OwedIsSent` under fairness |
| `hub_client` | outbox of 3, 6 operations, any number of connections | `InOrder`, `NothingElseSkipped`, `OneSender` (implements `Outbox`), `Flushed` under fairness |
| `link` | 2 hosts, a message each way, room for one frame, 1 announce, 1 break | `JamsOnlyAtConnect`, `JamsEnd` under fairness |
| `ferry_delivery` | 2 sessions that may refuse or break, 2 posts and their answers, 2 instants, a window that ends within the instant, 1 pin, 2 correlations per socket, 1 kill | `AckedMeansTaken`, `OncePerWindow`, `AskerComesFirst`, `PinKept`, `CorrelationKept` |
| `ferry_notices` | 4 entries, 3 of them in checkouts of two repositories, with origins spelled differently, 1 note, 1 post, a held status, 2 notice tasks at once, 2 instants, a session that refuses; every spelling of 9 repositories | `NoticesCoalesced`, `SilencedWasTold`, `PendingWasTaken`, `SpellingsAgree`, `RoutesByRepository`, `HealthyNotStarved` under fairness |
| `local_peer` | 2 pids, 2 processes, 1 client, 3 lines of 6 bodies; every text of up to 5 tokens | `EntryHasKey`, `LeftByKill`, `HeardAsSaid`, `EscapesAreSafe`, `NotPinned` under fairness |
| `c2c` | 2 hosts, 1 message that expires, 2 sessions of which one refuses, outbox of 1, 1 session that starts or ends, 1 fault | `KeepsPromise` (implements `Relay`), `ArrivesWhileServed`, `HeldComesBack` under fairness |
| `ferry_hung` | a session that never reads | violates `HealthyNotStarved` |
| `ferry_broken_inject` | a session that dies during the write | violates `PendingWasTaken` |
| `ferry_misread` | 2 sessions whose origins have no user, 1 note | violates `TakenInItsRepository` |
| `held_stuck` | a session that ends and comes back, no fault | violates `HeldUntilServed` |

Each run also checks its module's `TypeOK`, where it is not checked by another
run of that module. Deadlock is not checked in `link`, `local_peer` and the runs
of `C2C`: their bounded messages, processes and faults run out, and then the
system rests.

Why the bounds are enough. The mailbox's envelopes tie on creation time, arrive
older than what is stored, share an id, overflow one project beside another, and
expire at different instants, one of them on a clock value. Two connections are
of two hosts, so that one posts to the other while it drains, or of one, so that
the older ends after the newer registered; with a cap of one newer envelopes displace
older ones, and a restart ends both. (A recipient that is replaced
during the push takes a third; that, too, is in `NothingInTheGap`, for any
number.) Two candidates give a first refusal, a second one and exhaustion; a
dedup window of zero makes a redelivery in the same instant a duplicate and one
in the next instant a late one, so that two instants show both sides of its
boundary; a second post displaces the only pin, so its answer goes by the
ranking like a note. A cool-down of one instant ends within the two of
`ferry_notices`, so that news comes again both too early and late enough, and two
kinds of news for one session share its table. An outbox of three with six
operations overflows while a send is waiting, and the outbox of one in `c2c` on every second operation. In
`link` a message, the status about it, its acknowledgement, one drain on an
announce and another after a break are enough to fill both directions of both
connections, and handlers that wait for each other's host do occur. Three lines
are a token, a message and one more of either. The constants that only bound a
run are named as such in each module (`MaxConns`, `MaxRestarts`, `MaxPosts`,
`MaxNotices`, `MaxTime`, `MaxOps`, `MaxBreaks`, `MaxAnnounces`, `MaxBirths`,
`MaxMoves`, `MaxFaults`).

The properties, in words, stand before each definition. The main ones:

- `KeepsPromise`: once the hub has stored a message, only its delivery, its
  expiry or newer messages of its project end its stay there; before that only a
  fault loses it; no session takes what was not stored.
- `PendingUntilSettled`: the same of one mailbox: nothing but its host's ack, its
  expiry or newer envelopes of its own project takes an envelope from a host.
- `NoGap`: what a connected host is owed has been sent on its connection, is in
  its drain, or is about to be pushed.
- `HeldIsKept`: a status "held" is true: the envelope is stored, unless it had
  expired before it was posted, was acknowledged or was displaced since.
- `AckedMeansTaken`: no message is acked, and so forgotten by the hub, before a
  session's socket took all of it.
- `AskerComesFirst`, `PinKept`: the answer goes to the session that asked before
  anybody else, through holds, refusals and redeliveries.
- `NothingElseSkipped`: an operation leaves the outbox when its own send
  returned, or as the oldest of a full outbox, with the exception below.
- `NoticesCoalesced`, `SilencedWasTold`: a session is told the same news once in
  a cool-down, whichever task tells it, and only what it was told is withheld.
- `RoutesByRepository`, `SpellingsAgree`: a note is offered to sessions in its own
  repository, and held only when none is there, whoever spelled which origin how,
  as long as the origins are of the forms `Spellings` lists.
- `JamsOnlyAtConnect`, `JamsEnd`: nobody waits for somebody who waits in turn,
  except right after a connect, and that ends.
- `EntryHasKey`, `LeftByKill`: whoever sees a running process's entry finds its
  token; what lies around without a process was left by a kill.

## Fairness

- `HubServer`: weak fairness of each handler's own steps. The event loop runs
  every coroutine that can run, and a send that waits for buffer space ends at
  the latest when the websocket keepalive drops the connection. Nothing is
  assumed of clients.
- `HubClient`: weak fairness of the flush steps, for the same reasons.
- `Link`: weak fairness of each ferry (flush, connect, `run()` reconnects), each
  reader, each handler, and of the keepalive (`TimesOut`), which the library runs
  with a timeout of 20 s.
- `Ferry`: weak fairness of inject's end and of a status note's end, except that
  an inject into a live socket that is never read may wait for ever (`Hung`):
  `drain()` has no timeout there. Nothing is assumed of sessions or of the hub.
- `LocalPeer`: weak fairness of the timer of each connection's read. Nothing is
  assumed of clients.
- `C2C`: weak fairness of each host's flush, reconnection, handler, reader and
  announcer (an endless loop with a sleep of 15 s). Nothing is assumed of
  sessions, faults or time.

## Where code and documents disagree

`PROJECT.json` quotes the lines under "findings".

1. `PendingWasTaken`: `inject` catches `OSError` only while it connects. If the
   session goes away during the write, the exception leaves `on_deliver` with
   the message still pending against that socket, and the next message from it
   is posted as a reply to something it never saw. That exception is the only way
   to get there: without it `PendingWasTaken` holds, in `ferry_notices` and as
   theorem `RefusalsLeaveNothing`.
2. `HealthyNotStarved`: a live session that never reads suspends the hub link's
   reader, and with it every delivery.
3. `HeldUntilServed`: a message that was held while its session was gone stays at
   the hub if the session is back before the announcer's next tick: the list has
   not changed, so nothing is announced, and nothing else drains.
4. `TakenInItsRepository`: origins in git's short form without a user lose the
   first part of their path, so that `hub:a/r` and `hub:b/r` are one project and
   get each other's messages (README.md:29). A URL that ends in `.git/` gets an id
   that only others of its kind have.

The following is what the code does and the properties therefore allow:

- A message posted again after its poster's connection broke is pushed again,
  also to a host that has acknowledged it: `_on_post` pushes whether or not `put`
  stored anything, and looks at no acknowledgement (server.py:139-142), although
  mailbox.py:3-4 says that delivery never repeats after ack. The ferry's dedup
  window keeps the repetition from a session while it lasts; `Relay` lets a
  stored message be taken again.
- A reply whose ack was lost, redelivered after the dedup window, has lost its
  pin and goes to whichever session ranks first (`AskerComesFirst` lets the asker
  be first, not only).
- "held" is also said of a message that had expired before it was posted
  (`HeldIsKept` excepts it).
- A full outbox that drops the operation being sent loses the next one too,
  because the pop takes whatever is now in front (`NothingElseSkipped` names
  this case).
- A post that no hub has stored is lost with the outbox of a ferry that stops,
  as the oldest of a full outbox, or, already popped, with the connection it was
  written to, also when the keepalive ends a jam. README.md:104 says that a
  ferry restart does not lose messages, and hubclient.py:15-17 that redelivery
  covers posts; both are so from the moment the hub has stored the message, which
  is where `Relay` draws the line (`Waits`).

## Theorems

Proved by TLAPS for every value of the constants that satisfies the modules'
assumptions (`MailboxAssumption`, `HubAssumption`, `FerryAssumption`, `ClientAssumption`,
`LocalPeerAssumption`, `LinkAssumption`, `C2CAssumption`, `ProjectIdAssumption`,
`CheckoutAssumption`), and in two cases of the hypothesis the statement names
(`HeldStaysHeld`, `RefusalsLeaveNothing`):

- `MailboxProofs!TypeCorrect`: `TypeOK` is inductive as it stands; that ids stay
  unique rests on INSERT OR IGNORE (lemma `InsertedIsTable`).
- `MailboxProofs!CapAlwaysHolds`: eviction leaves at most `MaxPerProject` rows.
  `Older` is a strict total order on rows with distinct ids
  (`OlderIsStrictOrder`), so an older row has strictly more newer ones
  (`OlderHasMoreNewer`), and the rows with fewer than the cap number at most the
  cap (`KeptWithinCap`, through the oldest of the kept rows). Other projects only
  lose rows (`FewerRowsFit`).
- `MailboxProofs!SweepNeverShows`, `MailboxProofs!AcksStayWithEnvelopes`: action
  properties, each from `TypeOK` and the definitions.
- `MailboxProofs!OwedUntilSettled`: `PendingUntilSettled`, an action property,
  from `TypeOK`. For a put it needs the converse of the cap: what an eviction
  takes has at least `MaxPerProject` newer rows *that stay* (`DisplacedByNewer`).
  Of the rows that go and are no older than the one in question, take one with
  the fewest newer rows (`LeastNatural`): all of those stay, for one that went
  would have fewer still.
- `HubServerProofs!HubTypeCorrect`: `TypeInv` adds to `TypeOK` that a pushing
  handler has a real envelope. It names `MB!TypeOK` as a conjunct, and lemma
  `MailboxStepTyped` covers whatever a handler does to the tables.
- `HubServerProofs!UpStaysRegistered`: `UpIsRegistered` is inductive beside
  `TypeInv`: the only step that unregisters does so for a connection the hub
  knows to be dropped, and only if the entry is its own.
- `HubServerProofs!NothingInTheGap`: `NoGap` is inductive beside `TypeInv`. Its
  proof takes one host and one message that waits after the step. Lemma
  `OwesNothingNew` shows that the mailbox never comes to owe a host a stored
  envelope it did not owe before (msg_id is a key, so an eviction takes no other
  row's acknowledgement, and the clock moves forward), so the message waited
  before, unless a hello, an announce or the post of the message itself made it
  wait, and these three put it on its way. Lemma `StillComing` says when a
  message that was on its way still is; each other step meets its conditions.
- `HubServerProofs!HeldStaysHeld`: `HeldIsKept`. The status is said after the
  pushes, and the handler is suspended in each, while other handlers post,
  acknowledge and sweep. `HeldInv` therefore says of an envelope that is still
  being pushed what the property says of one that is reported: it is owed
  (`Kept`), or acknowledged, expired, or displaced by newer envelopes that were
  posted, whether those are still stored or not; and that nothing is stored that
  was not posted. Lemma `KeptStays` carries `Kept` over every step of the tables.
  Its hypothesis `Keyed(Envelopes)`, that no two envelopes share a msg_id, is
  what a ferry's `uuid4` (app.py:291) gives: with a second envelope of the same
  id INSERT OR IGNORE stores nothing, and "held" would speak of another.
- `HubServerProofs!HubIsItsMailbox`: every step of the server is a step of
  `Mailbox` or leaves the tables alone. A handler puts or acknowledges in one
  step, before it suspends, and a restart loses connections only. `HubAssumption`
  contains what `Mailbox` assumes, so the theorems of `MailboxProofs` hold of the
  hub's tables whatever the handlers do.
- `HubClientProofs!ClientTypeCorrect`: `TypeOK` of the outbox, beside `Busy`: a
  flush that waits for its send has something to pop, since an overflow never
  empties the outbox.
- `HubClientProofs!SentInOrder`: `InOrder` is not inductive. `OrderInv` adds that
  operations are numbered in the order they are queued (`Numbered`), that the
  operation being sent is the last one written and nothing queued is older, even
  if the outbox has dropped it (`SendsLast`), and that while the connection is
  open nothing else in the outbox was written (`Unwritten`). Lemma
  `ProceedInOrder` is the turn of a flush, after a send or at its start.
- `HubClientProofs!OutboxKeeps`: the action property `NothingElseSkipped`, which
  needs `OrderInv`: operations in the outbox differ, so what a pop removes is the
  one sent unless the outbox had dropped that.
- `HubClientProofs!FlushesActAsOne`: `HubClient` implements `Outbox`. It needs
  `Busy` and `TypeOK`: while a flush waits for its send the lock is held, so
  that no other flush writes, and the outbox is not empty, so that its pop is
  one of `Outbox`.
- `FerryProofs!AckMeansTaken`: `AckedMeansTaken` is not inductive, since an ack is
  also sent for a duplicate and after inject's sleep. `AckInv` adds that every
  message in the dedup table, and the one whose write is complete, was taken.
  The history `taken` keeps one record per message and session, the latest;
  lemma `WrittenIsTaken` shows that replacing a record forgets no message.
- `FerryProofs!TypeCorrect`: `TypeOK` of the ferry. That no two pins are of one
  message is not inductive; `TypeInv` (in seven parts, one per table) has the
  pins in the order of their posts and at most one for each later post, and says
  what the reader holds wherever it is suspended.
- `FerryReplyProofs!AnswersFindTheirAsker`: `AskerComesFirst`. `AskInv` adds that
  each post has its pin, or was excused from it: by a kill, by `AwaitingMax`
  later posts, or because the asker took the answer (`PinInv`); that an answer
  under a pin is offered to the asker alone, across the suspension in inject
  (`OfferInv`); and so that under a pin nobody else took it (`TakenInv`).
- `FerryReplyProofs!PinsAreKept`, `FerryReplyProofs!CorrelationsAreKept`: the
  action properties `PinKept` and `CorrelationKept`, from `AskInv` and `TypeInv`.
- `FerryReplyProofs!RefusalsLeaveNothing`: `PendingWasTaken`, where no write
  raises. It is not inductive, since the correlation is recorded before the
  inject and taken back by a refusal, one entry at a time. `PendInv` says that
  the message being offered is the only one that may be pending without having
  been taken, and is so at most once in the queue of the session it is offered
  to; so that the one removal of `_unqueue_pending` leaves none (`RemovedFirst`).
  Without the hypothesis it is false (`ferry_broken_inject`).
- `FerryReplyProofs!SpellingsAlwaysAgree`: `SpellingsAgree` for every repository,
  user and port, and for the forms in `Spellings`; of `Misread` it says nothing. A URL put together from a part without a mark, the mark and a
  rest is taken apart there (`TakenApart`), which lemma `PlaceIsFirst` gets from
  the least place of the mark; a part is without a mark when its pieces are
  (`FreeConcat`). So each of the three forms is read as host and path
  (`UrlRead`, `ShortRead`, `BareRead`), a `.git` at the end makes no difference
  (`SuffixGoes`), and slashes around a path go (`SlashesGo`). Different
  repositories have different ids, because a host has no slash and the first one
  in an id ends it (`IdsApart`). Bodies and URLs are handled by positions, since
  TLAPS has no induction over sequences.
- `FerryReplyProofs!NotesStayInTheirRepository`: the action property
  `RoutesByRepository`, under the same condition on the origins, from the former and from what `rank_targets` may return
  (`RankedThere`): a list of live sessions of the note's project, empty only if
  there is none.
- `FerryReplyProofs!HandedOutOnce`: `OncePerWindow`. The check against the dedup
  table comes before the suspension in inject, the entry into it after;
  `WindowInv` says that a message taken by this process within the window is in
  the table, with no earlier time, or is the one whose write is complete, so that
  only a message no longer in the window can be offered.
- `FerryReplyProofs!NoticesKeepTheirDistance`, `FerryReplyProofs!SilenceIsForWhatWasTold`:
  `NoticesCoalesced` and `SilencedWasTold`, over everything a process told, of
  every kind and to every session. `NoticeInv` adds that the table of the
  cool-down and the history agree: what was told within the cool-down is in the
  table, under no earlier an instant, whatever was evicted since
  (`ToldIsRemembered`), and what the table has was told at the instant it has it under.
- `LocalPeerProofs!TypeCorrect`, `LocalPeerProofs!EntriesHaveKeys`,
  `LocalPeerProofs!OnlyKillsLeave`: `TypeOK`, `EntryHasKey` and `LeftByKill` are
  inductive together with `FerryInv`, which says what `phase` means for the
  ferry's own files: the key is there before the entry is written, and socket and
  key are gone by the time the process ends.
- `LocalPeerProofs!EscapesAlwaysSafe`: `EscapeIsSafe` for a body of any length.
  `FlattenSeq` is a recursive function, and TLAPS has no induction for it to
  unfold by; lemma `FlattensExist` shows that there is such a function, through
  the least position up to which there is none (`UpTo`). Then pieces are
  flattened to where the ones before them end (`FlattensInPlace`), and the rest is
  about positions: `Escaped(body, at, text)` says that token `i` of the body is
  token `at[i] + 1` of the escaped text and a tag's backslash follows it. No tag
  is left, because what stands beside a '<' in the text is either that backslash
  or what stood beside it in the body (`NoTagIsLeft`); `_unescape` takes every
  backslash that was put in (`BackslashGoes`) and, if the body held no escaped
  tag, no other (`NothingElseGoes`), so that the parts of the text up to each
  position unescape to the parts of the body they came from (`EscapeComesBack`).
- `LocalPeerProofs!WhateverIsSaidIsSafe`: `EscapesAreSafe` for every set of texts.
- `LocalPeerProofs!HeardIsSaid`: `HeardAsSaid`. `HeardInv` adds that nothing is
  heard of a connection before it ended, and that the token it opened with is
  that of a process which was started: the connection ends with the ferry's
  process, but what was heard outlives it, and further processes start. The
  bodies come back by `EscapesAlwaysSafe`.
- `LinkProofs!LinkTypeCorrect`: `TypeOK` of `Link`, which says that no connection
  holds more than one frame beyond its room, and that the hub stores only what
  was said and has acknowledged only what it stored. Where a frame is read only
  the frame is at hand, so the invariant says of each frame, operation and row on
  its way that it was said, or stored, before (`WireInv`, `HandlerInv`,
  `FerryInv`); `FlushInv` says that a waiting flush is the only one to have
  filled its connection.
- `LinkProofs!JamsAtConnectOnly`: `JamsOnlyAtConnect`. Lemma `NobodyStuck` takes
  a state in which nobody moves and every ferry listens. A ferry that listens
  and reads has nothing left to read (or its reader would move), so no connection
  to a ferry is full, no handler waits for room, and hence every handler has sent
  what it had to and read what came; so no connection to the hub is full either,
  and no flush waits. It needs `TypeOK`, and that message numbers are natural, so
  that among what is left to be sent there is an oldest (`SomethingOldest`).
- `C2CProofs!WholeTypeCorrect`: `TypeOK` of the whole, with the limit of every
  outbox; the lemmas on queues (`RangeAppend`, `RangeHeadTail`, `Enqueued`) say
  which operations a step adds and removes.
- `C2CProofs!WholeKeepsPromise`: the whole implements `Relay`. The steps of `C2C`
  do so only in states that can be reached, which `RelayInv` describes: beside
  `TypeOK`, what is in the mailbox, on its way down or taken has been stored
  (`StoredFirst`); what a dedup window remembers or an inject has written was
  taken (`Remembered`); every ack in an outbox or on a connection is of a message
  that was taken (`AcksOnTheWay`), and so is every ack in the tables
  (`AcksStored`); and a post that a flush has written and not yet popped is still
  on its connection, or stored (`SentOnward`). Each is needed by a step of the
  refinement: a delivery must be `Take` of a stored message, an ack that reaches
  the hub `Settle` of a taken one, and the pop of a sent post must lose nothing. For the mailbox,
  `KeptIs` says what it keeps in terms of rows, `PutDisplaces`, `AckSettles`,
  `SweepKeeps` and `TickPasses` what its operations do to that; for the queues,
  `QueuedWaits` and `OneLeaves` say which messages come to wait and stop waiting.
  Then each action of `C2C` is shown to be an action of `Relay` or a stutter
  (`EveryStepAllowed`, one lemma per action).

Every invariant that serves a step argument was checked by TLC as an invariant
of the component's run before it was proved.

Only model-checked is liveness (`OwedIsSent`, `Flushed`, `HealthyNotStarved`,
`JamsEnd`, `NotPinned`, `ArrivesWhileServed`, `HeldComesBack`): fairness is out of
the prover's reach. Every other property of a passing run is stated by a theorem.

## Not modelled

- `hub/auth.py` and `ferry/config.py`: tables read once at start; a hello whose
  token is refused leaves no state.
- `docs/tap.py`: a diagnostic script outside both processes.
- `encode` and `decode` of `envelope.py`, which neither hub nor ferry calls, and
  malformed frames at the hub, which it drops without a change of state.
- Of `wire.py` the attributes of the wrapper (from, hop-chain, from-name); of
  `projectid.py` the call of git and the cache that never forgets.
- The wording of notices and statuses, TLS, argument parsing, logging.

Taken for granted, where the code relies on its surroundings: the hub's clock
does not go back; a client has one connection at a time, and no hello of one that
it abandoned reaches the hub late; a ferry posts envelopes under its own host's
name, which the hub does not check; the file of a key or an entry is written at
once (until it is closed its readers skip it); a socket that answers
is that of the session it was ranked for; a session whose socket let `drain`
return gets the whole message, although the transport may still hold part of it;
the far host answers a post once.

## Plan

`C2C` with more refusing sessions than `MAX_INJECT_ATTEMPTS`, which starve a
healthy one behind them on every redelivery: the ranking would have to be part
of the module. The cache of `projectid.py`, if origins are ever expected to
change under a running ferry.
