------------------------------ MODULE Mailbox ------------------------------
(***************************************************************************)
(* The hub's durable mailbox (src/src/c2c/hub/mailbox.py): a table of whole *)
(* envelopes keyed by msg_id, a table of per-host acknowledgements, a cap   *)
(* per project and an expiry per envelope.                                  *)
(*                                                                          *)
(* Every method runs inside one SQLite transaction that is committed before *)
(* it returns, so each is one action; a crash in the middle rolls back and  *)
(* is no step at all.  The tables are on disk: a hub restart keeps both.    *)
(***************************************************************************)
EXTENDS Integers, FiniteSets

CONSTANTS
  Host,           \* host_ids known to the hub's auth file
  Project,        \* project ids
  NoHost,         \* SQL NULL: target_host of an envelope aimed at a project
  Envelopes,      \* the envelopes that hosts may post
  MaxPerProject,  \* max_per_project
  Clock           \* the instants, in ms, the hub may read from its clock

EnvelopeType ==
  [msg_id: Int, project: Project, origin_host: Host,
   target_kind: {"host", "project"}, target_host: Host \cup {NoHost},
   ttl_s: Nat \ {0}, created_at: Nat \ {0}]

ASSUME MailboxAssumption ==
  /\ Envelopes \subseteq EnvelopeType
  /\ NoHost \notin Host
  /\ MaxPerProject \in Nat
  /\ Clock \subseteq Nat /\ Clock # {}

VARIABLES
  messages,       \* rows of table messages
  acks,           \* rows of table acks: <<msg_id, host>>
  now             \* the hub's clock, ms

vars == <<messages, acks, now>>

----------------------------------------------------------------------------

\* When an envelope stops being deliverable (envelope.expires_at).
ExpiresAt(env) == env.created_at + env.ttl_s * 1000

\* The order of ORDER BY created_at, msg_id.
Older(m, n) ==
  \/ m.created_at < n.created_at
  \/ m.created_at = n.created_at /\ m.msg_id < n.msg_id

\* The rows of m's project that come after m in that order.
Newer(rows, m) == {n \in rows : n.project = m.project /\ Older(m, n)}

\* Mutant: OFFSET is one too large.
OverCapOffByOne(rows, p) ==
  {m \in rows : m.project = p /\ Cardinality(Newer(rows, m)) > MaxPerProject}

\* Mutant: ORDER BY ... ASC, the newest rows are evicted.
OverCapNewest(rows, p) ==
  {m \in rows : /\ m.project = p
                /\ Cardinality({n \in rows : n.project = p /\ Older(n, m)})
                     >= MaxPerProject}

\* What _evict_over_cap selects: the rows of project p beyond the newest
\* MaxPerProject of them.
OverCap(rows, p) ==
  {m \in rows : m.project = p /\ Cardinality(Newer(rows, m)) >= MaxPerProject}

Ids(rows) == {m.msg_id : m \in rows}

\* Mutant: msg_id is no key.
InsertedUnkeyed(env) == messages \cup {env}

\* INSERT OR IGNORE on the primary key msg_id.
Inserted(env) ==
  IF env.msg_id \in Ids(messages) THEN messages ELSE messages \cup {env}

\* Mutant: a deletion clears the whole table of acknowledgements.
DeleteAllAcks(rows, victims) ==
  /\ messages' = rows \ victims
  /\ acks' = IF rows \cap victims = {} THEN acks ELSE {}

\* Delete rows and, with each of them, its acknowledgements.
Delete(rows, victims) ==
  /\ messages' = rows \ victims
  /\ acks' = {a \in acks : a[1] \notin Ids(victims)}

\* An envelope is meant for host h: sent to it by name, or to its project by
\* another host.
Addressed(m, h) ==
  \/ m.target_kind = "host" /\ m.target_host = h
  \/ m.target_kind = "project" /\ m.origin_host # h

\* The WHERE clause of pending_for: h is still owed the stored envelope m.
Owed(m, h) ==
  /\ m \in messages
  /\ ExpiresAt(m) > now
  /\ <<m.msg_id, h>> \notin acks
  /\ Addressed(m, h)

\* pending_for(h, projects, now); its ORDER BY is Older.
PendingFor(h, projects) ==
  {m \in messages : /\ Owed(m, h)
                    /\ m.target_kind = "project" => m.project \in projects}

----------------------------------------------------------------------------

Init ==
  /\ messages = {}
  /\ acks = {}
  /\ now \in Clock

Put(env) ==
  /\ Delete(Inserted(env), OverCap(Inserted(env), env.project))
  /\ UNCHANGED now

Ack(mid, h) ==
  /\ acks' = acks \cup {<<mid, h>>}
  /\ UNCHANGED <<messages, now>>

\* Mutant: the sweep runs a second ahead of the clock.
SweepEarly ==
  /\ Delete(messages, {m \in messages : ExpiresAt(m) <= now + 1000})
  /\ UNCHANGED now

SweepExpired ==
  /\ Delete(messages, {m \in messages : ExpiresAt(m) <= now})
  /\ UNCHANGED now

\* Taken as a clock that never goes back, which time.time() may (server.py:28).
Tick ==
  /\ \E t \in Clock : t > now /\ now' = t
  /\ UNCHANGED <<messages, acks>>

Next ==
  \/ \E env \in Envelopes : Put(env)
  \/ \E env \in Envelopes, h \in Host : Ack(env.msg_id, h)
  \/ SweepExpired
  \/ Tick

Spec == Init /\ [][Next]_vars

----------------------------------------------------------------------------

(***************************************************************************)
(* The tables hold rows of their types and msg_id is a key of messages      *)
(* (PRIMARY KEY with INSERT OR IGNORE).                                     *)
(***************************************************************************)
TypeOK ==
  /\ messages \subseteq Envelopes
  /\ IsFiniteSet(messages)
  /\ \A m, n \in messages : m.msg_id = n.msg_id => m = n
  /\ acks \subseteq Ids(Envelopes) \X Host
  /\ now \in Clock

\* The rows stored for project p.
OfProject(p) == {m \in messages : m.project = p}

(***************************************************************************)
(* No project ever holds more than max_per_project envelopes, whatever the  *)
(* order of their created_at and however projects interleave                *)
(* (_evict_over_cap runs inside put).                                       *)
(***************************************************************************)
CapHolds == \A p \in Project : Cardinality(OfProject(p)) <= MaxPerProject

(***************************************************************************)
(* Store and forward: an envelope a host is owed stays owed to it until     *)
(* that very host acknowledges it, it expires, or MaxPerProject newer       *)
(* envelopes of its own project have displaced it.  No other step, and no   *)
(* other host's acknowledgement, may take it away.                          *)
(***************************************************************************)
PendingUntilSettled ==
  [][\A h \in Host, m \in messages :
       Owed(m, h) =>
         \/ Owed(m, h)'
         \/ <<m.msg_id, h>> \in acks'
         \/ ExpiresAt(m) <= now'
         \/ Cardinality(Newer(messages', m)) >= MaxPerProject]_vars

(***************************************************************************)
(* sweep_expired and pending_for agree on the boundary instant: a sweep     *)
(* never changes what any host would be sent, for any announced projects.   *)
(***************************************************************************)
SweepIsInvisible ==
  [][SweepExpired =>
       \A h \in Host, ps \in SUBSET Project :
         PendingFor(h, ps)' = PendingFor(h, ps)]_vars

(***************************************************************************)
(* An acknowledgement is forgotten only together with its envelope, so no   *)
(* stored envelope is ever owed again to a host that took it.               *)
(***************************************************************************)
AcksOutliveNothing ==
  [][\A a \in acks \ acks' : a[1] \notin Ids(messages')]_vars
=============================================================================
