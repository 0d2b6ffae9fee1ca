------------------------------- MODULE Relay -------------------------------
(***************************************************************************)
(* What c2c as a whole promises about messages from one host to another     *)
(* (README.md, "How it works"; docs/superpowers/specs, "Delivery"), without *)
(* ferries, connections, outboxes or tables:                                *)
(*                                                                          *)
(*   - until the hub has stored a message, a fault may lose it;             *)
(*   - once stored it is kept until a session has taken it, it expires, or  *)
(*     enough newer messages of its project have displaced it;              *)
(*   - it may be taken more than once, and never before it was stored.      *)
(***************************************************************************)
EXTENDS Integers, FiniteSets

CONSTANTS
  Envelopes,      \* the messages: msg_id, project, created_at and ttl_s
  MaxPerProject   \* how many of a project the hub keeps

VARIABLES
  now,      \* the time, ms
  sent,     \* messages a session has sent
  waiting,  \* messages on their way to the hub
  stored,   \* messages the hub has ever stored
  kept,     \* messages the hub still owes to their target
  taken,    \* messages some session of the target has taken
  faults    \* crashes, broken connections, full queues so far

vars == <<now, sent, waiting, stored, kept, taken, faults>>

Expired(m, t) == m.created_at + m.ttl_s * 1000 <= t

\* Those of a set of messages that are of m's project and newer than m.
Successors(m, ms) ==
  {n \in ms : /\ n.project = m.project
              /\ \/ n.created_at > m.created_at
                 \/ n.created_at = m.created_at /\ n.msg_id > m.msg_id}

Displaced(m, ms) == Cardinality(Successors(m, ms)) >= MaxPerProject

\* The messages on their way are then those of S, of which a fault may have
\* lost some.
Waits(S) ==
  \/ waiting' = S /\ faults' = faults
  \/ waiting' \subseteq S /\ faults' = faults + 1

----------------------------------------------------------------------------

Init ==
  /\ now \in Nat
  /\ sent = {} /\ waiting = {} /\ stored = {} /\ kept = {} /\ taken = {}
  /\ faults = 0

Send(m) ==
  /\ m \notin sent
  /\ sent' = sent \cup {m}
  /\ Waits(waiting \cup {m})
  /\ UNCHANGED <<now, stored, kept, taken>>

\* A message reaches the hub, again perhaps, and may displace others.
Store(m) ==
  /\ m \in waiting
  /\ stored' = stored \cup {m}
  /\ kept' \subseteq kept \cup {m}
  /\ \A n \in (kept \cup {m}) \ kept' :
       n \in taken \/ Expired(n, now) \/ Displaced(n, stored')
  /\ Waits(waiting) \/ Waits(waiting \ {m})
  /\ UNCHANGED <<now, sent, taken>>

\* The sender no longer repeats what it knows to be sent.
Retire(m) ==
  /\ m \in stored
  /\ Waits(waiting \ {m})
  /\ UNCHANGED <<now, sent, stored, kept, taken>>

Take(m) ==
  /\ m \in stored
  /\ taken' = taken \cup {m}
  /\ UNCHANGED <<now, sent, waiting, stored, kept, faults>>

Settle(m) ==
  /\ m \in taken
  /\ kept' = kept \ {m}
  /\ UNCHANGED <<now, sent, waiting, stored, taken, faults>>

Pass ==
  /\ now' \in Nat /\ now' > now
  /\ kept' = {m \in kept : ~ Expired(m, now')}
  /\ UNCHANGED <<sent, waiting, stored, taken, faults>>

Fault ==
  /\ Waits(waiting)
  /\ UNCHANGED <<now, sent, stored, kept, taken>>

Next ==
  \/ \E m \in Envelopes : Send(m) \/ Store(m) \/ Retire(m) \/ Take(m) \/ Settle(m)
  \/ Pass
  \/ Fault

Spec == Init /\ [][Next]_vars
=============================================================================
