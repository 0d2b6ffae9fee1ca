----------------------------- MODULE MCMailbox -----------------------------
(* Model-checking instance of Mailbox: two hosts, two projects, a cap of    *)
(* two, five envelopes whose creation order differs from their id order.    *)
EXTENDS Mailbox

Env(id, p, origin, kind, target, ttl, created) ==
  [msg_id |-> id, project |-> p, origin_host |-> origin,
   target_kind |-> kind, target_host |-> target,
   ttl_s |-> ttl, created_at |-> created]

MCHost == {"home", "work"}
MCProject == {"P", "Q"}
MCClock == {1000, 2000, 3000, 4000}

\* Envelopes 1-4 compete for project P's two places: 1 and 2 tie on
\* created_at, 3 is older than both (a slow clock at its origin), 4 is a
\* fan-out.  5 lives in Q and never expires within the clock.  The second
\* envelope with id 1 is the re-insertion of tests/hub/test_mailbox_maintenance.py.
MCEnvelopes ==
  { Env(1, "P", "home", "host", "work", 1, 2000),
    Env(2, "P", "work", "host", "home", 1, 2000),
    Env(3, "P", "home", "host", "work", 2, 1000),
    Env(4, "P", "home", "project", "none", 1, 3000),
    Env(5, "Q", "home", "host", "work", 9, 1000),
    Env(1, "P", "home", "host", "work", 2, 2000) }
=============================================================================
