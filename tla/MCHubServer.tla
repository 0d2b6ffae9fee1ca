---------------------------- MODULE MCHubServer ----------------------------
(* Model-checking instances of HubServer. *)
EXTENDS HubServer

Env(id, origin, kind, target, ttl, created) ==
  [msg_id |-> id, project |-> "P", origin_host |-> origin, target_kind |-> kind,
   target_host |-> target, ttl_s |-> ttl, created_at |-> created]

MCHost == {"home", "work"}
MCProject == {"P"}
MCClock == {1000, 2000}

\* Two to work, of which the second is a fan-out on project P and, being newer,
\* displaces the first where only one is kept; and one back.
MCEnvelopes ==
  { Env(1, "home", "host", "work", 1, 1000),
    Env(2, "home", "project", "none", 9, 1000),
    Env(3, "work", "host", "home", 9, 1000) }
=============================================================================
