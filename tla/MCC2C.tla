------------------------------- MODULE MCC2C -------------------------------
(* Model-checking instances of C2C: a host that sends, a host that takes.   *)
EXTENDS C2C

Mail(id, at) ==
  [msg_id |-> id, project |-> "P", origin_host |-> "home", target_kind |-> "host",
   target_host |-> "work", ttl_s |-> 1, created_at |-> at]

MCHost == {"home", "work"}
MCProject == {"P"}
OneMail == {Mail(1, 1)}

Run(id) == [id |-> id, host |-> "work", project |-> "P"]
Healthy == Run("s1")
Refusing == Run("s2")
MCSession == {Healthy, Refusing}
OnlyHealthy == {Healthy}
OnlyRefusing == {Refusing}
MCClock == {0, 2000}
OneInstant == {0}
=============================================================================
