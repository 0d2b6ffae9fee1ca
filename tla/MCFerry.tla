------------------------------ MODULE MCFerry ------------------------------
(* Model-checking instances of Ferry. *)
EXTENDS Ferry

Entry(sid, sock, project, bg, ok) ==
  [sid |-> sid, sock |-> sock, project |-> project, bg |-> bg, ok |-> ok]

\* An interactive session and a background agent on one project, and the first
\* session again after it changed to a directory without a project.
Asker == Entry("s1", "k1", "P", FALSE, TRUE)
Agent == Entry("s2", "k2", "P", TRUE, TRUE)
Astray == Entry("s1", "k1", NoProject, FALSE, TRUE)

AskerAndAgent == {Asker, Agent}
OnlyAgent == {Agent}

OneNote == {[mid |-> 11, project |-> "P"]}
=============================================================================
