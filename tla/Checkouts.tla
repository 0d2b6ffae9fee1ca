----------------------------- MODULE Checkouts -----------------------------
(***************************************************************************)
(* The ferry of Ferry whose sessions work in checkouts: the project of a    *)
(* registry entry and of a note is what project_for_cwd                     *)
(* (src/src/c2c/ferry/projectid.py) makes of the origin that their checkout *)
(* names.  The two ferries read the URL from two checkouts, and compare     *)
(* nothing but the ids.                                                     *)
(***************************************************************************)
EXTENDS Ferry, ProjectId

CONSTANT
  CheckoutOf  \* where a session or the sender of a note works: its repository,
              \* and the url of its origin

\* The entries and notes that have a project, hence an origin.
WithOrigin == {e \in Entries : e.project # NoProject} \cup Notes

ASSUME CheckoutAssumption ==
  \A x \in WithOrigin :
    /\ CheckoutOf[x].repo \in Repositories
    /\ CheckoutOf[x].url \in Origins(CheckoutOf[x].repo)
    /\ x.project = Normalize(CheckoutOf[x].url)

\* Session e works in the repository that note n was sent from.
SharesRepository(e, n) ==
  /\ e.project # NoProject
  /\ SameRepository(CheckoutOf[e].repo, CheckoutOf[n].repo)

\* Those whose origin is written in a way that normalize_remote reads alike.
ReadAlike == {x \in WithOrigin : CheckoutOf[x].url \in Spellings(CheckoutOf[x].repo)}

\* The sessions whose project a note may be compared with.
InProjects == {e \in live : e.project # NoProject}

(***************************************************************************)
(* app.py:134, app.py:274: where both origins are written with a scheme, as *)
(* user@host:path or as host/path, with any user and port and with nothing, *)
(* ".git" or a slash at the end (Spellings), the project a sender's ferry   *)
(* puts on a message is the one the far ferry finds for a session in the    *)
(* same repository, and for no other session.  Nothing is said of origins   *)
(* without a user in the short form or ending in ".git/" (Misread).         *)
(***************************************************************************)
SpellingsAgree ==
  /\ OneIdEach
  /\ \A e \in InProjects, n \in Notes : {e, n} \subseteq ReadAlike =>
       (e.project = n.project <=> SharesRepository(e, n))

(***************************************************************************)
(* While the origins of a note and of all sessions are among Spellings, the *)
(* note is offered to sessions in its repository, and held only when none   *)
(* is there: neither an origin spelled differently nor a registry that      *)
(* changes before the delivery leads it elsewhere or keeps it back.  (With  *)
(* the origins of Misread both happen.)                                     *)
(***************************************************************************)
RoutesByRepository ==
  [][\A n \in Notes :
       Deliver(Note(n)) /\ InProjects \cup {n} \subseteq ReadAlike =>
         LET there == {e \in live : e.ok /\ SharesRepository(e, n)}
         IN IF there = {} THEN reader' = reader
            ELSE /\ reader'.pc = "injecting" /\ reader'.env = Note(n)
                 /\ reader'.targets # <<>>
                 /\ Range(reader'.targets) \subseteq there]_vars

(***************************************************************************)
(* README.md:29: the same project means the same thing on both hosts,       *)
(* whatever way the origins are written.  A session that took a note works, *)
(* or worked, in a checkout of the repository the note was sent from.       *)
(***************************************************************************)
TakenInItsRepository ==
  \A n \in Notes : \A t \in taken : t.mid = n.mid =>
    \E e \in Entries : e.sid = t.sid /\ SharesRepository(e, n)
=============================================================================
