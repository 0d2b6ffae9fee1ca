----------------------------- MODULE ProjectId -----------------------------
(***************************************************************************)
(* How the URL of a git origin becomes a project id                         *)
(* (normalize_remote in src/src/c2c/ferry/projectid.py).                    *)
(*                                                                          *)
(* Both hosts derive a message's project from their own checkout's origin,  *)
(* so every spelling of one repository should give one id.  Of the ways to  *)
(* write an origin (Origins) normalize_remote reads some alike (Spellings)  *)
(* and gives others an id of their own, or one of another repository        *)
(* (Misread).  A URL is a sequence of tokens: names, and the marks that the *)
(* code looks for.                                                          *)
(***************************************************************************)
EXTENDS Sequences, SequencesExt

CONSTANTS
  Name,         \* the words that hosts, paths, users and ports are made of
  LowerOf,      \* str.lower of each
  Repositories  \* records [host, path]

Marks == {"/", ":", "@", "://", ".git"}

\* A path begins and ends with a word, which need not be in lower case; neither
\* need the host.
ASSUME ProjectIdAssumption ==
  /\ Name \cap Marks = {}
  /\ LowerOf \in [Name -> Name]
  /\ \A repo \in Repositories :
       /\ DOMAIN repo = {"host", "path"}
       /\ repo.host \in Seq(Name) \ {<<>>}
       /\ repo.path \in Seq(Name \cup {"/"}) \ {<<>>}
       /\ "/" \notin {Head(repo.path), Last(repo.path)}

----------------------------------------------------------------------------

\* str.partition: what comes before and after the first mark, if there is one.
Place(url, mark) == SelectInSeq(url, LAMBDA token : token = mark)

Before(url, mark) ==
  IF Place(url, mark) = 0 THEN url ELSE SubSeq(url, 1, Place(url, mark) - 1)

After(url, mark) ==
  IF Place(url, mark) = 0 THEN <<>> ELSE SubSeq(url, Place(url, mark) + 1, Len(url))

\* host.lower(): marks have no case.
Lower(host) ==
  [i \in DOMAIN host |-> IF host[i] \in Name THEN LowerOf[host[i]] ELSE host[i]]

\* Mutant: path.lstrip('/').
StripLeading(path) == IF path # <<>> /\ Head(path) = "/" THEN Tail(path) ELSE path

\* path.strip('/'): paths here have one slash at most at either end.
Strip(path) ==
  LET tail == IF path # <<>> /\ Head(path) = "/" THEN Tail(path) ELSE path
  IN IF tail # <<>> /\ Last(tail) = "/" THEN Front(tail) ELSE tail

Id(host, path) == Lower(host) \o <<"/">> \o Strip(path)

\* Mutant: the port stays.
NormalizeKeepsPort(url) ==
  LET u == IF Last(url) = ".git" THEN Front(url) ELSE url
      rest == After(u, "://")
      bare == IF Place(Before(rest, "/"), "@") # 0 THEN After(rest, "@") ELSE rest
      user == After(u, "@")
  IN IF Place(u, "://") # 0 THEN Id(Before(bare, "/"), After(bare, "/"))
     ELSE IF Place(u, "@") # 0 /\ Place(Before(u, "/"), ":") # 0
          THEN Id(Before(user, ":"), After(user, ":"))
     ELSE Id(Before(Before(u, "/"), ":"), After(u, "/"))

\* normalize_remote: drop .git at the end; then, of a URL with a scheme, drop
\* scheme, user and port; of the form user@host:path, the user; of anything
\* else the port.
Normalize(url) ==
  LET u == IF Last(url) = ".git" THEN Front(url) ELSE url
      rest == After(u, "://")
      bare == IF Place(Before(rest, "/"), "@") # 0 THEN After(rest, "@") ELSE rest
      user == After(u, "@")
  IN IF Place(u, "://") # 0 THEN Id(Before(Before(bare, "/"), ":"), After(bare, "/"))
     ELSE IF Place(u, "@") # 0 /\ Place(Before(u, "/"), ":") # 0
          THEN Id(Before(user, ":"), After(user, ":"))
     ELSE Id(Before(Before(u, "/"), ":"), After(u, "/"))

----------------------------------------------------------------------------
(* The ways to write the origin of a repository.  First those that          *)
(* normalize_remote reads alike.                                            *)

Ends == {<<>>, <<".git">>, <<"/">>}
Users == {<<>>} \cup {<<user, "@">> : user \in Name}
Ports == {<<>>} \cup {<<":", port>> : port \in Name}

Urls(repo) ==
  {<<"ssh", "://">> \o user \o repo.host \o port \o <<"/">> \o repo.path \o end :
     user \in Users, port \in Ports, end \in Ends}

\* git's short form, with a user.
Shorts(repo) ==
  {<<user, "@">> \o repo.host \o <<":">> \o slash \o repo.path \o end :
     user \in Name, slash \in {<<>>, <<"/">>}, end \in Ends}

Bares(repo) ==
  {repo.host \o port \o <<"/">> \o repo.path \o end : port \in Ports, end \in Ends}

Spellings(repo) == Urls(repo) \cup Shorts(repo) \cup Bares(repo)

\* git reads the short form without a user as well, where normalize_remote takes
\* what stands between the colon and the first slash for a port; and ".git/",
\* where it finds no ".git" at the end and keeps it.
Misread(repo) ==
  {repo.host \o <<":">> \o repo.path \o end : end \in Ends}
    \cup {url \o <<"/">> : url \in {u \in Spellings(repo) : Last(u) = ".git"}}

Origins(repo) == Spellings(repo) \cup Misread(repo)

----------------------------------------------------------------------------

\* Two hosts mean the same repository: its path, on a host whose name has no case.
SameRepository(r, q) == Lower(r.host) = Lower(q.host) /\ r.path = q.path

\* The ids that the Spellings of a repository have: one, and that of no other.
Ids(repo) == {Normalize(url) : url \in Spellings(repo)}
OneIdEach ==
  \A r, q \in Repositories : \A i \in Ids(r), j \in Ids(q) :
    i = j <=> SameRepository(r, q)
=============================================================================
