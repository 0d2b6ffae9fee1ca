----------------------------- MODULE LocalPeer -----------------------------
(***************************************************************************)
(* The ferry as a peer among the sessions of its host                       *)
(* (src/src/c2c/ferry/localpeer.py): the files it publishes in the registry *)
(* (registry.py reads them), the order in which a start, an orderly end or  *)
(* a kill makes and removes them, and the connections it accepts.           *)
(*                                                                          *)
(* Every file of a process is named after its pid, so a process that comes  *)
(* by the pid of a dead one inherits what that one left behind.  Other      *)
(* processes look at the files between any two operations on them.          *)
(***************************************************************************)
EXTENDS Integers, Sequences, FiniteSets, Wire

CONSTANTS
  Pid,        \* process ids
  Client,     \* local processes that connect to the ferry
  Bodies,     \* what they may say
  Texts,      \* bodies of which no more than their wrapping is looked at
  Limit,      \* wire_max(), in lines
  MaxBirths   \* bound: processes that are started

ASSUME LocalPeerAssumption ==
  /\ Pid \subseteq Nat \ {0}
  /\ Bodies \cup Texts \subseteq Seq(Token)
  /\ Limit \in Nat \ {0} /\ MaxBirths \in Nat

VARIABLES
  kind,     \* the processes started so far, by what they are
  runs,     \* per pid: the number of the process that runs under it, or 0
  phase,    \* how far the ferry has come
  entry,    \* per pid: who wrote <pid>.json, or 0 when there is none
  key,      \* per pid: whose token is in <pid>.<hash>.key, or 0
  sock,     \* per pid: who bound <pid>.sock, or 0
  conn,     \* per client: its connection to the ferry
  killed,   \* history: the processes that were killed
  heard     \* history: per client, what on_message was given of its lines

files == <<entry, key, sock>>
vars == <<kind, runs, phase, files, conn, killed, heard>>

----------------------------------------------------------------------------
(* Processes *)

Kinds == {"ferry", "session", "other"}
Phases == {"none", "started", "keyed", "published", "serving", "closed",
           "unkeyed"}

Births == 1 .. Len(kind)

\* The running ferry, and its pid.
IsFerry(p) == runs[p] # 0 /\ kind[runs[p]] = "ferry"
Running == \E p \in Pid : IsFerry(p)
MyPid == CHOOSE p \in Pid : IsFerry(p)
Me == runs[MyPid]

\* A line of a connection, as wire.py and Claude Code write it; body is what
\* the session meant.
Auth(token) == [type |-> "auth", token |-> token]
User(body) == [type |-> "user", body |-> body, content |-> BuildWrapper(body)]
Junk == [type |-> "junk"]    \* not JSON, of another type, or no wrapper
Odd == [type |-> "odd"]      \* JSON that is no object, or a user line without from

Line == {Auth(t) : t \in 0 .. MaxBirths} \cup {User(b) : b \in Bodies} \cup {Junk, Odd}

\* A connection: the lines read so far, whether a read has waited for long, and
\* whether it ended as it should.
Fresh == [open |-> FALSE, buf |-> <<>>, waited |-> FALSE, ended |-> "no"]

Longer(c, line) == [conn[c] EXCEPT !.buf = Append(@, line), !.waited = FALSE]

Hangup(c, how) == [open |-> FALSE, buf |-> conn[c].buf, waited |-> FALSE, ended |-> how]

\* With the ferry all its connections end.
AllHungUp == [c \in Client |-> IF conn[c].open THEN Hangup(c, "lost") ELSE conn[c]]

\* A process starts under a free pid; there is one ferry at a time.
Start(p, what) ==
  /\ runs[p] = 0
  /\ Len(kind) < MaxBirths
  /\ what = "ferry" => ~ Running
  /\ kind' = Append(kind, what)
  /\ runs' = [runs EXCEPT ![p] = Len(kind) + 1]
  /\ phase' = IF what = "ferry" THEN "started" ELSE phase
  /\ UNCHANGED <<files, conn, killed, heard>>

\* A process is killed, or ends before its signal handlers and its cleanup are
\* set up.
Kill(p) ==
  /\ runs[p] # 0
  /\ runs' = [runs EXCEPT ![p] = 0]
  /\ phase' = IF IsFerry(p) THEN "none" ELSE phase
  /\ conn' = IF IsFerry(p) THEN AllHungUp ELSE conn
  /\ killed' = killed \cup {runs[p]}
  /\ UNCHANGED <<kind, files, heard>>

\* A session writes its files, and removes them as it ends.
SessionPublishes(p) ==
  /\ runs[p] # 0 /\ kind[runs[p]] = "session" /\ entry[p] # runs[p]
  /\ entry' = [entry EXCEPT ![p] = runs[p]]
  /\ key' = [key EXCEPT ![p] = runs[p]]
  /\ sock' = [sock EXCEPT ![p] = runs[p]]
  /\ UNCHANGED <<kind, runs, phase, conn, killed, heard>>

SessionEnds(p) ==
  /\ runs[p] # 0 /\ kind[runs[p]] = "session" /\ entry[p] = runs[p]
  /\ runs' = [runs EXCEPT ![p] = 0]
  /\ entry' = [entry EXCEPT ![p] = 0]
  /\ key' = [key EXCEPT ![p] = 0]
  /\ sock' = [sock EXCEPT ![p] = 0]
  /\ UNCHANGED <<kind, phase, conn, killed, heard>>

----------------------------------------------------------------------------
(* publish, serve, cleanup *)

\* The ferry goes from one phase to the next.
Advance(from, to) ==
  /\ Running /\ phase = from /\ phase' = to
  /\ UNCHANGED <<kind, killed, heard>>

\* Mutant: the entry is written before the key.
PublishEntryFirst ==
  /\ Advance("started", "keyed")
  /\ entry' = [entry EXCEPT ![MyPid] = Me]
  /\ UNCHANGED <<runs, key, sock, conn>>

\* publish writes the key file, in one step here: between open("w") and the
\* close readers find no JSON in it and skip it as if it were not there...
PublishKey ==
  /\ Advance("started", "keyed")
  /\ key' = [key EXCEPT ![MyPid] = Me]
  /\ UNCHANGED <<runs, entry, sock, conn>>

\* ... and then the entry.
PublishEntry ==
  /\ Advance("keyed", "published")
  /\ entry' = [entry EXCEPT ![MyPid] = Me]
  /\ UNCHANGED <<runs, key, sock, conn>>

\* serve replaces a socket a dead process has left.
Serve ==
  /\ Advance("published", "serving")
  /\ sock' = [sock EXCEPT ![MyPid] = Me]
  /\ UNCHANGED <<runs, entry, key, conn>>

\* SIGTERM: the handler, there from "published" on, ends the tasks; cleanup
\* removes the socket...
Terminate ==
  /\ \/ Advance("published", "closed")
     \/ Advance("serving", "closed")
  /\ sock' = [sock EXCEPT ![MyPid] = 0]
  /\ conn' = AllHungUp
  /\ UNCHANGED <<runs, entry, key>>

\* ... the key...
Unkey ==
  /\ Advance("closed", "unkeyed")
  /\ key' = [key EXCEPT ![MyPid] = 0]
  /\ UNCHANGED <<runs, entry, sock, conn>>

\* Mutant: the entry stays.
ExitLeavesEntry ==
  /\ Advance("unkeyed", "none")
  /\ runs' = [runs EXCEPT ![MyPid] = 0]
  /\ UNCHANGED <<files, conn>>

\* ... and the entry, and the process ends.
Exit ==
  /\ Advance("unkeyed", "none")
  /\ entry' = [entry EXCEPT ![MyPid] = 0]
  /\ runs' = [runs EXCEPT ![MyPid] = 0]
  /\ UNCHANGED <<key, sock, conn>>

----------------------------------------------------------------------------
(* _handle *)

\* The lines of buf after the first whose handling does not raise, up to one
\* whose handling does.
Handled(buf) ==
  LET bad == {i \in DOMAIN buf : i > 1 /\ buf[i] = Odd}
  IN {i \in DOMAIN buf : i > 1 /\ \A j \in bad : i < j}

\* What on_message is given once all of a connection was read, line by line:
\* nothing unless the first line is the ferry's token.
HandedOn(buf) ==
  [i \in {i \in Handled(buf) : buf[1] = Auth(Me) /\ buf[i].type = "user"} |->
     ParseWrapper(buf[i].content)]

\* A client connects.
Dial(c) ==
  /\ phase = "serving" /\ ~ conn[c].open
  /\ conn' = [conn EXCEPT ![c] = [Fresh EXCEPT !.open = TRUE]]
  /\ heard' = [heard EXCEPT ![c] = <<>>]
  /\ UNCHANGED <<kind, runs, phase, files, killed>>

\* Mutant: what exceeds the limit is thrown away and reading goes on.
ReadLineForEver(c, line) ==
  /\ conn[c].open
  /\ conn' = [conn EXCEPT ![c].waited = FALSE,
                ![c].buf = IF Len(@) < Limit THEN Append(@, line) ELSE @]
  /\ UNCHANGED <<kind, runs, phase, files, killed, heard>>

\* Mutant: there is no limit.
ReadLineUnlimited(c, line) ==
  /\ conn[c].open
  /\ conn' = [conn EXCEPT ![c].buf = Append(@, line), ![c].waited = FALSE]
  /\ UNCHANGED <<kind, runs, phase, files, killed, heard>>

\* A read returns another line; beyond the limit the connection is dropped.
ReadLine(c, line) ==
  /\ conn[c].open
  /\ conn' = [conn EXCEPT ![c] = IF Len(conn[c].buf) < Limit THEN Longer(c, line)
                                 ELSE Hangup(c, "lost")]
  /\ UNCHANGED <<kind, runs, phase, files, killed, heard>>

\* The sender has closed its side: all is read.
ReadEnd(c) ==
  /\ conn[c].open
  /\ conn' = [conn EXCEPT ![c] = Hangup(c, "well")]
  /\ heard' = [heard EXCEPT ![c] = HandedOn(conn[c].buf)]
  /\ UNCHANGED <<kind, runs, phase, files, killed>>

\* Nothing comes for a while.
ReadWaits(c) ==
  /\ conn[c].open /\ ~ conn[c].waited
  /\ conn' = [conn EXCEPT ![c].waited = TRUE]
  /\ UNCHANGED <<kind, runs, phase, files, killed, heard>>

\* Mutant: what was read before the timeout is handled.
ReadTimesOutHandled(c) ==
  /\ conn[c].open /\ conn[c].waited
  /\ conn' = [conn EXCEPT ![c] = Hangup(c, "lost")]
  /\ heard' = [heard EXCEPT ![c] = HandedOn(conn[c].buf)]
  /\ UNCHANGED <<kind, runs, phase, files, killed>>

\* READ_TIMEOUT_S passed since the last read.
ReadTimesOut(c) ==
  /\ conn[c].open /\ conn[c].waited
  /\ conn' = [conn EXCEPT ![c] = Hangup(c, "lost")]
  /\ UNCHANGED <<kind, runs, phase, files, killed, heard>>

\* The connection is reset: OSError.
ReadFails(c) ==
  /\ conn[c].open
  /\ conn' = [conn EXCEPT ![c] = Hangup(c, "lost")]
  /\ UNCHANGED <<kind, runs, phase, files, killed, heard>>

----------------------------------------------------------------------------

NoFiles == [p \in Pid |-> 0]

Init ==
  /\ kind = <<>>
  /\ runs = NoFiles
  /\ phase = "none"
  /\ entry = NoFiles /\ key = NoFiles /\ sock = NoFiles
  /\ conn = [c \in Client |-> Fresh]
  /\ killed = {}
  /\ heard = [c \in Client |-> <<>>]

\* The event loop notices that a read waits, and that it has waited too long.
Timer(c) == ReadWaits(c) \/ ReadTimesOut(c)

Next ==
  \/ \E p \in Pid :
       \/ \E what \in Kinds : Start(p, what)
       \/ Kill(p) \/ SessionPublishes(p) \/ SessionEnds(p)
  \/ PublishKey \/ PublishEntry \/ Serve
  \/ Terminate \/ Unkey \/ Exit
  \/ \E c \in Client :
       \/ Dial(c)
       \/ \E line \in Line : ReadLine(c, line)
       \/ ReadEnd(c) \/ ReadFails(c)
       \/ Timer(c)

Spec == Init /\ [][Next]_vars

FairSpec == Spec /\ \A c \in Client : WF_vars(Timer(c))

----------------------------------------------------------------------------

(***************************************************************************)
(* The state has its types; there is one ferry, and it is in a phase.       *)
(***************************************************************************)
TypeOK ==
  /\ kind \in Seq(Kinds) /\ Len(kind) <= MaxBirths
  /\ {runs, entry, key, sock} \subseteq [Pid -> 0 .. Len(kind)]
  /\ phase \in Phases /\ (phase = "none" <=> ~ Running)
  /\ \A p, q \in Pid : IsFerry(p) /\ IsFerry(q) => p = q
  /\ \A c \in Client : /\ conn[c].buf \in Seq(Line) /\ Len(conn[c].buf) <= Limit
                       /\ conn[c].open => phase = "serving"

\* What read_sessions returns: the entries under pids that exist.
Visible == {p \in Pid : entry[p] # 0 /\ runs[p] # 0}

\* What peer_token_for finds beside entry p: the token of a process, or none.
PeerTokenFor(p) == key[p]

\* An entry outlived its process, and another one has its pid.
Recycled(p) == entry[p] # runs[p]

(***************************************************************************)
(* Whoever sees the entry of a running process finds that process' own      *)
(* token beside it, also under a pid whose files a dead process had left,   *)
(* until the ferry is about to leave.                                       *)
(***************************************************************************)
EntryHasKey ==
  \A p \in Visible : Recycled(p) \/ PeerTokenFor(p) = runs[p] \/ (IsFerry(p) /\ phase = "unkeyed")

(***************************************************************************)
(* __main__.py:53: an orderly end leaves nothing behind.  Whatever file is  *)
(* there belongs to the process that runs under its pid or to one that was  *)
(* killed, also when the kill came in the middle of a start or an end.      *)
(***************************************************************************)
LeftByKill ==
  \A p \in Pid : {entry[p], key[p], sock[p]} \subseteq {0, runs[p]} \cup killed

(***************************************************************************)
(* What the ferry hears from a connection came in full over a connection    *)
(* that ended well and opened with the token of a ferry; it is what was     *)
(* said there, with nothing left out before the last of it, and each body   *)
(* is what the session meant, unless that held an escaped tag itself.       *)
(***************************************************************************)
HeardAsSaid ==
  \A c \in Client : \A i \in DOMAIN heard[c] :
    LET lines == conn[c].buf
    IN /\ conn[c].ended = "well"
       /\ lines[1].type = "auth" /\ kind[lines[1].token] = "ferry"
       /\ lines[i].type = "user"
       /\ heard[c][i] = lines[i].body \/ Within({EscapedOpen, EscapedClose}, lines[i].body)
       /\ \A j \in 1 .. i - 1 : lines[j].type = "user" => j \in DOMAIN heard[c]

(***************************************************************************)
(* wire.py:22: whatever text is said on a connection, it is not mistaken    *)
(* for the end of its wrapper, and comes out of build_wrapper and           *)
(* parse_wrapper as it went in, unless it held an escaped tag already       *)
(* (EscapeIsSafe).                                                          *)
(***************************************************************************)
Unsafe == {body \in Texts : ~ EscapeIsSafe(body)}
EscapesAreSafe == \A c \in Client : conn[c].open => Unsafe = {}

(***************************************************************************)
(* localpeer.py:14: no client holds a handler for ever, not even one that   *)
(* keeps sending a little before every timeout.                             *)
(***************************************************************************)
NotPinned == \A c \in Client : conn[c].open ~> ~ conn[c].open
=============================================================================
