---------------------------- MODULE FerryProofs ----------------------------
(***************************************************************************)
(* Proofs about the ferry for every set of sessions and notes and every     *)
(* limit: its types, and that no message is acknowledged before a session   *)
(* took it.                                                                 *)
(*                                                                          *)
(* AckedMeansTaken is not inductive: an acknowledgement is also sent for a  *)
(* suppressed duplicate and after inject's sleep, so the dedup table and    *)
(* the reader's "written" state must stand for taken messages too.          *)
(* TypeOK is not inductive either: that no two pins are of one message      *)
(* needs that pins stand in the order of the posts (TypeInv).               *)
(***************************************************************************)
EXTENDS Ferry, SequenceTheorems, FiniteSetTheorems, TLAPS

(***************************************************************************)
(* A set of naturals that is not empty has a least member.                  *)
(***************************************************************************)
LEMMA LeastNatural ==
  ASSUME NEW T, T \subseteq Nat, T # {}
  PROVE  \E x \in T : \A y \in T : x <= y
<1>1. PICK x \in T : \A y \in T : ~ (<<y, x>> \in OpToRel(<, Nat))
  BY NatLessThanWellFounded, WFMin
<1>2. \A y \in T : ~ (y < x)
  BY <1>1 DEF OpToRel
<1> QED
  BY <1>2

(***************************************************************************)
(* RemoveAt moves what follows the removed element up by one.               *)
(***************************************************************************)
LEMMA RemovedAt ==
  ASSUME NEW S, NEW s \in Seq(S), NEW p \in 1 .. Len(s)
  PROVE  /\ RemoveAt(s, p) \in Seq(S)
         /\ Len(RemoveAt(s, p)) = Len(s) - 1
         /\ \A i \in 1 .. Len(s) - 1 :
              RemoveAt(s, p)[i] = IF i < p THEN s[i] ELSE s[i + 1]
<1> DEFINE before == SubSeq(s, 1, p - 1)
           after == SubSeq(s, p + 1, Len(s))
<1>1. Len(s) \in Nat /\ p \in Nat /\ 1 <= p /\ p <= Len(s)
  BY LenProperties
<1>2. \A i \in 1 .. Len(s) : s[i] \in S
  BY ElementOfSeq
<1>3. /\ before \in Seq(S) /\ Len(before) = p - 1
      /\ \A i \in 1 .. p - 1 : before[i] = s[i]
  <2>1. 1 \in Int /\ p - 1 \in Int /\ \A i \in 1 .. p - 1 : s[i] \in S
    BY <1>1, <1>2
  <2>2. /\ before \in Seq(S)
        /\ Len(before) = IF 1 <= p - 1 THEN (p - 1) - 1 + 1 ELSE 0
        /\ \A i \in 1 .. (p - 1) - 1 + 1 : before[i] = s[1 + i - 1]
    BY <2>1, SubSeqProperties
  <2> HIDE DEF before
  <2> QED
    BY <2>2, <1>1
<1>4. /\ after \in Seq(S) /\ Len(after) = Len(s) - p
      /\ \A i \in 1 .. Len(s) - p : after[i] = s[p + i]
  <2>1. p + 1 \in Int /\ Len(s) \in Int /\ \A i \in p + 1 .. Len(s) : s[i] \in S
    BY <1>1, <1>2
  <2>2. /\ after \in Seq(S)
        /\ Len(after) = IF p + 1 <= Len(s) THEN Len(s) - (p + 1) + 1 ELSE 0
        /\ \A i \in 1 .. Len(s) - (p + 1) + 1 : after[i] = s[(p + 1) + i - 1]
    BY <2>1, SubSeqProperties
  <2> HIDE DEF after
  <2> QED
    BY <2>2, <1>1
<1>5. RemoveAt(s, p) = before \o after
  BY DEF RemoveAt
<1> HIDE DEF before, after
<1>6. /\ before \o after \in Seq(S)
      /\ Len(before \o after) = Len(before) + Len(after)
      /\ \A i \in 1 .. Len(before) + Len(after) : (before \o after)[i] =
           IF i <= Len(before) THEN before[i] ELSE after[i - Len(before)]
  BY <1>3, <1>4, ConcatProperties
<1>7. ASSUME NEW i \in 1 .. Len(s) - 1
      PROVE  (before \o after)[i] = IF i < p THEN s[i] ELSE s[i + 1]
  <2>1. (before \o after)[i] = IF i <= p - 1 THEN before[i] ELSE after[i - (p - 1)]
    BY <1>1, <1>3, <1>4, <1>6
  <2>2. CASE i < p
    BY <2>1, <2>2, <1>1, <1>3
  <2>3. CASE ~ (i < p)
    <3>1. i - (p - 1) \in 1 .. Len(s) - p /\ p + (i - (p - 1)) = i + 1
      BY <2>3, <1>1
    <3> QED
      BY <2>1, <2>3, <3>1, <1>1, <1>4
  <2> QED
    BY <2>2, <2>3
<1> QED
  BY <1>1, <1>3, <1>4, <1>5, <1>6, <1>7

(***************************************************************************)
(* RemoveFirst removes one occurrence of the element, if there is any.      *)
(***************************************************************************)
LEMMA RemovedFirst ==
  ASSUME NEW S, NEW s \in Seq(S), NEW e
  PROVE  /\ RemoveFirst(s, e) \in Seq(S)
         /\ Len(RemoveFirst(s, e)) <= Len(s)
         /\ Range(s) \ {e} \subseteq Range(RemoveFirst(s, e))
         /\ (\E i \in 1 .. Len(s) : s[i] = e) =>
              \E i \in 1 .. Len(s) : s[i] = e /\ RemoveFirst(s, e) = RemoveAt(s, i)
<1>1. Len(s) \in Nat
  BY LenProperties
<1>2. CASE \E i \in 1 .. Len(s) : s[i] = e
  <2> DEFINE I == {i \in 1 .. Len(s) : s[i] = e}
             p == Min(I)
             r == RemoveAt(s, p)
  <2>1. p \in I
    <3>1. I \subseteq Nat /\ I # {}
      BY <1>2
    <3>2. \E x \in I : \A y \in I : x <= y
      <4> HIDE DEF I
      <4> QED BY <3>1, LeastNatural
    <3> QED
      BY <3>2 DEF Min
  <2>2. p \in 1 .. Len(s) /\ s[p] = e
    BY <2>1
  <2>3. RemoveFirst(s, e) = r
    <3>1. SelectInSeq(s, LAMBDA v : v = e) = p
      BY <1>2 DEF SelectInSeq
    <3> QED
      BY <1>2, <3>1 DEF RemoveFirst
  <2> HIDE DEF p
  <2>4. /\ r \in Seq(S) /\ Len(r) = Len(s) - 1
        /\ \A i \in 1 .. Len(s) - 1 : r[i] = IF i < p THEN s[i] ELSE s[i + 1]
    BY <2>2, RemovedAt
  <2> HIDE DEF r
  <2>5. ASSUME NEW x \in Range(s), x # e
        PROVE  x \in Range(r)
    <3>1. PICK i \in 1 .. Len(s) : s[i] = x
      BY RangeEquality
    <3>2. i # p
      BY <2>2, <2>5, <3>1
    <3>3. CASE i < p
      <4>1. i \in 1 .. Len(s) - 1 /\ r[i] = x
        BY <1>1, <2>2, <2>4, <3>1, <3>3
      <4> QED
        BY <4>1, <2>4, RangeEquality
    <3>4. CASE ~ (i < p)
      <4>1. i - 1 \in 1 .. Len(s) - 1 /\ ~ (i - 1 < p) /\ (i - 1) + 1 = i
        BY <1>1, <2>2, <3>2, <3>4
      <4>2. r[i - 1] = x
        BY <4>1, <2>4, <3>1
      <4> QED
        BY <4>1, <4>2, <2>4, RangeEquality
    <3> QED
      BY <3>3, <3>4
  <2> QED
    BY <1>1, <2>2, <2>3, <2>4, <2>5 DEF r
<1>3. CASE ~ \E i \in 1 .. Len(s) : s[i] = e
  <2>1. RemoveFirst(s, e) = s
    BY <1>3 DEF RemoveFirst
  <2> QED
    BY <2>1, <1>1, <1>3
<1> QED
  BY <1>2, <1>3

(***************************************************************************)
(* A duplicate-free listing of a finite set is a sequence over it.          *)
(***************************************************************************)
LEMMA ListedInSet ==
  ASSUME NEW S, IsFiniteSet(S), NEW order \in SetToSeqs(S)
  PROVE  order \in Seq(S)
<1>1. Cardinality(S) \in Nat
  BY FS_CardinalityType
<1>2. order \in [1 .. Cardinality(S) -> S]
  BY DEF SetToSeqs
<1> QED
  BY <1>1, <1>2, SeqDef

AckInv ==
  /\ AckedMeansTaken
  /\ \A m \in DOMAIN seen : Taken(m)
  /\ reader.pc = "written" => Taken(reader.env.mid)

(***************************************************************************)
(* check and record evict entries of the dedup table, and record adds one.  *)
(***************************************************************************)
LEMMA DedupDomain ==
  ASSUME NEW mid
  PROVE  /\ DOMAIN Evicted \subseteq DOMAIN seen
         /\ DOMAIN Recorded(mid) \subseteq DOMAIN seen \cup {mid}
         /\ IsDuplicate(mid) => mid \in DOMAIN seen
BY DEF Evicted, Recorded, IsDuplicate

(***************************************************************************)
(* A step that only evicts from the dedup table, or leaves it alone, and    *)
(* does not end an inject keeps the invariant.                              *)
(***************************************************************************)
LEMMA QuietStep ==
  ASSUME AckInv, taken' = taken, acked' = acked,
         DOMAIN seen' \subseteq DOMAIN seen,
         reader' = reader \/ reader'.pc # "written"
  PROVE  AckInv'
BY DEF AckInv, AckedMeansTaken, Taken

(***************************************************************************)
(* A message taken stays taken, and the one being injected becomes so.      *)
(***************************************************************************)
LEMMA WrittenIsTaken ==
  ASSUME InjectWritten
  PROVE  /\ \A m : Taken(m) => Taken(m)'
         /\ \A m : m = reader.env.mid => Taken(m)'
<1> DEFINE took == [mid |-> reader.env.mid, sid |-> Target.sid,
                    at |-> now, life |-> restarts]
<1>1. taken' = {t \in taken : t.mid # took.mid \/ t.sid # took.sid} \cup {took}
  BY DEF InjectWritten
<1>2. ASSUME NEW m, m = reader.env.mid
      PROVE  Taken(m)'
  <2>1. took \in taken' /\ took.mid = m
    BY <1>1, <1>2
  <2>2. QED
    BY <2>1 DEF Taken
<1>3. ASSUME NEW m, Taken(m)
      PROVE  Taken(m)'
  <2>1. PICK t \in taken : t.mid = m
    BY <1>3 DEF Taken
  <2>2. CASE t.mid = took.mid
    BY <1>2, <2>1, <2>2
  <2>3. CASE t.mid # took.mid
    BY <1>1, <2>1, <2>3 DEF Taken
  <2>4. QED
    BY <2>2, <2>3
<1>4. QED
  BY <1>2, <1>3

(***************************************************************************)
(* What every step of the ferry preserves.                                  *)
(***************************************************************************)
LEMMA AckInvInductive == AckInv /\ [Next]_vars => AckInv'
<1> SUFFICES ASSUME AckInv, [Next]_vars
             PROVE  AckInv'
  OBVIOUS
<1>1. ASSUME NEW env \in Inbound, DeliverDuplicate(env)
      PROVE  AckInv'
  <2>1. Taken(env.mid)
    BY <1>1, DedupDomain DEF DeliverDuplicate, AckInv
  <2>2. /\ taken' = taken /\ acked' = acked \cup {env.mid}
        /\ DOMAIN seen' \subseteq DOMAIN seen /\ reader' = reader
    BY <1>1, DedupDomain DEF DeliverDuplicate
  <2>3. QED
    BY <2>1, <2>2 DEF AckInv, AckedMeansTaken, Taken
<1>2. ASSUME NEW env \in Inbound, Deliver(env)
      PROVE  AckInv'
  <2>1. DOMAIN seen' \subseteq DOMAIN seen /\ taken' = taken /\ acked' = acked
    BY <1>2, DedupDomain DEF Deliver, history
  <2>2. reader' = reader \/ reader'.pc = "injecting"
    BY <1>2 DEF Deliver, Offer
  <2>3. QED
    BY <2>1, <2>2, QuietStep
<1>3. CASE InjectWritten
  <2>1. acked' = acked /\ seen' = seen /\ reader'.env = reader.env
    BY <1>3 DEF InjectWritten, memory
  <2>2. \A m : m = reader'.env.mid => Taken(m)'
    BY <1>3, <2>1, WrittenIsTaken
  <2>3. \A m : Taken(m) => Taken(m)'
    BY <1>3, WrittenIsTaken
  <2>4. QED
    BY <2>1, <2>2, <2>3 DEF AckInv, AckedMeansTaken
<1>4. CASE InjectReturns
  <2>1. Taken(reader.env.mid)
    BY <1>4 DEF InjectReturns, AckInv
  <2>2. /\ DOMAIN seen' \subseteq DOMAIN seen \cup {reader.env.mid}
        /\ acked' = acked \cup {reader.env.mid}
        /\ taken' = taken /\ reader'.pc = "idle"
    BY <1>4, DedupDomain DEF InjectReturns, Idle
  <2>3. QED
    BY <2>1, <2>2 DEF AckInv, AckedMeansTaken, Taken
<1>5. CASE InjectRefused
  <2>1. reader'.pc # "written"
    BY <1>5 DEF InjectRefused, Offer, Idle
  <2>2. seen' = seen /\ acked' = acked /\ taken' = taken
    BY <1>5 DEF InjectRefused, history
  <2>3. QED
    BY <2>1, <2>2, QuietStep
<1>6. CASE InjectRaises
  BY <1>6, QuietStep DEF InjectRaises, Idle, memory, history
<1>7. ASSUME NEW k \in DOMAIN posts, NEW kind \in Held, HubStatus(k, kind)
      PROVE  AckInv'
  <2>1. reader'.pc = "telling"
    BY <1>7 DEF HubStatus
  <2>2. seen' = seen /\ acked' = acked /\ taken' = taken
    BY <1>7 DEF HubStatus, history
  <2>3. QED
    BY <2>1, <2>2, QuietStep
<1>8. CASE StatusTold
  BY <1>8, QuietStep DEF StatusTold, Idle, memory, history
<1>9. CASE NoticeTask
  BY <1>9, QuietStep DEF NoticeTask, history
<1>10. ASSUME NEW e \in Entries, LocalMessage(e) \/ LocalMessageNowhere(e)
       PROVE  AckInv'
  BY <1>10, QuietStep DEF LocalMessage, LocalMessageNowhere, history
<1>11. ASSUME NEW e \in Entries, SessionStarts(e) \/ SessionEnds(e)
       PROVE  AckInv'
  BY <1>11, QuietStep DEF SessionStarts, SessionEnds, memory, history
<1>12. CASE Tick
  BY <1>12, QuietStep DEF Tick, memory, history
<1>13. CASE Restart
  <2>1. DOMAIN seen' = {} /\ reader'.pc = "idle"
    BY <1>13 DEF Restart, EmptyMap, Idle
  <2>2. acked' = acked /\ taken' = taken
    BY <1>13 DEF Restart
  <2>3. QED
    BY <2>1, <2>2, QuietStep
<1>14. CASE UNCHANGED vars
  BY <1>14, QuietStep DEF vars
<1>15. QED
  BY <1>1, <1>2, <1>3, <1>4, <1>5, <1>6, <1>7, <1>8, <1>9, <1>10,
     <1>11, <1>12, <1>13, <1>14 DEF Next, InjectStep

(***************************************************************************)
(* The hub is told a message was delivered only after a session took it,    *)
(* whatever is held, refused, cut short, redelivered or killed in between.  *)
(***************************************************************************)
THEOREM AckMeansTaken == Spec => []AckedMeansTaken
<1>1. Init => AckInv
  BY DEF Init, AckInv, AckedMeansTaken, EmptyMap, Idle
<1>2. AckInv => AckedMeansTaken
  BY DEF AckInv
<1>3. QED
  BY <1>1, <1>2, AckInvInductive, PTL DEF Spec
----------------------------------------------------------------------------
(* Types *)

Project == {e.project : e \in Entries}

(***************************************************************************)
(* TypeOK with what it leaves out and the steps rely on: finitely many      *)
(* sessions, the messages posted and taken, and what the reader holds.      *)
(***************************************************************************)
LiveInv ==
  /\ live \subseteq Entries /\ IsFiniteSet(live)
  /\ \A e, f \in live : e.sid = f.sid \/ e.sock = f.sock => e = f

TimeInv == now \in 0 .. MaxTime /\ restarts \in 0 .. MaxRestarts

PendingInv ==
  /\ pending \in [Sock -> Seq(Nat)]
  /\ \A s \in Sock : Len(pending[s]) <= PendingMax

\* Pins are in the order of their messages, no two of one message, and at most
\* one for each message posted since.
AwaitingInv ==
  /\ awaiting \in Seq([mid : 1 .. MaxPosts, sid : Sid]) /\ Len(awaiting) <= AwaitingMax
  /\ \A i \in 1 .. Len(awaiting) : awaiting[i].mid + (Len(awaiting) - i) <= Len(posts)
  /\ \A i, j \in 1 .. Len(awaiting) :
       i < j => awaiting[i].mid + (j - i) <= awaiting[j].mid

MemoryInv ==
  /\ \A m \in DOMAIN seen : m \in Nat /\ seen[m] \in 0 .. now
  /\ DOMAIN notified \subseteq News
  /\ \A k \in DOMAIN notified : notified[k] \in 0 .. now
  /\ told \in [News -> Seq(0 .. now)]
  /\ spawned \in Seq(Sid)

ReaderInv ==
  /\ reader.pc \in {"idle", "injecting", "written", "telling"}
  /\ reader.pc \in {"injecting", "written"} =>
       /\ reader.env.mid \in Nat /\ reader.pin \in Nat
       /\ reader.targets \in Seq(Entries) /\ reader.targets # <<>>

HistoryInv ==
  /\ acked \subseteq Nat
  /\ posts \in Seq([sid : Sid, sock : Sock, project : Project, orig : Nat,
                    life : 0 .. restarts])
  /\ Len(posts) <= MaxPosts
  /\ \A t \in taken : t.mid \in Nat /\ t.at \in 0 .. now /\ t.life \in 0 .. restarts

TypeInv ==
  /\ LiveInv /\ TimeInv /\ PendingInv /\ AwaitingInv /\ MemoryInv /\ ReaderInv
  /\ HistoryInv

LEMMA Constants ==
  /\ PendingMax \in Nat \ {0} /\ AwaitingMax \in Nat \ {0} /\ Attempts \in Nat \ {0}
  /\ Cooldown \in Nat \ {0} /\ Window \in Nat /\ MaxPosts \in Nat /\ MaxNotices \in Nat
  /\ MaxTime \in Nat /\ MaxRestarts \in Nat
BY FerryAssumption

(***************************************************************************)
(* What the hub delivers has a msg_id, above MaxPosts or that of a post; a  *)
(* reply is named after the post it answers.                                *)
(***************************************************************************)
LEMMA InboundIs ==
  ASSUME HistoryInv, NEW env \in Inbound
  PROVE  /\ env.mid \in Nat /\ env.orig \in Nat
         /\ env.mid \in 1 .. Len(posts) \/ env.mid > MaxPosts
         /\ env.orig \in {NoMid, env.mid}
         /\ env.mid \in 1 .. Len(posts) => env.orig = env.mid
<1>1. DOMAIN posts = 1 .. Len(posts) /\ Len(posts) \in Nat /\ Len(posts) <= MaxPosts
  BY LenProperties DEF HistoryInv
<1>2. CASE \E n \in Notes : env = Note(n)
  <2>1. PICK n \in Notes : env = Note(n)
    BY <1>2
  <2>2. env.mid = n.mid /\ env.orig = 0 /\ n.mid \in Nat /\ n.mid > MaxPosts
    BY <2>1, FerryAssumption DEF Note, NoMid
  <2> QED
    BY <2>2, <1>1, Constants DEF NoMid
<1>3. CASE \E k \in DOMAIN posts : env = ReplyTo(k)
  BY <1>3, <1>1 DEF ReplyTo
<1> QED
  BY <1>2, <1>3 DEF Inbound

(***************************************************************************)
(* The candidates of a message are sessions of the registry; with a pin     *)
(* they all are the session the pin is for.                                 *)
(***************************************************************************)
LEMMA CandidatesAreLive ==
  ASSUME TypeInv, NEW env, NEW targets \in Candidates(env)
  PROVE  /\ targets \in Seq(Entries)
         /\ ReplyPin(env) # NoMid =>
              \E i \in 1 .. Len(awaiting) :
                /\ awaiting[i].mid = ReplyPin(env)
                /\ \A j \in 1 .. Len(targets) : targets[j].sid = awaiting[i].sid
<1>1. live \subseteq Entries /\ IsFiniteSet(live)
  BY DEF TypeInv, LiveInv
<1>2. DOMAIN awaiting = 1 .. Len(awaiting)
  BY LenProperties DEF TypeInv, AwaitingInv
<1>3. CASE ReplyPin(env) # NoMid
  <2> DEFINE i == CHOOSE i \in Pins(env.orig) : TRUE
             S == SessionsById(awaiting[i].sid)
  <2>1. ReplyPin(env) = env.orig /\ Pins(env.orig) # {}
    BY <1>3 DEF ReplyPin
  <2>2. i \in 1 .. Len(awaiting) /\ awaiting[i].mid = env.orig
    BY <2>1, <1>2 DEF Pins
  <2>3. targets \in SetToSeqs(S)
    BY <1>3 DEF Candidates
  <2>4. S \subseteq live /\ \A e \in S : e.sid = awaiting[i].sid
    BY DEF SessionsById
  <2> HIDE DEF S, i
  <2>5. IsFiniteSet(S)
    BY <1>1, <2>4, FS_Subset
  <2>6. targets \in Seq(S)
    BY <2>3, <2>5, ListedInSet
  <2>7. targets \in Seq(Entries)
    BY <2>4, <2>6, <1>1, SeqMonotonic
  <2>8. \A j \in 1 .. Len(targets) : targets[j].sid = awaiting[i].sid
    BY <2>4, <2>6, ElementOfSeq
  <2> QED
    BY <2>1, <2>2, <2>7, <2>8
<1>4. CASE ReplyPin(env) = NoMid
  <2>1. PICK order \in Rankings(env.project) : targets = Cut(order)
    BY <1>4 DEF Candidates
  <2> DEFINE S == {e \in live : e.project = env.project /\ e.ok}
  <2>2. order \in SetToSeqs(S)
    BY <2>1 DEF Rankings
  <2>3. S \subseteq live
    OBVIOUS
  <2> HIDE DEF S
  <2>4. order \in Seq(S)
    BY <2>2, <2>3, <1>1, FS_Subset, ListedInSet
  <2>5. order \in Seq(Entries)
    BY <2>3, <2>4, <1>1, SeqMonotonic
  <2> DEFINE n == IF Len(order) < Attempts THEN Len(order) ELSE Attempts
  <2>6. n \in Int /\ n <= Len(order) /\ Len(order) \in Nat
    BY <2>5, LenProperties, Constants
  <2>7. \A i \in 1 .. n : order[i] \in Entries
    BY <2>5, <2>6, ElementOfSeq
  <2>8. targets = SubSeq(order, 1, n)
    BY <2>1 DEF Cut
  <2> HIDE DEF n
  <2>9. targets \in Seq(Entries)
    BY <2>6, <2>7, <2>8, SubSeqProperties
  <2> QED
    BY <1>4, <2>9
<1> QED
  BY <1>3, <1>4

(***************************************************************************)
(* A message is added to the queue of a socket: the queue keeps its bound,  *)
(* and loses an older one only when it is at the bound.                     *)
(***************************************************************************)
Queues(queues) ==
  /\ queues \in [Sock -> Seq(Nat)]
  /\ \A s \in Sock : Len(queues[s]) <= PendingMax

LEMMA PendKeeps ==
  ASSUME NEW queues, Queues(queues), NEW sock \in Sock, NEW mid \in Nat
  PROVE  /\ Queues(Pend(queues, sock, mid))
         /\ \A s \in Sock : \/ Range(queues[s]) \subseteq Range(Pend(queues, sock, mid)[s])
                            \/ Len(Pend(queues, sock, mid)[s]) = PendingMax
<1> DEFINE q == queues[sock]
           r == IF Len(q) < PendingMax THEN q ELSE Tail(q)
           next == Append(r, mid)
<1>1. q \in Seq(Nat) /\ Len(q) \in Nat /\ Len(q) <= PendingMax
  BY LenProperties DEF Queues
<1>2. Pend(queues, sock, mid) = [queues EXCEPT ![sock] = next]
  BY DEF Pend
<1>3. r \in Seq(Nat) /\ Len(r) \in Nat /\ Len(r) + 1 <= PendingMax
      /\ (r = q \/ Len(r) + 1 = PendingMax)
  <2>1. CASE Len(q) < PendingMax
    BY <2>1, <1>1, Constants
  <2>2. CASE ~ (Len(q) < PendingMax)
    <3>1. Len(q) = PendingMax /\ q # <<>>
      BY <2>2, <1>1, Constants, EmptySeq
    <3>2. Tail(q) \in Seq(Nat) /\ Len(Tail(q)) = Len(q) - 1
      BY <3>1, <1>1, HeadTailProperties
    <3>3. r = Tail(q)
      BY <2>2
    <3> HIDE DEF r, q
    <3> QED
      BY <3>1, <3>2, <3>3, Constants
  <2> QED BY <2>1, <2>2
<1> HIDE DEF r
<1>4. /\ next \in Seq(Nat) /\ Len(next) = Len(r) + 1
      /\ \A i \in 1 .. Len(r) : next[i] = r[i]
  BY <1>3, AppendProperties
<1>5. Range(r) \subseteq Range(next)
  <2> SUFFICES ASSUME NEW x \in Range(r) PROVE x \in Range(next)
    OBVIOUS
  <2>1. PICK i \in 1 .. Len(r) : r[i] = x
    BY <1>3, RangeEquality
  <2>2. i \in 1 .. Len(next) /\ next[i] = x
    BY <2>1, <1>3, <1>4
  <2> QED
    BY <2>2, <1>4, RangeEquality
<1> HIDE DEF next
<1>6. Queues(Pend(queues, sock, mid))
  BY <1>2, <1>3, <1>4 DEF Queues
<1>7. ASSUME NEW s \in Sock
      PROVE  \/ Range(queues[s]) \subseteq Range(Pend(queues, sock, mid)[s])
             \/ Len(Pend(queues, sock, mid)[s]) = PendingMax
  <2>1. CASE s # sock
    BY <2>1, <1>2 DEF Queues
  <2>2. CASE s = sock
    <3>1. Pend(queues, sock, mid)[s] = next
      BY <2>2, <1>2 DEF Queues
    <3> QED
      BY <3>1, <2>2, <1>3, <1>4, <1>5
  <2> QED BY <2>1, <2>2
<1> QED
  BY <1>6, <1>7

(***************************************************************************)
(* A refusal takes the message, and nothing else, from its socket's queue.  *)
(***************************************************************************)
LEMMA UnpendKeeps ==
  ASSUME PendingInv, NEW sock \in Sock, NEW mid
  PROVE  /\ Queues(Unpend(sock, mid))
         /\ \A s \in Sock : /\ Range(pending[s]) \ {mid} \subseteq Range(Unpend(sock, mid)[s])
                            /\ s # sock => Unpend(sock, mid)[s] = pending[s]
<1> DEFINE r == RemoveFirst(pending[sock], mid)
<1>1. /\ r \in Seq(Nat) /\ Len(r) <= Len(pending[sock])
      /\ Range(pending[sock]) \ {mid} \subseteq Range(r)
  BY RemovedFirst DEF PendingInv
<1>2. Unpend(sock, mid) = [pending EXCEPT ![sock] = r]
  BY DEF Unpend
<1>3. Len(r) \in Nat /\ Len(pending[sock]) \in Nat /\ Len(pending[sock]) <= PendingMax
      /\ PendingMax \in Nat
  BY <1>1, LenProperties, Constants DEF PendingInv
<1> HIDE DEF r
<1>4. Len(r) <= PendingMax
  BY <1>1, <1>3
<1> QED
  BY <1>1, <1>2, <1>4 DEF PendingInv, Queues

(***************************************************************************)
(* A pin is added: the pins before it stay but for the oldest one, which    *)
(* goes when there were AWAITING_REPLY_MAX.                                 *)
(***************************************************************************)
LEMMA PinAdds ==
  ASSUME AwaitingInv, NEW k \in 1 .. MaxPosts, NEW sid \in Sid
  PROVE  /\ Pin(k, sid) \in Seq([mid : 1 .. MaxPosts, sid : Sid])
         /\ \E d \in {0, 1} :
              /\ Len(Pin(k, sid)) = Len(awaiting) + 1 - d
              /\ Len(Pin(k, sid)) <= AwaitingMax /\ 0 < Len(Pin(k, sid))
              /\ d = 1 => Len(awaiting) = AwaitingMax
              /\ \A i \in 1 .. Len(Pin(k, sid)) :
                   Pin(k, sid)[i] = IF i + d <= Len(awaiting) THEN awaiting[i + d]
                                    ELSE [mid |-> k, sid |-> sid]
<1> DEFINE P == [mid : 1 .. MaxPosts, sid : Sid]
           new == [mid |-> k, sid |-> sid]
           all == Append(awaiting, new)
<1>1. awaiting \in Seq(P) /\ Len(awaiting) \in Nat /\ Len(awaiting) <= AwaitingMax
      /\ AwaitingMax \in Nat \ {0}
  BY LenProperties, Constants DEF AwaitingInv
<1>2. new \in P
  OBVIOUS
<1> HIDE DEF P, new
<1>3. /\ all \in Seq(P) /\ all # <<>> /\ Len(all) = Len(awaiting) + 1
      /\ \A i \in 1 .. Len(awaiting) : all[i] = awaiting[i]
      /\ all[Len(awaiting) + 1] = new
  BY <1>1, <1>2, AppendProperties
<1>4. Pin(k, sid) = IF Len(all) > AwaitingMax THEN Tail(all) ELSE all
  BY DEF Pin, new
<1> HIDE DEF all
<1>5. CASE Len(all) > AwaitingMax
  <2>1. Pin(k, sid) = Tail(all)
    BY <1>4, <1>5
  <2>2. /\ Tail(all) \in Seq(P) /\ Len(Tail(all)) = Len(awaiting)
        /\ \A i \in 1 .. Len(Tail(all)) : Tail(all)[i] = all[i + 1]
    BY <1>1, <1>3, HeadTailProperties
  <2>3. Len(awaiting) = AwaitingMax
    BY <1>1, <1>3, <1>5
  <2>4. \A i \in 1 .. Len(Tail(all)) :
          Tail(all)[i] = IF i + 1 <= Len(awaiting) THEN awaiting[i + 1] ELSE new
    <3> SUFFICES ASSUME NEW i \in 1 .. Len(Tail(all))
                 PROVE  Tail(all)[i] = IF i + 1 <= Len(awaiting) THEN awaiting[i + 1] ELSE new
      OBVIOUS
    <3>1. i \in 1 .. Len(awaiting) /\ Tail(all)[i] = all[i + 1]
      BY <2>2
    <3>2. CASE i + 1 <= Len(awaiting)
      BY <3>1, <3>2, <1>1, <1>3
    <3>3. CASE ~ (i + 1 <= Len(awaiting))
      <4>1. i = Len(awaiting)
        BY <3>1, <3>3, <1>1
      <4> QED
        BY <3>1, <4>1, <3>3, <1>3
    <3> QED BY <3>2, <3>3
  <2>5. Len(Tail(all)) = Len(awaiting) + 1 - 1 /\ 0 < Len(Tail(all))
    BY <2>2, <2>3, <1>1
  <2> QED
    BY <1>1, <2>1, <2>2, <2>3, <2>4, <2>5 DEF P, new
<1>6. CASE ~ (Len(all) > AwaitingMax)
  <2>1. Pin(k, sid) = all
    BY <1>4, <1>6
  <2>2. \A i \in 1 .. Len(all) :
          all[i] = IF i + 0 <= Len(awaiting) THEN awaiting[i + 0] ELSE new
    <3> SUFFICES ASSUME NEW i \in 1 .. Len(awaiting) + 1
                 PROVE  all[i] = IF i <= Len(awaiting) THEN awaiting[i] ELSE new
      BY <1>1, <1>3
    <3>1. CASE i <= Len(awaiting)
      BY <3>1, <1>1, <1>3
    <3>2. CASE ~ (i <= Len(awaiting))
      <4>1. i = Len(awaiting) + 1
        BY <3>2, <1>1
      <4> QED
        BY <4>1, <3>2, <1>3
    <3> QED BY <3>1, <3>2
  <2>3. Len(all) <= AwaitingMax /\ 0 < Len(all) /\ Len(all) = Len(awaiting) + 1 - 0
    BY <1>1, <1>3, <1>6
  <2> QED
    BY <1>3, <2>1, <2>2, <2>3 DEF P, new
<1> QED
  BY <1>5, <1>6

(***************************************************************************)
(* A pin is retired: every other pin stays.                                 *)
(***************************************************************************)
LEMMA UnpinRemoves ==
  ASSUME AwaitingInv, NEW k
  PROVE  \/ /\ Unpin(k) = awaiting
            /\ \A i \in 1 .. Len(awaiting) : awaiting[i].mid # k
         \/ \E p \in 1 .. Len(awaiting) :
              /\ awaiting[p].mid = k
              /\ Unpin(k) \in Seq([mid : 1 .. MaxPosts, sid : Sid])
              /\ Len(Unpin(k)) = Len(awaiting) - 1
              /\ \A i \in 1 .. Len(awaiting) - 1 :
                   Unpin(k)[i] = IF i < p THEN awaiting[i] ELSE awaiting[i + 1]
<1>1. DOMAIN awaiting = 1 .. Len(awaiting)
  BY LenProperties DEF AwaitingInv
<1>2. CASE Pins(k) = {}
  BY <1>1, <1>2 DEF Unpin, Pins
<1>3. CASE Pins(k) # {}
  <2> DEFINE p == CHOOSE i \in Pins(k) : TRUE
  <2>1. p \in 1 .. Len(awaiting) /\ awaiting[p].mid = k
    BY <1>1, <1>3 DEF Pins
  <2>2. Unpin(k) = RemoveAt(awaiting, p)
    BY <1>3 DEF Unpin
  <2> HIDE DEF p
  <2>3. /\ RemoveAt(awaiting, p) \in Seq([mid : 1 .. MaxPosts, sid : Sid])
        /\ Len(RemoveAt(awaiting, p)) = Len(awaiting) - 1
        /\ \A i \in 1 .. Len(awaiting) - 1 :
             RemoveAt(awaiting, p)[i] = IF i < p THEN awaiting[i] ELSE awaiting[i + 1]
    BY <2>1, RemovedAt DEF AwaitingInv
  <2> QED
    BY <2>1, <2>2, <2>3
<1> QED
  BY <1>2, <1>3

LEMMA PinTyped ==
  ASSUME AwaitingInv
  PROVE  /\ Len(awaiting) \in Nat /\ DOMAIN awaiting = 1 .. Len(awaiting)
         /\ \A i \in 1 .. Len(awaiting) :
              awaiting[i].mid \in 1 .. MaxPosts /\ awaiting[i].mid \in Nat /\ awaiting[i].sid \in Sid
<1> DEFINE P == [mid : 1 .. MaxPosts, sid : Sid]
<1>1. awaiting \in Seq(P)
  BY DEF AwaitingInv
<1> HIDE DEF P
<1>2. \A i \in 1 .. Len(awaiting) : awaiting[i] \in P
  BY <1>1, ElementOfSeq
<1>3. \A x \in P : x.mid \in 1 .. MaxPosts /\ x.mid \in Nat /\ x.sid \in Sid
  BY Constants DEF P
<1> QED
  BY <1>1, <1>2, <1>3, LenProperties

(***************************************************************************)
(* Retiring a pin keeps the order of the others.                            *)
(***************************************************************************)
LEMMA UnpinKeepsOrder ==
  ASSUME AwaitingInv, HistoryInv, NEW k, awaiting' = Unpin(k), posts' = posts
  PROVE  AwaitingInv'
<1>1. CASE Unpin(k) = awaiting
  BY <1>1 DEF AwaitingInv
<1>2. ASSUME NEW p \in 1 .. Len(awaiting),
             Unpin(k) \in Seq([mid : 1 .. MaxPosts, sid : Sid]),
             Len(Unpin(k)) = Len(awaiting) - 1,
             \A i \in 1 .. Len(awaiting) - 1 :
               Unpin(k)[i] = IF i < p THEN awaiting[i] ELSE awaiting[i + 1]
      PROVE  AwaitingInv'
  <2> DEFINE n == Len(awaiting)
             f(i) == IF i < p THEN i ELSE i + 1
  <2>1. n \in Nat /\ p \in 1 .. n /\ n <= AwaitingMax /\ AwaitingMax \in Nat
        /\ Len(posts) \in Nat
    BY LenProperties, Constants DEF AwaitingInv, HistoryInv
  <2>2. \A i \in 1 .. n : awaiting[i].mid \in Nat
    BY PinTyped
  <2>3. Len(awaiting') = n - 1
    BY <1>2
  <2>4. \A i \in 1 .. n - 1 : f(i) \in 1 .. n /\ awaiting'[i] = awaiting[f(i)]
                              /\ n - f(i) >= (n - 1) - i
    BY <1>2, <2>1, SMTT(60)
  <2>5. \A i, j \in 1 .. n - 1 : i < j => f(i) < f(j) /\ f(j) - f(i) >= j - i
    BY <2>1
  <2>6. \A i \in 1 .. n - 1 : f(i) \in Nat
    BY <2>1
  <2> HIDE DEF f
  <2>7. ASSUME NEW i \in 1 .. n - 1
        PROVE  awaiting'[i].mid + ((n - 1) - i) <= Len(posts)
    <3>1. awaiting[f(i)].mid + (n - f(i)) <= Len(posts) /\ awaiting[f(i)].mid \in Nat
      BY <2>2, <2>4 DEF AwaitingInv
    <3>2. /\ awaiting'[i].mid = awaiting[f(i)].mid
          /\ n - f(i) >= (n - 1) - i /\ n - f(i) \in Int /\ (n - 1) - i \in Int
      BY <2>1, <2>4, <2>6
    <3>3. \A mid \in Nat, a, b \in Int :
            mid + a <= Len(posts) /\ a >= b => mid + b <= Len(posts)
      BY <2>1
    <3> HIDE DEF n
    <3> QED
      BY <3>1, <3>2, <3>3
  <2>8. ASSUME NEW i \in 1 .. n - 1, NEW j \in 1 .. n - 1, i < j
        PROVE  awaiting'[i].mid + (j - i) <= awaiting'[j].mid
    <3>1. awaiting[f(i)].mid + (f(j) - f(i)) <= awaiting[f(j)].mid
      BY <2>4, <2>5, <2>8 DEF AwaitingInv
    <3>2. awaiting[f(i)].mid \in Nat /\ awaiting[f(j)].mid \in Nat
      BY <2>2, <2>4
    <3>3. /\ f(i) \in Nat /\ f(j) \in Nat /\ i \in Nat /\ j \in Nat
          /\ f(j) - f(i) >= j - i
      BY <2>1, <2>5, <2>6, <2>8
    <3>4. awaiting[f(i)].mid + (j - i) <= awaiting[f(j)].mid
      <4>1. \A a, b, x, y \in Nat : a + (y - x) <= b /\ y - x >= j - i => a + (j - i) <= b
        BY <3>3
      <4> QED
        BY <3>1, <3>2, <3>3, <4>1
    <3> QED
      BY <3>4, <2>4
  <2>9. awaiting' \in Seq([mid : 1 .. MaxPosts, sid : Sid]) /\ n - 1 <= AwaitingMax
    BY <1>2, <2>1
  <2> QED
    BY <2>3, <2>7, <2>8, <2>9 DEF AwaitingInv
<1> QED
  BY <1>1, <1>2, UnpinRemoves

(***************************************************************************)
(* A pin for the message just posted goes to the end.                       *)
(***************************************************************************)
LEMMA PinKeepsOrder ==
  ASSUME AwaitingInv, HistoryInv, Len(posts) < MaxPosts, NEW sid \in Sid,
         awaiting' = Pin(Len(posts) + 1, sid), Len(posts') = Len(posts) + 1
  PROVE  AwaitingInv'
<1> DEFINE n == Len(awaiting)
           k == Len(posts) + 1
<1>1. n \in Nat /\ AwaitingMax \in Nat /\ Len(posts) \in Nat /\ MaxPosts \in Nat
  BY LenProperties, Constants DEF AwaitingInv, HistoryInv
<1>2. k \in 1 .. MaxPosts
  BY <1>1
<1>3. \A i \in 1 .. n : awaiting[i].mid \in Nat
  BY PinTyped
<1>4. PICK d \in {0, 1} :
        /\ Len(awaiting') = n + 1 - d
        /\ Len(awaiting') <= AwaitingMax
        /\ \A i \in 1 .. Len(awaiting') :
             awaiting'[i] = IF i + d <= n THEN awaiting[i + d] ELSE [mid |-> k, sid |-> sid]
  BY <1>2, PinAdds, SMTT(60)
<1>5. awaiting' \in Seq([mid : 1 .. MaxPosts, sid : Sid])
  BY <1>2, PinAdds
<1> DEFINE mid(i) == IF i <= n THEN awaiting[i].mid ELSE k
<1>6. \A i \in 1 .. Len(awaiting') : awaiting'[i].mid = mid(i + d) /\ i + d \in 1 .. n + 1
  BY <1>1, <1>4
<1>7. \A i \in 1 .. n + 1 : mid(i) \in Nat /\ mid(i) + (n + 1 - i) <= k
  <2> SUFFICES ASSUME NEW i \in 1 .. n + 1
               PROVE  mid(i) \in Nat /\ mid(i) + (n + 1 - i) <= k
    OBVIOUS
  <2>1. CASE i <= n
    <3>1. awaiting[i].mid + (n - i) <= Len(posts) /\ awaiting[i].mid \in Nat
      BY <2>1, <1>1, <1>3 DEF AwaitingInv
    <3> QED
      BY <3>1, <2>1, <1>1
  <2>2. CASE ~ (i <= n)
    BY <2>2, <1>1
  <2> QED BY <2>1, <2>2
<1>8. \A i, j \in 1 .. n + 1 : i < j => mid(i) + (j - i) <= mid(j)
  <2> SUFFICES ASSUME NEW i \in 1 .. n + 1, NEW j \in 1 .. n + 1, i < j
               PROVE  mid(i) + (j - i) <= mid(j)
    OBVIOUS
  <2>1. CASE j <= n
    BY <2>1, <1>1 DEF AwaitingInv
  <2>2. CASE ~ (j <= n)
    <3>1. j = n + 1 /\ mid(j) = k
      BY <2>2, <1>1
    <3> HIDE DEF mid
    <3> QED
      BY <3>1, <1>7
  <2> QED BY <2>1, <2>2
<1> HIDE DEF mid
<1>9. ASSUME NEW i \in 1 .. Len(awaiting')
      PROVE  awaiting'[i].mid + (Len(awaiting') - i) <= k
  <2>1. mid(i + d) + (n + 1 - (i + d)) <= k /\ mid(i + d) \in Nat
    BY <1>6, <1>7
  <2> QED
    BY <2>1, <1>1, <1>4, <1>6
<1>10. ASSUME NEW i \in 1 .. Len(awaiting'), NEW j \in 1 .. Len(awaiting'), i < j
       PROVE  awaiting'[i].mid + (j - i) <= awaiting'[j].mid
  <2>1. i + d \in 1 .. n + 1 /\ j + d \in 1 .. n + 1 /\ i + d < j + d
        /\ (j + d) - (i + d) = j - i
    BY <1>1, <1>4, <1>6, <1>10
  <2>2. mid(i + d) + (j - i) <= mid(j + d)
    BY <2>1, <1>8
  <2> QED
    BY <2>2, <1>6
<1> QED
  BY <1>4, <1>5, <1>9, <1>10 DEF AwaitingInv

(***************************************************************************)
(* What the dedup table holds after check, and after record.                *)
(***************************************************************************)
LEMMA EvictedIs ==
  /\ DOMAIN Evicted = {m \in DOMAIN seen : seen[m] >= now - Window}
  /\ \A m \in DOMAIN Evicted : Evicted[m] = seen[m]
BY DEF Evicted

LEMMA RecordedIs ==
  ASSUME NEW mid
  PROVE  /\ DOMAIN Recorded(mid) = DOMAIN Evicted \cup {mid}
         /\ Recorded(mid)[mid] = now
         /\ \A m \in DOMAIN Evicted : m # mid => Recorded(mid)[m] = seen[m]
BY EvictedIs DEF Recorded

(***************************************************************************)
(* Telling a session something leaves the table of news, and the history of *)
(* what was told, typed.                                                    *)
(***************************************************************************)
LEMMA NewsTyped ==
  ASSUME TypeInv, NEW sid \in Sid, NEW kind \in Kind, StartNotice(sid, kind)
  PROVE  /\ DOMAIN notified' \subseteq News
         /\ \A k \in DOMAIN notified' : notified'[k] \in 0 .. now
         /\ told' \in [News -> Seq(0 .. now)]
<1> DEFINE key == <<sid, kind>>
<1>1. /\ notified' = Notified(key)
      /\ told' = [told EXCEPT ![key] = Append(@, now)]
  BY DEF StartNotice
<1>2. key \in News
  BY DEF News
<1>3. /\ DOMAIN notified \subseteq News
      /\ \A k \in DOMAIN notified : notified[k] \in 0 .. now
      /\ told \in [News -> Seq(0 .. now)]
      /\ now \in 0 .. now
  BY DEF TypeInv, MemoryInv, TimeInv
<1> HIDE DEF key
<1>4. DOMAIN notified' \subseteq News
  BY <1>1, <1>2, <1>3 DEF Notified
<1>5. ASSUME NEW k \in DOMAIN notified'
      PROVE  notified'[k] \in 0 .. now
  <2>1. CASE k = key
    BY <1>1, <1>3, <2>1 DEF Notified
  <2>2. CASE k # key
    BY <1>1, <1>3, <2>2 DEF Notified
  <2> QED
    BY <2>1, <2>2
<1>6. Append(told[key], now) \in Seq(0 .. now)
  BY <1>2, <1>3, AppendProperties
<1> QED
  BY <1>1, <1>3, <1>4, <1>5, <1>6

(***************************************************************************)
(* A message is offered to the first of its candidates.                     *)
(***************************************************************************)
LEMMA OfferTyped ==
  ASSUME NEW env, env.mid \in Nat, NEW targets \in Seq(Entries), targets # <<>>,
         NEW pin \in Nat, NEW queues, Queues(queues), Offer(env, targets, pin, queues)
  PROVE  ReaderInv' /\ PendingInv'
<1>1. Head(targets) \in Entries
  BY HeadTailProperties
<1>2. Head(targets).sock \in Sock
  BY <1>1 DEF Sock
<1>3. Queues(pending')
  BY <1>2, PendKeeps DEF Offer
<1> QED
  BY <1>3 DEF Offer, ReaderInv, PendingInv, Queues

LEMMA InitTypeInv == Init => TypeInv
<1> SUFFICES ASSUME Init PROVE TypeInv
  OBVIOUS
<1> USE DEF Init
<1>1. LiveInv
  BY FS_EmptySet DEF LiveInv
<1>2. TimeInv
  BY Constants DEF TimeInv
<1>3. PendingInv
  BY EmptySeq, Constants DEF PendingInv, NothingPending
<1>4. AwaitingInv
  BY EmptySeq, Constants DEF AwaitingInv
<1>5. MemoryInv
  BY EmptySeq DEF MemoryInv, EmptyMap, NothingTold
<1>6. ReaderInv
  BY DEF ReaderInv, Idle
<1>7. HistoryInv
  BY EmptySeq, Constants DEF HistoryInv
<1> QED
  BY <1>1, <1>2, <1>3, <1>4, <1>5, <1>6, <1>7 DEF TypeInv

(***************************************************************************)
(* A message comes from the hub, or comes again.                            *)
(***************************************************************************)
LEMMA DeliverTyped ==
  ASSUME TypeInv, NEW env \in Inbound, DeliverDuplicate(env) \/ Deliver(env)
  PROVE  TypeInv'
<1> USE DEF TypeInv
<1>1. env.mid \in Nat /\ env.orig \in Nat
  BY InboundIs
<1>2. /\ UNCHANGED <<live, now, awaiting, notified, told, spawned, posts, taken, restarts>>
      /\ seen' = Evicted /\ acked' \subseteq acked \cup {env.mid}
  BY DEF DeliverDuplicate, Deliver, history
<1>3. LiveInv' /\ TimeInv' /\ AwaitingInv'
  BY <1>2 DEF LiveInv, TimeInv, AwaitingInv
<1>4. MemoryInv'
  BY <1>2, EvictedIs DEF MemoryInv
<1>5. HistoryInv'
  BY <1>1, <1>2 DEF HistoryInv
<1>6. PendingInv' /\ ReaderInv'
  <2>1. CASE DeliverDuplicate(env)
    BY <2>1 DEF DeliverDuplicate, PendingInv, ReaderInv
  <2>2. CASE Deliver(env)
    <3> PICK targets \in Candidates(env) :
          IF targets = <<>> THEN UNCHANGED <<reader, pending>>
          ELSE Offer(env, targets, ReplyPin(env), pending)
      BY <2>2 DEF Deliver
    <3>1. CASE targets = <<>>
      BY <3>1 DEF PendingInv, ReaderInv
    <3>2. CASE targets # <<>>
      <4>1. Offer(env, targets, ReplyPin(env), pending)
        BY <3>2
      <4>2. targets \in Seq(Entries)
        BY CandidatesAreLive
      <4>3. ReplyPin(env) \in Nat
        BY <1>1 DEF ReplyPin, NoMid
      <4>4. Queues(pending)
        BY DEF Queues, PendingInv
      <4> QED
        BY <1>1, <3>2, <4>1, <4>2, <4>3, <4>4, OfferTyped
    <3> QED BY <3>1, <3>2
  <2> QED BY <2>1, <2>2
<1> QED
  BY <1>3, <1>4, <1>5, <1>6

(***************************************************************************)
(* What inject does, and how it ends.                                       *)
(***************************************************************************)
LEMMA InjectTyped ==
  ASSUME TypeInv, InjectStep
  PROVE  TypeInv'
<1> USE DEF TypeInv
<1>1. CASE InjectWritten
  <2>1. UNCHANGED <<live, now, pending, awaiting, seen, notified, told, spawned, acked,
                    posts, restarts>>
    BY <1>1 DEF InjectWritten, memory
  <2>2. LiveInv' /\ TimeInv' /\ PendingInv' /\ AwaitingInv' /\ MemoryInv'
    BY <2>1 DEF LiveInv, TimeInv, PendingInv, AwaitingInv, MemoryInv
  <2>3. ReaderInv'
    BY <1>1 DEF InjectWritten, ReaderInv
  <2>4. HistoryInv'
    <3> SUFFICES ASSUME NEW t \in taken'
                 PROVE  t.mid \in Nat /\ t.at \in 0 .. now /\ t.life \in 0 .. restarts
      BY <2>1 DEF HistoryInv
    <3>1. t \in taken \/ t = [mid |-> reader.env.mid, sid |-> Target.sid,
                               at |-> now, life |-> restarts]
      BY <1>1 DEF InjectWritten
    <3>2. reader.env.mid \in Nat
      BY <1>1 DEF InjectWritten, ReaderInv
    <3>3. now \in 0 .. now /\ restarts \in 0 .. restarts
      BY DEF TimeInv
    <3>4. CASE t \in taken
      BY <3>4 DEF HistoryInv
    <3>5. CASE t = [mid |-> reader.env.mid, sid |-> Target.sid,
                    at |-> now, life |-> restarts]
      BY <3>2, <3>3, <3>5
    <3> QED
      BY <3>1, <3>4, <3>5
  <2> QED
    BY <2>2, <2>3, <2>4
<1>2. CASE InjectReturns
  <2>1. /\ UNCHANGED <<live, now, pending, notified, told, spawned, posts, taken, restarts>>
        /\ reader' = Idle /\ awaiting' = Unpin(reader.pin)
        /\ seen' = Recorded(reader.env.mid) /\ acked' = acked \cup {reader.env.mid}
    BY <1>2 DEF InjectReturns
  <2>2. reader.env.mid \in Nat
    BY <1>2 DEF InjectReturns, ReaderInv
  <2>3. LiveInv' /\ TimeInv' /\ PendingInv' /\ ReaderInv' /\ HistoryInv'
    BY <2>1, <2>2 DEF LiveInv, TimeInv, PendingInv, ReaderInv, Idle, HistoryInv
  <2>4. MemoryInv'
    <3> SUFFICES ASSUME NEW m \in DOMAIN seen' PROVE m \in Nat /\ seen'[m] \in 0 .. now
      BY <2>1 DEF MemoryInv
    <3>1. CASE m = reader.env.mid
      <4>1. Recorded(m)[m] = now
        BY RecordedIs
      <4>2. now \in 0 .. now
        BY DEF TimeInv
      <4> QED
        BY <3>1, <4>1, <4>2, <2>1, <2>2
    <3>2. CASE m # reader.env.mid
      <4>1. m \in DOMAIN seen /\ seen'[m] = seen[m]
        BY <3>2, <2>1, RecordedIs, EvictedIs
      <4> QED
        BY <4>1 DEF MemoryInv
    <3> QED BY <3>1, <3>2
  <2>5. AwaitingInv'
    BY <2>1, UnpinKeepsOrder
  <2> QED
    BY <2>3, <2>4, <2>5
<1>3. CASE InjectRefused
  <2> DEFINE rest == Tail(reader.targets)
             queues == Unpend(Target.sock, reader.env.mid)
  <2>1. /\ UNCHANGED <<live, now, awaiting, seen, notified, told, spawned,
                       acked, posts, taken, restarts>>
        /\ reader.pc = "injecting"
    BY <1>3 DEF InjectRefused, history
  <2>2. LiveInv' /\ TimeInv' /\ AwaitingInv' /\ MemoryInv' /\ HistoryInv'
    BY <2>1 DEF LiveInv, TimeInv, AwaitingInv, MemoryInv, HistoryInv
  <2>3. /\ reader.targets \in Seq(Entries) /\ reader.targets # <<>>
        /\ reader.env.mid \in Nat /\ reader.pin \in Nat
    BY <2>1 DEF ReaderInv
  <2>4. Target \in Entries /\ rest \in Seq(Entries)
    BY <2>3, HeadTailProperties DEF Target
  <2>5. Target.sock \in Sock
    BY <2>4 DEF Sock
  <2>6. Queues(queues)
    BY <2>5, UnpendKeeps
  <2>7. PendingInv' /\ ReaderInv'
    <3>1. CASE rest = <<>>
      <4>1. reader' = Idle /\ pending' = queues
        BY <1>3, <3>1 DEF InjectRefused
      <4> QED
        BY <4>1, <2>6 DEF Queues, PendingInv, ReaderInv, Idle
    <3>2. CASE rest # <<>>
      <4>1. Offer(reader.env, rest, reader.pin, queues)
        BY <1>3, <3>2 DEF InjectRefused
      <4> HIDE DEF rest, queues
      <4> QED
        BY <4>1, <2>3, <2>4, <2>6, <3>2, OfferTyped
    <3> QED BY <3>1, <3>2
  <2> QED
    BY <2>2, <2>7
<1>4. CASE InjectRaises
  BY <1>4 DEF InjectRaises, memory, history, LiveInv, TimeInv, PendingInv, AwaitingInv,
     MemoryInv, ReaderInv, Idle, HistoryInv
<1> QED
  BY <1>1, <1>2, <1>3, <1>4 DEF InjectStep

(***************************************************************************)
(* What the hub's status or a task of _spawn_notify tells, it tells one of  *)
(* the sessions.                                                            *)
(***************************************************************************)
LEMMA NewsIsTold ==
  ASSUME TypeInv,
         \/ \E k \in DOMAIN posts, kind \in Held : HubStatus(k, kind)
         \/ StatusTold \/ NoticeTask
  PROVE  \/ UNCHANGED <<notified, told>>
         \/ \E sid \in Sid, kind \in Kind : StartNotice(sid, kind)
<1>1. ASSUME NEW k \in DOMAIN posts, NEW kind \in Held, HubStatus(k, kind)
      PROVE  \E sid \in Sid, news \in Kind : StartNotice(sid, news)
  <2>1. PICK i \in Pins(k) : StartNotice(awaiting[i].sid, kind)
    BY <1>1 DEF HubStatus
  <2>2. awaiting[i].sid \in Sid
    BY PinTyped DEF Pins, TypeInv
  <2> QED
    BY <2>1, <2>2 DEF Kind
<1>2. CASE StatusTold
  BY <1>2 DEF StatusTold, memory
<1>3. CASE NoticeTask
  <2>1. Head(spawned) \in Sid
    BY <1>3, HeadTailProperties DEF NoticeTask, TypeInv, MemoryInv
  <2> QED
    BY <1>3, <2>1 DEF NoticeTask, Kind
<1> QED
  BY <1>1, <1>2, <1>3

(***************************************************************************)
(* Notices, of either kind, are begun and ended.                            *)
(***************************************************************************)
LEMMA NoticeTyped ==
  ASSUME TypeInv,
         \/ \E k \in DOMAIN posts, kind \in Held : HubStatus(k, kind)
         \/ StatusTold \/ NoticeTask
  PROVE  TypeInv'
<1> USE DEF TypeInv
<1>1. UNCHANGED <<live, now, pending, awaiting, seen, acked, posts, taken, restarts>>
  BY DEF HubStatus, StatusTold, NoticeTask, memory, history
<1>2. LiveInv' /\ TimeInv' /\ PendingInv' /\ AwaitingInv' /\ HistoryInv'
  BY <1>1 DEF LiveInv, TimeInv, PendingInv, AwaitingInv, HistoryInv
<1>3. ReaderInv'
  <2>1. reader' = reader \/ reader'.pc \in {"idle", "telling"}
    BY DEF HubStatus, StatusTold, NoticeTask, Idle
  <2> QED
    BY <2>1 DEF ReaderInv
<1>4. \/ UNCHANGED <<notified, told>>
      \/ \E sid \in Sid, kind \in Kind : StartNotice(sid, kind)
  BY NewsIsTold
<1>5. /\ DOMAIN notified' \subseteq News
      /\ \A k \in DOMAIN notified' : notified'[k] \in 0 .. now
      /\ told' \in [News -> Seq(0 .. now)]
  <2>1. CASE UNCHANGED <<notified, told>>
    BY <2>1 DEF MemoryInv
  <2>2. ASSUME NEW sid \in Sid, NEW kind \in Kind, StartNotice(sid, kind)
        PROVE  /\ DOMAIN notified' \subseteq News
               /\ \A k \in DOMAIN notified' : notified'[k] \in 0 .. now
               /\ told' \in [News -> Seq(0 .. now)]
    BY <2>2, NewsTyped
  <2> QED
    BY <1>4, <2>1, <2>2
<1>6. spawned' \in Seq(Sid)
  <2>1. CASE NoticeTask
    BY <2>1, HeadTailProperties DEF NoticeTask, MemoryInv
  <2>2. CASE ~ NoticeTask
    BY <2>2 DEF HubStatus, StatusTold, memory, MemoryInv
  <2> QED BY <2>1, <2>2
<1>7. MemoryInv'
  BY <1>1, <1>5, <1>6 DEF MemoryInv
<1> QED
  BY <1>2, <1>3, <1>7

(***************************************************************************)
(* A local session speaks.                                                  *)
(***************************************************************************)
LEMMA LocalTyped ==
  ASSUME TypeInv, NEW e \in Entries, LocalMessage(e) \/ LocalMessageNowhere(e)
  PROVE  TypeInv'
<1> USE DEF TypeInv
<1>1. e.sid \in Sid /\ e.sock \in Sock /\ e.project \in Project
  BY DEF Sid, Sock, Project
<1>2. CASE LocalMessage(e)
  <2> USE <1>2
  <2>1. UNCHANGED <<live, now, seen, notified, told, spawned, reader, acked, taken, restarts>>
    BY DEF LocalMessage
  <2>2. LiveInv' /\ TimeInv' /\ MemoryInv' /\ ReaderInv'
    BY <2>1 DEF LiveInv, TimeInv, MemoryInv, ReaderInv
  <2> DEFINE q == pending[e.sock]
             post == [sid |-> e.sid, sock |-> e.sock, project |-> e.project,
                      orig |-> NextPending(e.sock), life |-> restarts]
             S == [sid : Sid, sock : Sock, project : Project, orig : Nat, life : 0 .. restarts]
  <2>3. q \in Seq(Nat) /\ Len(q) <= PendingMax /\ Len(q) \in Nat
    BY <1>1, LenProperties DEF PendingInv
  <2>4. PendingInv'
    <3> DEFINE r == IF q = <<>> THEN <<>> ELSE Tail(q)
    <3>1. pending' = [pending EXCEPT ![e.sock] = r]
      BY DEF LocalMessage, Answered
    <3>2. r \in Seq(Nat) /\ Len(r) <= PendingMax
      <4>1. CASE q = <<>>
        BY <4>1, <2>3
      <4>2. CASE q # <<>>
        <5>1. Tail(q) \in Seq(Nat) /\ Len(Tail(q)) = Len(q) - 1
          BY <4>2, <2>3, HeadTailProperties
        <5> HIDE DEF q
        <5> QED
          BY <4>2, <5>1, <2>3, Constants
      <4> QED BY <4>1, <4>2
    <3> HIDE DEF r
    <3> QED
      BY <3>1, <3>2 DEF PendingInv
  <2>5. NextPending(e.sock) \in Nat
    BY <2>3, HeadTailProperties DEF NextPending, NoMid
  <2>6. post \in S
    BY <1>1, <2>5 DEF TimeInv
  <2>7. posts \in Seq(S) /\ Len(posts) \in Nat /\ Len(posts) < MaxPosts
    BY LenProperties DEF HistoryInv, LocalMessage
  <2> HIDE DEF S
  <2>8. posts' = Append(posts, post)
    BY DEF LocalMessage
  <2> HIDE DEF post
  <2>9. posts' \in Seq(S) /\ Len(posts') = Len(posts) + 1
    BY <2>6, <2>7, <2>8, AppendProperties
  <2>10. Len(posts') <= MaxPosts
    BY <2>7, <2>9, Constants
  <2>11. HistoryInv'
    BY <2>1, <2>9, <2>10 DEF HistoryInv, S
  <2>12. awaiting' = Pin(Len(posts) + 1, e.sid)
    BY DEF LocalMessage
  <2>13. AwaitingInv'
    BY <1>1, <2>7, <2>9, <2>12, PinKeepsOrder
  <2> QED
    BY <2>2, <2>4, <2>11, <2>13
<1>3. CASE LocalMessageNowhere(e)
  <2>1. /\ UNCHANGED <<live, now, pending, awaiting, seen, notified, told, reader,
                       acked, posts, taken, restarts>>
        /\ spawned' = Append(spawned, e.sid)
    BY <1>3 DEF LocalMessageNowhere, history
  <2>2. spawned' \in Seq(Sid)
    BY <1>1, <2>1, AppendProperties DEF MemoryInv
  <2> QED
    BY <2>1, <2>2 DEF LiveInv, TimeInv, PendingInv, AwaitingInv, MemoryInv, ReaderInv,
       HistoryInv
<1> QED
  BY <1>2, <1>3

(***************************************************************************)
(* Sessions come and go, time passes, the process is killed.                *)
(***************************************************************************)
LEMMA EnvironmentTyped ==
  ASSUME TypeInv,
         \/ \E e \in Entries : SessionStarts(e) \/ SessionEnds(e)
         \/ Tick \/ Restart
  PROVE  TypeInv'
<1> USE DEF TypeInv
<1>1. ASSUME NEW e \in Entries, SessionStarts(e) \/ SessionEnds(e)
      PROVE  TypeInv'
  <2>1. UNCHANGED <<now, pending, awaiting, seen, notified, told, spawned, reader, acked,
                    posts, taken, restarts>>
    BY <1>1 DEF SessionStarts, SessionEnds, memory, history
  <2>2. IsFiniteSet(live')
    BY <1>1, FS_AddElement, FS_Subset DEF SessionStarts, SessionEnds, LiveInv
  <2>3. LiveInv'
    BY <1>1, <2>2 DEF SessionStarts, SessionEnds, LiveInv
  <2> QED
    BY <2>1, <2>3 DEF TimeInv, PendingInv, AwaitingInv, MemoryInv, ReaderInv, HistoryInv
<1>2. CASE Tick
  <2>1. /\ UNCHANGED <<live, pending, awaiting, seen, notified, told, spawned, reader, acked,
                       posts, taken, restarts>>
        /\ now' = now + 1 /\ now < MaxTime /\ now \in 0 .. MaxTime
    BY <1>2 DEF Tick, memory, history, TimeInv
  <2>2. \A t : t \in 0 .. now => t \in 0 .. now'
    BY <2>1, Constants
  <2>3. TimeInv'
    BY <2>1, Constants DEF TimeInv
  <2>4. MemoryInv'
    <3>1. Seq(0 .. now) \subseteq Seq(0 .. now')
      BY <2>2, SeqMonotonic
    <3> QED
      BY <2>1, <2>2, <3>1 DEF MemoryInv
  <2>5. HistoryInv'
    BY <2>1, <2>2 DEF HistoryInv
  <2> QED
    BY <2>1, <2>3, <2>4, <2>5 DEF LiveInv, PendingInv, AwaitingInv, ReaderInv
<1>3. CASE Restart
  <2> USE <1>3 DEF Restart
  <2>1. LiveInv' /\ ReaderInv'
    BY DEF LiveInv, ReaderInv, Idle
  <2>2. TimeInv' /\ \A n : n \in 0 .. restarts => n \in 0 .. restarts'
    BY Constants DEF TimeInv
  <2>3. PendingInv'
    BY EmptySeq, Constants DEF PendingInv, NothingPending
  <2>4. AwaitingInv'
    BY EmptySeq, Constants DEF AwaitingInv
  <2>5. MemoryInv'
    BY EmptySeq DEF MemoryInv, EmptyMap, NothingTold
  <2>6. HistoryInv'
    <3> DEFINE S(n) == [sid : Sid, sock : Sock, project : Project, orig : Nat, life : 0 .. n]
    <3>1. S(restarts) \subseteq S(restarts')
      BY <2>2
    <3>2. posts \in Seq(S(restarts))
      BY DEF HistoryInv
    <3> HIDE DEF S
    <3>3. posts \in Seq(S(restarts'))
      BY <3>1, <3>2, SeqMonotonic
    <3>4. \A t \in taken : t.life \in 0 .. restarts'
      BY <2>2 DEF HistoryInv
    <3> QED
      BY <3>3, <3>4 DEF HistoryInv, S
  <2> QED
    BY <2>1, <2>2, <2>3, <2>4, <2>5, <2>6
<1> QED
  BY <1>1, <1>2, <1>3

LEMMA NextTypeInv ==
  ASSUME TypeInv, [Next]_vars
  PROVE  TypeInv'
<1>1. CASE UNCHANGED vars
  BY <1>1 DEF vars, TypeInv, LiveInv, TimeInv, PendingInv, AwaitingInv, MemoryInv, ReaderInv,
     HistoryInv
<1>2. ASSUME NEW env \in Inbound, DeliverDuplicate(env) \/ Deliver(env)
      PROVE  TypeInv'
  BY <1>2, DeliverTyped
<1>3. ASSUME NEW e \in Entries, LocalMessage(e) \/ LocalMessageNowhere(e)
      PROVE  TypeInv'
  BY <1>3, LocalTyped
<1> QED
  BY <1>1, <1>2, <1>3, InjectTyped, NoticeTyped, EnvironmentTyped DEF Next

(***************************************************************************)
(* The ferry's tables keep their types and their bounds: no more messages   *)
(* to answer per socket than PENDING_PER_SOCKET_MAX, no more pins than      *)
(* AWAITING_REPLY_MAX and at most one for a message, and nothing recorded   *)
(* at a later time than now.                                                *)
(***************************************************************************)
THEOREM TypeCorrect == Spec => []TypeOK
<1>1. TypeInv => TypeOK
  <2> SUFFICES ASSUME TypeInv PROVE TypeOK
    OBVIOUS
  <2>1. \A i, j \in DOMAIN awaiting : awaiting[i].mid = awaiting[j].mid => i = j
    <3> SUFFICES ASSUME NEW i \in 1 .. Len(awaiting), NEW j \in 1 .. Len(awaiting), i < j
                 PROVE  awaiting[i].mid # awaiting[j].mid
      <4>1. DOMAIN awaiting = 1 .. Len(awaiting) /\ Len(awaiting) \in Nat
        BY PinTyped DEF TypeInv
      <4>2. \A i, j \in 1 .. Len(awaiting) : i = j \/ i < j \/ j < i
        BY <4>1
      <4> QED
        BY <4>1, <4>2
    <3>1. awaiting[i].mid + (j - i) <= awaiting[j].mid /\ awaiting[i].mid \in Nat
          /\ Len(awaiting) \in Nat
      BY PinTyped DEF TypeInv, AwaitingInv
    <3> QED
      BY <3>1
  <2> QED
    BY <2>1 DEF TypeInv, LiveInv, TimeInv, PendingInv, AwaitingInv, MemoryInv, ReaderInv,
       HistoryInv, TypeOK
<1> QED
  BY InitTypeInv, NextTypeInv, <1>1, PTL DEF Spec
=============================================================================
